------------------------------- MODULE MCEvmap -------------------------------
(* Two readers and an event for both directions on descriptor d1, a writer on *)
(* d2, with epoll; or one of the other backends alone.                        *)
EXTENDS Evmap

CONSTANTS r1, r2, rw, w2, d1, d2, Parts, Names, MaxFd, Room, GetN, DuringReturn

ASSUME BackendsAssumption ==
  /\ MaxFd \in Nat /\ Room \in Nat \ {0} /\ GetN \in Nat
  /\ Parts \subseteq {"epoll", "other"}
  /\ Names \subseteq {"poll", "select", "win32", "devpoll", "kqueue", "evport"}

VARIABLES part, k
Other == INSTANCE OtherBackends

Fds == [e \in Event |-> IF e = w2 THEN d2 ELSE d1]
Kinds == [e \in Event |-> CASE e = w2 -> {"WRITE"}
                            [] e = rw -> {"READ", "WRITE"}
                            [] OTHER  -> {"READ"}]
EdgeKinds == [e \in Event |-> Kinds[e] \cup {"ET"}]

mcVars == <<part, k, vars>>
MCInit ==
  /\ part \in Parts /\ Init
  /\ part = "epoll" => k = Other!NewBackend("poll")
  /\ part = "other" => Other!Init /\ evsel = "epoll"
MCNext ==
  \/ part = "epoll" /\ Next /\ UNCHANGED <<part, k>>
  \/ part = "other" /\ Other!Next /\ UNCHANGED <<part, vars>>
MCSpec == MCInit /\ [][MCNext]_mcVars

BackendRight == Other!BackendRight
DelSucceeds  == Other!DelSucceeds
===============================================================================
