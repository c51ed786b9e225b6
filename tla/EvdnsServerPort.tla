---------------------------- MODULE EvdnsServerPort ----------------------------
(***************************************************************************)
(* A port on which the program answers DNS requests: requests are given to *)
(* the user, who responds or drops them, now or later; a response that     *)
(* could not be sent is kept until the socket can be written to.  The port *)
(* is counted by its owner and by every request, and a call that gives up  *)
(* the last reference may go on with the port it has freed.  Everything    *)
(* happens in the thread of the event loop, in callbacks or between them.  *)
(***************************************************************************)
EXTENDS Integers, Sequences, FiniteSets, SequencesExt

CONSTANTS SReq   \* requests, each used once

VARIABLES
  port,     \* the evdns_server_port; reading: where server_port_read is, "no",
            \* "recv" or in the "user" callback; used: it was used after it was
            \* freed; inside: its owner closed it in the user callback
  sreq,     \* sreq[q]: "none", "user", "pending", "freed"
  blocked   \* responses that sendto refused because the socket was full

Live(q) == sreq[q] \in {"user", "pending"}

Init ==
  /\ port = [open |-> TRUE, freed |-> FALSE, refcnt |-> 1, choked |-> FALSE,
             closing |-> FALSE, read |-> TRUE, write |-> FALSE, pending |-> <<>>,
             reading |-> "no", used |-> FALSE, inside |-> FALSE]
  /\ sreq = [q \in SReq |-> "none"] /\ blocked = {}

\* The rest of a call reads, locks or unlocks the port.
Use(p) == [p EXCEPT !.used = @ \/ p.freed]

\* The user's calls are made in the port's callback, or when none runs.
UserRuns == port.reading # "recv"

\* server_port_read and request_parse: a well-formed request; the port's user
\* callback has it.
request_parse(q) ==
  /\ port.reading = "recv" /\ sreq[q] = "none"
  /\ sreq' = [sreq EXCEPT ![q] = "user"]
  /\ port' = [port EXCEPT !.refcnt = @ + 1, !.reading = "user"]
  /\ UNCHANGED blocked

\* The user callback returns, and server_port_read goes on to the next packet of
\* the port, which the callback may have freed.
CallbackReturns ==
  /\ port.reading = "user"
  /\ port' = [Use(port) EXCEPT !.reading = IF port.freed THEN "no" ELSE "recv"]
  /\ UNCHANGED <<sreq, blocked>>

\* recvfrom has no packet, or fails.
ReadEnds ==
  /\ port.reading = "recv" /\ port' = [port EXCEPT !.reading = "no"]
  /\ UNCHANGED <<sreq, blocked>>

\* n references to the port are given up: it is freed with the last one.
Unref(p, n) ==
  [p EXCEPT !.refcnt = @ - n,
            !.freed = p.refcnt = n,
            !.read = @ /\ p.refcnt # n, !.write = @ /\ p.refcnt # n]

\* Mutant of server_request_free: the reference is kept.
FreeKeepsRef(p, q) == [p EXCEPT !.pending = RemoveFirst(@, q)]

server_request_free(p, q) == Unref([p EXCEPT !.pending = RemoveFirst(@, q)], 1)

\* The first k pending responses are sent or fail, and are freed one after the
\* other; then the socket is full, or none is left and only reading is watched,
\* also on a port that is closing.
server_port_flush(p, k) ==
  LET done == Range(SubSeq(p.pending, 1, k))
      x == Unref([p EXCEPT !.pending = SubSeq(@, k + 1, Len(@))], k)
  IN  [p |-> IF k = Len(p.pending) /\ ~x.freed
               THEN [x EXCEPT !.read = TRUE, !.write = FALSE] ELSE x,
       done |-> done]

\* evdns_server_request_respond: the response is sent.  The responses that wait
\* are tried as well.  In the end the port is unlocked, also when it is freed.
respond_sent(q, k) ==
  LET p == server_request_free(port, q)
      fl == server_port_flush(p, k)
      tried == p.pending # <<>> /\ ~p.freed
  IN  /\ sreq[q] = "user" /\ UserRuns
      /\ IF tried THEN k \in 0..Len(p.pending) ELSE k = 0
      /\ sreq' = [x \in SReq |-> IF x = q \/ (tried /\ x \in fl.done)
                                   THEN "freed" ELSE sreq[x]]
      /\ port' = Use(IF tried THEN fl.p ELSE p)
      /\ UNCHANGED blocked

\* Mutant of respond_fails: the socket is not watched.
FailsNoWatch(q) ==
  /\ sreq[q] = "user" /\ UserRuns
  /\ sreq' = [sreq EXCEPT ![q] = "pending"]
  /\ port' = [port EXCEPT !.pending = Append(@, q), !.choked = @ \/ port.pending = <<>>]
  /\ UNCHANGED blocked

\* sendto fails with an error that is not temporary: the response is kept.
respond_fails(q) ==
  /\ sreq[q] = "user" /\ UserRuns
  /\ sreq' = [sreq EXCEPT ![q] = "pending"]
  /\ port' = IF port.pending # <<>>
               THEN [port EXCEPT !.pending = Append(@, q)]
               ELSE [port EXCEPT !.pending = <<q>>, !.choked = TRUE,
                                 !.read = ~port.closing, !.write = TRUE]
  /\ UNCHANGED blocked

\* sendto says that the socket is full: the call fails and the request is still
\* the user's.
respond_full(q) ==
  /\ sreq[q] = "user" /\ UserRuns /\ q \notin blocked
  /\ blocked' = blocked \cup {q}
  /\ UNCHANGED <<port, sreq>>

evdns_server_request_drop(q) ==
  /\ sreq[q] = "user" /\ UserRuns
  /\ sreq' = [sreq EXCEPT ![q] = "freed"]
  /\ port' = server_request_free(port, q)
  /\ UNCHANGED blocked

\* The events ev of the socket are reported: the responses that wait are tried,
\* which may free the port, and the same call reads the port or unlocks it.
server_port_ready_callback(ev, k) ==
  LET fl == server_port_flush([port EXCEPT !.choked = FALSE], k)
      p  == IF "write" \in ev THEN fl.p ELSE port
  IN  /\ ~port.freed /\ port.reading = "no"
      /\ "read" \in ev => port.read
      /\ IF "write" \in ev THEN port.write /\ k \in 0..Len(port.pending) ELSE k = 0
      /\ port' = [Use(p) EXCEPT !.reading = IF "read" \in ev /\ ~p.freed THEN "recv" ELSE "no"]
      /\ sreq' = [x \in SReq |-> IF "write" \in ev /\ x \in fl.done THEN "freed" ELSE sreq[x]]
      /\ UNCHANGED blocked

\* The call does not unlock the port.
evdns_close_server_port ==
  /\ port.open /\ UserRuns
  /\ port' = IF port.refcnt = 1
               THEN [port EXCEPT !.open = FALSE, !.refcnt = 0, !.freed = TRUE,
                                 !.read = FALSE, !.write = FALSE,
                                 !.inside = port.reading = "user"]
               ELSE [port EXCEPT !.open = FALSE, !.refcnt = @ - 1, !.closing = TRUE]
  /\ UNCHANGED <<sreq, blocked>>

Events == SUBSET {"read", "write"} \ {{}}

Next ==
  \/ \E q \in SReq : \/ request_parse(q) \/ respond_fails(q) \/ respond_full(q)
                     \/ evdns_server_request_drop(q)
                     \/ \E k \in 0..Cardinality(SReq) : respond_sent(q, k)
  \/ \E ev \in Events, k \in 0..Cardinality(SReq) : server_port_ready_callback(ev, k)
  \/ CallbackReturns \/ ReadEnds
  \/ evdns_close_server_port

\* A full socket can be written to again, and takes at least one response.
Writable == \E ev \in Events, k \in 1..Cardinality(SReq) : server_port_ready_callback(ev, k)

\* Callbacks return, and a read ends.
Returns == CallbackReturns \/ ReadEnds
-------------------------------------------------------------------------------
\* The port exists exactly as long as its owner or a request refers to it, and
\* no request is left over when it is freed (server_port_free asserts this).  The
\* list has exactly the responses that wait, and the socket is watched for them
\* and not once the port is freed.  The calls that free a port use it afterwards
\* only if its owner closed it while requests were left, or in its callback.
PortCounted ==
  /\ port.refcnt = (IF port.open THEN 1 ELSE 0) + Cardinality({q \in SReq : Live(q)})
  /\ port.freed <=> port.refcnt = 0
  /\ port.freed => port.pending = <<>> /\ ~port.read /\ ~port.write
  /\ port.pending # <<>> => port.write
  /\ Range(port.pending) = {q \in SReq : sreq[q] = "pending"}
  /\ port.used => port.closing \/ port.inside

\* No call uses the port after it freed it.  The code does: the end of
\* evdns_server_request_respond, server_port_ready_callback after its flush, and
\* server_port_read after the user callback.
PortNotUsed == ~port.used

\* evdns.c on next_pending: a response waits in the list if sending it met EAGAIN.
WaitsAfterAgain == \A q \in SReq : q \in blocked => sreq[q] # "user"

\* The inductive invariant, for a port p and the requests s: PortCounted with
\* the types, a list without repetition and finitely many requests.  A port
\* without an owner is closing or freed.
Status == {"none", "user", "pending", "freed"}
PortType == [open : BOOLEAN, freed : BOOLEAN, refcnt : Nat, choked : BOOLEAN,
             closing : BOOLEAN, read : BOOLEAN, write : BOOLEAN, pending : Seq(SReq),
             reading : {"no", "recv", "user"}, used : BOOLEAN, inside : BOOLEAN]
LiveIn(s) == {q \in SReq : s[q] \in {"user", "pending"}}
Waits(s)  == {q \in SReq : s[q] = "pending"}

PortInvOf(p, s) ==
  /\ p \in PortType /\ s \in [SReq -> Status]
  /\ IsInjective(p.pending) /\ IsFiniteSet(LiveIn(s))
  /\ p.refcnt = (IF p.open THEN 1 ELSE 0) + Cardinality(LiveIn(s))
  /\ p.freed <=> p.refcnt = 0
  /\ p.pending # <<>> => p.write
  /\ ToSet(p.pending) = Waits(s)

UseInvOf(p) ==
  /\ (p.open \/ p.closing \/ p.freed) /\ (p.used => p.freed)
  /\ p.freed => ~p.read /\ ~p.write /\ p.reading # "recv"
  /\ p.used \/ (p.freed /\ p.reading = "user") => p.closing \/ p.inside

PortInv == PortInvOf(port, sreq) /\ UseInvOf(port)
===============================================================================
