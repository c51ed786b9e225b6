--------------------------------- MODULE MCDns ---------------------------------
(***************************************************************************)
(* The parts of evdns.c, one per behaviour: the resolver with its bounds   *)
(* from the configuration, evdns_getaddrinfo, and a server port.           *)
(***************************************************************************)
EXTENDS Evdns

CONSTANTS h1, h2, n1, n2, q1, q2, q3, Parts,
          SReq   \* the requests of the server port

VARIABLES
  part,  \* the part that runs
  sub, result, pending_result, pending_error, timeout, user_canceled,
  request_done, user_cb, data, told, port, sreq, blocked

Gai  == INSTANCE EvdnsGetaddrinfo
Port == INSTANCE EvdnsServerPort

gai  == <<sub, result, pending_result, pending_error, timeout, user_canceled,
          request_done, user_cb, data, told>>
prt  == <<port, sreq, blocked>>
mcVars == <<part, vars, gai, prt>>

MCInit ==
  /\ part \in Parts /\ Init /\ Gai!Init /\ Port!Init

Only(p) == part = p /\ UNCHANGED part
Resolver   == Only("resolver") /\ Next /\ UNCHANGED <<gai, prt>>
AddrInfo   == Only("gai") /\ Gai!Next /\ UNCHANGED <<vars, prt>>
ServerPort == Only("port") /\ Port!Next /\ UNCHANGED <<vars, gai>>

MCNext == Resolver \/ AddrInfo \/ ServerPort

\* The event loop is fair to the callbacks that are due, lookups end (the resolver
\* has timeouts), user callbacks return, and a full socket can be written to again:
\* every poll reports it, also when there is always something to read.
MCSpec ==
  /\ MCInit /\ [][MCNext]_mcVars
  /\ WF_mcVars(Only("gai") /\ Gai!Progress /\ UNCHANGED <<vars, prt>>)
  /\ WF_mcVars(Only("port") /\ Port!Returns /\ UNCHANGED <<vars, gai>>)
  /\ SF_mcVars(Only("port") /\ Port!Writable /\ UNCHANGED <<vars, gai>>)
-------------------------------------------------------------------------------
\* The properties of the parts.
GaiToldOnce == Gai!GaiToldOnce
PortCounted == Port!PortCounted
WaitsAfterAgain == Port!WaitsAfterAgain

\* Every evdns_getaddrinfo request ends and is freed, whatever of its timer, its
\* lookups and a cancellation comes in between; and a response that waits for the
\* socket of a server port is sent or given up.
DnsEnds ==
  /\ (part = "gai" /\ data = "used") ~> (data = "freed")
  /\ \A q \in SReq : (part = "port" /\ sreq[q] = "pending") ~> (sreq[q] = "freed")
===============================================================================
