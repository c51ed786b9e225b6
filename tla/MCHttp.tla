--------------------------------- MODULE MCHttp ---------------------------------
(***************************************************************************)
(* One HTTP connection, a listener, or the calls and requests of RPC.      *)
(***************************************************************************)
EXTENDS Http

CONSTANTS r1, r2, Parts, Conn, LThread, LMay, Call, PConn, NoConn, SCall, OutHooks,
          RpcMay, RpcCareful

VARIABLES part, l, conn, p, srv

Lis == INSTANCE Listener
Rpc == INSTANCE Rpc

http == <<s, pieces, breaks>>
lis  == <<l, conn>>
rpc  == <<p, srv>>
mcVars == <<part, http, lis, rpc>>

MCInit == part \in Parts /\ Init /\ Lis!Init /\ Rpc!Init

Only(x) == part = x /\ UNCHANGED part
HttpPart     == Only("http") /\ Next /\ UNCHANGED <<lis, rpc>>
ListenerPart == Only("listener") /\ Lis!Next /\ UNCHANGED <<http, rpc>>
PoolPart     == Only("pool") /\ Rpc!PoolNext /\ UNCHANGED <<http, lis>>
ServerPart   == Only("server") /\ Rpc!ServerNext /\ UNCHANGED <<http, lis>>

MCNext == HttpPart \/ ListenerPart \/ PoolPart \/ ServerPart

\* The loop is fair, and so are HTTP and the users of hooks for RPC.
MCSpec ==
  /\ MCInit /\ [][MCNext]_mcVars
  /\ WF_mcVars(Only("http") /\ Progress /\ UNCHANGED <<lis, rpc>>)
  /\ WF_mcVars(Only("listener") /\ Lis!Works /\ UNCHANGED <<http, rpc>>)
  /\ WF_mcVars(Only("pool") /\ Rpc!Progress /\ UNCHANGED <<http, lis>>)
-------------------------------------------------------------------------------
\* Every request made on a connection to a server ends: its user is told, or he
\* canceled it or freed the connection.  Every RPC call ends.
RequestsEnd ==
  /\ \A r \in HReq : (part = "http" /\ Outgoing(s) /\ s.req[r].life = "conn")
                      ~> (s.req[r].life = "freed")
  /\ \A c \in Call : (part = "pool" /\ p.call[c].at # "new") ~> (p.call[c].at = "freed")

ListenerKept == Lis!ListenerKept
ThreadsGoOn  == Lis!ThreadsGoOn
RpcAccounted == Rpc!RpcAccounted
===============================================================================
