----------------------------------- MODULE Rpc -----------------------------------
(***************************************************************************)
(* evrpc.c: a pool of connections with the calls made on it, and the       *)
(* requests that a server is given.  A hook lets a message go on, pauses   *)
(* it until evrpc_resume_request, or ends it.  A connection is the queue   *)
(* of the requests that it has; HTTP answers or fails the first of them.   *)
(* The parameter o of a handler says what the hooks and HTTP do.           *)
(***************************************************************************)
EXTENDS Integers, Sequences, FiniteSets, SequencesExt

CONSTANTS
  Call, PConn, NoConn,
  SCall,      \* requests at the server
  OutHooks,   \* what output hooks may say: of {"continue", "pause", "terminate"}
  RpcMay,     \* of {"make_request_fails", "unregister"}
  RpcCareful  \* a call that is paused before it is sent is resumed when its
              \* connection has no request, and not ended while others wait

VARIABLES p, srv
rvars == <<p, srv>>

Results == {"continue", "pause", "terminate"}
Outcomes == [out : OutHooks, in : Results,
             make : {"works"} \cup (IF "make_request_fails" \in RpcMay THEN {"fails"} ELSE {})]

NewCall == [at |-> "new", conn |-> NoConn, timer |-> FALSE, told |-> 0]

Init ==
  /\ p = [call |-> [c \in Call |-> NewCall], requests |-> <<>>, conns |-> <<>>,
          on |-> [k \in PConn |-> <<>>], late |-> FALSE]
  /\ srv = [req |-> [r \in SCall |-> "none"], answers |-> [r \in SCall |-> 0],
            registered |-> TRUE, dangling |-> FALSE]

\* The callback, and evrpc_request_wrapper_free.
Tell(x, c) == [x EXCEPT !.call[c].told = @ + 1, !.call[c].at = "freed"]

\* The timer is added before evhttp_make_request, and stays when that fails.
evrpc_schedule_request_closure(x, c, res, o) ==
  LET y == [x EXCEPT !.call[c].timer = TRUE]
  IN  IF res = "terminate" THEN Tell(x, c)
      ELSE IF o.make = "fails" THEN Tell(y, c)
      ELSE [y EXCEPT !.call[c].at = "sent", !.on[x.call[c].conn] = Append(@, c)]

evrpc_schedule_request(x, k, c, o) ==
  LET y == [x EXCEPT !.call[c].conn = k]
  IN  CASE o.out = "terminate" -> Tell(y, c)
        [] o.out = "pause"     -> [y EXCEPT !.call[c].at = "paused_out"]
        [] OTHER               -> evrpc_schedule_request_closure(y, c, "continue", o)

\* The first connection without a request.
evrpc_pool_find_connection(x) ==
  LET idle == {i \in DOMAIN x.conns : x.on[x.conns[i]] = <<>>}
  IN  IF idle = {} THEN NoConn ELSE x.conns[Min(idle)]

evrpc_pool_schedule(x, o) ==
  LET k == evrpc_pool_find_connection(x)
      y == [x EXCEPT !.requests = Tail(@)]
  IN  IF x.requests = <<>> \/ k = NoConn THEN x
      ELSE evrpc_schedule_request(y, k, Head(x.requests), o)

\* Mutant of evrpc_reply_done_closure: the next call is not scheduled.
DoneClosureStops(x, c, o) == Tell(x, c)

evrpc_reply_done_closure(x, c, o) == evrpc_pool_schedule(Tell(x, c), o)

\* Mutant of evrpc_reply_done: the timer goes on.
DoneKeepsTimer(x, c, ok, o) ==
  IF ok /\ o.in = "pause" THEN [x EXCEPT !.call[c].at = "paused_in"]
  ELSE evrpc_reply_done_closure(x, c, o)

\* HTTP has the reply, or failed; it has taken the request off the connection.
evrpc_reply_done(x, c, ok, o) ==
  LET y == [x EXCEPT !.call[c].timer = FALSE]
  IN  IF ok /\ o.in = "pause" THEN [y EXCEPT !.call[c].at = "paused_in"]
      ELSE evrpc_reply_done_closure(y, c, o)

Finished(x, k, ok, o) ==
  evrpc_reply_done([x EXCEPT !.on[k] = Tail(@)], Head(x.on[k]), ok, o)

-------------------------------------------------------------------------------
evrpc_make_request(c, o) ==
  /\ p.call[c].at = "new" /\ p.conns # <<>>
  /\ p' = evrpc_pool_schedule([p EXCEPT !.requests = Append(@, c), !.call[c].at = "queued"], o)
  /\ UNCHANGED srv

HttpDone(k, ok, o) ==
  p.on[k] # <<>> /\ p' = Finished(p, k, ok, o) /\ UNCHANGED srv

\* evhttp_connection_fail fails the first request of the connection.
evrpc_request_timeout(c, o) ==
  LET k == p.call[c].conn
  IN  /\ p.call[c].timer
      /\ p' = Finished([p EXCEPT !.call[c].timer = FALSE, !.late = @ \/ Head(p.on[k]) # c],
                       k, FALSE, o)
      /\ UNCHANGED srv

evrpc_resume_request(c, res, o) ==
  /\ p.call[c].at \in {"paused_in", "paused_out"} /\ res # "pause"
  /\ RpcCareful /\ p.call[c].at = "paused_out" =>
       p.on[p.call[c].conn] = <<>> /\ (res = "terminate" => p.requests = <<>>)
  /\ p' = IF p.call[c].at = "paused_in" THEN evrpc_reply_done_closure(p, c, o)
          ELSE evrpc_schedule_request_closure(p, c, res, o)
  /\ UNCHANGED srv

evrpc_pool_add_connection(k, o) ==
  LET x == [p EXCEPT !.conns = Append(@, k)]
  IN  /\ k \notin Range(p.conns) /\ p.on[k] = <<>>
      /\ p' = IF p.requests = <<>> THEN x
              ELSE evrpc_schedule_request([x EXCEPT !.requests = Tail(@)], k, Head(p.requests), o)
      /\ UNCHANGED srv

\* A connection is taken away when no call is to use it.
evrpc_pool_remove_connection(k) ==
  /\ k \in Range(p.conns) /\ p.on[k] = <<>> /\ Len(p.conns) > 1
  /\ \A c \in Call : p.call[c].at = "paused_out" => p.call[c].conn # k
  /\ p' = [p EXCEPT !.conns = RemoveFirst(@, k)] /\ UNCHANGED srv

-------------------------------------------------------------------------------
\* The server.  Answer is evrpc_reqstate_free and a reply or an error, which
\* use the registration.
At(v, r, where) == [v EXCEPT !.req[r] = where, !.dangling = @ \/ ~v.registered]
Answer(v, r) == [At(v, r, "answered") EXCEPT !.answers[r] = @ + 1]

\* good: the request can be parsed.
evrpc_request_cb_closure(v, r, res, good) ==
  IF res = "terminate" \/ ~good THEN Answer(v, r) ELSE At(v, r, "user")

evrpc_request_cb(r, post, good, o) ==
  /\ srv.registered /\ srv.req[r] = "none"
  /\ srv' = IF ~post \/ o.in = "terminate" THEN Answer(srv, r)
            ELSE IF o.in = "pause" THEN At(srv, r, "paused_in")
            ELSE evrpc_request_cb_closure(srv, r, "continue", good)
  /\ UNCHANGED p

evrpc_request_done(r, complete, o) ==
  /\ srv.req[r] = "user"
  /\ srv' = IF complete /\ o.in = "pause" THEN At(srv, r, "paused_out") ELSE Answer(srv, r)
  /\ UNCHANGED p

ServerResume(r, res, good) ==
  /\ srv.req[r] \in {"paused_in", "paused_out"} /\ res # "pause"
  /\ srv' = IF srv.req[r] = "paused_in" THEN evrpc_request_cb_closure(srv, r, res, good)
            ELSE Answer(srv, r)
  /\ UNCHANGED p

\* The registration is freed, whatever the requests that were made on it.
evrpc_unregister_rpc ==
  /\ srv.registered
  /\ "unregister" \notin RpcMay => \A r \in SCall : srv.req[r] \in {"none", "answered"}
  /\ srv' = [srv EXCEPT !.registered = FALSE] /\ UNCHANGED p

\* What HTTP, the timers and the users of the hooks do in the end.
Progress ==
  \E o \in Outcomes :
    \/ \E k \in PConn, ok \in BOOLEAN : HttpDone(k, ok, o)
    \/ \E c \in Call : \/ evrpc_request_timeout(c, o)
                       \/ \E res \in Results : evrpc_resume_request(c, res, o)
PoolNext ==
  \/ Progress
  \/ \E o \in Outcomes : \/ \E c \in Call : evrpc_make_request(c, o)
                         \/ \E k \in PConn : evrpc_pool_add_connection(k, o)
  \/ \E k \in PConn : evrpc_pool_remove_connection(k)

ServerNext ==
  \/ evrpc_unregister_rpc
  \/ \E r \in SCall, b \in BOOLEAN, o \in Outcomes :
       \/ \E post \in BOOLEAN : evrpc_request_cb(r, post, b, o)
       \/ evrpc_request_done(r, b, o)
       \/ \E res \in Results : ServerResume(r, res, b)

Next == PoolNext \/ ServerNext
-------------------------------------------------------------------------------
\* No call waits in the pool while a connection has nothing to do, but for the
\* connections of calls that are paused: the end of such a call starts another.
RpcUsesIdle ==
  p.requests # <<>> =>
    Cardinality({k \in Range(p.conns) : p.on[k] = <<>>})
      <= Cardinality({c \in Call : p.call[c].at \in {"paused_in", "paused_out"}})

\* Every call is in one place, is told once, and leaves no timer behind; only
\* its own timer ends it.  At the server every request is answered once, with
\* the registration in place, and the connections of the pool are used.
RpcAccounted ==
  /\ \A c \in Call :
       /\ p.call[c].at = "queued" <=> c \in Range(p.requests)
       /\ \A k \in PConn : c \in Range(p.on[k]) <=> p.call[c].at = "sent" /\ p.call[c].conn = k
       /\ p.call[c].told = IF p.call[c].at = "freed" THEN 1 ELSE 0
       /\ p.call[c].timer => p.call[c].at = "sent"
  /\ ~p.late /\ RpcUsesIdle
  /\ \A r \in SCall : srv.answers[r] = IF srv.req[r] = "answered" THEN 1 ELSE 0
  /\ ~srv.dangling

\* The inductive invariant.  A connection has at most one call, the one that was
\* sent on it; a call that is paused before it is sent keeps its connection in the
\* pool; the calls that are paused are finitely many.  While one handler runs, n
\* connections may be idle that no paused call accounts for.
CallType == [at : {"new", "queued", "paused_out", "sent", "paused_in", "freed"},
             conn : PConn \cup {NoConn}, timer : BOOLEAN, told : Nat]
PoolType == [call : [Call -> CallType], requests : Seq(Call), conns : Seq(PConn),
             on : [PConn -> Seq(Call)], late : BOOLEAN]
Idle(x) == {k \in ToSet(x.conns) : x.on[k] = <<>>}
Paused(x) == {c \in Call : x.call[c].at \in {"paused_in", "paused_out"}}

CallsInv(x) ==
  /\ \A c \in Call :
       /\ x.call[c].at = "queued" <=> c \in ToSet(x.requests)
       /\ x.call[c].at = "sent" => x.call[c].conn \in PConn /\ x.on[x.call[c].conn] = <<c>>
       /\ x.call[c].at = "paused_out" => x.call[c].conn \in ToSet(x.conns)
       /\ x.call[c].told = IF x.call[c].at = "freed" THEN 1 ELSE 0
       /\ x.call[c].timer => x.call[c].at = "sent"
  /\ \A k \in PConn :
       \/ x.on[k] = <<>>
       \/ \E c \in Call : x.on[k] = <<c>> /\ x.call[c].at = "sent" /\ x.call[c].conn = k
PoolInvOf(x, n) ==
  /\ x \in PoolType /\ ~x.late
  /\ IsInjective(x.requests) /\ IsInjective(x.conns) /\ IsFiniteSet(Paused(x))
  /\ CallsInv(x)
  /\ x.requests # <<>> => Cardinality(Idle(x)) <= Cardinality(Paused(x)) + n
PoolInv == PoolInvOf(p, 0)

ServerInv ==
  /\ srv \in [req : [SCall -> {"none", "paused_in", "user", "paused_out", "answered"}],
             answers : [SCall -> Nat], registered : BOOLEAN, dangling : BOOLEAN]
  /\ \A r \in SCall :
       /\ srv.answers[r] = IF srv.req[r] = "answered" THEN 1 ELSE 0
       /\ srv.registered \/ srv.req[r] \in {"none", "answered"}
  /\ ~srv.dangling
===============================================================================
