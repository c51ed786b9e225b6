------------------------------- MODULE HttpProofs -------------------------------
(***************************************************************************)
(* Proofs about the listener, RPC and the connections of http.c: the       *)
(* invariants ListenerKept, RpcAccounted, HttpAsserts, HttpAccounted and   *)
(* HttpProceeds of the run Http, for any number of connections, calls and  *)
(* requests.                                                               *)
(***************************************************************************)
EXTENDS MCHttp, ProofFacts

-------------------------------------------------------------------------------
\* The listener.

LEMMA ListenerInit == Lis!Init => Lis!ListenerInv
BY DEF Lis!Init, Lis!ListenerInv, Lis!ListenerType, Lis!ListenerKept, Lis!Calls

\* What listener_decref_and_unlock does to the fields.
LEMMA DecrefFacts ==
  ASSUME NEW x \in Lis!ListenerType, x.refcnt \in 1 .. 2,
         NEW y, y = Lis!listener_decref_and_unlock(x)
  PROVE  /\ y \in Lis!ListenerType
         /\ y.refcnt = x.refcnt - 1
         /\ y.cb = x.cb /\ y.errorcb = x.errorcb /\ y.enabled = x.enabled
         /\ y.pc = x.pc /\ y.thread = x.thread /\ y.user = x.user
         /\ x.refcnt = 1 => y.freed /\ ~y.pending
         /\ x.refcnt = 2 => y.freed = x.freed /\ y.pending = x.pending /\ y.lock = x.lock
<1>1. CASE x.refcnt = 1
  <2> DEFINE z == [x EXCEPT !.refcnt = 0]
  <2>1. y = [z EXCEPT !.pending = FALSE, !.freed = TRUE, !.lock = "none"]
    BY <1>1 DEF Lis!listener_decref_and_unlock, Lis!Destroyed
  <2>2. /\ z \in Lis!ListenerType /\ z.refcnt = 0 /\ z.cb = x.cb /\ z.errorcb = x.errorcb
        /\ z.enabled = x.enabled /\ z.pc = x.pc /\ z.thread = x.thread /\ z.user = x.user
    BY DEF Lis!ListenerType
  <2> HIDE DEF z
  <2>3. y \in Lis!ListenerType
    BY <2>1, <2>2, Zenon DEF Lis!ListenerType
  <2>4. /\ y.refcnt = z.refcnt /\ y.cb = z.cb /\ y.errorcb = z.errorcb
        /\ y.enabled = z.enabled /\ y.pc = z.pc /\ y.thread = z.thread /\ y.user = z.user
        /\ y.freed /\ ~y.pending
    BY <2>1, <2>2 DEF Lis!ListenerType
  <2> QED  BY <1>1, <2>2, <2>3, <2>4
<1>2. CASE x.refcnt = 2
  <2>1. y = [x EXCEPT !.refcnt = x.refcnt - 1]
    BY <1>2 DEF Lis!listener_decref_and_unlock
  <2>2. x.refcnt - 1 \in 0 .. 2
    BY <1>2
  <2>3. y \in Lis!ListenerType
    BY <2>1, <2>2 DEF Lis!ListenerType
  <2>4. /\ y.refcnt = x.refcnt - 1 /\ y.cb = x.cb /\ y.errorcb = x.errorcb
        /\ y.enabled = x.enabled /\ y.pc = x.pc /\ y.thread = x.thread /\ y.user = x.user
        /\ y.freed = x.freed /\ y.pending = x.pending /\ y.lock = x.lock
    BY <2>1 DEF Lis!ListenerType
  <2> QED  BY <1>2, <2>3, <2>4
<1> QED  BY <1>1, <1>2

\* The calls of the program: the fields they leave alone, and what they keep of
\* the invariant.
LEMMA ApplyFacts ==
  ASSUME NEW x \in Lis!ListenerType, NEW call \in Lis!Calls \ {"clear_cb"},
         x.user, ~x.freed, x.cb, x.refcnt \in 1 .. 2, x.enabled => x.pending,
         NEW y, y = Lis!Apply(x, call)
  PROVE  /\ y \in Lis!ListenerType
         /\ y.pc = x.pc /\ y.thread = x.thread
         /\ call # "free" => /\ y.refcnt = x.refcnt /\ y.user /\ y.cb /\ ~y.freed
                             /\ y.lock = x.lock
                             /\ y.enabled => y.pending
         /\ call = "free" => /\ y.refcnt = x.refcnt - 1 /\ ~y.user /\ ~y.cb /\ ~y.errorcb
                             /\ y.freed <=> x.refcnt = 1
                             /\ x.refcnt = 2 => y.lock = x.lock
                             /\ x.refcnt = 1 => ~y.pending
<1>1. CASE call = "enable"
  <2>1. y = Lis!evconnlistener_enable(x)
    BY <1>1 DEF Lis!Apply
  <2> QED  BY <1>1, <2>1, ZenonT(60) DEF Lis!evconnlistener_enable, Lis!ListenerType
<1>2. CASE call = "disable"
  <2>1. y = Lis!evconnlistener_disable(x)
    BY <1>2 DEF Lis!Apply
  <2> QED  BY <1>2, <2>1, ZenonT(60) DEF Lis!evconnlistener_disable, Lis!ListenerType
<1>3. CASE call = "set_cb"
  <2>1. y = [x EXCEPT !.cb = TRUE]
    BY <1>3 DEF Lis!Apply, Lis!evconnlistener_set_cb
  <2> QED  BY <1>3, <2>1, ZenonT(60) DEF Lis!ListenerType
<1>4. CASE call = "free"
  <2> DEFINE z == [x EXCEPT !.cb = FALSE, !.errorcb = FALSE, !.user = FALSE]
  <2>1. y = Lis!listener_decref_and_unlock(z)
    BY <1>4 DEF Lis!Apply, Lis!evconnlistener_free
  <2>2. /\ z \in Lis!ListenerType /\ z.refcnt = x.refcnt /\ z.pc = x.pc /\ z.thread = x.thread
        /\ ~z.cb /\ ~z.errorcb /\ ~z.user /\ z.lock = x.lock /\ ~z.freed
    BY Zenon DEF Lis!ListenerType
  <2> HIDE DEF z
  <2>3. /\ y \in Lis!ListenerType
        /\ y.refcnt = z.refcnt - 1
        /\ y.cb = z.cb /\ y.errorcb = z.errorcb /\ y.pc = z.pc /\ y.thread = z.thread
        /\ y.user = z.user
        /\ z.refcnt = 1 => y.freed /\ ~y.pending
        /\ z.refcnt = 2 => y.freed = z.freed /\ y.lock = z.lock
    BY <2>1, <2>2, DecrefFacts
  <2>4. x.refcnt = 1 \/ x.refcnt = 2
    OBVIOUS
  <2>5. y.freed <=> x.refcnt = 1
    BY <2>2, <2>3, <2>4
  <2> QED  BY <1>4, <2>2, <2>3, <2>4, <2>5
<1> QED  BY <1>1, <1>2, <1>3, <1>4 DEF Lis!Calls

\* The invariant of the listener, taken apart.
LEMMA ListenerParts ==
  Lis!ListenerInv <=>
    /\ l \in Lis!ListenerType
    /\ conn \in [Conn -> {"none", "waiting", "given", "closed"}]
    /\ l.refcnt = (IF l.user THEN 1 ELSE 0)
                    + (IF l.pc \in {"callback", "error_callback"} THEN 1 ELSE 0)
    /\ l.freed <=> l.refcnt = 0
    /\ l.freed => l.pc = "idle" /\ l.thread = "idle"
    /\ l.enabled /\ l.cb => l.pending
    /\ ~l.user => ~l.cb /\ ~l.errorcb
    /\ l.user => l.cb
    /\ l.freed => ~l.pending
    /\ l.thread # "idle" => l.lock = "thread" /\ l.pc # "idle"
BY DEF Lis!ListenerInv, Lis!ListenerKept

\* The loop takes a connection, or sees that there is none, or an error.
LEMMA AcceptingKeeps ==
  ASSUME Lis!ListenerInv, Lis!Accepting
  PROVE  Lis!ListenerInv'
<1> DEFINE x == [l EXCEPT !.pc = "accepting"]
<1>1. /\ l \in Lis!ListenerType /\ l.user /\ l.cb /\ ~l.freed /\ l.refcnt = 1
      /\ l.thread = "idle"
      /\ l.enabled => l.pending
      /\ conn \in [Conn -> {"none", "waiting", "given", "closed"}]
      /\ Lis!Accept(x)
  <2>1. l.pc \in {"running", "accepting"} /\ l.lock # "thread" /\ Lis!Accept(x)
    BY DEF Lis!Accepting, Lis!Free
  <2>2. /\ l \in Lis!ListenerType
        /\ l.refcnt = (IF l.user THEN 1 ELSE 0)
                    + (IF l.pc \in {"callback", "error_callback"} THEN 1 ELSE 0)
        /\ l.freed <=> l.refcnt = 0
        /\ l.freed => l.pc = "idle" /\ l.thread = "idle"
        /\ l.enabled /\ l.cb => l.pending
        /\ conn \in [Conn -> {"none", "waiting", "given", "closed"}]
        /\ l.user => l.cb
        /\ l.thread # "idle" => l.lock = "thread" /\ l.pc # "idle"
    BY ListenerParts
  <2>3. l.user
    <3>1. l.pc \notin {"callback", "error_callback"} /\ l.pc # "idle"
      BY <2>1
    <3> SUFFICES ASSUME ~l.user  PROVE FALSE
      OBVIOUS
    <3>2. l.refcnt = 0
      BY <2>2, <3>1
    <3> QED  BY <2>2, <3>1, <3>2
  <2>4. l.refcnt = 1
    BY <2>1, <2>2, <2>3
  <2>5. ~l.freed
    BY <2>2, <2>4
  <2> QED  BY <2>1, <2>2, <2>3, <2>4, <2>5
<1>2. /\ x \in Lis!ListenerType /\ x.user /\ x.cb /\ ~x.freed /\ x.refcnt = 1
      /\ x.thread = "idle" /\ x.pc = "accepting"
      /\ x.enabled => x.pending
  BY <1>1 DEF Lis!ListenerType
<1> HIDE DEF x
<1>3. /\ \/ l' = [x EXCEPT !.pc = "callback", !.refcnt = @ + 1]
         \/ l' = x
         \/ l' = [x EXCEPT !.pc = "idle"]
         \/ l' = [x EXCEPT !.pc = "error_callback", !.refcnt = @ + 1]
         \/ l' = [x EXCEPT !.pc = "idle", !.lock = "loop"]
      /\ \/ conn' = conn
         \/ \E c \in Conn : conn' = [conn EXCEPT ![c] = "given"]
         \/ \E c \in Conn : conn' = [conn EXCEPT ![c] = "closed"]
  BY <1>1, <1>2 DEF Lis!Accept, Lis!listener_read_cb, Lis!AcceptError, Lis!Waiting
<1>4. conn' \in [Conn -> {"none", "waiting", "given", "closed"}]
  BY <1>1, <1>3
<1>5. ASSUME NEW y, NEW a \in {"callback", "error_callback"},
             y = [x EXCEPT !.pc = a, !.refcnt = x.refcnt + 1]
      PROVE  /\ y \in Lis!ListenerType /\ y.user /\ y.cb /\ ~y.freed /\ y.refcnt = 2
             /\ y.thread = "idle" /\ y.pc = a
             /\ y.enabled => y.pending
  <2>1. x.refcnt + 1 = 2 /\ x.refcnt + 1 \in 0 .. 2
    BY <1>2
  <2> QED  BY <1>2, <1>5, <2>1, Zenon DEF Lis!ListenerType
<1>6. ASSUME NEW y, \/ y = x \/ y = [x EXCEPT !.pc = "idle"]
                    \/ y = [x EXCEPT !.pc = "idle", !.lock = "loop"]
      PROVE  /\ y \in Lis!ListenerType /\ y.user /\ y.cb /\ ~y.freed /\ y.refcnt = 1
             /\ y.thread = "idle" /\ y.pc \in {"idle", "accepting"}
             /\ y.enabled => y.pending
  BY <1>2, <1>6, ZenonT(60) DEF Lis!ListenerType
<1>7. CASE \E a \in {"callback", "error_callback"} :
             l' = [x EXCEPT !.pc = a, !.refcnt = x.refcnt + 1]
  <2>1. /\ l' \in Lis!ListenerType /\ l'.user /\ l'.cb /\ ~l'.freed /\ l'.refcnt = 2
        /\ l'.thread = "idle" /\ l'.pc \in {"callback", "error_callback"}
        /\ l'.enabled => l'.pending
    BY <1>5, <1>7, Zenon
  <2> QED  BY <1>4, <2>1 DEF Lis!ListenerInv, Lis!ListenerKept
<1>8. CASE \/ l' = x \/ l' = [x EXCEPT !.pc = "idle"]
           \/ l' = [x EXCEPT !.pc = "idle", !.lock = "loop"]
  <2>1. /\ l' \in Lis!ListenerType /\ l'.user /\ l'.cb /\ ~l'.freed /\ l'.refcnt = 1
        /\ l'.thread = "idle" /\ l'.pc \in {"idle", "accepting"}
        /\ l'.enabled => l'.pending
    BY <1>6, <1>8
  <2> QED  BY <1>4, <2>1 DEF Lis!ListenerInv, Lis!ListenerKept
<1> QED  BY <1>3, <1>7, <1>8

\* The two callbacks return, and the last reference frees the listener.
LEMMA ReturnsKeep ==
  ASSUME Lis!ListenerInv, Lis!CallbackReturns \/ Lis!ErrorCallbackReturns
  PROVE  Lis!ListenerInv'
<1> DEFINE y == Lis!listener_decref_and_unlock(l)
<1>1. /\ l \in Lis!ListenerType /\ l.pc \in {"callback", "error_callback"} /\ UNCHANGED conn
      /\ conn \in [Conn -> {"none", "waiting", "given", "closed"}]
      /\ l.refcnt = (IF l.user THEN 1 ELSE 0) + 1
      /\ ~l.freed /\ l.lock # "thread" /\ l.thread = "idle"
      /\ ~l.user => ~l.cb /\ ~l.errorcb
      /\ l.user => l.cb
      /\ l.enabled /\ l.cb => l.pending
  BY ListenerParts DEF Lis!CallbackReturns, Lis!ErrorCallbackReturns, Lis!Free
<1>2. l.refcnt \in 1 .. 2
  BY <1>1
<1>3. /\ y \in Lis!ListenerType
      /\ y.refcnt = l.refcnt - 1
      /\ y.cb = l.cb /\ y.errorcb = l.errorcb /\ y.enabled = l.enabled
      /\ y.thread = l.thread /\ y.user = l.user
      /\ l.refcnt = 1 => y.freed /\ ~y.pending
      /\ l.refcnt = 2 => y.freed = l.freed /\ y.pending = l.pending /\ y.lock = l.lock
  BY <1>1, <1>2, DecrefFacts
<1>4. \/ l' = [y EXCEPT !.pc = "idle"]
      \/ l' = [y EXCEPT !.pc = "accepting"] /\ l.refcnt = 2
  <2>1. CASE Lis!ErrorCallbackReturns \/ l.refcnt = 1
    BY <2>1 DEF Lis!CallbackReturns, Lis!ErrorCallbackReturns
  <2>2. CASE Lis!CallbackReturns /\ l.refcnt = 2
    <3>1. y = [l EXCEPT !.refcnt = l.refcnt - 1]
      BY <2>2 DEF Lis!listener_decref_and_unlock
    <3>2. l' = [l EXCEPT !.refcnt = l.refcnt - 1, !.pc = "accepting"]
      BY <2>2 DEF Lis!CallbackReturns
    <3>3. [y EXCEPT !.pc = "accepting"] = [l EXCEPT !.refcnt = l.refcnt - 1, !.pc = "accepting"]
      BY <1>1, <3>1 DEF Lis!ListenerType
    <3> QED  BY <2>2, <3>2, <3>3
  <2> QED  BY <1>2, <2>1, <2>2
<1> HIDE DEF y
<1>5. /\ l' \in Lis!ListenerType /\ l'.refcnt = y.refcnt /\ l'.cb = y.cb
      /\ l'.errorcb = y.errorcb /\ l'.enabled = y.enabled /\ l'.thread = y.thread
      /\ l'.user = y.user /\ l'.freed = y.freed /\ l'.pending = y.pending
      /\ l'.pc = "idle" \/ (l'.pc = "accepting" /\ l.refcnt = 2)
  BY <1>3, <1>4 DEF Lis!ListenerType
<1>6. CASE l.refcnt = 1
  <2>1. ~l.user
    BY <1>1, <1>6
  <2>2. /\ l'.refcnt = 0 /\ ~l'.user /\ ~l'.cb /\ ~l'.errorcb /\ l'.freed /\ ~l'.pending
        /\ l'.pc = "idle" /\ l'.thread = "idle"
    BY <1>1, <1>3, <1>5, <1>6, <2>1
  <2> QED  BY <1>1, <1>5, <2>2 DEF Lis!ListenerInv, Lis!ListenerKept
<1>7. CASE l.refcnt = 2
  <2>1. l.user
    BY <1>1, <1>7
  <2>2. /\ l'.refcnt = 1 /\ l'.user /\ l'.cb /\ ~l'.freed
        /\ l'.pc \in {"idle", "accepting"} /\ l'.thread = "idle"
        /\ l'.enabled => l'.pending
    BY <1>1, <1>3, <1>5, <1>7, <2>1
  <2> QED  BY <1>1, <1>5, <2>2 DEF Lis!ListenerInv, Lis!ListenerKept
<1> QED  BY <1>2, <1>6, <1>7

\* A call of the program that is carried out at once.
LEMMA ApplyKeeps ==
  ASSUME Lis!ListenerInv, NEW call \in Lis!Calls \ {"clear_cb"}, l.user, ~l.freed,
         call = "free" /\ l.refcnt = 1 => l.pc = "idle", l.thread = "idle",
         l' = Lis!Apply([l EXCEPT !.calls = l.calls + 1], call), UNCHANGED conn
  PROVE  Lis!ListenerInv'
<1> DEFINE x == [l EXCEPT !.calls = l.calls + 1]
<1>1. /\ l \in Lis!ListenerType
      /\ conn \in [Conn -> {"none", "waiting", "given", "closed"}]
      /\ l.refcnt = 1 + (IF l.pc \in {"callback", "error_callback"} THEN 1 ELSE 0)
      /\ l.cb
      /\ l.enabled => l.pending
  BY ListenerParts
<1>2. /\ x \in Lis!ListenerType /\ x.user /\ ~x.freed /\ x.cb /\ x.refcnt = l.refcnt
      /\ x.pc = l.pc /\ x.thread = "idle"
      /\ x.enabled => x.pending
  BY <1>1 DEF Lis!ListenerType
<1>3. l.refcnt \in 1 .. 2
  BY <1>1
<1> HIDE DEF x
<1>4. /\ l' \in Lis!ListenerType /\ l'.pc = x.pc /\ l'.thread = x.thread
      /\ call # "free" => /\ l'.refcnt = x.refcnt /\ l'.user /\ l'.cb /\ ~l'.freed
                          /\ l'.enabled => l'.pending
      /\ call = "free" => /\ l'.refcnt = x.refcnt - 1 /\ ~l'.user /\ ~l'.cb /\ ~l'.errorcb
                          /\ l'.freed <=> x.refcnt = 1
                          /\ x.refcnt = 1 => ~l'.pending
  <2>1. l' = Lis!Apply(x, call)
    BY DEF x
  <2>2. x.refcnt \in 1 .. 2
    BY <1>2, <1>3
  <2> QED  BY <1>2, <2>1, <2>2, ApplyFacts
<1>5. CASE call # "free"
  <2>1. /\ l'.refcnt = 1 + (IF l'.pc \in {"callback", "error_callback"} THEN 1 ELSE 0)
        /\ l'.refcnt # 0
    BY <1>1, <1>2, <1>4, <1>5
  <2> QED  BY <1>1, <1>2, <1>4, <1>5, <2>1 DEF Lis!ListenerInv, Lis!ListenerKept
<1>6. CASE call = "free"
  <2>1. /\ l'.refcnt = (IF l'.pc \in {"callback", "error_callback"} THEN 1 ELSE 0)
        /\ l'.freed <=> l'.refcnt = 0
        /\ l'.freed => l'.pc = "idle" /\ ~l'.pending
    BY <1>1, <1>2, <1>3, <1>4, <1>6
  <2> QED  BY <1>1, <1>2, <1>4, <1>6, <2>1 DEF Lis!ListenerInv, Lis!ListenerKept
<1> QED  BY <1>5, <1>6

\* Of the steps of the listener only ThreadGoesOn is not needed: a thread that is
\* in event_del keeps the lock that the callback needs to return.
LEMMA ListenerStep ==
  ASSUME "no_callback" \notin LMay
  PROVE  Lis!ListenerInv /\ [Lis!Next]_lis => Lis!ListenerInv'
<1> SUFFICES ASSUME Lis!ListenerInv, [Lis!Next]_lis
             PROVE  Lis!ListenerInv'
  OBVIOUS
<1> USE DEF Lis!ListenerInv, Lis!ListenerKept
<1>1. CASE UNCHANGED lis
  BY <1>1 DEF lis
<1>2. CASE Lis!Run
  <2>1. /\ l \in Lis!ListenerType /\ l' = [l EXCEPT !.pc = "running"] /\ UNCHANGED conn
        /\ l.pc = "idle" /\ l.pending /\ l.thread = "idle" /\ ~l.freed
    BY <1>2 DEF Lis!Run
  <2>2. /\ l' \in Lis!ListenerType /\ l'.pc = "running"
        /\ l'.refcnt = l.refcnt /\ l'.user = l.user /\ l'.freed = l.freed
        /\ l'.thread = l.thread /\ l'.enabled = l.enabled /\ l'.cb = l.cb
        /\ l'.pending = l.pending /\ l'.errorcb = l.errorcb
    BY <2>1, Zenon DEF Lis!ListenerType
  <2> QED  BY <2>1, <2>2
<1>3. CASE Lis!Accepting
  BY <1>3, AcceptingKeeps
<1>4. CASE Lis!CallbackReturns \/ Lis!ErrorCallbackReturns
  BY <1>4, ReturnsKeep
<1>5. ASSUME Lis!ThreadGoesOn  PROVE FALSE
  BY <1>5 DEF Lis!ThreadGoesOn
<1>6. CASE Lis!Arrives
  BY <1>6 DEF Lis!Arrives
<1>7. CASE Lis!evconnlistener_set_error_cb
  <2>1. /\ l \in Lis!ListenerType /\ l.user /\ UNCHANGED conn
        /\ l' = [l EXCEPT !.errorcb = TRUE, !.calls = @ + 1]
    BY <1>7 DEF Lis!evconnlistener_set_error_cb, Lis!May
  <2>2. /\ l' \in Lis!ListenerType /\ l'.pc = l.pc
        /\ l'.refcnt = l.refcnt /\ l'.user = l.user /\ l'.freed = l.freed
        /\ l'.thread = l.thread /\ l'.enabled = l.enabled /\ l'.cb = l.cb
        /\ l'.pending = l.pending /\ l'.lock = l.lock
    <3>1. l.calls + 1 \in Nat
      BY <2>1 DEF Lis!ListenerType
    <3>2. l' \in Lis!ListenerType
      BY ONLY <2>1, <3>1, Zenon DEF Lis!ListenerType
    <3> QED  BY ONLY <2>1, <3>2, ZenonT(60) DEF Lis!ListenerType
  <2> QED  BY <2>1, <2>2
<1>8. ASSUME NEW call \in Lis!Calls, Lis!UserCall(call)
      PROVE  Lis!ListenerInv'
  <2>1. /\ l.user /\ ~l.freed /\ call # "clear_cb" /\ UNCHANGED conn
        /\ l.pc \in {"idle", "callback", "error_callback"} /\ l.lock # "thread"
        /\ l' = Lis!Apply([l EXCEPT !.calls = l.calls + 1], call)
    BY <1>8 DEF Lis!UserCall, Lis!May, Lis!Free
  <2>2. l.thread = "idle" /\ (l.refcnt = 1 => l.pc = "idle")
    BY <2>1
  <2> QED  BY <2>1, <2>2, ApplyKeeps
<1>9. ASSUME NEW call \in Lis!Calls, Lis!ThreadCall(call)
      PROVE  Lis!ListenerInv'
  <2>1. /\ l.user /\ ~l.freed /\ call # "clear_cb" /\ UNCHANGED conn
        /\ l.thread = "idle" /\ l \in Lis!ListenerType
    BY <1>9 DEF Lis!ThreadCall, Lis!May
  <2>2. CASE Lis!Deletes(call) /\ l.pc # "idle"
    <3>1. l' = [l EXCEPT !.thread = call, !.lock = "thread", !.calls = @ + 1]
      BY <1>9, <2>2 DEF Lis!ThreadCall
    <3>2. /\ l' \in Lis!ListenerType /\ l'.pc = l.pc
          /\ l'.refcnt = l.refcnt /\ l'.user = l.user /\ l'.freed = l.freed
          /\ l'.enabled = l.enabled /\ l'.cb = l.cb /\ l'.errorcb = l.errorcb
          /\ l'.pending = l.pending /\ l'.lock = "thread"
      <4>1. l.calls + 1 \in Nat
        BY <2>1 DEF Lis!ListenerType
      <4>2. l' \in Lis!ListenerType
        BY ONLY call \in Lis!Calls, <2>1, <3>1, <4>1, Zenon DEF Lis!ListenerType
      <4> QED  BY ONLY <2>1, <3>1, <4>2, ZenonT(60) DEF Lis!ListenerType
    <3> QED  BY <2>1, <2>2, <3>2
  <2>3. CASE ~(Lis!Deletes(call) /\ l.pc # "idle")
    <3>1. l' = Lis!Apply([l EXCEPT !.calls = l.calls + 1], call)
      BY <1>9, <2>3 DEF Lis!ThreadCall
    <3>2. call = "free" /\ l.refcnt = 1 => l.pc = "idle"
      BY <2>3 DEF Lis!Deletes
    <3> QED  BY <2>1, <3>1, <3>2, ApplyKeeps
  <2> QED  BY <2>2, <2>3
<1> QED  BY <1>1, <1>2, <1>3, <1>4, <1>5, <1>6, <1>7, <1>8, <1>9 DEF Lis!Next, Lis!Works

\* A listener lives exactly as long as the program or a callback holds it: freeing
\* it in its callback, or from another thread that does any of the calls at any
\* time, never takes it from under listener_read_cb, and the last reference frees
\* it; an enabled listener is watched; and no connection that was accepted is
\* lost.  The one hypothesis is that the program does not clear the callback of a
\* listener that it keeps (evconnlistener_set_cb with NULL): listener_read_cb then
\* forgets the connection it has accepted.
THEOREM ListenerKeptHolds ==
  ASSUME "no_callback" \notin LMay
  PROVE  MCSpec => []ListenerKept
<1>1. MCInit => Lis!ListenerInv
  BY ListenerInit DEF MCInit
<1>2. Lis!ListenerInv /\ [MCNext]_mcVars => Lis!ListenerInv'
  <2> SUFFICES ASSUME Lis!ListenerInv, [MCNext]_mcVars
               PROVE  [Lis!Next]_lis
    BY ListenerStep
  <2> QED  BY DEF MCNext, mcVars, HttpPart, ListenerPart, PoolPart, ServerPart
<1>3. Lis!ListenerInv => ListenerKept
  BY DEF Lis!ListenerInv, ListenerKept
<1> QED  BY <1>1, <1>2, <1>3, PTL DEF MCSpec

-------------------------------------------------------------------------------
\* RPC: the pool of connections.

\* The library operators that Rpc uses are those of this module.
LEMMA RpcLibrary ==
  /\ \A S : Rpc!IsFiniteSet(S) <=> IsFiniteSet(S)
  /\ \A S : Rpc!Cardinality(S) = Cardinality(S)
  /\ \A q : Rpc!IsInjective(q) <=> IsInjective(q)
  /\ \A q : Rpc!ToSet(q) = ToSet(q)
  /\ \A q : Rpc!Range(q) = Range(q)
  /\ \A S : Rpc!Min(S) = Min(S)
  /\ \A q, e : Rpc!RemoveFirst(q, e) = RemoveFirst(q, e)
<1>1. \A S : Rpc!IsFiniteSet(S) <=> IsFiniteSet(S)
  BY DEF Rpc!IsFiniteSet, IsFiniteSet
<1>2. \A S : Rpc!Cardinality(S) = Cardinality(S)
  BY <1>1 DEF Rpc!Cardinality, Cardinality
<1>3. \A q : Rpc!IsInjective(q) <=> IsInjective(q)
  BY DEF Rpc!IsInjective, IsInjective
<1>4. \A q : Rpc!ToSet(q) = ToSet(q) /\ Rpc!Range(q) = Range(q)
  BY DEF Rpc!ToSet, ToSet, Rpc!Range, Range
<1>5. \A q, e : Rpc!RemoveFirst(q, e) = RemoveFirst(q, e)
  BY DEF Rpc!RemoveFirst, RemoveFirst, Rpc!RemoveAt, RemoveAt, Rpc!SelectInSeq, SelectInSeq,
         Rpc!Min, Min
<1>6. \A S : Rpc!Min(S) = Min(S)
  BY DEF Rpc!Min, Min
<1> QED  BY <1>1, <1>2, <1>3, <1>4, <1>5, <1>6

LEMMA PoolParts ==
  ASSUME NEW x, NEW n
  PROVE  Rpc!PoolInvOf(x, n) <=>
           /\ x \in Rpc!PoolType /\ ~x.late
           /\ IsInjective(x.requests) /\ IsInjective(x.conns) /\ IsFiniteSet(Rpc!Paused(x))
           /\ Rpc!CallsInv(x)
           /\ x.requests # <<>> => Cardinality(Rpc!Idle(x)) <= Cardinality(Rpc!Paused(x)) + n
BY RpcLibrary, Zenon DEF Rpc!PoolInvOf

LEMMA PoolTypes ==
  ASSUME NEW x \in Rpc!PoolType
  PROVE  /\ x.call \in [Call -> Rpc!CallType] /\ x.requests \in Seq(Call)
         /\ x.conns \in Seq(PConn) /\ x.on \in [PConn -> Seq(Call)] /\ x.late \in BOOLEAN
         /\ \A c \in Call : /\ x.call[c] \in Rpc!CallType
                            /\ x.call[c].conn \in PConn \cup {NoConn}
                            /\ x.call[c].told \in Nat
                            /\ x.call[c].timer \in BOOLEAN
         /\ Rpc!Idle(x) \subseteq PConn /\ IsFiniteSet(Rpc!Idle(x))
         /\ Cardinality(Rpc!Idle(x)) \in Nat
<1>1. /\ x.call \in [Call -> Rpc!CallType] /\ x.requests \in Seq(Call)
      /\ x.conns \in Seq(PConn) /\ x.on \in [PConn -> Seq(Call)] /\ x.late \in BOOLEAN
  BY DEF Rpc!PoolType
<1>2. \A c \in Call : /\ x.call[c] \in Rpc!CallType
                      /\ x.call[c].conn \in PConn \cup {NoConn}
                      /\ x.call[c].told \in Nat
                      /\ x.call[c].timer \in BOOLEAN
  BY <1>1 DEF Rpc!CallType
<1>3. /\ ToSet(x.conns) \subseteq PConn /\ ToSet(x.conns) = {x.conns[i] : i \in 1 .. Len(x.conns)}
      /\ Len(x.conns) \in Nat
  BY <1>1, ElementsInRange
<1>4. Rpc!Idle(x) \subseteq ToSet(x.conns)
  BY RpcLibrary DEF Rpc!Idle
<1>5. IsFiniteSet(ToSet(x.conns))
  <2>1. IsFiniteSet(1 .. Len(x.conns))
    BY <1>3, FS_Interval
  <2> DEFINE f == [i \in 1 .. Len(x.conns) |-> x.conns[i]]
  <2>2. f \in Surjection(1 .. Len(x.conns), ToSet(x.conns))
    BY <1>3 DEF Surjection
  <2> QED  BY <2>1, <2>2, FS_Surjection
<1>6. IsFiniteSet(Rpc!Idle(x)) /\ Cardinality(Rpc!Idle(x)) \in Nat
  BY <1>4, <1>5, FS_Subset, FS_CardinalityType
<1> QED  BY <1>1, <1>2, <1>3, <1>4, <1>6

\* Lists of one call.
LEMMA OneCall ==
  ASSUME NEW c \in Call
  PROVE  /\ <<c>> \in Seq(Call) /\ <<c>> # <<>> /\ Append(<<>>, c) = <<c>>
         /\ Head(<<c>>) = c /\ Tail(<<c>>) = <<>> /\ Range(<<c>>) = {c}
         /\ \A d : <<c>> = <<d>> => c = d
<1>1. <<c>> \in Seq(Call) /\ Len(<<c>>) = 1 /\ <<c>>[1] = c
  OBVIOUS
<1>2. <<c>> # <<>> /\ Append(<<>>, c) = <<c>> /\ Head(<<c>>) = c
  OBVIOUS
<1>3. Tail(<<c>>) = <<>>
  BY <1>1
<1>4. Range(<<c>>) = {c}
  BY <1>1 DEF Range
<1>5. \A d : <<c>> = <<d>> => c = d
  OBVIOUS
<1> QED  BY <1>1, <1>2, <1>3, <1>4, <1>5

\* What the hooks and HTTP may do: a call goes on or is paused, and is not refused.
Goes(o) == o.out \in {"continue", "pause"} /\ o.make = "works"

\* When others wait, at most one idle connection is not accounted for.
Room(x, n) == n <= 1 \/ Tail(x.requests) = <<>>

\* evrpc_schedule_request of the first call that waits, on a connection that has
\* nothing to do.
LEMMA ScheduleKeeps ==
  ASSUME NEW x, NEW n \in Nat, Rpc!PoolInvOf(x, n), x.requests # <<>>, Room(x, n),
         NEW k \in Rpc!Idle(x), NEW o, Goes(o),
         NEW r, r = Rpc!evrpc_schedule_request([x EXCEPT !.requests = Tail(@)], k,
                                               Head(x.requests), o)
  PROVE  Rpc!PoolInvOf(r, 0)
<1> DEFINE c == Head(x.requests)
           z == [x EXCEPT !.requests = Tail(x.requests)]
           y == Rpc!evrpc_schedule_request(z, k, c, o)
<1>0. /\ o.out \in {"continue", "pause"} /\ o.make = "works"
      /\ n <= 1 \/ Tail(x.requests) = <<>>
  BY DEF Goes, Room
<1>1. /\ x \in Rpc!PoolType /\ ~x.late
      /\ IsInjective(x.requests) /\ IsInjective(x.conns) /\ IsFiniteSet(Rpc!Paused(x))
      /\ Rpc!CallsInv(x)
      /\ Cardinality(Rpc!Idle(x)) <= Cardinality(Rpc!Paused(x)) + n
  BY PoolParts
<1>2. /\ x.call \in [Call -> Rpc!CallType] /\ x.requests \in Seq(Call)
      /\ x.conns \in Seq(PConn) /\ x.on \in [PConn -> Seq(Call)] /\ x.late \in BOOLEAN
      /\ IsFiniteSet(Rpc!Idle(x)) /\ Cardinality(Rpc!Idle(x)) \in Nat
      /\ Cardinality(Rpc!Paused(x)) \in Nat
      /\ k \in PConn /\ x.on[k] = <<>> /\ k \in ToSet(x.conns)
  <2>1. k \in PConn
    BY <1>1, PoolTypes
  <2>2. x.on[k] = <<>> /\ k \in ToSet(x.conns)
    BY RpcLibrary DEF Rpc!Idle
  <2> QED  BY <1>1, <2>1, <2>2, PoolTypes, FS_CardinalityType, Zenon
<1>3. /\ c \in Call /\ c \in ToSet(x.requests) /\ Tail(x.requests) \in Seq(Call)
      /\ ToSet(x.requests) = ToSet(Tail(x.requests)) \cup {c}
      /\ IsInjective(Tail(x.requests)) /\ c \notin ToSet(Tail(x.requests))
  BY <1>1, <1>2, TailFacts
<1>4. /\ x.call[c].at = "queued" /\ x.call[c].told = 0 /\ ~x.call[c].timer
      /\ x.call[c] \in Rpc!CallType
  BY <1>1, <1>2, <1>3, RpcLibrary, Zenon DEF Rpc!CallsInv
<1>5. /\ z \in Rpc!PoolType /\ z.call = x.call /\ z.requests = Tail(x.requests)
      /\ z.conns = x.conns /\ z.on = x.on /\ z.late = x.late
  BY <1>1, <1>3, Zenon DEF Rpc!PoolType
<1> HIDE DEF c
<1>6. CASE o.out = "pause"
  <2> DEFINE v == [x.call[c] EXCEPT !.conn = k, !.at = "paused_out"]
  <2>1. /\ y \in Rpc!PoolType /\ y.requests = z.requests /\ y.conns = z.conns
        /\ y.on = z.on /\ y.late = z.late
        /\ y.call = [x.call EXCEPT ![c] = v]
    <3>1. y = [[z EXCEPT !.call[c].conn = k] EXCEPT !.call[c].at = "paused_out"]
      BY <1>6 DEF Rpc!evrpc_schedule_request
    <3>2. v \in Rpc!CallType
      BY <1>2, <1>4, Zenon DEF Rpc!CallType
    <3>3. y = [z EXCEPT !.call = [x.call EXCEPT ![c] = v]]
      BY <1>2, <1>3, <1>5, <3>1, ZenonT(60) DEF Rpc!PoolType, Rpc!CallType
    <3>4. [x.call EXCEPT ![c] = v] \in [Call -> Rpc!CallType]
      BY <1>2, <3>2, Zenon
    <3> HIDE DEF y, v, z
    <3> QED  BY <1>5, <3>3, <3>4, Zenon DEF Rpc!PoolType
  <2>2. /\ v.at = "paused_out" /\ v.conn = k /\ v.told = 0 /\ ~v.timer
    BY <1>2, <1>4, Zenon DEF Rpc!CallType
  <2> HIDE DEF v, y, z
  <2>3. y.call[c] = v /\ \A d \in Call \ {c} : y.call[d] = x.call[d]
    BY <1>2, <1>3, <2>1
  <2>4. Rpc!CallsInv(y)
    <3>1. /\ ToSet(y.requests) = ToSet(x.requests) \ {c}
          /\ y.conns = x.conns /\ y.on = x.on
      BY <1>3, <1>5, <2>1
    <3>2. ASSUME NEW d \in Call
          PROVE  /\ y.call[d].at = "queued" <=> d \in ToSet(y.requests)
                 /\ y.call[d].at = "sent" => y.call[d].conn \in PConn /\ y.on[y.call[d].conn] = <<d>>
                 /\ y.call[d].at = "paused_out" => y.call[d].conn \in ToSet(y.conns)
                 /\ y.call[d].told = IF y.call[d].at = "freed" THEN 1 ELSE 0
                 /\ y.call[d].timer => y.call[d].at = "sent"
      <4>1. CASE d = c
        BY <1>2, <2>2, <2>3, <3>1, <4>1, Zenon
      <4>2. CASE d # c
        <5>1. y.call[d] = x.call[d] /\ (d \in ToSet(y.requests) <=> d \in ToSet(x.requests))
          BY <2>3, <3>1, <4>2
        <5>2. /\ x.call[d].at = "queued" <=> d \in ToSet(x.requests)
              /\ x.call[d].at = "sent" => x.call[d].conn \in PConn /\ x.on[x.call[d].conn] = <<d>>
              /\ x.call[d].at = "paused_out" => x.call[d].conn \in ToSet(x.conns)
              /\ x.call[d].told = IF x.call[d].at = "freed" THEN 1 ELSE 0
              /\ x.call[d].timer => x.call[d].at = "sent"
          BY <1>1, RpcLibrary DEF Rpc!CallsInv
        <5> QED  BY <3>1, <5>1, <5>2
      <4> QED  BY <4>1, <4>2
    <3>3. ASSUME NEW j \in PConn
          PROVE  \/ y.on[j] = <<>>
                 \/ \E d \in Call : y.on[j] = <<d>> /\ y.call[d].at = "sent" /\ y.call[d].conn = j
      <4>1. y.on[j] = x.on[j] /\ x.call[c].at # "sent"
        BY <1>4, <3>1
      <4> QED  BY <1>1, <2>3, <4>1 DEF Rpc!CallsInv
    <3> QED  BY <3>2, <3>3, RpcLibrary DEF Rpc!CallsInv
  <2>5. Rpc!Paused(y) = Rpc!Paused(x) \cup {c} /\ c \notin Rpc!Paused(x)
    BY <1>3, <1>4, <2>2, <2>3 DEF Rpc!Paused
  <2>6. /\ IsFiniteSet(Rpc!Paused(y))
        /\ Cardinality(Rpc!Paused(y)) = Cardinality(Rpc!Paused(x)) + 1
    BY <1>1, <2>5, FS_AddElement
  <2>7. Rpc!Idle(y) = Rpc!Idle(x)
    BY <1>5, <2>1 DEF Rpc!Idle
  <2>8. y.requests # <<>> => Cardinality(Rpc!Idle(y)) <= Cardinality(Rpc!Paused(y)) + 0
    BY <1>0, <1>1, <1>2, <1>5, <2>1, <2>6, <2>7, SMTT(30)
  <2>9. Rpc!PoolInvOf(y, 0)
    BY <1>1, <1>3, <1>5, <2>1, <2>4, <2>6, <2>8, PoolParts, Zenon
  <2> QED  BY <2>9 DEF y, z, c
<1>7. CASE o.out = "continue"
  <2> DEFINE v == [x.call[c] EXCEPT !.conn = k, !.timer = TRUE, !.at = "sent"]
  <2>1. /\ y \in Rpc!PoolType /\ y.requests = z.requests /\ y.conns = z.conns
        /\ y.on = [x.on EXCEPT ![k] = <<c>>] /\ y.late = z.late
        /\ y.call = [x.call EXCEPT ![c] = v]
    <3> DEFINE w == [z EXCEPT !.call[c].conn = k]
               u == [w EXCEPT !.call[c].timer = TRUE]
    <3>1. y = [u EXCEPT !.call[c].at = "sent", !.on[w.call[c].conn] = Append(@, c)]
      BY <1>0, <1>7 DEF Rpc!evrpc_schedule_request, Rpc!evrpc_schedule_request_closure
    <3>2. v \in Rpc!CallType /\ <<c>> \in Seq(Call) /\ Append(<<>>, c) = <<c>>
      BY <1>2, <1>3, <1>4, OneCall, Zenon DEF Rpc!CallType
    <3>3. w.call[c].conn = k /\ w.on = x.on
      BY <1>2, <1>3, <1>5 DEF Rpc!PoolType, Rpc!CallType
    <3>4. u.on[k] = <<>> /\ u.on = x.on
      BY <1>2, <1>3, <1>5, <3>3 DEF Rpc!PoolType, Rpc!CallType
    <3>5. u = [z EXCEPT !.call = [x.call EXCEPT ![c] = [x.call[c] EXCEPT !.conn = k, !.timer = TRUE]]]
      BY <1>2, <1>3, <1>5, Zenon DEF Rpc!PoolType, Rpc!CallType
    <3> DEFINE t == [x.call[c] EXCEPT !.conn = k, !.timer = TRUE]
    <3>6. t \in Rpc!CallType /\ v = [t EXCEPT !.at = "sent"]
      BY <1>2, <1>4, Zenon DEF Rpc!CallType
    <3>7. /\ [x.call EXCEPT ![c] = v] \in [Call -> Rpc!CallType]
          /\ [x.call EXCEPT ![c] = t] \in [Call -> Rpc!CallType]
          /\ [x.on EXCEPT ![k] = <<c>>] \in [PConn -> Seq(Call)]
      BY <1>2, <3>2, <3>6, Zenon
    <3>8. /\ u \in Rpc!PoolType /\ u.call = [x.call EXCEPT ![c] = t] /\ u.on = x.on
          /\ u.requests = z.requests /\ u.conns = z.conns /\ u.late = z.late
      <4> HIDE DEF u, t, z
      <4> QED  BY <1>5, <3>5, <3>7, Zenon DEF Rpc!PoolType, t
    <3>9. y = [u EXCEPT !.call = [u.call EXCEPT ![c] = [u.call[c] EXCEPT !.at = "sent"]],
                        !.on = [u.on EXCEPT ![k] = Append(u.on[k], c)]]
      BY <3>1, <3>3, Zenon
    <3> HIDE DEF u, w, t, z, y, v
    <3>10. u.call[c] = t /\ [u.call EXCEPT ![c] = v] = [x.call EXCEPT ![c] = v]
      BY <1>2, <1>3, <3>8, Zenon
    <3>11. y = [u EXCEPT !.call = [x.call EXCEPT ![c] = v], !.on = [x.on EXCEPT ![k] = <<c>>]]
      BY <1>2, <3>2, <3>4, <3>6, <3>9, <3>10, Zenon
    <3> QED  BY <3>7, <3>8, <3>11, Zenon DEF Rpc!PoolType
  <2>2. /\ v.at = "sent" /\ v.conn = k /\ v.told = 0 /\ v.timer
    BY <1>2, <1>4 DEF Rpc!CallType
  <2> HIDE DEF v, y, z
  <2>3. y.call[c] = v /\ \A d \in Call \ {c} : y.call[d] = x.call[d]
    BY <1>2, <1>3, <2>1
  <2>4. y.on[k] = <<c>> /\ <<c>> # <<>> /\ \A j \in PConn \ {k} : y.on[j] = x.on[j]
    BY <1>2, <1>3, <2>1, OneCall
  <2>5. Rpc!CallsInv(y)
    <3>1. ASSUME NEW d \in Call, x.call[d].at = "sent", x.call[d].conn = k
          PROVE  FALSE
      <4>1. x.on[k] = <<d>>
        BY <1>1, <3>1, Zenon DEF Rpc!CallsInv
      <4> QED  BY <1>2, <4>1, OneCall, Zenon
    <3> QED
      BY <1>1, <1>2, <1>3, <1>4, <1>5, <2>1, <2>2, <2>3, <2>4, <3>1, RpcLibrary, SMTT(30) DEF Rpc!CallsInv
  <2>6. Rpc!Paused(y) = Rpc!Paused(x)
    BY <1>3, <1>4, <2>2, <2>3 DEF Rpc!Paused
  <2>7. Rpc!Idle(y) = Rpc!Idle(x) \ {k}
    <3>1. ToSet(x.conns) \subseteq PConn
      BY <1>2, ElementsInRange
    <3>2. /\ Rpc!Idle(x) = {j \in ToSet(x.conns) : x.on[j] = <<>>}
          /\ Rpc!Idle(y) = {j \in ToSet(x.conns) : y.on[j] = <<>>}
      BY <1>5, <2>1, RpcLibrary DEF Rpc!Idle
    <3> QED  BY <2>4, <3>1, <3>2, Zenon
  <2>8. Cardinality(Rpc!Idle(y)) = Cardinality(Rpc!Idle(x)) - 1
    BY <1>2, <2>7, FS_RemoveElement, ZenonT(60)
  <2>9. y.requests # <<>> => Cardinality(Rpc!Idle(y)) <= Cardinality(Rpc!Paused(y)) + 0
    <3>1. CASE n <= 1
      BY <1>1, <1>2, <2>6, <2>8, <3>1
    <3>2. CASE Tail(x.requests) = <<>>
      BY <1>5, <2>1, <3>2
    <3> QED  BY <1>0, <3>1, <3>2
  <2>10. Rpc!PoolInvOf(y, 0)
    BY <1>1, <1>3, <1>5, <2>1, <2>5, <2>6, <2>9, PoolParts, Zenon
  <2> QED  BY <2>10 DEF y, z, c
<1> QED  BY <1>0, <1>6, <1>7

\* evrpc_pool_find_connection finds an idle connection if there is one.
LEMMA FindFacts ==
  ASSUME NEW x \in Rpc!PoolType, NEW k, k = Rpc!evrpc_pool_find_connection(x)
  PROVE  \/ k = NoConn /\ Rpc!Idle(x) = {}
         \/ k \in Rpc!Idle(x)
<1> DEFINE I == {i \in DOMAIN x.conns : x.on[x.conns[i]] = <<>>}
<1>1. /\ x.conns \in Seq(PConn) /\ DOMAIN x.conns = 1 .. Len(x.conns) /\ Len(x.conns) \in Nat
      /\ ToSet(x.conns) = {x.conns[i] : i \in 1 .. Len(x.conns)}
  BY PoolTypes, ElementsInRange
<1>2. Rpc!Idle(x) = {x.conns[i] : i \in I}
  BY <1>1, RpcLibrary DEF Rpc!Idle
<1>3. k = IF I = {} THEN NoConn ELSE x.conns[Min(I)]
  BY RpcLibrary DEF Rpc!evrpc_pool_find_connection
<1>4. I \in SUBSET Nat
  BY <1>1
<1> HIDE DEF I
<1>5. CASE I = {}
  BY <1>2, <1>3, <1>5
<1>6. CASE I # {}
  BY <1>2, <1>3, <1>4, <1>6, MinOfNaturals, Zenon
<1> QED  BY <1>5, <1>6

LEMMA PoolScheduleKeeps ==
  ASSUME NoConn \notin PConn, NEW x, NEW n \in Nat, Rpc!PoolInvOf(x, n),
         Room(x, n), NEW o, Goes(o)
  PROVE  Rpc!PoolInvOf(Rpc!evrpc_pool_schedule(x, o), 0)
<1> DEFINE k == Rpc!evrpc_pool_find_connection(x)
           y == Rpc!evrpc_pool_schedule(x, o)
<1>1. /\ x \in Rpc!PoolType /\ ~x.late
      /\ IsInjective(x.requests) /\ IsInjective(x.conns) /\ IsFiniteSet(Rpc!Paused(x))
      /\ Rpc!CallsInv(x)
  BY PoolParts
<1>2. \/ k = NoConn /\ Rpc!Idle(x) = {}
      \/ k \in Rpc!Idle(x) /\ k # NoConn
  BY <1>1, FindFacts, PoolTypes
<1>3. CASE x.requests = <<>>
  <2>1. y = x
    BY <1>3 DEF Rpc!evrpc_pool_schedule
  <2> QED  BY <1>1, <1>3, <2>1, PoolParts
<1>4. CASE x.requests # <<>> /\ k = NoConn
  <2>1. y = x
    BY <1>4 DEF Rpc!evrpc_pool_schedule
  <2>2. Cardinality(Rpc!Idle(x)) = 0 /\ Cardinality(Rpc!Paused(x)) \in Nat
    BY <1>1, <1>2, <1>4, PoolTypes, FS_EmptySet, FS_CardinalityType
  <2>3. Cardinality(Rpc!Idle(x)) <= Cardinality(Rpc!Paused(x)) + 0
    BY <2>2
  <2>4. Rpc!PoolInvOf(x, 0)
    BY <1>1, <2>3, PoolParts
  <2> QED  BY <2>1, <2>4
<1>5. CASE x.requests # <<>> /\ k # NoConn
  <2>1. y = Rpc!evrpc_schedule_request([x EXCEPT !.requests = Tail(@)], k, Head(x.requests), o)
    BY <1>5 DEF Rpc!evrpc_pool_schedule
  <2>2. k \in Rpc!Idle(x)
    BY <1>2, <1>5
  <2> HIDE DEF k, y
  <2>3. Rpc!PoolInvOf(y, 0)
    BY <1>5, <2>1, <2>2, ScheduleKeeps, Zenon
  <2> QED  BY <2>3 DEF y
<1> QED  BY <1>3, <1>4, <1>5

\* The pool x after the call c has left its connection k, and is now v.
Left(x, c, k, v) == [x EXCEPT !.call = [x.call EXCEPT ![c] = v], !.on = [x.on EXCEPT ![k] = <<>>]]
Ended(v)  == v \in Rpc!CallType /\ v.at = "freed" /\ v.told = 1 /\ ~v.timer
Paused(v) == v \in Rpc!CallType /\ v.at = "paused_in" /\ v.told = 0 /\ ~v.timer

\* A call leaves its connection: it is ended, or paused before the user is told.
LEMMA LeavesConnection ==
  ASSUME NEW x, Rpc!PoolInvOf(x, 0), NEW c \in Call, NEW k \in PConn,
         x.call[c].at = "sent", x.call[c].conn = k, NEW v, Ended(v) \/ Paused(v)
  PROVE  /\ Ended(v) => Rpc!PoolInvOf(Left(x, c, k, v), 1)
         /\ Paused(v) => Rpc!PoolInvOf(Left(x, c, k, v), 0)
<1> DEFINE y == Left(x, c, k, v)
<1>0. /\ v \in Rpc!CallType /\ ~v.timer /\ v.at \in {"freed", "paused_in"}
      /\ v.told = IF v.at = "freed" THEN 1 ELSE 0
      /\ Ended(v) => v.at = "freed"
      /\ Paused(v) => v.at = "paused_in"
  BY DEF Ended, Paused
<1>1. /\ x \in Rpc!PoolType /\ ~x.late
      /\ IsInjective(x.requests) /\ IsInjective(x.conns) /\ IsFiniteSet(Rpc!Paused(x))
      /\ Rpc!CallsInv(x)
      /\ x.requests # <<>> => Cardinality(Rpc!Idle(x)) <= Cardinality(Rpc!Paused(x)) + 0
  BY PoolParts
<1>2. /\ x.call \in [Call -> Rpc!CallType] /\ x.conns \in Seq(PConn)
      /\ x.on \in [PConn -> Seq(Call)]
      /\ IsFiniteSet(Rpc!Idle(x)) /\ Cardinality(Rpc!Idle(x)) \in Nat
      /\ Cardinality(Rpc!Paused(x)) \in Nat
      /\ x.on[k] = <<c>> /\ <<c>> # <<>> /\ \A d : <<c>> = <<d>> => c = d
  <2>1. x.on[k] = <<c>>
    BY <1>1, Zenon DEF Rpc!CallsInv
  <2> QED  BY <1>1, <2>1, PoolTypes, FS_CardinalityType, OneCall
<1>3. /\ y \in Rpc!PoolType /\ y.requests = x.requests /\ y.conns = x.conns /\ y.late = x.late
      /\ y.call = [x.call EXCEPT ![c] = v] /\ y.on = [x.on EXCEPT ![k] = <<>>]
  <2>1. [x.call EXCEPT ![c] = v] \in [Call -> Rpc!CallType]
    BY <1>0, <1>2
  <2>2. [x.on EXCEPT ![k] = <<>>] \in [PConn -> Seq(Call)]
    BY <1>2
  <2> QED  BY <1>1, <2>1, <2>2, Zenon DEF Rpc!PoolType, Left
<1> HIDE DEF y
<1>4. /\ y.call[c] = v /\ \A d \in Call \ {c} : y.call[d] = x.call[d]
      /\ y.on[k] = <<>> /\ \A j \in PConn \ {k} : y.on[j] = x.on[j]
  BY <1>2, <1>3
<1>5. Rpc!CallsInv(y)
  <2>1. ASSUME NEW d \in Call \ {c}, x.call[d].at = "sent"  PROVE x.call[d].conn # k
    BY <1>1, <1>2, <2>1 DEF Rpc!CallsInv
  <2>2. c \notin ToSet(x.requests)
    BY <1>1, RpcLibrary DEF Rpc!CallsInv
  <2> QED  BY <1>0, <1>1, <1>2, <1>3, <1>4, <2>1, <2>2, RpcLibrary DEF Rpc!CallsInv
<1>6. c \notin Rpc!Paused(x)
  BY DEF Rpc!Paused
<1>7. /\ Rpc!Idle(y) \subseteq Rpc!Idle(x) \cup {k}
      /\ k \notin Rpc!Idle(x)
  <2>1. ToSet(x.conns) \subseteq PConn
    BY <1>2, ElementsInRange
  <2>2. /\ Rpc!Idle(x) = {j \in ToSet(x.conns) : x.on[j] = <<>>}
        /\ Rpc!Idle(y) = {j \in ToSet(x.conns) : y.on[j] = <<>>}
    BY <1>3, RpcLibrary DEF Rpc!Idle
  <2> QED  BY <1>2, <1>4, <2>1, <2>2, Zenon
<1>8. /\ Cardinality(Rpc!Idle(y)) <= Cardinality(Rpc!Idle(x)) + 1
      /\ Cardinality(Rpc!Idle(y)) \in Nat
  <2>1. /\ IsFiniteSet(Rpc!Idle(x) \cup {k})
        /\ Cardinality(Rpc!Idle(x) \cup {k}) = Cardinality(Rpc!Idle(x)) + 1
    BY <1>2, <1>7, FS_AddElement
  <2> QED  BY <1>7, <2>1, FS_Subset, FS_CardinalityType
<1>9. CASE v.at = "freed"
  <2>1. Rpc!Paused(y) = Rpc!Paused(x)
    BY <1>4, <1>6, <1>9 DEF Rpc!Paused
  <2>2. y.requests # <<>> => Cardinality(Rpc!Idle(y)) <= Cardinality(Rpc!Paused(y)) + 1
    BY <1>1, <1>2, <1>3, <1>8, <2>1
  <2>3. Rpc!PoolInvOf(y, 1)
    BY <1>1, <1>3, <1>5, <2>1, <2>2, PoolParts
  <2> QED  BY <1>0, <1>9, <2>3 DEF y
<1>10. CASE v.at = "paused_in"
  <2>1. Rpc!Paused(y) = Rpc!Paused(x) \cup {c}
    BY <1>4, <1>6, <1>10 DEF Rpc!Paused
  <2>2. /\ IsFiniteSet(Rpc!Paused(y))
        /\ Cardinality(Rpc!Paused(y)) = Cardinality(Rpc!Paused(x)) + 1
    BY <1>1, <1>6, <2>1, FS_AddElement
  <2>3. y.requests # <<>> => Cardinality(Rpc!Idle(y)) <= Cardinality(Rpc!Paused(y)) + 0
    BY <1>1, <1>2, <1>3, <1>8, <2>2
  <2>4. Rpc!PoolInvOf(y, 0)
    BY <1>1, <1>3, <1>5, <2>2, <2>3, PoolParts
  <2> QED  BY <1>0, <1>10, <2>4 DEF y
<1> QED  BY <1>0, <1>9, <1>10

\* The call at the end of a connection is done: it may be paused, or its user is
\* told and the next one is scheduled.
LEMMA FinishedKeeps ==
  ASSUME NoConn \notin PConn, NEW x, Rpc!PoolInvOf(x, 0), NEW k \in PConn, x.on[k] # <<>>,
         NEW ok, NEW o, Goes(o), NEW r, r = Rpc!Finished(x, k, ok, o)
  PROVE  Rpc!PoolInvOf(r, 0)
<1>1. /\ x \in Rpc!PoolType /\ x.call \in [Call -> Rpc!CallType]
      /\ x.on \in [PConn -> Seq(Call)] /\ Rpc!CallsInv(x)
  BY PoolParts, PoolTypes
<1>2. PICK c \in Call : /\ x.on[k] = <<c>> /\ x.call[c].at = "sent" /\ x.call[c].conn = k
                        /\ x.call[c].told = 0
  BY <1>1 DEF Rpc!CallsInv
<1> DEFINE w == [x EXCEPT !.on[k] = Tail(@)]
           y == [w EXCEPT !.call[c].timer = FALSE]
           on == [x.on EXCEPT ![k] = <<>>]
           t == [x.call[c] EXCEPT !.timer = FALSE]
<1>3. Head(x.on[k]) = c /\ Tail(x.on[k]) = <<>>
  BY <1>2, OneCall
<1>4. w = [x EXCEPT !.on = on]
  BY <1>3, Zenon
<1>5. /\ w \in Rpc!PoolType /\ w.call = x.call /\ w.on = on
      /\ w.requests = x.requests /\ w.conns = x.conns /\ w.late = x.late
  <2>1. on \in [PConn -> Seq(Call)]
    BY <1>1
  <2> HIDE DEF on, w
  <2> QED  BY <1>1, <1>4, <2>1, Zenon DEF Rpc!PoolType
<1>6. t \in Rpc!CallType /\ t.at = "sent" /\ t.told = 0 /\ ~t.timer /\ t.conn = k
  BY <1>1, <1>2, Zenon DEF Rpc!CallType
<1>7. y = [w EXCEPT !.call = [x.call EXCEPT ![c] = t]]
  BY <1>5
<1>8. /\ y \in Rpc!PoolType /\ y.call = [x.call EXCEPT ![c] = t] /\ y.call[c] = t /\ y.on = on
      /\ y.requests = x.requests /\ y.conns = x.conns /\ y.late = x.late
  <2>1. [x.call EXCEPT ![c] = t] \in [Call -> Rpc!CallType]
    BY <1>1, <1>6
  <2> HIDE DEF t, w, y, on
  <2> QED  BY <1>1, <1>5, <1>7, <2>1, Zenon DEF Rpc!PoolType
<1>9. r = IF ok /\ o.in = "pause" THEN [y EXCEPT !.call[c].at = "paused_in"]
          ELSE Rpc!evrpc_pool_schedule(Rpc!Tell(y, c), o)
  <2>1. r = Rpc!evrpc_reply_done(w, c, ok, o)
    BY <1>3 DEF Rpc!Finished
  <2> HIDE DEF w
  <2> QED  BY <2>1 DEF Rpc!evrpc_reply_done, Rpc!evrpc_reply_done_closure
\* Both results are x with one call and one connection changed.
<1>10. ASSUME NEW v \in Rpc!CallType,
              NEW f, f = [y EXCEPT !.call = [y.call EXCEPT ![c] = v]]
       PROVE  f = Left(x, c, k, v)
  <2>1. [y.call EXCEPT ![c] = v] = [x.call EXCEPT ![c] = v]
    BY <1>1, <1>8
  <2>2. f = [y EXCEPT !.call = [x.call EXCEPT ![c] = v]]
    BY <1>10, <2>1, Zenon
  <2>3. [x.call EXCEPT ![c] = v] \in [Call -> Rpc!CallType]
    BY <1>1
  <2> HIDE DEF y, w, t
  <2> QED  BY <1>1, <1>8, <2>2, <2>3, Zenon DEF Rpc!PoolType, Left
<1>11. CASE ok /\ o.in = "pause"
  <2> DEFINE v == [t EXCEPT !.at = "paused_in"]
  <2>1. v \in Rpc!CallType /\ v.at = "paused_in" /\ v.told = 0 /\ ~v.timer
    BY <1>6, Zenon DEF Rpc!CallType
  <2>2. r = [y EXCEPT !.call = [y.call EXCEPT ![c] = v]]
    BY <1>8, <1>9, <1>11, Zenon
  <2> HIDE DEF v, y, w, t, on
  <2>3. r = Left(x, c, k, v)
    BY <1>10, <2>1, <2>2
  <2>4. Paused(v)
    BY <2>1 DEF Paused
  <2> QED  BY <1>2, <2>3, <2>4, LeavesConnection
<1>12. CASE ~(ok /\ o.in = "pause")
  <2> DEFINE v == [t EXCEPT !.told = t.told + 1, !.at = "freed"]
             u == Rpc!Tell(y, c)
  <2>1. v \in Rpc!CallType /\ v.at = "freed" /\ v.told = 1 /\ ~v.timer
    <3>1. t.told + 1 = 1 /\ t.told + 1 \in Nat
      BY <1>6
    <3> HIDE DEF t
    <3> QED  BY <1>6, <3>1, Zenon DEF Rpc!CallType
  <2>2. u = [y EXCEPT !.call = [y.call EXCEPT ![c] = v]]
    <3> HIDE DEF t, y
    <3>1. v = [[t EXCEPT !.told = t.told + 1] EXCEPT !.at = "freed"]
      BY <1>6 DEF Rpc!CallType
    <3>2. y.call \in [Call -> Rpc!CallType]
      BY <1>8, PoolTypes, Zenon
    <3>3. u.call = [y.call EXCEPT ![c] = v]
      BY <1>8, <3>1, <3>2, Zenon DEF Rpc!Tell, Rpc!PoolType
    <3> QED  BY <1>8, <3>1, <3>2, <3>3, Zenon DEF Rpc!Tell, Rpc!PoolType
  <2>3. r = Rpc!evrpc_pool_schedule(u, o)
    BY <1>9, <1>12
  <2> HIDE DEF v, y, w, t, on, u
  <2>4. u = Left(x, c, k, v)
    BY <1>10, <2>1, <2>2
  <2>5. Rpc!PoolInvOf(u, 1)
    <3>1. Ended(v)
      BY <2>1 DEF Ended
    <3> QED  BY <1>2, <2>4, <3>1, LeavesConnection
  <2>6. 1 \in Nat /\ Room(u, 1)
    BY DEF Room
  <2> QED  BY <2>3, <2>5, <2>6, PoolScheduleKeeps
<1> QED  BY <1>11, <1>12

\* One call of the pool x becomes v.
With(x, c, v) == [x EXCEPT !.call = [x.call EXCEPT ![c] = v]]

LEMMA WithFacts ==
  ASSUME NEW x \in Rpc!PoolType, NEW c \in Call, NEW v \in Rpc!CallType
  PROVE  /\ With(x, c, v) \in Rpc!PoolType
         /\ With(x, c, v).requests = x.requests /\ With(x, c, v).conns = x.conns
         /\ With(x, c, v).on = x.on /\ With(x, c, v).late = x.late
         /\ With(x, c, v).call = [x.call EXCEPT ![c] = v]
<1>1. x.call \in [Call -> Rpc!CallType]
  BY PoolTypes
<1>2. [x.call EXCEPT ![c] = v] \in [Call -> Rpc!CallType]
  BY <1>1
<1>3. /\ With(x, c, v) \in Rpc!PoolType
      /\ With(x, c, v).requests = x.requests /\ With(x, c, v).conns = x.conns
      /\ With(x, c, v).on = x.on /\ With(x, c, v).late = x.late
      /\ With(x, c, v).call = [x.call EXCEPT ![c] = v]
  BY <1>2, Zenon DEF With, Rpc!PoolType
<1> QED  BY <1>3

\* A call that was paused is ended, and its user is told.
LEMMA TellKeeps ==
  ASSUME NEW x, Rpc!PoolInvOf(x, 0), NEW c \in Rpc!Paused(x)
  PROVE  /\ Rpc!PoolInvOf(Rpc!Tell(x, c), 1)
         /\ x.requests = <<>> => Rpc!PoolInvOf(Rpc!Tell(x, c), 0)
<1> DEFINE t == x.call[c]
           v == [t EXCEPT !.told = t.told + 1, !.at = "freed"]
           y == Rpc!Tell(x, c)
<1>1. /\ x \in Rpc!PoolType /\ ~x.late
      /\ IsInjective(x.requests) /\ IsInjective(x.conns) /\ IsFiniteSet(Rpc!Paused(x))
      /\ Rpc!CallsInv(x)
      /\ x.requests # <<>> => Cardinality(Rpc!Idle(x)) <= Cardinality(Rpc!Paused(x)) + 0
  BY PoolParts
<1>2. /\ c \in Call /\ t.at \in {"paused_in", "paused_out"}
      /\ x.call \in [Call -> Rpc!CallType] /\ t \in Rpc!CallType
      /\ Cardinality(Rpc!Idle(x)) \in Nat
  BY <1>1, PoolTypes DEF Rpc!Paused
<1>3. t.told = 0 /\ ~t.timer
  BY <1>1, <1>2 DEF Rpc!CallsInv
<1> HIDE DEF t
<1>4. v \in Rpc!CallType /\ v.at = "freed" /\ v.told = 1 /\ ~v.timer
  <2>1. t.told + 1 = 1 /\ t.told + 1 \in Nat
    BY <1>3
  <2> QED  BY <1>2, <1>3, <2>1, Zenon DEF Rpc!CallType
<1>5. y = With(x, c, v)
  <2>1. v = [[t EXCEPT !.told = t.told + 1] EXCEPT !.at = "freed"]
    BY <1>2 DEF Rpc!CallType
  <2>2. y.call = [x.call EXCEPT ![c] = v]
    BY <1>1, <1>2, <2>1, Zenon DEF Rpc!Tell, Rpc!PoolType, t
  <2> QED  BY <1>1, <1>2, <2>1, <2>2, Zenon DEF Rpc!Tell, Rpc!PoolType, With
<1> HIDE DEF v, y
<1>6. /\ y \in Rpc!PoolType /\ y.requests = x.requests /\ y.conns = x.conns
      /\ y.on = x.on /\ y.late = x.late /\ y.call[c] = v
      /\ \A d \in Call \ {c} : y.call[d] = x.call[d]
  <2>1. x \in Rpc!PoolType /\ c \in Call /\ v \in Rpc!CallType
    BY <1>1, <1>2, <1>4
  <2>2. /\ y \in Rpc!PoolType /\ y.requests = x.requests /\ y.conns = x.conns
        /\ y.on = x.on /\ y.late = x.late /\ y.call = [x.call EXCEPT ![c] = v]
    BY <1>5, <2>1, WithFacts
  <2> QED  BY <1>2, <2>2
<1>7. Rpc!CallsInv(y)
  <2>1. x.call[c].at \notin {"queued", "sent"}
    BY <1>2 DEF t
  <2>2. ASSUME NEW d \in Call
        PROVE  /\ y.call[d].at = "queued" <=> d \in Rpc!ToSet(y.requests)
               /\ y.call[d].at = "sent" => y.call[d].conn \in PConn /\ y.on[y.call[d].conn] = <<d>>
               /\ y.call[d].at = "paused_out" => y.call[d].conn \in Rpc!ToSet(y.conns)
               /\ y.call[d].told = IF y.call[d].at = "freed" THEN 1 ELSE 0
               /\ y.call[d].timer => y.call[d].at = "sent"
    <3>1. CASE d = c
      BY <1>1, <1>2, <1>4, <1>6, <2>1, <3>1 DEF Rpc!CallsInv
    <3>2. CASE d # c
      BY <1>1, <1>6, <3>2 DEF Rpc!CallsInv
    <3> QED  BY <3>1, <3>2
  <2>3. ASSUME NEW k \in PConn
        PROVE  \/ y.on[k] = <<>>
               \/ \E d \in Call : y.on[k] = <<d>> /\ y.call[d].at = "sent" /\ y.call[d].conn = k
    BY <1>1, <1>6, <2>1 DEF Rpc!CallsInv
  <2> QED  BY <2>2, <2>3, Zenon DEF Rpc!CallsInv
<1>8. Rpc!Paused(y) = Rpc!Paused(x) \ {c} /\ Rpc!Idle(y) = Rpc!Idle(x)
  <2>1. Rpc!Paused(y) = Rpc!Paused(x) \ {c}
    BY <1>4, <1>6 DEF Rpc!Paused
  <2>2. Rpc!Idle(y) = Rpc!Idle(x)
    BY <1>6 DEF Rpc!Idle
  <2> QED  BY <2>1, <2>2
<1>9. /\ IsFiniteSet(Rpc!Paused(y))
      /\ Cardinality(Rpc!Paused(y)) = Cardinality(Rpc!Paused(x)) - 1
      /\ Cardinality(Rpc!Paused(x)) \in Nat
  BY <1>1, <1>8, FS_RemoveElement, FS_CardinalityType
<1>10. y.requests # <<>> => Cardinality(Rpc!Idle(y)) <= Cardinality(Rpc!Paused(y)) + 1
  BY <1>1, <1>2, <1>6, <1>8, <1>9
<1>11. Rpc!PoolInvOf(y, 1)
  BY <1>1, <1>6, <1>7, <1>9, <1>10, PoolParts
<1>12. x.requests = <<>> => Rpc!PoolInvOf(y, 0)
  BY <1>1, <1>6, <1>7, <1>9, PoolParts
<1> QED  BY <1>11, <1>12 DEF y

\* A call that was paused before it was sent is sent, on the connection that it was
\* given, which has nothing to do.
LEMMA ResumeKeeps ==
  ASSUME NEW x, Rpc!PoolInvOf(x, 0), NEW c \in Call, x.call[c].at = "paused_out",
         x.on[x.call[c].conn] = <<>>, NEW o, Goes(o), NEW res, res # "terminate"
  PROVE  Rpc!PoolInvOf(Rpc!evrpc_schedule_request_closure(x, c, res, o), 0)
<1> DEFINE k == x.call[c].conn
           t == [x.call[c] EXCEPT !.timer = TRUE]
           v == [t EXCEPT !.at = "sent"]
           u == [x EXCEPT !.call[c].timer = TRUE]
           y == Rpc!evrpc_schedule_request_closure(x, c, res, o)
<1>1. /\ x \in Rpc!PoolType /\ ~x.late
      /\ IsInjective(x.requests) /\ IsInjective(x.conns) /\ IsFiniteSet(Rpc!Paused(x))
      /\ Rpc!CallsInv(x)
      /\ x.requests # <<>> => Cardinality(Rpc!Idle(x)) <= Cardinality(Rpc!Paused(x)) + 0
  BY PoolParts
<1>2. /\ x.call \in [Call -> Rpc!CallType] /\ x.call[c] \in Rpc!CallType
      /\ x.on \in [PConn -> Seq(Call)] /\ x.conns \in Seq(PConn)
      /\ IsFiniteSet(Rpc!Idle(x))
      /\ Cardinality(Rpc!Idle(x)) \in Nat
  BY <1>1, PoolTypes
<1>3. /\ k \in ToSet(x.conns) /\ k \in PConn /\ k \in Rpc!Idle(x)
      /\ x.call[c].told = 0 /\ ToSet(x.conns) \subseteq PConn
  <2>1. k \in ToSet(x.conns) /\ x.call[c].told = 0
    BY <1>1, RpcLibrary DEF Rpc!CallsInv
  <2>2. ToSet(x.conns) \subseteq PConn
    BY <1>2, ElementsInRange
  <2> QED  BY <2>1, <2>2, RpcLibrary DEF Rpc!Idle
<1>4. /\ t \in Rpc!CallType
      /\ v \in Rpc!CallType /\ v.at = "sent" /\ v.told = 0 /\ v.timer /\ v.conn = k
  BY <1>2, <1>3, Zenon DEF Rpc!CallType
<1>5. /\ u = With(x, c, t) /\ u \in Rpc!PoolType /\ u.call = [x.call EXCEPT ![c] = t]
      /\ u.requests = x.requests /\ u.conns = x.conns /\ u.on = x.on /\ u.late = x.late
  <2>1. u = With(x, c, t)
    BY <1>1, <1>2 DEF With, Rpc!PoolType
  <2> HIDE DEF u, t
  <2> QED  BY <1>1, <1>4, <2>1, WithFacts
<1>6. y = [u EXCEPT !.call[c].at = "sent", !.on[k] = Append(@, c)]
  BY DEF Rpc!evrpc_schedule_request_closure, Goes
<1> HIDE DEF u, t, y, k
<1>7. /\ y \in Rpc!PoolType /\ y.requests = x.requests /\ y.conns = x.conns /\ y.late = x.late
      /\ y.call = [x.call EXCEPT ![c] = v] /\ y.on = [x.on EXCEPT ![k] = <<c>>]
  <2>1. u.on[k] = <<>> /\ Append(<<>>, c) = <<c>> /\ <<c>> \in Seq(Call)
    BY <1>5, OneCall DEF k
  <2>2. u.call[c] = t /\ [u.call EXCEPT ![c] = v] = [x.call EXCEPT ![c] = v]
    BY <1>2, <1>5, Zenon
  <2>3. /\ [x.call EXCEPT ![c] = v] \in [Call -> Rpc!CallType]
        /\ [x.on EXCEPT ![k] = <<c>>] \in [PConn -> Seq(Call)]
    BY <1>2, <1>4, <2>1, Zenon
  <2>4. y = [u EXCEPT !.call = [u.call EXCEPT ![c] = [u.call[c] EXCEPT !.at = "sent"]],
                      !.on = [u.on EXCEPT ![k] = Append(u.on[k], c)]]
    BY <1>6
  <2>5. y = [u EXCEPT !.call = [x.call EXCEPT ![c] = v], !.on = [x.on EXCEPT ![k] = <<c>>]]
    BY <1>5, <2>1, <2>2, <2>4, Zenon
  <2> HIDE DEF v
  <2> QED  BY <1>5, <2>3, <2>5, Zenon DEF Rpc!PoolType
<1> HIDE DEF v
<1>8. /\ y.call[c] = v /\ \A d \in Call \ {c} : y.call[d] = x.call[d]
      /\ y.on[k] = <<c>> /\ <<c>> # <<>> /\ \A j \in PConn \ {k} : y.on[j] = x.on[j]
  BY <1>2, <1>3, <1>7, OneCall
<1>9. Rpc!CallsInv(y)
  <2>1. ASSUME NEW d \in Call, x.call[d].at = "sent", x.call[d].conn = k
        PROVE  FALSE
    <3>1. x.on[k] = <<d>>
      BY <1>1, <2>1, Zenon DEF Rpc!CallsInv
    <3> QED  BY <3>1, OneCall, Zenon DEF k
  <2> QED  BY <1>1, <1>2, <1>3, <1>4, <1>7, <1>8, <2>1, RpcLibrary, SMTT(30) DEF Rpc!CallsInv
<1>10. /\ c \in Rpc!Paused(x) /\ Rpc!Paused(y) = Rpc!Paused(x) \ {c}
  BY <1>4, <1>8 DEF Rpc!Paused
<1>11. Rpc!Idle(y) = Rpc!Idle(x) \ {k}
  <2>1. /\ Rpc!Idle(x) = {j \in ToSet(x.conns) : x.on[j] = <<>>}
        /\ Rpc!Idle(y) = {j \in ToSet(x.conns) : y.on[j] = <<>>}
    BY <1>7, RpcLibrary DEF Rpc!Idle
  <2> QED  BY <1>3, <1>8, <2>1
<1>12. /\ IsFiniteSet(Rpc!Paused(y))
       /\ Cardinality(Rpc!Paused(y)) = Cardinality(Rpc!Paused(x)) - 1
       /\ Cardinality(Rpc!Paused(x)) \in Nat
       /\ Cardinality(Rpc!Idle(y)) = Cardinality(Rpc!Idle(x)) - 1
  BY <1>1, <1>2, <1>3, <1>10, <1>11, FS_RemoveElement, FS_CardinalityType, SMTT(30)
<1>13. y.requests # <<>> => Cardinality(Rpc!Idle(y)) <= Cardinality(Rpc!Paused(y)) + 0
  BY <1>1, <1>2, <1>7, <1>12
<1>14. Rpc!PoolInvOf(y, 0)
  BY <1>1, <1>7, <1>9, <1>12, <1>13, PoolParts
<1> QED  BY <1>14 DEF y

\* A call is made: it is queued, and the first that waits is scheduled.
LEMMA MakeKeeps ==
  ASSUME NoConn \notin PConn, Rpc!PoolInv, NEW c \in Call, NEW o, Goes(o),
         Rpc!evrpc_make_request(c, o)
  PROVE  Rpc!PoolInvOf(p', 0)
<1> DEFINE v == [p.call[c] EXCEPT !.at = "queued"]
           w == [p EXCEPT !.requests = Append(@, c)]
           x == [p EXCEPT !.requests = Append(@, c), !.call[c].at = "queued"]
<1>1. /\ p \in Rpc!PoolType /\ ~p.late
      /\ IsInjective(p.requests) /\ IsInjective(p.conns) /\ IsFiniteSet(Rpc!Paused(p))
      /\ Rpc!CallsInv(p)
      /\ p.requests # <<>> => Cardinality(Rpc!Idle(p)) <= Cardinality(Rpc!Paused(p)) + 0
  BY PoolParts DEF Rpc!PoolInv
<1>2. /\ p.call \in [Call -> Rpc!CallType] /\ p.call[c] \in Rpc!CallType
      /\ p.requests \in Seq(Call) /\ p.on \in [PConn -> Seq(Call)]
      /\ Cardinality(Rpc!Idle(p)) \in Nat /\ Cardinality(Rpc!Paused(p)) \in Nat
  BY <1>1, PoolTypes, FS_CardinalityType
<1>3. p.call[c].at = "new" /\ p' = Rpc!evrpc_pool_schedule(x, o)
  BY DEF Rpc!evrpc_make_request
<1>4. c \notin ToSet(p.requests) /\ p.call[c].told = 0 /\ ~p.call[c].timer
  BY <1>1, <1>3, RpcLibrary DEF Rpc!CallsInv
<1>5. /\ Append(p.requests, c) \in Seq(Call) /\ IsInjective(Append(p.requests, c))
      /\ ToSet(Append(p.requests, c)) = ToSet(p.requests) \cup {c}
  BY <1>1, <1>2, <1>4, AppendElements
<1>6. v \in Rpc!CallType /\ v.at = "queued" /\ v.told = 0 /\ ~v.timer
  BY <1>2, <1>4, Zenon DEF Rpc!CallType
<1>7. /\ w \in Rpc!PoolType /\ w.requests = Append(p.requests, c) /\ w.conns = p.conns
      /\ w.on = p.on /\ w.late = p.late /\ w.call = p.call
  BY <1>1, <1>5, Zenon DEF Rpc!PoolType
<1>8. x = With(w, c, v)
  BY <1>1 DEF With, Rpc!PoolType
<1> HIDE DEF v, w, x
<1>9. /\ x \in Rpc!PoolType /\ x.requests = Append(p.requests, c) /\ x.conns = p.conns
      /\ x.on = p.on /\ x.late = p.late
      /\ x.call[c] = v /\ \A d \in Call \ {c} : x.call[d] = p.call[d]
  <2>1. /\ x \in Rpc!PoolType /\ x.requests = w.requests /\ x.conns = w.conns
        /\ x.on = w.on /\ x.late = w.late /\ x.call = [w.call EXCEPT ![c] = v]
    BY <1>6, <1>7, <1>8, WithFacts
  <2> QED  BY <1>2, <1>7, <2>1
<1>10. Rpc!CallsInv(x)
  <2>1. ASSUME NEW d \in Call
        PROVE  /\ x.call[d].at = "queued" <=> d \in ToSet(x.requests)
               /\ x.call[d].at = "sent" => x.call[d].conn \in PConn /\ x.on[x.call[d].conn] = <<d>>
               /\ x.call[d].at = "paused_out" => x.call[d].conn \in ToSet(x.conns)
               /\ x.call[d].told = IF x.call[d].at = "freed" THEN 1 ELSE 0
               /\ x.call[d].timer => x.call[d].at = "sent"
    <3>1. CASE d = c
      BY <1>5, <1>6, <1>9, <3>1
    <3>2. CASE d # c
      <4>1. d \in ToSet(x.requests) <=> d \in ToSet(p.requests)
        BY <1>5, <1>9, <3>2
      <4>2. x.call[d] = p.call[d] /\ x.on = p.on /\ x.conns = p.conns
        BY <1>9, <3>2
      <4> QED  BY <1>1, <4>1, <4>2, RpcLibrary DEF Rpc!CallsInv
    <3> QED  BY <3>1, <3>2
  <2>2. ASSUME NEW k \in PConn
        PROVE  \/ x.on[k] = <<>>
               \/ \E d \in Call : x.on[k] = <<d>> /\ x.call[d].at = "sent" /\ x.call[d].conn = k
    BY <1>1, <1>3, <1>9 DEF Rpc!CallsInv
  <2> QED  BY <2>1, <2>2, RpcLibrary, Zenon DEF Rpc!CallsInv
<1>11. Rpc!Paused(x) = Rpc!Paused(p)
  BY <1>3, <1>6, <1>9 DEF Rpc!Paused
<1>12. Rpc!Idle(x) = Rpc!Idle(p)
  BY <1>9 DEF Rpc!Idle
<1>13. PICK n \in Nat : Rpc!PoolInvOf(x, n) /\ Room(x, n)
  <2>1. CASE p.requests = <<>>
    <3> DEFINE n == Cardinality(Rpc!Idle(p))
    <3>1. n \in Nat /\ Cardinality(Rpc!Idle(x)) <= Cardinality(Rpc!Paused(x)) + n
      BY <1>2, <1>11, <1>12
    <3> HIDE DEF n
    <3>2. Rpc!PoolInvOf(x, n)
      BY <1>1, <1>5, <1>9, <1>10, <1>11, <3>1, PoolParts, Zenon
    <3>3. x.requests = <<c>>
      BY <1>9, <2>1, OneCall
    <3>4. Tail(x.requests) = <<>>
      BY <3>3, OneCall
    <3> QED  BY <3>1, <3>2, <3>4 DEF Room
  <2>2. CASE p.requests # <<>>
    <3>1. Cardinality(Rpc!Idle(x)) <= Cardinality(Rpc!Paused(x)) + 0
      BY <1>1, <1>11, <1>12, <2>2
    <3>2. Rpc!PoolInvOf(x, 0)
      BY <1>1, <1>5, <1>9, <1>10, <1>11, <3>1, PoolParts, Zenon
    <3>3. 0 \in Nat /\ Room(x, 0)
      BY DEF Room
    <3> QED  BY <3>2, <3>3
  <2> QED  BY <2>1, <2>2
<1> QED  BY <1>3, <1>13, PoolScheduleKeeps

\* The timer of a call fails the first request of its connection, which is it.
LEMMA TimeoutKeeps ==
  ASSUME NoConn \notin PConn, Rpc!PoolInv, NEW c \in Call, NEW o, Goes(o),
         Rpc!evrpc_request_timeout(c, o)
  PROVE  Rpc!PoolInvOf(p', 0)
<1> DEFINE k == p.call[c].conn
           v == [p.call[c] EXCEPT !.timer = FALSE]
           x == [p EXCEPT !.call[c].timer = FALSE, !.late = @ \/ Head(p.on[k]) # c]
<1>1. /\ p \in Rpc!PoolType /\ ~p.late
      /\ IsInjective(p.requests) /\ IsInjective(p.conns) /\ IsFiniteSet(Rpc!Paused(p))
      /\ Rpc!CallsInv(p)
      /\ p.requests # <<>> => Cardinality(Rpc!Idle(p)) <= Cardinality(Rpc!Paused(p)) + 0
  BY PoolParts DEF Rpc!PoolInv
<1>2. p.call \in [Call -> Rpc!CallType] /\ p.call[c] \in Rpc!CallType
  BY <1>1, PoolTypes
<1>3. p.call[c].timer /\ p' = Rpc!Finished(x, k, FALSE, o)
  BY DEF Rpc!evrpc_request_timeout
<1>4. /\ p.call[c].at = "sent" /\ p.call[c].told = 0 /\ k \in PConn
      /\ p.on[k] = <<c>> /\ Head(p.on[k]) = c /\ p.on[k] # <<>>
  <2>1. p.call[c].at = "sent" /\ p.call[c].told = 0 /\ k \in PConn /\ p.on[k] = <<c>>
    BY <1>1, <1>3 DEF Rpc!CallsInv
  <2> QED  BY <2>1, OneCall
<1>5. /\ v \in Rpc!CallType /\ v.at = "sent" /\ v.told = 0 /\ ~v.timer /\ v.conn = k
  BY <1>2, <1>4, Zenon DEF Rpc!CallType
<1>6. x = With(p, c, v)
  <2>1. (p.late \/ Head(p.on[k]) # c) = FALSE /\ p.late = FALSE
    BY <1>1, <1>4, PoolTypes
  <2> HIDE DEF k
  <2> QED  BY <1>1, <2>1, Zenon DEF With, Rpc!PoolType
<1> HIDE DEF v, x, k
<1>7. /\ x \in Rpc!PoolType /\ x.requests = p.requests /\ x.conns = p.conns
      /\ x.on = p.on /\ x.late = p.late
      /\ x.call[c] = v /\ \A d \in Call \ {c} : x.call[d] = p.call[d]
  <2>1. /\ x \in Rpc!PoolType /\ x.requests = p.requests /\ x.conns = p.conns
        /\ x.on = p.on /\ x.late = p.late /\ x.call = [p.call EXCEPT ![c] = v]
    BY <1>1, <1>5, <1>6, WithFacts
  <2> QED  BY <1>2, <2>1
<1>8. Rpc!CallsInv(x)
  <2>1. ASSUME NEW d \in Call
        PROVE  /\ x.call[d].at = "queued" <=> d \in ToSet(x.requests)
               /\ x.call[d].at = "sent" => x.call[d].conn \in PConn /\ x.on[x.call[d].conn] = <<d>>
               /\ x.call[d].at = "paused_out" => x.call[d].conn \in ToSet(x.conns)
               /\ x.call[d].told = IF x.call[d].at = "freed" THEN 1 ELSE 0
               /\ x.call[d].timer => x.call[d].at = "sent"
    <3>1. CASE d = c
      BY <1>1, <1>4, <1>5, <1>7, <3>1, RpcLibrary DEF Rpc!CallsInv
    <3>2. CASE d # c
      BY <1>1, <1>7, <3>2, RpcLibrary, SMTT(30) DEF Rpc!CallsInv
    <3> QED  BY <3>1, <3>2
  <2>2. ASSUME NEW j \in PConn
        PROVE  \/ x.on[j] = <<>>
               \/ \E d \in Call : x.on[j] = <<d>> /\ x.call[d].at = "sent" /\ x.call[d].conn = j
    <3>1. \/ p.on[j] = <<>>
          \/ \E d \in Call : p.on[j] = <<d>> /\ p.call[d].at = "sent" /\ p.call[d].conn = j
      BY <1>1 DEF Rpc!CallsInv
    <3> QED  BY <1>4, <1>5, <1>7, <3>1 DEF k
  <2> QED  BY <2>1, <2>2, RpcLibrary, Zenon DEF Rpc!CallsInv
<1>9. Rpc!Paused(x) = Rpc!Paused(p)
  BY <1>4, <1>5, <1>7 DEF Rpc!Paused
<1>10. Rpc!Idle(x) = Rpc!Idle(p)
  BY <1>7 DEF Rpc!Idle
<1>11. Rpc!PoolInvOf(x, 0)
  BY <1>1, <1>7, <1>8, <1>9, <1>10, PoolParts
<1> QED  BY <1>3, <1>4, <1>7, <1>11, FinishedKeeps, Zenon

\* A connection joins the pool, and takes the first call that waits.
LEMMA AddKeeps ==
  ASSUME Rpc!PoolInv, NEW k \in PConn, NEW o, Goes(o), Rpc!evrpc_pool_add_connection(k, o)
  PROVE  Rpc!PoolInvOf(p', 0)
<1> DEFINE x == [p EXCEPT !.conns = Append(@, k)]
<1>1. /\ p \in Rpc!PoolType /\ ~p.late
      /\ IsInjective(p.requests) /\ IsInjective(p.conns) /\ IsFiniteSet(Rpc!Paused(p))
      /\ Rpc!CallsInv(p)
      /\ p.requests # <<>> => Cardinality(Rpc!Idle(p)) <= Cardinality(Rpc!Paused(p)) + 0
  BY PoolParts DEF Rpc!PoolInv
<1>2. /\ p.conns \in Seq(PConn) /\ IsFiniteSet(Rpc!Idle(p))
      /\ Cardinality(Rpc!Idle(p)) \in Nat /\ Cardinality(Rpc!Paused(p)) \in Nat
  BY <1>1, PoolTypes, FS_CardinalityType
<1>3. /\ k \notin ToSet(p.conns) /\ p.on[k] = <<>>
      /\ p' = IF p.requests = <<>> THEN x
              ELSE Rpc!evrpc_schedule_request([x EXCEPT !.requests = Tail(@)], k, Head(p.requests), o)
  <2>1. Range(p.conns) = ToSet(p.conns)
    BY DEF Range, ToSet
  <2> QED  BY <2>1, RpcLibrary DEF Rpc!evrpc_pool_add_connection
<1>4. /\ Append(p.conns, k) \in Seq(PConn) /\ IsInjective(Append(p.conns, k))
      /\ ToSet(Append(p.conns, k)) = ToSet(p.conns) \cup {k}
  BY <1>1, <1>2, <1>3, AppendElements
<1>5. /\ x \in Rpc!PoolType /\ x.requests = p.requests /\ x.conns = Append(p.conns, k)
      /\ x.on = p.on /\ x.late = p.late /\ x.call = p.call
  BY <1>1, <1>4, Zenon DEF Rpc!PoolType
<1> HIDE DEF x
<1>6. Rpc!CallsInv(x)
  BY <1>1, <1>4, <1>5, RpcLibrary DEF Rpc!CallsInv
<1>7. Rpc!Paused(x) = Rpc!Paused(p)
  BY <1>5 DEF Rpc!Paused
<1>8. Rpc!Idle(x) = Rpc!Idle(p) \cup {k} /\ k \notin Rpc!Idle(p)
  <2>1. /\ Rpc!Idle(p) = {j \in ToSet(p.conns) : p.on[j] = <<>>}
        /\ Rpc!Idle(x) = {j \in ToSet(p.conns) \cup {k} : p.on[j] = <<>>}
    BY <1>4, <1>5, RpcLibrary DEF Rpc!Idle
  <2> QED  BY <1>3, <2>1
<1>9. Cardinality(Rpc!Idle(x)) = Cardinality(Rpc!Idle(p)) + 1
  BY <1>2, <1>8, FS_AddElement, Zenon
<1>10. CASE p.requests = <<>>
  <2>1. Rpc!PoolInvOf(x, 0)
    BY <1>1, <1>4, <1>5, <1>6, <1>7, <1>10, PoolParts, Zenon
  <2> QED  BY <1>3, <1>10, <2>1
<1>11. CASE p.requests # <<>>
  <2>1. Cardinality(Rpc!Idle(x)) <= Cardinality(Rpc!Paused(x)) + 1
    BY <1>1, <1>2, <1>7, <1>9, <1>11
  <2>2. Rpc!PoolInvOf(x, 1) /\ 1 \in Nat
    BY <1>1, <1>4, <1>5, <1>6, <1>7, <2>1, PoolParts, Zenon
  <2>3. Room(x, 1) /\ k \in Rpc!Idle(x) /\ x.requests # <<>>
    BY <1>5, <1>8, <1>11 DEF Room
  <2>4. p' = Rpc!evrpc_schedule_request([x EXCEPT !.requests = Tail(@)], k, Head(x.requests), o)
    BY <1>3, <1>5, <1>11
  <2> QED  BY <2>2, <2>3, <2>4, ScheduleKeeps, Zenon
<1> QED  BY <1>10, <1>11

\* A connection that no call is to use is taken away.
LEMMA RemoveKeeps ==
  ASSUME Rpc!PoolInv, NEW k \in PConn, Rpc!evrpc_pool_remove_connection(k)
  PROVE  Rpc!PoolInvOf(p', 0)
<1>1. /\ p \in Rpc!PoolType /\ ~p.late
      /\ IsInjective(p.requests) /\ IsInjective(p.conns) /\ IsFiniteSet(Rpc!Paused(p))
      /\ Rpc!CallsInv(p)
      /\ p.requests # <<>> => Cardinality(Rpc!Idle(p)) <= Cardinality(Rpc!Paused(p)) + 0
  BY PoolParts DEF Rpc!PoolInv
<1>2. /\ p.conns \in Seq(PConn) /\ IsFiniteSet(Rpc!Idle(p))
      /\ Cardinality(Rpc!Idle(p)) \in Nat /\ Cardinality(Rpc!Paused(p)) \in Nat
  BY <1>1, PoolTypes, FS_CardinalityType
<1>3. /\ k \in ToSet(p.conns) /\ p' = [p EXCEPT !.conns = RemoveFirst(p.conns, k)]
      /\ \A c \in Call : p.call[c].at = "paused_out" => p.call[c].conn # k
  <2>1. Range(p.conns) = ToSet(p.conns)
    BY DEF Range, ToSet
  <2> QED  BY <2>1, RpcLibrary DEF Rpc!evrpc_pool_remove_connection
<1>4. /\ RemoveFirst(p.conns, k) \in Seq(PConn) /\ IsInjective(RemoveFirst(p.conns, k))
      /\ ToSet(RemoveFirst(p.conns, k)) = ToSet(p.conns) \ {k}
  BY <1>1, <1>2, <1>3, RemoveFirstFacts
<1>5. /\ p' \in Rpc!PoolType /\ p'.requests = p.requests
      /\ p'.conns = RemoveFirst(p.conns, k)
      /\ p'.on = p.on /\ p'.late = p.late /\ p'.call = p.call
  BY <1>1, <1>3, <1>4, Zenon DEF Rpc!PoolType
<1>6. Rpc!CallsInv(p')
  BY <1>1, <1>3, <1>4, <1>5, RpcLibrary DEF Rpc!CallsInv
<1>7. Rpc!Paused(p') = Rpc!Paused(p)
  BY <1>5 DEF Rpc!Paused
<1>8. Rpc!Idle(p') \subseteq Rpc!Idle(p)
  BY <1>4, <1>5, RpcLibrary DEF Rpc!Idle
<1>9. /\ Cardinality(Rpc!Idle(p')) <= Cardinality(Rpc!Idle(p))
      /\ Cardinality(Rpc!Idle(p')) \in Nat
  BY <1>2, <1>8, FS_Subset, FS_CardinalityType
<1>10. p'.requests # <<>> => Cardinality(Rpc!Idle(p')) <= Cardinality(Rpc!Paused(p')) + 0
  BY <1>1, <1>2, <1>5, <1>7, <1>9
<1> QED  BY <1>1, <1>4, <1>5, <1>6, <1>7, <1>10, PoolParts

LEMMA ResumeRequestKeeps ==
  ASSUME NoConn \notin PConn, RpcCareful, Rpc!PoolInv, NEW c \in Call, NEW res, NEW o, Goes(o),
         Rpc!evrpc_resume_request(c, res, o)
  PROVE  Rpc!PoolInvOf(p', 0)
<1>1. p.call[c].at \in {"paused_in", "paused_out"} /\ Rpc!PoolInvOf(p, 0)
  BY DEF Rpc!evrpc_resume_request, Rpc!PoolInv
<1>2. c \in Rpc!Paused(p)
  BY <1>1 DEF Rpc!Paused
<1>3. Rpc!PoolInvOf(Rpc!Tell(p, c), 1)
  BY <1>1, <1>2, TellKeeps
<1>4. CASE p.call[c].at = "paused_in"
  <2>1. p' = Rpc!evrpc_pool_schedule(Rpc!Tell(p, c), o)
    BY <1>4 DEF Rpc!evrpc_resume_request, Rpc!evrpc_reply_done_closure
  <2>2. 1 \in Nat /\ Room(Rpc!Tell(p, c), 1)
    BY DEF Room
  <2> QED  BY <1>3, <2>1, <2>2, PoolScheduleKeeps
<1>5. CASE p.call[c].at = "paused_out"
  <2>1. /\ p.on[p.call[c].conn] = <<>>
        /\ res = "terminate" => p.requests = <<>>
        /\ p' = Rpc!evrpc_schedule_request_closure(p, c, res, o)
    BY <1>5 DEF Rpc!evrpc_resume_request
  <2>2. CASE res = "terminate"
    <3>1. p' = Rpc!Tell(p, c)
      BY <2>1, <2>2 DEF Rpc!evrpc_schedule_request_closure
    <3> QED  BY <1>1, <1>2, <2>1, <2>2, <3>1, TellKeeps
  <2>3. CASE res # "terminate"
    BY <1>1, <1>5, <2>1, <2>3, ResumeKeeps
  <2> QED  BY <2>2, <2>3
<1> QED  BY <1>1, <1>4, <1>5

\* The outcomes that the hooks and HTTP can have under the hypotheses.
LEMMA OutcomesGo ==
  ASSUME OutHooks \subseteq {"continue", "pause"}, "make_request_fails" \notin RpcMay,
         NEW o \in Rpc!Outcomes
  PROVE  Goes(o)
BY Zenon DEF Rpc!Outcomes, Goes

LEMMA PoolInit == Rpc!Init => Rpc!PoolInv
<1> SUFFICES ASSUME Rpc!Init
             PROVE  Rpc!PoolInvOf(p, 0)
  BY DEF Rpc!PoolInv
<1>1. /\ p.requests = <<>> /\ p.conns = <<>> /\ ~p.late
      /\ p.call = [c \in Call |-> Rpc!NewCall] /\ p.on = [k \in PConn |-> <<>>]
  BY DEF Rpc!Init
<1>2. /\ Rpc!NewCall \in Rpc!CallType /\ Rpc!NewCall.at = "new" /\ Rpc!NewCall.told = 0
      /\ ~Rpc!NewCall.timer
  BY DEF Rpc!NewCall, Rpc!CallType
<1>3. p \in Rpc!PoolType
  <2>1. /\ [c \in Call |-> Rpc!NewCall] \in [Call -> Rpc!CallType]
        /\ [k \in PConn |-> <<>>] \in [PConn -> Seq(Call)]
        /\ <<>> \in Seq(Call) /\ <<>> \in Seq(PConn)
    BY <1>2
  <2> QED  BY <2>1 DEF Rpc!Init, Rpc!PoolType
<1>4. IsInjective(<<>>) /\ ToSet(<<>>) = {}
  BY DEF IsInjective, ToSet
<1>5. Rpc!Paused(p) = {}
  BY <1>1, <1>2 DEF Rpc!Paused
<1>6. Rpc!CallsInv(p)
  BY <1>1, <1>2, <1>4, RpcLibrary DEF Rpc!CallsInv
<1>7. IsFiniteSet(Rpc!Paused(p)) /\ IsInjective(p.requests) /\ IsInjective(p.conns)
  BY <1>1, <1>4, <1>5, FS_EmptySet
<1> QED  BY <1>1, <1>3, <1>6, <1>7, PoolParts

LEMMA PoolStep ==
  ASSUME NoConn \notin PConn, RpcCareful, OutHooks \subseteq {"continue", "pause"},
         "make_request_fails" \notin RpcMay
  PROVE  Rpc!PoolInv /\ [Rpc!PoolNext]_p => Rpc!PoolInv'
<1> SUFFICES ASSUME Rpc!PoolInv, [Rpc!PoolNext]_p
             PROVE  Rpc!PoolInvOf(p', 0)
  BY DEF Rpc!PoolInv
<1>1. CASE UNCHANGED p
  BY <1>1 DEF Rpc!PoolInv
<1>2. ASSUME NEW o \in Rpc!Outcomes, NEW k \in PConn, NEW ok, Rpc!HttpDone(k, ok, o)
      PROVE  Rpc!PoolInvOf(p', 0)
  <2>1. Goes(o) /\ p.on[k] # <<>> /\ p' = Rpc!Finished(p, k, ok, o) /\ Rpc!PoolInvOf(p, 0)
    BY <1>2, OutcomesGo DEF Rpc!HttpDone, Rpc!PoolInv
  <2> QED  BY <2>1, FinishedKeeps
<1>3. ASSUME NEW o \in Rpc!Outcomes, NEW c \in Call, Rpc!evrpc_request_timeout(c, o)
      PROVE  Rpc!PoolInvOf(p', 0)
  BY <1>3, OutcomesGo, TimeoutKeeps
<1>4. ASSUME NEW o \in Rpc!Outcomes, NEW c \in Call, NEW res, Rpc!evrpc_resume_request(c, res, o)
      PROVE  Rpc!PoolInvOf(p', 0)
  BY <1>4, OutcomesGo, ResumeRequestKeeps
<1>5. ASSUME NEW o \in Rpc!Outcomes, NEW c \in Call, Rpc!evrpc_make_request(c, o)
      PROVE  Rpc!PoolInvOf(p', 0)
  BY <1>5, OutcomesGo, MakeKeeps
<1>6. ASSUME NEW o \in Rpc!Outcomes, NEW k \in PConn, Rpc!evrpc_pool_add_connection(k, o)
      PROVE  Rpc!PoolInvOf(p', 0)
  BY <1>6, OutcomesGo, AddKeeps
<1>7. ASSUME NEW k \in PConn, Rpc!evrpc_pool_remove_connection(k)
      PROVE  Rpc!PoolInvOf(p', 0)
  BY <1>7, RemoveKeeps
<1> QED  BY <1>1, <1>2, <1>3, <1>4, <1>5, <1>6, <1>7 DEF Rpc!PoolNext, Rpc!Progress

\* At the server.
LEMMA ServerInit == Rpc!Init => Rpc!ServerInv
BY DEF Rpc!Init, Rpc!ServerInv

\* A request that has not been answered moves on, or is answered now.
LEMMA ServerMoves ==
  ASSUME Rpc!ServerInv, NEW r \in SCall, srv.registered,
         srv.req[r] \in {"none", "paused_in", "user", "paused_out"},
         \/ \E where \in {"paused_in", "user", "paused_out"} : srv' = Rpc!At(srv, r, where)
         \/ srv' = Rpc!Answer(srv, r)
  PROVE  Rpc!ServerInv'
<1> DEFINE S == [req : [SCall -> {"none", "paused_in", "user", "paused_out", "answered"}],
                 answers : [SCall -> Nat], registered : BOOLEAN, dangling : BOOLEAN]
<1>1. /\ srv \in S /\ ~srv.dangling /\ srv.answers[r] = 0
      /\ \A x \in SCall : srv.answers[x] = IF srv.req[x] = "answered" THEN 1 ELSE 0
  BY DEF Rpc!ServerInv
<1>2. ASSUME NEW where \in {"paused_in", "user", "paused_out", "answered"}, NEW v,
             v = Rpc!At(srv, r, where)
      PROVE  /\ v \in S /\ ~v.dangling /\ v.registered /\ v.answers = srv.answers
             /\ v.req = [srv.req EXCEPT ![r] = where]
  <2>1. (srv.dangling \/ ~srv.registered) = FALSE
    BY <1>1
  <2>2. v = [srv EXCEPT !.req = [srv.req EXCEPT ![r] = where], !.dangling = FALSE]
    BY <1>2, <2>1, Zenon DEF Rpc!At
  <2>3. [srv.req EXCEPT ![r] = where] \in [SCall -> {"none", "paused_in", "user", "paused_out", "answered"}]
    BY <1>1
  <2> QED  BY <1>1, <2>2, <2>3, Zenon
<1>3. CASE \E where \in {"paused_in", "user", "paused_out"} : srv' = Rpc!At(srv, r, where)
  <2>1. PICK where \in {"paused_in", "user", "paused_out"} : srv' = Rpc!At(srv, r, where)
    BY <1>3
  <2>2. /\ srv' \in S /\ ~srv'.dangling /\ srv'.registered /\ srv'.answers = srv.answers
        /\ srv'.req = [srv.req EXCEPT ![r] = where]
    BY <1>2, <2>1
  <2> QED  BY <1>1, <2>2 DEF Rpc!ServerInv
<1>4. CASE srv' = Rpc!Answer(srv, r)
  <2> DEFINE v == Rpc!At(srv, r, "answered")
  <2>1. /\ v \in S /\ ~v.dangling /\ v.registered /\ v.answers = srv.answers
        /\ v.req = [srv.req EXCEPT ![r] = "answered"]
    BY <1>2
  <2>2. srv' = [v EXCEPT !.answers = [v.answers EXCEPT ![r] = v.answers[r] + 1]]
    BY <1>4 DEF Rpc!Answer
  <2> HIDE DEF v
  <2>3. [srv.answers EXCEPT ![r] = srv.answers[r] + 1] \in [SCall -> Nat] /\ srv.answers[r] + 1 = 1
    BY <1>1
  <2>4. /\ srv' \in S /\ ~srv'.dangling /\ srv'.registered
        /\ srv'.answers = [srv.answers EXCEPT ![r] = srv.answers[r] + 1]
        /\ srv'.req = [srv.req EXCEPT ![r] = "answered"]
    BY <2>1, <2>2, <2>3
  <2>5. \A x \in SCall : srv'.answers[x] = IF srv'.req[x] = "answered" THEN 1 ELSE 0
    BY <1>1, <2>3, <2>4
  <2> QED  BY <2>4, <2>5 DEF Rpc!ServerInv
<1> QED  BY <1>3, <1>4

LEMMA ServerStep ==
  ASSUME "unregister" \notin RpcMay
  PROVE  Rpc!ServerInv /\ [Rpc!ServerNext]_srv => Rpc!ServerInv'
<1> SUFFICES ASSUME Rpc!ServerInv, [Rpc!ServerNext]_srv
             PROVE  Rpc!ServerInv'
  OBVIOUS
<1>0. \A r \in SCall : srv.registered \/ srv.req[r] \in {"none", "answered"}
  BY DEF Rpc!ServerInv
<1>1. CASE UNCHANGED srv
  BY <1>1 DEF Rpc!ServerInv
<1>2. CASE Rpc!evrpc_unregister_rpc
  BY <1>2, Zenon DEF Rpc!evrpc_unregister_rpc, Rpc!ServerInv
<1>3. ASSUME NEW r \in SCall, NEW post, NEW b, NEW o, Rpc!evrpc_request_cb(r, post, b, o)
      PROVE  Rpc!ServerInv'
  <2>1. /\ srv.registered /\ srv.req[r] = "none"
        /\ \/ srv' = Rpc!At(srv, r, "paused_in") \/ srv' = Rpc!At(srv, r, "user")
           \/ srv' = Rpc!Answer(srv, r)
    BY <1>3 DEF Rpc!evrpc_request_cb, Rpc!evrpc_request_cb_closure
  <2> QED  BY <2>1, ServerMoves
<1>4. ASSUME NEW r \in SCall, NEW b, NEW o, Rpc!evrpc_request_done(r, b, o)
      PROVE  Rpc!ServerInv'
  <2>1. /\ srv.req[r] = "user"
        /\ srv' = Rpc!At(srv, r, "paused_out") \/ srv' = Rpc!Answer(srv, r)
    BY <1>4 DEF Rpc!evrpc_request_done
  <2> QED  BY <1>0, <2>1, ServerMoves
<1>5. ASSUME NEW r \in SCall, NEW res, NEW b, Rpc!ServerResume(r, res, b)
      PROVE  Rpc!ServerInv'
  <2>1. /\ srv.req[r] \in {"paused_in", "paused_out"}
        /\ srv' = Rpc!At(srv, r, "user") \/ srv' = Rpc!Answer(srv, r)
    BY <1>5 DEF Rpc!ServerResume, Rpc!evrpc_request_cb_closure
  <2> QED  BY <1>0, <2>1, ServerMoves
<1> QED  BY <1>1, <1>2, <1>3, <1>4, <1>5 DEF Rpc!ServerNext

\* What the invariants say of RpcAccounted.
LEMMA PoolAccounted ==
  ASSUME Rpc!PoolInv, Rpc!ServerInv
  PROVE  Rpc!RpcAccounted
<1>1. /\ p \in Rpc!PoolType /\ ~p.late /\ Rpc!CallsInv(p)
      /\ p.requests # <<>> => Cardinality(Rpc!Idle(p)) <= Cardinality(Rpc!Paused(p)) + 0
      /\ p.on \in [PConn -> Seq(Call)] /\ p.call \in [Call -> Rpc!CallType]
      /\ IsFiniteSet(Rpc!Paused(p)) /\ Cardinality(Rpc!Paused(p)) \in Nat
  BY PoolParts, PoolTypes, FS_CardinalityType DEF Rpc!PoolInv
<1>2. \A q : Rpc!Range(q) = Rpc!ToSet(q)
  BY DEF Rpc!Range, Rpc!ToSet
<1>3. ASSUME NEW c \in Call, NEW k \in PConn
      PROVE  c \in Rpc!Range(p.on[k]) <=> p.call[c].at = "sent" /\ p.call[c].conn = k
  <2>1. Rpc!Range(p.on[k]) = Range(p.on[k])
    BY RpcLibrary
  <2>2. CASE p.on[k] = <<>>
    <3>1. Range(<<>>) = {}
      BY DEF Range
    <3>2. ~(p.call[c].at = "sent" /\ p.call[c].conn = k)
      <4> SUFFICES ASSUME p.call[c].at = "sent", p.call[c].conn = k  PROVE FALSE
        OBVIOUS
      <4>1. p.on[k] = <<c>>
        BY <1>1 DEF Rpc!CallsInv
      <4> QED  BY <2>2, <4>1, OneCall, Zenon
    <3> QED  BY <2>1, <2>2, <3>1, <3>2
  <2>3. CASE p.on[k] # <<>>
    <3>1. PICK d \in Call : p.on[k] = <<d>> /\ p.call[d].at = "sent" /\ p.call[d].conn = k
      BY <1>1, <2>3 DEF Rpc!CallsInv
    <3>2. Range(p.on[k]) = {d} /\ \A e : <<d>> = <<e>> => d = e
      BY <3>1, OneCall
    <3>3. p.call[c].at = "sent" /\ p.call[c].conn = k => p.on[k] = <<c>>
      BY <1>1 DEF Rpc!CallsInv
    <3> QED  BY <2>1, <3>1, <3>2, <3>3
  <2> QED  BY <2>2, <2>3
<1>4. ASSUME NEW c \in Call
      PROVE  /\ p.call[c].at = "queued" <=> c \in Rpc!Range(p.requests)
             /\ p.call[c].told = IF p.call[c].at = "freed" THEN 1 ELSE 0
             /\ p.call[c].timer => p.call[c].at = "sent"
  BY <1>1, <1>2 DEF Rpc!CallsInv
<1>5. Rpc!RpcUsesIdle
  <2>1. /\ {k \in Rpc!Range(p.conns) : p.on[k] = <<>>} = Rpc!Idle(p)
        /\ {c \in Call : p.call[c].at \in {"paused_in", "paused_out"}} = Rpc!Paused(p)
    BY <1>2 DEF Rpc!Idle, Rpc!Paused
  <2>2. Cardinality(Rpc!Paused(p)) + 0 = Cardinality(Rpc!Paused(p))
    BY <1>1
  <2>3. p.requests # <<>> => Cardinality(Rpc!Idle(p)) <= Cardinality(Rpc!Paused(p))
    BY <1>1, <2>2
  <2> QED  BY <2>1, <2>3, RpcLibrary, Zenon DEF Rpc!RpcUsesIdle
<1>6. /\ \A r \in SCall : srv.answers[r] = IF srv.req[r] = "answered" THEN 1 ELSE 0
      /\ ~srv.dangling
  BY DEF Rpc!ServerInv
<1> QED  BY <1>1, <1>3, <1>4, <1>5, <1>6 DEF Rpc!RpcAccounted

\* For any number of calls, connections and requests at the server: every RPC call
\* is in one place, its user is told once and no timer is left behind; a timer only
\* ever ends its own call; no call waits while a connection idles that no paused
\* call accounts for; and every request at the server is answered once, while it is
\* registered.  The hypotheses are what evrpc.c needs of its user and of HTTP: a
\* request that an output hook paused is resumed on a connection that has nothing
\* to do (RpcCareful), output hooks do not end calls, evhttp_make_request does not
\* fail, and a method is not unregistered under a request.
THEOREM RpcAccountedHolds ==
  ASSUME NoConn \notin PConn, RpcCareful, OutHooks \subseteq {"continue", "pause"},
         "make_request_fails" \notin RpcMay, "unregister" \notin RpcMay
  PROVE  MCSpec => []RpcAccounted
<1> DEFINE Inv == Rpc!PoolInv /\ Rpc!ServerInv
<1>1. MCInit => Inv
  BY PoolInit, ServerInit DEF MCInit
<1>2. Inv /\ [MCNext]_mcVars => Inv'
  <2> SUFFICES ASSUME Rpc!PoolInv, Rpc!ServerInv, [MCNext]_mcVars
               PROVE  Rpc!PoolInv' /\ Rpc!ServerInv'
    OBVIOUS
  <2>1. [Rpc!PoolNext]_p
    <3>1. CASE PoolPart
      BY <3>1 DEF PoolPart
    <3>2. CASE ServerPart
      <4>1. Rpc!ServerNext
        BY <3>2 DEF ServerPart
      <4> QED  BY <4>1 DEF Rpc!ServerNext, Rpc!evrpc_unregister_rpc, Rpc!evrpc_request_cb,
                           Rpc!evrpc_request_done, Rpc!ServerResume
    <3>3. CASE HttpPart \/ ListenerPart \/ UNCHANGED mcVars
      BY <3>3 DEF HttpPart, ListenerPart, mcVars, rpc
    <3> QED  BY <3>1, <3>2, <3>3 DEF MCNext
  <2>2. [Rpc!ServerNext]_srv
    <3>1. CASE PoolPart
      <4>1. Rpc!PoolNext
        BY <3>1 DEF PoolPart
      <4> QED  BY <4>1, Zenon DEF Rpc!PoolNext, Rpc!Progress, Rpc!HttpDone, Rpc!evrpc_request_timeout,
                           Rpc!evrpc_resume_request, Rpc!evrpc_make_request,
                           Rpc!evrpc_pool_add_connection, Rpc!evrpc_pool_remove_connection
    <3>2. CASE ServerPart
      BY <3>2 DEF ServerPart
    <3>3. CASE HttpPart \/ ListenerPart \/ UNCHANGED mcVars
      BY <3>3 DEF HttpPart, ListenerPart, mcVars, rpc
    <3> QED  BY <3>1, <3>2, <3>3 DEF MCNext
  <2> QED  BY <2>1, <2>2, PoolStep, ServerStep
<1>3. Inv => RpcAccounted
  BY PoolAccounted DEF RpcAccounted
<1> QED  BY <1>1, <1>2, <1>3, PTL DEF MCSpec

-------------------------------------------------------------------------------
(***************************************************************************)
(* A connection of http.c.  The invariant HttpInv says of the connection   *)
(* s, when no handler runs, what each state has enabled.  A handler is a   *)
(* function from connections to connections; a lemma for each one says     *)
(* what it makes of a connection inside a handler (OutReady, OutMid for    *)
(* connections to a server, InOne, InMid, InNone for those from a client,  *)
(* ReadMid while a message is read), until ConnOk holds again of the       *)
(* result.  Frame says which fields of a connection an assignment leaves   *)
(* alone: a connection has too many fields for a set of records.           *)
(***************************************************************************)
\* y and b differ in the fields F only.
Frame(y, b, F) == DOMAIN y = ConnFields /\ \A f \in ConnFields \ F : y[f] = b[f]

\* What the functions that set the fields of a connection do.
LEMMA StartReadFacts ==
  ASSUME NEW b, IsConn(b), NEW y, y = evhttp_start_read(b)
  PROVE /\ IsConn(y)
        /\ Frame(y, b, {"wr", "wev", "rd", "st", "rcb", "wcb", "conncb", "more"})
        /\ y.st = "READING_FIRSTLINE" /\ ~y.wev /\ y.rd /\ y.rcb /\ y.wcb
        /\ y.more <=> b.more \/ b.inp # <<>>
<1>1. /\ y.st = "READING_FIRSTLINE" /\ ~y.wev /\ y.rd /\ y.rcb /\ y.wcb
      /\ y.more <=> b.more \/ b.inp # <<>>
  BY Zenon DEF IsConn, ConnFields, evhttp_start_read
<1>2. Frame(y, b, {"wr", "wev", "rd", "st", "rcb", "wcb", "conncb", "more"})
  BY Zenon DEF IsConn, Frame, evhttp_start_read
<1>3. IsConn(y)
  BY <1>1, <1>2 DEF IsConn, Frame, ConnFields, Reading
<1> QED  BY <1>1, <1>2, <1>3

LEMMA ResetFacts ==
  ASSUME NEW b, IsConn(b), NEW y, y = evhttp_connection_reset(b)
  PROVE /\ IsConn(y)
        /\ Frame(y, b, {"rd", "wr", "connecting", "wev", "fd", "out", "inp", "peer", "st"})
        /\ y.st = "DISCONNECTED" /\ ~y.wev /\ ~y.rd /\ ~y.connecting /\ ~y.fd /\ ~y.out
        /\ y.inp = <<>>
<1>1. /\ y.st = "DISCONNECTED" /\ ~y.wev /\ ~y.rd /\ ~y.connecting /\ ~y.fd /\ ~y.out
      /\ y.inp = <<>>
  BY DEF IsConn, ConnFields, evhttp_connection_reset
<1>2. Frame(y, b, {"rd", "wr", "connecting", "wev", "fd", "out", "inp", "peer", "st"})
  BY Zenon DEF IsConn, Frame, evhttp_connection_reset
<1>3. IsConn(y)
  BY <1>1, <1>2 DEF IsConn, Frame, ConnFields
<1> QED  BY <1>1, <1>2, <1>3

LEMMA WriteBufferFacts ==
  ASSUME NEW b, IsConn(b), NEW cb \in {"none", "connection", "send_done"},
         NEW y, y = evhttp_write_buffer(b, cb)
  PROVE /\ IsConn(y)
        /\ Frame(y, b, {"cb", "wr", "wev", "rcb", "wcb", "conncb"})
        /\ y.cb = cb /\ y.wev /\ y.wcb
<1>1. y.cb = cb /\ y.wev /\ y.wcb
  BY DEF IsConn, ConnFields, evhttp_write_buffer
<1>2. Frame(y, b, {"cb", "wr", "wev", "rcb", "wcb", "conncb"})
  BY Zenon DEF IsConn, Frame, evhttp_write_buffer
<1>3. IsConn(y)
  BY <1>1, <1>2, Zenon DEF IsConn, Frame, ConnFields
<1> QED  BY <1>1, <1>2, <1>3

\* A request that is freed, or whose user is told.
LEMMA FreedFacts ==
  ASSUME NEW x \in ReqType, NEW tell \in BOOLEAN, NEW z, z = Freed(x, tell)
  PROVE /\ z \in ReqType
        /\ z.life = "freed"
        /\ tell => z.told = x.told + 1
        /\ ~tell => z.told = x.told
        /\ z.userdone = x.userdone /\ z.canceled = x.canceled /\ z.kind = x.kind
<1>1. x.told + 1 \in Nat
  BY DEF ReqType
<1>2. z = [x EXCEPT !.life = "freed", !.told = IF tell THEN x.told + 1 ELSE x.told]
  BY DEF ReqType, Freed
<1>3. z \in ReqType
  BY <1>1, <1>2, Zenon DEF ReqType
<1>4. /\ z.life = "freed" /\ z.told = IF tell THEN x.told + 1 ELSE x.told
      /\ z.userdone = x.userdone /\ z.canceled = x.canceled /\ z.kind = x.kind
  BY <1>2 DEF ReqType
<1> QED  BY <1>3, <1>4

\* The request at the head is freed: of it and of the others.
LEMMA DropFirstFacts ==
  ASSUME NEW b, IsConn(b), b.q # <<>>, NEW tell \in BOOLEAN, NEW y, y = DropFirst(b, tell)
  PROVE /\ IsConn(y)
        /\ Frame(y, b, {"q", "req"})
        /\ y.q = Tail(b.q)
        /\ \A r \in HReq : r # First(b) => y.req[r] = b.req[r]
        /\ y.req[First(b)] = Freed(b.req[First(b)], tell)
<1>0. First(b) \in HReq /\ Tail(b.q) \in Seq(HReq)
  BY TailFacts DEF IsConn, First
<1>1. y.q = Tail(b.q) /\ y.req = [b.req EXCEPT ![First(b)] = Freed(b.req[First(b)], tell)]
  BY DEF IsConn, ConnFields, DropFirst
<1>2. Frame(y, b, {"q", "req"})
  BY Zenon DEF IsConn, Frame, DropFirst
<1>3. Freed(b.req[First(b)], tell) \in ReqType
  BY <1>0, FreedFacts DEF IsConn
<1>4. y.req \in [HReq -> ReqType]
  BY <1>0, <1>1, <1>3 DEF IsConn
<1>5. IsConn(y)
  BY <1>0, <1>1, <1>2, <1>4, Zenon DEF IsConn, Frame, ConnFields
<1> QED  BY <1>0, <1>1, <1>2, <1>5 DEF IsConn

-------------------------------------------------------------------------------
\* What keeps the requests right.
SameReq(z, x) ==
  /\ z.life = x.life /\ z.kind = x.kind /\ z.told = x.told
  /\ z.userdone = x.userdone /\ z.canceled = x.canceled

\* What is known of a request depends on a few of its fields.
LEMMA SameReqOk ==
  ASSUME NEW x, NEW z, SameReq(z, x), NEW side, NEW byuser, ReqOk(side, x, byuser)
  PROVE  ReqOk(side, z, byuser)
BY DEF SameReq, ReqOk, OutgoingReq, IncomingReq

\* What is known of the requests is kept when none changes who has it, when the
\* first one is freed, when all are, and when one is added.
LEMMA ReqsKept ==
  ASSUME NEW b, ReqsOk(b), NEW y,
         y.q = b.q, y.side = b.side, y.byuser = b.byuser,
         \A r \in HReq : SameReq(y.req[r], b.req[r])
  PROVE  ReqsOk(y)
<1>1. \A r \in HReq : ReqOk(y.side, y.req[r], y.byuser)
  BY SameReqOk DEF ReqsOk
<1>2. \A r \in HReq : r \in ToSet(y.q) <=> y.req[r].life = "conn"
  BY DEF ReqsOk, SameReq
<1> QED  BY <1>1, <1>2 DEF ReqsOk

LEMMA ReqsDropped ==
  ASSUME NEW b, IsConn(b), ReqsOk(b), b.q # <<>>, NEW y,
         y.q = Tail(b.q), y.side = b.side, y.byuser = b.byuser,
         \A r \in HReq : r # First(b) => y.req[r] = b.req[r],
         y.req[First(b)].life # "conn", ReqOk(y.side, y.req[First(b)], y.byuser)
  PROVE  /\ ReqsOk(y) /\ First(b) \in HReq
         /\ ToSet(y.q) = ToSet(b.q) \ {First(b)}
<1>1. /\ First(b) \in HReq
      /\ ToSet(b.q) = ToSet(y.q) \cup {First(b)}
      /\ IsInjective(y.q) /\ First(b) \notin ToSet(y.q)
  BY TailFacts DEF IsConn, First, ReqsOk
<1>2. ToSet(y.q) = ToSet(b.q) \ {First(b)}
  BY <1>1
<1>3. \A r \in HReq : ReqOk(y.side, y.req[r], y.byuser)
  BY DEF ReqsOk
<1>4. \A r \in HReq : r \in ToSet(y.q) <=> y.req[r].life = "conn"
  BY <1>1 DEF ReqsOk
<1> QED  BY <1>1, <1>2, <1>3, <1>4 DEF ReqsOk

LEMMA ReqsCleared ==
  ASSUME NEW b, IsConn(b), ReqsOk(b), NEW y,
         y.q = <<>>, y.side = b.side, y.byuser = b.byuser \/ y.byuser = TRUE,
         \A r \in HReq : r \notin ToSet(b.q) => y.req[r] = b.req[r],
         \A r \in ToSet(b.q) : y.req[r].life # "conn" /\ ReqOk(y.side, y.req[r], y.byuser)
  PROVE  ReqsOk(y)
<1>1. y.q \in Seq(HReq) /\ ToSet(y.q) = {} /\ IsInjective(y.q)
  <2>0. y.q \in Seq(HReq)
    OBVIOUS
  <2>1. y.q \in Seq(HReq) /\ ToSet(y.q) = {}
    BY <2>0, ElementsInRange, Zenon
  <2>2. IsInjective(y.q)
    BY DEF IsInjective
  <2> QED  BY <2>1, <2>2
<1>2. ASSUME NEW r \in HReq
      PROVE  ReqOk(y.side, y.req[r], y.byuser) /\ (y.req[r].life # "conn")
  <2>1. CASE r \in ToSet(b.q)
    BY <2>1
  <2>2. CASE r \notin ToSet(b.q)
    <3>1. ReqOk(b.side, b.req[r], b.byuser) /\ b.req[r].life # "conn"
      BY <2>2 DEF ReqsOk
    <3> QED  BY <2>2, <3>1 DEF ReqOk, OutgoingReq, IncomingReq
  <2> QED  BY <2>1, <2>2
<1> QED  BY <1>1, <1>2 DEF ReqsOk

LEMMA ReqsAdded ==
  ASSUME NEW b, IsConn(b), ReqsOk(b), NEW r \in HReq, b.req[r].life = "new", NEW y,
         y.q = Append(b.q, r), y.side = b.side, y.byuser = b.byuser,
         \A x \in HReq : x # r => y.req[x] = b.req[x],
         y.req[r].life = "conn", ReqOk(y.side, y.req[r], y.byuser)
  PROVE  /\ ReqsOk(y) /\ y.q \in Seq(HReq) /\ y.q # <<>>
         /\ ToSet(y.q) = ToSet(b.q) \cup {r} /\ r \notin ToSet(b.q)
         /\ First(y) = IF b.q = <<>> THEN r ELSE First(b)
<1>0. r \notin ToSet(b.q)
  BY DEF ReqsOk
<1>1. /\ y.q \in Seq(HReq) /\ y.q # <<>>
      /\ ToSet(y.q) = ToSet(b.q) \cup {r}
      /\ IsInjective(y.q)
  BY <1>0, AppendElements DEF IsConn, ReqsOk
<1>2. First(y) = IF b.q = <<>> THEN r ELSE First(b)
  BY DEF IsConn, First
<1>3. \A x \in HReq : ReqOk(y.side, y.req[x], y.byuser)
  BY DEF ReqsOk
<1>4. \A x \in HReq : x \in ToSet(y.q) <=> y.req[x].life = "conn"
  BY <1>0, <1>1 DEF ReqsOk
<1> QED  BY <1>0, <1>1, <1>2, <1>3, <1>4 DEF ReqsOk

-------------------------------------------------------------------------------
\* Connections to a server.
\* A connection whose requests have not been written, inside a handler.
OutReady(b) ==
  /\ IsConn(b) /\ Outgoing(b) /\ b.alive /\ ~b.byuser /\ b.bad = {} /\ ReqsOk(b)
  /\ ~b.retry /\ ~b.more
  /\ \A r \in ToSet(b.q) : b.req[r].kind = "REQUEST"

\* An attempt to connect, and writing the first request, end a handler.
LEMMA ConnectOk ==
  ASSUME NEW b, OutReady(b), b.q # <<>>, ~b.detect, b.st # "CONNECTING",
         NEW o, o.connect = "begins", NEW y, y = evhttp_connection_connect(b, o)
  PROVE  ConnOk(y)
<1> DEFINE R == {"rd", "wr", "connecting", "wev", "fd", "out", "inp", "peer", "st"}
           x == evhttp_connection_reset(b)
           z == [[x EXCEPT !.conncb = TRUE, !.rcb = FALSE, !.wcb = FALSE]
                   EXCEPT !.fd = TRUE, !.wr = TRUE, !.wev = TRUE, !.connecting = TRUE]
<1>1. /\ IsConn(x) /\ Frame(x, b, R)
      /\ x.st = "DISCONNECTED" /\ ~x.wev /\ ~x.rd /\ ~x.connecting /\ ~x.fd /\ ~x.out
      /\ x.inp = <<>>
  BY ResetFacts DEF OutReady
<1>2. y = [z EXCEPT !.st = "CONNECTING"]
  BY DEF evhttp_connection_connect
<1> HIDE DEF x
<1>3. Frame(y, x, {"conncb", "rcb", "wcb", "fd", "wr", "wev", "connecting", "st"})
  BY <1>1, <1>2, Zenon DEF IsConn, Frame
<1>4. y.st = "CONNECTING" /\ y.wev /\ y.connecting /\ y.conncb /\ y.fd
  BY <1>1, <1>2 DEF IsConn, ConnFields
<1>5. IsConn(y)
  BY <1>1, <1>3, <1>4, Zenon DEF IsConn, Frame, ConnFields
<1>6. /\ y.q = b.q /\ y.req = b.req /\ y.side = b.side /\ y.alive = b.alive
      /\ y.byuser = b.byuser /\ y.bad = b.bad
      /\ y.detect = b.detect /\ y.retry = b.retry /\ y.more = b.more /\ ~y.rd
  BY <1>1, <1>3 DEF Frame, ConnFields
<1>7. ReqsOk(y)
  BY <1>6, ReqsKept DEF OutReady, SameReq
<1>8. KindsOk(y)
  BY <1>6, <1>4 DEF OutReady, KindsOk, Reading
<1>9. OutgoingOk(y)
  BY <1>4, <1>6, <1>8 DEF OutReady, OutgoingOk, Reading
<1> QED  BY <1>5, <1>6, <1>7, <1>9 DEF OutReady, ConnOk, Outgoing

LEMMA DispatchOk ==
  ASSUME NEW b, OutReady(b), b.q # <<>>, b.st = "IDLE", ~b.connecting, b.fd,
         NEW y, y = evhttp_request_dispatch(b)
  PROVE  ConnOk(y)
<1>0. First(b) \in ToSet(b.q)
  BY TailFacts DEF OutReady, IsConn, First
<1> DEFINE z == [b EXCEPT !.detect = FALSE, !.rd = FALSE, !.st = "WRITING", !.out = TRUE]
<1>1. y = evhttp_write_buffer(z, "connection")
  BY <1>0, Zenon DEF evhttp_request_dispatch, Fault, OutReady
<1>2. Frame(z, b, {"detect", "rd", "st", "out"})
  BY Zenon DEF OutReady, IsConn, Frame
<1>3. ~z.detect /\ ~z.rd /\ z.st = "WRITING"
  BY DEF OutReady, IsConn, ConnFields
<1> HIDE DEF z
<1>4. IsConn(z)
  BY <1>2, <1>3 DEF OutReady, IsConn, Frame, ConnFields
<1>5. /\ IsConn(y)
      /\ Frame(y, z, {"cb", "wr", "wev", "rcb", "wcb", "conncb"})
      /\ y.cb = "connection" /\ y.wev /\ y.wcb
  BY <1>1, <1>4, WriteBufferFacts
<1>6. /\ y.q = b.q /\ y.req = b.req /\ y.side = b.side /\ y.alive = b.alive
      /\ y.byuser = b.byuser /\ y.bad = b.bad /\ y.fd = b.fd /\ y.connecting = b.connecting
      /\ y.retry = b.retry /\ y.more = b.more /\ ~y.rd /\ y.st = "WRITING" /\ ~y.detect
  BY <1>2, <1>3, <1>5, Zenon DEF Frame, ConnFields
<1>7. ReqsOk(y)
  BY <1>6, ReqsKept DEF OutReady, SameReq
<1>8. KindsOk(y)
  BY <1>6 DEF OutReady, KindsOk, Reading
<1>9. OutgoingOk(y)
  BY <1>5, <1>6, <1>8 DEF OutReady, OutgoingOk, Reading
<1> QED  BY <1>5, <1>6, <1>7, <1>9 DEF OutReady, ConnOk, Outgoing

\* Off, with nothing to do.
LEMMA OffOk ==
  ASSUME NEW b, OutReady(b), b.q = <<>>, b.st = "DISCONNECTED",
         ~b.detect, ~b.connecting, ~b.wev, ~b.rd
  PROVE  ConnOk(b)
<1>1. ToSet(b.q) = {}
  BY ElementsInRange, Zenon DEF OutReady, IsConn
<1>2. KindsOk(b)
  BY <1>1 DEF KindsOk
<1>3. OutgoingOk(b)
  BY <1>2 DEF OutReady, OutgoingOk, Reading
<1> QED  BY <1>3 DEF OutReady, ConnOk

\* A connection that has a request, inside a handler.
OutMid(b) ==
  /\ IsConn(b) /\ Outgoing(b) /\ b.alive /\ ~b.byuser /\ b.bad = {} /\ ReqsOk(b)
  /\ ~b.retry /\ ~b.more /\ ~b.detect /\ b.q # <<>>
  /\ \A r \in ToSet(b.q) : r # First(b) => b.req[r].kind = "REQUEST"

LEMMA MidFirst ==
  ASSUME NEW b, OutMid(b)
  PROVE  /\ First(b) \in HReq /\ First(b) \in ToSet(b.q) /\ b.req[First(b)] \in ReqType
         /\ b.req[First(b)].life = "conn" /\ b.req[First(b)].told = 0
         /\ ~b.req[First(b)].canceled
<1>1. First(b) \in HReq /\ First(b) \in ToSet(b.q)
  BY TailFacts DEF OutMid, IsConn, First
<1>2. b.req[First(b)].life = "conn" /\ OutgoingReq(b.req[First(b)], b.byuser)
  BY <1>1 DEF OutMid, ReqsOk, ReqOk, Outgoing
<1> QED  BY <1>1, <1>2 DEF OutMid, IsConn, OutgoingReq

\* The first request is freed, with its user told or canceled.
LEMMA DroppedReady ==
  ASSUME NEW b, OutMid(b), NEW y, IsConn(y), y.q = Tail(b.q),
         y.side = b.side, y.alive = b.alive, y.byuser = b.byuser, y.bad = b.bad,
         y.retry = b.retry, y.more = b.more,
         \A r \in HReq : r # First(b) => y.req[r] = b.req[r],
         y.req[First(b)].life = "freed", y.req[First(b)].told \in {0, 1},
         y.req[First(b)].told = 1 <=> ~y.req[First(b)].canceled
  PROVE  OutReady(y)
<1>1. ReqOk(y.side, y.req[First(b)], y.byuser)
  BY DEF OutMid, Outgoing, ReqOk, OutgoingReq
<1>2. ReqsOk(y) /\ ToSet(y.q) = ToSet(b.q) \ {First(b)}
  BY <1>1, ReqsDropped, Zenon DEF OutMid
<1>3. ToSet(y.q) \subseteq HReq
  BY ElementsInRange, Zenon DEF IsConn
<1> QED  BY <1>2, <1>3 DEF OutMid, OutReady, Outgoing

\* Failing a request: its events are disabled, it is freed, perhaps as canceled.
LEMMA DisableFacts ==
  ASSUME NEW b, IsConn(b), NEW y, y = Disable(b)
  PROVE  IsConn(y) /\ Frame(y, b, {"rd", "wr", "wev"}) /\ ~y.rd /\ (y.wev <=> b.wev /\ b.connecting)
<1>1. ~y.rd /\ (y.wev <=> b.wev /\ b.connecting)
  BY Zenon DEF IsConn, ConnFields, Disable
<1>2. Frame(y, b, {"rd", "wr", "wev"})
  BY Zenon DEF IsConn, Frame, Disable
<1>3. IsConn(y)
  BY <1>2 DEF IsConn, Frame, ConnFields
<1> QED  BY <1>1, <1>2, <1>3

Canceled(b, r, c) == [b EXCEPT !.req[r].canceled = c]

LEMMA CanceledFacts ==
  ASSUME NEW b, IsConn(b), NEW r \in HReq, NEW c \in BOOLEAN,
         NEW y, y = Canceled(b, r, c)
  PROVE  /\ IsConn(y) /\ Frame(y, b, {"req"})
         /\ \A x \in HReq : x # r => y.req[x] = b.req[x]
         /\ y.req[r].canceled <=> c
         /\ y.req[r].life = b.req[r].life /\ y.req[r].told = b.req[r].told
<1> DEFINE x == b.req[r]
           z == [x EXCEPT !.canceled = c]
<1>1. y.req = [b.req EXCEPT ![r] = z]
  BY DEF IsConn, ConnFields, Canceled
<1>2. Frame(y, b, {"req"})
  BY DEF IsConn, Frame, Canceled
<1>3. x \in ReqType
  BY DEF IsConn
<1> HIDE DEF x
<1>4. /\ z \in ReqType /\ (z.canceled <=> c)
      /\ z.life = x.life /\ z.told = x.told
  BY <1>3 DEF ReqType
<1> HIDE DEF z
<1>5. /\ y.req \in [HReq -> ReqType] /\ y.req[r] = z
      /\ \A u \in HReq : u # r => y.req[u] = b.req[u]
  BY <1>1, <1>4 DEF IsConn
<1>6. IsConn(y)
  BY <1>2, <1>5 DEF IsConn, Frame, ConnFields
<1> QED  BY <1>2, <1>4, <1>5, <1>6 DEF x

\* A request fails: the next one is tried, or the connection is off.
LEMMA OutFailOk ==
  ASSUME NEW b, OutMid(b), NEW err \in {"network", "invalid", "cancel"},
         NEW o, o.connect = "begins", NEW y, y = evhttp_connection_fail(b, err, o)
  PROVE  ConnOk(y)
<1> DEFINE tell == err # "cancel"
           f == First(b)
           x == Disable(b)
           d == DropFirst(x, tell)
           e == evhttp_connection_reset(d)
           z == [e EXCEPT !.req[f].canceled = err = "cancel"]
<1>0. y = IF z.q = <<>> THEN z ELSE evhttp_connection_connect(z, o)
  BY DEF evhttp_connection_fail, OutMid
<1>1. /\ f \in HReq /\ b.req[f] \in ReqType /\ b.req[f].told = 0 /\ ~b.req[f].canceled
  BY MidFirst
<1>2. IsConn(x) /\ Frame(x, b, {"rd", "wr", "wev"})
  BY DisableFacts DEF OutMid
<1> HIDE DEF x
<1>3. x.q = b.q /\ First(x) = f /\ x.q # <<>> /\ x.req = b.req
  BY <1>2 DEF Frame, ConnFields, First, OutMid
<1>4. /\ IsConn(d) /\ Frame(d, x, {"q", "req"}) /\ d.q = Tail(b.q)
      /\ \A r \in HReq : r # f => d.req[r] = b.req[r]
      /\ d.req[f] = Freed(b.req[f], tell)
  <2>1. tell \in BOOLEAN
    OBVIOUS
  <2> HIDE DEF tell, f
  <2> QED  BY <1>2, <1>3, <2>1, DropFirstFacts
<1> HIDE DEF d
<1>5. /\ IsConn(e)
      /\ Frame(e, d, {"rd", "wr", "connecting", "wev", "fd", "out", "inp", "peer", "st"})
      /\ e.st = "DISCONNECTED" /\ ~e.wev /\ ~e.rd /\ ~e.connecting
  BY <1>4, ResetFacts
<1> HIDE DEF e
<1>6. d.req[f].life = "freed" /\ d.req[f].told = IF tell THEN 1 ELSE 0
  <2>1. tell \in BOOLEAN
    OBVIOUS
  <2> HIDE DEF tell, f
  <2>2. /\ tell => Freed(b.req[f], tell).told = b.req[f].told + 1
        /\ ~tell => Freed(b.req[f], tell).told = b.req[f].told
    BY <1>1, <2>1, FreedFacts
  <2>3. Freed(b.req[f], tell).life = "freed"
    BY <1>1, <2>1, FreedFacts
  <2> QED  BY <1>1, <1>4, <2>2, <2>3
<1>7. /\ IsConn(z) /\ Frame(z, e, {"req"})
      /\ \A r \in HReq : r # f => z.req[r] = e.req[r]
      /\ z.req[f].canceled <=> err = "cancel"
      /\ z.req[f].life = e.req[f].life /\ z.req[f].told = e.req[f].told
  <2> DEFINE c == err = "cancel"
  <2>1. z = Canceled(e, f, c) /\ c \in BOOLEAN
    BY DEF Canceled
  <2> HIDE DEF z, c, f
  <2>2. /\ IsConn(z) /\ Frame(z, e, {"req"})
        /\ \A r \in HReq : r # f => z.req[r] = e.req[r]
        /\ z.req[f].canceled <=> c
        /\ z.req[f].life = e.req[f].life /\ z.req[f].told = e.req[f].told
    BY <1>1, <1>5, <2>1, CanceledFacts
  <2> QED  BY <2>2 DEF c
<1> HIDE DEF z
<1>8. /\ z.q = Tail(b.q) /\ z.side = b.side /\ z.alive = b.alive /\ z.byuser = b.byuser
      /\ z.bad = b.bad /\ z.retry = b.retry /\ z.more = b.more /\ z.detect = b.detect
      /\ z.st = "DISCONNECTED" /\ ~z.wev /\ ~z.rd /\ ~z.connecting /\ e.req = d.req
  BY <1>2, <1>4, <1>5, <1>7 DEF Frame, ConnFields
<1>9. /\ \A r \in HReq : r # f => z.req[r] = b.req[r]
      /\ z.req[f].life = "freed" /\ z.req[f].told \in {0, 1}
      /\ z.req[f].told = 1 <=> ~z.req[f].canceled
  BY <1>4, <1>6, <1>7, <1>8
<1>10. OutReady(z)
  BY <1>7, <1>8, <1>9, DroppedReady
<1>11. CASE z.q = <<>>
  BY <1>0, <1>8, <1>10, <1>11, OffOk, Zenon DEF OutMid
<1>12. CASE z.q # <<>>
  BY <1>0, <1>8, <1>10, <1>12, ConnectOk, Zenon DEF OutMid
<1> QED  BY <1>11, <1>12

\* A response was read: the next request, or watching for the end.
LEMMA OutDoneOk ==
  ASSUME NEW b, OutMid(b), b.fd, ~b.wev, ~b.connecting, b.rcb,
         NEW o, o.connect = "begins", NEW y, y = evhttp_connection_done(b, o)
  PROVE  ConnOk(y)
<1> DEFINE f == First(b)
           i == [b EXCEPT !.st = "IDLE"]
           tell == TRUE
           x == DropFirst(i, tell)
           z == IF b.req[f].close THEN evhttp_connection_reset(x) ELSE x
<1>0. y = IF z.q # <<>>
            THEN IF Connected(z) THEN evhttp_request_dispatch(z) ELSE evhttp_connection_connect(z, o)
          ELSE IF Connected(z) THEN [z EXCEPT !.detect = TRUE, !.rd = TRUE] ELSE z
  BY DEF evhttp_connection_done, OutMid
<1>1. /\ f \in HReq /\ b.req[f] \in ReqType /\ b.req[f].told = 0 /\ ~b.req[f].canceled
  BY MidFirst
<1>2. /\ IsConn(i) /\ Frame(i, b, {"st"}) /\ i.st = "IDLE"
  <2>1. Frame(i, b, {"st"}) /\ i.st = "IDLE"
    BY DEF OutMid, IsConn, Frame, ConnFields
  <2> HIDE DEF i
  <2> QED  BY <2>1 DEF OutMid, IsConn, Frame, ConnFields
<1> HIDE DEF i
<1>3. i.q = b.q /\ First(i) = f /\ i.q # <<>> /\ i.req = b.req
  BY <1>2 DEF Frame, ConnFields, First, OutMid
<1>4. /\ IsConn(x) /\ Frame(x, i, {"q", "req"}) /\ x.q = Tail(b.q)
      /\ \A r \in HReq : r # f => x.req[r] = b.req[r]
      /\ x.req[f] = Freed(b.req[f], tell)
  <2>1. tell \in BOOLEAN
    OBVIOUS
  <2> HIDE DEF tell, f
  <2> QED  BY <1>2, <1>3, <2>1, DropFirstFacts
<1> HIDE DEF x
<1>5. x.req[f].life = "freed" /\ x.req[f].told = 1 /\ ~x.req[f].canceled
  <2>0. tell
    OBVIOUS
  <2>1. tell \in BOOLEAN
    OBVIOUS
  <2> HIDE DEF tell, f
  <2>2. /\ tell => Freed(b.req[f], tell).told = b.req[f].told + 1
        /\ Freed(b.req[f], tell).life = "freed"
        /\ Freed(b.req[f], tell).canceled = b.req[f].canceled
    BY <1>1, <2>1, FreedFacts
  <2>3. Freed(b.req[f], tell).told = b.req[f].told + 1
    BY <2>0, <2>2, Zenon
  <2> QED  BY <1>1, <1>4, <2>2, <2>3
<1>6. OutReady(x)
  <2>1. /\ x.side = b.side /\ x.alive = b.alive /\ x.byuser = b.byuser
        /\ x.bad = b.bad /\ x.retry = b.retry /\ x.more = b.more
    BY <1>2, <1>4 DEF Frame, ConnFields
  <2> QED  BY <1>4, <1>5, <2>1, DroppedReady, Zenon
<1>7. /\ x.detect = b.detect /\ x.fd = b.fd /\ x.wev = b.wev /\ x.connecting = b.connecting
      /\ x.rcb = b.rcb /\ x.st = "IDLE"
  BY <1>2, <1>4, Zenon DEF Frame, ConnFields
<1>8. CASE b.req[f].close
  <2>1. z = evhttp_connection_reset(x)
    BY <1>8
  <2> HIDE DEF z
  <2>2. /\ IsConn(z)
        /\ Frame(z, x, {"rd", "wr", "connecting", "wev", "fd", "out", "inp", "peer", "st"})
        /\ z.st = "DISCONNECTED" /\ ~z.wev /\ ~z.rd /\ ~z.connecting
    BY <1>4, <2>1, ResetFacts
  <2>3. /\ z.q = x.q /\ z.side = x.side /\ z.alive = x.alive /\ z.byuser = x.byuser
        /\ z.bad = x.bad /\ z.retry = x.retry /\ z.more = x.more /\ z.detect = x.detect
        /\ z.req = x.req
    BY <2>2 DEF Frame, ConnFields
  <2>4. ReqsOk(z)
    BY <1>6, <2>3, ReqsKept DEF OutReady, SameReq
  <2>5. OutReady(z) /\ ~z.detect
    BY <1>6, <1>7, <2>2, <2>3, <2>4 DEF OutReady, Outgoing, OutMid
  <2>6. CASE z.q = <<>>
    BY <1>0, <2>2, <2>5, <2>6, OffOk DEF Connected
  <2>7. CASE z.q # <<>>
    BY <1>0, <2>2, <2>5, <2>7, ConnectOk DEF Connected
  <2> QED  BY <2>6, <2>7
<1>9. CASE ~b.req[f].close
  <2>1. z = x
    BY <1>9
  <2> HIDE DEF z
  <2>2. Connected(x)
    BY <1>7 DEF Connected
  <2>3. CASE x.q # <<>>
    <3>1. y = evhttp_request_dispatch(x)
      BY <1>0, <2>1, <2>2, <2>3
    <3> QED  BY <1>6, <1>7, <2>3, <3>1, DispatchOk, Zenon
  <2>4. CASE x.q = <<>>
    <3>1. y = [x EXCEPT !.detect = TRUE, !.rd = TRUE]
      BY <1>0, <2>1, <2>2, <2>4
    <3>2. Frame(y, x, {"detect", "rd"}) /\ y.detect /\ y.rd
      BY <1>4, <3>1, Zenon DEF IsConn, Frame, ConnFields
    <3>3. IsConn(y)
      BY <1>4, <3>2, Zenon DEF IsConn, Frame, ConnFields
    <3>4. /\ y.q = x.q /\ y.side = x.side /\ y.alive = x.alive /\ y.byuser = x.byuser
          /\ y.bad = x.bad /\ y.retry = x.retry /\ y.more = x.more /\ y.req = x.req
          /\ y.fd = x.fd /\ y.wev = x.wev /\ y.connecting = x.connecting /\ y.rcb = x.rcb
          /\ y.st = x.st
      BY <3>2 DEF Frame, ConnFields
    <3>5. ReqsOk(y)
      BY <1>6, <3>4, ReqsKept DEF OutReady, SameReq
    <3>6. ToSet(y.q) = {}
      <4>1. y.q \in Seq(HReq) /\ y.q = <<>>
        BY <2>4, <3>3, <3>4 DEF IsConn
      <4> QED  BY <4>1, ElementsInRange, Zenon
    <3>7. OutgoingOk(y)
      BY <1>6, <1>7, <2>4, <3>2, <3>4, <3>6 DEF OutReady, OutgoingOk, KindsOk, Reading
    <3> QED  BY <1>6, <3>3, <3>4, <3>5, <3>7 DEF OutReady, ConnOk, Outgoing
  <2> QED  BY <2>3, <2>4
<1> QED  BY <1>8, <1>9

-------------------------------------------------------------------------------
\* Connections from a client.
LEMMA OnlyFirst ==
  ASSUME NEW b, IsConn(b), ReqsOk(b), Len(b.q) = 1
  PROVE  /\ b.q # <<>> /\ First(b) \in HReq /\ ToSet(b.q) = {First(b)}
         /\ Tail(b.q) = <<>> /\ b.req[First(b)] \in ReqType
         /\ b.req[First(b)].life = "conn"
<1>1. b.q # <<>>
  <2>1. Len(<<>>) = 0
    OBVIOUS
  <2> QED  BY <2>1
<1>2. First(b) \in HReq /\ ToSet(b.q) = ToSet(Tail(b.q)) \cup {First(b)}
  BY <1>1, TailFacts DEF IsConn, First
<1>3. Tail(b.q) \in Seq(HReq) /\ Len(Tail(b.q)) = 0
  BY <1>1, TailFacts DEF IsConn
<1>4. Tail(b.q) = <<>> /\ ToSet(Tail(b.q)) = {}
  <2> DEFINE t == Tail(b.q)
  <2>1. t \in Seq(HReq) /\ Len(t) = 0
    BY <1>3
  <2> HIDE DEF t
  <2>2. t = <<>>
    BY <2>1
  <2>3. ToSet(t) = {}
    BY <2>1, <2>2, ElementsInRange, Zenon
  <2> QED  BY <2>2, <2>3 DEF t
<1> QED  BY <1>1, <1>2, <1>4 DEF IsConn, ReqsOk

LEMMA RangeOfQ ==
  ASSUME NEW b, IsConn(b)
  PROVE  Range(b.q) = ToSet(b.q) /\ ToSet(b.q) \subseteq HReq
<1>1. b.q \in Seq(HReq)
  BY DEF IsConn
<1>2. ToSet(b.q) = {b.q[i] : i \in 1 .. Len(b.q)} /\ ToSet(b.q) \subseteq HReq
  BY <1>1, ElementsInRange
<1>3. Range(b.q) = {b.q[i] : i \in 1 .. Len(b.q)}
  BY <1>1, ElementsInRange
<1> QED  BY <1>2, <1>3

\* A connection that is freed, by a handler or by the user, has no events left.
LEMMA FreeFacts ==
  ASSUME NEW b, IsConn(b), NEW y, y = evhttp_connection_free(b)
  PROVE  /\ IsConn(y) /\ ~y.alive /\ y.q = <<>>
         /\ y.side = b.side /\ y.byuser = b.byuser /\ y.bad = b.bad
         /\ \A r \in HReq : y.req[r] \in ReqType
         /\ \A r \in HReq : r \notin ToSet(b.q) => y.req[r] = b.req[r]
         /\ \A r \in ToSet(b.q) : /\ y.req[r].life = "freed" /\ y.req[r].told = b.req[r].told
                                  /\ y.req[r].userdone = b.req[r].userdone
<1> DEFINE x == evhttp_connection_reset(b)
           tell == FALSE
           g == [r \in HReq |-> IF r \in Range(b.q) THEN Freed(b.req[r], tell) ELSE b.req[r]]
<1>1. /\ IsConn(x)
      /\ Frame(x, b, {"rd", "wr", "connecting", "wev", "fd", "out", "inp", "peer", "st"})
  BY ResetFacts
<1>2. x.req = b.req
  BY <1>1 DEF Frame, ConnFields
<1>3. y = [x EXCEPT !.alive = FALSE, !.q = <<>>, !.retry = FALSE, !.more = FALSE,
                    !.detect = FALSE,
                    !.req = [r \in HReq |-> IF r \in Range(b.q) THEN Freed(@[r], FALSE) ELSE @[r]]]
  BY DEF evhttp_connection_free
<1> HIDE DEF x
<1>4. Frame(y, x, {"alive", "q", "retry", "more", "detect", "req"})
  BY <1>1, <1>3, Zenon DEF Frame, IsConn
<1>5. ~y.alive /\ y.q = <<>>
  BY <1>1, <1>3 DEF IsConn, ConnFields
<1>6. y.req = g
  BY <1>1, <1>2, <1>3 DEF IsConn, ConnFields
<1>7. Range(b.q) = ToSet(b.q) /\ ToSet(b.q) \subseteq HReq
  BY RangeOfQ
<1>8. ASSUME NEW r \in HReq
      PROVE  LET z == Freed(b.req[r], tell)
             IN  /\ z \in ReqType /\ z.life = "freed" /\ z.told = b.req[r].told
                 /\ z.userdone = b.req[r].userdone
  <2>0. ~tell
    OBVIOUS
  <2>1. tell \in BOOLEAN
    OBVIOUS
  <2>2. b.req[r] \in ReqType
    BY DEF IsConn
  <2> HIDE DEF tell
  <2>3. LET z == Freed(b.req[r], tell)
        IN  /\ z \in ReqType /\ z.life = "freed" /\ (~tell => z.told = b.req[r].told)
            /\ z.userdone = b.req[r].userdone
    BY <2>1, <2>2, FreedFacts
  <2> QED  BY <2>0, <2>3, Zenon
<1> HIDE DEF tell
<1>9. /\ g \in [HReq -> ReqType]
      /\ \A r \in HReq : r \notin ToSet(b.q) => g[r] = b.req[r]
      /\ \A r \in ToSet(b.q) : g[r] = Freed(b.req[r], tell)
  BY <1>7, <1>8 DEF IsConn
<1> HIDE DEF g
<1>10. IsConn(y)
  <2>1. y.q \in Seq(HReq) /\ y.req \in [HReq -> ReqType]
    BY <1>5, <1>6, <1>9
  <2> QED  BY <1>1, <1>4, <2>1, Zenon DEF IsConn, Frame, ConnFields
<1>11. y.side = b.side /\ y.byuser = b.byuser /\ y.bad = b.bad
  BY <1>1, <1>4 DEF Frame, ConnFields
<1> QED  BY <1>5, <1>6, <1>7, <1>8, <1>9, <1>10, <1>11

LEMMA FreeOk ==
  ASSUME NEW b, IsConn(b), ReqsOk(b), b.bad = {}, ~Outgoing(b),
         \A r \in ToSet(b.q) : b.req[r].told = 1 => b.req[r].userdone,
         NEW y, y = evhttp_connection_free(b)
  PROVE  ConnOk(y)
<1>1. /\ IsConn(y) /\ ~y.alive /\ y.q = <<>>
      /\ y.side = b.side /\ y.byuser = b.byuser /\ y.bad = b.bad
      /\ \A r \in HReq : r \notin ToSet(b.q) => y.req[r] = b.req[r]
      /\ \A r \in ToSet(b.q) : /\ y.req[r].life = "freed" /\ y.req[r].told = b.req[r].told
                               /\ y.req[r].userdone = b.req[r].userdone
  BY FreeFacts
<1>2. ToSet(b.q) \subseteq HReq
  BY ElementsInRange DEF IsConn
<1>3. ASSUME NEW r \in ToSet(b.q)
      PROVE  ReqOk(y.side, y.req[r], y.byuser)
  <2>1. IncomingReq(b.req[r], b.byuser)
    BY <1>2 DEF ReqsOk, ReqOk, Outgoing
  <2> QED  BY <1>1, <2>1 DEF IncomingReq, ReqOk, Outgoing
<1>4. ReqsOk(y)
  BY <1>1, <1>3, ReqsCleared, Zenon
<1> QED  BY <1>1, <1>4 DEF ConnOk

LEMMA FreeByUserOk ==
  ASSUME NEW b, IsConn(b), ReqsOk(b), b.bad = {},
         NEW y, y = [evhttp_connection_free(b) EXCEPT !.byuser = TRUE]
  PROVE  ConnOk(y)
<1> DEFINE x == evhttp_connection_free(b)
<1>1. /\ IsConn(x) /\ ~x.alive /\ x.q = <<>>
      /\ x.side = b.side /\ x.byuser = b.byuser /\ x.bad = b.bad
      /\ \A r \in HReq : r \notin ToSet(b.q) => x.req[r] = b.req[r]
      /\ \A r \in ToSet(b.q) : x.req[r].life = "freed" /\ x.req[r].told = b.req[r].told
  BY FreeFacts
<1> HIDE DEF x
<1>2. Frame(y, x, {"byuser"}) /\ y.byuser = TRUE
  BY <1>1 DEF x, IsConn, Frame, ConnFields
<1>3. /\ ~y.alive /\ y.q = <<>> /\ y.side = b.side /\ y.bad = b.bad /\ y.req = x.req
  BY <1>1, <1>2 DEF Frame, ConnFields
<1>4. IsConn(y)
  BY <1>1, <1>2, Zenon DEF IsConn, Frame, ConnFields
<1>5. ToSet(b.q) \subseteq HReq
  BY ElementsInRange DEF IsConn
<1>6. ASSUME NEW r \in ToSet(b.q)
      PROVE  ReqOk(y.side, y.req[r], y.byuser)
  <2>1. ReqOk(b.side, b.req[r], b.byuser)
    BY <1>5 DEF ReqsOk
  <2>2. y.req[r].told <= 1 /\ y.req[r].life = "freed"
    BY <1>1, <1>3, <2>1 DEF ReqOk, OutgoingReq, IncomingReq
  <2> QED  BY <1>2, <2>2 DEF ReqOk, OutgoingReq, IncomingReq
<1>7. ReqsOk(y)
  <2>1. \A r \in HReq : r \notin ToSet(b.q) => y.req[r] = b.req[r]
    BY <1>1, <1>3
  <2>2. \A r \in ToSet(b.q) : y.req[r].life = "freed" /\ ReqOk(y.side, y.req[r], y.byuser)
    BY <1>1, <1>3, <1>6, Zenon
  <2> QED  BY <1>2, <1>3, <2>1, <2>2, ReqsCleared, Zenon
<1> QED  BY <1>3, <1>4, <1>7 DEF ConnOk

\* One request, being read or answered, inside a handler.
InOne(b) ==
  /\ IsConn(b) /\ ~Outgoing(b) /\ b.alive /\ ~b.byuser /\ b.bad = {} /\ ReqsOk(b)
  /\ Len(b.q) = 1 /\ b.fd /\ ~b.detect /\ ~b.connecting /\ ~b.retry /\ ~b.more
  /\ b.st \in Reading \cup {"WRITING"}

LEMMA AnsweredFacts ==
  ASSUME NEW x \in ReqType, NEW close \in BOOLEAN, NEW z, z = Answered(x, close)
  PROVE  z \in ReqType /\ z.userdone /\ z.life = x.life /\ z.told = x.told
<1>1. z = [x EXCEPT !.userdone = TRUE, !.close = x.close \/ close]
  BY DEF ReqType, Answered
<1>2. (x.close \/ close) \in BOOLEAN
  OBVIOUS
<1> QED  BY <1>1, <1>2, Zenon DEF ReqType

\* An answer is written; for a request without a connection nothing is.
LEMMA SendOk ==
  ASSUME NEW b, InOne(b), ~b.rd, NEW close \in BOOLEAN,
         NEW y, y = evhttp_send(b, First(b), close)
  PROVE  ConnOk(y)
<1> DEFINE r == First(b)
           z == Answered(b.req[r], close)
           x == [b EXCEPT !.req[r] = z, !.out = TRUE]
<1>1. /\ b.q # <<>> /\ r \in HReq /\ ToSet(b.q) = {r}
      /\ b.req[r] \in ReqType /\ b.req[r].life = "conn"
  BY OnlyFirst, Zenon DEF InOne
<1>2. y = evhttp_write_buffer(x, "send_done")
  <2>1. b.req[r].life # "user" /\ ~(b.q = <<>> \/ First(b) # r)
    BY <1>1
  <2>2. x = [b EXCEPT !.req[r] = Answered(@, close), !.out = TRUE]
    OBVIOUS
  <2> HIDE DEF x
  <2> QED  BY <2>1, <2>2 DEF evhttp_send, Fault
<1>3. z \in ReqType /\ z.userdone /\ z.life = "conn" /\ z.told = b.req[r].told
  <2> HIDE DEF r
  <2> QED  BY <1>1, AnsweredFacts
<1> HIDE DEF z, r
<1>4. Frame(x, b, {"req", "out"}) /\ x.req = [b.req EXCEPT ![r] = z]
  BY Zenon DEF InOne, IsConn, Frame, ConnFields
<1> HIDE DEF x
<1>5. /\ x.req \in [HReq -> ReqType] /\ x.req[r] = z
      /\ \A u \in HReq : u # r => x.req[u] = b.req[u]
  BY <1>1, <1>3, <1>4 DEF InOne, IsConn
<1>6. IsConn(x)
  BY <1>4, <1>5 DEF InOne, IsConn, Frame, ConnFields
<1>7. /\ IsConn(y) /\ Frame(y, x, {"cb", "wr", "wev", "rcb", "wcb", "conncb"})
      /\ y.cb = "send_done" /\ y.wev /\ y.wcb
  BY <1>2, <1>6, WriteBufferFacts
<1>8. /\ y.q = b.q /\ y.req = x.req /\ y.side = b.side /\ y.alive = b.alive
      /\ y.byuser = b.byuser /\ y.bad = b.bad /\ y.fd = b.fd /\ y.connecting = b.connecting
      /\ y.retry = b.retry /\ y.more = b.more /\ y.rd = b.rd /\ y.st = b.st
      /\ y.detect = b.detect
  BY <1>4, <1>7 DEF Frame, ConnFields
<1>9. ReqsOk(y)
  <2>1. IncomingReq(b.req[r], b.byuser)
    BY <1>1 DEF InOne, ReqsOk, ReqOk, Outgoing
  <2>2. ReqOk(y.side, y.req[r], y.byuser)
    BY <1>3, <1>5, <1>8, <2>1 DEF InOne, ReqOk, Outgoing, IncomingReq
  <2>3. \A u \in HReq : ReqOk(y.side, y.req[u], y.byuser)
    BY <1>5, <1>8, <2>2 DEF InOne, ReqsOk
  <2>4. \A u \in HReq : u \in ToSet(y.q) <=> y.req[u].life = "conn"
    BY <1>1, <1>3, <1>5, <1>8 DEF InOne, ReqsOk
  <2> QED  BY <1>8, <2>3, <2>4 DEF InOne, ReqsOk
<1>10. First(y) = r
  BY <1>8 DEF First, r
<1>11. IncomingOk(y)
  BY <1>3, <1>5, <1>7, <1>8, <1>10 DEF InOne, IncomingOk
<1> QED  BY <1>7, <1>8, <1>9, <1>11 DEF InOne, ConnOk, Outgoing

LEMMA GivenFacts ==
  ASSUME NEW x \in ReqType, NEW z, z = Given(x)
  PROVE  z \in ReqType /\ ~z.userdone /\ z.life = x.life /\ z.told = x.told + 1
<1>1. z = [x EXCEPT !.userdone = FALSE, !.told = x.told + 1]
  BY DEF ReqType, Given
<1>2. x.told + 1 \in Nat
  BY DEF ReqType
<1> QED  BY <1>1, <1>2, Zenon DEF ReqType

\* A request was read: its user has it, or an error page answers it.
LEMMA HandleRequestOk ==
  ASSUME NEW b, InOne(b), ~b.rd, b.req[First(b)].told = 0,
         NEW o, NEW y, y = evhttp_handle_request(b, o),
         o.answer = "error" \/ /\ b.out => b.wev
                               /\ b.wev => b.wcb /\ b.cb = "continue_done"
  PROVE  ConnOk(y)
<1> DEFINE r == First(b)
           z == Given(b.req[r])
           x == [b EXCEPT !.req[r] = z]
<1>1. /\ b.q # <<>> /\ r \in HReq /\ ToSet(b.q) = {r}
      /\ b.req[r] \in ReqType /\ b.req[r].life = "conn"
  BY OnlyFirst, Zenon DEF InOne
<1>2. y = IF o.answer = "error" THEN evhttp_send(x, r, TRUE) ELSE x
  <2>1. x = [b EXCEPT !.req[First(b)] = Given(@)]
    OBVIOUS
  <2> HIDE DEF x
  <2> QED  BY <2>1 DEF evhttp_handle_request
<1>3. z \in ReqType /\ ~z.userdone /\ z.life = "conn" /\ z.told = 1
  <2> HIDE DEF r
  <2>1. z \in ReqType /\ ~z.userdone /\ z.life = "conn" /\ z.told = b.req[r].told + 1
    BY <1>1, GivenFacts
  <2> QED  BY <2>1 DEF r
<1> HIDE DEF z, r
<1>4. Frame(x, b, {"req"}) /\ x.req = [b.req EXCEPT ![r] = z]
  BY DEF InOne, IsConn, Frame, ConnFields
<1> HIDE DEF x
<1>5. /\ x.req \in [HReq -> ReqType] /\ x.req[r] = z
      /\ \A u \in HReq : u # r => x.req[u] = b.req[u]
  BY <1>1, <1>3, <1>4 DEF InOne, IsConn
<1>6. IsConn(x)
  BY <1>4, <1>5 DEF InOne, IsConn, Frame, ConnFields
<1>8. /\ x.q = b.q /\ x.side = b.side /\ x.alive = b.alive
      /\ x.byuser = b.byuser /\ x.bad = b.bad /\ x.fd = b.fd /\ x.connecting = b.connecting
      /\ x.retry = b.retry /\ x.more = b.more /\ x.rd = b.rd /\ x.st = b.st
      /\ x.detect = b.detect /\ x.out = b.out /\ x.wev = b.wev /\ x.wcb = b.wcb /\ x.cb = b.cb
  BY <1>4 DEF Frame, ConnFields
<1>9. ReqsOk(x)
  <2>2. ReqOk(x.side, x.req[r], x.byuser)
    BY <1>3, <1>5, <1>8 DEF InOne, ReqOk, Outgoing, IncomingReq
  <2>3. \A u \in HReq : ReqOk(x.side, x.req[u], x.byuser)
    BY <1>5, <1>8, <2>2 DEF InOne, ReqsOk
  <2>4. \A u \in HReq : u \in ToSet(x.q) <=> x.req[u].life = "conn"
    BY <1>1, <1>3, <1>5, <1>8 DEF InOne, ReqsOk
  <2> QED  BY <1>8, <2>3, <2>4 DEF InOne, ReqsOk
<1>10. First(x) = r
  BY <1>8 DEF First, r
<1>11. InOne(x)
  BY <1>6, <1>8, <1>9 DEF InOne, Outgoing
<1>12. CASE o.answer = "error"
  <2> DEFINE close == TRUE
  <2>1. y = evhttp_send(x, First(x), close) /\ close \in BOOLEAN
    BY <1>2, <1>10, <1>12
  <2> HIDE DEF close
  <2> QED  BY <1>8, <1>11, <2>1, SendOk
<1>13. CASE o.answer # "error"
  <2>1. y = x
    BY <1>2, <1>13
  <2>2. IncomingOk(x)
    BY <1>3, <1>5, <1>8, <1>10, <1>11, <1>13 DEF InOne, IncomingOk
  <2> QED  BY <1>8, <1>11, <2>1, <2>2 DEF InOne, ConnOk
<1> QED  BY <1>12, <1>13

\* Reading a request failed: the user keeps one that he has been given.
LEMMA InFailOk ==
  ASSUME NEW b, InOne(b), NEW err \in {"network", "invalid", "cancel"},
         err # "network" => b.req[First(b)].told = 0,
         NEW o \in Outcome, NEW y, y = evhttp_connection_fail(b, err, o)
  PROVE  ConnOk(y)
<1> DEFINE x == Disable(b)
           r == First(b)
<1>1. /\ b.q # <<>> /\ r \in HReq /\ ToSet(b.q) = {r} /\ Tail(b.q) = <<>>
      /\ b.req[r] \in ReqType /\ b.req[r].life = "conn"
  BY OnlyFirst, Zenon DEF InOne
<1>2. y = evhttp_connection_incoming_fail(x, err, o)
  BY <1>1 DEF InOne, evhttp_connection_fail
<1>3. IsConn(x) /\ Frame(x, b, {"rd", "wr", "wev"}) /\ ~x.rd
  BY DisableFacts DEF InOne
<1> HIDE DEF x
<1>4. /\ x.q = b.q /\ x.req = b.req /\ x.side = b.side /\ x.alive = b.alive
      /\ x.byuser = b.byuser /\ x.bad = b.bad /\ x.fd = b.fd /\ x.connecting = b.connecting
      /\ x.retry = b.retry /\ x.more = b.more /\ x.st = b.st /\ x.detect = b.detect
  BY <1>3 DEF Frame, ConnFields
<1>5. ReqsOk(x)
  BY <1>4, ReqsKept DEF InOne, SameReq
<1>6. InOne(x) /\ First(x) = r
  BY <1>3, <1>4, <1>5 DEF InOne, Outgoing, First
<1> HIDE DEF r
<1>7. IncomingReq(x.req[r], x.byuser)
  BY <1>1, <1>5, <1>6 DEF InOne, Outgoing, ReqsOk, ReqOk
<1>8. CASE err # "network"
  <2> DEFINE o2 == [o EXCEPT !.answer = "error"]
  <2>1. o2.answer = "error"
    BY DEF Outcome
  <2>2. y = evhttp_handle_request(x, o2)
    BY <1>2, <1>8 DEF evhttp_connection_incoming_fail
  <2>3. x.req[First(x)].told = 0
    BY <1>4, <1>6, <1>8 DEF r
  <2> HIDE DEF o2
  <2> QED  BY <1>3, <1>6, <2>1, <2>2, <2>3, HandleRequestOk
<1>9. CASE err = "network" /\ x.req[r].userdone
  <2>1. y = evhttp_connection_free(x)
    BY <1>2, <1>6, <1>9 DEF evhttp_connection_incoming_fail
  <2>2. \A u \in ToSet(x.q) : x.req[u].told = 1 => x.req[u].userdone
    BY <1>1, <1>4, <1>9
  <2> QED  BY <1>6, <2>1, <2>2, FreeOk DEF InOne
<1>10. CASE err = "network" /\ ~x.req[r].userdone
  <2> DEFINE w == [x EXCEPT !.q = Tail(@), !.req[r].life = "user"]
             z == [x.req[r] EXCEPT !.life = "user"]
  <2>1. y = evhttp_connection_free(w)
    BY <1>2, <1>6, <1>10 DEF evhttp_connection_incoming_fail
  <2>2. w.q = <<>> /\ w.req = [x.req EXCEPT ![r] = z] /\ Frame(w, x, {"q", "req"})
    BY <1>1, <1>3, <1>4, Zenon DEF IsConn, Frame, ConnFields
  <2>3. /\ z \in ReqType /\ z.life = "user" /\ z.told = x.req[r].told
        /\ z.userdone = x.req[r].userdone
    BY <1>1, <1>4 DEF ReqType
  <2> HIDE DEF w, z
  <2>4. /\ w.req \in [HReq -> ReqType] /\ w.req[r] = z
        /\ \A u \in HReq : u # r => w.req[u] = x.req[u]
    BY <1>1, <1>3, <2>2, <2>3 DEF IsConn
  <2>5. /\ w.side = x.side /\ w.byuser = x.byuser /\ w.bad = x.bad
    BY <2>2 DEF Frame, ConnFields
  <2>6. IsConn(w)
    <3>1. w.q \in Seq(HReq)
      BY <2>2
    <3> QED  BY <1>3, <2>2, <2>4, <3>1, Zenon DEF IsConn, Frame, ConnFields
  <2>7. ReqsOk(w)
    <3>1. z.told = 1 /\ ~z.userdone
      BY <1>1, <1>4, <1>7, <1>10, <2>3 DEF IncomingReq
    <3>2. ReqOk(w.side, w.req[First(x)], w.byuser)
      BY <1>6, <2>3, <2>4, <2>5, <3>1 DEF InOne, Outgoing, ReqOk, IncomingReq
    <3>3. w.q = Tail(x.q) /\ x.q # <<>>
      BY <1>1, <1>4, <2>2
    <3>4. /\ \A u \in HReq : u # First(x) => w.req[u] = x.req[u]
          /\ w.req[First(x)].life # "conn"
      BY <1>6, <2>3, <2>4
    <3> QED  BY <1>3, <1>5, <2>5, <3>2, <3>3, <3>4, ReqsDropped
  <2>8. ToSet(w.q) = {}
    BY <2>2, <2>6, ElementsInRange, Zenon DEF IsConn
  <2>9. w.bad = {} /\ ~Outgoing(w)
    BY <1>6, <2>5 DEF InOne, Outgoing
  <2> QED  BY <2>1, <2>6, <2>7, <2>8, <2>9, FreeOk
<1> QED  BY <1>8, <1>9, <1>10

\* The request of a client is being read.
InMid(b) ==
  /\ InOne(b) /\ b.st \in Reading /\ b.rcb
  /\ b.req[First(b)].told = 0 /\ b.req[First(b)].userdone
  /\ b.out => b.wev
  /\ b.wev => b.wcb /\ b.cb = "continue_done"

LEMMA InDoneOk ==
  ASSUME NEW b, InMid(b), ~b.rd, NEW o, NEW y, y = evhttp_connection_done(b, o)
  PROVE  ConnOk(y)
<1> DEFINE x == [b EXCEPT !.st = "WRITING"]
<1>1. y = evhttp_handle_request(x, o)
  BY DEF evhttp_connection_done, InMid, InOne
<1>2. Frame(x, b, {"st"}) /\ x.st = "WRITING"
  BY DEF InMid, InOne, IsConn, Frame, ConnFields
<1> HIDE DEF x
<1>3. IsConn(x)
  BY <1>2 DEF InMid, InOne, IsConn, Frame, ConnFields
<1>4. /\ x.q = b.q /\ x.req = b.req /\ x.side = b.side /\ x.alive = b.alive
      /\ x.byuser = b.byuser /\ x.bad = b.bad /\ x.fd = b.fd /\ x.connecting = b.connecting
      /\ x.retry = b.retry /\ x.more = b.more /\ x.detect = b.detect /\ x.rd = b.rd
      /\ x.out = b.out /\ x.wev = b.wev /\ x.wcb = b.wcb /\ x.cb = b.cb
  BY <1>2 DEF Frame, ConnFields
<1>5. ReqsOk(x)
  BY <1>4, ReqsKept DEF InMid, InOne, SameReq
<1>6. InOne(x) /\ First(x) = First(b)
  BY <1>2, <1>3, <1>4, <1>5 DEF InMid, InOne, Outgoing, First
<1>7. x.req[First(x)].told = 0
  BY <1>4, <1>6 DEF InMid
<1>8. (x.out => x.wev) /\ (x.wev => x.wcb /\ x.cb = "continue_done")
  BY <1>4 DEF InMid
<1> QED  BY <1>1, <1>4, <1>6, <1>7, <1>8, HandleRequestOk

-------------------------------------------------------------------------------
\* Reading, on either side.
ReadMid(b) ==
  IF Outgoing(b)
    THEN /\ OutMid(b) /\ b.fd /\ ~b.wev /\ ~b.connecting /\ b.rcb /\ b.st \in Reading
         /\ b.req[First(b)].kind = "RESPONSE"
    ELSE InMid(b)

\* Either kind of connection fails, or is done with a message.
LEMMA FailOk ==
  ASSUME NEW b, ReadMid(b), NEW err \in {"network", "invalid", "cancel"},
         NEW o \in Outcome, o.connect = "begins", NEW y, y = evhttp_connection_fail(b, err, o)
  PROVE  ConnOk(y)
<1>1. CASE Outgoing(b)
  BY <1>1, OutFailOk DEF ReadMid
<1>2. CASE ~Outgoing(b)
  BY <1>2, InFailOk DEF ReadMid, InMid
<1> QED  BY <1>1, <1>2

LEMMA DoneOk ==
  ASSUME NEW b, ReadMid(b), ~b.rd, NEW o \in Outcome, o.connect = "begins",
         NEW y, y = evhttp_connection_done(b, o)
  PROVE  ConnOk(y)
<1>1. CASE Outgoing(b)
  BY <1>1, OutDoneOk DEF ReadMid
<1>2. CASE ~Outgoing(b)
  BY <1>2, InDoneOk DEF ReadMid
<1> QED  BY <1>1, <1>2

\* What a connection that is being read has on either side.
LEMMA ReadMidFacts ==
  ASSUME NEW b, ReadMid(b)
  PROVE  /\ IsConn(b) /\ ReqsOk(b) /\ b.alive /\ ~b.byuser /\ b.bad = {} /\ ~b.more
         /\ b.st \in Reading
         /\ b.q # <<>> /\ First(b) \in HReq /\ b.req[First(b)] \in ReqType
<1>1. CASE Outgoing(b)
  BY <1>1, MidFirst DEF ReadMid, OutMid
<1>2. CASE ~Outgoing(b)
  BY <1>2, OnlyFirst DEF ReadMid, InMid, InOne
<1> QED  BY <1>1, <1>2

\* Reading may change the events, the buffer and what the headers say.
LEMMA MidKept ==
  ASSUME NEW b, ReadMid(b), NEW y, IsConn(y), y.st \in Reading, ~y.more,
         Frame(y, b, {"rd", "inp", "st", "req", "peer", "more"}),
         \A r \in HReq : SameReq(y.req[r], b.req[r])
  PROVE  ReadMid(y) /\ First(y) = First(b)
<1>1. /\ y.q = b.q /\ y.side = b.side /\ y.alive = b.alive
      /\ y.byuser = b.byuser /\ y.bad = b.bad /\ y.fd = b.fd /\ y.connecting = b.connecting
      /\ y.retry = b.retry /\ y.detect = b.detect
      /\ y.out = b.out /\ y.wev = b.wev /\ y.wcb = b.wcb /\ y.cb = b.cb /\ y.rcb = b.rcb
  BY DEF Frame, ConnFields
<1>2. First(b) \in HReq /\ ReqsOk(b) /\ ToSet(b.q) \subseteq HReq
  BY ReadMidFacts, ElementsInRange DEF IsConn
<1>3. ReqsOk(y) /\ First(y) = First(b)
  BY <1>1, <1>2, ReqsKept DEF First
<1>4. CASE Outgoing(b)
  BY <1>1, <1>2, <1>3, <1>4 DEF ReadMid, OutMid, Outgoing, SameReq
<1>5. CASE ~Outgoing(b)
  BY <1>1, <1>2, <1>3, <1>5 DEF ReadMid, InMid, InOne, Outgoing, SameReq
<1> QED  BY <1>3, <1>4, <1>5

LEMMA StayOk ==
  ASSUME NEW b, ReadMid(b), b.rd, b.inp = <<>>
  PROVE  ConnOk(b)
<1>1. CASE Outgoing(b)
  <2>1. \A r \in ToSet(b.q) : b.req[r].kind \in {"REQUEST", "RESPONSE"}
    BY <1>1, ElementsInRange DEF ReadMid, OutMid, IsConn, ReqType
  <2>2. KindsOk(b)
    BY <1>1, <2>1 DEF ReadMid, OutMid, KindsOk
  <2>3. OutgoingOk(b)
    BY <1>1, <2>2 DEF ReadMid, OutMid, OutgoingOk, Reading
  <2> QED  BY <1>1, <2>3 DEF ReadMid, OutMid, ConnOk
<1>2. CASE ~Outgoing(b)
  <2>1. IncomingOk(b)
    BY <1>2 DEF ReadMid, InMid, InOne, IncomingOk
  <2> QED  BY <1>2, <2>1 DEF ReadMid, InMid, InOne, ConnOk
<1> QED  BY <1>1, <1>2

\* The first request changes in what is said of its message.
LEMMA MessageKept ==
  ASSUME NEW b, ReadMid(b), NEW z \in ReqType, SameReq(z, b.req[First(b)]),
         NEW y, DOMAIN y = ConnFields, Frame(y, b, {"rd", "inp", "st", "req", "peer", "more"}),
         y.req = [b.req EXCEPT ![First(b)] = z],
         y.st \in Reading, y.inp \in Seq(PieceOf(b.side)), ~y.more
  PROVE  ReadMid(y) /\ First(y) = First(b) /\ y.req[First(b)] = z
<1>1. First(b) \in HReq /\ IsConn(b)
  BY ReadMidFacts
<1>2. /\ y.req \in [HReq -> ReqType] /\ y.req[First(b)] = z
      /\ \A r \in HReq : r # First(b) => y.req[r] = b.req[r]
  BY <1>1 DEF IsConn
<1>3. IsConn(y)
  BY <1>1, <1>2, Zenon DEF IsConn, Frame, ConnFields, Reading
<1>4. \A r \in HReq : SameReq(y.req[r], b.req[r])
  BY <1>2 DEF SameReq
<1> QED  BY <1>2, <1>3, <1>4, MidKept

\* Only the buffer, the state and reading change.
LEMMA ReadingKept ==
  ASSUME NEW b, ReadMid(b), NEW y, DOMAIN y = ConnFields,
         Frame(y, b, {"rd", "inp", "st", "peer", "more"}),
         y.st \in Reading, y.inp \in Seq(PieceOf(b.side)), ~y.more
  PROVE  ReadMid(y) /\ First(y) = First(b) /\ y.req = b.req
<1>1. IsConn(b)
  BY ReadMidFacts
<1>2. y.req = b.req
  BY DEF Frame, ConnFields
<1>3. Frame(y, b, {"rd", "inp", "st", "req", "peer", "more"})
  BY DEF Frame
<1>4. IsConn(y)
  BY <1>1, <1>2 DEF IsConn, Frame, ConnFields, Reading
<1>5. \A r \in HReq : SameReq(y.req[r], b.req[r])
  BY <1>2 DEF SameReq
<1> QED  BY <1>2, <1>3, <1>4, <1>5, MidKept

LEMMA PieceFacts ==
  ASSUME NEW b, IsConn(b), b.inp # <<>>
  PROVE  Next1(b) \in PieceOf(b.side) /\ Tail(b.inp) \in Seq(PieceOf(b.side))
BY TailFacts, Zenon DEF IsConn, Next1

\* Each step of reading a message, in the order in which they call each other
\* from the last.
LEMMA ReadTrailerOk ==
  ASSUME NEW b, ReadMid(b), NEW o \in Outcome, o.connect = "begins",
         NEW y, y = evhttp_read_trailer(b, o)
  PROVE  ConnOk(y)
<1>0. IsConn(b) /\ ~b.more /\ b.st \in Reading
  BY ReadMidFacts
<1>1. CASE b.inp = <<>>
  <2>1. y = [b EXCEPT !.rd = TRUE]
    BY <1>1 DEF evhttp_read_trailer
  <2>2. DOMAIN y = ConnFields /\ Frame(y, b, {"rd", "inp", "st", "peer", "more"})
    BY <1>0, <2>1 DEF IsConn, Frame
  <2>3. y.rd /\ y.inp = b.inp /\ y.st = b.st /\ y.more = b.more
    BY <1>0, <2>1 DEF IsConn, ConnFields
  <2>4. ReadMid(y)
    BY <1>0, <2>2, <2>3, ReadingKept DEF IsConn
  <2> QED  BY <1>1, <2>3, <2>4, StayOk
<1>2. CASE b.inp # <<>> /\ Next1(b).t = "bad"
  <2>1. y = evhttp_connection_fail(b, "invalid", o)
    BY <1>2 DEF evhttp_read_trailer
  <2> QED  BY <2>1, FailOk
<1>3. CASE b.inp # <<>> /\ Next1(b).t # "bad"
  <2> DEFINE x == [Eat(b) EXCEPT !.rd = FALSE]
  <2>1. y = evhttp_connection_done(x, o)
    BY <1>3 DEF evhttp_read_trailer
  <2>2. DOMAIN x = ConnFields /\ Frame(x, b, {"rd", "inp", "st", "peer", "more"})
    BY <1>0, Zenon DEF IsConn, Frame, Eat
  <2>3. ~x.rd /\ x.inp = Tail(b.inp) /\ x.st = b.st /\ x.more = b.more
    BY <1>0 DEF IsConn, ConnFields, Eat
  <2> HIDE DEF x
  <2>4. ReadMid(x)
    BY <1>0, <1>3, <2>2, <2>3, ReadingKept, PieceFacts
  <2> QED  BY <2>1, <2>3, <2>4, DoneOk
<1> QED  BY <1>1, <1>2, <1>3

\* How many chunks are at the front of the buffer.
LEMMA ChunksThere ==
  ASSUME NEW S, NEW inp \in Seq(S)
  PROVE  \E k \in 0 .. Len(inp) : /\ \A i \in 1 .. k : inp[i].t = "chunk"
                                  /\ k < Len(inp) => inp[k + 1].t # "chunk"
<1> DEFINE L == Len(inp)
           T == {k \in Nat : k < L /\ inp[k + 1].t # "chunk"}
<1>0. L \in Nat
  OBVIOUS
<1> HIDE DEF L
<1>1. CASE T = {}
  <2>1. \A i \in 1 .. L : inp[i].t = "chunk"
    <3> SUFFICES ASSUME NEW i \in 1 .. L, inp[i].t # "chunk" PROVE FALSE
      OBVIOUS
    <3>1. i - 1 \in Nat /\ i - 1 < L /\ (i - 1) + 1 = i
      BY <1>0
    <3>2. i - 1 \in T
      BY <3>1
    <3> QED  BY <1>1, <3>2
  <2>2. L \in 0 .. L /\ ~(L < L)
    BY <1>0
  <2> QED  BY <2>1, <2>2 DEF L
<1>2. CASE T # {}
  <2> DEFINE m == Min(T)
  <2>1. m \in T /\ \A k \in T : m <= k
    BY <1>2, MinOfNaturals, Zenon
  <2> HIDE DEF m
  <2>2. m \in Nat /\ m < L /\ inp[m + 1].t # "chunk" /\ m \in 0 .. L
    BY <1>0, <2>1
  <2>3. \A i \in 1 .. m : inp[i].t = "chunk"
    <3> SUFFICES ASSUME NEW i \in 1 .. m, inp[i].t # "chunk" PROVE FALSE
      OBVIOUS
    <3>1. i - 1 \in Nat /\ i - 1 < L /\ (i - 1) + 1 = i /\ ~(m <= i - 1)
      BY <1>0, <2>2
    <3>2. i - 1 \in T
      BY <3>1
    <3> QED  BY <2>1, <3>1, <3>2
  <2> QED  BY <2>2, <2>3 DEF L
<1> QED  BY <1>1, <1>2

LEMMA ChunkedReadOk ==
  ASSUME NEW b, ReadMid(b), NEW o \in Outcome, o.connect = "begins",
         NEW y, y = evhttp_handle_chunked_read(b, o)
  PROVE  ConnOk(y)
<1> DEFINE n == CHOOSE k \in 0..Len(b.inp) : /\ \A i \in 1..k : b.inp[i].t = "chunk"
                                             /\ k < Len(b.inp) => b.inp[k + 1].t # "chunk"
           x == [b EXCEPT !.inp = SubSeq(@, n + 1, Len(@))]
<1>0. IsConn(b) /\ ~b.more /\ b.st \in Reading /\ b.inp \in Seq(PieceOf(b.side))
  BY ReadMidFacts DEF IsConn
<1>1. n \in 0 .. Len(b.inp)
  BY <1>0, ChunksThere
<1>2. y = IF n > 0 /\ Outgoing(b) /\ o.user = "cancels" THEN evhttp_connection_fail(b, "cancel", o)
          ELSE IF x.inp = <<>> THEN [x EXCEPT !.rd = TRUE]
          ELSE IF Next1(x).t = "bad" THEN evhttp_connection_fail(x, "invalid", o)
          ELSE evhttp_read_trailer([Eat(x) EXCEPT !.st = "READING_TRAILER"], o)
  BY DEF evhttp_handle_chunked_read
<1> HIDE DEF n
<1>3. SubSeq(b.inp, n + 1, Len(b.inp)) \in Seq(PieceOf(b.side))
  BY <1>0, <1>1
<1>4. /\ DOMAIN x = ConnFields /\ Frame(x, b, {"rd", "inp", "st", "peer", "more"})
  BY <1>0 DEF IsConn, Frame
<1>5. x.inp = SubSeq(b.inp, n + 1, Len(b.inp)) /\ x.st = b.st /\ x.more = b.more
      /\ x.side = b.side
  BY <1>0, Zenon DEF IsConn, ConnFields
<1> HIDE DEF x
<1>6. ReadMid(x)
  BY <1>0, <1>3, <1>4, <1>5, ReadingKept, Zenon
<1>7. IsConn(x) /\ ~x.more /\ x.st \in Reading
  BY <1>6, ReadMidFacts
<1>8. CASE n > 0 /\ Outgoing(b) /\ o.user = "cancels"
  BY <1>2, <1>8, FailOk
<1>9. CASE ~(n > 0 /\ Outgoing(b) /\ o.user = "cancels") /\ x.inp = <<>>
  <2>1. y = [x EXCEPT !.rd = TRUE]
    BY <1>2, <1>9
  <2>2. DOMAIN y = ConnFields /\ Frame(y, x, {"rd", "inp", "st", "peer", "more"})
    BY <1>7, <2>1 DEF IsConn, Frame
  <2>3. y.rd /\ y.inp = x.inp /\ y.st = x.st /\ y.more = x.more
    BY <1>7, <2>1 DEF IsConn, ConnFields
  <2>4. ReadMid(y)
    BY <1>6, <1>7, <2>2, <2>3, ReadingKept DEF IsConn
  <2> QED  BY <1>9, <2>3, <2>4, StayOk
<1>10. CASE ~(n > 0 /\ Outgoing(b) /\ o.user = "cancels") /\ x.inp # <<>> /\ Next1(x).t = "bad"
  <2>1. y = evhttp_connection_fail(x, "invalid", o)
    BY <1>2, <1>10
  <2> QED  BY <1>6, <2>1, FailOk
<1>11. CASE ~(n > 0 /\ Outgoing(b) /\ o.user = "cancels") /\ x.inp # <<>> /\ Next1(x).t # "bad"
  <2> DEFINE z == [Eat(x) EXCEPT !.st = "READING_TRAILER"]
  <2>1. y = evhttp_read_trailer(z, o)
    BY <1>2, <1>11
  <2>2. DOMAIN z = ConnFields /\ Frame(z, x, {"rd", "inp", "st", "peer", "more"})
    BY <1>7, Zenon DEF IsConn, Frame, Eat
  <2>3. z.inp = Tail(x.inp) /\ z.st = "READING_TRAILER" /\ z.more = x.more
    BY <1>7 DEF IsConn, ConnFields, Eat
  <2> HIDE DEF z
  <2>4. ReadMid(z)
    BY <1>6, <1>7, <1>11, <2>2, <2>3, ReadingKept, PieceFacts DEF Reading
  <2> QED  BY <2>1, <2>4, ReadTrailerOk
<1> QED  BY <1>8, <1>9, <1>10, <1>11

LEMMA ReadBodyOk ==
  ASSUME NEW b, ReadMid(b), NEW o \in Outcome, o.connect = "begins",
         NEW y, y = evhttp_read_body(b, o)
  PROVE  ConnOk(y)
<1> DEFINE r == b.req[First(b)]
<1>0. /\ IsConn(b) /\ ~b.more /\ b.st \in Reading /\ b.inp \in Seq(PieceOf(b.side))
      /\ First(b) \in HReq /\ r \in ReqType
  BY ReadMidFacts DEF IsConn
<1>1. CASE r.chunked
  BY <1>1, ChunkedReadOk DEF evhttp_read_body
<1>2. CASE ~r.chunked /\ r.ntoread < 0
  <2>1. y = [b EXCEPT !.inp = <<>>, !.rd = TRUE]
    BY <1>2 DEF evhttp_read_body
  <2>2. DOMAIN y = ConnFields /\ Frame(y, b, {"rd", "inp", "st", "peer", "more"})
    BY <1>0, <2>1, Zenon DEF IsConn, Frame
  <2>3. y.rd /\ y.inp = <<>> /\ y.st = b.st /\ y.more = b.more
    BY <1>0, <2>1 DEF IsConn, ConnFields
  <2>4. ReadMid(y)
    <3>1. y.inp \in Seq(PieceOf(b.side))
      BY <2>3
    <3> QED  BY <1>0, <2>2, <2>3, <3>1, ReadingKept, Zenon
  <2> QED  BY <2>3, <2>4, StayOk
<1>3. CASE ~r.chunked /\ ~(r.ntoread < 0) /\ r.ntoread > 0 /\ b.inp = <<>>
  <2>1. y = [b EXCEPT !.rd = TRUE]
    BY <1>3 DEF evhttp_read_body
  <2>2. DOMAIN y = ConnFields /\ Frame(y, b, {"rd", "inp", "st", "peer", "more"})
    BY <1>0, <2>1 DEF IsConn, Frame
  <2>3. y.rd /\ y.inp = b.inp /\ y.st = b.st /\ y.more = b.more
    BY <1>0, <2>1 DEF IsConn, ConnFields
  <2>4. ReadMid(y)
    BY <1>0, <2>2, <2>3, ReadingKept
  <2> QED  BY <1>3, <2>3, <2>4, StayOk
<1>4. CASE /\ ~r.chunked /\ ~(r.ntoread < 0) /\ ~(r.ntoread > 0 /\ b.inp = <<>>)
           /\ r.ntoread > 0 /\ Outgoing(b) /\ o.user = "cancels"
  <2>1. y = evhttp_connection_fail(b, "cancel", o)
    BY <1>4 DEF evhttp_read_body
  <2> QED  BY <2>1, FailOk
<1>5. CASE /\ ~r.chunked /\ ~(r.ntoread < 0) /\ ~(r.ntoread > 0 /\ b.inp = <<>>)
           /\ ~(r.ntoread > 0 /\ Outgoing(b) /\ o.user = "cancels")
  <2> DEFINE x == IF r.ntoread > 0 THEN Eat(b) ELSE b
             w == [x EXCEPT !.rd = FALSE, !.req[First(b)].ntoread = 0]
             z == [r EXCEPT !.ntoread = 0]
  <2>1. y = evhttp_connection_done(w, o)
    BY <1>5 DEF evhttp_read_body
  <2>2. /\ DOMAIN x = ConnFields /\ Frame(x, b, {"inp"})
        /\ x.inp = b.inp \/ (b.inp # <<>> /\ x.inp = Tail(b.inp))
    BY <1>0, <1>5 DEF IsConn, Frame, Eat, ConnFields
  <2> HIDE DEF x
  <2>3. x.inp \in Seq(PieceOf(b.side)) /\ x.req = b.req /\ x.more = b.more /\ x.st = b.st
    BY <1>0, <2>2, PieceFacts, Zenon DEF Frame, ConnFields
  <2>4. /\ DOMAIN w = ConnFields /\ Frame(w, x, {"rd", "req"}) /\ ~w.rd
        /\ w.req = [b.req EXCEPT ![First(b)] = z]
    BY <2>2, <2>3, Zenon DEF Frame, ConnFields
  <2>5. z \in ReqType /\ SameReq(z, r)
    <3> HIDE DEF r
    <3> QED  BY <1>0 DEF ReqType, SameReq
  <2> HIDE DEF w, z
  <2>6. Frame(w, b, {"rd", "inp", "st", "req", "peer", "more"})
    BY <2>2, <2>4 DEF Frame
  <2>7. w.st = b.st /\ w.more = b.more /\ w.inp = x.inp
    BY <2>3, <2>4 DEF Frame, ConnFields
  <2>8. ReadMid(w)
    BY <1>0, <2>3, <2>4, <2>5, <2>6, <2>7, MessageKept
  <2> QED  BY <2>1, <2>4, <2>8, DoneOk
<1> QED  BY <1>1, <1>2, <1>3, <1>4, <1>5

\* Only a client asks for it.
LEMMA SendContinueMid ==
  ASSUME NEW b, ReadMid(b), ~Outgoing(b), NEW y, y = evhttp_send_continue(b)
  PROVE  ReadMid(y)
<1>0. InMid(b) /\ IsConn(b)
  BY DEF ReadMid, InMid, InOne
<1>1. DOMAIN y = ConnFields /\ Frame(y, b, {"wr", "wev", "out", "cb", "rcb", "wcb", "conncb"})
  BY <1>0, Zenon DEF IsConn, Frame, evhttp_send_continue
<1>2. y.wev /\ y.cb = "continue_done" /\ y.rcb /\ y.wcb
  BY <1>0 DEF IsConn, ConnFields, evhttp_send_continue
<1>3. IsConn(y)
  BY <1>0, <1>1, <1>2, Zenon DEF IsConn, Frame, ConnFields
<1>4. /\ y.q = b.q /\ y.side = b.side /\ y.alive = b.alive /\ y.req = b.req
      /\ y.byuser = b.byuser /\ y.bad = b.bad /\ y.fd = b.fd /\ y.connecting = b.connecting
      /\ y.retry = b.retry /\ y.detect = b.detect /\ y.st = b.st /\ y.more = b.more
  BY <1>1 DEF Frame, ConnFields
<1>5. ReqsOk(y) /\ First(y) = First(b)
  BY <1>0, <1>4, ReqsKept DEF First, SameReq, InMid, InOne
<1> QED  BY <1>0, <1>2, <1>3, <1>4, <1>5 DEF ReadMid, InMid, InOne, Outgoing

\* What headers may say, in a message from the other side.
HeadersOf(side) ==
  IF side = "outgoing"
    THEN {"none", "length", "zero", "chunked", "bad_length", "continue", "no_body"}
    ELSE {"none", "get", "length", "chunked", "bad_length", "expect", "bad_expect"}

LEMMA GetBodyOk ==
  ASSUME NEW b, ReadMid(b), ~b.rd, NEW h \in HeadersOf(b.side),
         NEW o \in Outcome, o.connect = "begins", NEW y, y = evhttp_get_body(b, h, o)
  PROVE  ConnOk(y)
<1> DEFINE r == First(b)
           request == b.req[r].kind = "REQUEST"
           n == IF h \in {"length", "expect"} THEN 1 ELSE IF h = "zero" THEN 0 ELSE -1
           chunked == h = "chunked"
           z == [b.req[r] EXCEPT !.chunked = chunked, !.ntoread = n]
           x == [b EXCEPT !.st = "READING_BODY",
                          !.req[r] = [@ EXCEPT !.chunked = h = "chunked", !.ntoread = n]]
           w == IF h = "expect" /\ b.inp = <<>> THEN evhttp_send_continue(x) ELSE x
<1>0. /\ IsConn(b) /\ ~b.more /\ b.st \in Reading /\ b.inp \in Seq(PieceOf(b.side))
      /\ r \in HReq /\ b.req[r] \in ReqType
  BY ReadMidFacts DEF IsConn
<1>1. y = IF request /\ h = "get" THEN evhttp_connection_done(b, o)
          ELSE IF h = "bad_length" THEN evhttp_connection_fail(x, "invalid", o)
          ELSE IF request /\ h # "chunked" /\ x.req[r].ntoread < 1
            THEN evhttp_connection_done(x, o)
          ELSE IF request /\ h = "bad_expect" THEN evhttp_send(x, r, TRUE)
          ELSE evhttp_read_body(w, o)
  BY DEF evhttp_get_body
<1>2. DOMAIN x = ConnFields /\ Frame(x, b, {"st", "req"}) /\ x.req = [b.req EXCEPT ![r] = z]
  BY <1>0, Zenon DEF IsConn, Frame, ConnFields
<1>3. x.st = "READING_BODY" /\ x.inp = b.inp /\ x.more = b.more /\ x.rd = b.rd
      /\ x.side = b.side
  BY <1>0 DEF IsConn, ConnFields
<1>4. z \in ReqType /\ SameReq(z, b.req[r])
  <2>1. n \in -1 .. 1 /\ chunked \in BOOLEAN
    OBVIOUS
  <2> HIDE DEF n, chunked, r
  <2> QED  BY <1>0, <2>1, Zenon DEF ReqType, SameReq
<1> HIDE DEF x, z
<1>5. Frame(x, b, {"rd", "inp", "st", "req", "peer", "more"})
  BY <1>2 DEF Frame
<1>6. ReadMid(x) /\ First(x) = r
  <2> HIDE DEF r
  <2>1. x.st \in Reading
    BY <1>3 DEF Reading
  <2> QED  BY <1>0, <1>2, <1>3, <1>4, <1>5, <2>1, MessageKept DEF r
<1>7. CASE request /\ h = "get"
  BY <1>1, <1>7, DoneOk
<1>8. CASE ~(request /\ h = "get") /\ h = "bad_length"
  <2>1. y = evhttp_connection_fail(x, "invalid", o)
    BY <1>1, <1>8
  <2> QED  BY <1>6, <2>1, FailOk
<1>9. CASE ~(request /\ h = "get") /\ h # "bad_length"
           /\ request /\ h # "chunked" /\ x.req[r].ntoread < 1
  <2>1. y = evhttp_connection_done(x, o)
    BY <1>1, <1>9
  <2> QED  BY <1>3, <1>6, <2>1, DoneOk
<1>10. CASE ~(request /\ h = "get") /\ h # "bad_length"
           /\ ~(request /\ h # "chunked" /\ x.req[r].ntoread < 1)
           /\ request /\ h = "bad_expect"
  <2> DEFINE close == TRUE
  <2>1. y = evhttp_send(x, First(x), close) /\ close \in BOOLEAN
    BY <1>1, <1>6, <1>10, Zenon
  <2> HIDE DEF close
  <2>2. ~Outgoing(x)
    BY <1>3, <1>10 DEF Outgoing, HeadersOf
  <2>3. InOne(x)
    BY <1>6, <2>2 DEF ReadMid, InMid
  <2> QED  BY <1>3, <2>1, <2>3, SendOk
<1>11. CASE ~(request /\ h = "get") /\ h # "bad_length"
           /\ ~(request /\ h # "chunked" /\ x.req[r].ntoread < 1)
           /\ ~(request /\ h = "bad_expect")
  <2>1. y = evhttp_read_body(w, o)
    BY <1>1, <1>11, Zenon
  <2>2. ReadMid(w)
    <3>1. CASE h = "expect" /\ b.inp = <<>>
      <4>1. ~Outgoing(x)
        BY <1>3, <3>1 DEF Outgoing, HeadersOf
      <4> QED  BY <1>6, <3>1, <4>1, SendContinueMid
    <3>2. CASE ~(h = "expect" /\ b.inp = <<>>)
      BY <1>6, <3>2
    <3> QED  BY <3>1, <3>2
  <2> HIDE DEF w
  <2> QED  BY <2>1, <2>2, ReadBodyOk
<1> QED  BY <1>7, <1>8, <1>9, <1>10, <1>11

\* An interim response: the next message is read.
LEMMA ReadAgainOk ==
  ASSUME NEW b, ReadMid(b), Outgoing(b), NEW y, y = evhttp_start_read(b)
  PROVE  ConnOk(y)
<1>0. IsConn(b)
  BY ReadMidFacts
<1>1. /\ IsConn(y)
      /\ Frame(y, b, {"wr", "wev", "rd", "st", "rcb", "wcb", "conncb", "more"})
      /\ y.st = "READING_FIRSTLINE" /\ ~y.wev /\ y.rd /\ y.rcb /\ y.wcb
      /\ y.more <=> b.more \/ b.inp # <<>>
  BY <1>0, StartReadFacts
<1>2. /\ y.q = b.q /\ y.side = b.side /\ y.alive = b.alive /\ y.req = b.req
      /\ y.byuser = b.byuser /\ y.bad = b.bad /\ y.fd = b.fd /\ y.connecting = b.connecting
      /\ y.retry = b.retry /\ y.detect = b.detect /\ y.inp = b.inp
  BY <1>1 DEF Frame, ConnFields
<1>3. ReqsOk(y) /\ First(y) = First(b)
  BY <1>2, ReqsKept DEF First, SameReq, ReadMid, OutMid
<1>4. \A r \in ToSet(b.q) : b.req[r].kind \in {"REQUEST", "RESPONSE"}
  BY ElementsInRange DEF ReadMid, OutMid, IsConn, ReqType
<1>5. KindsOk(y)
  BY <1>1, <1>2, <1>3, <1>4 DEF ReadMid, OutMid, KindsOk, Reading
<1>6. OutgoingOk(y)
  BY <1>1, <1>2, <1>5 DEF ReadMid, OutMid, OutgoingOk, Reading
<1> QED  BY <1>1, <1>2, <1>3, <1>6 DEF ReadMid, OutMid, ConnOk, Outgoing

LEMMA ReadHeaderOk ==
  ASSUME NEW b, ReadMid(b), b.rd, NEW o \in Outcome, o.connect = "begins",
         NEW y, y = evhttp_read_header(b, o)
  PROVE  ConnOk(y)
<1>0. /\ IsConn(b) /\ ~b.more /\ b.st \in Reading /\ b.inp \in Seq(PieceOf(b.side))
      /\ First(b) \in HReq /\ b.req[First(b)] \in ReqType
  BY ReadMidFacts DEF IsConn
<1>1. CASE b.inp = <<>>
  BY <1>1, StayOk DEF evhttp_read_header
<1>2. CASE b.inp # <<>> /\ Next1(b).t = "bad"
  <2>1. y = evhttp_connection_fail(b, "invalid", o)
    BY <1>2 DEF evhttp_read_header
  <2> QED  BY <2>1, FailOk
<1>3. CASE b.inp # <<>> /\ Next1(b).t # "bad"
  <2> DEFINE h == Next1(b).h
             close == b.req[First(b)].close \/ Next1(b).close
             z == [b.req[First(b)] EXCEPT !.close = close]
             x == [Eat(b) EXCEPT !.rd = FALSE, !.req[First(b)].close = @ \/ Next1(b).close]
  <2>1. y = IF h = "continue" THEN evhttp_start_read(x)
            ELSE IF h = "no_body" THEN evhttp_connection_done(x, o)
            ELSE evhttp_get_body(x, h, o)
    BY <1>3 DEF evhttp_read_header
  <2>2. Next1(b) \in PieceOf(b.side) /\ Tail(b.inp) \in Seq(PieceOf(b.side))
    BY <1>0, <1>3, PieceFacts
  <2>3. h \in HeadersOf(b.side)
    BY <2>2 DEF PieceOf, HeadersOf
  <2> HIDE DEF h
  <2>4. DOMAIN x = ConnFields /\ Frame(x, b, {"inp", "rd", "req"})
    BY <1>0, Zenon DEF IsConn, Frame, Eat
  <2>5. x.req = [b.req EXCEPT ![First(b)] = z]
    BY <1>0 DEF IsConn, ConnFields, Eat
  <2>6. ~x.rd /\ x.inp = Tail(b.inp) /\ x.st = b.st /\ x.more = b.more /\ x.side = b.side
    BY <1>0 DEF IsConn, ConnFields, Eat
  <2>7. z \in ReqType /\ SameReq(z, b.req[First(b)])
    <3>1. close \in BOOLEAN
      OBVIOUS
    <3> HIDE DEF close
    <3> QED  BY <1>0, <3>1 DEF ReqType, SameReq
  <2> HIDE DEF x, z
  <2>8. Frame(x, b, {"rd", "inp", "st", "req", "peer", "more"})
    BY <2>4 DEF Frame
  <2>9. ReadMid(x)
    BY <1>0, <2>2, <2>4, <2>5, <2>6, <2>7, <2>8, MessageKept
  <2>10. CASE h = "continue"
    <3>1. Outgoing(x)
      BY <2>3, <2>6, <2>10 DEF HeadersOf, Outgoing
    <3> QED  BY <2>1, <2>9, <2>10, <3>1, ReadAgainOk
  <2>11. CASE h = "no_body"
    BY <2>1, <2>6, <2>9, <2>11, DoneOk
  <2>12. CASE h # "continue" /\ h # "no_body"
    BY <2>1, <2>3, <2>6, <2>9, <2>12, GetBodyOk
  <2> QED  BY <2>10, <2>11, <2>12
<1> QED  BY <1>1, <1>2, <1>3

LEMMA ReadFirstlineOk ==
  ASSUME NEW b, ReadMid(b), b.rd, NEW o \in Outcome, o.connect = "begins",
         NEW y, y = evhttp_read_firstline(b, o)
  PROVE  ConnOk(y)
<1>0. IsConn(b) /\ ~b.more /\ b.st \in Reading
  BY ReadMidFacts
<1>1. CASE b.inp = <<>>
  BY <1>1, StayOk DEF evhttp_read_firstline
<1>2. CASE b.inp # <<>> /\ Next1(b).t = "bad"
  <2>1. y = evhttp_connection_fail(b, "invalid", o)
    BY <1>2 DEF evhttp_read_firstline
  <2> QED  BY <2>1, FailOk
<1>3. CASE b.inp # <<>> /\ Next1(b).t # "bad"
  <2> DEFINE x == [Eat(b) EXCEPT !.st = "READING_HEADERS"]
  <2>1. y = evhttp_read_header(x, o)
    BY <1>3 DEF evhttp_read_firstline
  <2>2. DOMAIN x = ConnFields /\ Frame(x, b, {"rd", "inp", "st", "peer", "more"})
    BY <1>0, Zenon DEF IsConn, Frame, Eat
  <2>3. x.st = "READING_HEADERS" /\ x.inp = Tail(b.inp) /\ x.rd = b.rd /\ x.more = b.more
    BY <1>0, Zenon DEF IsConn, ConnFields, Eat
  <2> HIDE DEF x
  <2>4. ReadMid(x)
    BY <1>0, <1>3, <2>2, <2>3, ReadingKept, PieceFacts DEF Reading
  <2> QED  BY <2>1, <2>3, <2>4, ReadHeaderOk, Zenon
<1> QED  BY <1>1, <1>2, <1>3

\* x is the connection b with what was in the buffer no longer due to be read.
LEMMA ReadCbOk ==
  ASSUME NEW b, IsConn(b), ReadMid([b EXCEPT !.more = FALSE]), b.rd,
         NEW o \in Outcome, o.connect = "begins", NEW y, y = evhttp_read_cb(b, o)
  PROVE  ConnOk(y)
<1> DEFINE x == [b EXCEPT !.more = FALSE]
<1>1. y = CASE b.st = "READING_FIRSTLINE" -> evhttp_read_firstline(x, o)
            [] b.st = "READING_HEADERS"   -> evhttp_read_header(x, o)
            [] b.st = "READING_BODY"      -> evhttp_read_body(x, o)
            [] b.st = "READING_TRAILER"   -> evhttp_read_trailer(x, o)
            [] b.st = "IDLE"              -> evhttp_connection_reset(x)
            [] OTHER                      -> Fault(x, "illegal_state", TRUE)
  BY DEF evhttp_read_cb
<1>2. x.st = b.st /\ x.rd = b.rd
  BY Zenon DEF IsConn, ConnFields
<1> HIDE DEF x
<1>3. ReadMid(x)
  BY DEF x
<1>4. x.st \in Reading
  BY <1>3, ReadMidFacts
<1>5. CASE b.st = "READING_FIRSTLINE"
  BY <1>1, <1>2, <1>3, <1>5, ReadFirstlineOk, Zenon
<1>6. CASE b.st = "READING_HEADERS"
  BY <1>1, <1>2, <1>3, <1>6, ReadHeaderOk, Zenon
<1>7. CASE b.st = "READING_BODY"
  BY <1>1, <1>2, <1>3, <1>7, ReadBodyOk
<1>8. CASE b.st = "READING_TRAILER"
  BY <1>1, <1>2, <1>3, <1>8, ReadTrailerOk
<1> QED  BY <1>2, <1>4, <1>5, <1>6, <1>7, <1>8 DEF Reading

-------------------------------------------------------------------------------
\* Answers are written.
\* A connection from a client without a request, inside a handler.
InNone(b) ==
  /\ IsConn(b) /\ ~Outgoing(b) /\ b.alive /\ ~b.byuser /\ b.bad = {} /\ ReqsOk(b)
  /\ b.q = <<>> /\ b.fd /\ ~b.detect /\ ~b.connecting /\ ~b.retry /\ ~b.more /\ ~b.out

\* The next request of a client, or the end without memory for one.
LEMMA AssociateOk ==
  ASSUME NEW b, InNone(b), NEW y, y = evhttp_associate_new_request_with_connection(b)
  PROVE  ConnOk(y)
<1> DEFINE new == {r \in HReq : b.req[r].life = "new"}
           r == CHOOSE x \in new : TRUE
           z == [b.req[r] EXCEPT !.life = "conn", !.userdone = TRUE]
           x == [b EXCEPT !.q = Append(@, r), !.req[r] = [@ EXCEPT !.life = "conn", !.userdone = TRUE]]
<1>1. y = IF new = {} THEN evhttp_connection_free(b) ELSE evhttp_start_read(x)
  BY DEF evhttp_associate_new_request_with_connection
<1>2. CASE new = {}
  <2>1. ToSet(b.q) = {}
    BY ElementsInRange, Zenon DEF InNone, IsConn
  <2> QED  BY <1>1, <1>2, <2>1, FreeOk DEF InNone
<1>3. CASE new # {}
  <2>1. r \in HReq /\ b.req[r].life = "new"
    BY <1>3
  <2>2. DOMAIN x = ConnFields /\ Frame(x, b, {"q", "req"}) /\ x.q = Append(b.q, r)
        /\ x.req = [b.req EXCEPT ![r] = z]
    BY Zenon DEF InNone, IsConn, Frame, ConnFields
  <2>3. y = evhttp_start_read(x)
    BY <1>1, <1>3
  <2>4. /\ z \in ReqType /\ z.life = "conn" /\ z.userdone /\ z.told = 0
    <3>1. b.req[r] \in ReqType /\ IncomingReq(b.req[r], b.byuser)
      BY <2>1, Zenon DEF InNone, IsConn, ReqsOk, ReqOk, Outgoing
    <3>2. b.req[r].told = 0
      BY <2>1, <3>1 DEF IncomingReq
    <3> HIDE DEF r
    <3> QED  BY <3>1, <3>2, Zenon DEF ReqType
  <2> HIDE DEF new, r, z, x
  <2>5. /\ x.req \in [HReq -> ReqType] /\ x.req[r] = z
        /\ \A u \in HReq : u # r => x.req[u] = b.req[u]
    BY <2>1, <2>2, <2>4 DEF InNone, IsConn
  <2>6. /\ x.side = b.side /\ x.alive = b.alive
        /\ x.byuser = b.byuser /\ x.bad = b.bad /\ x.fd = b.fd /\ x.connecting = b.connecting
        /\ x.retry = b.retry /\ x.more = b.more /\ x.detect = b.detect /\ x.out = b.out
    BY <2>2 DEF Frame, ConnFields
  <2>7. ReqOk(x.side, x.req[r], x.byuser)
    BY <2>4, <2>5, <2>6 DEF InNone, Outgoing, ReqOk, IncomingReq
  <2>8. ReqsOk(x) /\ x.q \in Seq(HReq) /\ First(x) = r /\ Len(x.q) = 1
    <3>1. Len(Append(b.q, r)) = 1
      BY <2>1 DEF InNone
    <3>2. /\ IsConn(b) /\ ReqsOk(b) /\ b.q = <<>> /\ x.q = Append(b.q, r)
          /\ x.side = b.side /\ x.byuser = b.byuser /\ x.req[r].life = "conn"
      BY <2>2, <2>4, <2>5, <2>6 DEF InNone
    <3>3. ReqsOk(x) /\ x.q \in Seq(HReq)
      BY <2>1, <2>5, <2>7, <3>2, ReqsAdded, Zenon
    <3>4. First(x) = r
      BY <2>1, <3>2 DEF First
    <3> QED  BY <2>2, <3>1, <3>3, <3>4
  <2>9. IsConn(x)
    BY <2>2, <2>5, <2>8 DEF InNone, IsConn, Frame, ConnFields
  <2>10. /\ IsConn(y)
         /\ Frame(y, x, {"wr", "wev", "rd", "st", "rcb", "wcb", "conncb", "more"})
         /\ y.st = "READING_FIRSTLINE" /\ ~y.wev /\ y.rd /\ y.rcb /\ y.wcb
         /\ y.more <=> x.more \/ x.inp # <<>>
    BY <2>3, <2>9, StartReadFacts
  <2>11. /\ y.q = x.q /\ y.side = x.side /\ y.alive = x.alive /\ y.req = x.req
         /\ y.byuser = x.byuser /\ y.bad = x.bad /\ y.fd = x.fd /\ y.connecting = x.connecting
         /\ y.retry = x.retry /\ y.detect = x.detect /\ y.inp = x.inp /\ y.out = x.out
    BY <2>10 DEF Frame, ConnFields
  <2>12. ReqsOk(y) /\ First(y) = r
    BY <2>8, <2>11, ReqsKept DEF First, SameReq
  <2>13. IncomingOk(y)
    BY <2>4, <2>5, <2>6, <2>8, <2>10, <2>11, <2>12 DEF InNone, IncomingOk, Reading
  <2> QED  BY <2>6, <2>10, <2>11, <2>12, <2>13 DEF InNone, ConnOk, Outgoing
<1> QED  BY <1>2, <1>3

\* The answer to a client has been written.
LEMMA SendDoneOk ==
  ASSUME NEW b, InOne(b), b.req[First(b)].userdone, ~b.out,
         NEW y, y = evhttp_send_done(b)
  PROVE  ConnOk(y)
<1> DEFINE f == First(b)
           tell == FALSE
           x == DropFirst(b, tell)
<1>1. /\ b.q # <<>> /\ f \in HReq /\ ToSet(b.q) = {f} /\ Tail(b.q) = <<>>
      /\ b.req[f] \in ReqType /\ b.req[f].life = "conn"
  BY OnlyFirst, Zenon DEF InOne
<1>2. y = IF b.req[f].close THEN evhttp_connection_free(x)
          ELSE evhttp_associate_new_request_with_connection(x)
  BY DEF evhttp_send_done
<1>3. /\ IsConn(x) /\ Frame(x, b, {"q", "req"}) /\ x.q = Tail(b.q)
      /\ \A r \in HReq : r # f => x.req[r] = b.req[r]
      /\ x.req[f] = Freed(b.req[f], tell)
  <2>1. tell \in BOOLEAN
    OBVIOUS
  <2> HIDE DEF tell, f
  <2> QED  BY <1>1, <2>1, DropFirstFacts DEF InOne, f
<1>4. x.req[f].life = "freed" /\ x.req[f].told <= 1 /\ x.req[f].userdone
  <2>0. ~tell
    OBVIOUS
  <2>1. tell \in BOOLEAN
    OBVIOUS
  <2> HIDE DEF tell, f
  <2>2. /\ ~tell => Freed(b.req[f], tell).told = b.req[f].told
        /\ Freed(b.req[f], tell).life = "freed"
        /\ Freed(b.req[f], tell).userdone = b.req[f].userdone
    BY <1>1, <2>1, FreedFacts
  <2>3. Freed(b.req[f], tell).told = b.req[f].told
    BY <2>0, <2>2, Zenon
  <2>4. IncomingReq(b.req[f], b.byuser)
    BY <1>1 DEF InOne, ReqsOk, ReqOk, Outgoing
  <2> QED  BY <1>3, <2>2, <2>3, <2>4 DEF IncomingReq, f
<1> HIDE DEF x, f
<1>5. /\ x.side = b.side /\ x.alive = b.alive
      /\ x.byuser = b.byuser /\ x.bad = b.bad /\ x.fd = b.fd /\ x.connecting = b.connecting
      /\ x.retry = b.retry /\ x.more = b.more /\ x.detect = b.detect /\ x.out = b.out
  BY <1>3 DEF Frame, ConnFields
<1>6. ReqsOk(x)
  <2>1. ReqOk(x.side, x.req[f], x.byuser)
    BY <1>4, <1>5 DEF InOne, Outgoing, ReqOk, IncomingReq
  <2> QED  BY <1>1, <1>3, <1>4, <1>5, <2>1, ReqsDropped, Zenon DEF InOne, f
<1>7. InNone(x)
  BY <1>1, <1>3, <1>5, <1>6 DEF InOne, InNone, Outgoing
<1>8. CASE b.req[f].close
  <2>1. ToSet(x.q) = {}
    BY <1>7, ElementsInRange, Zenon DEF InNone, IsConn
  <2> QED  BY <1>2, <1>7, <1>8, <2>1, FreeOk DEF InNone
<1>9. CASE ~b.req[f].close
  BY <1>2, <1>7, <1>9, AssociateOk
<1> QED  BY <1>8, <1>9

\* A connection to a server has written its request.
LEMMA WroteRequestOk ==
  ASSUME NEW b, OutMid(b), b.st = "WRITING", b.fd, ~b.connecting,
         b.req[First(b)].kind = "REQUEST",
         NEW y, y = evhttp_write_connectioncb(b)
  PROVE  ConnOk(y)
<1> DEFINE f == First(b)
           z == [b.req[f] EXCEPT !.kind = "RESPONSE"]
           x == [b EXCEPT !.req[f].kind = "RESPONSE"]
<1>0. f \in HReq /\ f \in ToSet(b.q) /\ b.req[f] \in ReqType
      /\ b.req[f].life = "conn" /\ b.req[f].told = 0 /\ ~b.req[f].canceled
  BY MidFirst
<1>1. y = evhttp_start_read(x)
  BY DEF evhttp_write_connectioncb, Fault, OutMid
<1>2. DOMAIN x = ConnFields /\ Frame(x, b, {"req"}) /\ x.req = [b.req EXCEPT ![f] = z]
  BY DEF OutMid, IsConn, Frame, ConnFields
<1>3. z \in ReqType /\ z.kind = "RESPONSE" /\ z.life = "conn" /\ z.told = 0 /\ ~z.canceled
  <2> HIDE DEF f
  <2> QED  BY <1>0 DEF ReqType
<1> HIDE DEF x, z, f
<1>4. /\ x.req \in [HReq -> ReqType] /\ x.req[f] = z
      /\ \A u \in HReq : u # f => x.req[u] = b.req[u]
  BY <1>0, <1>2, <1>3 DEF OutMid, IsConn
<1>5. IsConn(x)
  BY <1>2, <1>4 DEF OutMid, IsConn, Frame, ConnFields
<1>6. /\ IsConn(y)
      /\ Frame(y, x, {"wr", "wev", "rd", "st", "rcb", "wcb", "conncb", "more"})
      /\ y.st = "READING_FIRSTLINE" /\ ~y.wev /\ y.rd /\ y.rcb /\ y.wcb
      /\ y.more <=> x.more \/ x.inp # <<>>
  BY <1>1, <1>5, StartReadFacts
<1>7. /\ y.q = b.q /\ y.side = b.side /\ y.alive = b.alive /\ y.req = x.req
      /\ y.byuser = b.byuser /\ y.bad = b.bad /\ y.fd = b.fd /\ y.connecting = b.connecting
      /\ y.retry = b.retry /\ y.detect = b.detect /\ y.inp = x.inp
  <2>1. /\ x.q = b.q /\ x.side = b.side /\ x.alive = b.alive
        /\ x.byuser = b.byuser /\ x.bad = b.bad /\ x.fd = b.fd /\ x.connecting = b.connecting
        /\ x.retry = b.retry /\ x.detect = b.detect
    BY <1>2, Zenon DEF Frame, ConnFields
  <2>2. /\ y.q = x.q /\ y.side = x.side /\ y.alive = x.alive /\ y.req = x.req
        /\ y.byuser = x.byuser /\ y.bad = x.bad /\ y.fd = x.fd /\ y.connecting = x.connecting
        /\ y.retry = x.retry /\ y.detect = x.detect /\ y.inp = x.inp
    BY <1>6 DEF Frame, ConnFields
  <2> QED  BY <2>1, <2>2
<1>8. ToSet(b.q) \subseteq HReq
  BY ElementsInRange DEF OutMid, IsConn
<1>9. ReqsOk(y)
  <2>1. ReqOk(y.side, y.req[f], y.byuser)
    BY <1>3, <1>4, <1>7 DEF OutMid, Outgoing, ReqOk, OutgoingReq
  <2>2. \A u \in HReq : ReqOk(y.side, y.req[u], y.byuser)
    BY <1>4, <1>7, <2>1 DEF OutMid, ReqsOk
  <2>3. \A u \in HReq : u \in ToSet(y.q) <=> y.req[u].life = "conn"
    BY <1>0, <1>3, <1>4, <1>7 DEF OutMid, ReqsOk
  <2> QED  BY <1>7, <2>2, <2>3 DEF OutMid, ReqsOk
<1>10. First(y) = f
  BY <1>7 DEF First, f
<1>11. KindsOk(y)
  BY <1>3, <1>4, <1>6, <1>7, <1>8, <1>10 DEF OutMid, KindsOk, Reading, f
<1>12. OutgoingOk(y)
  BY <1>6, <1>7, <1>11 DEF OutMid, OutgoingOk, Reading
<1> QED  BY <1>6, <1>7, <1>9, <1>12 DEF OutMid, ConnOk, Outgoing

-------------------------------------------------------------------------------
\* From a state of the connection to a handler.
LEMMA StateOut ==
  ASSUME NEW b, ConnOk(b), b.alive, Outgoing(b), b.q # <<>>, ~b.retry, ~b.more,
         NEW y, IsConn(y), Frame(y, b, {"rd", "wr", "wev", "connecting", "inp", "peer", "out"})
  PROVE  /\ OutMid(y) /\ First(y) = First(b) /\ y.st = b.st /\ y.fd = b.fd
         /\ y.req = b.req /\ y.conncb = b.conncb
         /\ y.st \notin Reading => y.req[First(y)].kind = "REQUEST"
<1>1. /\ y.q = b.q /\ y.side = b.side /\ y.alive = b.alive /\ y.req = b.req
      /\ y.byuser = b.byuser /\ y.bad = b.bad /\ y.retry = b.retry /\ y.detect = b.detect
      /\ y.more = b.more /\ y.st = b.st /\ y.fd = b.fd /\ y.conncb = b.conncb
  BY Zenon DEF Frame, ConnFields
<1>2. OutgoingOk(b) /\ IsConn(b) /\ ReqsOk(b)
  BY DEF ConnOk
<1>3. ReqsOk(y) /\ First(y) = First(b)
  BY <1>1, <1>2, ReqsKept DEF SameReq, First
<1>4. ToSet(b.q) \subseteq HReq
  BY <1>2, ElementsInRange DEF IsConn
<1>5. \A r \in ToSet(b.q) : r # First(b) => b.req[r].kind = "REQUEST"
  BY <1>2, <1>4 DEF OutgoingOk, KindsOk, IsConn, ReqType
<1>6. ~b.detect
  BY <1>2 DEF OutgoingOk
<1>7. First(b) \in ToSet(b.q)
  BY <1>2, TailFacts DEF IsConn, First
<1>8. b.st \notin Reading => b.req[First(b)].kind = "REQUEST"
  BY <1>2, <1>4, <1>7, Zenon DEF OutgoingOk, KindsOk, IsConn, ReqType
<1> QED  BY <1>1, <1>3, <1>5, <1>6, <1>8 DEF OutMid, Outgoing, ConnOk

LEMMA StateRead ==
  ASSUME NEW b, ConnOk(b), b.alive, b.rd, b.st # "IDLE",
         NEW y, IsConn(y), Frame(y, b, {"rd", "inp", "peer", "more"}), ~y.more
  PROVE  ReadMid(y) /\ First(y) = First(b) /\ y.st = b.st
<1>1. /\ y.q = b.q /\ y.side = b.side /\ y.alive = b.alive /\ y.req = b.req
      /\ y.byuser = b.byuser /\ y.bad = b.bad /\ y.retry = b.retry /\ y.detect = b.detect
      /\ y.st = b.st /\ y.fd = b.fd /\ y.rcb = b.rcb /\ y.wev = b.wev /\ y.out = b.out
      /\ y.cb = b.cb /\ y.wcb = b.wcb /\ y.connecting = b.connecting
  BY Zenon DEF Frame, ConnFields
<1>2. IsConn(b) /\ ReqsOk(b)
  BY DEF ConnOk
<1>3. ReqsOk(y) /\ First(y) = First(b)
  BY <1>1, <1>2, ReqsKept DEF SameReq, First
<1>4. CASE Outgoing(b)
  <2>1. OutgoingOk(b)
    BY <1>4 DEF ConnOk
  <2>2. b.st \in Reading /\ b.q # <<>> /\ ~b.detect /\ ~b.retry /\ ~b.wev /\ ~b.connecting
        /\ b.fd /\ b.rcb
    BY <2>1 DEF OutgoingOk, Reading
  <2>3. ToSet(b.q) \subseteq HReq /\ First(b) \in ToSet(b.q)
    BY <1>2, <2>2, ElementsInRange, TailFacts DEF IsConn, First
  <2>4. /\ \A r \in ToSet(b.q) : r # First(b) => b.req[r].kind = "REQUEST"
        /\ b.req[First(b)].kind = "RESPONSE"
    BY <1>2, <2>1, <2>2, <2>3 DEF OutgoingOk, KindsOk, IsConn, ReqType
  <2> QED  BY <1>1, <1>3, <1>4, <2>2, <2>4 DEF ReadMid, OutMid, Outgoing, ConnOk
<1>5. CASE ~Outgoing(b)
  <2>1. IncomingOk(b)
    BY <1>5 DEF ConnOk
  <2> QED  BY <1>1, <1>3, <1>5, <2>1 DEF ReadMid, InMid, InOne, Outgoing, ConnOk, IncomingOk
<1> QED  BY <1>1, <1>3, <1>4, <1>5

\* Reading takes place while there is something to read.
LEMMA ErrorCbMid ==
  ASSUME NEW b, ReadMid(b), ~b.rd, NEW what \in {"eof", "error", "timeout"},
         NEW o \in Outcome, o.connect = "begins", NEW y, y = evhttp_error_cb(b, what, o)
  PROVE  ConnOk(y)
<1>1. b.st # "CONNECTING" /\ ~b.detect
  BY ReadMidFacts DEF Reading, ReadMid, OutMid, InMid, InOne
<1>2. y = evhttp_connection_done(b, o) \/ y = evhttp_connection_fail(b, "network", o)
  BY <1>1 DEF evhttp_error_cb
<1> QED  BY <1>2, DoneOk, FailOk

\* A connection attempt failed or took too long.
LEMMA CleanupOk ==
  ASSUME NEW b, OutMid(b), b.st = "CONNECTING", ~b.rd, b.wev <=> b.connecting,
         b.connecting => b.conncb /\ b.fd, b.req[First(b)].kind = "REQUEST",
         NEW y, y = evhttp_connection_cb_cleanup(b)
  PROVE  ConnOk(y)
<1> DEFINE x == evhttp_connection_reset(b)
           Turn(r) == CHOOSE i \in DOMAIN b.q : b.q[i] = r
           Over(r) == [b.req[r] EXCEPT !.life = "ended", !.turn = Turn(r)]
           g == [r \in HReq |-> IF r \in Range(b.q) THEN Over(r) ELSE b.req[r]]
<1>0. IsConn(b) /\ ReqsOk(b) /\ b.cnt + 1 \in Nat
  BY DEF OutMid, IsConn
<1>1. Range(b.q) = ToSet(b.q) /\ ToSet(b.q) \subseteq HReq
  BY <1>0, RangeOfQ
<1>2. CASE b.cnt < MaxRetries
  <2>1. y = [b EXCEPT !.retry = TRUE, !.cnt = @ + 1]
    BY <1>2 DEF evhttp_connection_cb_cleanup, Fault, OutMid
  <2>2. Frame(y, b, {"retry", "cnt"}) /\ y.retry /\ y.cnt = b.cnt + 1
    BY <1>0, <2>1, Zenon DEF IsConn, Frame, ConnFields
  <2>3. IsConn(y)
    BY <1>0, <2>2 DEF IsConn, Frame, ConnFields
  <2>4. /\ y.q = b.q /\ y.side = b.side /\ y.alive = b.alive /\ y.req = b.req
        /\ y.byuser = b.byuser /\ y.bad = b.bad /\ y.detect = b.detect /\ y.st = b.st
        /\ y.wev = b.wev /\ y.connecting = b.connecting /\ y.rd = b.rd /\ y.more = b.more
        /\ y.conncb = b.conncb /\ y.fd = b.fd
    BY <2>2 DEF Frame, ConnFields
  <2>5. ReqsOk(y)
    BY <1>0, <2>4, ReqsKept DEF SameReq
  <2>6. KindsOk(y)
    BY <2>4 DEF OutMid, KindsOk, Reading
  <2>7. OutgoingOk(y)
    BY <2>2, <2>4, <2>6 DEF OutMid, OutgoingOk, Reading
  <2> QED  BY <2>3, <2>4, <2>5, <2>7 DEF OutMid, ConnOk, Outgoing
<1>3. CASE ~(b.cnt < MaxRetries)
  <2>1. /\ IsConn(x)
        /\ Frame(x, b, {"rd", "wr", "connecting", "wev", "fd", "out", "inp", "peer", "st"})
        /\ x.st = "DISCONNECTED" /\ ~x.wev /\ ~x.rd /\ ~x.connecting
    BY <1>0, ResetFacts
  <2>2. x.req = b.req
    BY <2>1 DEF Frame, ConnFields
  <2>3. y = [x EXCEPT !.q = <<>>,
                      !.req = [r \in HReq |-> IF r \in Range(b.q) THEN Over(r) ELSE @[r]]]
    BY <1>3 DEF evhttp_connection_cb_cleanup
  <2> HIDE DEF x
  <2>4. Frame(y, x, {"q", "req"}) /\ y.q = <<>> /\ y.req = g
    <3>1. Frame(y, x, {"q", "req"})
      BY <2>1, <2>3, Zenon DEF IsConn, Frame
    <3>2. y.q = <<>>
      BY <2>1, <2>3 DEF IsConn, ConnFields
    <3>3. y.req = g
      BY <2>1, <2>2, <2>3 DEF IsConn, ConnFields
    <3> QED  BY <3>1, <3>2, <3>3
  <2>5. ASSUME NEW r \in ToSet(b.q)
        PROVE  /\ Over(r) \in ReqType /\ Over(r).life = "ended" /\ Over(r).told = 0
               /\ ~Over(r).canceled
    <3>1. b.req[r] \in ReqType /\ b.req[r].told = 0 /\ ~b.req[r].canceled
      BY <1>0, <1>1 DEF OutMid, Outgoing, IsConn, ReqsOk, ReqOk, OutgoingReq
    <3>2. Turn(r) \in Nat
      <4>1. \E i \in DOMAIN b.q : b.q[i] = r
        BY <1>0, <1>1 DEF Range
      <4>2. Turn(r) \in DOMAIN b.q
        BY <4>1
      <4> QED  BY <1>0, <4>2 DEF IsConn
    <3> HIDE DEF Turn
    <3> QED  BY <3>1, <3>2, Zenon DEF ReqType
  <2> HIDE DEF Over
  <2>6. /\ g \in [HReq -> ReqType]
        /\ \A r \in HReq : r \notin ToSet(b.q) => g[r] = b.req[r]
        /\ \A r \in ToSet(b.q) : g[r] = Over(r)
    BY <1>0, <1>1, <2>5 DEF IsConn
  <2> HIDE DEF g
  <2>7. IsConn(y)
    <3>1. y.q \in Seq(HReq)
      BY <2>4
    <3> QED  BY <2>1, <2>4, <2>6, <3>1, Zenon DEF IsConn, Frame, ConnFields
  <2>8. /\ y.side = b.side /\ y.alive = b.alive /\ y.byuser = b.byuser /\ y.bad = b.bad
        /\ y.detect = b.detect /\ y.retry = b.retry /\ y.more = b.more
        /\ y.st = "DISCONNECTED" /\ ~y.wev /\ ~y.rd /\ ~y.connecting
    <3>1. /\ x.side = b.side /\ x.alive = b.alive /\ x.byuser = b.byuser /\ x.bad = b.bad
          /\ x.detect = b.detect /\ x.retry = b.retry /\ x.more = b.more
      BY <2>1 DEF Frame, ConnFields
    <3> QED  BY <2>1, <2>4, <3>1 DEF Frame, ConnFields
  <2>9. \A r \in ToSet(b.q) : y.req[r].life # "conn" /\ ReqOk(y.side, y.req[r], y.byuser)
    BY <2>4, <2>5, <2>6, <2>8 DEF OutMid, Outgoing, ReqOk, OutgoingReq
  <2>10. ReqsOk(y)
    <3>1. \A r \in HReq : r \notin ToSet(b.q) => y.req[r] = b.req[r]
      BY <2>4, <2>6
    <3> QED  BY <1>0, <2>4, <2>8, <2>9, <3>1, ReqsCleared, Zenon
  <2>11. ToSet(y.q) = {}
    BY <2>4, <2>7, ElementsInRange, Zenon DEF IsConn
  <2>12. OutReady(y)
    BY <2>7, <2>8, <2>10, <2>11 DEF OutMid, OutReady, Outgoing
  <2> QED  BY <2>4, <2>8, <2>12, OffOk DEF OutMid
<1> QED  BY <1>2, <1>3

-------------------------------------------------------------------------------
\* The steps of the loop.
LEMMA UsualOutcome ==
  ASSUME HFaults = {}, NEW o \in Outcome
  PROVE  o.connect = "begins"
BY DEF Outcome

LEMMA NextPiece ==
  ASSUME NEW b, b.side \in {"outgoing", "incoming"}, NEW q \in Piece(b)
  PROVE  q \in PieceOf(b.side)
BY Zenon DEF Piece, Plain, Headers, PieceOf, Outgoing

LEMMA ReadArrived ==
  ASSUME HttpInv, s.alive, s.rd, ~s.more, s.st # "IDLE",
         NEW b, IsConn(b), Frame(b, s, {"inp", "peer"}),
         NEW o \in Outcome, o.connect = "begins"
  PROVE  s.rcb /\ ConnOk(evhttp_read_cb(b, o))
<1>1. s.rcb
  BY DEF HttpInv, ConnOk, OutgoingOk, IncomingOk
<1> DEFINE x == [b EXCEPT !.more = FALSE]
<1>2. DOMAIN x = ConnFields /\ Frame(x, b, {"more"}) /\ ~x.more
  BY DEF IsConn, Frame, ConnFields
<1> HIDE DEF x
<1>3. IsConn(x)
  BY <1>2 DEF IsConn, Frame, ConnFields
<1>4. Frame(x, s, {"rd", "inp", "peer", "more"})
  BY <1>2 DEF Frame
<1>5. ReadMid(x)
  BY <1>2, <1>3, <1>4, StateRead DEF HttpInv
<1>6. b.rd
  BY DEF Frame, ConnFields
<1> QED  BY <1>1, <1>5, <1>6, ReadCbOk DEF x

\* The callbacks of the loop: data arrives.
LEMMA ReadDataOk ==
  ASSUME HttpInv, HMay = {}, NEW q \in Piece(s), NEW o \in Outcome, o.connect = "begins",
         ReadData(q, o)
  PROVE  HttpInv'
<1> DEFINE b == [s EXCEPT !.inp = Append(@, q), !.peer = PeerAfter(s, q)]
<1>1. s.alive /\ s.rd /\ ~s.more /\ s.st # "IDLE" /\ IsConn(s)
      /\ s' = IF s.rcb THEN evhttp_read_cb(b, o) ELSE b
  BY DEF ReadData, Ready, HttpInv, ConnOk
<1>2. q \in PieceOf(s.side)
  BY <1>1, NextPiece DEF IsConn
<1>3. Append(s.inp, q) \in Seq(PieceOf(s.side))
  BY <1>1, <1>2, AppendElements DEF IsConn
<1>4. Frame(b, s, {"inp", "peer"}) /\ b.inp = Append(s.inp, q)
  BY <1>1, Zenon DEF IsConn, Frame, ConnFields
<1> HIDE DEF b
<1>5. IsConn(b)
  BY <1>1, <1>3, <1>4 DEF IsConn, Frame, ConnFields
<1>6. s.rcb /\ ConnOk(evhttp_read_cb(b, o))
  BY <1>1, <1>4, <1>5, ReadArrived
<1> QED  BY <1>1, <1>6 DEF HttpInv

LEMMA ReadTwoOk ==
  ASSUME HttpInv, HMay = {}, NEW q \in Piece(s),
         NEW q2 \in Piece([s EXCEPT !.peer = PeerAfter(s, q)]),
         NEW o \in Outcome, o.connect = "begins", ReadTwo(q, q2, o)
  PROVE  HttpInv'
<1> DEFINE x == [s EXCEPT !.inp = Append(@, q), !.peer = PeerAfter(s, q)]
           b == [x EXCEPT !.inp = Append(@, q2), !.peer = PeerAfter(x, q2)]
<1>1. s.alive /\ s.rd /\ ~s.more /\ s.st # "IDLE" /\ IsConn(s) /\ q2 \in Piece(x)
      /\ s' = IF s.rcb THEN evhttp_read_cb(b, o) ELSE b
  BY DEF ReadTwo, Ready, HttpInv, ConnOk
<1>2. q \in PieceOf(s.side)
  BY <1>1, NextPiece DEF IsConn
<1>3. Frame(x, s, {"inp", "peer"}) /\ x.inp = Append(s.inp, q) /\ x.side = s.side
  BY <1>1, Zenon DEF IsConn, Frame, ConnFields
<1>4. Frame(b, x, {"inp", "peer"}) /\ b.inp = Append(x.inp, q2)
  BY <1>3, Zenon DEF Frame, ConnFields
<1> HIDE DEF b, x
<1>5. q2 \in PieceOf(s.side)
  BY <1>1, <1>3, NextPiece DEF IsConn
<1>6. Append(s.inp, q) \in Seq(PieceOf(s.side))
  BY <1>1, <1>2, AppendElements DEF IsConn
<1>7. b.inp \in Seq(PieceOf(s.side))
  BY <1>3, <1>4, <1>5, <1>6, AppendElements
<1>8. Frame(b, s, {"inp", "peer"})
  BY <1>3, <1>4 DEF Frame
<1>9. IsConn(b)
  BY <1>1, <1>7, <1>8, Zenon DEF IsConn, Frame, ConnFields
<1>10. s.rcb /\ ConnOk(evhttp_read_cb(b, o))
  BY <1>1, <1>8, <1>9, ReadArrived
<1> QED  BY <1>1, <1>10 DEF HttpInv

\* The deferred read.
LEMMA DeferredReadOk ==
  ASSUME HttpInv, NEW o \in Outcome, o.connect = "begins", evhttp_deferred_read_cb(o)
  PROVE  HttpInv'
<1> DEFINE x == [s EXCEPT !.more = FALSE]
<1>1. s.alive /\ s.more /\ IsConn(s) /\ s' = evhttp_read_cb(s, o)
  BY DEF evhttp_deferred_read_cb, HttpInv, ConnOk
<1>2. s.rd /\ s.st # "IDLE"
  BY <1>1 DEF HttpInv, ConnOk, OutgoingOk, IncomingOk, Reading
<1>3. DOMAIN x = ConnFields /\ Frame(x, s, {"more"}) /\ ~x.more
  BY <1>1 DEF IsConn, Frame, ConnFields
<1> HIDE DEF x
<1>4. IsConn(x)
  BY <1>1, <1>3 DEF IsConn, Frame, ConnFields
<1>5. Frame(x, s, {"rd", "inp", "peer", "more"})
  BY <1>3 DEF Frame
<1>6. ReadMid(x)
  BY <1>1, <1>2, <1>3, <1>4, <1>5, StateRead DEF HttpInv
<1> QED  BY <1>1, <1>2, <1>6, ReadCbOk DEF x, HttpInv

\* Without an attempt to connect, either callback for errors does the same.
LEMMA EventIsError ==
  ASSUME NEW b, NEW what, what \notin {"connected", "refused"}, NEW o
  PROVE  EventCb(b, what, o) = evhttp_error_cb(b, what, o)
BY DEF EventCb, evhttp_connection_cb

\* Reading ends, fails or takes too long.
LEMMA ReadEndsOk ==
  ASSUME HttpInv, NEW what \in {"eof", "error", "timeout"},
         NEW o \in Outcome, o.connect = "begins", ReadEnds(what, o)
  PROVE  HttpInv'
<1> DEFINE b == [s EXCEPT !.rd = FALSE]
<1>1. s.alive /\ s.rd /\ ~s.more /\ IsConn(s) /\ s' = EventCb(b, what, o)
  BY DEF ReadEnds, HttpInv, ConnOk
<1>2. s' = evhttp_error_cb(b, what, o)
  BY <1>1, EventIsError
<1>3. DOMAIN b = ConnFields /\ Frame(b, s, {"rd"}) /\ ~b.rd
  BY <1>1 DEF IsConn, Frame, ConnFields
<1> HIDE DEF b
<1>4. IsConn(b)
  BY <1>1, <1>3 DEF IsConn, Frame, ConnFields
<1>5. /\ b.q = s.q /\ b.side = s.side /\ b.alive = s.alive /\ b.req = s.req
      /\ b.byuser = s.byuser /\ b.bad = s.bad /\ b.retry = s.retry /\ b.detect = s.detect
      /\ b.st = s.st /\ b.more = s.more
  BY <1>3 DEF Frame, ConnFields
<1>6. CASE s.st # "IDLE"
  <2>1. Frame(b, s, {"rd", "inp", "peer", "more"})
    BY <1>3 DEF Frame
  <2>2. ReadMid(b)
    BY <1>1, <1>4, <1>5, <1>6, <2>1, StateRead DEF HttpInv
  <2> QED  BY <1>2, <1>3, <2>2, ErrorCbMid DEF HttpInv
<1>7. CASE s.st = "IDLE"
  <2> DEFINE x == [b EXCEPT !.detect = FALSE]
             y == evhttp_connection_reset(x)
  <2>1. Outgoing(s) /\ s.detect /\ s.q = <<>> /\ ~s.retry
    BY <1>1, <1>7 DEF HttpInv, ConnOk, OutgoingOk, IncomingOk, Reading
  <2>2. s' = y
    BY <1>2, <1>5, <1>7, <2>1 DEF evhttp_error_cb, Fault
  <2>3. DOMAIN x = ConnFields /\ Frame(x, b, {"detect"}) /\ ~x.detect
    BY <1>4 DEF IsConn, Frame, ConnFields
  <2> HIDE DEF x
  <2>4. IsConn(x)
    BY <1>4, <2>3 DEF IsConn, Frame, ConnFields
  <2>5. /\ IsConn(y)
        /\ Frame(y, x, {"rd", "wr", "connecting", "wev", "fd", "out", "inp", "peer", "st"})
        /\ y.st = "DISCONNECTED" /\ ~y.wev /\ ~y.rd /\ ~y.connecting
    BY <2>4, ResetFacts
  <2> HIDE DEF y
  <2>6. /\ x.q = s.q /\ x.side = s.side /\ x.alive = s.alive /\ x.req = s.req
        /\ x.byuser = s.byuser /\ x.bad = s.bad /\ x.retry = s.retry /\ x.more = s.more
    BY <1>5, <2>3 DEF Frame, ConnFields
  <2>7. /\ y.q = x.q /\ y.side = x.side /\ y.alive = x.alive /\ y.req = x.req
        /\ y.byuser = x.byuser /\ y.bad = x.bad /\ y.retry = x.retry /\ y.more = x.more
        /\ ~y.detect
    BY <2>3, <2>5 DEF Frame, ConnFields
  <2>8. ReqsOk(y)
    BY <2>6, <2>7, ReqsKept DEF HttpInv, ConnOk, SameReq
  <2>9. y.q = <<>> /\ ToSet(y.q) = {}
    <3>1. y.q = <<>> /\ y.q \in Seq(HReq)
      BY <2>1, <2>5, <2>6, <2>7 DEF IsConn
    <3> QED  BY <3>1, ElementsInRange, Zenon
  <2>10. OutReady(y)
    BY <1>1, <2>1, <2>5, <2>6, <2>7, <2>8, <2>9 DEF OutReady, Outgoing, HttpInv, ConnOk
  <2> QED  BY <2>2, <2>5, <2>7, <2>9, <2>10, OffOk DEF HttpInv
<1> QED  BY <1>6, <1>7

\* A connection from a client whose request has been read.
LEMMA StateIn ==
  ASSUME NEW b, ConnOk(b), b.alive, ~Outgoing(b), ~b.more,
         NEW y, IsConn(y), Frame(y, b, {"rd", "wr", "wev", "out", "cb", "rcb", "wcb", "conncb"})
  PROVE  /\ InOne(y) /\ First(y) = First(b) /\ y.req = b.req /\ y.st = b.st
         /\ b.q # <<>> /\ First(b) \in HReq
<1>1. /\ y.q = b.q /\ y.side = b.side /\ y.alive = b.alive /\ y.req = b.req
      /\ y.byuser = b.byuser /\ y.bad = b.bad /\ y.retry = b.retry /\ y.detect = b.detect
      /\ y.st = b.st /\ y.fd = b.fd /\ y.connecting = b.connecting /\ y.more = b.more
  BY Zenon DEF Frame, ConnFields
<1>2. IsConn(b) /\ ReqsOk(b) /\ IncomingOk(b)
  BY DEF ConnOk
<1>3. ReqsOk(y) /\ First(y) = First(b)
  BY <1>1, <1>2, ReqsKept DEF SameReq, First
<1>4. Len(b.q) = 1
  BY <1>2 DEF IncomingOk
<1>5. b.q # <<>> /\ First(b) \in HReq
  BY <1>2, <1>4, OnlyFirst
<1> QED  BY <1>1, <1>2, <1>3, <1>5 DEF InOne, Outgoing, ConnOk, IncomingOk

\* Only the events of a connection from a client change.
LEMMA EventsOk ==
  ASSUME NEW b, InOne(b), ~b.rd, ~b.wev, ~b.out, ~b.req[First(b)].userdone
  PROVE  ConnOk(b)
BY DEF InOne, ConnOk, IncomingOk

\* The output has been written.
LEMMA WrittenOk ==
  ASSUME HttpInv, Written
  PROVE  HttpInv'
<1> DEFINE b == [s EXCEPT !.out = FALSE, !.wev = FALSE]
<1>1. s.alive /\ s.wev /\ s.fd /\ ~s.connecting /\ IsConn(s)
      /\ s' = IF s.wcb THEN evhttp_write_cb(b) ELSE b
  BY DEF Written, HttpInv, ConnOk
<1>2. DOMAIN b = ConnFields /\ Frame(b, s, {"out", "wev"}) /\ ~b.out /\ ~b.wev
  BY <1>1, Zenon DEF IsConn, Frame, ConnFields
<1> HIDE DEF b
<1>3. IsConn(b)
  BY <1>1, <1>2 DEF IsConn, Frame, ConnFields
<1>4. /\ b.cb = s.cb /\ b.st = s.st /\ b.connecting = s.connecting /\ b.fd = s.fd
      /\ b.rd = s.rd /\ b.req = s.req /\ b.q = s.q /\ b.more = s.more /\ b.side = s.side
  BY <1>2 DEF Frame, ConnFields
<1>5. CASE Outgoing(s)
  <2>1. /\ s.st = "WRITING" /\ s.cb = "connection" /\ s.wcb /\ s.q # <<>> /\ ~s.retry /\ ~s.more
    BY <1>1, <1>5 DEF HttpInv, ConnOk, OutgoingOk
  <2>2. s' = evhttp_write_connectioncb(b)
    BY <1>1, <1>4, <2>1 DEF evhttp_write_cb
  <2>3. Frame(b, s, {"rd", "wr", "wev", "connecting", "inp", "peer", "out"})
    BY <1>2 DEF Frame
  <2>4. OutMid(b) /\ b.req[First(b)].kind = "REQUEST"
    BY <1>1, <1>3, <1>4, <1>5, <2>1, <2>3, StateOut DEF HttpInv, Reading
  <2> QED  BY <1>1, <1>4, <2>1, <2>2, <2>4, WroteRequestOk, Zenon DEF HttpInv
<1>6. CASE ~Outgoing(s)
  <2>1. /\ IncomingOk(s) /\ s.wcb /\ s.cb # "connection" /\ ~s.more
    BY <1>1, <1>6 DEF HttpInv, ConnOk, IncomingOk
  <2>2. s' = evhttp_write_cb(b)
    BY <1>1, <2>1
  <2>3. Frame(b, s, {"rd", "wr", "wev", "out", "cb", "rcb", "wcb", "conncb"})
    BY <1>2 DEF Frame
  <2>4. InOne(b) /\ First(b) = First(s)
    BY <1>1, <1>3, <1>6, <2>1, <2>3, StateIn DEF HttpInv
  <2>5. CASE s.cb = "send_done"
    <3>1. s.req[First(s)].userdone
      BY <1>1, <2>1, <2>5 DEF IncomingOk
    <3>2. s' = evhttp_send_done(b)
      BY <1>4, <2>2, <2>5 DEF evhttp_write_cb
    <3> QED  BY <1>2, <1>4, <2>4, <3>1, <3>2, SendDoneOk DEF HttpInv
  <2>6. CASE s.cb = "continue_done"
    <3> DEFINE y == [b EXCEPT !.wr = FALSE, !.wev = FALSE]
    <3>1. s' = y
      BY <1>4, <2>2, <2>6 DEF evhttp_write_cb
    <3>2. DOMAIN y = ConnFields /\ Frame(y, b, {"wr", "wev"}) /\ ~y.wev
      BY <1>3, Zenon DEF IsConn, Frame, ConnFields
    <3> HIDE DEF y
    <3>3. IsConn(y)
      BY <1>3, <3>2 DEF IsConn, Frame, ConnFields
    <3>4. Frame(y, s, {"rd", "wr", "wev", "out", "cb", "rcb", "wcb", "conncb"})
      BY <2>3, <3>2 DEF Frame
    <3>5. InOne(y) /\ First(y) = First(s) /\ y.req = s.req /\ y.st = s.st
      BY <1>1, <1>6, <2>1, <3>3, <3>4, StateIn DEF HttpInv
    <3>6. y.rd = s.rd /\ ~y.out /\ y.rcb = s.rcb /\ y.inp = s.inp
      BY <1>2, <3>2 DEF Frame, ConnFields
    <3>7. IncomingOk(y)
      BY <1>1, <2>1, <2>6, <3>2, <3>5, <3>6 DEF IncomingOk, InOne
    <3> QED  BY <3>1, <3>5, <3>7 DEF HttpInv, ConnOk, InOne
  <2>7. CASE s.cb = "none"
    <3>1. s' = b
      BY <1>4, <2>2, <2>7 DEF evhttp_write_cb
    <3>2. ~s.rd /\ ~s.req[First(s)].userdone
      BY <1>1, <2>1, <2>7 DEF IncomingOk
    <3> QED  BY <1>2, <1>4, <2>4, <3>1, <3>2, EventsOk DEF HttpInv
  <2>8. s.cb \in {"none", "send_done", "continue_done"}
    BY <1>1, <2>1 DEF IsConn
  <2> QED  BY <2>5, <2>6, <2>7, <2>8
<1> QED  BY <1>5, <1>6

\* Writing fails or takes too long.
LEMMA WriteEndsOk ==
  ASSUME HttpInv, NEW what \in {"error", "timeout"},
         NEW o \in Outcome, o.connect = "begins", WriteEnds(what, o)
  PROVE  HttpInv'
<1> DEFINE b == [s EXCEPT !.wr = FALSE, !.wev = FALSE]
<1>1. s.alive /\ s.wev /\ s.fd /\ ~s.connecting /\ IsConn(s) /\ s' = EventCb(b, what, o)
  BY DEF WriteEnds, HttpInv, ConnOk
<1>2. s' = evhttp_error_cb(b, what, o)
  BY <1>1, EventIsError
<1>3. DOMAIN b = ConnFields /\ Frame(b, s, {"wr", "wev"}) /\ ~b.wev
  BY <1>1, Zenon DEF IsConn, Frame, ConnFields
<1> HIDE DEF b
<1>4. IsConn(b)
  BY <1>1, <1>3 DEF IsConn, Frame, ConnFields
<1>5. CASE Outgoing(s)
  <2>1. /\ s.st = "WRITING" /\ s.q # <<>> /\ ~s.retry /\ ~s.more
    BY <1>1, <1>5 DEF HttpInv, ConnOk, OutgoingOk
  <2>2. Frame(b, s, {"rd", "wr", "wev", "connecting", "inp", "peer", "out"})
    BY <1>3 DEF Frame
  <2>3. OutMid(b) /\ b.st = "WRITING"
    BY <1>1, <1>4, <1>5, <2>1, <2>2, StateOut DEF HttpInv
  <2>4. s' = evhttp_connection_fail(b, "network", o)
    BY <1>2, <2>3 DEF evhttp_error_cb, OutMid
  <2> QED  BY <2>3, <2>4, OutFailOk DEF HttpInv
<1>6. CASE ~Outgoing(s)
  <2>1. ~s.more
    BY <1>1, <1>6 DEF HttpInv, ConnOk, IncomingOk
  <2>2. Frame(b, s, {"rd", "wr", "wev", "out", "cb", "rcb", "wcb", "conncb"})
    BY <1>3 DEF Frame
  <2>3. InOne(b)
    BY <1>1, <1>4, <1>6, <2>1, <2>2, StateIn DEF HttpInv
  <2>4. s' = evhttp_connection_fail(b, "network", o)
    BY <1>2, <2>3 DEF evhttp_error_cb, InOne, Reading
  <2> QED  BY <2>3, <2>4, InFailOk DEF HttpInv
<1> QED  BY <1>5, <1>6

\* An attempt to connect is under way.
LEMMA StateConnecting ==
  ASSUME HttpInv, s.alive, s.wev, s.connecting,
  ~s.retry,
         NEW b, IsConn(b), Frame(b, s, {"wr", "wev", "connecting"})
  PROVE  /\ OutMid(b) /\ b.st = "CONNECTING" /\ b.conncb /\ b.fd /\ ~b.rd
         /\ b.req[First(b)].kind = "REQUEST" /\ ~b.detect /\ ~b.more
<1>1. Outgoing(s)
  BY DEF HttpInv, ConnOk, IncomingOk
<1>2. s.st = "CONNECTING" /\ s.conncb /\ s.fd /\ ~s.rd /\ s.q # <<>> /\ ~s.detect /\ ~s.more
  BY <1>1 DEF HttpInv, ConnOk, OutgoingOk, Reading
<1>3. Frame(b, s, {"rd", "wr", "wev", "connecting", "inp", "peer", "out"})
  BY DEF Frame
<1>4. /\ OutMid(b) /\ First(b) = First(s) /\ b.st = s.st /\ b.fd = s.fd /\ b.conncb = s.conncb
      /\ b.st \notin Reading => b.req[First(b)].kind = "REQUEST"
  BY <1>1, <1>2, <1>3, StateOut, Zenon DEF HttpInv
<1>5. b.rd = s.rd /\ b.detect = s.detect /\ b.more = s.more
  BY DEF Frame, ConnFields
<1> QED  BY <1>2, <1>4, <1>5 DEF Reading

\* An attempt to connect is over.
LEMMA ConnectEndsOk ==
  ASSUME HttpInv, HMay = {}, NEW what \in {"connected", "refused", "error"},
         NEW o \in Outcome, o.connect = "begins", ConnectEnds(what, o)
  PROVE  HttpInv'
<1> DEFINE b == [s EXCEPT !.connecting = FALSE, !.wev = what = "connected"]
<1>1. s.alive /\ s.wev /\ s.connecting /\ ~s.retry /\ IsConn(s) /\ s' = EventCb(b, what, o)
  BY DEF ConnectEnds, HttpInv, ConnOk
<1>2. /\ DOMAIN b = ConnFields /\ Frame(b, s, {"wr", "wev", "connecting"}) /\ ~b.connecting
      /\ b.wev <=> what = "connected"
  BY <1>1, Zenon DEF IsConn, Frame, ConnFields
<1> HIDE DEF b
<1>3. IsConn(b)
  BY <1>1, <1>2 DEF IsConn, Frame, ConnFields
<1>4. /\ OutMid(b) /\ b.st = "CONNECTING" /\ b.conncb /\ b.fd /\ ~b.rd
      /\ b.req[First(b)].kind = "REQUEST" /\ ~b.detect
  BY <1>1, <1>2, <1>3, StateConnecting
<1>5. s' = evhttp_connection_cb(b, what, o)
  BY <1>1, <1>4 DEF EventCb
<1>6. CASE what = "connected"
  <2> DEFINE x == [b EXCEPT !.cnt = 0, !.st = "IDLE", !.rcb = TRUE, !.wcb = TRUE,
                            !.conncb = FALSE]
  <2>1. s' = evhttp_request_dispatch(x)
    BY <1>5, <1>6 DEF evhttp_connection_cb
  <2>2. DOMAIN x = ConnFields /\ Frame(x, b, {"cnt", "st", "rcb", "wcb", "conncb"})
    BY <1>3, Zenon DEF IsConn, Frame
  <2>3. x.st = "IDLE" /\ x.cnt = 0
    BY <1>3 DEF IsConn, ConnFields
  <2> HIDE DEF x
  <2>4. IsConn(x)
    BY <1>3, <2>2, <2>3 DEF IsConn, Frame, ConnFields
  <2>5. /\ x.q = b.q /\ x.side = b.side /\ x.alive = b.alive /\ x.req = b.req
        /\ x.byuser = b.byuser /\ x.bad = b.bad /\ x.retry = b.retry /\ x.more = b.more
        /\ x.fd = b.fd /\ x.connecting = b.connecting
    BY <2>2 DEF Frame, ConnFields
  <2>6. ReqsOk(x)
    BY <1>4, <2>5, ReqsKept DEF OutMid, SameReq
  <2>7. OutReady(x) /\ x.q # <<>>
    BY <1>4, <2>4, <2>5, <2>6 DEF OutMid, OutReady, Outgoing
  <2> QED  BY <1>2, <1>4, <2>1, <2>3, <2>5, <2>7, DispatchOk, Zenon DEF HttpInv
<1>7. CASE what = "refused"
  <2>1. s' = evhttp_connection_cb_cleanup(b)
    BY <1>5, <1>7 DEF evhttp_connection_cb
  <2>2. b.wev <=> b.connecting
    BY <1>2, <1>7
  <2> QED  BY <1>4, <2>1, <2>2, CleanupOk DEF HttpInv
<1>8. CASE what = "error"
  <2>1. s' = evhttp_connection_fail(b, "network", o)
    BY <1>4, <1>5, <1>8 DEF evhttp_connection_cb, evhttp_error_cb
  <2> QED  BY <1>4, <2>1, OutFailOk DEF HttpInv
<1> QED  BY <1>6, <1>7, <1>8

\* It takes too long.
LEMMA ConnectTimeoutOk ==
  ASSUME HttpInv, HMay = {}, NEW o \in Outcome, ConnectTimeout(o)
  PROVE  HttpInv'
<1> DEFINE b == [s EXCEPT !.wr = FALSE]
<1>1. s.alive /\ s.wev /\ s.connecting /\ ~s.retry /\ IsConn(s) /\ s' = EventCb(b, "timeout", o)
  BY DEF ConnectTimeout, HttpInv, ConnOk
<1>2. DOMAIN b = ConnFields /\ Frame(b, s, {"wr"})
  BY <1>1 DEF IsConn, Frame
<1> HIDE DEF b
<1>3. IsConn(b) /\ b.wev = s.wev /\ b.connecting = s.connecting
  BY <1>1, <1>2, Zenon DEF IsConn, Frame, ConnFields
<1>4. Frame(b, s, {"wr", "wev", "connecting"})
  BY <1>2 DEF Frame
<1>5. /\ OutMid(b) /\ b.st = "CONNECTING" /\ b.conncb /\ b.fd /\ ~b.rd
      /\ b.req[First(b)].kind = "REQUEST"
  BY <1>1, <1>3, <1>4, StateConnecting
<1>6. s' = evhttp_connection_cb_cleanup(b)
  BY <1>1, <1>5 DEF EventCb, evhttp_connection_cb, evhttp_error_cb
<1> QED  BY <1>1, <1>3, <1>5, <1>6, CleanupOk, Zenon DEF HttpInv

\* The retry timer.
LEMMA RetryOk ==
  ASSUME HttpInv, NEW o \in Outcome, o.connect = "begins", evhttp_connection_retry(o)
  PROVE  HttpInv'
<1> DEFINE b == [s EXCEPT !.retry = FALSE, !.st = "DISCONNECTED"]
<1>1. s.alive /\ s.retry /\ IsConn(s) /\ ReqsOk(s) /\ s' = evhttp_connection_connect(b, o)
  BY DEF evhttp_connection_retry, HttpInv, ConnOk
<1>2. Outgoing(s)
  BY <1>1 DEF HttpInv, ConnOk, IncomingOk
<1>3. OutgoingOk(s) /\ s.st = "CONNECTING" /\ s.q # <<>> /\ ~s.detect /\ ~s.more
  BY <1>1, <1>2 DEF HttpInv, ConnOk, OutgoingOk
<1>4. DOMAIN b = ConnFields /\ Frame(b, s, {"retry", "st"}) /\ ~b.retry
      /\ b.st = "DISCONNECTED"
  BY <1>1, Zenon DEF IsConn, Frame, ConnFields
<1> HIDE DEF b
<1>5. IsConn(b)
  BY <1>1, <1>4 DEF IsConn, Frame, ConnFields
<1>6. /\ b.q = s.q /\ b.side = s.side /\ b.alive = s.alive /\ b.req = s.req
      /\ b.byuser = s.byuser /\ b.bad = s.bad /\ b.more = s.more /\ b.detect = s.detect
  BY <1>4 DEF Frame, ConnFields
<1>7. ReqsOk(b)
  BY <1>1, <1>6, ReqsKept DEF SameReq
<1>8. \A r \in ToSet(s.q) : s.req[r].kind = "REQUEST"
  <2>1. ToSet(s.q) \subseteq HReq
    BY <1>1, RangeOfQ
  <2> QED  BY <1>1, <1>3, <2>1 DEF OutgoingOk, KindsOk, Reading, IsConn, ReqType
<1>9. OutReady(b)
  BY <1>1, <1>2, <1>3, <1>4, <1>5, <1>6, <1>7, <1>8 DEF OutReady, Outgoing, HttpInv, ConnOk
<1> QED  BY <1>1, <1>3, <1>4, <1>6, <1>9, ConnectOk DEF HttpInv

-------------------------------------------------------------------------------
\* The user's calls.
LEMMA MakeRequestOk ==
  ASSUME HttpInv, NEW r \in HReq, NEW o \in Outcome, o.connect = "begins",
         evhttp_make_request(r, o)
  PROVE  HttpInv'
<1> DEFINE z == [s.req[r] EXCEPT !.life = "conn"]
           b == [s EXCEPT !.q = Append(@, r), !.req[r].life = "conn"]
<1>1. /\ s.alive /\ Outgoing(s) /\ s.req[r].life = "new" /\ IsConn(s) /\ ReqsOk(s)
      /\ OutgoingOk(s)
  BY DEF evhttp_make_request, HttpInv, ConnOk
<1>2. s' = IF ~Connected(s) THEN evhttp_connection_connect(b, o)
           ELSE IF s.q = <<>> THEN evhttp_request_dispatch(b) ELSE b
  BY DEF evhttp_make_request
<1>3. DOMAIN b = ConnFields /\ Frame(b, s, {"q", "req"}) /\ b.q = Append(s.q, r)
      /\ b.req = [s.req EXCEPT ![r] = z]
  BY <1>1, Zenon DEF IsConn, Frame, ConnFields
<1>4. /\ z \in ReqType /\ z.life = "conn" /\ z.kind = "REQUEST" /\ z.told = 0 /\ ~z.canceled
  <2>1. s.req[r] \in ReqType /\ OutgoingReq(s.req[r], s.byuser)
    BY <1>1 DEF IsConn, ReqsOk, ReqOk, Outgoing
  <2>2. s.req[r].told = 0 /\ ~s.req[r].canceled /\ s.req[r].kind = "REQUEST"
    BY <1>1, <2>1 DEF OutgoingReq
  <2> QED  BY <2>1, <2>2 DEF ReqType
<1> HIDE DEF b, z
<1>5. /\ b.req \in [HReq -> ReqType] /\ b.req[r] = z
      /\ \A u \in HReq : u # r => b.req[u] = s.req[u]
  BY <1>1, <1>3, <1>4 DEF IsConn
<1>6. /\ b.side = s.side /\ b.alive = s.alive /\ b.byuser = s.byuser /\ b.bad = s.bad
      /\ b.retry = s.retry /\ b.more = s.more /\ b.detect = s.detect /\ b.st = s.st
      /\ b.fd = s.fd /\ b.connecting = s.connecting /\ b.wev = s.wev /\ b.rd = s.rd
      /\ b.conncb = s.conncb /\ b.cb = s.cb /\ b.wcb = s.wcb /\ b.rcb = s.rcb /\ b.inp = s.inp
  BY <1>3 DEF Frame, ConnFields
<1>7. ReqOk(b.side, b.req[r], b.byuser)
  BY <1>1, <1>4, <1>5, <1>6 DEF Outgoing, ReqOk, OutgoingReq
<1>8. /\ ReqsOk(b) /\ b.q \in Seq(HReq) /\ b.q # <<>>
      /\ ToSet(b.q) = ToSet(s.q) \cup {r} /\ r \notin ToSet(s.q)
      /\ First(b) = IF s.q = <<>> THEN r ELSE First(s)
  <2>1. /\ s.req[r].life # "conn" /\ b.req[r].life = "conn" /\ s.q \in Seq(HReq)
    BY <1>1, <1>4, <1>5 DEF IsConn
  <2>2. /\ ReqsOk(b) /\ b.q \in Seq(HReq) /\ ToSet(b.q) = ToSet(s.q) \cup {r}
        /\ r \notin ToSet(s.q)
    <3>1. /\ IsConn(s) /\ ReqsOk(s) /\ s.req[r].life = "new" /\ b.q = Append(s.q, r)
          /\ b.side = s.side /\ b.byuser = s.byuser /\ b.req[r].life = "conn"
          /\ ReqOk(b.side, b.req[r], b.byuser)
      BY <1>1, <1>3, <1>6, <1>7, <2>1
    <3>2. \A u \in HReq : u # r => b.req[u] = s.req[u]
      BY <1>5
    <3>3. ReqsOk(b)
      BY <3>1, <3>2, ReqsAdded
    <3>4. s.q \in Seq(HReq) /\ r \notin ToSet(s.q) /\ IsInjective(s.q)
      BY <3>1, <2>1 DEF ReqsOk
    <3>5. /\ Append(s.q, r) \in Seq(HReq)
          /\ ToSet(Append(s.q, r)) = ToSet(s.q) \cup {r}
      BY <3>4, AppendElements
    <3> QED  BY <3>1, <3>3, <3>4, <3>5
  <2>3. b.q # <<>> /\ Head(Append(s.q, r)) = IF s.q = <<>> THEN r ELSE Head(s.q)
    BY <1>3, <2>1
  <2> QED  BY <1>3, <2>2, <2>3 DEF First
<1>9. IsConn(b)
  BY <1>1, <1>3, <1>5, <1>8, Zenon DEF IsConn, Frame, ConnFields
<1>10. ToSet(s.q) \subseteq HReq
  BY <1>1, RangeOfQ
<1>11. CASE s.q = <<>>
  <2>1. /\ s.st \in {"DISCONNECTED", "IDLE"} /\ ~s.retry /\ ~s.more /\ ~s.connecting
        /\ s.st = "IDLE" => s.fd
        /\ s.detect => s.st = "IDLE"
    BY <1>1, <1>11 DEF OutgoingOk
  <2>2. ToSet(b.q) = {r}
    <3>1. ToSet(s.q) = {}
      BY <1>1, <1>11, ElementsInRange, Zenon DEF IsConn
    <3> QED  BY <1>8, <3>1
  <2>3. OutReady(b)
    BY <1>1, <1>4, <1>5, <1>6, <1>8, <1>9, <2>1, <2>2 DEF OutReady, Outgoing, HttpInv, ConnOk
  <2>4. CASE s.st = "IDLE"
    <3>1. s' = evhttp_request_dispatch(b)
      BY <1>2, <1>11, <2>4 DEF Connected
    <3> QED  BY <1>6, <1>8, <2>1, <2>3, <2>4, <3>1, DispatchOk DEF HttpInv
  <2>5. CASE s.st = "DISCONNECTED"
    <3>1. s' = evhttp_connection_connect(b, o)
      BY <1>2, <2>5 DEF Connected
    <3> QED  BY <1>6, <1>8, <2>1, <2>3, <2>5, <3>1, ConnectOk DEF HttpInv
  <2> QED  BY <2>1, <2>4, <2>5
<1>12. CASE s.q # <<>>
  <2>1. s.st \notin {"DISCONNECTED", "IDLE"}
    BY <1>1, <1>12 DEF OutgoingOk
  <2>2. s' = b
    BY <1>2, <1>6, <1>12, <2>1 DEF Connected, evhttp_connection_connect
  <2>3. First(b) = First(s) /\ r # First(s)
    <3>1. First(s) \in ToSet(s.q)
      BY <1>1, <1>12, TailFacts DEF IsConn, First
    <3> QED  BY <1>8, <1>12, <3>1
  <2>4. KindsOk(b)
    <3> SUFFICES ASSUME NEW u \in ToSet(b.q)
                 PROVE  b.req[u].kind = "RESPONSE" <=> b.st \in Reading /\ u = First(b)
      BY DEF KindsOk
    <3>1. CASE u = r
      BY <1>4, <1>5, <2>3, <3>1
    <3>2. CASE u # r
      BY <1>1, <1>5, <1>6, <1>8, <1>10, <2>3, <3>2 DEF OutgoingOk, KindsOk
    <3> QED  BY <3>1, <3>2
  <2>5. OutgoingOk(b)
    BY <1>1, <1>6, <1>8, <1>12, <2>4 DEF OutgoingOk
  <2> QED  BY <1>1, <1>6, <1>8, <1>9, <2>2, <2>5, Zenon DEF HttpInv, ConnOk, Outgoing
<1> QED  BY <1>11, <1>12

\* Removing another element leaves the first one at the front.
LEMMA RemoveKeepsHead ==
  ASSUME NEW S, NEW q \in Seq(S), NEW e \in ToSet(q), e # Head(q)
  PROVE  Head(RemoveFirst(q, e)) = Head(q)
<1> DEFINE I == {j \in 1 .. Len(q) : q[j] = e}
           i == Min(I)
           t == RemoveAt(q, i)
<1>1. /\ Len(q) \in Nat /\ ToSet(q) = {q[j] : j \in 1 .. Len(q)}
  BY ElementsInRange
<1>2. I # {} /\ I \in SUBSET Nat
  BY <1>1
<1>3. i \in 1 .. Len(q) /\ q[i] = e
  <2> HIDE DEF I
  <2>1. i \in I
    BY <1>2, MinOfNaturals
  <2> QED  BY <2>1 DEF I
<1>4. RemoveFirst(q, e) = t
  BY <1>2 DEF RemoveFirst, SelectInSeq
<1> HIDE DEF i, I
<1>5. /\ t \in Seq(S) /\ Len(t) = Len(q) - 1
      /\ \A j \in 1 .. Len(q) - 1 : t[j] = IF j < i THEN q[j] ELSE q[j + 1]
  BY <1>3, RemoveAtFacts
<1> HIDE DEF t
<1>6. q # <<>> /\ Head(q) = q[1] /\ i # 1
  BY <1>1, <1>3
<1>7. 1 < i /\ 1 \in 1 .. Len(q) - 1
  BY <1>1, <1>3, <1>6
<1>8. t[1] = q[1] /\ t # <<>>
  BY <1>5, <1>7
<1>9. Head(t) = t[1]
  BY <1>5, <1>8
<1> QED  BY <1>4, <1>6, <1>8, <1>9

\* A request changes that is not on the connection.
LEMMA OffConnection ==
  ASSUME HttpInv, NEW r \in HReq, s.req[r].life # "conn", NEW z \in ReqType, z.life # "conn",
         ReqOk(s.side, z, s.byuser), s' = [s EXCEPT !.req[r] = z]
  PROVE  HttpInv'
<1> DEFINE y == s'
<1>0. /\ IsConn(s) /\ ReqsOk(s) /\ s.bad = {} /\ s.q \in Seq(HReq)
      /\ r \notin ToSet(s.q)
  BY DEF HttpInv, ConnOk, ReqsOk, IsConn
<1>1. DOMAIN y = ConnFields /\ Frame(y, s, {"req"}) /\ y.req = [s.req EXCEPT ![r] = z]
  BY <1>0 DEF IsConn, Frame, ConnFields
<1> HIDE DEF y
<1>3. /\ y.req \in [HReq -> ReqType] /\ y.req[r] = z
      /\ \A u \in HReq : u # r => y.req[u] = s.req[u]
  BY <1>0, <1>1 DEF IsConn
<1>4. /\ y.side = s.side /\ y.alive = s.alive /\ y.byuser = s.byuser /\ y.bad = s.bad
      /\ y.retry = s.retry /\ y.more = s.more /\ y.detect = s.detect /\ y.st = s.st
      /\ y.fd = s.fd /\ y.connecting = s.connecting /\ y.wev = s.wev /\ y.rd = s.rd
      /\ y.cb = s.cb /\ y.wcb = s.wcb /\ y.rcb = s.rcb /\ y.inp = s.inp /\ y.q = s.q
      /\ y.out = s.out /\ y.conncb = s.conncb
  BY <1>1 DEF Frame, ConnFields
<1>5. IsConn(y)
  BY <1>0, <1>1, <1>3 DEF IsConn, Frame, ConnFields
<1>6. ReqsOk(y)
  <2>1. \A u \in HReq : ReqOk(y.side, y.req[u], y.byuser)
    BY <1>0, <1>3, <1>4 DEF ReqsOk
  <2>2. \A u \in HReq : u \in ToSet(y.q) <=> y.req[u].life = "conn"
    BY <1>0, <1>3, <1>4 DEF ReqsOk
  <2> QED  BY <1>0, <1>4, <2>1, <2>2 DEF ReqsOk
<1>7. ASSUME s.q # <<>>
      PROVE  First(s) \in HReq /\ First(s) # r /\ First(y) = First(s)
  BY <1>0, <1>4, <1>7, TailFacts DEF First
<1>8. ASSUME s.alive, Outgoing(s)
      PROVE  OutgoingOk(y)
  <2>1. OutgoingOk(s) /\ ToSet(s.q) \subseteq HReq
    BY <1>0, <1>8, ElementsInRange DEF HttpInv, ConnOk
  <2>2. KindsOk(y)
    <3>1. ASSUME NEW u \in ToSet(y.q)
          PROVE  y.req[u].kind = "RESPONSE" <=> y.st \in Reading /\ u = First(y)
      <4>1. u \in ToSet(s.q) /\ u \in HReq /\ u # r /\ First(y) = First(s)
        BY <1>0, <1>4, <2>1, <3>1 DEF First
      <4>2. y.req[u] = s.req[u]
        BY <1>3, <4>1
      <4> QED  BY <1>4, <2>1, <4>1, <4>2 DEF OutgoingOk, KindsOk
    <3> QED  BY <3>1 DEF KindsOk
  <2> QED  BY <1>4, <2>1, <2>2 DEF OutgoingOk
<1>9. ASSUME s.alive, ~Outgoing(s)
      PROVE  IncomingOk(y)
  <2>1. IncomingOk(s)
    BY <1>9 DEF HttpInv, ConnOk
  <2>2. s.q # <<>>
    BY <2>1 DEF IncomingOk
  <2>3. y.req[First(y)] = s.req[First(s)]
    BY <1>3, <1>7, <2>2
  <2> QED  BY <1>4, <2>1, <2>3 DEF IncomingOk
<1>10. ConnOk(y)
  BY <1>4, <1>5, <1>6, <1>8, <1>9 DEF HttpInv, ConnOk, Outgoing
<1> QED  BY <1>10 DEF y, HttpInv

\* The cleanup tells the user of a request, and frees it.
LEMMA CleanupTellsOk ==
  ASSUME HttpInv, NEW r \in HReq, cleanup_tells(r)
  PROVE  HttpInv'
<1> DEFINE x == s.req[r]
           z == Telling(x)
<1>1. /\ IsConn(s) /\ x \in ReqType /\ x.life = "ended"
      /\ ReqOk(s.side, x, s.byuser) /\ x.told + 1 \in Nat
  BY DEF HttpInv, ConnOk, IsConn, ReqsOk, cleanup_tells, Ending, ReqType
<1>2. s' = [s EXCEPT !.req[r] = z]
  BY DEF cleanup_tells
<1> HIDE DEF x
<1>3. z \in ReqType /\ z.life = "telling" /\ z.told = x.told + 1 /\ z.canceled = x.canceled
  BY <1>1 DEF ReqType, Telling
<1> HIDE DEF z
<1>4. ReqOk(s.side, z, s.byuser)
  BY <1>1, <1>3 DEF ReqOk, OutgoingReq, IncomingReq
<1>5. x.life # "conn"
  BY <1>1
<1> QED  BY <1>1, <1>2, <1>3, <1>4, <1>5, OffConnection DEF x

LEMMA CleanupToldOk ==
  ASSUME HttpInv, NEW r \in HReq, cleanup_told(r)
  PROVE  HttpInv'
<1> DEFINE z == [s.req[r] EXCEPT !.life = "freed"]
<1>1. /\ IsConn(s) /\ s.req[r] \in ReqType /\ s.req[r].life = "telling"
      /\ ReqOk(s.side, s.req[r], s.byuser)
  BY DEF HttpInv, ConnOk, IsConn, ReqsOk, cleanup_told, Told
<1>2. s' = [s EXCEPT !.req[r] = z]
  BY DEF cleanup_told
<1>3. /\ z \in ReqType /\ z.life = "freed" /\ z.told = s.req[r].told
      /\ z.canceled = s.req[r].canceled /\ z.userdone = s.req[r].userdone
  BY <1>1 DEF ReqType
<1> HIDE DEF z
<1>4. ReqOk(s.side, z, s.byuser)
  BY <1>1, <1>3 DEF ReqOk, OutgoingReq, IncomingReq
<1> QED  BY <1>1, <1>2, <1>3, <1>4, OffConnection

\* A request that waits is only taken out; the first one fails.
LEMMA CancelRequestOk ==
  ASSUME HttpInv, HMay = {}, NEW r \in HReq, NEW o \in Outcome, o.connect = "begins",
         evhttp_cancel_request(r, o)
  PROVE  HttpInv'
<1>1. /\ s.alive /\ Outgoing(s) /\ IsConn(s) /\ ReqsOk(s) /\ OutgoingOk(s) /\ ~s.byuser
      /\ r \in ToSet(s.q) \/ Ending(r)
      /\ r \in ToSet(s.q) /\ r = First(s) => ~s.retry /\ ~s.more
      /\ Ending(r) => ~LastEnding(r)
  BY RangeOfQ DEF evhttp_cancel_request, HttpInv, ConnOk
<1>2. /\ ToSet(s.q) \subseteq HReq /\ (r \in ToSet(s.q) => s.q # <<>>)
      /\ r \in ToSet(s.q) => ~Ending(r)
  BY <1>1, ElementsInRange DEF IsConn, ReqsOk, Ending
<1>3. CASE r \in ToSet(s.q) /\ r = First(s)
  <2>1. s' = evhttp_connection_fail(s, "cancel", o)
    BY <1>2, <1>3 DEF evhttp_cancel_request
  <2>2. Frame(s, s, {"rd", "wr", "wev", "connecting", "inp", "peer", "out"})
    BY <1>1 DEF Frame, IsConn
  <2>3. OutMid(s)
    BY <1>1, <1>2, <1>3, <2>2, StateOut DEF HttpInv
  <2> QED  BY <2>1, <2>3, OutFailOk DEF HttpInv
<1>4. CASE r \in ToSet(s.q) /\ r # First(s)
  <2> DEFINE z == [s.req[r] EXCEPT !.life = "freed", !.canceled = TRUE]
             q == RemoveFirst(s.q, r)
             y == s'
  <2>1. y = [[s EXCEPT !.req[r] = [@ EXCEPT !.life = "freed", !.canceled = TRUE]]
               EXCEPT !.q = RemoveFirst(@, r)]
    BY <1>2, <1>4 DEF evhttp_cancel_request
  <2> HIDE DEF y
  <2>2. DOMAIN y = ConnFields /\ Frame(y, s, {"q", "req"}) /\ y.q = q
        /\ y.req = [s.req EXCEPT ![r] = z]
    BY <1>1, <2>1, Zenon DEF IsConn, Frame, ConnFields
  <2>3. q \in Seq(HReq) /\ IsInjective(q) /\ ToSet(q) = ToSet(s.q) \ {r}
    BY <1>1, <1>4, RemoveFirstFacts DEF IsConn, ReqsOk
  <2>4. z \in ReqType /\ z.life = "freed" /\ z.canceled /\ z.told = 0
    <3>1. s.req[r] \in ReqType /\ s.req[r].life = "conn" /\ OutgoingReq(s.req[r], s.byuser)
      BY <1>1, <1>4 DEF IsConn, ReqsOk, ReqOk, Outgoing
    <3>2. s.req[r].told = 0
      BY <3>1 DEF OutgoingReq
    <3> QED  BY <3>1, <3>2, Zenon DEF ReqType
  <2> HIDE DEF z
  <2>5. /\ y.req \in [HReq -> ReqType] /\ y.req[r] = z
        /\ \A u \in HReq : u # r => y.req[u] = s.req[u]
    BY <1>1, <2>2, <2>4 DEF IsConn
  <2>6. First(s) \in ToSet(q) /\ First(y) = First(s)
    <3>1. First(s) \in ToSet(s.q)
      BY <1>1, <1>2, <1>4, TailFacts DEF IsConn, First
    <3>2. Head(q) = Head(s.q)
      <4>1. s.q \in Seq(HReq) /\ r \in ToSet(s.q) /\ r # Head(s.q)
        BY <1>1, <1>4 DEF IsConn, First
      <4> QED  BY <4>1, RemoveKeepsHead
    <3> QED  BY <1>4, <2>2, <2>3, <3>1, <3>2 DEF First
  <2> HIDE DEF q
  <2>7. /\ y.side = s.side /\ y.alive = s.alive /\ y.byuser = s.byuser /\ y.bad = s.bad
        /\ y.retry = s.retry /\ y.more = s.more /\ y.detect = s.detect /\ y.st = s.st
        /\ y.fd = s.fd /\ y.connecting = s.connecting /\ y.wev = s.wev /\ y.rd = s.rd
        /\ y.conncb = s.conncb /\ y.cb = s.cb /\ y.wcb = s.wcb /\ y.rcb = s.rcb /\ y.inp = s.inp
    BY <2>2 DEF Frame, ConnFields
  <2>8. IsConn(y)
    BY <1>1, <2>2, <2>3, <2>5, Zenon DEF IsConn, Frame, ConnFields
  <2>9. ReqsOk(y)
    <3>1. ReqOk(y.side, y.req[r], y.byuser)
      BY <1>1, <2>4, <2>5, <2>7 DEF Outgoing, ReqOk, OutgoingReq
    <3>2. \A u \in HReq : ReqOk(y.side, y.req[u], y.byuser)
      BY <1>1, <2>5, <2>7, <3>1 DEF ReqsOk
    <3>3. \A u \in HReq : u \in ToSet(y.q) <=> y.req[u].life = "conn"
      BY <1>1, <2>2, <2>3, <2>4, <2>5 DEF ReqsOk
    <3> QED  BY <2>2, <2>3, <3>2, <3>3 DEF ReqsOk
  <2>10. KindsOk(y)
    BY <1>1, <1>2, <2>2, <2>3, <2>5, <2>6, <2>7 DEF OutgoingOk, KindsOk
  <2>11. y.q # <<>>
    BY <2>2, <2>3, <2>6, ElementsInRange
  <2>12. OutgoingOk(y)
    BY <1>1, <1>2, <1>4, <2>7, <2>10, <2>11 DEF OutgoingOk
  <2>13. ConnOk(y)
    BY <1>1, <2>7, <2>8, <2>9, <2>12 DEF HttpInv, ConnOk, Outgoing
  <2> QED  BY <2>13 DEF HttpInv, y
<1>5. CASE Ending(r)
  <2> DEFINE z == [s.req[r] EXCEPT !.life = "freed", !.canceled = TRUE]
  <2>1. s' = [s EXCEPT !.req[r] = z]
    BY <1>1, <1>5 DEF evhttp_cancel_request, Fault
  <2>2. s.req[r] \in ReqType /\ s.req[r].life = "ended" /\ OutgoingReq(s.req[r], s.byuser)
    BY <1>1, <1>5 DEF IsConn, ReqsOk, ReqOk, Outgoing, Ending
  <2>3. s.req[r].told = 0
    BY <2>2 DEF OutgoingReq
  <2>4. z \in ReqType /\ z.life = "freed" /\ z.canceled /\ z.told = 0
    BY <2>2, <2>3, Zenon DEF ReqType
  <2> HIDE DEF z
  <2>5. ReqOk(s.side, z, s.byuser)
    BY <1>1, <2>4 DEF Outgoing, ReqOk, OutgoingReq
  <2> QED  BY <2>1, <2>2, <2>4, <2>5, OffConnection
<1> QED  BY <1>1, <1>3, <1>4, <1>5

LEMMA FreeConnectionOk ==
  ASSUME HttpInv, FreeConnection
  PROVE  HttpInv'
BY FreeByUserOk, Zenon DEF FreeConnection, HttpInv, ConnOk

\* The user has a request of a client to answer.
LEMMA HasFacts ==
  ASSUME HttpInv, ~Outgoing(s), NEW r \in HReq, Has(r)
  PROVE  /\ IsConn(s) /\ ReqsOk(s) /\ s.bad = {}
         /\ s.req[r] \in ReqType /\ s.req[r].told = 1 /\ ~s.req[r].userdone
         /\ s.req[r].life = "conn" =>
              /\ s.alive /\ IncomingOk(s) /\ First(s) = r /\ InOne(s) /\ ~s.rd
<1>1. /\ IsConn(s) /\ ReqsOk(s) /\ s.bad = {}
      /\ s.req[r] \in ReqType /\ s.req[r].told = 1 /\ ~s.req[r].userdone
  BY DEF HttpInv, ConnOk, Has, IsConn
<1>2. ASSUME s.req[r].life = "conn"
      PROVE  s.alive /\ IncomingOk(s) /\ First(s) = r /\ InOne(s) /\ ~s.rd
  <2>1. r \in ToSet(s.q)
    BY <1>1, <1>2 DEF ReqsOk
  <2>2. s.q # <<>>
    BY <1>1, <2>1, ElementsInRange DEF IsConn
  <2>3. s.alive /\ IncomingOk(s)
    BY <2>2 DEF HttpInv, ConnOk
  <2>4. First(s) = r
    <3>1. Len(s.q) = 1
      BY <2>3 DEF IncomingOk
    <3>2. ToSet(s.q) = {First(s)}
      BY <1>1, <3>1, OnlyFirst, Zenon
    <3> QED  BY <2>1, <3>2
  <2>5. ~s.rd /\ ~s.more
    BY <1>1, <2>3, <2>4 DEF IncomingOk
  <2>6. Frame(s, s, {"rd", "wr", "wev", "out", "cb", "rcb", "wcb", "conncb"})
    BY <1>1 DEF Frame, IsConn
  <2>7. InOne(s)
    BY <1>1, <2>3, <2>5, <2>6, StateIn DEF HttpInv
  <2> QED  BY <2>3, <2>4, <2>5, <2>7
<1> QED  BY <1>1, <1>2

\* A reply to a request whose connection is gone.
LEMMA DroppedOk ==
  ASSUME HttpInv, ~Outgoing(s), NEW r \in HReq, Has(r), s.req[r].life = "user",
         s' = [s EXCEPT !.req[r].life = "dropped"]
  PROVE  HttpInv'
<1> DEFINE z == [s.req[r] EXCEPT !.life = "dropped"]
<1>1. s.req[r] \in ReqType /\ s.req[r].told = 1
  BY HasFacts
<1>2. z \in ReqType /\ z.life = "dropped" /\ z.told = 1
  BY <1>1 DEF ReqType
<1>3. s' = [s EXCEPT !.req[r] = z]
  OBVIOUS
<1> HIDE DEF z
<1>4. ReqOk(s.side, z, s.byuser)
  BY <1>2 DEF Outgoing, ReqOk, IncomingReq
<1> QED  BY <1>2, <1>3, <1>4, OffConnection

\* The ways to answer.
LEMMA SendReplyOk ==
  ASSUME HttpInv, NEW r \in HReq, NEW close \in BOOLEAN, evhttp_send_reply(r, close)
  PROVE  HttpInv'
<1>1. ~Outgoing(s) /\ Has(r) /\ s' = evhttp_send(s, r, close)
  BY DEF evhttp_send_reply
<1>2. CASE s.req[r].life = "user"
  <2>1. s' = [s EXCEPT !.req[r].life = "dropped"]
    BY <1>1, <1>2 DEF evhttp_send
  <2> QED  BY <1>1, <1>2, <2>1, DroppedOk
<1>3. CASE s.req[r].life = "conn"
  <2>1. First(s) = r /\ InOne(s) /\ ~s.rd
    BY <1>1, <1>3, HasFacts
  <2> QED  BY <1>1, <2>1, SendOk DEF HttpInv
<1> QED  BY <1>1, <1>2, <1>3 DEF Has

\* The only request of a connection from a client is replaced.
LEMMA OnlyReplaced ==
  ASSUME NEW b, InOne(b), NEW z \in ReqType, z.life = "conn", z.told = 1,
         NEW y, Frame(y, b, {"req", "out"}), y.req \in [HReq -> ReqType],
         y.req[First(b)] = z, \A u \in HReq : u # First(b) => y.req[u] = b.req[u]
  PROVE  /\ InOne(y) /\ First(y) = First(b)
         /\ y.rd = b.rd /\ y.wev = b.wev /\ y.wcb = b.wcb /\ y.cb = b.cb
<1> DEFINE r == First(b)
<1>0. IsConn(b) /\ ReqsOk(b) /\ r \in HReq /\ ToSet(b.q) = {r}
  BY OnlyFirst, Zenon DEF InOne
<1>1. /\ y.req \in [HReq -> ReqType] /\ y.req[r] = z
      /\ \A u \in HReq : u # r => y.req[u] = b.req[u]
  OBVIOUS
<1>2. /\ y.side = b.side /\ y.alive = b.alive /\ y.byuser = b.byuser /\ y.bad = b.bad
      /\ y.retry = b.retry /\ y.more = b.more /\ y.detect = b.detect /\ y.st = b.st
      /\ y.fd = b.fd /\ y.connecting = b.connecting /\ y.wev = b.wev /\ y.rd = b.rd
      /\ y.cb = b.cb /\ y.wcb = b.wcb /\ y.q = b.q
  BY DEF Frame, ConnFields
<1>3. IsConn(y)
  BY <1>0, <1>1 DEF IsConn, Frame, ConnFields
<1>4. First(y) = r
  BY <1>2 DEF First
<1> HIDE DEF r
<1>5. ReqsOk(y)
  <2>1. ReqOk(y.side, y.req[r], y.byuser)
    BY <1>1, <1>2 DEF InOne, Outgoing, ReqOk, IncomingReq
  <2>2. \A u \in HReq : ReqOk(y.side, y.req[u], y.byuser)
    BY <1>0, <1>1, <1>2, <2>1 DEF ReqsOk
  <2>3. \A u \in HReq : u \in ToSet(y.q) <=> y.req[u].life = "conn"
    BY <1>0, <1>1, <1>2 DEF ReqsOk
  <2> QED  BY <1>0, <1>2, <2>2, <2>3 DEF ReqsOk
<1>6. InOne(y)
  BY <1>2, <1>3, <1>5 DEF InOne, Outgoing
<1> QED  BY <1>1, <1>2, <1>4, <1>6 DEF r

LEMMA ReplyStartOk ==
  ASSUME HttpInv, HMay = {}, NEW r \in HReq, NEW chunked \in BOOLEAN, evhttp_send_reply_start(r, chunked)
  PROVE  HttpInv'
<1> DEFINE z == [s.req[r] EXCEPT !.kind = "RESPONSE", !.chunked = chunked]
           x == [[s EXCEPT !.req[r] = [@ EXCEPT !.kind = "RESPONSE", !.chunked = chunked]]
                   EXCEPT !.out = TRUE]
           cb == "none"
           y == s'
<1>0. /\ IsConn(s) /\ s.req[r] \in ReqType /\ s.req[r].told = 1 /\ ~s.req[r].userdone
      /\ s.req[r].life = "conn" /\ First(s) = r /\ InOne(s) /\ ~s.rd
  <2>1. /\ ~Outgoing(s) /\ Has(r)
        /\ s.req[r].life = "conn"
    BY DEF evhttp_send_reply_start, Has
  <2> QED  BY <2>1, HasFacts
<1>1. y = evhttp_write_buffer(x, cb)
  BY <1>0 DEF evhttp_send_reply_start
<1>2. DOMAIN x = ConnFields /\ Frame(x, s, {"req", "out"}) /\ x.req = [s.req EXCEPT ![r] = z]
  BY <1>0, Zenon DEF IsConn, Frame, ConnFields
<1>3. z \in ReqType /\ z.life = "conn" /\ z.told = 1 /\ ~z.userdone
  BY <1>0, Zenon DEF ReqType
<1> HIDE DEF x, y, z
<1>4. InOne(x) /\ First(x) = r /\ x.req[r] = z /\ x.rd = s.rd
  <2>1. /\ x.req \in [HReq -> ReqType] /\ x.req[First(s)] = z
        /\ \A u \in HReq : u # First(s) => x.req[u] = s.req[u]
    BY <1>0, <1>2, <1>3 DEF IsConn
  <2>2. Frame(x, s, {"req", "out"}) /\ x.rd = s.rd
    BY <1>2 DEF Frame, ConnFields
  <2>3. InOne(x) /\ First(x) = First(s)
    BY <1>0, <1>3, <2>1, <2>2, OnlyReplaced
  <2> QED  BY <1>0, <2>1, <2>2, <2>3
<1>5. cb \in {"none", "connection", "send_done"}
  OBVIOUS
<1> HIDE DEF cb
<1>6. IsConn(y) /\ Frame(y, x, {"cb", "wr", "wev", "rcb", "wcb", "conncb"})
      /\ y.cb = cb /\ y.wev /\ y.wcb
  BY <1>1, <1>4, <1>5, WriteBufferFacts DEF InOne
<1>7. /\ y.side = x.side /\ y.alive = x.alive /\ y.byuser = x.byuser /\ y.bad = x.bad
      /\ y.retry = x.retry /\ y.more = x.more /\ y.detect = x.detect /\ y.st = x.st
      /\ y.fd = x.fd /\ y.connecting = x.connecting /\ y.rd = x.rd
      /\ y.q = x.q /\ y.req = x.req
  BY <1>6 DEF Frame, ConnFields
<1>8. ReqsOk(y) /\ First(y) = r
  BY <1>4, <1>7, ReqsKept DEF InOne, SameReq, First
<1>9. y.cb = "none"
  BY <1>6 DEF cb
<1>10. IncomingOk(y)
  BY <1>0, <1>3, <1>4, <1>6, <1>7, <1>8, <1>9 DEF IncomingOk, InOne
<1>11. ConnOk(y)
  BY <1>4, <1>6, <1>7, <1>8, <1>10 DEF InOne, ConnOk, Outgoing
<1> QED  BY <1>11 DEF y, HttpInv

\* A request of a client whose answer is written, or is going to be.
LEMMA AnswerGoesOut ==
  ASSUME NEW b, InOne(b), ~b.rd, b.req[First(b)].userdone, b.wev, b.wcb, b.cb = "send_done"
  PROVE  ConnOk(b)
BY DEF InOne, ConnOk, IncomingOk

LEMMA ReplyEndOk ==
  ASSUME HttpInv, NEW r \in HReq, evhttp_send_reply_end(r)
  PROVE  HttpInv'
<1> DEFINE z == [s.req[r] EXCEPT !.userdone = TRUE, !.chunked = FALSE]
           x == [s EXCEPT !.req[r] = [@ EXCEPT !.userdone = TRUE, !.chunked = FALSE]]
           y == s'
<1>0. ~Outgoing(s) /\ Has(r)
  BY DEF evhttp_send_reply_end
<1>1. CASE s.req[r].life = "user"
  <2>1. s' = [s EXCEPT !.req[r].life = "dropped"]
    BY <1>1 DEF evhttp_send_reply_end
  <2> QED  BY <1>0, <1>1, <2>1, DroppedOk
<1>2. CASE s.req[r].life = "conn"
  <2>1. /\ IsConn(s) /\ s.req[r] \in ReqType /\ s.req[r].told = 1
        /\ First(s) = r /\ InOne(s) /\ ~s.rd /\ IncomingOk(s)
    BY <1>0, <1>2, HasFacts
  <2>2. /\ s.req[r].chunked => y = evhttp_write_buffer([x EXCEPT !.out = TRUE], "send_done")
        /\ ~s.req[r].chunked /\ ~s.out => y = evhttp_send_done(x)
        /\ ~s.req[r].chunked /\ s.out => y = [x EXCEPT !.cb = "send_done"]
    BY <1>2 DEF evhttp_send_reply_end
  <2>3. /\ DOMAIN x = ConnFields /\ Frame(x, s, {"req", "out"}) /\ x.out = s.out
        /\ x.req = [s.req EXCEPT ![r] = z]
    BY <2>1 DEF IsConn, Frame, ConnFields
  <2>4. z \in ReqType /\ z.life = "conn" /\ z.told = 1 /\ z.userdone
    BY <1>2, <2>1, Zenon DEF ReqType
  <2> HIDE DEF x, y, z
  <2>5. /\ InOne(x) /\ First(x) = r /\ x.req[r] = z
        /\ x.rd = s.rd /\ x.wev = s.wev /\ x.wcb = s.wcb
    <3>1. /\ x.req \in [HReq -> ReqType] /\ x.req[First(s)] = z
          /\ \A u \in HReq : u # First(s) => x.req[u] = s.req[u]
      BY <2>1, <2>3, <2>4 DEF IsConn
    <3>2. /\ Frame(x, s, {"req", "out"})
          /\ x.rd = s.rd /\ x.wev = s.wev /\ x.wcb = s.wcb
      BY <2>3 DEF Frame, ConnFields
    <3>3. InOne(x) /\ First(x) = First(s)
      BY <2>1, <2>4, <3>1, <3>2, OnlyReplaced
    <3> QED  BY <2>1, <3>1, <3>2, <3>3
  <2>6. x.req[First(x)].userdone /\ ~x.rd
    BY <2>1, <2>4, <2>5
  <2>7. CASE s.req[r].chunked
    <3> DEFINE w == [x EXCEPT !.out = TRUE]
               cb == "send_done"
    <3>1. y = evhttp_write_buffer(w, cb)
      BY <2>2, <2>7
    <3>2. Frame(w, x, {"out"})
      BY <2>5 DEF InOne, IsConn, Frame, ConnFields
    <3> HIDE DEF w
    <3>3. InOne(w) /\ First(w) = r /\ w.req[r] = z /\ w.rd = x.rd
      <4>1. w.req = x.req /\ w.rd = x.rd /\ Frame(w, x, {"req", "out"})
        BY <3>2 DEF Frame, ConnFields
      <4>2. x.req \in [HReq -> ReqType]
        BY <2>5 DEF InOne, IsConn
      <4>3. InOne(w) /\ First(w) = First(x)
        BY <2>4, <2>5, <4>1, <4>2, OnlyReplaced
      <4> QED  BY <2>5, <4>1, <4>3
    <3>4. cb \in {"none", "connection", "send_done"}
      OBVIOUS
    <3> HIDE DEF cb
    <3>5. IsConn(y) /\ Frame(y, w, {"cb", "wr", "wev", "rcb", "wcb", "conncb"})
          /\ y.cb = cb /\ y.wev /\ y.wcb
      BY <3>1, <3>3, <3>4, WriteBufferFacts DEF InOne
    <3>6. /\ y.side = w.side /\ y.alive = w.alive /\ y.byuser = w.byuser /\ y.bad = w.bad
          /\ y.retry = w.retry /\ y.more = w.more /\ y.detect = w.detect /\ y.st = w.st
          /\ y.fd = w.fd /\ y.connecting = w.connecting /\ y.rd = w.rd
          /\ y.q = w.q /\ y.req = w.req
      BY <3>5 DEF Frame, ConnFields
    <3>7. ReqsOk(y) /\ First(y) = r
      BY <3>3, <3>6, ReqsKept DEF InOne, SameReq, First
    <3>8. InOne(y)
      BY <3>3, <3>5, <3>6, <3>7 DEF InOne, Outgoing
    <3>9. y.req[First(y)].userdone /\ ~y.rd /\ y.cb = "send_done"
      BY <2>4, <2>6, <3>3, <3>5, <3>6, <3>7 DEF cb
    <3> QED  BY <3>5, <3>8, <3>9, AnswerGoesOut DEF y, HttpInv
  <2>8. CASE ~s.req[r].chunked /\ ~s.out
    <3>1. y = evhttp_send_done(x) /\ ~x.out
      BY <2>2, <2>3, <2>8
    <3>2. ConnOk(y)
      BY <2>5, <2>6, <3>1, SendDoneOk
    <3> QED  BY <3>2 DEF y, HttpInv
  <2>9. CASE ~s.req[r].chunked /\ s.out
    <3>1. s.wev /\ s.wcb
      BY <2>1, <2>9 DEF IncomingOk
    <3>2. y = [x EXCEPT !.cb = "send_done"]
      BY <2>2, <2>9
    <3>3. DOMAIN y = ConnFields /\ Frame(y, x, {"cb"}) /\ y.cb = "send_done"
      BY <2>5, <3>2 DEF InOne, IsConn, Frame, ConnFields
    <3>4. /\ y.side = x.side /\ y.alive = x.alive /\ y.byuser = x.byuser /\ y.bad = x.bad
          /\ y.retry = x.retry /\ y.more = x.more /\ y.detect = x.detect /\ y.st = x.st
          /\ y.fd = x.fd /\ y.connecting = x.connecting /\ y.rd = x.rd
          /\ y.q = x.q /\ y.req = x.req /\ y.wev = x.wev /\ y.wcb = x.wcb
      BY <3>3 DEF Frame, ConnFields
    <3>5. IsConn(y)
      BY <2>5, <3>3 DEF InOne, IsConn, Frame, ConnFields
    <3>6. ReqsOk(y) /\ First(y) = r
      BY <2>5, <3>4, ReqsKept DEF InOne, SameReq, First
    <3>7. InOne(y)
      BY <2>5, <3>4, <3>5, <3>6 DEF InOne, Outgoing
    <3>8. y.req[First(y)].userdone /\ ~y.rd /\ y.wev /\ y.wcb
      BY <2>5, <2>6, <3>1, <3>4, <3>6
    <3> QED  BY <3>3, <3>7, <3>8, AnswerGoesOut DEF y, HttpInv
  <2> QED  BY <2>7, <2>8, <2>9
<1> QED  BY <1>0, <1>1, <1>2 DEF Has

-------------------------------------------------------------------------------
\* The invariant holds at first and is kept.
LEMMA NewConn ==
  ASSUME NEW side \in {"outgoing", "incoming"}, NEW b, b = InitConn(side)
  PROVE  /\ IsConn(b) /\ b.side = side /\ b.alive /\ ~b.byuser /\ b.bad = {} /\ ReqsOk(b)
         /\ b.q = <<>> /\ b.st = "DISCONNECTED" /\ ~b.detect /\ ~b.connecting /\ ~b.retry
         /\ ~b.more /\ ~b.out /\ ~b.wev /\ ~b.rd
         /\ \A r \in HReq : b.req[r] = NewReq
<1>1. NewReq \in ReqType
  BY DEF NewReq, ReqType
<1>2. /\ DOMAIN b = ConnFields /\ b.side = side /\ b.st = "DISCONNECTED" /\ b.cb = "none"
      /\ b.q = <<>> /\ b.inp = <<>> /\ b.cnt = 0 /\ b.req = [r \in HReq |-> NewReq]
      /\ b.alive /\ ~b.byuser /\ b.bad = {} /\ ~b.detect /\ ~b.connecting /\ ~b.retry
      /\ ~b.more /\ ~b.out /\ ~b.wev /\ ~b.rd
  BY DEF InitConn, ConnFields
<1>3. IsConn(b)
  BY <1>1, <1>2 DEF IsConn
<1>4. IsInjective(b.q) /\ ToSet(b.q) = {}
  BY <1>2 DEF IsInjective, ToSet
<1>5. ReqsOk(b)
  BY <1>2, <1>4 DEF ReqsOk, ReqOk, OutgoingReq, IncomingReq, NewReq
<1> QED  BY <1>2, <1>3, <1>5

\* A connection to a server begins off, one from a client with a request to read.
LEMMA InitOk ==
  ASSUME Sides \subseteq {"outgoing", "incoming"}, Init
  PROVE  HttpInv
<1> PICK side \in Sides :
       s = IF side = "outgoing" THEN InitConn(side)
           ELSE evhttp_associate_new_request_with_connection([InitConn(side) EXCEPT !.fd = TRUE])
  BY Zenon DEF Init
<1>1. CASE side = "outgoing"
  <2>1. s = InitConn(side)
    BY <1>1
  <2>2. /\ IsConn(s) /\ s.side = side /\ s.alive /\ ~s.byuser /\ s.bad = {} /\ ReqsOk(s)
        /\ s.q = <<>> /\ s.st = "DISCONNECTED" /\ ~s.detect /\ ~s.connecting /\ ~s.retry
        /\ ~s.more /\ ~s.out /\ ~s.wev /\ ~s.rd
    BY <1>1, <2>1, NewConn
  <2>3. ToSet(s.q) = {}
    BY <2>2, ElementsInRange DEF IsConn
  <2>4. OutReady(s)
    BY <1>1, <2>2, <2>3 DEF OutReady, Outgoing
  <2> QED  BY <2>2, <2>4, OffOk DEF HttpInv
<1>2. CASE side # "outgoing"
  <2> DEFINE i == InitConn(side)
             b == [i EXCEPT !.fd = TRUE]
  <2>0. side \in {"outgoing", "incoming"} /\ side = "incoming"
    BY <1>2
  <2>1. /\ IsConn(i) /\ i.side = side /\ i.alive /\ ~i.byuser /\ i.bad = {} /\ ReqsOk(i)
        /\ i.q = <<>> /\ ~i.detect /\ ~i.connecting /\ ~i.retry /\ ~i.more /\ ~i.out
    BY <2>0, NewConn
  <2>2. s = evhttp_associate_new_request_with_connection(b)
    BY <1>2
  <2> HIDE DEF i
  <2>3. DOMAIN b = ConnFields /\ Frame(b, i, {"fd"}) /\ b.fd
    BY <2>1 DEF IsConn, Frame, ConnFields
  <2> HIDE DEF b
  <2>4. IsConn(b)
    BY <2>1, <2>3, Zenon DEF IsConn, Frame, ConnFields
  <2>5. /\ b.q = i.q /\ b.side = i.side /\ b.alive = i.alive /\ b.req = i.req
        /\ b.byuser = i.byuser /\ b.bad = i.bad /\ b.retry = i.retry /\ b.more = i.more
        /\ b.detect = i.detect /\ b.connecting = i.connecting /\ b.out = i.out
    BY <2>3 DEF Frame, ConnFields
  <2>6. ReqsOk(b)
    BY <2>1, <2>5, ReqsKept DEF SameReq
  <2>7. InNone(b)
    BY <2>0, <2>1, <2>3, <2>4, <2>5, <2>6 DEF InNone, Outgoing
  <2> QED  BY <2>2, <2>7, AssociateOk DEF HttpInv
<1> QED  BY <1>1, <1>2

\* Every step of the next-state relation keeps the invariant.
LEMMA NextOk ==
  ASSUME HFaults = {}, HMay = {}, HttpInv, [Next]_http
  PROVE  HttpInv'
<1>1. CASE UNCHANGED http
  BY <1>1 DEF HttpInv, http
<1>2. CASE FreeConnection
  BY <1>2, FreeConnectionOk
<1>3. CASE Written
  BY <1>3, WrittenOk
<1>4. ASSUME NEW o \in Outcome,
             \/ ReadEnds("timeout", o) \/ ConnectTimeout(o)
             \/ evhttp_deferred_read_cb(o) \/ evhttp_connection_retry(o)
      PROVE  HttpInv'
  <2>1. o.connect = "begins"
    BY UsualOutcome
  <2>2. CASE ReadEnds("timeout", o)
    BY <2>1, <2>2, ReadEndsOk
  <2>3. CASE ConnectTimeout(o)
    BY <2>3, ConnectTimeoutOk
  <2>4. CASE evhttp_deferred_read_cb(o)
    BY <2>1, <2>4, DeferredReadOk
  <2>5. CASE evhttp_connection_retry(o)
    BY <2>1, <2>5, RetryOk
  <2> QED  BY <1>4, <2>2, <2>3, <2>4, <2>5
<1>14. ASSUME NEW r \in HReq, cleanup_tells(r) \/ cleanup_told(r)
       PROVE  HttpInv'
  BY <1>14, CleanupTellsOk, CleanupToldOk
<1>5. ASSUME NEW o \in Outcome, NEW q \in Piece(s), ReadData(q, o)
      PROVE  HttpInv'
  BY <1>5, UsualOutcome, ReadDataOk
<1>6. ASSUME NEW o \in Outcome, NEW q \in Piece(s),
             NEW q2 \in Piece([s EXCEPT !.peer = PeerAfter(s, q)]), ReadTwo(q, q2, o)
      PROVE  HttpInv'
  BY <1>6, UsualOutcome, ReadTwoOk
<1>7. ASSUME NEW o \in Outcome, NEW what \in {"eof", "error"}, ReadEnds(what, o)
      PROVE  HttpInv'
  BY <1>7, UsualOutcome, ReadEndsOk
<1>8. ASSUME NEW o \in Outcome, NEW what \in {"error", "timeout"}, WriteEnds(what, o)
      PROVE  HttpInv'
  BY <1>8, UsualOutcome, WriteEndsOk
<1>9. ASSUME NEW o \in Outcome, NEW what \in {"connected", "refused", "error"},
             ConnectEnds(what, o)
      PROVE  HttpInv'
  BY <1>9, UsualOutcome, ConnectEndsOk
<1>10. ASSUME NEW o \in Outcome, NEW r \in HReq,
              evhttp_make_request(r, o) \/ evhttp_cancel_request(r, o)
       PROVE  HttpInv'
  BY <1>10, UsualOutcome, MakeRequestOk, CancelRequestOk
<1>11. ASSUME NEW r \in HReq, NEW close \in BOOLEAN, evhttp_send_reply(r, close)
       PROVE  HttpInv'
  BY <1>11, SendReplyOk
<1>12. ASSUME NEW r \in HReq, NEW c \in BOOLEAN, evhttp_send_reply_start(r, c)
       PROVE  HttpInv'
  BY <1>12, ReplyStartOk
<1>13. ASSUME NEW r \in HReq, evhttp_send_reply_end(r)
       PROVE  HttpInv'
  BY <1>13, ReplyEndOk
<1> QED
  <2>1. Next \/ UNCHANGED http
    OBVIOUS
  <2> QED  BY <1>1, <1>2, <1>3, <1>4, <1>5, <1>6, <1>7, <1>8, <1>9, <1>10, <1>11, <1>12,
              <1>13, <1>14, <2>1, Zenon DEF Next, Progress

-------------------------------------------------------------------------------
\* What the invariant says of the properties.
LEMMA InvAsserts ==
  ASSUME HttpInv PROVE HttpAsserts
BY DEF HttpInv, ConnOk, HttpAsserts

LEMMA InvAccounted ==
  ASSUME HttpInv PROVE HttpAccounted
<1>1. IsConn(s) /\ ReqsOk(s)
  BY DEF HttpInv, ConnOk
<1>2. Range(s.q) = ToSet(s.q)
  BY <1>1, RangeOfQ
<1>3. Cardinality(Range(s.q)) = Len(s.q)
  <2>1. s.q \in Seq(HReq) /\ IsInjective(s.q)
    BY <1>1 DEF IsConn, ReqsOk
  <2> QED  BY <1>2, <2>1, InjectiveLength
<1>4. ASSUME NEW r \in HReq
      PROVE  /\ r \in Range(s.q) <=> s.req[r].life = "conn"
             /\ s.req[r].told <= 1
             /\ s.req[r].life = "freed" /\ ~s.byuser =>
                  IF Outgoing(s) THEN s.req[r].told = 1 <=> ~s.req[r].canceled
                  ELSE s.req[r].told = 1 => s.req[r].userdone
  BY <1>1, <1>2 DEF ReqsOk, ReqOk, OutgoingReq, IncomingReq, Outgoing
<1> QED  BY <1>3, <1>4 DEF HttpAccounted

LEMMA InvProceeds ==
  ASSUME HttpInv PROVE HttpProceeds
<1>1. IsConn(s)
  BY DEF HttpInv, ConnOk
<1>2. ASSUME s.alive, Outgoing(s)
      PROVE  HttpMoving /\ HttpNothingUnread
  <2>1. OutgoingOk(s)
    BY <1>2 DEF HttpInv, ConnOk
  <2> QED  BY <1>1, <1>2, <2>1 DEF IsConn, OutgoingOk, HttpMoving, HttpNothingUnread
<1>3. ASSUME s.alive, ~Outgoing(s)
      PROVE  HttpMoving /\ HttpNothingUnread
  <2>1. IncomingOk(s)
    BY <1>3 DEF HttpInv, ConnOk
  <2> QED  BY <1>1, <1>3, <2>1 DEF IsConn, IncomingOk, HttpMoving, HttpNothingUnread
<1>4. ASSUME ~s.alive
      PROVE  HttpMoving /\ HttpNothingUnread
  BY <1>4 DEF HttpMoving, HttpNothingUnread
<1> QED  BY <1>2, <1>3, <1>4 DEF HttpProceeds

\* Steps of the listener and of RPC leave the connection alone.
LEMMA HttpStep ==
  ASSUME HFaults = {}, HMay = {}, HttpInv, [MCNext]_mcVars
  PROVE  HttpInv'
<1>1. [Next]_http
  <2>1. CASE HttpPart
    BY <2>1 DEF HttpPart
  <2>2. CASE ListenerPart \/ PoolPart \/ ServerPart \/ UNCHANGED mcVars
    BY <2>2 DEF ListenerPart, PoolPart, ServerPart, mcVars
  <2> QED  BY <2>1, <2>2 DEF MCNext
<1> QED  BY <1>1, NextOk

\* For any number of requests, retries, errors and pieces: no assertion of http.c
\* fails, evhttp_read_cb is never called in a state in which it ends the program, a
\* pending timer is not assigned, no request is written as a response, and none is
\* taken off a list that it is not on by what users do in the callbacks of the
\* cleanup.  The hypotheses are those of the run: attempts to connect begin
\* (HFaults), and nothing happens that the code does not stand: with any one member
\* of HMay the theorem is false.
THEOREM HttpAssertsHold ==
  ASSUME Sides \subseteq {"outgoing", "incoming"}, HFaults = {}, HMay = {}
  PROVE  MCSpec => []HttpAsserts
<1>1. MCInit => HttpInv
  BY InitOk DEF MCInit
<1>2. HttpInv /\ [MCNext]_mcVars => HttpInv'
  BY HttpStep
<1>3. HttpInv => HttpAsserts
  BY InvAsserts
<1> QED  BY <1>1, <1>2, <1>3, PTL DEF MCSpec

\* Every request is in one place, its user is told of its end once unless he
\* canceled it, and a request that he was given to answer is not freed before he
\* has answered it, unless he frees the connection: also when he does so, cancels
\* or makes requests in a callback of evhttp_connection_cb_cleanup, which goes on
\* with its list.  The hypotheses are those of HttpAssertsHold.
THEOREM HttpAccountedHolds ==
  ASSUME Sides \subseteq {"outgoing", "incoming"}, HFaults = {}, HMay = {}
  PROVE  MCSpec => []HttpAccounted
<1>1. MCInit => HttpInv
  BY InitOk DEF MCInit
<1>2. HttpInv /\ [MCNext]_mcVars => HttpInv'
  BY HttpStep
<1>3. HttpInv => HttpAccounted
  BY InvAccounted
<1> QED  BY <1>1, <1>2, <1>3, PTL DEF MCSpec

\* A connection with requests always waits for something that is going to happen:
\* an attempt to connect or its retry, an event that is enabled on a socket, the
\* deferred read, or the user who is to answer; and it does not wait for the peer
\* with a part of the message unread in its buffer.
THEOREM HttpProceedsHolds ==
  ASSUME Sides \subseteq {"outgoing", "incoming"}, HFaults = {}, HMay = {}
  PROVE  MCSpec => []HttpProceeds
<1>1. MCInit => HttpInv
  BY InitOk DEF MCInit
<1>2. HttpInv /\ [MCNext]_mcVars => HttpInv'
  BY HttpStep
<1>3. HttpInv => HttpProceeds
  BY InvProceeds
<1> QED  BY <1>1, <1>2, <1>3, PTL DEF MCSpec
===============================================================================
