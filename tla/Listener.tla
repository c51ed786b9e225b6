-------------------------------- MODULE Listener --------------------------------
(***************************************************************************)
(* listener.c with an event of its own: the loop's thread accepts, another *)
(* thread and the callbacks of the user change the listener.  A section    *)
(* under the lock is one step; event_del in the other thread keeps the     *)
(* lock and waits until the callback of the event has returned.            *)
(***************************************************************************)
EXTENDS Integers, FiniteSets

CONSTANTS
  Conn,       \* connections that come
  LThread,    \* what the other thread does: of Calls
  LMay        \* of {"unhandled_error", "no_callback"}: what may happen

VARIABLES l, conn
lvars == <<l, conn>>

Calls == {"enable", "disable", "free", "set_cb", "clear_cb"}

\* evconnlistener_new has enabled it.
Init ==
  /\ l = [cb |-> TRUE, errorcb |-> FALSE, refcnt |-> 1, enabled |-> TRUE, pending |-> TRUE,
          lock |-> "none", pc |-> "idle", thread |-> "idle", calls |-> 0, freed |-> FALSE,
          user |-> TRUE]
  /\ conn = [c \in Conn |-> "none"]

Waiting == {c \in Conn : conn[c] = "waiting"}

\* The end of listener_decref_and_unlock: event_listener_destroy, the lock is freed.
Destroyed(x) == [x EXCEPT !.pending = FALSE, !.freed = TRUE, !.lock = "none"]

\* Mutant of listener_decref_and_unlock: the listener is freed at once.
DecrefFrees(x) == Destroyed([x EXCEPT !.refcnt = @ - 1])

listener_decref_and_unlock(x) ==
  IF x.refcnt = 1 THEN Destroyed([x EXCEPT !.refcnt = 0])
  ELSE [x EXCEPT !.refcnt = @ - 1]

\* The event is run: the callback has not taken the lock yet.
Run ==
  /\ l.pc = "idle" /\ l.pending /\ Waiting # {}
  /\ l' = [l EXCEPT !.pc = "running"] /\ UNCHANGED conn

\* One connection was accepted.
listener_read_cb(x, c) ==
  IF x.cb THEN /\ l' = [x EXCEPT !.pc = "callback", !.refcnt = @ + 1]
               /\ conn' = [conn EXCEPT ![c] = "given"]
  ELSE l' = [x EXCEPT !.pc = "idle"] /\ conn' = [conn EXCEPT ![c] = "leaked"]

\* The error callback, or a warning, after which the lock is kept.
AcceptError(x) ==
  l' = IF x.errorcb THEN [x EXCEPT !.pc = "error_callback", !.refcnt = @ + 1]
       ELSE [x EXCEPT !.pc = "idle", !.lock = "loop"]

\* The rest of the loop over accept, under the lock: a connection without an
\* address is closed.
Accept(x) ==
  \/ \E c \in Waiting :
       \/ listener_read_cb(x, c)
       \/ l' = x /\ conn' = [conn EXCEPT ![c] = "closed"]
  \/ Waiting = {} /\ l' = [x EXCEPT !.pc = "idle"] /\ UNCHANGED conn
  \/ "unhandled_error" \in LMay /\ AcceptError(x) /\ UNCHANGED conn

Free(who) == l.lock \in {"none", who}
Accepting == l.pc \in {"running", "accepting"} /\ Free("loop") /\ Accept([l EXCEPT !.pc = "accepting"])

CallbackReturns ==
  /\ l.pc = "callback" /\ Free("loop")
  /\ l' = IF l.refcnt = 1 THEN [listener_decref_and_unlock(l) EXCEPT !.pc = "idle"]
          ELSE [l EXCEPT !.refcnt = @ - 1, !.pc = "accepting"]
  /\ UNCHANGED conn

ErrorCallbackReturns ==
  /\ l.pc = "error_callback" /\ Free("loop")
  /\ l' = [listener_decref_and_unlock(l) EXCEPT !.pc = "idle"] /\ UNCHANGED conn

-------------------------------------------------------------------------------
evconnlistener_enable(x) == [x EXCEPT !.enabled = TRUE, !.pending = @ \/ x.cb]
evconnlistener_disable(x) == [x EXCEPT !.enabled = FALSE, !.pending = FALSE]
evconnlistener_free(x) ==
  listener_decref_and_unlock([x EXCEPT !.cb = FALSE, !.errorcb = FALSE, !.user = FALSE])

evconnlistener_set_cb(x, cb) ==
  LET y == [x EXCEPT !.cb = cb]
  IN  IF x.enabled /\ ~x.cb THEN evconnlistener_enable(y) ELSE y

Apply(x, call) ==
  CASE call = "enable"   -> evconnlistener_enable(x)
    [] call = "disable"  -> evconnlistener_disable(x)
    [] call = "free"     -> evconnlistener_free(x)
    [] call = "set_cb"   -> evconnlistener_set_cb(x, TRUE)
    [] call = "clear_cb" -> evconnlistener_set_cb(x, FALSE)

MaxCalls == 3
May(call) == /\ l.user /\ ~l.freed /\ l.calls < MaxCalls
             /\ call = "clear_cb" => "no_callback" \in LMay

\* The user calls in one of his callbacks, or in another one of the same thread.
UserCall(call) ==
  /\ May(call) /\ l.pc \in {"idle", "callback", "error_callback"} /\ Free("loop")
  /\ l' = Apply([l EXCEPT !.calls = @ + 1], call)
  /\ UNCHANGED conn

evconnlistener_set_error_cb ==
  /\ May("set") /\ l.pc = "idle" /\ Free("loop") /\ ~l.errorcb
  /\ l' = [l EXCEPT !.errorcb = TRUE, !.calls = @ + 1] /\ UNCHANGED conn

\* event_del is reached, which waits while the event's callback runs.
Deletes(call) == call = "disable" \/ (call = "free" /\ l.refcnt = 1)
ThreadCall(call) ==
  /\ May(call) /\ call \in LThread /\ l.thread = "idle" /\ l.lock = "none"
  /\ l' = IF Deletes(call) /\ l.pc # "idle"
            THEN [l EXCEPT !.thread = call, !.lock = "thread", !.calls = @ + 1]
            ELSE Apply([l EXCEPT !.calls = @ + 1], call)
  /\ UNCHANGED conn

ThreadGoesOn ==
  /\ l.thread # "idle" /\ l.pc = "idle"
  /\ l' = Apply([l EXCEPT !.thread = "idle", !.lock = "none"], l.thread) /\ UNCHANGED conn

Arrives ==
  \E c \in Conn : conn[c] = "none" /\ conn' = [conn EXCEPT ![c] = "waiting"] /\ UNCHANGED l

Works == Run \/ Accepting \/ CallbackReturns \/ ErrorCallbackReturns \/ ThreadGoesOn
Next ==
  \/ Works \/ Arrives \/ evconnlistener_set_error_cb
  \/ \E call \in Calls : UserCall(call) \/ ThreadCall(call)
-------------------------------------------------------------------------------
\* The listener lives as long as the user or a callback has it: freeing it in
\* its own callback, or from another thread, never takes it from under the loop;
\* and it is freed in the end.  A listener that is enabled with a callback is
\* watched by the loop.  Every connection taken is given to the user or closed.
ListenerKept ==
  /\ l.refcnt = (IF l.user THEN 1 ELSE 0)
                  + (IF l.pc \in {"callback", "error_callback"} THEN 1 ELSE 0)
  /\ l.freed <=> l.refcnt = 0
  /\ l.freed => l.pc = "idle" /\ l.thread = "idle"
  /\ l.enabled /\ l.cb => l.pending
  /\ \A c \in Conn : conn[c] # "leaked"

\* listener.h: LEV_OPT_THREADSAFE makes a listener "safe to use from multiple
\* threads at once": the loop and the other thread do not wait for each other.
ThreadsGoOn == ~(l.thread # "idle" /\ l.pc # "idle" /\ ~Free("loop"))

\* The inductive invariant: ListenerKept with the types, that the program has
\* taken its callbacks from a listener it has freed (and, when it never clears
\* them, only from that one), and that a thread in event_del has the lock while a
\* callback runs.
ListenerType ==
  [cb : BOOLEAN, errorcb : BOOLEAN, refcnt : 0..2, enabled : BOOLEAN, pending : BOOLEAN,
   lock : {"none", "loop", "thread"},
   pc : {"idle", "running", "accepting", "callback", "error_callback"},
   thread : Calls \cup {"idle"}, calls : Nat, freed : BOOLEAN, user : BOOLEAN]
ListenerInv ==
  /\ l \in ListenerType /\ conn \in [Conn -> {"none", "waiting", "given", "closed"}]
  /\ ListenerKept
  /\ ~l.user => ~l.cb /\ ~l.errorcb
  /\ l.user => l.cb
  /\ l.freed => ~l.pending
  /\ l.thread # "idle" => l.lock = "thread" /\ l.pc # "idle"
===============================================================================
