------------------------------ MODULE EventBase ------------------------------
(***************************************************************************)
(* struct event_base and its loop (event.c): the queues an event can be    *)
(* on, event_base_loop with its timers, common timeouts, priorities and    *)
(* deferred callbacks, and the calls that callbacks and other threads make *)
(* meanwhile (event_add, event_del, event_active, loopbreak, ...).         *)
(*                                                                         *)
(* What runs under th_base_lock is atomic with respect to other threads:   *)
(* they take steps only where the loop has released the lock (pc in        *)
(* Unlocked: in dispatch and in callbacks).  The loop's own work between   *)
(* two releases is split into steps for readability only.                  *)
(*                                                                         *)
(* Abstractions.  Each I/O or signal event has a descriptor of its own, so *)
(* evmap always reports a change to the backend (several events on one     *)
(* descriptor: module Evmap).  The timer heap is the set of events whose   *)
(* flags and due time say that they are in it (its array: module MinHeap). *)
(* Allocation, system calls other than dispatch, and condition variables   *)
(* do not fail or wake spuriously.                                         *)
(***************************************************************************)
EXTENDS Integers, Sequences, FiniteSets, SequencesExt

CONSTANTS
  UserEvent,    \* the events of the program
  LoopExit,     \* those of them that event_base_loopexit allocates
  th_notify,    \* the internal event that other threads wake the loop with
  CommonQueue,  \* common timeout queues, each named by its internal timer
  NoQueue,      \* the queue of a due time without a common-timeout index
  EvEvents,     \* EvEvents[e]: "READ" or "SIGNAL", or nothing for a timer
  Persist,      \* events with EV_PERSIST
  InitPri,      \* InitPri[e]: the priority given to e before it is added
  NPrio,        \* nactivequeues
  Thread,       \* threads that use the base
  NoThread,
  NoEvent,      \* the NULL pointer
  Deferred,     \* struct deferred_cb objects
  MAX_DEFERRED, \* deferred callbacks run per iteration, 16 in the code
  Durations,    \* timeouts (not common ones) that callers ask for
  Duration,     \* Duration[c]: the timeout of common queue c
  NO_CACHE_TIME,\* EVENT_BASE_FLAG_NO_CACHE_TIME
  Ncalls,       \* the values of ncalls that signals are activated with
  MaxVirtual,   \* bound on virtual_event_count
  MaxTime,      \* bound on the clock
  Uses          \* the ways in which programs use a base, see use below

Event    == UserEvent \cup {th_notify} \cup CommonQueue
Internal == {th_notify} \cup CommonQueue
Prio     == 0 .. NPrio - 1
Inf      == 4 * MaxTime   \* later than every due time

\* A struct timeval argument or field: a duration, or a time, and the common
\* timeout index that the top bits of tv_usec carry.
NoTv   == [d |-> -1, c |-> NoQueue]   \* NULL
ZeroTv == [d |-> 0,  c |-> NoQueue]
TvArg  == {[d |-> x, c |-> NoQueue] : x \in Durations}
            \cup {[d |-> Duration[c], c |-> c] : c \in CommonQueue}

ASSUME BaseAssumption ==
  /\ LoopExit \subseteq UserEvent
  /\ th_notify \notin UserEvent \cup CommonQueue
  /\ UserEvent \cap CommonQueue = {}
  /\ NoEvent \notin Event
  /\ Persist \cap CommonQueue = {}
  /\ NoQueue \notin Event
  /\ NoThread \notin Thread
  /\ NPrio \in Nat \ {0}
  /\ MaxTime \in Nat \ {0} /\ MaxVirtual \in Nat
  /\ EvEvents \in [UserEvent -> SUBSET {"READ", "SIGNAL"}]
  /\ InitPri \in [UserEvent -> Prio]
  /\ Ncalls \subseteq Nat
  /\ Durations \subseteq Nat
  /\ Duration \in [CommonQueue -> Nat \ {0}]
  /\ \A u \in Uses : /\ u.events \subseteq UserEvent
                     /\ u.threads \subseteq Thread
                     /\ u.tvs \subseteq TvArg
                     /\ u.until \in 1 .. MaxTime

Signal(e) == e \in UserEvent /\ "SIGNAL" \in EvEvents[e]
HasFd(e)  == e = th_notify \/ (e \in UserEvent /\ EvEvents[e] # {})
IsPersist(e) == e \in Persist \cup {th_notify}
\* event_assign: EV_CLOSURE_PERSIST is for persistent events but signals.
PersistClosure(e) == IsPersist(e) /\ ~Signal(e)

VARIABLES
  b,            \* the queues and the fields of the events, see Queues below
  ebreak,       \* event_break
  gotterm,      \* event_gotterm
  is_notify_pending,
  notify_fd,    \* bytes written to th_notify_fd and not yet read
  current_event,
  lncalls,      \* the local ncalls of a running event_signal_closure
  owner,        \* th_owner_id
  tv_cache,     \* 0 when there is no cached time
  clock,        \* CLOCK_MONOTONIC
  virtual,      \* virtual_event_count
  deferq,       \* defer_queue
  loop,         \* the locals of event_base_loop, see IdleLoop below
  wait,         \* what each thread blocked in EVTHREAD_COND_WAIT will do
  use           \* what this program does with the base: the calls it makes, the
                \* events and timeouts it makes them with, the threads that make
                \* them, the flags of event_base_loop, and when the clock stops

vars == <<b, ebreak, gotterm, is_notify_pending, notify_fd, current_event,
          lncalls, owner, tv_cache, clock, virtual, deferq, loop, wait, use>>

pc == loop.pc

\* Where event_base_loop does not hold th_base_lock.
Unlocked == {"idle", "poll", "cb", "drain", "cbret", "dcb"}

-------------------------------------------------------------------------------
(***************************************************************************)
(* The queues.  b.flags[e] is ev_flags without EVLIST_INTERNAL;            *)
(* b.tmo[e] is ev_timeout and b.io[e] is ev_io_timeout.                    *)
(***************************************************************************)
Heap(s) == {e \in Event : "TIMEOUT" \in s.flags[e] /\ s.tmo[e].c = NoQueue}

Tops(s) == {e \in Heap(s) : \A f \in Heap(s) : s.tmo[e].d <= s.tmo[f].d}

TAILQ_REMOVE(s, e) == RemoveFirst(s, e)

\* The search from the end: after the last event that is due no later.
insert_common_timeout_inorder(s, list, e) ==
  LET earlier == {j \in 1 .. Len(list) : s.tmo[list[j]].d <= s.tmo[e].d}
      i == Max(earlier \cup {0})
  IN  SubSeq(list, 1, i) \o <<e>> \o SubSeq(list, i + 1, Len(list))

Counted(e) == IF e \in Internal THEN 0 ELSE 1

\* Mutant of event_queue_insert: active events are inserted at the head.
InsertAtHead(s, e, queue) ==
  LET t == [s EXCEPT !.flags[e] = @ \cup {queue}, !.count = @ + Counted(e)]
  IN  IF queue = "ACTIVE"
        THEN [t EXCEPT !.nactive = @ + 1, !.activeq[s.pri[e]] = <<e>> \o @]
        ELSE t

event_queue_insert(s, e, queue) ==
  LET t == [s EXCEPT !.flags[e] = @ \cup {queue}, !.count = @ + Counted(e)]
      c == s.tmo[e].c
  IN  CASE queue = "INSERTED" -> t
        [] queue = "ACTIVE" ->
             [t EXCEPT !.nactive = @ + 1,
                       !.activeq[s.pri[e]] = Append(@, e)]
        [] queue = "TIMEOUT" ->
             IF c = NoQueue THEN t
             ELSE [t EXCEPT !.ctl[c] = insert_common_timeout_inorder(s, @, e)]

event_queue_remove(s, e, queue) ==
  LET t == [s EXCEPT !.flags[e] = @ \ {queue}, !.count = @ - Counted(e)]
      c == s.tmo[e].c
  IN  CASE queue = "INSERTED" -> t
        [] queue = "ACTIVE" ->
             [t EXCEPT !.nactive = @ - 1,
                       !.activeq[s.pri[e]] = TAILQ_REMOVE(@, e)]
        [] queue = "TIMEOUT" ->
             IF c = NoQueue THEN t ELSE [t EXCEPT !.ctl[c] = TAILQ_REMOVE(@, e)]

RemoveIf(s, e, queue) ==
  IF queue \in s.flags[e] THEN event_queue_remove(s, e, queue) ELSE s

\* Mutant of event_active_nolock: a higher priority does not interrupt.
ActiveNoContinue(s, e, res, n) ==
  IF "ACTIVE" \in s.flags[e] THEN [s EXCEPT !.res[e] = @ \cup {res}]
  ELSE event_queue_insert([s EXCEPT !.res[e] = {res},
                                    !.ncalls[e] = IF Signal(e) THEN n ELSE @],
                          e, "ACTIVE")

\* event_active_nolock, for a caller that need not wait for a signal callback
\* of e.  A fresh activation of a signal resets its calls.
event_active_nolock(s, e, res, n) ==
  LET t == [s EXCEPT !.res[e] = {res},
                     !.continue = @ \/ s.pri[e] < s.running_priority,
                     !.ncalls[e] = IF Signal(e) THEN n ELSE @,
                     !.pncalls[e] = IF Signal(e) THEN FALSE ELSE @]
  IN  IF "ACTIVE" \in s.flags[e]
        THEN [s EXCEPT !.res[e] = @ \cup {res}]
        ELSE event_queue_insert(t, e, "ACTIVE")

\* event_del_internal, once the wait for the callback of e is over.
event_del_internal(s, e) ==
  RemoveIf(RemoveIf(RemoveIf(s, e, "TIMEOUT"), e, "ACTIVE"), e, "INSERTED")

\* The timeout half of event_add_internal: e becomes due at `at'.  An event
\* that is active because of its old timeout is active no more.
Reschedule(s, e, at) ==
  LET t == RemoveIf(s, e, "TIMEOUT")
      u == IF "TIMEOUT" \in t.res[e] THEN RemoveIf(t, e, "ACTIVE") ELSE t
  IN  event_queue_insert([u EXCEPT !.tmo[e] = at], e, "TIMEOUT")

\* Mutant of common_timeout_schedule: the queue's timer is left as it was.
NoSchedule(s, c) == s

\* The timer of queue c is set to the first event of the queue.
common_timeout_schedule(s, c) ==
  Reschedule(s, c, [d |-> s.tmo[Head(s.ctl[c])].d, c |-> NoQueue])

InsertBranch(s, e) == HasFd(e) /\ s.flags[e] \cap {"INSERTED", "ACTIVE"} = {}

\* event_add_internal: tv is NoTv for NULL; with tv_is_absolute its d is a time.
event_add_internal(s, e, tv, absolute, now) ==
  LET t == IF InsertBranch(s, e) THEN event_queue_insert(s, e, "INSERTED") ELSE s
      u == IF PersistClosure(e) /\ ~absolute THEN [t EXCEPT !.io[e] = tv] ELSE t
      v == Reschedule(u, e, [tv EXCEPT !.d = IF absolute THEN @ ELSE now + @])
  IN  IF tv = NoTv THEN t
      ELSE IF tv.c # NoQueue /\ Head(v.ctl[tv.c]) = e
        THEN common_timeout_schedule(v, tv.c)
        ELSE v

\* min_heap_elt_is_top when top is the heap's first event.  For an event in a
\* common timeout queue the index shares its memory with the link to the next
\* event of the queue, so the last event of a queue looks like the top.
min_heap_elt_is_top(s, e, top) ==
  IF s.tmo[e].c = NoQueue THEN e = top
  ELSE LET list == s.ctl[s.tmo[e].c] IN list[Len(list)] = e

\* e is the first event of the heap of s: a push stops below an equal time.
BecomesTop(s, e) ==
  e \in Heap(s) /\ \A f \in Heap(s) \ {e} : s.tmo[e].d < s.tmo[f].d

\* Mutant of AddNotifies: a common timeout is left to its queue's timer.
AddNotifiesOutside(s, e, tv, now, top) ==
  \/ InsertBranch(s, e)
  \/ /\ tv # NoTv /\ tv.c = NoQueue
     /\ BecomesTop(event_add_internal(s, e, tv, FALSE, now), e)

\* Whether event_add_internal asks to wake the loop, for itself or in the
\* nested event_add_internal of common_timeout_schedule.
AddNotifies(s, e, tv, now, top) ==
  LET t == event_add_internal(s, e, tv, FALSE, now)
  IN  \/ InsertBranch(s, e)
      \/ /\ tv # NoTv
         /\ \/ "TIMEOUT" \in s.flags[e] /\ min_heap_elt_is_top(s, e, top)
            \/ tv.c = NoQueue /\ BecomesTop(t, e)
            \/ /\ tv.c # NoQueue /\ Head(t.ctl[tv.c]) = e
               /\ BecomesTop(t, tv.c) \/ tv.c = top

-------------------------------------------------------------------------------
(***************************************************************************)
(* Time, and waking the loop.                                              *)
(***************************************************************************)
gettime == IF tv_cache # 0 THEN tv_cache ELSE clock

update_time_cache == tv_cache' = IF NO_CACHE_TIME THEN 0 ELSE clock

event_haveevents == virtual > 0 \/ b.count > 0

N_ACTIVE_CALLBACKS(s) == s.nactive + Len(deferq)

EVBASE_IN_THREAD(t)   == owner = t
EVBASE_NEED_NOTIFY(t) == pc # "idle" /\ owner # t

evthread_notify_base ==
  /\ is_notify_pending' = TRUE
  /\ notify_fd' = IF is_notify_pending THEN notify_fd ELSE notify_fd + 1

NotifyIf(cond) ==
  IF cond THEN evthread_notify_base ELSE UNCHANGED <<is_notify_pending, notify_fd>>

(***************************************************************************)
(* *ev->ev_pncalls = 0.  The pointer is to the local variable of the       *)
(* event_signal_closure of e; if that closure is no longer running, the    *)
(* write goes to a dead stack frame and may hit the local variable of      *)
(* another one or nothing the program will read again.                     *)
(***************************************************************************)
AbortSignalLoop(e, cond) ==
  IF cond /\ Signal(e) /\ b.ncalls[e] # 0 /\ b.pncalls[e]
    THEN IF current_event = e THEN lncalls' = 0 ELSE lncalls' \in {lncalls, 0}
    ELSE UNCHANGED lncalls

\* The loop thread may call the API from a callback of the program; another
\* thread whenever the lock is free and it is not itself blocked.
InUserCallback ==
  \/ pc = "dcb"
  \/ pc = "cb" /\ current_event \in UserEvent \ LoopExit
MayCall(t) ==
  /\ t \in use.threads /\ wait[t].st = "none"
  /\ IF pc # "idle" /\ t = owner THEN InUserCallback ELSE pc \in Unlocked

NotWaiting == [st |-> "none", op |-> "none", e |-> NoEvent, tv |-> NoTv, n |-> 0]

\* EVTHREAD_COND_WAIT for the end of the callback of e.
CondWait(t, op, e, tv, n) ==
  wait' = [wait EXCEPT ![t] = [st |-> "waiting", op |-> op, e |-> e, tv |-> tv, n |-> n]]

MustWait(t, e) == current_event = e /\ ~EVBASE_IN_THREAD(t)

-------------------------------------------------------------------------------
(***************************************************************************)
(* The calls of the API.                                                   *)
(***************************************************************************)
LoopVars == <<ebreak, gotterm, current_event, owner, tv_cache, clock, virtual,
              deferq, loop, use>>

AddNow(t, e, tv) ==
  /\ b' = event_add_internal(b, e, tv, FALSE, gettime)
  /\ AbortSignalLoop(e, tv # NoTv /\ "ACTIVE" \in b.flags[e] /\ "TIMEOUT" \in b.res[e])
  /\ \E top \in Tops(b) \cup {NoEvent} :
       /\ Tops(b) # {} => top # NoEvent
       /\ NotifyIf(EVBASE_NEED_NOTIFY(t) /\ AddNotifies(b, e, tv, gettime, top))

event_add(t, e, tv) ==
  /\ "add" \in use.calls /\ MayCall(t)
  /\ tv # NoTv => gettime + tv.d <= use.until
  /\ \/ /\ Signal(e) /\ MustWait(t, e)
        /\ CondWait(t, "add", e, tv, 0)
        /\ UNCHANGED <<b, lncalls, is_notify_pending, notify_fd>>
     \/ /\ ~(Signal(e) /\ MustWait(t, e))
        /\ AddNow(t, e, tv)
        /\ UNCHANGED wait
  /\ UNCHANGED LoopVars

DelNow(t, e) ==
  /\ b' = event_del_internal(b, e)
  /\ AbortSignalLoop(e, TRUE)
  /\ NotifyIf(EVBASE_NEED_NOTIFY(t) /\ "INSERTED" \in b.flags[e])

event_del(t, e) ==
  /\ "del" \in use.calls /\ MayCall(t)
  /\ \/ /\ MustWait(t, e)
        /\ CondWait(t, "del", e, NoTv, 0)
        /\ UNCHANGED <<b, lncalls, is_notify_pending, notify_fd>>
     \/ /\ ~MustWait(t, e)
        /\ DelNow(t, e)
        /\ UNCHANGED wait
  /\ UNCHANGED LoopVars

WakeForActive(t) == NotifyIf(EVBASE_NEED_NOTIFY(t))

\* A thread that has to wait has already set ev_res and event_continue.
event_active(t, e, n) ==
  LET waits == "ACTIVE" \notin b.flags[e] /\ Signal(e) /\ MustWait(t, e)
  IN  /\ "active" \in use.calls /\ MayCall(t)
      /\ IF waits
           THEN /\ b' = [b EXCEPT !.res[e] = {"IO"},
                                  !.continue = @ \/ b.pri[e] < b.running_priority]
                /\ CondWait(t, "active", e, NoTv, n)
                /\ UNCHANGED <<is_notify_pending, notify_fd>>
           ELSE /\ b' = event_active_nolock(b, e, "IO", n)
                /\ IF "ACTIVE" \in b.flags[e]
                     THEN UNCHANGED <<is_notify_pending, notify_fd>>
                     ELSE WakeForActive(t)
                /\ UNCHANGED wait
      /\ UNCHANGED <<lncalls, LoopVars>>

\* Mutant of Resume: event_active inserts without looking at the flags again.
ResumeInserts(t) ==
  LET w == wait[t]
  IN  /\ w.st = "woken" /\ w.op = "active"
      /\ pc \in Unlocked
      /\ wait' = [wait EXCEPT ![t] = NotWaiting]
      /\ b' = event_queue_insert([b EXCEPT !.ncalls[w.e] = w.n], w.e, "ACTIVE")
      /\ WakeForActive(t)
      /\ UNCHANGED <<lncalls, LoopVars>>

\* The rest of a call that waited, once it has been woken and has the lock.
\* Nothing is checked again: the loop may be running the callback anew.
Resume(t) ==
  LET w == wait[t]
  IN  /\ w.st = "woken"
      /\ pc \in Unlocked
      /\ wait' = [wait EXCEPT ![t] = NotWaiting]
      /\ \/ w.op = "add" /\ AddNow(t, w.e, w.tv)
         \/ w.op = "del" /\ DelNow(t, w.e)
         \/ /\ w.op = "active"
            /\ LET s == [b EXCEPT !.ncalls[w.e] = w.n, !.pncalls[w.e] = FALSE]
               IN  b' = IF "ACTIVE" \in b.flags[w.e] THEN s
                        ELSE event_queue_insert(s, w.e, "ACTIVE")
            /\ WakeForActive(t)
            /\ UNCHANGED lncalls
      /\ UNCHANGED LoopVars

\* Mutant of event_base_loopbreak: the loop is not woken.
BreakQuietly(t) ==
  /\ "break" \in use.calls /\ MayCall(t)
  /\ ebreak' = TRUE
  /\ UNCHANGED <<b, gotterm, is_notify_pending, notify_fd, current_event, lncalls,
                 owner, tv_cache, clock, virtual, deferq, loop, wait, use>>

event_base_loopbreak(t) ==
  /\ "break" \in use.calls /\ MayCall(t)
  /\ ebreak' = TRUE
  /\ NotifyIf(EVBASE_NEED_NOTIFY(t))
  /\ UNCHANGED <<b, gotterm, current_event, lncalls, owner, tv_cache, clock,
                 virtual, deferq, loop, wait, use>>

\* event_base_once allocates a timer whose callback is event_loopexit_cb.
event_base_loopexit(t, x, d) ==
  /\ "exit" \in use.calls /\ MayCall(t)
  /\ b.flags[x] = {} /\ current_event # x
  /\ gettime + d <= use.until
  /\ AddNow(t, x, [d |-> d, c |-> NoQueue])
  /\ UNCHANGED <<wait, LoopVars>>

event_base_add_virtual(t) ==
  /\ "virtual" \in use.calls /\ MayCall(t)
  /\ virtual < MaxVirtual
  /\ virtual' = virtual + 1
  /\ UNCHANGED <<b, ebreak, gotterm, is_notify_pending, notify_fd, current_event,
                 lncalls, owner, tv_cache, clock, deferq, loop, wait, use>>

\* The caller undoes an earlier event_base_add_virtual.
event_base_del_virtual(t) ==
  /\ "virtual" \in use.calls /\ MayCall(t)
  /\ virtual > 0
  /\ virtual' = virtual - 1
  /\ NotifyIf(virtual = 1 /\ EVBASE_NEED_NOTIFY(t))
  /\ UNCHANGED <<b, ebreak, gotterm, current_event, lncalls, owner, tv_cache,
                 clock, deferq, loop, wait, use>>

Queued(cb) == cb \in ToSet(deferq)

event_deferred_cb_schedule(t, cb) ==
  /\ "defer" \in use.calls /\ MayCall(t)
  /\ ~Queued(cb)
  /\ deferq' = Append(deferq, cb)
  /\ NotifyIf(EVBASE_NEED_NOTIFY(t))
  /\ UNCHANGED <<b, ebreak, gotterm, current_event, lncalls, owner, tv_cache,
                 clock, virtual, loop, wait, use>>

event_deferred_cb_cancel(t, cb) ==
  /\ "defer" \in use.calls /\ MayCall(t)
  /\ Queued(cb)
  /\ deferq' = TAILQ_REMOVE(deferq, cb)
  /\ UNCHANGED <<b, ebreak, gotterm, is_notify_pending, notify_fd, current_event,
                 lncalls, owner, tv_cache, clock, virtual, loop, wait, use>>

\* Refused while the event is active.  It takes no lock, so only the thread
\* of the loop, or any thread while no loop runs, can use it safely.
event_priority_set(t, e, pri) ==
  /\ "priority" \in use.calls /\ MayCall(t)
  /\ pc = "idle" \/ EVBASE_IN_THREAD(t)
  /\ "ACTIVE" \notin b.flags[e]
  /\ b' = [b EXCEPT !.pri[e] = pri]
  /\ UNCHANGED <<lncalls, is_notify_pending, notify_fd, wait, LoopVars>>

-------------------------------------------------------------------------------
(***************************************************************************)
(* event_base_loop.  loop.qi is the queue event_process_active is at,      *)
(* loop.ran whether event_process_active_single_queue counted an event,    *)
(* loop.dcount the deferred callbacks run, loop.until the clock value at   *)
(* which dispatch gives up (Inf: never), loop.target the due time that     *)
(* value was derived from, and loop.todo the events dispatch found ready.  *)
(***************************************************************************)
IdleLoop == [pc |-> "idle", flags |-> {}, qi |-> 0, ran |-> FALSE,
             dcount |-> 0, until |-> 0, target |-> 0, todo |-> {}]

\* Init: the base is set up, and made notifiable: th_notify is added.
Init ==
  /\ b = [flags    |-> [e \in Event |-> IF e = th_notify THEN {"INSERTED"} ELSE {}],
          pri      |-> [e \in Event |-> IF e \in UserEvent THEN InitPri[e] ELSE 0],
          tmo      |-> [e \in Event |-> ZeroTv],
          io       |-> [e \in Event |-> ZeroTv],
          res      |-> [e \in Event |-> {}],
          ncalls   |-> [e \in Event |-> 0],
          pncalls  |-> [e \in Event |-> FALSE],
          activeq  |-> [i \in Prio |-> <<>>],
          ctl      |-> [c \in CommonQueue |-> <<>>],
          count    |-> 0,
          nactive  |-> 0,
          continue |-> FALSE,
          running_priority |-> -1]
  /\ ebreak = FALSE /\ gotterm = FALSE
  /\ is_notify_pending = FALSE /\ notify_fd = 0
  /\ current_event = NoEvent /\ lncalls = 0
  /\ owner = NoThread
  /\ tv_cache = 0 /\ clock = 1
  /\ virtual = 0 /\ deferq = <<>>
  /\ loop = IdleLoop
  /\ wait = [t \in Thread |-> NotWaiting]
  /\ use \in Uses

\* A second, reentrant call returns at once and changes nothing.
LoopStart(t, flags) ==
  /\ pc = "idle" /\ t \in use.threads /\ wait[t].st = "none"
  /\ owner' = t
  /\ gotterm' = FALSE /\ ebreak' = FALSE
  /\ tv_cache' = 0
  /\ loop' = [IdleLoop EXCEPT !.pc = "top", !.flags = flags]
  /\ UNCHANGED <<b, is_notify_pending, notify_fd, current_event, lncalls, clock,
                 virtual, deferq, wait, use>>

ExitLoop == loop' = IdleLoop /\ tv_cache' = 0

\* The head of the while loop up to the release of the lock in dispatch.
\* timeout_next computes the sleep with the cached time of the iteration
\* before, so dispatch gives up that much later.
Top ==
  LET next    == IF Tops(b) = {} THEN Inf
                 ELSE LET e == CHOOSE e \in Tops(b) : TRUE IN b.tmo[e].d
      asleep  == next > gettime
      nowait  == N_ACTIVE_CALLBACKS(b) > 0 \/ "NONBLOCK" \in loop.flags
  IN  /\ pc = "top"
      /\ b' = [b EXCEPT !.continue = FALSE]
      /\ IF gotterm \/ ebreak \/ (~event_haveevents /\ N_ACTIVE_CALLBACKS(b) = 0)
           THEN ExitLoop
           ELSE /\ tv_cache' = 0
                /\ loop' = [loop EXCEPT
                     !.pc = "poll",
                     !.target = IF nowait THEN 0 ELSE next,
                     !.until = IF nowait \/ ~asleep THEN clock
                               ELSE IF next = Inf THEN Inf
                               ELSE clock + next - gettime]
      /\ UNCHANGED <<ebreak, gotterm, is_notify_pending, notify_fd, current_event,
                     lncalls, owner, clock, virtual, deferq, wait, use>>

\* What dispatch may report: any I/O or signal event that is added, and
\* th_notify only if something is written to its descriptor.
Ready == {e \in Event : /\ "INSERTED" \in b.flags[e]
                        /\ e = th_notify => notify_fd > 0}

\* dispatch returns with the lock: something is ready, the time is over, or a
\* signal interrupted it (which can happen at any time).  It may miss a write
\* to th_notify_fd between the return of the system call and the lock.
Dispatch(S) ==
  /\ pc = "poll"
  /\ S \subseteq Ready
  /\ update_time_cache
  /\ loop' = [loop EXCEPT !.pc = "io", !.todo = S, !.until = 0, !.target = 0]
  /\ UNCHANGED <<b, ebreak, gotterm, is_notify_pending, notify_fd, current_event,
                 lncalls, owner, clock, virtual, deferq, wait, use>>

\* dispatch fails, and the loop returns -1.
DispatchError ==
  /\ "error" \in use.calls
  /\ pc = "poll"
  /\ ExitLoop
  /\ UNCHANGED <<b, ebreak, gotterm, is_notify_pending, notify_fd, current_event,
                 lncalls, owner, clock, virtual, deferq, wait, use>>

\* evmap_io_active and evmap_signal_active, in the order of the descriptors.
ActivateReady(e, n) ==
  /\ pc = "io" /\ e \in loop.todo
  /\ b' = event_active_nolock(b, e, "IO", n)
  /\ loop' = [loop EXCEPT !.todo = @ \ {e}]
  /\ UNCHANGED <<ebreak, gotterm, is_notify_pending, notify_fd, current_event,
                 lncalls, owner, tv_cache, clock, virtual, deferq, wait, use>>

\* An iteration of timeout_process: the event is deleted and made active.
timeout_process(e) ==
  /\ pc = "io" /\ loop.todo = {}
  /\ e \in Tops(b) /\ b.tmo[e].d <= gettime
  /\ b' = event_active_nolock(event_del_internal(b, e), e, "TIMEOUT", 1)
  /\ AbortSignalLoop(e, TRUE)
  /\ UNCHANGED <<ebreak, gotterm, is_notify_pending, notify_fd, current_event,
                 owner, tv_cache, clock, virtual, deferq, loop, wait, use>>

\* After timeout_process: run the callbacks, if there are any.
ProcessOrNot ==
  /\ pc = "io" /\ loop.todo = {}
  /\ \A e \in Tops(b) : b.tmo[e].d > gettime
  /\ IF N_ACTIVE_CALLBACKS(b) > 0
       THEN /\ loop' = [loop EXCEPT !.pc = "scan", !.qi = 0, !.ran = FALSE,
                                    !.dcount = 0]
            /\ UNCHANGED tv_cache
       ELSE IF "NONBLOCK" \in loop.flags THEN ExitLoop
       ELSE loop' = [loop EXCEPT !.pc = "top"] /\ UNCHANGED tv_cache
  /\ UNCHANGED <<b, ebreak, gotterm, is_notify_pending, notify_fd, current_event,
                 lncalls, owner, clock, virtual, deferq, wait, use>>

-------------------------------------------------------------------------------
(***************************************************************************)
(* event_process_active and event_process_active_single_queue.             *)
(***************************************************************************)
NextQueue ==
  /\ pc = "scan" /\ loop.qi < NPrio
  /\ b.activeq[loop.qi] = <<>>
  /\ loop' = [loop EXCEPT !.qi = @ + 1]
  /\ UNCHANGED <<b, ebreak, gotterm, is_notify_pending, notify_fd, current_event,
                 lncalls, owner, tv_cache, clock, virtual, deferq, wait, use>>

\* event_persist_closure: the event is due again one period after it was due,
\* or after now if it did not time out or a period was missed.
PersistRearm(s, e) ==
  LET io     == s.io[e]
      start  == IF "TIMEOUT" \in s.res[e] THEN s.tmo[e].d ELSE gettime
      run_at == IF start + io.d < gettime THEN gettime + io.d ELSE start + io.d
  IN  IF PersistClosure(e) /\ io.d # 0
        THEN event_add_internal(s, e, [d |-> run_at, c |-> io.c], TRUE, gettime)
        ELSE s

\* The calls that are left after the first one of event_signal_closure; with
\* no calls at all the callback is not made.
SignalEnter(s, e) ==
  LET n == s.ncalls[e]
  IN  IF ~Signal(e) \/ n = 0 THEN s
      ELSE [s EXCEPT !.ncalls[e] = n - 1, !.pncalls[e] = (n > 1)]

Pick ==
  LET e == Head(b.activeq[loop.qi])
      r == IF IsPersist(e) THEN event_queue_remove(b, e, "ACTIVE")
           ELSE event_del_internal(b, e)
      s == [r EXCEPT !.running_priority = loop.qi]
  IN  /\ pc = "scan" /\ loop.qi < NPrio
      /\ b.activeq[loop.qi] # <<>>
      /\ b' = SignalEnter(PersistRearm(s, e), e)
      /\ lncalls' = IF Signal(e) /\ b.ncalls[e] > 0 THEN b.ncalls[e] - 1 ELSE 0
      /\ current_event' = e
      /\ loop' = [loop EXCEPT !.pc = IF Signal(e) /\ b.ncalls[e] = 0 THEN "cbret"
                                     ELSE "cb",
                              !.ran = @ \/ e \notin Internal]
      /\ UNCHANGED <<ebreak, gotterm, is_notify_pending, notify_fd, owner, tv_cache,
                     clock, virtual, deferq, wait, use>>

\* Mutant of AfterCallback: no broadcast.
AfterNoBroadcast(s) ==
  /\ current_event' = NoEvent
  /\ lncalls' = 0
  /\ b' = [s EXCEPT !.running_priority = IF ebreak THEN -1 ELSE @]
  /\ loop' = [loop EXCEPT !.pc = IF ebreak THEN "looped" ELSE "scan"]
  /\ UNCHANGED <<ebreak, gotterm, is_notify_pending, notify_fd, owner, tv_cache,
                 clock, virtual, deferq, wait, use>>

\* The callback of an event has returned and the lock is taken again: wake the
\* threads that waited for it and go on with the same queue, with the next
\* one if only internal events ran, or stop.
AfterCallback(s) ==
  LET stay == ~s.continue /\ s.activeq[loop.qi] # <<>>
  IN  /\ current_event' = NoEvent
      /\ lncalls' = 0
      /\ wait' = [t \in Thread |-> IF wait[t].st = "waiting"
                                    THEN [wait[t] EXCEPT !.st = "woken"]
                                    ELSE wait[t]]
      /\ IF ebreak
           THEN /\ b' = [s EXCEPT !.running_priority = -1]
                /\ loop' = [loop EXCEPT !.pc = "looped"]
           ELSE /\ b' = s
                /\ loop' = [loop EXCEPT !.pc = "scan",
                                        !.qi = IF stay THEN @
                                               ELSE IF loop.ran THEN NPrio
                                               ELSE @ + 1]
      /\ UNCHANGED <<ebreak, gotterm, is_notify_pending, notify_fd, owner, tv_cache,
                     clock, virtual, deferq, use>>

\* The callback of an event that is not a signal returns.
CallbackReturns ==
  /\ \/ pc = "cbret"
     \/ /\ pc = "cb" /\ current_event \in UserEvent \ LoopExit
        /\ ~Signal(current_event)
  /\ AfterCallback(b)

\* A call in the loop of event_signal_closure returns.  The next one is made
\* unless the loop is to break or the event was deleted meanwhile.
SignalCallReturns ==
  LET e == current_event
  IN  /\ pc = "cb" /\ Signal(e)
      /\ \/ /\ ~ebreak /\ lncalls > 0
            /\ lncalls' = lncalls - 1
            /\ b' = [b EXCEPT !.ncalls[e] = lncalls - 1,
                              !.pncalls[e] = @ /\ lncalls > 1]
            /\ UNCHANGED <<ebreak, gotterm, is_notify_pending, notify_fd,
                           current_event, owner, tv_cache, clock, virtual, deferq,
                           loop, wait, use>>
         \/ /\ ebreak /\ lncalls > 0
            /\ AfterCallback([b EXCEPT !.pncalls[e] = FALSE])
         \/ /\ lncalls = 0
            /\ AfterCallback(b)

\* event_loopexit_cb, then event_once_cb frees the event.
event_loopexit_cb ==
  /\ pc = "cb" /\ current_event \in LoopExit
  /\ gotterm' = TRUE
  /\ loop' = [loop EXCEPT !.pc = "cbret"]
  /\ UNCHANGED <<b, ebreak, is_notify_pending, notify_fd, current_event, lncalls,
                 owner, tv_cache, clock, virtual, deferq, wait, use>>

\* evthread_notify_drain_default and _eventfd: read without the lock ...
evthread_notify_drain ==
  /\ pc = "cb" /\ current_event = th_notify
  /\ notify_fd' = 0
  /\ loop' = [loop EXCEPT !.pc = "drain"]
  /\ UNCHANGED <<b, ebreak, gotterm, is_notify_pending, current_event, lncalls,
                 owner, tv_cache, clock, virtual, deferq, wait, use>>

\* ... then clear the flag under the lock.
DrainClears ==
  /\ pc = "drain"
  /\ is_notify_pending' = FALSE
  /\ loop' = [loop EXCEPT !.pc = "cbret"]
  /\ UNCHANGED <<b, ebreak, gotterm, notify_fd, current_event, lncalls, owner,
                 tv_cache, clock, virtual, deferq, wait, use>>

\* common_timeout_callback: each event of the queue that is due becomes
\* active; then the timer of the queue is set to the first one left.
common_timeout_callback ==
  LET c == current_event
      list == b.ctl[c]
  IN  /\ pc \in {"cb", "ctl"} /\ c \in CommonQueue
      /\ IF list # <<>> /\ b.tmo[Head(list)].d <= gettime
           THEN /\ b' = event_active_nolock(event_del_internal(b, Head(list)),
                                            Head(list), "TIMEOUT", 1)
                /\ loop' = [loop EXCEPT !.pc = "ctl"]
           ELSE /\ b' = IF list = <<>> THEN b ELSE common_timeout_schedule(b, c)
                /\ loop' = [loop EXCEPT !.pc = "cbret"]
      /\ UNCHANGED <<ebreak, gotterm, is_notify_pending, notify_fd, current_event,
                     lncalls, owner, tv_cache, clock, virtual, deferq, wait, use>>

\* Mutant of NextDeferred: the callbacks run are not counted.
DeferredUncounted ==
  /\ pc = "scan" /\ loop.qi = NPrio
  /\ IF deferq # <<>>
       THEN /\ deferq' = Tail(deferq)
            /\ loop' = [loop EXCEPT !.pc = "dcb"]
            /\ UNCHANGED b
       ELSE /\ b' = [b EXCEPT !.running_priority = -1]
            /\ loop' = [loop EXCEPT !.pc = "looped"]
            /\ UNCHANGED deferq
  /\ UNCHANGED <<ebreak, gotterm, is_notify_pending, notify_fd, current_event,
                 lncalls, owner, tv_cache, clock, virtual, wait, use>>

\* event_process_deferred_callbacks, after the last queue.
NextDeferred ==
  /\ pc = "scan" /\ loop.qi = NPrio
  /\ IF deferq # <<>> /\ loop.dcount < MAX_DEFERRED
       THEN /\ deferq' = Tail(deferq)
            /\ loop' = [loop EXCEPT !.pc = "dcb", !.dcount = @ + 1]
            /\ UNCHANGED b
       ELSE /\ b' = [b EXCEPT !.running_priority = -1]
            /\ loop' = [loop EXCEPT !.pc = "looped"]
            /\ UNCHANGED deferq
  /\ UNCHANGED <<ebreak, gotterm, is_notify_pending, notify_fd, current_event,
                 lncalls, owner, tv_cache, clock, virtual, wait, use>>

DeferredReturns ==
  /\ pc = "dcb"
  /\ IF ebreak
       THEN /\ b' = [b EXCEPT !.running_priority = -1]
            /\ loop' = [loop EXCEPT !.pc = "looped"]
       ELSE /\ loop' = [loop EXCEPT !.pc = "scan"]
            /\ UNCHANGED b
  /\ UNCHANGED <<ebreak, gotterm, is_notify_pending, notify_fd, current_event,
                 lncalls, owner, tv_cache, clock, virtual, deferq, wait, use>>

\* The end of an iteration.
Looped ==
  /\ pc = "looped"
  /\ IF /\ "ONCE" \in loop.flags
        /\ N_ACTIVE_CALLBACKS(b) = 0
        /\ loop.ran \/ ebreak
       THEN ExitLoop
       ELSE /\ loop' = [IdleLoop EXCEPT !.pc = "top", !.flags = loop.flags]
            /\ UNCHANGED tv_cache
  /\ UNCHANGED <<b, ebreak, gotterm, is_notify_pending, notify_fd, current_event,
                 lncalls, owner, clock, virtual, deferq, wait, use>>

Tick ==
  /\ clock < use.until
  /\ pc \in Unlocked
  /\ clock' = clock + 1
  /\ UNCHANGED <<b, ebreak, gotterm, is_notify_pending, notify_fd, current_event,
                 lncalls, owner, tv_cache, virtual, deferq, loop, wait, use>>

NcallsOf(e) == IF Signal(e) THEN Ncalls ELSE {1}

LoopStep ==
  \/ Top
  \/ \E e \in Event : \E n \in NcallsOf(e) : ActivateReady(e, n)
  \/ \E e \in Event : timeout_process(e)
  \/ ProcessOrNot
  \/ NextQueue \/ Pick \/ CallbackReturns \/ SignalCallReturns
  \/ event_loopexit_cb
  \/ evthread_notify_drain \/ DrainClears
  \/ common_timeout_callback
  \/ NextDeferred \/ DeferredReturns \/ Looped

CallStep(t) ==
  \/ \E e \in use.events \ LoopExit :
       \/ \E tv \in use.tvs \cup {NoTv} : event_add(t, e, tv)
       \/ event_del(t, e)
       \/ \E n \in NcallsOf(e) : event_active(t, e, n)
       \/ \E pri \in Prio : event_priority_set(t, e, pri)
  \/ event_base_loopbreak(t)
  \/ \E x \in LoopExit, d \in Durations \cup {0} : event_base_loopexit(t, x, d)
  \/ event_base_add_virtual(t)
  \/ event_base_del_virtual(t)
  \/ \E cb \in Deferred : \/ event_deferred_cb_schedule(t, cb)
                          \/ event_deferred_cb_cancel(t, cb)

Next ==
  \/ LoopStep
  \/ \E t \in Thread : \/ \E flags \in use.flags : LoopStart(t, flags)
                       \/ CallStep(t)
                       \/ Resume(t)
  \/ \E S \in SUBSET Event : Dispatch(S)
  \/ DispatchError
  \/ Tick

Spec == Init /\ [][Next]_vars

(***************************************************************************)
(* Fairness: the loop thread runs, its callbacks return, dispatch returns  *)
(* once its time is over or th_notify can be read, and a thread that was   *)
(* woken gets the lock in the end.  No caller has to make a call, no loop  *)
(* has to be started, and no descriptor has to become ready.               *)
(***************************************************************************)
DispatchWakes == \E S \in SUBSET Event : /\ notify_fd > 0 \/ clock >= loop.until
                                         /\ notify_fd > 0 => th_notify \in S
                                         /\ Dispatch(S)
Fairness == /\ WF_vars(LoopStep)
            /\ WF_vars(DispatchWakes)
            /\ \A t \in Thread : SF_vars(Resume(t))

FairSpec == Spec /\ Fairness

-------------------------------------------------------------------------------
(***************************************************************************)
(* Properties.                                                             *)
(***************************************************************************)
Flag == {"INSERTED", "ACTIVE", "TIMEOUT"}
Tv   == [d : Int, c : CommonQueue \cup {NoQueue}]
Base == [flags    : [Event -> SUBSET Flag],
         pri      : [Event -> Prio],
         tmo      : [Event -> Tv],
         io       : [Event -> Tv],
         res      : [Event -> SUBSET {"IO", "TIMEOUT"}],
         ncalls   : [Event -> Nat],
         pncalls  : [Event -> BOOLEAN],
         activeq  : [Prio -> Seq(Event)],
         ctl      : [CommonQueue -> Seq(Event)],
         count    : Int,
         nactive  : Int,
         continue : BOOLEAN,
         running_priority : Prio \cup {-1}]
LoopFlags  == {{}} \cup UNION {u.flags : u \in Uses}
LoopRecord == [pc : Unlocked \cup {"top", "io", "scan", "ctl", "looped"}, flags : LoopFlags,
               qi : 0 .. NPrio, ran : BOOLEAN, dcount : Nat,
               until : Int, target : Int, todo : SUBSET Event]
WaitRecord == [st : {"none", "waiting", "woken"},
               op : {"none", "add", "del", "active"},
               e : UserEvent \cup {NoEvent}, tv : Tv, n : Nat]

\* The types of the state: the flags, lists and counters of the base and its
\* events, what each thread is doing, and what is left on the stack of the loop.
TypeOK ==
  /\ b \in Base
  /\ {ebreak, gotterm, is_notify_pending} \subseteq BOOLEAN
  /\ notify_fd \in {0, 1}
  /\ current_event \in Event \cup {NoEvent}
  /\ lncalls \in Nat
  /\ owner \in Thread \cup {NoThread}
  /\ tv_cache \in 0 .. MaxTime /\ clock \in 1 .. MaxTime
  /\ virtual \in 0 .. MaxVirtual
  /\ deferq \in Seq(Deferred)
  /\ wait \in [Thread -> WaitRecord]
  /\ loop \in LoopRecord
  /\ use \in Uses

Active(s) == {e \in Event : "ACTIVE" \in s.flags[e]}
\* The flags that event_count counts.
UserFlags(s) == {x \in UserEvent \X Flag : x[2] \in s.flags[x[1]]}

\* Each list holds the events whose flags, priority and due time name it, once.
ActiveListed(s) ==
  \A i \in Prio : /\ ToSet(s.activeq[i]) = {e \in Active(s) : s.pri[e] = i}
                  /\ IsInjective(s.activeq[i])
TimeoutsListed(s) ==
  \A c \in CommonQueue :
    /\ ToSet(s.ctl[c]) = {e \in Event : "TIMEOUT" \in s.flags[e] /\ s.tmo[e].c = c}
    /\ IsInjective(s.ctl[c])
CountsRight(s) == /\ s.nactive = Cardinality(Active(s))
                  /\ s.count = Cardinality(UserFlags(s))

\* Each list holds exactly the events whose ev_flags say so, once, and an
\* active event is on the queue of its priority: event_queue_remove unlinks an
\* event from the list that its flags, ev_pri and ev_timeout name, unchecked.
\* The two counters, which decide when the loop stops, agree with the lists.
QueuesConsistent ==
  /\ TypeOK
  /\ ActiveListed(b) /\ TimeoutsListed(b) /\ CountsRight(b)
  /\ IsInjective(deferq)

\* No wakeup is lost: whenever dispatch would sleep on although there is work
\* that was not there when it went to sleep (an active event, a deferred
\* callback, a break, a timer due before the sleep ends, or nothing left to
\* wait for), the notification descriptor is readable.  The flag
\* is_notify_pending suppresses writes, and the drain reads the descriptor
\* before it takes the lock and clears the flag.
NoLostWakeup ==
  (pc = "poll" /\ loop.until > clock /\ notify_fd = 0) =>
    /\ N_ACTIVE_CALLBACKS(b) = 0
    /\ ~ebreak
    /\ \A e \in Heap(b) : b.tmo[e].d >= loop.target
    /\ loop.until = Inf => event_haveevents

InOrder(s, c) ==
  \A i, j \in 1 .. Len(s.ctl[c]) : i < j => s.tmo[s.ctl[c][i]].d <= s.tmo[s.ctl[c][j]].d
Timed(s, c) == \/ "TIMEOUT" \in s.flags[c] /\ s.tmo[c].d <= s.tmo[Head(s.ctl[c])].d
               \/ "ACTIVE" \in s.flags[c]

\* Events in a common timeout queue are due in the order of the list, and the
\* queue's one timer is pending no later than the first of them, or fired and
\* about to handle them: otherwise none of them would ever time out.  The
\* last part is the assertion in event_persist_closure: a persistent event
\* waits in the queue that its period names.
CommonQueueScheduled ==
  /\ \A c \in CommonQueue :
       /\ InOrder(b, c)
       /\ b.ctl[c] = <<>> \/ Timed(b, c) \/ (current_event = c /\ pc \in {"cb", "ctl"})
  /\ \A e \in Event : b.io[e].d # 0 => b.io[e].c = b.tmo[e].c

\* The loop never starts a callback while an event of a more important
\* (lower) priority is active, even one that was activated by an earlier
\* callback of the same iteration or by another thread: event_continue.
PriorityRespected ==
  [][current_event' \notin {NoEvent, current_event} =>
       \A f \in Event : "ACTIVE" \in b.flags[f] =>
                           b.pri[f] >= b.pri[current_event']]_vars

\* A thread that waits for a callback in event_add, event_del or event_active
\* goes on in the end: the loop broadcasts after every callback.
WaitersReleased ==
  \A t \in Thread : wait[t].st = "waiting" ~> wait[t].st = "none"

\* After event_base_loopbreak the loop returns, wherever it was and whatever
\* other threads keep adding and activating.
BreakStops == ebreak ~> (pc = "idle")

\* An active event of the most important priority is run, or is deactivated,
\* or the loop stops: no stream of activations by others can starve it.
ActiveServed ==
  \A e \in Event : ("ACTIVE" \in b.flags[e] /\ b.pri[e] = 0 /\ pc # "idle")
                    ~> ("ACTIVE" \notin b.flags[e] \/ b.pri[e] # 0 \/ pc = "idle")

\* Deferred callbacks that schedule each other for ever do not keep the loop
\* from polling: MAX_DEFERRED bounds how many run in an iteration.
DeferredYields == (pc = "dcb") ~> (pc \in {"poll", "idle"})

-------------------------------------------------------------------------------
(***************************************************************************)
(* Parts of the inductive invariant of module EventBaseProofs.             *)
(***************************************************************************)
\* The internal events, and the periods of persistent events.
KindsInv(s) ==
  /\ IsFiniteSet({e \in Event : s.flags[e] # {}})
  /\ "TIMEOUT" \notin s.flags[th_notify]
  /\ \A e \in Internal : s.pri[e] = 0 /\ s.io[e].d = 0
  /\ \A c \in CommonQueue : s.tmo[c].c = NoQueue
  /\ \A e \in Event : s.io[e].d # 0 => PersistClosure(e) /\ s.io[e].c = s.tmo[e].c

\* Nothing is due as late as Inf.
DueInv(s) ==
  \A e \in Event :
    /\ s.io[e].d \in 0 .. MaxTime
    /\ "TIMEOUT" \in s.flags[e] => s.tmo[e].d \in 0 .. 2 * MaxTime
    /\ PersistClosure(e) /\ "ACTIVE" \in s.flags[e] /\ "TIMEOUT" \in s.res[e] =>
         s.tmo[e].d <= MaxTime

\* Where the loop is while current_event is set.
InCallback == {"cb", "drain", "ctl", "cbret"}

LoopInv ==
  /\ current_event = NoEvent <=> pc \notin InCallback
  /\ pc = "ctl" => current_event \in CommonQueue
  /\ pc = "drain" => current_event = th_notify
  /\ pc \in InCallback => loop.qi < NPrio /\ b.running_priority = loop.qi
  /\ pc \notin InCallback \cup {"scan", "dcb"} => b.running_priority = -1
  /\ loop.todo # {} => pc = "io"

\* The byte in the pipe and the flag that stands for it.
NotifyInv ==
  /\ notify_fd = 1 => is_notify_pending
  /\ pc = "drain" <=> is_notify_pending /\ notify_fd = 0
  /\ (\/ th_notify \in loop.todo \cup Active(b)
      \/ pc = "cb" /\ current_event = th_notify) => notify_fd = 1
  /\ current_event = th_notify => th_notify \notin Active(b)

\* The thread of the loop never waits.
WaitInv ==
  \A t \in Thread :
    LET w == wait[t]
    IN  w.st # "none" => /\ owner # t
                         /\ w.e \in UserEvent /\ w.op \in {"add", "del", "active"}
                         /\ w.tv = NoTv \/ (w.tv \in TvArg /\ w.tv.d <= MaxTime)
                         /\ w.op = "active" => Signal(w.e)

-------------------------------------------------------------------------------
(***************************************************************************)
(* What documents and comments say and the code does not do.               *)
(***************************************************************************)

\* event_del_internal, comment on the wait for a running callback: "when this
\* function returns, it will be safe to free the user-supplied argument".
DelWaitsForCallback ==
  [][\A t \in Thread :
       (wait[t].st = "woken" /\ wait[t].op = "del" /\ wait'[t].st = "none")
         => current_event # wait[t].e]_vars

\* event_del_internal, comment on ev_ncalls and ev_pncalls both being set: "See
\* if we are just active executing this event in a loop".
PncallsMeansRunning ==
  \A e \in Event : (b.pncalls[e] /\ b.ncalls[e] # 0) => current_event = e
===============================================================================
