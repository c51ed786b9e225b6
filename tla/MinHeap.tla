------------------------------- MODULE MinHeap -------------------------------
(***************************************************************************)
(* The binary heap of timeouts of an event_base (minheap-internal.h), with *)
(* one step per iteration of its two sift loops.  The array p, its length  *)
(* n and its allocated length a are the fields of struct min_heap; each    *)
(* event stores its own position, ev_timeout_pos.min_heap_idx, and that    *)
(* back-pointer is what lets event_del remove a timer without a search.    *)
(*                                                                         *)
(* All calls are made with th_base_lock held, so calls do not interleave;  *)
(* the steps of one call are separate only so that its loops can be        *)
(* reasoned about by an inductive invariant.  A call that fails (realloc   *)
(* returns NULL, erase of an event that is not in the heap, pop of an      *)
(* empty heap) changes nothing and has no action.                          *)
(***************************************************************************)
EXTENDS Integers

CONSTANTS Event,    \* struct event objects
          Time,     \* the values of ev_timeout
          InitCap,  \* slots of the first allocation, 8 in the code
          NoEvent   \* the NULL pointer, also the content of a fresh slot

ASSUME HeapAssumption == /\ Time \subseteq Int
                         /\ InitCap \in Nat \ {0}
                         /\ NoEvent \notin Event

VARIABLES p,             \* the slots 0 .. a-1
          n,             \* how many of them hold the heap
          a,             \* how many are allocated
          min_heap_idx,  \* the position each event believes it has, or -1
          ev_timeout,    \* when each event is due
          pc,            \* "idle", "up" (in min_heap_shift_up_) or "down"
          hole_index,    \* the hole the running sift moves
          moving,        \* the event the sift looks a place for
          leaving,       \* the event the running pop or erase takes out
          call,          \* the running call: "push", "pop", "erase" or "none"
          popped         \* what the last call returned, if it was min_heap_pop

vars == <<p, n, a, min_heap_idx, ev_timeout, pc, hole_index, moving, leaving,
          call, popped>>

Parent(i) == (i - 1) \div 2

min_heap_elem_greater(x, y) == ev_timeout[x] > ev_timeout[y]

\* The allocated length after min_heap_reserve(s, k) succeeds.
Reserved(k) ==
  LET doubled == IF a # 0 THEN a * 2 ELSE InitCap
  IN  IF a >= k THEN a ELSE IF doubled < k THEN k ELSE doubled

min_heap_reserve(k) ==
  /\ a' = Reserved(k)
  /\ p' = [i \in 0 .. Reserved(k) - 1 |-> IF i < a THEN p[i] ELSE NoEvent]

\* min_heap_ctor, and for every event min_heap_elem_init and the cleared
\* ev_timeout of event_assign.
Init ==
  /\ p = [i \in 0 .. -1 |-> NoEvent]
  /\ n = 0
  /\ a = 0
  /\ min_heap_idx = [e \in Event |-> -1]
  /\ ev_timeout = [e \in Event |-> 0]
  /\ pc = "idle"
  /\ hole_index = 0
  /\ moving = NoEvent
  /\ leaving = NoEvent
  /\ call = "none"
  /\ popped = NoEvent

(***************************************************************************)
(* min_heap_push, called by event_queue_insert once event_add_internal has *)
(* set ev_timeout.                                                         *)
(***************************************************************************)
min_heap_push(e, t) ==
  /\ pc = "idle"
  /\ min_heap_idx[e] = -1
  /\ ev_timeout' = [ev_timeout EXCEPT ![e] = t]
  /\ min_heap_reserve(n + 1)
  /\ n' = n + 1
  /\ pc' = "up"
  /\ hole_index' = n
  /\ moving' = e
  /\ leaving' = NoEvent
  /\ call' = "push"
  /\ UNCHANGED <<min_heap_idx, popped>>

min_heap_pop ==
  /\ pc = "idle"
  /\ n > 0
  /\ n' = n - 1
  /\ pc' = "down"
  /\ hole_index' = 0
  /\ moving' = p[n - 1]
  /\ leaving' = p[0]
  /\ call' = "pop"
  /\ UNCHANGED <<p, a, min_heap_idx, ev_timeout, popped>>

\* Mutant of min_heap_erase: the last event is always sifted down.
EraseSiftsDown(e) ==
  /\ pc = "idle"
  /\ min_heap_idx[e] # -1
  /\ n' = n - 1
  /\ pc' = "down"
  /\ hole_index' = min_heap_idx[e]
  /\ moving' = p[n - 1]
  /\ leaving' = e
  /\ call' = "erase"
  /\ UNCHANGED <<p, a, min_heap_idx, ev_timeout, popped>>

\* The last event takes the place of e and is sifted the way that its order
\* with the parent of that place asks for.
min_heap_erase(e) ==
  LET i    == min_heap_idx[e]
      last == p[n - 1]
  IN  /\ pc = "idle"
      /\ i # -1
      /\ n' = n - 1
      /\ pc' = IF i > 0 /\ min_heap_elem_greater(p[Parent(i)], last)
                 THEN "up" ELSE "down"
      /\ hole_index' = i
      /\ moving' = last
      /\ leaving' = e
      /\ call' = "erase"
      /\ UNCHANGED <<p, a, min_heap_idx, ev_timeout, popped>>

\* Mutant of MoveIntoHole: the event that moves keeps its old index.
MoveKeepsIndex(i) ==
  /\ p' = [p EXCEPT ![hole_index] = p[i]]
  /\ hole_index' = i
  /\ UNCHANGED <<n, a, min_heap_idx, ev_timeout, pc, moving, leaving, call,
                 popped>>

\* The event in slot i fills the hole, and the hole is now at i.
MoveIntoHole(i) ==
  /\ p' = [p EXCEPT ![hole_index] = p[i]]
  /\ min_heap_idx' = [min_heap_idx EXCEPT ![p[i]] = hole_index]
  /\ hole_index' = i
  /\ UNCHANGED <<n, a, ev_timeout, pc, moving, leaving, call, popped>>

UpContinues ==
  hole_index # 0 /\ min_heap_elem_greater(p[Parent(hole_index)], moving)

min_heap_shift_up_ ==
  /\ pc = "up"
  /\ UpContinues
  /\ MoveIntoHole(Parent(hole_index))

\* The child of the hole that is due first; the right one only if it exists.
MinChild ==
  LET right == 2 * (hole_index + 1)
  IN  IF right = n \/ min_heap_elem_greater(p[right], p[right - 1])
        THEN right - 1 ELSE right

DownContinues ==
  /\ 2 * (hole_index + 1) <= n
  /\ min_heap_elem_greater(moving, p[MinChild])

min_heap_shift_down_ ==
  /\ pc = "down"
  /\ DownContinues
  /\ MoveIntoHole(MinChild)

\* The assignment after either loop, and what the caller does on return: pop
\* and erase mark the event that left as being in no heap.
Place ==
  /\ pc = "up"   => ~UpContinues
  /\ pc = "down" => ~DownContinues
  /\ pc # "idle"
  /\ p' = [p EXCEPT ![hole_index] = moving]
  /\ min_heap_idx' =
       [e \in Event |-> IF e = leaving THEN -1
                        ELSE IF e = moving THEN hole_index
                        ELSE min_heap_idx[e]]
  /\ popped' = IF call = "pop" THEN leaving ELSE NoEvent
  /\ pc' = "idle"
  /\ hole_index' = 0
  /\ moving' = NoEvent
  /\ leaving' = NoEvent
  /\ call' = "none"
  /\ UNCHANGED <<n, a, ev_timeout>>

\* Mutant of timeout_correct: the loop misses the last slot.
CorrectAllButLast(off) ==
  /\ pc = "idle"
  /\ off > 0
  /\ \A i \in 0 .. n - 2 : ev_timeout[p[i]] - off \in Time
  /\ ev_timeout' = [e \in Event |-> IF \E i \in 0 .. n - 2 : p[i] = e
                                      THEN ev_timeout[e] - off
                                      ELSE ev_timeout[e]]
  /\ UNCHANGED <<p, n, a, min_heap_idx, pc, hole_index, moving, leaving,
                 call, popped>>

(***************************************************************************)
(* timeout_correct: without a monotonic clock, when the time of day is     *)
(* seen to run backwards, the key of every event in the heap is changed in *)
(* place by the same amount.  The second loop of timeout_correct, which    *)
(* does the same to the events of common timeout queues, is not modelled:  *)
(* those events are in no heap, and their queues keep their order.         *)
(***************************************************************************)
timeout_correct(off) ==
  /\ pc = "idle"
  /\ off > 0
  /\ \A i \in 0 .. n - 1 : ev_timeout[p[i]] - off \in Time
  /\ ev_timeout' = [e \in Event |-> IF \E i \in 0 .. n - 1 : p[i] = e
                                      THEN ev_timeout[e] - off
                                      ELSE ev_timeout[e]]
  /\ UNCHANGED <<p, n, a, min_heap_idx, pc, hole_index, moving, leaving,
                 call, popped>>

Next ==
  \/ \E e \in Event, t \in Time : min_heap_push(e, t)
  \/ min_heap_pop
  \/ \E e \in Event : min_heap_erase(e)
  \/ min_heap_shift_up_
  \/ min_heap_shift_down_
  \/ Place
  \/ \E off \in Time : timeout_correct(off)

Spec == Init /\ [][Next]_vars

-------------------------------------------------------------------------------
(***************************************************************************)
(* Properties.                                                             *)
(***************************************************************************)
InHeap == {e \in Event : min_heap_idx[e] # -1}

\* Every variable has its type; in particular the heap never outgrows the
\* allocation, and a sift never leaves the slots of the heap.
TypeOK ==
  /\ a \in Nat
  /\ n \in 0 .. a
  /\ p \in [0 .. a - 1 -> Event \cup {NoEvent}]
  /\ min_heap_idx \in [Event -> -1 .. a - 1]
  /\ ev_timeout \in [Event -> Int]
  /\ pc \in {"idle", "up", "down"}
  /\ hole_index \in Nat
  /\ pc = "up"   => hole_index < n
  /\ pc = "down" => hole_index <= n /\ n < a
  /\ moving  \in Event \cup {NoEvent}
  /\ leaving \in Event \cup {NoEvent}
  /\ call \in {"none", "push", "pop", "erase"}
  /\ popped  \in Event \cup {NoEvent}
  /\ pc # "idle" => moving \in Event

\* Between calls, min_heap_top is due no later than any other event of the
\* heap: the value timeout_next derives the sleep of the loop from.
TopIsEarliest ==
  pc = "idle" =>
    \A e \in InHeap : n > 0 /\ ev_timeout[p[0]] <= ev_timeout[e]

\* Between calls the back-pointers are exact: slot i holds e iff e says so.
\* min_heap_erase and min_heap_elt_is_top trust them blindly.
BackPointersExact ==
  pc = "idle" =>
    /\ \A i \in 0 .. n - 1 : p[i] \in Event /\ min_heap_idx[p[i]] = i
    /\ \A e \in InHeap : min_heap_idx[e] < n /\ p[min_heap_idx[e]] = e

(***************************************************************************)
(* The inductive invariant.  While a sift runs, one slot is a hole: the    *)
(* order holds away from it, holds across it, and `moving' is already in   *)
(* order on the side that the sift comes from.                             *)
(***************************************************************************)
Slots == {i \in 0 .. n - 1 : pc = "idle" \/ i # hole_index}

SlotsOK ==
  \A i \in Slots : /\ p[i] \in Event
                   /\ min_heap_idx[p[i]] = i
                   /\ pc # "idle" => p[i] # moving /\ p[i] # leaving

MembersOK ==
  \A e \in Event :
    \/ min_heap_idx[e] = -1
    \/ min_heap_idx[e] \in Slots /\ p[min_heap_idx[e]] = e
    \/ pc # "idle" /\ e \in {moving, leaving}

CallOK ==
  /\ pc = "idle" <=> call = "none"
  /\ call = "push" => /\ pc = "up"
                      /\ leaving = NoEvent
                      /\ min_heap_idx[moving] = -1
                      /\ ev_timeout[moving] \in Time
  /\ call \in {"pop", "erase"} => /\ leaving \in InHeap
                                  /\ moving \in InHeap
  \* an erased event that was itself the last one is put past the end
  /\ pc # "idle" /\ moving = leaving => pc = "down" /\ hole_index = n
  /\ pc = "down" /\ hole_index = n => moving = leaving
  /\ call = "pop" =>
       \A e \in InHeap : ev_timeout[leaving] <= ev_timeout[e]

HeapOrder ==
  \A i \in Slots : i > 0 /\ Parent(i) \in Slots =>
    ev_timeout[p[Parent(i)]] <= ev_timeout[p[i]]

HoleOrder ==
  pc # "idle" =>
    /\ \A i \in Slots : i > 0 /\ Parent(i) = hole_index =>
         /\ hole_index > 0 => ev_timeout[p[Parent(hole_index)]] <= ev_timeout[p[i]]
         /\ pc = "up" => ev_timeout[moving] <= ev_timeout[p[i]]
    /\ pc = "down" /\ hole_index > 0 =>
         ev_timeout[p[Parent(hole_index)]] <= ev_timeout[moving]

IInv == TypeOK /\ SlotsOK /\ MembersOK /\ CallOK /\ HeapOrder /\ HoleOrder

\* The heap implements TimerQueue: a push adds an event, an erase takes out
\* exactly the event it is given, a pop one that is due first, and nothing
\* else changes which events wait or when they are due.
Abstract == INSTANCE TimerQueue
              WITH queue <- [e \in InHeap |-> ev_timeout[e]]
ImplementsTimerQueue == Abstract!Spec
===============================================================================
