------------------------------ MODULE TimerQueue ------------------------------
(***************************************************************************)
(* What the timer heap of an event_base promises to event.c: a finite set  *)
(* of events, each with the absolute time it is due, from which the one    *)
(* that is due first can be taken.  MinHeap implements this specification. *)
(***************************************************************************)
EXTENDS Integers

CONSTANTS Event,    \* the events that may carry a timeout
          Time,     \* the values of ev_timeout
          NoEvent   \* the NULL pointer

VARIABLES queue,    \* queue[e] is the due time of each pending event e
          popped    \* the event the last call returned, if it was a pop

vars == <<queue, popped>>

Earliest(e) == \A f \in DOMAIN queue : queue[e] <= queue[f]

Without(e) == [f \in DOMAIN queue \ {e} |-> queue[f]]

Init == /\ queue = [e \in {} |-> 0]
        /\ popped = NoEvent

Insert(e, t) ==
  /\ e \notin DOMAIN queue
  /\ queue' = [f \in DOMAIN queue \cup {e} |-> IF f = e THEN t ELSE queue[f]]
  /\ popped' = NoEvent

Remove(e) ==
  /\ e \in DOMAIN queue
  /\ queue' = Without(e)
  /\ popped' = NoEvent

RemoveEarliest(e) ==
  /\ e \in DOMAIN queue
  /\ Earliest(e)
  /\ queue' = Without(e)
  /\ popped' = e

\* Every due time moves by the same amount: the order of the events is kept.
Shift(off) ==
  /\ queue' = [e \in DOMAIN queue |-> queue[e] - off]
  /\ UNCHANGED popped

Next == \/ \E e \in Event, t \in Time : Insert(e, t)
        \/ \E e \in Event : Remove(e) \/ RemoveEarliest(e)
        \/ \E off \in Time : Shift(off)

Spec == Init /\ [][Next]_vars
===============================================================================
