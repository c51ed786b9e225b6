------------------------------- MODULE ByteQueue -------------------------------
(***************************************************************************)
(* What evbuffers promise their users: each is a queue of bytes.  Bytes    *)
(* are added at the end or, on request, at the front; they are taken from  *)
(* the front; and they move from the front of one buffer to the end (or    *)
(* all of them to the front) of another.  Nothing else ever changes the    *)
(* contents: how the bytes are spread over chains is not visible.          *)
(***************************************************************************)
EXTENDS Integers, Sequences

CONSTANTS Buffer, MaxBytes

VARIABLES q,      \* q[b]: the bytes of b, in order
          fresh   \* bytes that exist: they are numbered 1 .. fresh

vars == <<q, fresh>>

Fresh(n) == [i \in 1 .. n |-> fresh + i]
First(s, n) == SubSeq(s, 1, n)
Rest(s, n) == SubSeq(s, n + 1, Len(s))

Init == q = [b \in Buffer |-> <<>>] /\ fresh = 0

AddEnd(b) ==
  /\ fresh' \in fresh + 1 .. MaxBytes
  /\ q' = [q EXCEPT ![b] = @ \o Fresh(fresh' - fresh)]

AddFront(b) ==
  /\ fresh' \in fresh + 1 .. MaxBytes
  /\ q' = [q EXCEPT ![b] = Fresh(fresh' - fresh) \o @]

Take(b) ==
  /\ UNCHANGED fresh
  /\ \E n \in 1 .. Len(q[b]) : q' = [q EXCEPT ![b] = Rest(@, n)]

Move(src, dst) ==
  /\ UNCHANGED fresh
  /\ src # dst
  /\ \E n \in 1 .. Len(q[src]) :
        q' = [q EXCEPT ![src] = Rest(@, n), ![dst] = @ \o First(q[src], n)]

MoveFront(src, dst) ==
  /\ UNCHANGED fresh
  /\ src # dst
  /\ q' = [q EXCEPT ![src] = <<>>, ![dst] = q[src] \o @]

Next ==
  \/ \E b \in Buffer : AddEnd(b) \/ AddFront(b) \/ Take(b)
  \/ \E src, dst \in Buffer : Move(src, dst) \/ MoveFront(src, dst)

Spec == Init /\ [][Next]_vars
================================================================================
