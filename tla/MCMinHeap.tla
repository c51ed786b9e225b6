------------------------------ MODULE MCMinHeap ------------------------------
(* The instance of MinHeap that TLC checks. *)
EXTENDS MinHeap, TLC

\* Events are told apart only by their due times and positions.
EventSymmetry == Permutations(Event)
===============================================================================
