------------------------------ MODULE MCEvsignal ------------------------------
(* e1 and e2 are for signal s1, e3 for s2; e2 and e3 may be on a second base. *)
EXTENDS Evsignal

CONSTANTS e1, e2, e3, s1, s2, b1, b2

Sigs    == [e \in Event |-> IF e = e3 THEN s2 ELSE s1]
OneBase == [e \in Event |-> b1]
Shared  == [e \in Event |-> IF e = e1 THEN b1 ELSE b2]
Apart   == [e \in Event |-> IF e = e3 THEN b2 ELSE b1]
===============================================================================
