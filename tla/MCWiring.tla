------------------------------ MODULE MCWiring ------------------------------
(* A small instance of Wiring for TLC. *)
EXTENDS Wiring

\* Topic 1 is shipped by the installed package, 2 by both, 3 only by the late
\* one; 4 is shipped and ignored.
ShippedBy == [p \in Package |-> IF p = 1 THEN {1, 2, 4} ELSE {2, 3}]

=============================================================================
