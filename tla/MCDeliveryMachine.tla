------------------------- MODULE MCDeliveryMachine -------------------------
(* Small instances of DeliveryMachine for TLC. *)
EXTENDS DeliveryMachine, TLC

\* Drains are interchangeable, and so are the events that are not oversized.
Symmetry == Permutations(Drainer) \cup Permutations(Event \ Oversized)

=============================================================================
