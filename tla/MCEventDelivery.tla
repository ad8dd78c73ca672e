--------------------------- MODULE MCEventDelivery ---------------------------
(* Small instances of EventDelivery for TLC. *)
EXTENDS EventDelivery, TLC

CONSTANTS r1, r2, w1, w2, c1, c2, c3

\* Relays, workers and copies are interchangeable where no liveness is checked.
Symmetry == Permutations(Relays) \cup Permutations(Workers) \cup Permutations(Copies)
=============================================================================
