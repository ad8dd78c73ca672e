------------------------------ MODULE MCTenancy ------------------------------
(* Small instances of Tenancy for TLC. *)
EXTENDS Tenancy, TLC
CONSTANTS k1, k2, k3, q1, q2

\* Accounts are interchangeable, and so are requests in flight.
Symmetry == Permutations(Clerks) \cup Permutations(Slots)
=============================================================================
