------------------------------ MODULE MCBilling ------------------------------
(* Small instances of Billing for TLC. *)
EXTENDS Billing, TLC

CONSTANTS s1, s2, p1, p2, a1, a2

\* Subscriptions are interchangeable, and so are plans and api processes.
Symmetry == Permutations(Subs) \cup Permutations(Plans) \cup Permutations(Apis)
=============================================================================
