---------------------------- MODULE MCCampaigns ----------------------------
(* Small instances of Campaigns for TLC. *)
EXTENDS Campaigns
CONSTANTS q1, q2

\* Requests in flight are interchangeable.
Symmetry == Permutations(Slots)
=============================================================================
