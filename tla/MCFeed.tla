-------------------------------- MODULE MCFeed --------------------------------
(* Small instances of Feed for TLC. *)
EXTENDS Feed, TLC
CONSTANTS u1, u2, w1, w2

\* Users and workers are interchangeable.
Symmetry == Permutations(Users) \cup Permutations(Workers)

\* One event of each way to find the audience and of each fate in the feed.
Everyday == {[type |-> "client.member_added", detail |-> ""],
             [type |-> "client.member_removed", detail |-> ""],
             [type |-> "client.deleted", detail |-> ""],
             [type |-> "campaign.created", detail |-> "default"],
             [type |-> "campaign.created", detail |-> ""],
             [type |-> "media.verdict_rendered", detail |-> "human"],
             [type |-> "media.deleted", detail |-> "cascade"]}
=============================================================================
