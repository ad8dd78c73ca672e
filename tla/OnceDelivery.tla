---------------------------- MODULE OnceDelivery ----------------------------
(***************************************************************************)
(* What the dedup wrapper promises for one (event, handler) pair, without  *)
(* saying how: the handler body runs for the pair in one place at a time;  *)
(* a run ends with its effect ("done"), with the pair released for another *)
(* attempt ("pending"), or with the pair given up ("closed": its mark      *)
(* stays although the effect never happened).  A done or closed pair never *)
(* runs again.                                                             *)
(***************************************************************************)
CONSTANT Pairs

VARIABLE phase

TypeOK == phase \in [Pairs -> {"pending", "running", "done", "closed"}]

Init == phase = [x \in Pairs |-> "pending"]

Move(x, from, to) ==
  /\ phase[x] = from
  /\ phase' = [phase EXCEPT ![x] = to]

Start(x)   == Move(x, "pending", "running")
Finish(x)  == Move(x, "running", "done")
Release(x) == Move(x, "running", "pending")
Close(x)   == Move(x, "running", "closed")

Next == \E x \in Pairs : Start(x) \/ Finish(x) \/ Release(x) \/ Close(x)

Spec == Init /\ [][Next]_phase
=============================================================================
