SPECIFICATION Spec
CONSTANTS
  s1 = s1
  s2 = s2
  p1 = p1
  p2 = p2
  a1 = a1
  a2 = a2
  Free = Free
  None = None
  Subs = {s1, s2}
  Plans = {p1, p2}
  Apis = {a1}
  Changes = {"renew", "decline", "settle", "plan", "cancel", "notice", "card"}
  Prompt = TRUE
  Faults = {"error"}
  MaxBills = 3
  MaxChanges = 5
  MaxFaults = 1
SYMMETRY Symmetry
INVARIANTS TypeOK RowMatchesStripe
PROPERTY QuotaPeriodKept
CHECK_DEADLOCK FALSE
