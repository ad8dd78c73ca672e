SPECIFICATION FairSpec
CONSTANTS
  s1 = s1
  s2 = s2
  p1 = p1
  p2 = p2
  a1 = a1
  a2 = a2
  Free = Free
  None = None
  Subs = {s1}
  Plans = {p1}
  Apis = {a1}
  Changes = {"renew", "notice"}
  Prompt = FALSE
  Faults = {"error", "duplicate", "drop"}
  MaxBills = 2
  MaxChanges = 3
  MaxFaults = 1

INVARIANT FirstInvoiceStored
PROPERTY EventuallyAccepted
CHECK_DEADLOCK FALSE
