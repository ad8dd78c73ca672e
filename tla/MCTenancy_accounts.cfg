SPECIFICATION Spec
CONSTANTS
  k1 = k1
  k2 = k2
  k3 = k3
  q1 = q1
  q2 = q2
  Clerks = {k1, k2, k3}
  Slots = {q1, q2}
  Ops = {"signup", "profile", "gone", "create", "rename", "drop", "add", "remove", "switch"}
  MaxMembers = 2
  MaxUsers = 3
  MaxClients = 3
  MaxRequests = 2
  MaxNews = 1
SYMMETRY Symmetry
INVARIANTS TypeOK AccountsComplete CurrentListedUnlessOvertaken SeatsBounded
CHECK_DEADLOCK FALSE
