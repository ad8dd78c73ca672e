SPECIFICATION Spec
CONSTANTS
  u1 = u1
  u2 = u2
  w1 = w1
  w2 = w2
  Users = {u1, u2}
  Workers = {w1, w2}
  Kinds <- Everyday
  MaxRetries = 1
  MaxEvents = 2
  MaxFaults = 2
SYMMETRY Symmetry
INVARIANTS TypeOK AnnouncedOnce MembersTold FeedComplete
CHECK_DEADLOCK FALSE
