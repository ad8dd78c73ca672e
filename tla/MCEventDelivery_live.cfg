SPECIFICATION FairSpec
CONSTANTS
  r1 = r1
  r2 = r2
  w1 = w1
  w2 = w2
  c1 = c1
  c2 = c2
  c3 = c3
  NoWorker = NoWorker
  NoCopy = NoCopy
  NumEvents = 2
  NumHandlers = 1
  Malformed = {2}
  BatchSize = 2
  MaxRetries = 1
  Relays = {r1}
  Workers = {w1}
  Copies = {c1, c2, c3}
  Faults = {"publish_error", "relay_stop", "db_error"}
  MaxFaults = 1

INVARIANT NothingLost
PROPERTY EventuallyHandled
CHECK_DEADLOCK FALSE
