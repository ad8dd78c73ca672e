SPECIFICATION Spec
CONSTANTS
  r1 = r1
  r2 = r2
  w1 = w1
  w2 = w2
  c1 = c1
  c2 = c2
  c3 = c3
  NoWorker = NoWorker
  NoCopy = NoCopy
  NumEvents = 1
  NumHandlers = 1
  Malformed = {}
  BatchSize = 1
  MaxRetries = 1
  Relays = {r1}
  Workers = {w1}
  Copies = {c1}
  Faults = {"worker_crash"}
  MaxFaults = 1

INVARIANT NothingLost
CHECK_DEADLOCK FALSE
