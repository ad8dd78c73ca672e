SPECIFICATION Spec
CONSTANTS
  r1 = r1
  r2 = r2
  w1 = w1
  w2 = w2
  c1 = c1
  c2 = c2
  c3 = c3
  NoWorker = NoWorker
  NoCopy = NoCopy
  NumEvents = 1
  NumHandlers = 2
  Malformed = {}
  BatchSize = 1
  MaxRetries = 1
  Relays = {r1, r2}
  Workers = {w1, w2}
  Copies = {c1, c2}
  Faults = {"publish_error", "publish_lost", "relay_stop", "db_error", "unmark_error", "dlq_error", "worker_crash", "delivery_lost"}
  MaxFaults = 1
SYMMETRY Symmetry
INVARIANTS TypeOK AtMostOnce
PROPERTY ImplementsOnce
CHECK_DEADLOCK FALSE
