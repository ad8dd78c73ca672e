SPECIFICATION Spec
CONSTANTS
  i1 = i1
  i2 = i2
  v1 = v1
  w1 = w1
  w2 = w2
  s = s
  NoWorker = NoWorker
  NoEntity = NoEntity
  Scheduler = s
  Images = {}
  Videos = {v1}
  FramesPerVideo = 2
  Workers = {w1, w2}
  Jobs = {"upload", "duplicate", "extract", "analyze", "delete"}
  MaxConcurrent = 1
  MaxVerifications = 2
  Labels = {"human", "ai_generated"}
  MaxEvents = 2
  MaxFaults = 1
SYMMETRY Symmetry
INVARIANTS TypeOK VerdictMatches ConcurrentBounded
PROPERTY OutcomeKept
CHECK_DEADLOCK FALSE
