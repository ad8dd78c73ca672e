SPECIFICATION Spec
CONSTANTS
  i1 = i1
  i2 = i2
  v1 = v1
  w1 = w1
  w2 = w2
  s = s
  NoWorker = NoWorker
  NoEntity = NoEntity
  Scheduler = s
  Images = {i1}
  Videos = {v1}
  FramesPerVideo = 2
  Workers = {w1, w2}
  Jobs = {"upload", "extract", "analyze"}
  MaxConcurrent = 2
  MaxVerifications = 2
  Labels = {"human", "ai_generated", "uncertain"}
  MaxEvents = 2
  MaxFaults = 0
SYMMETRY Symmetry
INVARIANTS FinalizedByLast VerificationsBounded
CHECK_DEADLOCK FALSE
