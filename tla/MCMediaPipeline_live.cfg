SPECIFICATION FairSpec
CONSTANTS
  i1 = i1
  i2 = i2
  v1 = v1
  w1 = w1
  w2 = w2
  s = s
  NoWorker = NoWorker
  NoEntity = NoEntity
  Scheduler = s
  Images = {}
  Videos = {v1}
  FramesPerVideo = 2
  Workers = {w1}
  Jobs = {"upload", "extract", "analyze", "recover", "delete"}
  MaxConcurrent = 1
  MaxVerifications = 1
  Labels = {"human"}
  MaxEvents = 1
  MaxFaults = 1

PROPERTY EventuallyTerminal
CHECK_DEADLOCK FALSE
