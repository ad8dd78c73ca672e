SPECIFICATION Spec
CONSTANTS
  MonthLengths <- Calendar
  Days = {31, 62}
  Windows <- AskedWindows
  Anchors = {31}
  Plans = {"free", "pro"}
  Quotas <- TwoPlans
  Batches <- Uploads
  Sizes = {1, 2}
  FrameSize = 1
  MaxPresignBatch = 2
  MaxHardFrames = 2
  Labels = {"human"}
  MaxMedias = 2
  MaxChanges = 1
INVARIANTS TypeOK PeriodsTile VerificationsPerPeriod StorageBounded DashboardAddsUp PagesCoverList
CHECK_DEADLOCK FALSE
