CONSTANTS
  q1 = q1
  q2 = q2
  Clients = {"a"}
  Slots = {q1, q2}
  MaxCampaigns = 1
  MaxRows = 3
  MaxKeys = 2
  MaxRequests = 5
SPECIFICATION Spec
SYMMETRY Symmetry
INVARIANTS
  TypeOK
  ThumbnailServed
  PendingCanFinish
  StorageAccounted
  CampaignsBounded
CHECK_DEADLOCK FALSE
