CONSTANTS
  a1 = a1  b1 = b1  q1 = q1
  Apps <- OneApp
  Backups <- OneBackup
  AppOf <- OnlyApp
  Requests <- OneRequest
  Slots <- OneSlot
  NoRequest = NoRequest
  NoApp = NoApp
  MaxDeletes = 1
  MaxSaves = 0
  MaxLapses = 0
  MaxUnread = 1
SPECIFICATION FairSpec
INVARIANTS WaitersKept
PROPERTIES EveryRequestAnswered DueIsTaken
CHECK_DEADLOCK FALSE
