CONSTANTS
  a1 = a1  b1 = b1  q1 = q1
  Apps <- OneApp
  Backups <- OneBackup
  AppOf <- OnlyApp
  Requests <- OneRequest
  Slots <- TwoSlots
  NoRequest = NoRequest
  NoApp = NoApp
  MaxDeletes = 1
  MaxSaves = 1
  MaxLapses = 1
  MaxUnread = 1
SPECIFICATION Spec
INVARIANTS OneCallPerApp VolumesUndisturbed DeletedLeavesNothing SleepsSoundly
PROPERTIES StopKeepsDue
CONSTRAINT OneDisturbance
CHECK_DEADLOCK FALSE
