CONSTANTS
  w1 = w1  w2 = w2  u1 = u1   r1 = r1   a1 = a1  a2 = a2  q1 = q1  q2 = q2
  Workers <- TwoWorkers
  Upgrades <- None
  Reloads <- OneReload
  Apps <- OneApp
  Requests <- TwoRequests
  NoWorker = NoWorker
  NoRollout = NoRollout
  NoApp = NoApp
  MaxRev = 0
  Keep = 1
  ExtendTries = 1
  MaxFaults = 1
  MaxStalls = 0
SPECIFICATION FairSpec
CHECK_DEADLOCK FALSE
INVARIANTS DoneOwesNothing
PROPERTIES EveryRolloutEnds Implements
