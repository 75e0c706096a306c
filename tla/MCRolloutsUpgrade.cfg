CONSTANTS
  w1 = w1  w2 = w2  u1 = u1   r1 = r1   a1 = a1  a2 = a2  q1 = q1  q2 = q2
  Workers <- TwoWorkers
  Upgrades <- OneUpgrade
  Reloads <- None
  Apps <- TwoApps
  Requests <- None
  NoWorker = NoWorker
  NoRollout = NoRollout
  NoApp = NoApp
  MaxRev = 1
  Keep = 1
  ExtendTries = 5
  MaxFaults = 1
  MaxStalls = 1
SPECIFICATION Spec
SYMMETRY Symmetric
CHECK_DEADLOCK FALSE
INVARIANTS AtMostOneStepAfterStop ProgressWithinTotal OneDriver
