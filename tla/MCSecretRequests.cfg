CONSTANTS
  Saves = {s1,s2}
  Submitters = {u1,u2}
  NoOne = NoOne
  SubmitWindow = 1
  UseWindow = 3
  ClaimTTL = 2
  Retention = 0
  CommitTries = 2
  MaxTime = 4
  MaxFaults = 2
SPECIFICATION FairSpec
INVARIANTS UsedOnce SpentReadsUsed TheirValues ClaimHolds
PROPERTIES ValuesGo
