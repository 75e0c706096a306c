CONSTANTS
  Apps = {a1}
  Waits = {w1,w2}
  NoApp = NoApp
  MaxVersion = 1
  MaxEvents = 1
SPECIFICATION FairSpec
INVARIANTS WaitsAnswered NothingLost
PROPERTIES EveryWaitEnds DeletedNotReloaded
CHECK_DEADLOCK FALSE
