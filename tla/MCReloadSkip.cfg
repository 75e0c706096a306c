CONSTANTS
  Apps = {a1}
  Waits = {w1}
  NoApp = NoApp
  MaxVersion = 0
  MaxEvents = 2
SPECIFICATION Spec
INVARIANTS SkipMeansStopped
CHECK_DEADLOCK FALSE
