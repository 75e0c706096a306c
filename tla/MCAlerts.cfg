SPECIFICATION FairSpec
CONSTANTS
    Replicas = {r1, r2}
    Duration = 1
    DownGrace = 2
    MaxTurns = 3
    MaxEdits = 1
    MaxFaults = 2
    None = None
INVARIANTS NotifiedOnce
PROPERTIES AlertFollows
CHECK_DEADLOCK FALSE
