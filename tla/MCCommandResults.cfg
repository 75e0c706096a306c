SPECIFICATION FairSpec
CONSTANTS
    Readers = {r1, r2}
    Wait = 2
    StaleAfter = 2
    Retention = 1
    MaxFaults = 3
    None = None
INVARIANTS OneOutcome NothingLost UnknownStands
PROPERTIES RowEnds
CHECK_DEADLOCK FALSE
