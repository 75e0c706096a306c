SPECIFICATION Spec
CONSTANTS
    Ops = {o1, o2}
    MaxOps = 2
    MaxRuns = 1
    MaxDeaths = 2
    MaxFaults = 1
    None = None
SYMMETRY Symmetry
INVARIANTS HelperAlone OnlyDeployedOnDoubt DoubtIsTold GivesBack
PROPERTIES UpdateCutsNone
CHECK_DEADLOCK FALSE
