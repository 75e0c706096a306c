SPECIFICATION Spec
CONSTANTS
    Hubs = {h1, h2, h3}
    FirstHub = h1
    Troubled = {h1}
    Conns = {c1, c2}
    Asks = {a1, a2}
    maxDenials = 2
    MaxEvents = 2
    None = None
    Gone = Gone
INVARIANTS StreamsRegistered RevokedIsOut GivesUpOnlyWhenGone
PROPERTIES LeavesOnlyBadHubs
CONSTRAINT OneHears
SYMMETRY Symmetry
CHECK_DEADLOCK FALSE
