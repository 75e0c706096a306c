SPECIFICATION FairSpec
CONSTANTS
    Hubs = {h1, h2}
    FirstHub = h1
    Troubled = {h1}
    Conns = {c1}
    Asks = {a1}
    maxDenials = 2
    MaxEvents = 2
    None = None
    Gone = Gone
PROPERTIES Settles DeletedGivesUp
CHECK_DEADLOCK FALSE
