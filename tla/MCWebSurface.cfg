CONSTANTS
    Pages = {p1, p2}
    Requests = {r1}
    Candidates = {1, 2}
    Window = 2
    Poll = 1
    Timeout = 4
    MaxTime = 7
    None = None
SPECIFICATION FairSpec
INVARIANTS
    NoStaleTarget
PROPERTIES
    SettledIsQuiet
    SettleEnds
