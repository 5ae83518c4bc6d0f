CONSTANTS
    Pages = {p1, p2}
    Keys <- Targets
    Outputs = {"balance"}
    Moves <- Proposals
    Usage <- Costs
    Policy <- Limited
    Operators = {TRUE, FALSE}
    DeadEndLimit = 3
    None = None
SPECIFICATION FairSpec
INVARIANTS
    EndsOnce
    SpendingIsBounded
    HumanConfirmsOnce
    ActsOnWhatItSaw
    DeadEndIsExact
PROPERTIES
    RunCloses
CHECK_DEADLOCK FALSE
