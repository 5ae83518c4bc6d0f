CONSTANTS
    Pages = {p1, p2}
    Keys <- Targets
    Outputs = {"balance", "name"}
    Moves <- Proposals
    Usage = {0}
    Policy <- Limited
    Operators = {TRUE, FALSE}
    DeadEndLimit = 3
    None = None
SPECIFICATION RecordedSpec
INVARIANTS
    CompilesAsJournaled
    GoalCompiles
    ManifestTellsTheRun
CHECK_DEADLOCK FALSE
