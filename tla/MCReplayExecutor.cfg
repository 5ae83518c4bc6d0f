CONSTANTS
    Capabilities <- Recorded
    Calls <- PlainCalls
    Policy <- Limited
SPECIFICATION FairSpec
INVARIANTS
    DispatchedOnce
    SuccessIsVerified
    OutputsAreFresh
    DispatchIsAuthorised
PROPERTIES
    RunStops
    ImplementsStepwiseRun
CHECK_DEADLOCK FALSE
