SPECIFICATION BankSpec
CONSTANTS
    Capabilities <- OnlyLookUp
    Calls <- Approved
    Policy <- Recording
    Members = {m, o, r, a}
    Restricted = {r}
    Alarming = {a}
    Seed <- TwoAccounts
    FaultPlans <- Plans
    Operators = {"scripted"}
    Enquiries = {m, o, None}
    None = None
INVARIANT MissingMemberIsAnswered
CHECK_DEADLOCK FALSE
