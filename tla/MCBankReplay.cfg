SPECIFICATION BankSpec
CONSTANTS
    Capabilities <- OnlyLookUp
    Calls <- Approved
    Policy <- Recording
    Members = {m, o, r, a}
    Restricted = {r}
    Alarming = {a}
    Seed <- TwoAccounts
    FaultPlans <- Plans
    Operators = {"scripted", "human"}
    Enquiries = {m, o, None}
    None = None
INVARIANTS
    SuccessIsTheRequestedBalance
    DemoEndsAsDocumented
SYMMETRY Alike
CHECK_DEADLOCK FALSE
