SPECIFICATION Spec
CONSTANTS
    Clients = {c1, c2}
    Tenants = {alpha, beta}
    Extra = {beta}
    Home = alpha
    Members = {m, r}
    Restricted = {r}
    Seed <- TwoAccounts
    Asks <- Pages
    FaultPlans <- Plans
    MaxTokens = 2
    None = None
INVARIANTS
    OneReceiptPerToken
    MoneyIsConserved
    DraftStaysPayable
PROPERTIES
    CommitsAreAuthenticated
    ImplementsOneTimeDeposits
SYMMETRY Symmetry
VIEW Essence
