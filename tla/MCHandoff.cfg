CONSTANTS
    Handlers = {h1, h2, h3}
    Main = main
    NoActor = nobody
    TTL = 2
    MaxTime = 3
    MaxActs = 2
SPECIFICATION FairSpec
INVARIANTS
    LeaseMatchesBrowser
    OneTokenOwner
    ActsMonitored
    OneAccountableOperator
    ClosedRunIsAccounted
PROPERTIES
    ExpiredLeaseIsInert
    ImplementsExclusiveControl
    CallsReturn
    ResolvedRunEnds
