CONSTANTS
    Handlers = {h1, h2}
    Main = main
    NoActor = nobody
    TTL = 1
    MaxTime = 2
    MaxActs = 1
SPECIFICATION FairSpec
PROPERTIES
    ExpiryAborts
