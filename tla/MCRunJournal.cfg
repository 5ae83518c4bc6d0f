CONSTANTS
    Writers = {w1, w2}
    NoWriter = nobody
    MaxRecords = 3
SPECIFICATION Spec
PROPERTIES
    InterruptedForGood
    ImplementsAppendOnlyLog
