CONSTANTS
    Writers = {w1, w2}
    NoWriter = nobody
    Contents = {c1, c2}
    Uses = {u1, u2}
    NoEntry = none
SPECIFICATION Spec
INVARIANTS
    ReferencesResolve
    EntriesAreDistinct
