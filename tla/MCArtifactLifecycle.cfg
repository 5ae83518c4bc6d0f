CONSTANTS
    Contents = {c1, c2}
    Compiled = c1
    Actors = {alice, bob}
    Maker = maker
    None = None
SPECIFICATION Spec
INVARIANTS
    ApprovalsAreSound
    OverrideFitsBase
SYMMETRY Interchangeable
