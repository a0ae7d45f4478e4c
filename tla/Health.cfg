SPECIFICATION Spec
CONSTANTS
    Request = {r, s}
    TTL = 2
    MaxTime = 3
    MaxChanges = 1
    MaxLoads = 2
SYMMETRY Symmetry
INVARIANTS
    OkIsTrue
    DegradedIsTrue
