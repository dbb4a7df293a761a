SPECIFICATION Spec
CONSTANTS
    o1 = o1
    o2 = o2
    o3 = o3
    None = None
    MaxLinks = 3
    Objects <- MCObjects
SYMMETRY Symmetry
INVARIANTS
    CountsExact
    NothingFreedTooEarly
    WeakNeverDangles
PROPERTIES
    CondemnsGarbage
    CallbackComes
CHECK_DEADLOCK FALSE
