SPECIFICATION Spec
CONSTANTS
    Data = {d1, d2}
    MaxLeaves = 5
    MaxProofs = 1
SYMMETRY DataSymmetry
INVARIANTS
    TypeOK
    HistoryKept
    ProofsMatchRoots
    RootsAreBinding
    NoForgedInclusion
CHECK_DEADLOCK FALSE
