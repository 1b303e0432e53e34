CONSTANTS
    Ids = {p1, p2, p3}
    Contents = {a, b}
    None = None
    MaxTombstones = 1
    Readers = {r1}
    MaxSeq = 4
    MaxGeneration = 1
SPECIFICATION Spec
SYMMETRY Symmetry
INVARIANTS
    CaughtUpHoldsAll
    VersionsIdentify
    ReplaceAllIsItsLoops
PROPERTY
    VersionsOnlyRise
