\* Two processes, no file at first, and everything fails that can fail.
CONSTANTS
    p1 = p1
    p2 = p2
    Procs = {p1, p2}
    IntMin <- MinusOne
    IntMax = 3
    ExplicitIds = {2}
    Preloaded <- NoFile
    MaxLines = 3
    Faults = {"crash", "open fails", "disk full", "no memory"}
SYMMETRY Symmetry
SPECIFICATION Spec
INVARIANTS
    NextIdFresh
    AutoIdFree
PROPERTY OnlyCreationDropsRows
