\* Two processes that both find no file; nothing fails.
CONSTANTS
    p1 = p1
    p2 = p2
    Procs = {p1, p2}
    IntMin <- MinusOne
    IntMax = 3
    ExplicitIds = {2}
    Preloaded <- NoFile
    MaxLines = 2
    Faults = {}
SPECIFICATION Spec
PROPERTY RowsStay
