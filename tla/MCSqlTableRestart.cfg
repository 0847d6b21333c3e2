\* One process that may end between statements; nothing fails.
CONSTANTS
    p1 = p1
    Procs = {p1}
    IntMin <- MinusTwo
    IntMax = 4
    ExplicitIds <- AllIds
    Preloaded <- HeaderOnly
    MaxLines = 5
    Faults = {}
SPECIFICATION Spec
INVARIANT RestartReloads
