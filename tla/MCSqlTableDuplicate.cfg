\* Two processes, each with its own index of one file; nothing fails.
CONSTANTS
    p1 = p1
    p2 = p2
    Procs = {p1, p2}
    IntMin <- MinusOne
    IntMax = 3
    ExplicitIds = {2}
    Preloaded <- HeaderOnly
    MaxLines = 2
    Faults = {}
SPECIFICATION Spec
INVARIANT UniquePrimaryKeys
