\* calloc may fail at every site, and a key is then inserted again.
CONSTANTS
    ORDER = 3
    MaxKey = 5
    MaxNode = 10
    Nil = 0
    Failing = {"empty root", "leaf split", "internal split", "new root"}
    Nodes <- MCNodes
    Rows <- MCRows
SPECIFICATION Spec
INVARIANT NoKeyTwice
