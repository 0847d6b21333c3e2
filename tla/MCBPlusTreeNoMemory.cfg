\* calloc may fail at every site.
CONSTANTS
    ORDER = 3
    MaxKey = 6
    MaxNode = 9
    Nil = 0
    Failing = {"empty root", "leaf split", "internal split", "new root"}
    Nodes <- MCNodes
    Rows <- MCRowsOnce
SPECIFICATION Spec
CONSTRAINT FewRepeats
INVARIANTS
    SearchTree
    NoNodePassedTwice
PROPERTY EntriesStay
