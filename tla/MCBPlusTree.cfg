\* The source's BPTREE_ORDER; keys arrive from both ends, leaving gaps.
CONSTANTS
    ORDER = 4
    MaxKey = 11
    MaxNode = 12
    Nil = 0
    Failing = {"empty root", "leaf split"}
    Nodes <- MCNodes
    Rows <- MCRows
SPECIFICATION Spec
ACTION_CONSTRAINT FromBothEnds
INVARIANTS
    TypeOK
    SearchTree
    ReadsAnswer
PROPERTY ImplementsPkIndex
