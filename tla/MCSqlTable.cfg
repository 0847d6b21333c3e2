\* One process, killed at any step; the data file is first absent.
CONSTANTS
    p1 = p1
    Procs = {p1}
    IntMin <- MinusTwo
    IntMax = 4
    ExplicitIds <- AllIds
    Preloaded <- NoFile
    MaxLines = 5
    Faults = {"crash"}
SPECIFICATION Spec
INVARIANTS
    TypeOK
    NextIdFresh
    FileStaysReadable
    SelectsAgree
    SuccessMeansStored
PROPERTIES
    RowsStay
    ImplementsKeyedTable
