\* A command from its start to its exit: files, sessions and the benchmark.
CONSTANTS
    IntMax = 31
    Tables <- MCTables
    Schemas <- MCSchemas
    Preloaded <- MCPreloaded
    Inputs <- MCInputs
    MAX_SQL_SIZE = 7
    BENCHMARK_INPUT_LEN = 3
    MAX_TOKENS = 7
    MAX_STATEMENTS = 3
    MAX_TABLE_STATES = 2
    Faults = {"open fails"}
SPECIFICATION FairSpec
INVARIANTS
    TypeOK
    FilesFollowAcks
    SlotsFollowFiles
    WholeTextOnly
    ExitCodeTells
    SessionServesAll
    TargetExists
PROPERTY CommandEnds
CHECK_DEADLOCK FALSE
