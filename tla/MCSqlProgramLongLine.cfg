\* A line of a session that is longer than its buffer.
CONSTANTS
    IntMax = 31
    Tables <- MCTables
    Schemas <- MCSchemas
    Preloaded <- MCPreloaded
    Inputs <- MCInputs
    MAX_SQL_SIZE = 7
    BENCHMARK_INPUT_LEN = 3
    MAX_TOKENS = 7
    MAX_STATEMENTS = 3
    MAX_TABLE_STATES = 2
    Faults = {}
SPECIFICATION Spec
PROPERTY LongLinesRefused
CHECK_DEADLOCK FALSE
