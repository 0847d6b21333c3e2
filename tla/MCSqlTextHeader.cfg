\* A schema file that names its columns in quotes.
CONSTANTS
    Letters <- MCLetters
    LowerCase <- MCLower
    DigitValue <- MCDigits
    Table <- MCTable
    Inputs <- MCQuotedInputs
    MAX_NAME_LEN = 4
    MAX_VALUE_LEN = 4
    MAX_COLUMNS = 2
    MAX_TOKENS = 37
    MAX_STATEMENTS = 3
    INT_MAX = 50
SPECIFICATION Spec
INVARIANT OnlyBadStatementsFail
CHECK_DEADLOCK FALSE
