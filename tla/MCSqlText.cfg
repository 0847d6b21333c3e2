\* SQL texts from the tokenizer to the file.
CONSTANTS
    Letters <- MCLetters
    LowerCase <- MCLower
    DigitValue <- MCDigits
    Table <- MCTable
    Inputs <- MCInputs
    MAX_NAME_LEN = 3
    MAX_VALUE_LEN = 4
    MAX_COLUMNS = 2
    MAX_TOKENS = 37
    MAX_STATEMENTS = 3
    INT_MAX = 50
SPECIFICATION Spec
INVARIANTS
    LimitsHold
    GrammarDecides
    SchemaFollowsText
    RowsReadBack
    SelectsAnswer
    OnlyBadStatementsFail
PROPERTY TokensPlaced
CHECK_DEADLOCK FALSE
