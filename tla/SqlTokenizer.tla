---------------------------- MODULE SqlTokenizer ----------------------------
(***************************************************************************)
(* tokenize_sql of src/tokenizer.c, one token or one blank a step.         *)
(***************************************************************************)
EXTENDS SqlProc

VARIABLES
    sql_text,        \* the text, which does not change
    index, line, column,
    tokens,
    tokenizing       \* "running", "done" or "failed"

tokenizer_vars == <<sql_text, index, line, column, tokens, tokenizing>>

At(i) == IF i \in DOMAIN sql_text THEN sql_text[i] ELSE "end"

\* How many atoms from i on are in S.
Run(i, S) == Span(SubSeq(sql_text, i, Len(sql_text)), S)

Lexeme(type, text) == [type |-> type, text |-> text]

\* Each reader: the token that begins at index, how many atoms it takes, and
\* whether it is one.
Reading(lexeme, length, legal) == [lexeme |-> lexeme, length |-> length, legal |-> legal]

read_word ==
    LET length == Run(index, Letters \cup Digits)
        raw == SubSeq(sql_text, index, index + length - 1)
    IN  Reading(IF Len(raw) = 1 /\ LowerCase[raw[1]] \in Keywords THEN Lexeme(LowerCase[raw[1]], raw)
                ELSE Lexeme("identifier", lower(raw)),
                length, length < MAX_VALUE_LEN)

read_number ==
    LET sign == IF At(index) = "-" THEN 1 ELSE 0
        length == sign + Run(index + sign, Digits)
    IN  Reading(Lexeme("number", SubSeq(sql_text, index, index + length - 1)),
                length, length < MAX_VALUE_LEN)

\* Slip: a carriage return is let through.
StringAtomsAndReturn == Atoms \ {"'", "\n"}

\* What a string may hold.
StringAtoms == Atoms \ {"'", "\n", "\r"}

read_string ==
    LET length == Run(index + 1, StringAtoms)
    IN  Reading(Lexeme("string", SubSeq(sql_text, index + 1, index + length)),
                length + 2, length < MAX_VALUE_LEN /\ At(index + length + 1) = "'")

read_symbol ==
    IF At(index) = "!" THEN Reading(Lexeme("!=", <<"!", "=">>), 2, At(index + 1) = "=")
    ELSE Reading(Lexeme(At(index), <<At(index)>>), 1, At(index) \in Symbols)

\* Slip: the quotes take no columns.
ColumnsOfText(lexeme) == Len(lexeme.text)

\* The column moves on by the length of the text, and of the quotes of a string.
Columns(lexeme) == Len(lexeme.text) + (IF lexeme.type = "string" THEN 2 ELSE 0)

Placed(lexeme) == [type |-> lexeme.type, text |-> lexeme.text, line |-> line, column |-> column]

append_token(lexeme) ==
    /\ Len(tokens) < MAX_TOKENS
    /\ tokens' = Append(tokens, Placed(lexeme))

Read(reading) ==
    \/ /\ reading.legal
       /\ append_token(reading.lexeme)
       /\ index' = index + reading.length
       /\ column' = column + Columns(reading.lexeme)
       /\ UNCHANGED <<line, tokenizing>>
    \/ /\ ~reading.legal \/ Len(tokens) >= MAX_TOKENS
       /\ tokenizing' = "failed"
       /\ UNCHANGED <<index, line, column, tokens>>

SkipBlank ==
    /\ At(index) \in Blanks
    /\ index' = index + 1 /\ column' = column + 1
    /\ UNCHANGED <<line, tokens, tokenizing>>

SkipNewline ==
    /\ At(index) = "\n"
    /\ index' = index + 1 /\ line' = line + 1 /\ column' = 1
    /\ UNCHANGED <<tokens, tokenizing>>

StartsNumber == At(index) \in Digits \/ (At(index) = "-" /\ At(index + 1) \in Digits)

ReadWord == At(index) \in Letters /\ Read(read_word)
ReadNumber == StartsNumber /\ Read(read_number)
ReadString == At(index) = "'" /\ Read(read_string)
ReadSymbol ==
    /\ At(index) \notin Letters \cup Blanks \cup {"\n", "'", "end"}
    /\ ~StartsNumber
    /\ Read(read_symbol)

EndOfText ==
    /\ At(index) = "end"
    /\ \/ append_token(Lexeme("eof", <<>>)) /\ tokenizing' = "done"
       \/ Len(tokens) >= MAX_TOKENS /\ tokenizing' = "failed" /\ UNCHANGED tokens
    /\ UNCHANGED <<index, line, column>>

TokenizerInit ==
    /\ index = 1 /\ line = 1 /\ column = 1
    /\ tokens = <<>>
    /\ tokenizing = "running"

Tokenize ==
    /\ tokenizing = "running"
    /\ SkipBlank \/ SkipNewline \/ ReadWord \/ ReadNumber \/ ReadString \/ ReadSymbol \/ EndOfText
    /\ UNCHANGED sql_text

-----------------------------------------------------------------------------
(* Properties. *)

\* The text that a token stands for.
Spelling(token) == IF token.type = "string" THEN <<"'">> \o token.text \o <<"'">> ELSE token.text

\* The line and column of an atom, counted from the text alone.
Newlines(i) == {j \in 1 .. i - 1 : At(j) = "\n"}
LineOf(i) == Cardinality(Newlines(i)) + 1
Latest(places) == IF places = {} THEN 0 ELSE CHOOSE j \in places : \A k \in places : k <= j
ColumnOf(i) == i - Latest(Newlines(i))

\* A token comes from the text just where it says, whatever blanks, newlines and
\* quotes come before it, it takes the text from there to where reading goes on, and
\* nothing but blanks is ever passed over: no character is lost or read twice
\* (tokenize_sql; every later error points into the text by these places).
TokensPlaced ==
    [][LET passed == SubSeq(sql_text, index, index' - 1)
           read == tokens'[Len(tokens')]
       IN  IF tokens' # tokens
           THEN /\ SubSeq(tokens', 1, Len(tokens)) = tokens
                /\ read.line = LineOf(index) /\ read.column = ColumnOf(index)
                /\ lower(passed) = lower(Spelling(read))
           ELSE \A i \in DOMAIN passed : passed[i] \in Blanks \cup {"\n"}]_tokenizer_vars
=============================================================================
