------------------------------ MODULE SqlProc ------------------------------
(***************************************************************************)
(* What the modules over SQL text share: include/sqlproc.h, and texts.     *)
(*                                                                         *)
(* A text is a sequence of atoms.  An atom stands for a character, and so  *)
(* does a keyword, a type or a name that needs no taking apart: each fills *)
(* one column of the text and one place of a buffer.  Words are runs of    *)
(* letters and digits, so a keyword with something attached is a name.     *)
(***************************************************************************)
EXTENDS Integers, Sequences, FiniteSets, SequencesExt

CONSTANTS
    Letters,         \* atoms that begin a word
    LowerCase,       \* [Letters -> Letters], tolower
    DigitValue,      \* the digits and their values
    MAX_NAME_LEN,    \* size of the buffer of a name
    MAX_VALUE_LEN,   \* size of the buffer for the text of a token or a value
    MAX_COLUMNS,
    MAX_TOKENS,
    MAX_STATEMENTS,
    INT_MAX

Digits == DOMAIN DigitValue
Keywords == {"insert", "into", "values", "select", "from", "where"}
Blanks == {" ", "\r"}
Operators == {"=", ">", "<"}
Symbols == {",", ";", "(", ")", "*"} \cup Operators
DoubleQuote == "\""
Others == {"\n", "'", DoubleQuote, "-", "+", "@", "!", ":"}
Atoms == Letters \cup Digits \cup Blanks \cup Symbols \cup Others

ASSUME LettersAssumption ==
    /\ LowerCase \in [Letters -> Letters]
    /\ Keywords \cup {"int", "string", "id"} \subseteq Letters
ASSUME DigitsAssumption == DigitValue \in [Digits -> 0 .. 9]
\* isalpha, isdigit and isspace divide the characters, and tolower has nothing more
\* to do on what it returns; "end" is no character.
ASSUME CharactersAssumption ==
    /\ Letters \cap Digits = {}
    /\ (Letters \cup Digits) \cap (Blanks \cup Symbols \cup Others \cup {"end"}) = {}
    /\ \A letter \in Letters : LowerCase[LowerCase[letter]] = LowerCase[letter]
ASSUME LimitsAssumption ==
    /\ {MAX_VALUE_LEN, MAX_COLUMNS, MAX_TOKENS, MAX_STATEMENTS, INT_MAX} \subseteq Nat \ {0}
    /\ MAX_NAME_LEN \in 3 .. MAX_VALUE_LEN

\* The longest line of a schema file and the longest line of a table that the
\* buffers hold.  A type is one atom.
MAX_SCHEMA_LINE_LEN == MAX_COLUMNS * ((MAX_NAME_LEN - 1) + 1 + 1) + (MAX_COLUMNS - 1) + 2
MAX_CSV_ROW_LEN == MAX_COLUMNS * ((MAX_VALUE_LEN - 1) * 2 + 2) + (MAX_COLUMNS - 1) + 2

\* to_lowercase_copy
lower(text) == [i \in DOMAIN text |-> IF text[i] \in Letters THEN LowerCase[text[i]] ELSE text[i]]

\* How many atoms a text begins with that are in S.
Span(text, S) == Cardinality({n \in 1 .. Len(text) : \A i \in 1 .. n : text[i] \in S})

\* The text up to the end of its first line.
FirstLine(text) == SubSeq(text, 1, Span(text, Atoms \ {"\r", "\n"}))

\* The texts with a comma between one and the next.
Joined(texts) ==
    LET upTo[n \in 0 .. Len(texts)] ==
            IF n = 0 THEN <<>>
            ELSE IF n = 1 THEN texts[1]
            ELSE upTo[n - 1] \o <<",">> \o texts[n]
    IN  upTo[Len(texts)]

\* The elements of a sequence at the places in K.
Picked(s, K) ==
    LET upTo[n \in 0 .. Len(s)] ==
            IF n = 0 THEN <<>> ELSE IF n \in K THEN Append(upTo[n - 1], s[n]) ELSE upTo[n - 1]
    IN  upTo[Len(s)]

\* What atoms spell as a number (strtol, base 10).
Number(text) ==
    LET sign == IF text # <<>> /\ text[1] = "-" THEN -1 ELSE 1
        value[n \in 0 .. Len(text)] ==
            IF n = 0 THEN 0
            ELSE IF text[n] \in Digits THEN 10 * value[n - 1] + DigitValue[text[n]] ELSE 0
    IN  sign * value[Len(text)]
=============================================================================
