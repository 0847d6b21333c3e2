-------------------------- MODULE SqlParserProofs --------------------------
(***************************************************************************)
(* No buffer of the tokenizer or the parser is given more than it holds,   *)
(* and every token is the text at its place, for any text and any limits.  *)
(*                                                                         *)
(* LimitsHold is not inductive: that a name fits depends on where the      *)
(* parser is, and where the parser is on the token list ending with its    *)
(* eof.  Shape says both.                                                  *)
(*                                                                         *)
(* And parse_program accepts what the grammar says.  Described says of     *)
(* each place of the parser what it has read of the statement: so many     *)
(* columns and values, each a token of its kind, a comma between two.      *)
(* Read up to its semicolon, that is a statement of the language; and as   *)
(* long as what is read begins a statement of the language, the next token *)
(* of that statement is one the parser takes.                              *)
(***************************************************************************)
EXTENDS SqlParser, FiniteSetTheorems, SequenceTheorems, NaturalsRecursion, TLAPS

Texts == Seq(Atoms)

\* The atoms of one line, and what they spell.
Plain == Atoms \ {"\r", "\n"}
Words == Seq(Plain)

TokenTypes == Symbols \cup Keywords \cup {"identifier", "number", "string", "!=", "eof"}
Lexemes == [type : TokenTypes, text : Words]
Tokens == [type : TokenTypes, text : Words, line : Nat, column : Nat]
Statements ==
    [verb : TokenTypes \cup {"none"}, table : Words, columns : Seq(Words),
     values : Seq(Lexemes), where : Seq(Lexemes)]

TokensShape ==
    /\ sql_text \in Texts
    /\ index \in 1 .. Len(sql_text) + 1
    /\ line \in Nat /\ column \in Nat
    /\ tokens \in Seq(Tokens)
    /\ tokenizing \in {"running", "done", "failed"}
    /\ tokenizing = "done" => tokens # <<>> /\ tokens[Len(tokens)].type = "eof"

TokensFit ==
    /\ Len(tokens) <= MAX_TOKENS
    /\ \A k \in DOMAIN tokens : Len(tokens[k].text) < MAX_VALUE_LEN

ParserShape ==
    /\ position \in Nat \ {0}
    /\ position = 1 \/ position <= Len(tokens)
    /\ statement \in Statements
    /\ program \in Seq(Statements)
    /\ expecting \in {"operator", "where value"} => statement.where # <<>>
    /\ expecting # "statement" => Len(program) < MAX_STATEMENTS

ProgramFits ==
    /\ Len(program) <= MAX_STATEMENTS
    /\ WithinLimits(statement)
    /\ \A k \in DOMAIN program : WithinLimits(program[k])

Shape == TokensShape /\ TokensFit /\ ParserShape /\ ProgramFits

-----------------------------------------------------------------------------
(* Texts. *)

\* A span lies within its text.
LEMMA SpanBound ==
    ASSUME NEW A, NEW text \in Seq(A), NEW S
    PROVE  Span(text, S) \in 0 .. Len(text)
<1> DEFINE Prefixes_ == {n \in 1 .. Len(text) : \A i \in 1 .. n : text[i] \in S}
<1>1. Len(text) \in Nat
  BY LenProperties
<1>2. IsFiniteSet(1 .. Len(text)) /\ Cardinality(1 .. Len(text)) = Len(text)
  BY <1>1, FS_Interval, SMTT(30)
<1>3. Prefixes_ \subseteq 1 .. Len(text)
  OBVIOUS
<1>4. Cardinality(Prefixes_) <= Len(text) /\ IsFiniteSet(Prefixes_)
  BY <1>2, <1>3, FS_Subset
<1>5. Cardinality(Prefixes_) \in Nat
  BY <1>4, FS_CardinalityType
<1>6. Span(text, S) = Cardinality(Prefixes_)
  BY DEF Span
<1> HIDE DEF Prefixes_
<1> QED
  BY <1>1, <1>4, <1>5, <1>6

\* A piece of a text is as long as its bounds say.
LEMMA SliceLength ==
    ASSUME NEW A, NEW s \in Seq(A), NEW m \in 1 .. Len(s) + 1, NEW n \in m - 1 .. Len(s)
    PROVE  SubSeq(s, m, n) \in Seq(A) /\ Len(SubSeq(s, m, n)) = n - m + 1
<1>1. Len(s) \in Nat /\ m \in Int /\ n \in Int
  BY LenProperties
<1>2. CASE m <= n
  BY <1>1, <1>2, SubSeqProperties
<1>3. CASE n = m - 1
  BY <1>1, <1>3, SubSeqProperties
<1> QED
  BY <1>1, <1>2, <1>3

\* Folding to lower case keeps a text a text of its length.
LEMMA LowerShape ==
    ASSUME NEW text \in Texts
    PROVE  lower(text) \in Texts /\ Len(lower(text)) = Len(text)
<1>1. Len(text) \in Nat /\ DOMAIN text = 1 .. Len(text)
  BY LenProperties DEF Texts
<1>2. \A i \in 1 .. Len(text) : lower(text)[i] \in Atoms
  BY <1>1, LettersAssumption, ElementOfSeq DEF lower, Texts, Atoms
<1>3. lower(text) = [i \in 1 .. Len(text) |-> lower(text)[i]]
  BY <1>1 DEF lower
<1>4. lower(text) \in [1 .. Len(text) -> Atoms]
  BY <1>2, <1>3
<1> QED
  BY <1>1, <1>4, IsASeq, LenProperties DEF Texts

-----------------------------------------------------------------------------
(* The tokenizer. *)

Fitting(reading) ==
    /\ reading.lexeme \in Lexemes
    /\ Len(reading.lexeme.text) < MAX_VALUE_LEN
    /\ reading.length \in Nat
    /\ index + reading.length <= Len(sql_text) + 1

\* A run of atoms ends within the text.
LEMMA RunBound ==
    ASSUME NEW i \in 1 .. Len(sql_text) + 1, NEW S, sql_text \in Texts
    PROVE  Run(i, S) \in 0 .. Len(sql_text) - i + 1
<1>1. Len(sql_text) \in Nat
  BY LenProperties DEF Texts
<1>2. SubSeq(sql_text, i, Len(sql_text)) \in Texts
      /\ Len(SubSeq(sql_text, i, Len(sql_text))) = Len(sql_text) - i + 1
  BY <1>1, SliceLength DEF Texts
<1> QED
  BY <1>2, SpanBound DEF Run, Texts

\* An atom that is not the end lies in the text.
LEMMA AtInside ==
    ASSUME NEW i, At(i) # "end", sql_text \in Texts
    PROVE  i \in 1 .. Len(sql_text) /\ At(i) \in Atoms
<1>1. DOMAIN sql_text = 1 .. Len(sql_text)
  BY LenProperties DEF Texts
<1> QED
  BY <1>1, ElementOfSeq DEF At, Texts

\* A span is of the set it is taken with.
LEMMA SpanInside ==
    ASSUME NEW A, NEW text \in Seq(A), NEW S, NEW j \in 1 .. Span(text, S)
    PROVE  text[j] \in S
<1> DEFINE P == {n \in 1 .. Len(text) : \A i \in 1 .. n : text[i] \in S}
<1>0. Span(text, S) = Cardinality(P)
  BY Zenon DEF Span
<1>1. Len(text) \in Nat /\ Span(text, S) \in 0 .. Len(text)
  BY LenProperties, SpanBound
<1>2. j \in 1 .. Len(text)
  BY <1>1
<1>3. CASE j \in P
  BY <1>2, <1>3
<1>4. CASE j \notin P
  <2>1. P \subseteq 1 .. j - 1
    <3> SUFFICES ASSUME NEW n \in P, n >= j PROVE FALSE
      BY <1>1, <1>2
    <3>1. \A i \in 1 .. j : text[i] \in S
      BY <1>1, <1>2
    <3> QED
      BY <1>2, <1>4, <3>1
  <2>2. IsFiniteSet(1 .. j - 1) /\ Cardinality(1 .. j - 1) = j - 1
    BY <1>2, FS_Interval
  <2> HIDE DEF P
  <2>3. Cardinality(P) <= j - 1
    BY <2>1, <2>2, FS_Subset
  <2> QED
    BY <1>0, <1>1, <1>2, <2>3
<1> QED
  BY <1>3, <1>4

LEMMA RunInside ==
    ASSUME NEW i \in 1 .. Len(sql_text) + 1, NEW S, sql_text \in Texts, NEW j \in i .. i + Run(i, S) - 1
    PROVE  At(j) \in S /\ j \in 1 .. Len(sql_text)
<1>1. Len(sql_text) \in Nat /\ DOMAIN sql_text = 1 .. Len(sql_text)
  BY LenProperties DEF Texts
<1> DEFINE rest == SubSeq(sql_text, i, Len(sql_text))
<1>2. rest \in Texts /\ Len(rest) = Len(sql_text) - i + 1
  BY <1>1, SliceLength DEF Texts
<1>3. Run(i, S) \in 0 .. Len(sql_text) - i + 1
  BY RunBound
<1>4. j \in 1 .. Len(sql_text) /\ j - i + 1 \in 1 .. Run(i, S)
  BY <1>1, <1>3
<1>5. rest[j - i + 1] = sql_text[j]
  BY <1>1, <1>2, <1>4
<1> HIDE DEF rest
<1>6. rest[j - i + 1] \in S
  BY <1>2, <1>4, SpanInside DEF Run, Texts, rest
<1> QED
  BY <1>1, <1>4, <1>5, <1>6 DEF At

LEMMA WordsAreTexts == Words \subseteq Texts
<1>1. Plain \subseteq Atoms
  BY DEF Plain
<1> QED
  BY <1>1, SeqMonotonic DEF Words, Texts

LEMMA PlainAtomsRead ==
    /\ Letters \cup Digits \subseteq Plain /\ Symbols \subseteq Plain
    /\ StringAtoms \subseteq Plain /\ {"-", "!", "="} \subseteq Plain
<1>1. "\r" \notin Letters \cup Digits /\ "\n" \notin Letters \cup Digits
  BY CharactersAssumption DEF Blanks, Others
<1>2. Letters \cup Digits \subseteq Plain
  BY <1>1, Zenon DEF Plain, Atoms
<1>3. Symbols \subseteq Plain /\ {"-", "!", "="} \subseteq Plain
  BY DEF Plain, Atoms, Symbols, Operators, Others
<1>4. StringAtoms \subseteq Plain
  BY Zenon DEF StringAtoms, Plain
<1> QED
  BY <1>2, <1>3, <1>4

\* A piece of the text without the end of a line.
LEMMA PlainSlice ==
    ASSUME sql_text \in Texts, NEW i \in 1 .. Len(sql_text) + 1, NEW n \in 0 .. Len(sql_text) - i + 1,
           \A j \in i .. i + n - 1 : At(j) \in Plain
    PROVE  SubSeq(sql_text, i, i + n - 1) \in Words
<1>1. Len(sql_text) \in Nat /\ DOMAIN sql_text = 1 .. Len(sql_text)
  BY LenProperties DEF Texts
<1> DEFINE raw == SubSeq(sql_text, i, i + n - 1)
<1>2. raw \in Texts /\ Len(raw) = n
  BY <1>1, SliceLength DEF Texts
<1>3. \A k \in 1 .. n : raw[k] \in Plain
  <2> SUFFICES ASSUME NEW k \in 1 .. n PROVE raw[k] \in Plain
    OBVIOUS
  <2>1. i + k - 1 \in i .. i + n - 1 /\ i + k - 1 \in 1 .. Len(sql_text)
    BY <1>1
  <2>2. raw[k] = sql_text[i + k - 1]
    BY <1>1, SubSeqProperties DEF Texts
  <2> QED
    BY <1>1, <2>1, <2>2 DEF At
<1> HIDE DEF raw
<1>4. raw \in [1 .. n -> Plain]
  BY <1>2, <1>3, LenProperties DEF Texts
<1>5. raw \in Words
  BY <1>4, IsASeq DEF Words
<1> QED
  BY <1>5 DEF raw

LEMMA LowerPlain ==
    ASSUME NEW text \in Words
    PROVE  lower(text) \in Words /\ Len(lower(text)) = Len(text)
<1>1. Len(text) \in Nat /\ DOMAIN text = 1 .. Len(text)
  BY LenProperties DEF Words
<1>a. Letters \subseteq Plain
  BY PlainAtomsRead
<1>2. \A i \in 1 .. Len(text) : lower(text)[i] \in Plain
  BY <1>1, <1>a, LettersAssumption, ElementOfSeq DEF lower, Words
<1>3. lower(text) = [i \in 1 .. Len(text) |-> lower(text)[i]]
  BY <1>1 DEF lower
<1>4. lower(text) \in [1 .. Len(text) -> Plain]
  BY <1>2, <1>3
<1> QED
  BY <1>1, <1>4, IsASeq, LenProperties DEF Words

LEMMA WordFits ==
    ASSUME TokensShape, read_word.legal
    PROVE  Fitting(read_word)
<1> DEFINE length == Run(index, Letters \cup Digits)
           raw == SubSeq(sql_text, index, index + length - 1)
<1>1. Len(sql_text) \in Nat
  BY LenProperties DEF TokensShape, Texts
<1>2. length \in 0 .. Len(sql_text) - index + 1
  BY RunBound DEF TokensShape
<1>3. read_word.length = length /\ length < MAX_VALUE_LEN
  BY DEF read_word, Reading
<1> HIDE DEF length
<1>a. \A j \in index .. index + length - 1 : At(j) \in Plain
  BY RunInside, PlainAtomsRead DEF TokensShape, length
<1>b. raw \in Words
  BY <1>1, <1>2, <1>a, PlainSlice DEF TokensShape
<1>4. raw \in Words /\ Len(raw) = length
  BY <1>1, <1>2, <1>b, SliceLength DEF TokensShape, Texts
<1>5. lower(raw) \in Words /\ Len(lower(raw)) = length
  BY <1>4, LowerPlain
<1>6. \/ /\ read_word.lexeme = Lexeme(LowerCase[raw[1]], raw)
         /\ LowerCase[raw[1]] \in Keywords
      \/ read_word.lexeme = Lexeme("identifier", lower(raw))
  BY DEF read_word, Reading, length
<1> HIDE DEF raw
<1>7. read_word.lexeme \in Lexemes /\ Len(read_word.lexeme.text) = length
  BY <1>4, <1>5, <1>6 DEF Lexeme, Lexemes, TokenTypes
<1> QED
  BY <1>1, <1>2, <1>3, <1>7 DEF Fitting, TokensShape

LEMMA NumberFits ==
    ASSUME TokensShape, read_number.legal, StartsNumber
    PROVE  Fitting(read_number)
<1> DEFINE sign == IF At(index) = "-" THEN 1 ELSE 0
           length == sign + Run(index + sign, Digits)
           raw == SubSeq(sql_text, index, index + length - 1)
<1>1. Len(sql_text) \in Nat
  BY LenProperties DEF TokensShape, Texts
<1>2. index + sign \in 1 .. Len(sql_text) + 1 /\ sign \in 0 .. 1
  BY <1>1, AtInside DEF TokensShape
<1>3. Run(index + sign, Digits) \in 0 .. Len(sql_text) - (index + sign) + 1
  BY <1>2, RunBound DEF TokensShape
<1>4. read_number.lexeme = Lexeme("number", raw) /\ read_number.length = length
      /\ length < MAX_VALUE_LEN
  BY DEF read_number, Reading
<1> HIDE DEF sign
<1>5. length \in 0 .. Len(sql_text) - index + 1
  BY <1>1, <1>2, <1>3 DEF TokensShape
<1> HIDE DEF length
<1>6. /\ index \in 1 .. Len(sql_text) + 1
      /\ index + length - 1 \in index - 1 .. Len(sql_text)
  BY <1>1, <1>5 DEF TokensShape
<1>a. sign = 1 => At(index) = "-"
  BY DEF sign
<1>b. \A j \in index + sign .. (index + sign) + Run(index + sign, Digits) - 1 : At(j) \in Plain
  BY <1>2, RunInside, PlainAtomsRead DEF TokensShape
<1>c. \A j \in index .. index + length - 1 : At(j) \in Plain
  <2> SUFFICES ASSUME NEW j \in index .. index + length - 1 PROVE At(j) \in Plain
    OBVIOUS
  <2>1. CASE sign = 1 /\ j = index
    BY <1>a, <2>1, PlainAtomsRead
  <2>2. CASE ~(sign = 1 /\ j = index)
    <3>1. Run(index + sign, Digits) \in Nat /\ length = sign + Run(index + sign, Digits) /\ index \in Nat
      BY <1>1, <1>3 DEF TokensShape, length
    <3>2. j \in index + sign .. (index + sign) + Run(index + sign, Digits) - 1
      BY <1>2, <2>2, <3>1
    <3> QED
      BY <1>b, <3>2
  <2> QED
    BY <2>1, <2>2
<1>d. raw \in Words
  BY <1>1, <1>5, <1>c, PlainSlice DEF TokensShape
<1>7. raw \in Words /\ Len(raw) = (index + length - 1) - index + 1
  BY <1>6, <1>d, SliceLength DEF TokensShape, Texts
<1> HIDE DEF raw
<1> QED
  BY <1>1, <1>4, <1>5, <1>7 DEF Fitting, Lexeme, Lexemes, TokenTypes, TokensShape

LEMMA StringFits ==
    ASSUME TokensShape, read_string.legal, At(index) = "'"
    PROVE  Fitting(read_string)
<1> DEFINE length == Run(index + 1, StringAtoms)
           raw == SubSeq(sql_text, index + 1, index + length)
<1>1. Len(sql_text) \in Nat
  BY LenProperties DEF TokensShape, Texts
<1>2. index \in 1 .. Len(sql_text)
  BY AtInside DEF TokensShape
<1>3. length \in 0 .. Len(sql_text) - index
  BY <1>1, <1>2, RunBound DEF TokensShape
<1>4. /\ read_string.lexeme = Lexeme("string", raw) /\ read_string.length = length + 2
      /\ length < MAX_VALUE_LEN /\ At(index + length + 1) = "'"
  BY DEF read_string, Reading
<1>a. \A j \in index + 1 .. index + 1 + length - 1 : At(j) \in Plain
  BY <1>1, <1>2, RunInside, PlainAtomsRead DEF TokensShape
<1> HIDE DEF length
<1>5. index + length + 1 \in 1 .. Len(sql_text)
  BY <1>4, AtInside DEF TokensShape
<1>b. SubSeq(sql_text, index + 1, index + 1 + length - 1) \in Words
  BY <1>1, <1>2, <1>3, <1>a, PlainSlice, SMTT(30) DEF TokensShape
<1>c. index + 1 + length - 1 = index + length
  BY <1>1, <1>2, <1>3
<1>6. raw \in Words /\ Len(raw) = length
  BY <1>1, <1>2, <1>3, <1>b, <1>c, SliceLength DEF TokensShape, Texts
<1> HIDE DEF raw
<1> QED
  BY <1>1, <1>2, <1>3, <1>4, <1>5, <1>6 DEF Fitting, Lexeme, Lexemes, TokenTypes, TokensShape

LEMMA SymbolFits ==
    ASSUME TokensShape, read_symbol.legal
    PROVE  Fitting(read_symbol)
<1>1. CASE At(index) = "!"
  <2>1. /\ read_symbol.lexeme = Lexeme("!=", <<"!", "=">>) /\ read_symbol.length = 2
        /\ At(index + 1) = "="
    BY <1>1 DEF read_symbol, Reading
  <2>2. index + 1 \in 1 .. Len(sql_text)
    BY <2>1, AtInside DEF TokensShape
  <2>3. {"!", "="} \subseteq Plain
    BY PlainAtomsRead
  <2>4. <<"!", "=">> \in Words /\ Len(<<"!", "=">>) = 2
    BY <2>3 DEF Words
  <2> QED
    BY <1>1, <2>1, <2>2, <2>4, LimitsAssumption DEF Fitting, Lexeme, Lexemes, TokenTypes, TokensShape
<1>2. CASE At(index) # "!"
  <2>1. /\ read_symbol.lexeme = Lexeme(At(index), <<At(index)>>) /\ read_symbol.length = 1
        /\ At(index) \in Symbols
    BY <1>2 DEF read_symbol, Reading
  <2>2. index \in 1 .. Len(sql_text)
    BY <2>1, AtInside DEF TokensShape, Symbols, Operators
  <2>3. <<At(index)>> \in Words /\ Len(<<At(index)>>) = 1
    BY <2>1, PlainAtomsRead DEF Words
  <2> QED
    BY <2>1, <2>2, <2>3, LimitsAssumption DEF Fitting, Lexeme, Lexemes, TokenTypes, TokensShape
<1> QED
  BY <1>1, <1>2

\* A token is appended only while there is room, and keeps its text.
LEMMA AppendFits ==
    ASSUME TokensShape, TokensFit, NEW lexeme \in Lexemes,
           Len(lexeme.text) < MAX_VALUE_LEN, append_token(lexeme)
    PROVE  /\ tokens' \in Seq(Tokens) /\ TokensFit'
           /\ Len(tokens') = Len(tokens) + 1
           /\ tokens'[Len(tokens')].type = lexeme.type
           /\ Columns(lexeme) \in Nat
<1> DEFINE placed == Placed(lexeme)
<1>1. placed \in Tokens /\ placed.text = lexeme.text /\ placed.type = lexeme.type
  BY DEF Placed, Lexemes, Tokens, TokensShape
<1>2. tokens \in Seq(Tokens) /\ Len(tokens) \in Nat /\ MAX_TOKENS \in Nat
  BY LenProperties, LimitsAssumption DEF TokensShape
<1>3. tokens' = Append(tokens, placed) /\ Len(tokens) < MAX_TOKENS
  BY DEF append_token
<1> HIDE DEF placed
<1>4. /\ tokens' \in Seq(Tokens) /\ Len(tokens') = Len(tokens) + 1
      /\ \A i \in 1 .. Len(tokens) : tokens'[i] = tokens[i]
      /\ tokens'[Len(tokens) + 1] = placed
  BY <1>1, <1>2, <1>3, AppendProperties
<1>5. DOMAIN tokens = 1 .. Len(tokens) /\ DOMAIN tokens' = 1 .. Len(tokens')
  BY <1>2, <1>4, LenProperties
<1>6. \A k \in DOMAIN tokens' : Len(tokens'[k].text) < MAX_VALUE_LEN
  BY <1>1, <1>2, <1>4, <1>5 DEF TokensFit
<1>7. Len(tokens') <= MAX_TOKENS
  BY <1>2, <1>3, <1>4
<1>8. lexeme.text \in Words
  BY DEF Lexemes
<1>9. Len(lexeme.text) \in Nat
  BY <1>8, LenProperties DEF Words
<1>10. Columns(lexeme) \in Nat
  <2>1. CASE lexeme.type = "string"
    <3>1. Columns(lexeme) = Len(lexeme.text) + 2
      BY <2>1, Zenon DEF Columns
    <3> QED
      BY <1>9, <3>1
  <2>2. CASE lexeme.type # "string"
    <3>1. Columns(lexeme) = Len(lexeme.text) + 0
      BY <2>2, Zenon DEF Columns
    <3> QED
      BY <1>9, <3>1
  <2> QED
    BY <2>1, <2>2
<1>11. tokens'[Len(tokens')].type = lexeme.type
  BY <1>1, <1>4
<1> QED
  BY <1>4, <1>6, <1>7, <1>10, <1>11 DEF TokensFit

\* A legal reading becomes a token, any other stops the tokenizer.
LEMMA ReadKeepsShape ==
    ASSUME TokensShape, TokensFit, tokenizing = "running",
           NEW reading, reading.legal => Fitting(reading), Read(reading),
           UNCHANGED sql_text
    PROVE  TokensShape' /\ TokensFit'
<1>1. CASE reading.legal /\ append_token(reading.lexeme)
           /\ index' = index + reading.length
           /\ column' = column + Columns(reading.lexeme)
           /\ UNCHANGED <<line, tokenizing>>
  <2>1. tokens' \in Seq(Tokens) /\ TokensFit' /\ Columns(reading.lexeme) \in Nat
    BY <1>1, AppendFits DEF Fitting
  <2>2. index' \in 1 .. Len(sql_text) + 1 /\ column' \in Nat
    BY <1>1, <2>1, LenProperties DEF Fitting, TokensShape
  <2> QED
    BY <1>1, <2>1, <2>2 DEF TokensShape
<1>2. CASE tokenizing' = "failed" /\ UNCHANGED <<index, line, column, tokens>>
  BY <1>2 DEF TokensShape, TokensFit
<1> QED
  BY <1>1, <1>2 DEF Read

\* Every step of the tokenizer.
LEMMA TokenizeKeepsShape ==
    ASSUME TokensShape, TokensFit, Tokenize
    PROVE  TokensShape' /\ TokensFit'
<1>1. tokenizing = "running" /\ UNCHANGED sql_text
  BY DEF Tokenize
<1>2. Len(sql_text) \in Nat
  BY LenProperties DEF TokensShape, Texts
<1>3. CASE SkipBlank
  <2>1. index \in 1 .. Len(sql_text)
    BY <1>3, AtInside DEF SkipBlank, Blanks, TokensShape
  <2> QED
    BY <1>1, <1>2, <1>3, <2>1 DEF SkipBlank, TokensShape, TokensFit
<1>4. CASE SkipNewline
  <2>1. index \in 1 .. Len(sql_text)
    BY <1>4, AtInside DEF SkipNewline, TokensShape
  <2> QED
    BY <1>1, <1>2, <1>4, <2>1 DEF SkipNewline, TokensShape, TokensFit
<1>5. CASE ReadWord
  BY <1>1, <1>5, WordFits, ReadKeepsShape DEF ReadWord
<1>6. CASE ReadNumber
  BY <1>1, <1>6, NumberFits, ReadKeepsShape DEF ReadNumber
<1>7. CASE ReadString
  BY <1>1, <1>7, StringFits, ReadKeepsShape DEF ReadString
<1>8. CASE ReadSymbol
  BY <1>1, <1>8, SymbolFits, ReadKeepsShape DEF ReadSymbol
<1>9. CASE EndOfText
  <2>1. CASE append_token(Lexeme("eof", <<>>)) /\ tokenizing' = "done"
    <3>1. Lexeme("eof", <<>>) \in Lexemes
      BY DEF Lexeme, Lexemes, TokenTypes, Words
    <3>2. Len(Lexeme("eof", <<>>).text) < MAX_VALUE_LEN /\ Lexeme("eof", <<>>).type = "eof"
      BY LimitsAssumption DEF Lexeme
    <3>3. /\ tokens' \in Seq(Tokens) /\ TokensFit' /\ Len(tokens') = Len(tokens) + 1
          /\ tokens'[Len(tokens')].type = "eof"
      BY <2>1, <3>1, <3>2, AppendFits
    <3>4. tokens' # <<>>
      BY <3>3, LenProperties DEF TokensShape
    <3> QED
      BY <1>1, <1>9, <2>1, <3>3, <3>4 DEF EndOfText, TokensShape
  <2>2. CASE tokenizing' = "failed" /\ UNCHANGED tokens
    BY <1>1, <1>9, <2>2 DEF EndOfText, TokensShape, TokensFit
  <2> QED
    BY <1>9, <2>1, <2>2 DEF EndOfText
<1> QED
  BY <1>3, <1>4, <1>5, <1>6, <1>7, <1>8, <1>9 DEF Tokenize

\* The tokenizer takes no token back, so the parser never looks past the end.
LEMMA TokensOnlyGrow ==
    ASSUME TokensShape, Tokenize
    PROVE  Len(tokens') \in Nat /\ Len(tokens) \in Nat /\ Len(tokens') >= Len(tokens)
<1>1. tokens \in Seq(Tokens) /\ Len(tokens) \in Nat
  BY LenProperties DEF TokensShape
<1>2. UNCHANGED tokens \/ \E lexeme : append_token(lexeme)
  BY DEF Tokenize, SkipBlank, SkipNewline, ReadWord, ReadNumber, ReadString, ReadSymbol, Read, EndOfText
<1>3. ASSUME NEW lexeme, append_token(lexeme)
      PROVE  Len(tokens') = Len(tokens) + 1
  BY <1>1, <1>3 DEF append_token
<1> QED
  BY <1>1, <1>2, <1>3

-----------------------------------------------------------------------------
(* Places: what was read stands where the token says. *)

\* Where the tokenizer is in the text it knows as line and column.
Located == line = LineOf(index) /\ column = ColumnOf(index)

\* Atoms that are not newlines keep the line and count as columns.
LEMMA SameLine ==
    ASSUME sql_text \in Texts, index \in 1 .. Len(sql_text) + 1, NEW n \in Nat,
           \A j \in index .. index + n - 1 : At(j) # "\n"
    PROVE  LineOf(index + n) = LineOf(index) /\ ColumnOf(index + n) = ColumnOf(index) + n
<1>1. Len(sql_text) \in Nat
  BY LenProperties DEF Texts
<1>2. Newlines(index + n) = Newlines(index)
  BY <1>1 DEF Newlines
<1>3. Latest(Newlines(index + n)) = Latest(Newlines(index))
  BY <1>2
<1>4. Latest(Newlines(index)) \in Int
  <2>1. CASE Newlines(index) = {}
    BY <2>1 DEF Latest
  <2>2. CASE Newlines(index) # {}
    <3>1. index - 1 \in Nat /\ Newlines(index) \subseteq 0 .. index - 1
      BY <1>1 DEF Newlines
    <3>2. \E j \in Newlines(index) : \A k \in Newlines(index) : k <= j
      BY <2>2, <3>1, Largest
    <3>3. Latest(Newlines(index)) \in Newlines(index)
      BY <2>2, <3>2 DEF Latest
    <3> QED
      BY <3>1, <3>3
  <2> QED
    BY <2>1, <2>2
<1>5. LineOf(index + n) = LineOf(index)
  BY <1>2, Zenon DEF LineOf
<1> QED
  BY <1>1, <1>3, <1>4, <1>5 DEF ColumnOf

LEMMA NextLine ==
    ASSUME sql_text \in Texts, index \in 1 .. Len(sql_text), At(index) = "\n"
    PROVE  LineOf(index + 1) = LineOf(index) + 1 /\ ColumnOf(index + 1) = 1
<1>1. Len(sql_text) \in Nat
  BY LenProperties DEF Texts
<1> DEFINE N == Newlines(index)
<1>2. N \subseteq 1 .. index - 1 /\ Newlines(index + 1) = N \cup {index}
  BY <1>1 DEF Newlines
<1>3. IsFiniteSet(N) /\ index \notin N
  <2>1. IsFiniteSet(1 .. index - 1)
    BY <1>1, FS_Interval
  <2> QED
    BY <1>1, <1>2, <2>1, FS_Subset
<1> HIDE DEF N
<1>4. Cardinality(N \cup {index}) = Cardinality(N) + 1 /\ Cardinality(N) \in Nat
  BY <1>3, FS_AddElement, FS_CardinalityType
<1>5. Latest(Newlines(index + 1)) = index
  <2>1. \A j \in N \cup {index} : (\A k \in N \cup {index} : k <= j) <=> j = index
    BY <1>1, <1>2
  <2>2. (CHOOSE j \in N \cup {index} : \A k \in N \cup {index} : k <= j) = index
    BY <2>1
  <2>3. Newlines(index + 1) # {}
    BY <1>2
  <2> QED
    BY <1>2, <2>2, <2>3, Zenon DEF Latest
<1>6. LineOf(index + 1) = Cardinality(N \cup {index}) + 1
  BY <1>2, Zenon DEF LineOf
<1>7. LineOf(index) = Cardinality(N) + 1
  BY Zenon DEF LineOf, N
<1> QED
  BY <1>1, <1>4, <1>5, <1>6, <1>7 DEF ColumnOf

LEMMA LocatedInit == TokenizerInit => Located
<1> SUFFICES ASSUME TokenizerInit PROVE Located
  OBVIOUS
<1>1. index = 1 /\ line = 1 /\ column = 1
  BY DEF TokenizerInit
<1>2. Newlines(1) = {}
  BY DEF Newlines
<1>3. LineOf(1) = 1
  BY <1>2, FS_EmptySet DEF LineOf
<1>4. ColumnOf(1) = 1
  BY <1>2 DEF ColumnOf, Latest
<1> QED
  BY <1>1, <1>3, <1>4 DEF Located

\* The text that a step takes.
Passed(n) == SubSeq(sql_text, index, index + n - 1)

\* A token is the text that was read for it, on one line, and as wide.
Faithful(reading) ==
    /\ reading.length \in Nat
    /\ index + reading.length <= Len(sql_text) + 1
    /\ Columns(reading.lexeme) = reading.length
    /\ \A j \in index .. index + reading.length - 1 : At(j) # "\n"
    /\ lower(Passed(reading.length)) = lower(Spelling(reading.lexeme))

LEMMA PassedText ==
    ASSUME TokensShape, NEW n \in Nat, index + n <= Len(sql_text) + 1
    PROVE  /\ Passed(n) \in Texts /\ Len(Passed(n)) = n
           /\ \A k \in 1 .. n : Passed(n)[k] = sql_text[index + k - 1] /\ Passed(n)[k] = At(index + k - 1)
<1>1. Len(sql_text) \in Nat /\ DOMAIN sql_text = 1 .. Len(sql_text) /\ index \in 1 .. Len(sql_text) + 1
  BY LenProperties DEF TokensShape, Texts
<1>2. \A i \in index .. index + n - 1 : sql_text[i] \in Atoms
  BY <1>1, ElementOfSeq DEF TokensShape, Texts
<1>3. /\ SubSeq(sql_text, index, index + n - 1) \in Seq(Atoms)
      /\ Len(SubSeq(sql_text, index, index + n - 1)) = n
      /\ \A k \in 1 .. n : SubSeq(sql_text, index, index + n - 1)[k] = sql_text[index + k - 1]
  BY <1>1, <1>2, SubSeqProperties
<1>4. \A k \in 1 .. n : sql_text[index + k - 1] = At(index + k - 1)
  BY <1>1 DEF At
<1> QED
  BY <1>3, <1>4 DEF Passed, Texts

LEMMA LowerTwice ==
    ASSUME NEW text \in Texts
    PROVE  lower(lower(text)) = lower(text)
<1>1. DOMAIN lower(text) = DOMAIN text
  BY DEF lower
<1>2. \A i \in DOMAIN text : lower(text)[i] = IF text[i] \in Letters THEN LowerCase[text[i]] ELSE text[i]
  BY DEF lower
<1>3. \A i \in DOMAIN text :
        (IF lower(text)[i] \in Letters THEN LowerCase[lower(text)[i]] ELSE lower(text)[i]) = lower(text)[i]
  BY <1>2, LettersAssumption, CharactersAssumption
<1>4. lower(lower(text)) =
        [i \in DOMAIN text |-> IF lower(text)[i] \in Letters THEN LowerCase[lower(text)[i]] ELSE lower(text)[i]]
  BY <1>1 DEF lower
<1>5. lower(text) = [i \in DOMAIN text |-> lower(text)[i]]
  BY DEF lower
<1> HIDE DEF lower
<1> QED
  BY <1>3, <1>4, <1>5

LEMMA WordFaithful ==
    ASSUME TokensShape, read_word.legal
    PROVE  Faithful(read_word)
<1> DEFINE length == Run(index, Letters \cup Digits)
           raw == SubSeq(sql_text, index, index + length - 1)
<1>1. Fitting(read_word)
  BY WordFits
<1>2. read_word.length = length /\ raw = Passed(length)
  BY DEF read_word, Reading, Passed
<1>3. \A j \in index .. index + length - 1 : At(j) # "\n"
  <2>1. \A j \in index .. index + length - 1 : At(j) \in Letters \cup Digits
    BY RunInside DEF TokensShape
  <2> QED
    BY <2>1, CharactersAssumption DEF Others
<1>4. \/ /\ read_word.lexeme = Lexeme(LowerCase[raw[1]], raw)
         /\ LowerCase[raw[1]] \in Keywords
      \/ read_word.lexeme = Lexeme("identifier", lower(raw))
  BY DEF read_word, Reading
<1> HIDE DEF length, raw
<1>5. length \in Nat /\ index + length <= Len(sql_text) + 1
  BY <1>1, <1>2 DEF Fitting
<1>6. raw \in Texts /\ Len(raw) = length
  BY <1>2, <1>5, PassedText
<1>7. lower(raw) \in Texts /\ Len(lower(raw)) = length /\ lower(lower(raw)) = lower(raw)
  BY <1>6, LowerShape, LowerTwice
<1>8. CASE read_word.lexeme = Lexeme(LowerCase[raw[1]], raw) /\ LowerCase[raw[1]] \in Keywords
  <2>1. LowerCase[raw[1]] # "string"
    BY <1>8 DEF Keywords
  <2>2. Spelling(read_word.lexeme) = raw /\ Columns(read_word.lexeme) = length + 0
    BY <1>6, <1>8, <2>1 DEF Lexeme, Spelling, Columns
  <2> QED
    BY <1>2, <1>3, <1>5, <2>2 DEF Faithful
<1>9. CASE read_word.lexeme = Lexeme("identifier", lower(raw))
  <2>1. Spelling(read_word.lexeme) = lower(raw) /\ Columns(read_word.lexeme) = length + 0
    BY <1>7, <1>9 DEF Lexeme, Spelling, Columns
  <2> QED
    BY <1>2, <1>3, <1>5, <1>7, <2>1 DEF Faithful
<1> QED
  BY <1>4, <1>8, <1>9

LEMMA NumberFaithful ==
    ASSUME TokensShape, read_number.legal, StartsNumber
    PROVE  Faithful(read_number)
<1> DEFINE sign == IF At(index) = "-" THEN 1 ELSE 0
           length == sign + Run(index + sign, Digits)
           raw == SubSeq(sql_text, index, index + length - 1)
<1>1. Fitting(read_number)
  BY NumberFits
<1>2. read_number.length = length /\ raw = Passed(length) /\ read_number.lexeme = Lexeme("number", raw)
  BY DEF read_number, Reading, Passed
<1>3. \A j \in index .. index + length - 1 : At(j) # "\n"
  <2>1. Len(sql_text) \in Nat /\ index \in 1 .. Len(sql_text) + 1
    BY LenProperties DEF TokensShape, Texts
  <2>2. index + sign \in 1 .. Len(sql_text) + 1 /\ sign \in 0 .. 1
    BY <2>1, AtInside DEF TokensShape
  <2>3. \A j \in index + sign .. index + sign + Run(index + sign, Digits) - 1 : At(j) \in Digits
    BY <2>2, RunInside DEF TokensShape
  <2>4. \A j \in index + sign .. index + sign + Run(index + sign, Digits) - 1 : At(j) # "\n"
    BY <2>3, CharactersAssumption DEF Others
  <2>5. sign = 1 => At(index) # "\n"
    OBVIOUS
  <2>6. Run(index + sign, Digits) \in Nat
    BY <2>1, <2>2, RunBound DEF TokensShape
  <2> HIDE DEF sign
  <2> QED
    BY <2>1, <2>2, <2>4, <2>5, <2>6
<1> HIDE DEF sign, length, raw
<1>4. length \in Nat /\ index + length <= Len(sql_text) + 1
  BY <1>1, <1>2 DEF Fitting
<1>5. raw \in Texts /\ Len(raw) = length
  BY <1>2, <1>4, PassedText
<1>6. Spelling(read_number.lexeme) = raw /\ Columns(read_number.lexeme) = length + 0
  BY <1>2, <1>5 DEF Lexeme, Spelling, Columns
<1> QED
  BY <1>2, <1>3, <1>4, <1>6 DEF Faithful

\* The places of two texts put together.
LEMMA PutTogether ==
    ASSUME NEW S, NEW x \in Seq(S), NEW y \in Seq(S), NEW h, h = x \o y
    PROVE  /\ h \in Seq(S) /\ Len(h) = Len(x) + Len(y)
           /\ \A i \in 1 .. Len(x) + Len(y) : h[i] = IF i <= Len(x) THEN x[i] ELSE y[i - Len(x)]
BY ConcatProperties

\* What a token in quotes spells.
LEMMA QuotedText ==
    ASSUME NEW raw \in Texts, NEW n \in Nat, Len(raw) = n, NEW s \in Texts, Len(s) = n + 2,
           s[1] = "'", s[n + 2] = "'", \A k \in 1 .. n : s[k + 1] = raw[k]
    PROVE  s = <<"'">> \o raw \o <<"'">>
<1> DEFINE q == <<"'">>
           h == q \o raw
           t == h \o q
<1>0. "'" \in Atoms
  BY DEF Atoms, Others
<1>1. q \in Texts /\ Len(q) = 1 /\ q[1] = "'"
  BY <1>0 DEF Texts
<1> HIDE DEF q
<1>2. h \in Texts /\ Len(h) = n + 1 /\ \A i \in 1 .. n + 1 : h[i] = IF i <= 1 THEN q[i] ELSE raw[i - 1]
  <2>1. q \in Seq(Atoms) /\ raw \in Seq(Atoms)
    BY <1>1 DEF Texts
  <2>2. /\ h \in Seq(Atoms) /\ Len(h) = Len(q) + Len(raw)
        /\ \A i \in 1 .. Len(q) + Len(raw) : h[i] = IF i <= Len(q) THEN q[i] ELSE raw[i - Len(q)]
    BY <2>1, PutTogether, SMTT(30)
  <2>3. Len(q) + Len(raw) = n + 1
    BY <1>1
  <2> QED
    BY <1>1, <2>2, <2>3, Zenon DEF Texts
<1> HIDE DEF h
<1>a. /\ t \in Texts /\ Len(t) = Len(h) + Len(q)
      /\ \A i \in 1 .. Len(h) + Len(q) : t[i] = IF i <= Len(h) THEN h[i] ELSE q[i - Len(h)]
  BY <1>1, <1>2, ConcatProperties DEF Texts
<1> HIDE DEF t
<1>b. Len(h) = n + 1 /\ Len(q) = 1 /\ n + 1 + 1 = n + 2
  BY <1>1, <1>2
<1>3. t \in Texts /\ Len(t) = n + 2 /\ \A i \in 1 .. n + 2 : t[i] = IF i <= n + 1 THEN h[i] ELSE q[i - (n + 1)]
  BY <1>a, <1>b
<1>4. \A i \in 1 .. n + 2 : s[i] = t[i]
  <2> SUFFICES ASSUME NEW i \in 1 .. n + 2 PROVE s[i] = t[i]
    OBVIOUS
  <2>1. CASE i = 1
    BY <1>1, <1>2, <1>3, <2>1
  <2>2. CASE i \in 2 .. n + 1
    <3>1. i - 1 \in 1 .. n /\ i = (i - 1) + 1
      BY <2>2
    <3>2. s[i] = raw[i - 1]
      BY <3>1
    <3> QED
      BY <1>2, <1>3, <2>2, <3>2
  <2>3. CASE i = n + 2
    BY <1>1, <1>3, <2>3
  <2> QED
    BY <2>1, <2>2, <2>3
<1>5. s = t
  BY <1>3, <1>4, SeqEqual DEF Texts
<1> QED
  BY <1>5 DEF t, h, q

LEMMA StringFaithful ==
    ASSUME TokensShape, read_string.legal, At(index) = "'"
    PROVE  Faithful(read_string)
<1> DEFINE length == Run(index + 1, StringAtoms)
           raw == SubSeq(sql_text, index + 1, index + length)
<1>1. Fitting(read_string)
  BY StringFits
<1>2. /\ read_string.lexeme = Lexeme("string", raw) /\ read_string.length = length + 2
      /\ At(index + length + 1) = "'"
  BY DEF read_string, Reading
<1>3. Len(sql_text) \in Nat /\ index \in 1 .. Len(sql_text)
  BY AtInside, LenProperties DEF TokensShape, Texts
<1>4. length \in 0 .. Len(sql_text) - index
  BY <1>3, RunBound DEF TokensShape
<1>5. \A j \in index + 1 .. index + 1 + length - 1 : At(j) # "\n"
  <2>1. index + 1 \in 1 .. Len(sql_text) + 1
    BY <1>3
  <2>2. \A j \in index + 1 .. index + 1 + length - 1 : At(j) \in StringAtoms
    BY <2>1, RunInside DEF TokensShape
  <2> QED
    BY <2>2 DEF StringAtoms
<1>6. raw \in Texts /\ Len(raw) = length /\ \A k \in 1 .. length : raw[k] = sql_text[index + 1 + k - 1]
  <2>1. \A i \in index + 1 .. index + length : sql_text[i] \in Atoms
    BY <1>3, <1>4, ElementOfSeq DEF TokensShape, Texts
  <2> HIDE DEF length
  <2> QED
    BY <1>3, <1>4, <2>1, SubSeqProperties DEF Texts
<1> HIDE DEF length, raw
<1>7. length \in Nat /\ length + 2 \in Nat /\ index + (length + 2) <= Len(sql_text) + 1
  BY <1>1, <1>2, <1>4 DEF Fitting
<1> DEFINE s == Passed(length + 2)
<1>8. /\ s \in Texts /\ Len(s) = length + 2
      /\ \A k \in 1 .. length + 2 : s[k] = sql_text[index + k - 1] /\ s[k] = At(index + k - 1)
  BY <1>7, PassedText
<1> HIDE DEF s
<1>9. s[1] = "'" /\ s[length + 2] = "'"
  <2>1. s[1] = At(index + 1 - 1) /\ s[length + 2] = At(index + (length + 2) - 1)
    BY <1>7, <1>8
  <2>2. index + 1 - 1 = index /\ index + (length + 2) - 1 = index + length + 1
    BY <1>3, <1>7
  <2> QED
    BY <1>2, <2>1, <2>2
<1>10. \A k \in 1 .. length : s[k + 1] = raw[k]
  <2> SUFFICES ASSUME NEW k \in 1 .. length PROVE s[k + 1] = raw[k]
    OBVIOUS
  <2>1. k + 1 \in 1 .. length + 2 /\ index + (k + 1) - 1 = index + 1 + k - 1
    BY <1>3, <1>7
  <2> QED
    BY <1>6, <1>8, <2>1
<1>11. s = <<"'">> \o raw \o <<"'">>
  BY <1>6, <1>7, <1>8, <1>9, <1>10, QuotedText
<1>12. Spelling(read_string.lexeme) = s /\ Columns(read_string.lexeme) = length + 2
  BY <1>2, <1>6, <1>11 DEF Lexeme, Spelling, Columns
<1>13. \A j \in index .. index + (length + 2) - 1 : At(j) # "\n"
  BY <1>2, <1>3, <1>5, <1>7
<1> QED
  BY <1>2, <1>7, <1>12, <1>13 DEF Faithful, s

LEMMA SymbolFaithful ==
    ASSUME TokensShape, read_symbol.legal
    PROVE  Faithful(read_symbol)
<1>1. Fitting(read_symbol)
  BY SymbolFits
<1>2. Len(sql_text) \in Nat /\ index \in 1 .. Len(sql_text) + 1
  BY LenProperties DEF TokensShape, Texts
<1>3. CASE At(index) = "!"
  <2>1. /\ read_symbol.lexeme = Lexeme("!=", <<"!", "=">>) /\ read_symbol.length = 2
        /\ At(index + 1) = "="
    BY <1>3 DEF read_symbol, Reading
  <2>2. index + 2 <= Len(sql_text) + 1
    BY <1>1, <2>1 DEF Fitting
  <2>3. Passed(2) \in Texts /\ Len(Passed(2)) = 2 /\ \A k \in 1 .. 2 : Passed(2)[k] = At(index + k - 1)
    BY <2>2, PassedText
  <2>4. Passed(2)[1] = "!" /\ Passed(2)[2] = "="
    BY <1>2, <1>3, <2>1, <2>3
  <2>5. Passed(2) = <<"!", "=">>
    BY <2>3, <2>4 DEF Texts
  <2>6. Spelling(read_symbol.lexeme) = Passed(2) /\ Columns(read_symbol.lexeme) = 2
    BY <2>1, <2>5 DEF Lexeme, Spelling, Columns
  <2>7. \A j \in index .. index + 2 - 1 : At(j) # "\n"
    BY <1>2, <1>3, <2>1
  <2> QED
    BY <1>1, <2>1, <2>6, <2>7 DEF Faithful, Fitting
<1>4. CASE At(index) # "!"
  <2>1. /\ read_symbol.lexeme = Lexeme(At(index), <<At(index)>>) /\ read_symbol.length = 1
        /\ At(index) \in Symbols
    BY <1>4 DEF read_symbol, Reading
  <2>2. index + 1 <= Len(sql_text) + 1
    BY <1>1, <2>1 DEF Fitting
  <2>3. Passed(1) \in Texts /\ Len(Passed(1)) = 1 /\ \A k \in 1 .. 1 : Passed(1)[k] = At(index + k - 1)
    BY <2>2, PassedText
  <2>4. Passed(1)[1] = At(index)
    BY <1>2, <2>3
  <2>5. Passed(1) = <<At(index)>>
    BY <2>3, <2>4 DEF Texts
  <2>6. At(index) # "string" /\ At(index) # "\n"
    BY <2>1 DEF Symbols, Operators
  <2>7. Spelling(read_symbol.lexeme) = Passed(1) /\ Columns(read_symbol.lexeme) = 1
    BY <2>1, <2>5, <2>6 DEF Lexeme, Spelling, Columns
  <2>8. \A j \in index .. index + 1 - 1 : At(j) # "\n"
    BY <1>2, <2>6
  <2> QED
    BY <1>1, <2>1, <2>7, <2>8 DEF Faithful, Fitting
<1> QED
  BY <1>3, <1>4

\* A token more, at its place.
LEMMA TokenAppended ==
    ASSUME TokensShape, NEW lexeme \in Lexemes, append_token(lexeme)
    PROVE  /\ tokens' # tokens
           /\ SubSeq(tokens', 1, Len(tokens)) = tokens
           /\ tokens'[Len(tokens')] = Placed(lexeme)
<1> DEFINE placed == Placed(lexeme)
<1>1. placed \in Tokens
  BY DEF Placed, Lexemes, Tokens, TokensShape
<1>2. tokens \in Seq(Tokens) /\ Len(tokens) \in Nat
  BY LenProperties DEF TokensShape
<1>3. tokens' = Append(tokens, placed)
  BY DEF append_token
<1> HIDE DEF placed
<1>4. /\ tokens' \in Seq(Tokens) /\ Len(tokens') = Len(tokens) + 1
      /\ \A i \in 1 .. Len(tokens) : tokens'[i] = tokens[i]
      /\ tokens'[Len(tokens) + 1] = placed
  BY <1>1, <1>2, <1>3, AppendProperties
<1>5. tokens' # tokens
  BY <1>2, <1>4
<1>6. \A i \in 1 .. Len(tokens) : tokens'[i] \in Tokens
  BY <1>4, ElementOfSeq
<1>7. /\ SubSeq(tokens', 1, Len(tokens)) \in Seq(Tokens)
      /\ Len(SubSeq(tokens', 1, Len(tokens))) = Len(tokens)
      /\ \A i \in 1 .. Len(tokens) : SubSeq(tokens', 1, Len(tokens))[i] = tokens[i]
  BY <1>2, <1>4, <1>6, SubSeqProperties
<1>8. SubSeq(tokens', 1, Len(tokens)) = tokens
  BY <1>2, <1>7, SeqEqual
<1> QED
  BY <1>4, <1>5, <1>8 DEF placed

\* What TokensPlaced says of a step.
TakesItsText ==
    LET passed == SubSeq(sql_text, index, index' - 1)
        read == tokens'[Len(tokens')]
    IN  IF tokens' # tokens
        THEN /\ SubSeq(tokens', 1, Len(tokens)) = tokens
             /\ read.line = LineOf(index) /\ read.column = ColumnOf(index)
             /\ lower(passed) = lower(Spelling(read))
        ELSE \A i \in DOMAIN passed : passed[i] \in Blanks \cup {"\n"}

\* A step that takes no token.
LEMMA NothingTaken ==
    ASSUME TokensShape, UNCHANGED tokens, index' = index
    PROVE  TakesItsText
<1>1. index \in Nat
  BY LenProperties DEF TokensShape, Texts
<1>2. SubSeq(sql_text, index, index - 1) = <<>>
  BY <1>1, SubSeqEmpty
<1>3. index' - 1 = index - 1
  OBVIOUS
<1>4. SubSeq(sql_text, index, index' - 1) = <<>>
  BY <1>2, <1>3, Zenon
<1>5. DOMAIN SubSeq(sql_text, index, index' - 1) = {}
  <2>1. DOMAIN <<>> = {}
    OBVIOUS
  <2> QED
    BY <1>4, <2>1, Zenon
<1> QED
  BY <1>5, Zenon DEF TakesItsText

LEMMA ReadPlaced ==
    ASSUME TokensShape, Located, NEW reading, reading.legal => Faithful(reading) /\ Fitting(reading),
           Read(reading), UNCHANGED sql_text
    PROVE  TakesItsText /\ Located'
<1>1. CASE /\ reading.legal /\ append_token(reading.lexeme)
           /\ index' = index + reading.length
           /\ column' = column + Columns(reading.lexeme)
           /\ UNCHANGED <<line, tokenizing>>
  <2> DEFINE n == reading.length
  <2>0. index' = index + n /\ column' = column + Columns(reading.lexeme) /\ line' = line
    BY <1>1
  <2>1. /\ n \in Nat /\ index + n <= Len(sql_text) + 1 /\ Columns(reading.lexeme) = n
        /\ \A j \in index .. index + n - 1 : At(j) # "\n"
        /\ lower(Passed(n)) = lower(Spelling(reading.lexeme))
        /\ reading.lexeme \in Lexemes
    BY <1>1 DEF Faithful, Fitting
  <2> HIDE DEF n
  <2>2. /\ tokens' # tokens /\ SubSeq(tokens', 1, Len(tokens)) = tokens
        /\ tokens'[Len(tokens')] = Placed(reading.lexeme)
    BY <1>1, <2>1, TokenAppended
  <2>3. Spelling(Placed(reading.lexeme)) = Spelling(reading.lexeme)
    BY DEF Spelling, Placed
  <2>4. SubSeq(sql_text, index, index' - 1) = Passed(n)
    <3>1. index \in Int /\ n \in Int
      BY <2>1, LenProperties DEF TokensShape, Texts
    <3>2. index' - 1 = index + n - 1
      BY <2>0, <3>1
    <3> QED
      BY <3>2 DEF Passed
  <2>5. TakesItsText
    <3>1. Placed(reading.lexeme).line = LineOf(index) /\ Placed(reading.lexeme).column = ColumnOf(index)
      BY DEF Placed, Located
    <3>2. lower(SubSeq(sql_text, index, index' - 1)) = lower(Spelling(tokens'[Len(tokens')]))
      BY <2>1, <2>2, <2>3, <2>4
    <3> QED
      BY <2>2, <3>1, <3>2, Zenon DEF TakesItsText
  <2>6. LineOf(index + n) = LineOf(index) /\ ColumnOf(index + n) = ColumnOf(index) + n
    BY <2>1, SameLine DEF TokensShape
  <2>7. LineOf(index)' = LineOf(index + n) /\ ColumnOf(index)' = ColumnOf(index + n)
    BY <2>0 DEF LineOf, ColumnOf, Newlines, At
  <2> QED
    BY <2>0, <2>1, <2>5, <2>6, <2>7 DEF Located
<1>2. CASE tokenizing' = "failed" /\ UNCHANGED <<index, line, column, tokens>>
  <2>1. Located'
    BY <1>2 DEF Located, LineOf, ColumnOf, Newlines, At
  <2> QED
    BY <1>2, <2>1, NothingTaken
<1> QED
  BY <1>1, <1>2 DEF Read

LEMMA TokenizePlaced ==
    ASSUME TokensShape, Located, Tokenize
    PROVE  TakesItsText /\ Located'
<1>1. UNCHANGED sql_text
  BY DEF Tokenize
<1>2. Len(sql_text) \in Nat /\ index \in 1 .. Len(sql_text) + 1
  BY LenProperties DEF TokensShape, Texts
<1>3. ASSUME index \in 1 .. Len(sql_text), At(index) \in Blanks \cup {"\n"}, index' = index + 1, UNCHANGED tokens
      PROVE  TakesItsText
  <2>1. Passed(1) \in Texts /\ Len(Passed(1)) = 1 /\ \A k \in 1 .. 1 : Passed(1)[k] = At(index + k - 1)
    <3>1. 1 \in Nat /\ index + 1 <= Len(sql_text) + 1
      BY <1>2, <1>3
    <3> QED
      BY <3>1, PassedText
  <2>2. DOMAIN Passed(1) = 1 .. 1
    BY <2>1, LenProperties DEF Texts
  <2>3. \A i \in DOMAIN Passed(1) : Passed(1)[i] = At(index)
    BY <1>2, <2>1, <2>2
  <2>4. SubSeq(sql_text, index, index' - 1) = Passed(1)
    BY <1>2, <1>3 DEF Passed
  <2> QED
    BY <1>3, <2>3, <2>4 DEF TakesItsText
<1>4. CASE SkipBlank
  <2>1. index \in 1 .. Len(sql_text) /\ At(index) # "\n"
    BY <1>4, AtInside DEF SkipBlank, Blanks, TokensShape
  <2>2. TakesItsText
    BY <1>3, <1>4, <2>1 DEF SkipBlank
  <2>3. \A j \in index .. index + 1 - 1 : At(j) # "\n"
    BY <1>2, <2>1
  <2>4. LineOf(index + 1) = LineOf(index) /\ ColumnOf(index + 1) = ColumnOf(index) + 1
    BY <1>2, <2>3, SameLine DEF TokensShape
  <2>5. LineOf(index)' = LineOf(index + 1) /\ ColumnOf(index)' = ColumnOf(index + 1)
    BY <1>1, <1>4 DEF SkipBlank, LineOf, ColumnOf, Newlines, At
  <2> QED
    BY <1>4, <2>2, <2>4, <2>5 DEF SkipBlank, Located
<1>5. CASE SkipNewline
  <2>1. index \in 1 .. Len(sql_text) /\ At(index) = "\n"
    BY <1>5, AtInside DEF SkipNewline, TokensShape
  <2>2. TakesItsText
    BY <1>3, <1>5, <2>1 DEF SkipNewline
  <2>3. LineOf(index + 1) = LineOf(index) + 1 /\ ColumnOf(index + 1) = 1
    BY <2>1, NextLine DEF TokensShape
  <2>4. LineOf(index)' = LineOf(index + 1) /\ ColumnOf(index)' = ColumnOf(index + 1)
    BY <1>1, <1>5 DEF SkipNewline, LineOf, ColumnOf, Newlines, At
  <2> QED
    BY <1>5, <2>2, <2>3, <2>4 DEF SkipNewline, Located
<1>6. CASE ReadWord
  BY <1>1, <1>6, WordFits, WordFaithful, ReadPlaced DEF ReadWord
<1>7. CASE ReadNumber
  BY <1>1, <1>7, NumberFits, NumberFaithful, ReadPlaced DEF ReadNumber
<1>8. CASE ReadString
  BY <1>1, <1>8, StringFits, StringFaithful, ReadPlaced DEF ReadString
<1>9. CASE ReadSymbol
  BY <1>1, <1>9, SymbolFits, SymbolFaithful, ReadPlaced DEF ReadSymbol
<1>10. CASE EndOfText
  <2>1. Located' /\ index' = index
    BY <1>1, <1>10 DEF EndOfText, Located, LineOf, ColumnOf, Newlines, At
  <2>2. CASE append_token(Lexeme("eof", <<>>))
    <3> DEFINE eof == Lexeme("eof", <<>>)
    <3>1. eof \in Lexemes /\ Spelling(Placed(eof)) = <<>>
      BY DEF Lexeme, Lexemes, TokenTypes, Words, Spelling, Placed
    <3>2. Placed(eof).line = line /\ Placed(eof).column = column
      BY DEF Placed
    <3> HIDE DEF eof
    <3>3. /\ tokens' # tokens /\ SubSeq(tokens', 1, Len(tokens)) = tokens
          /\ tokens'[Len(tokens')] = Placed(eof)
      BY <2>2, <3>1, TokenAppended DEF eof
    <3>4. SubSeq(sql_text, index, index' - 1) = <<>>
      BY <1>2, <2>1, SubSeqEmpty
    <3> QED
      BY <2>1, <3>1, <3>2, <3>3, <3>4 DEF TakesItsText, Located
  <2>3. CASE UNCHANGED tokens
    BY <2>1, <2>3, NothingTaken
  <2> QED
    BY <1>10, <2>1, <2>2, <2>3 DEF EndOfText
<1> QED
  BY <1>4, <1>5, <1>6, <1>7, <1>8, <1>9, <1>10 DEF Tokenize

-----------------------------------------------------------------------------
(* The parser. *)

\* What the rules say of the places: names come as identifiers, the operator of a
\* condition follows its column, and only statements end in a semicolon.
LEMMA Rules ==
    ASSUME NEW place, NEW type, NEW next, <<place, type, next>> \in Grammar
    PROVE  /\ type # "eof"
           /\ place \in Tables \cup {"where column"} => type = "identifier"
           /\ next = "operator" => place = "where column"
           /\ next = "where value" => place = "operator"
           /\ type = ";" => place # "statement" /\ next = "statement"
           /\ place = "value" => type \in Literals
<1>1. \/ <<place, type, next>> \in FixedRules
      \/ place = "value" /\ type \in Literals /\ next = "more values"
      \/ place = "operator" /\ type \in Operators \cup {"!="} /\ next = "where value"
      \/ place = "where value" /\ type \in Literals /\ next = ";"
  BY DEF Grammar
<1>2. CASE <<place, type, next>> \in FixedRules
  BY <1>2 DEF FixedRules, Tables
<1> QED
  BY <1>1, <1>2 DEF Tables, Literals, Operators

\* The next token is a token, and one that is taken is not the last.
LEMMA TokenTaken ==
    ASSUME TokensShape, TokensFit, ParserShape, tokenizing = "done", Take
    PROVE  /\ token \in Tokens /\ Len(token.text) < MAX_VALUE_LEN
           /\ position' \in Nat \ {0} /\ position' <= Len(tokens)
           /\ expecting = "statement" => Len(program) < MAX_STATEMENTS
           /\ <<expecting, token.type, expecting'>> \in Grammar
           /\ token.type = "identifier" => Len(token.text) < MAX_NAME_LEN
           /\ expecting \in Names => RoomForColumn(statement)
           /\ expecting = "value" => RoomForValue(statement)
<1>1. tokens \in Seq(Tokens) /\ tokens # <<>> /\ tokens[Len(tokens)].type = "eof"
  BY DEF TokensShape
<1>2. Len(tokens) \in Nat /\ Len(tokens) # 0 /\ DOMAIN tokens = 1 .. Len(tokens)
  BY <1>1, LenProperties, EmptySeq
<1>3. position \in 1 .. Len(tokens)
  <2>1. position \in Nat \ {0} /\ (position = 1 \/ position <= Len(tokens))
    BY DEF ParserShape
  <2> QED
    BY <1>2, <2>1
<1>4. token \in Tokens /\ Len(token.text) < MAX_VALUE_LEN
  BY <1>1, <1>2, <1>3, ElementOfSeq DEF token, TokensFit
<1>5. <<expecting, token.type, expecting'>> \in Grammar
  BY DEF Take, Applicable
<1>6. token.type # "eof"
  BY <1>5, Rules
<1>7. position # Len(tokens)
  BY <1>1, <1>6 DEF token
<1>8. position' \in Nat \ {0} /\ position' <= Len(tokens)
  <2>1. position' = position + 1
    BY DEF Take
  <2> DEFINE last == Len(tokens)
  <2>2. last \in Nat /\ position \in 1 .. last /\ position # last
    BY <1>2, <1>3, <1>7
  <2> HIDE DEF last
  <2>3. position \in Nat \ {0} /\ position + 1 <= last
    BY <2>2
  <2>4. position + 1 \in Nat \ {0}
    BY <2>3
  <2> QED
    BY <2>1, <2>3, <2>4 DEF last
<1>9. Legal
  BY DEF Take
<1> QED
  BY <1>4, <1>5, <1>8, <1>9, Zenon DEF Legal

\* What a list holds after an element is put at its end.
LEMMA Appended ==
    ASSUME NEW S, NEW s \in Seq(S), NEW x \in S
    PROVE  /\ Append(s, x) \in Seq(S) /\ Append(s, x) # <<>>
           /\ Len(s) \in Nat /\ Len(Append(s, x)) = Len(s) + 1
           /\ \A k \in DOMAIN Append(s, x) :
                (k \in DOMAIN s /\ Append(s, x)[k] = s[k]) \/ Append(s, x)[k] = x
           /\ Append(s, x)[1] = IF s = <<>> THEN x ELSE s[1]
<1> DEFINE longer == Append(s, x)
<1>1. /\ longer \in Seq(S) /\ Len(longer) = Len(s) + 1 /\ Len(s) \in Nat
      /\ \A i \in 1 .. Len(s) : longer[i] = s[i]
      /\ longer[Len(s) + 1] = x
  BY AppendProperties, LenProperties
<1>2. DOMAIN longer = 1 .. Len(s) + 1 /\ DOMAIN s = 1 .. Len(s)
  BY <1>1, LenProperties
<1>3. longer # <<>> /\ (s = <<>> <=> Len(s) = 0)
  BY <1>1, EmptySeq
<1> HIDE DEF longer
<1>4. \A k \in DOMAIN longer : (k \in DOMAIN s /\ longer[k] = s[k]) \/ longer[k] = x
  BY <1>1, <1>2
<1>5. longer[1] = IF s = <<>> THEN x ELSE s[1]
  BY <1>1, <1>3
<1> QED
  BY <1>1, <1>3, <1>4, <1>5 DEF longer

\* A step that takes a token keeps what Shape says of the parser, if it keeps the
\* statement one that fits.
LEMMA TakeKeepsShape ==
    ASSUME TokensShape, TokensFit, ParserShape, ProgramFits, tokenizing = "done", Take,
           UNCHANGED <<tokenizer_vars, program>>,
           statement' \in Statements, WithinLimits(statement)',
           expecting' \in {"operator", "where value"} => statement'.where # <<>>
    PROVE  ParserShape' /\ ProgramFits'
<1>1. /\ position' \in Nat \ {0} /\ position' <= Len(tokens)
      /\ expecting = "statement" => Len(program) < MAX_STATEMENTS
  BY TokenTaken
<1>2. Len(program) < MAX_STATEMENTS
  BY <1>1 DEF ParserShape
<1>3. ParserShape'
  BY <1>1, <1>2 DEF ParserShape, tokenizer_vars
<1>4. ProgramFits'
  BY DEF ProgramFits, WithinLimits
<1> QED
  BY <1>3, <1>4

\* Every step of the parser.
LEMMA ParseKeepsShape ==
    ASSUME Shape, Parse, UNCHANGED tokenizer_vars
    PROVE  ParserShape' /\ ProgramFits'
<1> USE DEF Shape
<1>1. tokenizing = "done"
  BY DEF Parse
<1>2. statement \in Statements /\ WithinLimits(statement)
  BY DEF ParserShape, ProgramFits
<1>3. /\ statement.table \in Words /\ statement.columns \in Seq(Words)
      /\ statement.values \in Seq(Lexemes) /\ statement.where \in Seq(Lexemes)
  BY <1>2 DEF Statements
<1>4. ASSUME Take
      PROVE  /\ token.type \in TokenTypes /\ token.text \in Words
             /\ Lexeme(token.type, token.text) \in Lexemes
             /\ Len(token.text) < MAX_VALUE_LEN
             /\ <<expecting, token.type, expecting'>> \in Grammar
             /\ token.type = "identifier" => Len(token.text) < MAX_NAME_LEN
             /\ expecting \in Names => RoomForColumn(statement)
             /\ expecting = "value" => RoomForValue(statement)
  BY <1>1, <1>4, TokenTaken DEF Tokens, Lexeme, Lexemes
<1>a. ASSUME Take, expecting \notin Wheres
      PROVE  expecting' \notin {"operator", "where value"}
  <2>1. <<expecting, token.type, expecting'>> \in Grammar
    BY <1>1, <1>a, TokenTaken
  <2>2. /\ expecting' = "operator" => expecting = "where column"
        /\ expecting' = "where value" => expecting = "operator"
    BY <2>1, Rules
  <2> QED
    BY <1>a, <2>2 DEF Wheres
<1>5. CASE BeginStatement
  <2>1. Take /\ UNCHANGED program /\ expecting = "statement"
    BY <1>5 DEF BeginStatement
  <2>2. statement' = [verb |-> token.type, table |-> <<>>, columns |-> <<>>, values |-> <<>>,
                      where |-> <<>>]
    BY <1>5 DEF BeginStatement
  <2>3. statement' \in Statements
    BY <1>4, <2>1, <2>2 DEF Statements, Words
  <2>4. WithinLimits(statement)'
    BY <2>2, LimitsAssumption DEF WithinLimits
  <2>5. expecting' \notin {"operator", "where value"}
    BY <1>a, <2>1 DEF Wheres
  <2> QED
    BY <1>1, <2>1, <2>3, <2>4, <2>5, TakeKeepsShape
<1>6. CASE TakeTable
  <2>1. Take /\ UNCHANGED program /\ expecting \in Tables
    BY <1>6 DEF TakeTable
  <2>2. statement' = [statement EXCEPT !.table = token.text]
    BY <1>6 DEF TakeTable
  <2>3. token.type = "identifier"
    BY <1>4, <2>1, Rules
  <2>4. statement' \in Statements
    BY <1>2, <1>4, <2>1, <2>2 DEF Statements
  <2>5. WithinLimits(statement)'
    BY <1>2, <1>4, <2>1, <2>2, <2>3 DEF WithinLimits, Statements
  <2>6. expecting' \notin {"operator", "where value"}
    BY <1>a, <2>1 DEF Tables, Wheres
  <2> QED
    BY <1>1, <2>1, <2>4, <2>5, <2>6, TakeKeepsShape
<1>7. CASE TakeColumn
  <2>1. Take /\ UNCHANGED program /\ expecting \in Names /\ token.type = "identifier"
    BY <1>7 DEF TakeColumn
  <2> DEFINE longer == Append(statement.columns, token.text)
  <2>2. statement' = [statement EXCEPT !.columns = longer]
    BY <1>7 DEF TakeColumn
  <2>3. /\ longer \in Seq(Words) /\ Len(longer) = Len(statement.columns) + 1
        /\ \A k \in DOMAIN longer :
             (k \in DOMAIN statement.columns /\ longer[k] = statement.columns[k]) \/ longer[k] = token.text
    BY <1>3, <1>4, <2>1, Appended
  <2>4. Len(statement.columns) \in Nat /\ Len(statement.columns) < MAX_COLUMNS
    BY <1>3, <1>4, <2>1, LenProperties DEF RoomForColumn
  <2> HIDE DEF longer
  <2>5. statement' \in Statements
    BY <1>2, <2>2, <2>3 DEF Statements
  <2>6. /\ Len(longer) <= MAX_COLUMNS
        /\ \A k \in DOMAIN longer : Len(longer[k]) < MAX_NAME_LEN
    <3>1. Len(longer) <= MAX_COLUMNS
      BY <2>3, <2>4, LimitsAssumption
    <3>2. \A k \in DOMAIN statement.columns : Len(statement.columns[k]) < MAX_NAME_LEN
      BY <1>2, Zenon DEF WithinLimits
    <3>3. Len(token.text) < MAX_NAME_LEN
      BY <1>4, <2>1, Zenon
    <3> QED
      BY <2>3, <3>1, <3>2, <3>3, Zenon
  <2>7. WithinLimits(statement)'
    BY <1>2, <2>2, <2>6 DEF WithinLimits, Statements
  <2>8. expecting' \notin {"operator", "where value"}
    BY <1>a, <2>1 DEF Names, Wheres
  <2> QED
    BY <1>1, <2>1, <2>5, <2>7, <2>8, TakeKeepsShape
<1>8. CASE TakeValue
  <2>1. Take /\ UNCHANGED program /\ expecting = "value"
    BY <1>8 DEF TakeValue
  <2> DEFINE value == Lexeme(token.type, token.text)
             longer == Append(statement.values, value)
  <2>2. statement' = [statement EXCEPT !.values = longer]
    BY <1>8 DEF TakeValue
  <2>3. /\ longer \in Seq(Lexemes) /\ Len(longer) = Len(statement.values) + 1
        /\ \A k \in DOMAIN longer :
             (k \in DOMAIN statement.values /\ longer[k] = statement.values[k]) \/ longer[k] = value
    BY <1>3, <1>4, <2>1, Appended
  <2>4. Len(statement.values) \in Nat /\ Len(statement.values) < MAX_COLUMNS
    BY <1>3, <1>4, <2>1, LenProperties DEF RoomForValue
  <2>5. value.text = token.text
    BY DEF Lexeme
  <2> HIDE DEF longer, value
  <2>6. statement' \in Statements
    BY <1>2, <2>2, <2>3 DEF Statements
  <2>7. /\ Len(longer) <= MAX_COLUMNS
        /\ \A k \in DOMAIN longer : Len(longer[k].text) < MAX_VALUE_LEN
    <3>1. \A k \in DOMAIN statement.values : Len(statement.values[k].text) < MAX_VALUE_LEN
      BY <1>2 DEF WithinLimits
    <3>2. Len(value.text) < MAX_VALUE_LEN
      BY <1>4, <2>1, <2>5
    <3>3. \A k \in DOMAIN longer : Len(longer[k].text) < MAX_VALUE_LEN
      BY <2>3, <3>1, <3>2
    <3>4. Len(longer) <= MAX_COLUMNS
      BY <2>3, <2>4, LimitsAssumption
    <3> QED
      BY <3>3, <3>4
  <2>8. WithinLimits(statement)'
    BY <1>2, <2>2, <2>7 DEF WithinLimits, Statements
  <2>9. expecting' \notin {"operator", "where value"}
    BY <1>a, <2>1 DEF Wheres
  <2> QED
    BY <1>1, <2>1, <2>6, <2>8, <2>9, TakeKeepsShape
<1>9. CASE TakeWhere
  <2>1. Take /\ UNCHANGED program /\ expecting \in Wheres
    BY <1>9 DEF TakeWhere
  <2> DEFINE lexeme == Lexeme(token.type, token.text)
             longer == Append(statement.where, lexeme)
  <2>2. statement' = [statement EXCEPT !.where = longer]
    BY <1>9 DEF TakeWhere
  <2>3. /\ longer \in Seq(Lexemes) /\ longer # <<>>
        /\ longer[1] = IF statement.where = <<>> THEN lexeme ELSE statement.where[1]
    BY <1>3, <1>4, <2>1, Appended
  <2>4. lexeme.text = token.text
    BY DEF Lexeme
  <2>5. statement.where = <<>> => Len(token.text) < MAX_NAME_LEN
    <3>1. statement.where = <<>> => expecting = "where column"
      BY <2>1 DEF ParserShape, Wheres
    <3> QED
      BY <1>4, <2>1, <3>1, Rules
  <2> HIDE DEF longer, lexeme
  <2>6. statement' \in Statements /\ statement'.where # <<>>
    BY <1>2, <2>2, <2>3 DEF Statements
  <2>7. Len(longer[1].text) < MAX_NAME_LEN
    BY <1>2, <2>3, <2>4, <2>5 DEF WithinLimits
  <2>8. WithinLimits(statement)'
    BY <1>2, <2>2, <2>7 DEF WithinLimits, Statements
  <2> QED
    BY <1>1, <2>1, <2>6, <2>8, TakeKeepsShape
<1>10. CASE TakeMark
  <2>1. /\ Take /\ UNCHANGED <<statement, program>>
        /\ expecting \notin Wheres
    BY <1>10 DEF TakeMark
  <2>2. expecting' \notin {"operator", "where value"}
    BY <1>a, <2>1
  <2>3. WithinLimits(statement)'
    BY <1>2, <2>1 DEF WithinLimits
  <2> QED
    BY <1>1, <1>2, <2>1, <2>2, <2>3, TakeKeepsShape
<1>11. CASE EndStatement
  <2>1. /\ Take /\ UNCHANGED statement /\ token.type = ";"
        /\ program' = Append(program, statement)
    BY <1>11 DEF EndStatement
  <2>2. /\ position' \in Nat \ {0} /\ position' <= Len(tokens)
        /\ expecting # "statement" /\ expecting' = "statement"
    BY <1>1, <1>4, <2>1, Rules, TokenTaken
  <2>3. program \in Seq(Statements) /\ Len(program) < MAX_STATEMENTS
    BY <2>2 DEF ParserShape
  <2>4. /\ program' \in Seq(Statements) /\ Len(program') = Len(program) + 1 /\ Len(program) \in Nat
        /\ \A k \in DOMAIN program' :
             (k \in DOMAIN program /\ program'[k] = program[k]) \/ program'[k] = statement
    <3> DEFINE longer == Append(program, statement)
    <3>1. /\ longer \in Seq(Statements) /\ Len(longer) = Len(program) + 1 /\ Len(program) \in Nat
          /\ \A k \in DOMAIN longer :
               (k \in DOMAIN program /\ longer[k] = program[k]) \/ longer[k] = statement
      BY <1>2, <2>3, Appended
    <3>2. program' = longer
      BY <2>1
    <3> HIDE DEF longer
    <3> QED
      BY <3>1, <3>2
  <2>5. Len(program') <= MAX_STATEMENTS
    BY <2>3, <2>4, LimitsAssumption
  <2>6. \A k \in DOMAIN program : WithinLimits(program[k])
    BY DEF ProgramFits
  <2>7. \A k \in DOMAIN program' : WithinLimits(program'[k])
    BY <1>2, <2>4, <2>6
  <2>8. ParserShape'
    BY <1>2, <2>1, <2>2, <2>4 DEF ParserShape, tokenizer_vars
  <2>9. ProgramFits'
    BY <1>2, <2>1, <2>5, <2>7 DEF ProgramFits, WithinLimits
  <2> QED
    BY <2>8, <2>9
<1>12. CASE EndOfTokens \/ ParseFails
  BY <1>12 DEF EndOfTokens, ParseFails, ParserShape, ProgramFits, WithinLimits, tokenizer_vars
<1> QED
  BY <1>5, <1>6, <1>7, <1>8, <1>9, <1>10, <1>11, <1>12 DEF Parse

\* What fits, fits in every buffer.
LEMMA ShapeFits ==
    Shape => LimitsHold
BY DEF Shape, TokensFit, ProgramFits, LimitsHold

-----------------------------------------------------------------------------
(* The grammar. *)

\* A name for the comma: on a list it matters only that it is no item.
Comma == ","

\* From the place after v on, up to n, every other place is an item and the rest commas.
Alternates(types, v, n, S) ==
    \A i \in v + 1 .. n : IF (i - v) % 2 = 1 THEN types[i] \in S ELSE types[i] = Comma

\* A list of alternating places grows by an item and by a comma.
LEMMA NothingAlternates ==
    ASSUME NEW types, NEW v \in Nat, NEW S
    PROVE  Alternates(types, v, v, S)
<1>1. \A i \in v + 1 .. v : FALSE
  OBVIOUS
<1> QED
  BY <1>1 DEF Alternates

LEMMA ItemAlternates ==
    ASSUME NEW types, NEW v \in Nat, NEW h \in Nat, NEW S, NEW n, n = v + 2 * h,
           Alternates(types, v, n, S), types[n + 1] \in S
    PROVE  Alternates(types, v, n + 1, S)
<1>1. n \in Int /\ n + 1 - v = 2 * h + 1
  OBVIOUS
<1>2. (2 * h + 1) % 2 = 1
  OBVIOUS
<1>3. \A i \in v + 1 .. n + 1 : i = n + 1 \/ i \in v + 1 .. n
  BY <1>1
<1>4. ASSUME NEW i \in v + 1 .. n + 1
      PROVE  IF (i - v) % 2 = 1 THEN types[i] \in S ELSE types[i] = Comma
  <2>1. CASE i = n + 1
    BY <1>1, <1>2, <2>1
  <2>2. CASE i \in v + 1 .. n
    BY <2>2 DEF Alternates
  <2> QED
    BY <1>3, <2>1, <2>2
<1> QED
  BY <1>4 DEF Alternates

LEMMA CommaAlternates ==
    ASSUME NEW types, NEW v \in Nat, NEW h \in Nat, NEW S, NEW n, n = v + 2 * h - 1,
           Alternates(types, v, n, S), types[n + 1] = Comma
    PROVE  Alternates(types, v, n + 1, S)
<1>1. n \in Int /\ n + 1 - v = 2 * h
  OBVIOUS
<1>2. (2 * h) % 2 = 0
  OBVIOUS
<1>3. \A i \in v + 1 .. n + 1 : i = n + 1 \/ i \in v + 1 .. n
  BY <1>1
<1>4. ASSUME NEW i \in v + 1 .. n + 1
      PROVE  IF (i - v) % 2 = 1 THEN types[i] \in S ELSE types[i] = Comma
  <2>1. CASE i = n + 1
    BY <1>1, <1>2, <2>1
  <2>2. CASE i \in v + 1 .. n
    BY <2>2 DEF Alternates
  <2> QED
    BY <1>3, <2>1, <2>2
<1> QED
  BY <1>4 DEF Alternates

\* What stands at an item's and at a comma's place.
LEMMA AlternatesAt ==
    ASSUME NEW types, NEW v \in Nat, NEW n \in Nat, NEW S, Alternates(types, v, n, S)
    PROVE  /\ \A h \in Nat : v + 2 * h + 1 <= n => types[v + 2 * h + 1] \in S
           /\ \A h \in Nat \ {0} : v + 2 * h <= n => types[v + 2 * h] = Comma
           /\ \A i \in v + 1 .. n : types[i] \in S \cup {Comma}
<1>1. ASSUME NEW h \in Nat, v + 2 * h + 1 <= n PROVE types[v + 2 * h + 1] \in S
  <2>1. PICK i : i = v + 2 * h + 1
    OBVIOUS
  <2>2. i \in v + 1 .. n /\ (i - v) % 2 = 1
    BY <1>1, <2>1
  <2> QED
    BY <2>1, <2>2 DEF Alternates
<1>2. ASSUME NEW h \in Nat \ {0}, v + 2 * h <= n PROVE types[v + 2 * h] = Comma
  <2>1. PICK i : i = v + 2 * h
    OBVIOUS
  <2>2. i \in v + 1 .. n /\ (i - v) % 2 # 1
    BY <1>2, <2>1
  <2> QED
    BY <2>1, <2>2 DEF Alternates
<1>3. ASSUME NEW i \in v + 1 .. n PROVE types[i] \in S \cup {Comma}
  BY <1>3 DEF Alternates
<1> QED
  BY <1>1, <1>2, <1>3

\* How many items there are.
LEMMA AlternatesCounted ==
    ASSUME NEW s, NEW A, s \in Seq(A), NEW v \in Nat, NEW n \in v .. Len(s), NEW S,
           NEW h \in Nat \ {0}, n = v + 2 * h - 1
    PROVE  Listed(SubSeq(s, v + 1, n)) = h
<1>1. PICK t : t = SubSeq(s, v + 1, n)
  OBVIOUS
<1>2. Len(s) \in Nat /\ n \in Nat
  BY LenProperties
<1>3. v + 1 \in 1 .. Len(s) + 1 /\ n \in v + 1 - 1 .. Len(s) /\ n - (v + 1) + 1 = 2 * h - 1
  BY <1>2
<1>4. Len(t) = n - (v + 1) + 1
  BY <1>1, <1>3, SliceLength
<1>5. Len(t) + 1 = 2 * h
  BY <1>3, <1>4
<1>6. Listed(t) = (2 * h) \div 2
  BY <1>5 DEF Listed
<1> QED
  BY <1>1, <1>6

\* A list of the grammar is a run of places that alternate.
LEMMA ListAlternates ==
    ASSUME NEW s, NEW A, s \in Seq(A), NEW v \in Nat, NEW n \in v .. Len(s), NEW S
    PROVE  IsList(SubSeq(s, v + 1, n), S) <=>
             \E h \in Nat \ {0} :
               /\ n = v + 2 * h - 1 /\ Alternates(s, v, n, S)
               /\ Listed(SubSeq(s, v + 1, n)) = h
<1>1. PICK t : t = SubSeq(s, v + 1, n)
  OBVIOUS
<1>2. Len(s) \in Nat /\ n \in Nat /\ n - v \in Nat
  BY LenProperties
<1>3. t \in Seq(A) /\ Len(t) = n - v /\ DOMAIN t = 1 .. n - v
  <2>1. v + 1 \in 1 .. Len(s) + 1 /\ n \in v + 1 - 1 .. Len(s) /\ n - (v + 1) + 1 = n - v
    BY <1>2
  <2>2. t \in Seq(A) /\ Len(t) = n - (v + 1) + 1
    BY <1>1, <2>1, SliceLength
  <2> QED
    BY <2>1, <2>2, LenProperties
<1>4. \A i \in 1 .. n - v : t[i] = s[v + i]
  <2>1. v + 1 \in Nat \ {0} /\ n - (v + 1) + 1 = n - v
    BY <1>2
  <2>2. \A i \in 1 .. n - (v + 1) + 1 : t[i] = s[v + 1 + i - 1]
    <3>1. \A i \in v + 1 .. n : i \in 1 .. Len(s)
      BY <1>2
    <3> QED
      BY <1>1, <1>2, <2>1, <3>1, SubSeqProperties
  <2>3. \A i \in 1 .. n - v : v + 1 + i - 1 = v + i
    BY <1>2
  <2> QED
    BY <2>1, <2>2, <2>3
<1>5. (\A i \in DOMAIN t : IF i % 2 = 1 THEN t[i] \in S ELSE t[i] = Comma) <=> Alternates(s, v, n, S)
  <2>1. ASSUME \A i \in DOMAIN t : IF i % 2 = 1 THEN t[i] \in S ELSE t[i] = Comma,
               NEW i \in v + 1 .. n
        PROVE  IF (i - v) % 2 = 1 THEN s[i] \in S ELSE s[i] = Comma
    <3>1. PICK j : j = i - v
      OBVIOUS
    <3>2. j \in 1 .. n - v /\ v + j = i
      BY <1>2, <3>1
    <3>3. t[j] = s[i]
      BY <1>4, <3>2
    <3> QED
      BY <1>3, <2>1, <3>1, <3>2, <3>3
  <2>2. ASSUME Alternates(s, v, n, S), NEW j \in 1 .. n - v
        PROVE  IF j % 2 = 1 THEN t[j] \in S ELSE t[j] = Comma
    <3>1. PICK i : i = v + j
      OBVIOUS
    <3>2. i \in v + 1 .. n /\ i - v = j
      BY <1>2, <3>1
    <3>3. t[j] = s[i]
      BY <1>4, <3>1
    <3> QED
      BY <2>2, <3>2, <3>3 DEF Alternates
  <2> QED
    BY <1>3, <2>1, <2>2 DEF Alternates
<1>6. (n - v) % 2 = 1 <=> \E h \in Nat \ {0} : n = v + 2 * h - 1
  <2>1. ASSUME (n - v) % 2 = 1 PROVE \E h \in Nat \ {0} : n = v + 2 * h - 1
    <3>1. PICK h : h = (n - v) \div 2 + 1
      OBVIOUS
    <3>2. h \in Nat \ {0} /\ n = v + 2 * h - 1
      BY <1>2, <2>1, <3>1
    <3> QED
      BY <3>2
  <2>2. ASSUME NEW h \in Nat \ {0}, n = v + 2 * h - 1 PROVE (n - v) % 2 = 1
    BY <2>2
  <2> QED
    BY <2>1, <2>2
<1>7. ASSUME NEW h \in Nat \ {0}, n = v + 2 * h - 1
      PROVE  Listed(t) = h
  <2>1. Len(t) + 1 = 2 * h
    BY <1>2, <1>3, <1>7
  <2>2. Listed(t) = (2 * h) \div 2
    BY <2>1 DEF Listed
  <2> QED
    BY <2>2
<1>8. IsList(t, S) <=> (n - v) % 2 = 1 /\ Alternates(s, v, n, S)
  <2>1. IsList(t, S) <=> Len(t) % 2 = 1 /\ \A i \in DOMAIN t : IF i % 2 = 1 THEN t[i] \in S ELSE t[i] = Comma
    BY Zenon DEF IsList, Comma
  <2> QED
    BY <1>3, <1>5, <2>1
<1> QED
  BY <1>1, <1>6, <1>7, <1>8

\* What is read of an INSERT: its first words; its columns up to place n; all of it up
\* to place c, with k columns; its values up to place n, from the parenthesis at v on.
InsertBegins(types) == types[1] = "insert" /\ types[2] = "into" /\ types[3] = "identifier"
ColumnsRead(types, n) == types[4] = "(" /\ Alternates(types, 4, n, {"identifier"})
HeadEnds(types, c, k) == IF k = 0 THEN c = 3 ELSE c = 2 * k + 4 /\ ColumnsRead(types, c - 1) /\ types[c] = ")"
InsertHead(types, c, k) == InsertBegins(types) /\ HeadEnds(types, c, k)
ValuesRead(types, v, n) == types[v - 1] = "values" /\ types[v] = "(" /\ Alternates(types, v, n, Literals)
InsertWhole(types, m, k, h) ==
    /\ h # 0 /\ h <= MAX_COLUMNS /\ (k # 0 => h = k)
    /\ \E v \in Nat :
         /\ InsertHead(types, v - 2, k) /\ ValuesRead(types, v, m - 1)
         /\ m = v + 2 * h /\ types[m] = ")"

\* What is read of a SELECT: its columns up to place n; all of it up to FROM at place f,
\* with k columns or, for 0, a star; the first j tokens of its condition.
SelectColumns(types, n) == types[1] = "select" /\ Alternates(types, 1, n, {"identifier"})
WhatEnds(types, f, k) ==
    IF k = 0 THEN f = 3 /\ types[1] = "select" /\ types[2] = "*"
    ELSE f = 2 * k + 1 /\ SelectColumns(types, f - 1)
SelectHead(types, f, k) == k <= MAX_COLUMNS /\ WhatEnds(types, f, k) /\ types[f] = "from"
ConditionRead(types, f, j) ==
    /\ j >= 1 => types[f + 2] = "where"
    /\ j >= 2 => types[f + 3] = "identifier"
    /\ j >= 3 => types[f + 4] \in Operators \cup {"!="}
    /\ j >= 4 => types[f + 5] \in Literals
SelectUpTo(types, n, k, j) ==
    \E f \in Nat :
      /\ SelectHead(types, f, k) /\ types[f + 1] = "identifier"
      /\ n = f + 1 + j /\ ConditionRead(types, f, j)
SelectWhole(types, m, k) == SelectUpTo(types, m, k, 0) \/ SelectUpTo(types, m, k, 4)

\* The texts of the language, by their numbers of columns and values.
LEMMA InsertHeadForm ==
    ASSUME NEW s \in Seq(TokenTypes), NEW c \in 3 .. Len(s), NEW h \in Nat
    PROVE  (/\ SubSeq(s, 1, 3) = <<"insert", "into", "identifier">>
            /\ \/ c = 3
               \/ /\ c > 5 /\ s[4] = "(" /\ s[c] = ")"
                  /\ IsList(SubSeq(s, 5, c - 1), {"identifier"})
                  /\ Listed(SubSeq(s, 5, c - 1)) = h)
           <=> \E k \in Nat : InsertHead(s, c, k) /\ (k # 0 => h = k)
<1>1. Len(s) \in Nat /\ c \in Nat /\ 3 <= c /\ c <= Len(s)
  BY LenProperties
<1>2. SubSeq(s, 1, 3) = <<"insert", "into", "identifier">> <=> InsertBegins(s)
  <2>1. PICK t : t = SubSeq(s, 1, 3)
    OBVIOUS
  <2>2. Len(t) = 3 /\ t[1] = s[1] /\ t[2] = s[2] /\ t[3] = s[3] /\ t \in Seq(TokenTypes)
    <3>1. 1 \in 1 .. Len(s) + 1 /\ 3 \in 1 - 1 .. Len(s) /\ 3 - 1 + 1 = 3
      BY <1>1
    <3>2. t \in Seq(TokenTypes) /\ Len(t) = 3
      BY <2>1, <3>1, SliceLength
    <3>3. \A i \in 1 .. 3 : i \in 1 .. Len(s)
      BY <1>1
    <3>4. \A i \in 1 .. 3 : t[i] = s[i]
      BY <1>1, <2>1, <3>3, SubSeqProperties
    <3> QED
      BY <3>2, <3>4
  <2>3. PICK w : w = <<"insert", "into", "identifier">>
    OBVIOUS
  <2>4. w \in Seq({"insert", "into", "identifier"}) /\ Len(w) = 3
        /\ w[1] = "insert" /\ w[2] = "into" /\ w[3] = "identifier"
    BY <2>3
  <2>5. InsertBegins(s) <=> t[1] = w[1] /\ t[2] = w[2] /\ t[3] = w[3]
    BY <2>2, <2>4 DEF InsertBegins
  <2>6. ASSUME t[1] = w[1], t[2] = w[2], t[3] = w[3] PROVE t = w
    <3>1. \A i \in 1 .. Len(t) : t[i] = w[i]
      <4>1. \A i \in 1 .. Len(t) : i = 1 \/ i = 2 \/ i = 3
        BY <2>2
      <4> QED
        BY <2>6, <4>1
    <3> QED
      BY <2>2, <2>4, <3>1, SeqEqual
  <2> QED
    BY <2>1, <2>3, <2>5, <2>6
<1>3. ASSUME c > 5
      PROVE  IsList(SubSeq(s, 5, c - 1), {"identifier"}) <=>
               \E k \in Nat \ {0} : c = 2 * k + 4 /\ Alternates(s, 4, c - 1, {"identifier"})
                                    /\ Listed(SubSeq(s, 5, c - 1)) = k
  <2>1. PICK n : n = c - 1
    OBVIOUS
  <2>2. n \in 4 .. Len(s) /\ 4 + 1 = 5 /\ 4 \in Nat
    BY <1>1, <1>3, <2>1
  <2>3. PICK S : S = {"identifier"}
    OBVIOUS
  <2>4. IsList(SubSeq(s, 4 + 1, n), S) <=>
             \E k \in Nat \ {0} :
               /\ n = 4 + 2 * k - 1 /\ Alternates(s, 4, n, S)
               /\ Listed(SubSeq(s, 4 + 1, n)) = k
    BY <2>2, ListAlternates
  <2>5. IsList(SubSeq(s, 5, n), S) <=>
             \E k \in Nat \ {0} :
               /\ n = 4 + 2 * k - 1 /\ Alternates(s, 4, n, S)
               /\ Listed(SubSeq(s, 5, n)) = k
    BY <2>2, <2>4
  <2>6. \A k \in Nat \ {0} : n = 4 + 2 * k - 1 <=> c = 2 * k + 4
    BY <1>1, <2>1
  <2>7. IsList(SubSeq(s, 5, n), S) <=>
             \E k \in Nat \ {0} :
               /\ c = 2 * k + 4 /\ Alternates(s, 4, n, S)
               /\ Listed(SubSeq(s, 5, n)) = k
    BY <2>5, <2>6, Zenon
  <2> QED
    BY <2>1, <2>3, <2>7, Zenon
<1>4. \A k \in Nat \ {0} : c = 2 * k + 4 => c > 5 /\ c # 3
  BY <1>1
<1>5. ASSUME NEW k \in Nat, InsertHead(s, c, k), k # 0 => h = k
      PROVE  \/ c = 3
             \/ /\ c > 5 /\ s[4] = "(" /\ s[c] = ")"
                /\ IsList(SubSeq(s, 5, c - 1), {"identifier"})
                /\ Listed(SubSeq(s, 5, c - 1)) = h
  <2>1. HeadEnds(s, c, k)
    BY <1>5 DEF InsertHead
  <2>2. CASE k = 0
    BY <2>1, <2>2, Zenon DEF HeadEnds
  <2>3. CASE k # 0
    <3>1. k \in Nat \ {0} /\ h = k
      BY <1>5, <2>3
    <3>2. c = 2 * k + 4 /\ s[4] = "(" /\ Alternates(s, 4, c - 1, {"identifier"}) /\ s[c] = ")"
      BY <2>1, <2>3, Zenon DEF HeadEnds, ColumnsRead
    <3>3. c > 5
      BY <1>4, <3>1, <3>2
    <3>4. Listed(SubSeq(s, 5, c - 1)) = k
      <4>1. PICK n : n = c - 1
        OBVIOUS
      <4>2. n \in 4 .. Len(s) /\ 4 + 1 = 5 /\ 4 \in Nat
        BY <1>1, <3>3, <4>1
      <4>4. n = 4 + 2 * k - 1
        BY <3>1, <3>2, <4>1
      <4>6. Listed(SubSeq(s, 4 + 1, n)) = k
        <5>1. k \in Nat \ {0}
          BY <3>1
        <5>2. 4 \in Nat /\ n \in 4 .. Len(s)
          BY <4>2
        <5> QED
          BY <4>4, <5>1, <5>2, AlternatesCounted
      <4> QED
        BY <4>1, <4>2, <4>6
    <3>5. IsList(SubSeq(s, 5, c - 1), {"identifier"})
      BY <1>3, <3>1, <3>2, <3>3, <3>4
    <3> QED
      BY <3>1, <3>2, <3>3, <3>4, <3>5
  <2> QED
    BY <2>2, <2>3
<1>6. ASSUME InsertBegins(s), c = 3
      PROVE  \E k \in Nat : InsertHead(s, c, k) /\ (k # 0 => h = k)
  <2>1. InsertHead(s, c, 0)
    BY <1>6, Zenon DEF InsertHead, HeadEnds
  <2> QED
    BY <2>1
<1>7. ASSUME InsertBegins(s), c > 5, s[4] = "(", s[c] = ")",
             IsList(SubSeq(s, 5, c - 1), {"identifier"}),
             Listed(SubSeq(s, 5, c - 1)) = h
      PROVE  \E k \in Nat : InsertHead(s, c, k) /\ (k # 0 => h = k)
  <2>1. PICK k \in Nat \ {0} : c = 2 * k + 4 /\ Alternates(s, 4, c - 1, {"identifier"})
                               /\ Listed(SubSeq(s, 5, c - 1)) = k
    BY <1>3, <1>7
  <2>2. k # 0 /\ h = k /\ k \in Nat
    BY <1>7, <2>1
  <2>3. InsertHead(s, c, k)
    BY <1>7, <2>1, <2>2, Zenon DEF InsertHead, HeadEnds, ColumnsRead
  <2> QED
    BY <2>2, <2>3
<1>8. \A k \in Nat : InsertHead(s, c, k) => InsertBegins(s)
  BY DEF InsertHead
<1> QED
  BY <1>2, <1>5, <1>6, <1>7, <1>8

\* IsInsert, with its two places named.
HeadSpelled(s, c, h) ==
    /\ SubSeq(s, 1, 3) = <<"insert", "into", "identifier">>
    /\ \/ c = 3
       \/ /\ c > 5 /\ s[4] = "(" /\ s[c] = ")"
          /\ IsList(SubSeq(s, 5, c - 1), {"identifier"})
          /\ Listed(SubSeq(s, 5, c - 1)) = h
ValuesSpelled(s, v, list) ==
    /\ v < Len(s)
    /\ s[v - 1] = "values" /\ s[v] = "(" /\ s[Len(s)] = ")"
    /\ IsList(list, Literals)
    /\ Listed(list) <= MAX_COLUMNS

\* The two ways to say what the head of an INSERT is.
LEMMA HeadForm ==
    ASSUME NEW s \in Seq(TokenTypes), NEW c \in 3 .. Len(s), NEW h \in Nat
    PROVE  HeadSpelled(s, c, h) <=> \E k \in Nat : InsertHead(s, c, k) /\ (k # 0 => h = k)
BY InsertHeadForm, ZenonT(40) DEF HeadSpelled

\* IsInsert in its two parts.
LEMMA IsInsertParts ==
    ASSUME NEW s \in Seq(TokenTypes)
    PROVE  IsInsert(s) <=> \E v \in 5 .. Len(s) :
                             LET list == SubSeq(s, v + 1, Len(s) - 1)
                             IN  HeadSpelled(s, v - 2, Listed(list)) /\ ValuesSpelled(s, v, list)
<1>1. Len(s) \in Nat
  BY LenProperties
<1>2. ASSUME NEW c \in 3 .. Len(s), NEW v \in 4 .. Len(s), v = c + 2
      PROVE  v \in 5 .. Len(s) /\ c = v - 2 /\ c + 1 = v - 1
  BY <1>1, <1>2
<1>3. ASSUME NEW v \in 5 .. Len(s)
      PROVE  v - 2 \in 3 .. Len(s) /\ v \in 4 .. Len(s) /\ v = v - 2 + 2 /\ v - 2 + 1 = v - 1
  BY <1>1, <1>3
<1>4. ASSUME IsInsert(s)
      PROVE  \E v \in 5 .. Len(s) :
               HeadSpelled(s, v - 2, Listed(SubSeq(s, v + 1, Len(s) - 1)))
               /\ ValuesSpelled(s, v, SubSeq(s, v + 1, Len(s) - 1))
  <2>1. PICK c \in 3 .. Len(s), v \in 4 .. Len(s) :
          /\ HeadSpelled(s, c, Listed(SubSeq(s, v + 1, Len(s) - 1)))
          /\ v = c + 2 /\ v < Len(s)
          /\ s[c + 1] = "values" /\ s[v] = "(" /\ s[Len(s)] = ")"
          /\ IsList(SubSeq(s, v + 1, Len(s) - 1), Literals)
          /\ Listed(SubSeq(s, v + 1, Len(s) - 1)) <= MAX_COLUMNS
    BY <1>4, Zenon DEF IsInsert, HeadSpelled
  <2>2. v \in 5 .. Len(s) /\ c = v - 2 /\ c + 1 = v - 1
    BY <1>2, <2>1
  <2>3. HeadSpelled(s, v - 2, Listed(SubSeq(s, v + 1, Len(s) - 1)))
    BY <2>1, <2>2, Zenon
  <2>4. ValuesSpelled(s, v, SubSeq(s, v + 1, Len(s) - 1))
    BY <2>1, <2>2, Zenon DEF ValuesSpelled
  <2> QED
    BY <2>2, <2>3, <2>4, Zenon
<1>5. ASSUME NEW v \in 5 .. Len(s),
             HeadSpelled(s, v - 2, Listed(SubSeq(s, v + 1, Len(s) - 1))),
             ValuesSpelled(s, v, SubSeq(s, v + 1, Len(s) - 1))
      PROVE  IsInsert(s)
  <2>1. PICK c : c = v - 2
    OBVIOUS
  <2>2. c \in 3 .. Len(s) /\ v \in 4 .. Len(s) /\ v = c + 2 /\ c + 1 = v - 1
    BY <1>3, <2>1
  <2>3. HeadSpelled(s, c, Listed(SubSeq(s, v + 1, Len(s) - 1)))
    BY <1>5, <2>1, Zenon
  <2>4. /\ v < Len(s)
        /\ s[c + 1] = "values" /\ s[v] = "(" /\ s[Len(s)] = ")"
        /\ IsList(SubSeq(s, v + 1, Len(s) - 1), Literals)
        /\ Listed(SubSeq(s, v + 1, Len(s) - 1)) <= MAX_COLUMNS
    BY <1>5, <2>2, Zenon DEF ValuesSpelled
  <2> QED
    BY <2>2, <2>3, <2>4, Zenon DEF IsInsert, HeadSpelled
<1> QED
  BY <1>4, <1>5, Zenon

\* The INSERTs of the language, by their numbers of columns and of values.
LEMMA InsertForm ==
    ASSUME NEW s \in Seq(TokenTypes), NEW m, m = Len(s)
    PROVE  IsInsert(s) <=> \E k, h \in Nat : InsertWhole(s, m, k, h)
<1>1. m \in Nat
  BY LenProperties
<1>2. ASSUME NEW v \in 5 .. m, NEW list, list = SubSeq(s, v + 1, m - 1), NEW h \in Nat \ {0},
             m = v + 2 * h
      PROVE  /\ Listed(list) = h
             /\ IsList(list, Literals) <=> Alternates(s, v, m - 1, Literals)
             /\ v < m
  <2>1. PICK n : n = m - 1
    OBVIOUS
  <2>2. v \in Nat /\ n \in v .. Len(s) /\ n = v + 2 * h - 1
    BY <1>1, <1>2, <2>1
  <2>3. Listed(list) = h
    <3>1. v \in Nat /\ n \in v .. Len(s) /\ h \in Nat \ {0} /\ n = v + 2 * h - 1
      BY <1>2, <2>2
    <3>2. Listed(SubSeq(s, v + 1, n)) = h
      BY <3>1, AlternatesCounted
    <3> QED
      BY <1>2, <2>1, <3>2, Zenon
  <2>4. IsList(SubSeq(s, v + 1, n), Literals) <=>
             \E g \in Nat \ {0} :
               /\ n = v + 2 * g - 1 /\ Alternates(s, v, n, Literals)
               /\ Listed(SubSeq(s, v + 1, n)) = g
    BY <2>2, ListAlternates
  <2>5. IsList(list, Literals) <=> Alternates(s, v, n, Literals)
    BY <1>2, <2>1, <2>2, <2>3, <2>4
  <2> QED
    BY <1>1, <1>2, <2>1, <2>3, <2>5
<1>3. ASSUME IsInsert(s) PROVE \E k, h \in Nat : InsertWhole(s, m, k, h)
  <2>1. PICK v \in 5 .. m : HeadSpelled(s, v - 2, Listed(SubSeq(s, v + 1, m - 1)))
                             /\ ValuesSpelled(s, v, SubSeq(s, v + 1, m - 1))
    BY <1>3, IsInsertParts
  <2>2. PICK list : list = SubSeq(s, v + 1, m - 1)
    OBVIOUS
  <2>3. PICK n : n = m - 1
    OBVIOUS
  <2>4. v < m /\ IsList(list, Literals) /\ Listed(list) <= MAX_COLUMNS
    BY <2>1, <2>2, Zenon DEF ValuesSpelled
  <2>5. v \in Nat /\ n \in v .. Len(s)
    BY <1>1, <2>3, <2>4
  <2>6. IsList(SubSeq(s, v + 1, n), Literals) <=>
             \E g \in Nat \ {0} :
               /\ n = v + 2 * g - 1 /\ Alternates(s, v, n, Literals)
               /\ Listed(SubSeq(s, v + 1, n)) = g
    BY <2>5, ListAlternates
  <2>7. PICK h \in Nat \ {0} : n = v + 2 * h - 1 /\ Alternates(s, v, n, Literals) /\ Listed(list) = h
    BY <2>2, <2>3, <2>4, <2>6
  <2>8. m = v + 2 * h /\ h \in Nat /\ h # 0
    BY <1>1, <2>3, <2>5, <2>7
  <2>9. ValuesRead(s, v, m - 1) /\ s[m] = ")"
    BY <2>1, <2>3, <2>7, Zenon DEF ValuesSpelled, ValuesRead
  <2>10. v - 2 \in 3 .. Len(s)
    BY <1>1
  <2>11. HeadSpelled(s, v - 2, h)
    BY <2>1, <2>2, <2>7
  <2>12. PICK k \in Nat : InsertHead(s, v - 2, k) /\ (k # 0 => h = k)
    <3>1. PICK c : c = v - 2
      OBVIOUS
    <3>2. c \in 3 .. Len(s) /\ h \in Nat
      BY <2>8, <2>10, <3>1
    <3>3. HeadSpelled(s, c, h)
      BY <2>11, <3>1
    <3>4. HeadSpelled(s, c, h) <=> \E k \in Nat : InsertHead(s, c, k) /\ (k # 0 => h = k)
      BY <3>2, HeadForm
    <3>5. \E k \in Nat : InsertHead(s, c, k) /\ (k # 0 => h = k)
      BY <3>3, <3>4
    <3> QED
      BY <3>1, <3>5, Zenon
  <2>13. InsertWhole(s, m, k, h)
    BY <2>4, <2>5, <2>7, <2>8, <2>9, <2>12, Zenon DEF InsertWhole
  <2> QED
    BY <2>8, <2>13
<1>4. ASSUME NEW k \in Nat, NEW h \in Nat, InsertWhole(s, m, k, h)
      PROVE  IsInsert(s)
  <2>1. h # 0 /\ h <= MAX_COLUMNS /\ (k # 0 => h = k)
    BY <1>4, Zenon DEF InsertWhole
  <2>2. PICK v \in Nat : /\ InsertHead(s, v - 2, k) /\ ValuesRead(s, v, m - 1)
                         /\ m = v + 2 * h /\ s[m] = ")"
    BY <1>4, Zenon DEF InsertWhole
  <2>3. v \in 5 .. m
    <3>1. v - 2 = 3 \/ v - 2 = 2 * k + 4
      BY <2>2, Zenon DEF InsertHead, HeadEnds
    <3> QED
      BY <1>1, <2>2, <3>1
  <2>4. PICK list : list = SubSeq(s, v + 1, m - 1)
    OBVIOUS
  <2>5. Listed(list) = h /\ (IsList(list, Literals) <=> Alternates(s, v, m - 1, Literals)) /\ v < m
    <3>1. h \in Nat \ {0} /\ m = v + 2 * h
      BY <2>1, <2>2
    <3> QED
      BY <1>2, <2>3, <2>4, <3>1
  <2>6. ValuesSpelled(s, v, list)
    BY <2>1, <2>2, <2>5, Zenon DEF ValuesSpelled, ValuesRead
  <2>7. v - 2 \in 3 .. Len(s)
    BY <1>1, <2>3
  <2>8. HeadSpelled(s, v - 2, h)
    <3>1. PICK c : c = v - 2
      OBVIOUS
    <3>2. c \in 3 .. Len(s) /\ h \in Nat
      BY <2>7, <3>1
    <3>3. \E q \in Nat : InsertHead(s, c, q) /\ (q # 0 => h = q)
      BY <2>1, <2>2, <3>1
    <3>4. HeadSpelled(s, c, h) <=> \E q \in Nat : InsertHead(s, c, q) /\ (q # 0 => h = q)
      BY <3>2, HeadForm
    <3> QED
      BY <3>1, <3>3, <3>4
  <2> QED
    BY <2>3, <2>4, <2>5, <2>6, <2>8, IsInsertParts
<1> QED
  BY <1>3, <1>4

\* IsSelect, with the place of FROM named.
WhatSpelled(s, f, list) ==
    /\ s[1] = "select"
    /\ \/ f = 3 /\ s[2] = "*"
       \/ IsList(list, {"identifier"}) /\ Listed(list) <= MAX_COLUMNS
RestSpelled(s, f) ==
    /\ s[f] = "from"
    /\ \/ Len(s) = f + 1
       \/ /\ Len(s) = f + 5
          /\ s[f + 2] = "where" /\ s[f + 3] = "identifier"
          /\ s[f + 4] \in Operators \cup {"!="} /\ s[f + 5] \in Literals
    /\ s[f + 1] = "identifier"

\* IsSelect in its two parts.
LEMMA IsSelectParts ==
    ASSUME NEW s
    PROVE  IsSelect(s) <=> \E f \in 3 .. Len(s) : WhatSpelled(s, f, SubSeq(s, 2, f - 1)) /\ RestSpelled(s, f)
<1>1. ASSUME NEW f \in 3 .. Len(s)
      PROVE  WhatSpelled(s, f, SubSeq(s, 2, f - 1)) /\ RestSpelled(s, f) <=>
        /\ s[1] = "select" /\ s[f] = "from"
        /\ \/ f = 3 /\ s[2] = "*"
           \/ /\ IsList(SubSeq(s, 2, f - 1), {"identifier"})
              /\ Listed(SubSeq(s, 2, f - 1)) <= MAX_COLUMNS
        /\ \/ Len(s) = f + 1
           \/ /\ Len(s) = f + 5
              /\ s[f + 2] = "where" /\ s[f + 3] = "identifier"
              /\ s[f + 4] \in Operators \cup {"!="} /\ s[f + 5] \in Literals
        /\ s[f + 1] = "identifier"
  BY Zenon DEF WhatSpelled, RestSpelled
<1> QED
  BY <1>1, Zenon DEF IsSelect

\* A condition that is not begun, and a whole one.
LEMMA ConditionNone == \A s, f : ConditionRead(s, f, 0)
<1>1. ~(0 >= 1) /\ ~(0 >= 2) /\ ~(0 >= 3) /\ ~(0 >= 4)
  OBVIOUS
<1> QED
  BY <1>1, Zenon DEF ConditionRead

LEMMA ConditionWhole ==
    \A s, f : ConditionRead(s, f, 4) <=>
      s[f + 2] = "where" /\ s[f + 3] = "identifier" /\ s[f + 4] \in Operators \cup {"!="} /\ s[f + 5] \in Literals
<1>1. 4 >= 1 /\ 4 >= 2 /\ 4 >= 3 /\ 4 >= 4
  OBVIOUS
<1> QED
  BY <1>1, Zenon DEF ConditionRead

\* The SELECTs of the language, by their number of columns.
LEMMA WhatForm ==
    ASSUME NEW s \in Seq(TokenTypes), NEW f \in 3 .. Len(s)
    PROVE  WhatSpelled(s, f, SubSeq(s, 2, f - 1)) <=> \E k \in Nat : k <= MAX_COLUMNS /\ WhatEnds(s, f, k)
<1>1. Len(s) \in Nat /\ f \in Nat
  BY LenProperties
<1>2. PICK list : list = SubSeq(s, 2, f - 1)
  OBVIOUS
<1>3. PICK n : n = f - 1
  OBVIOUS
<1>4. PICK S : S = {"identifier"}
  OBVIOUS
<1>5. n \in 1 .. Len(s) /\ 1 \in Nat /\ 1 + 1 = 2
  BY <1>1, <1>3
<1>6. IsList(SubSeq(s, 1 + 1, n), S) <=>
           \E k \in Nat \ {0} :
             /\ n = 1 + 2 * k - 1 /\ Alternates(s, 1, n, S)
             /\ Listed(SubSeq(s, 1 + 1, n)) = k
  BY <1>5, ListAlternates
<1>7. list = SubSeq(s, 1 + 1, n)
  BY <1>2, <1>3, <1>5
<1>8. IsList(list, S) <=>
           \E k \in Nat \ {0} : n = 1 + 2 * k - 1 /\ Alternates(s, 1, n, S) /\ Listed(list) = k
  BY <1>6, <1>7
<1>9. \A k \in Nat : n = 1 + 2 * k - 1 <=> f = 2 * k + 1
  BY <1>1, <1>3
<1>10. IsList(list, S) <=>
           \E k \in Nat \ {0} : f = 2 * k + 1 /\ Alternates(s, 1, n, S) /\ Listed(list) = k
  BY <1>8, <1>9
<1>11. ASSUME WhatSpelled(s, f, list)
       PROVE  \E k \in Nat : k <= MAX_COLUMNS /\ WhatEnds(s, f, k)
  <2>1. CASE f = 3 /\ s[2] = "*"
    <3>1. s[1] = "select"
      BY <1>11, Zenon DEF WhatSpelled
    <3>2. WhatEnds(s, f, 0)
      BY <2>1, <3>1, Zenon DEF WhatEnds
    <3>3. 0 <= MAX_COLUMNS /\ 0 \in Nat
      BY LimitsAssumption
    <3> QED
      BY <3>2, <3>3
  <2>2. CASE IsList(list, S) /\ Listed(list) <= MAX_COLUMNS
    <3>1. PICK k \in Nat \ {0} : f = 2 * k + 1 /\ Alternates(s, 1, n, S) /\ Listed(list) = k
      BY <1>10, <2>2
    <3>2. s[1] = "select"
      BY <1>11, Zenon DEF WhatSpelled
    <3>3. k \in Nat /\ k # 0 /\ k <= MAX_COLUMNS
      BY <2>2, <3>1
    <3>4. SelectColumns(s, f - 1)
      BY <1>3, <1>4, <3>1, <3>2, Zenon DEF SelectColumns
    <3>5. WhatEnds(s, f, k)
      BY <3>1, <3>3, <3>4, Zenon DEF WhatEnds
    <3> QED
      BY <3>3, <3>5
  <2> QED
    BY <1>4, <1>11, <2>1, <2>2, Zenon DEF WhatSpelled
<1>12. ASSUME NEW k \in Nat, k <= MAX_COLUMNS, WhatEnds(s, f, k)
       PROVE  WhatSpelled(s, f, list)
  <2>1. CASE k = 0
    BY <1>12, <2>1, Zenon DEF WhatEnds, WhatSpelled
  <2>2. CASE k # 0
    <3>1. f = 2 * k + 1 /\ s[1] = "select" /\ Alternates(s, 1, n, S)
      BY <1>3, <1>4, <1>12, <2>2, Zenon DEF WhatEnds, SelectColumns
    <3>2. k \in Nat \ {0} /\ n = 1 + 2 * k - 1
      BY <1>9, <2>2, <3>1
    <3>3. Listed(SubSeq(s, 1 + 1, n)) = k
      BY <1>5, <3>2, AlternatesCounted
    <3>4. Listed(list) = k
      BY <1>7, <3>3
    <3>5. IsList(list, S)
      BY <1>10, <3>1, <3>2, <3>4
    <3>6. Listed(list) <= MAX_COLUMNS
      BY <1>12, <3>4
    <3> QED
      BY <1>4, <3>1, <3>5, <3>6, Zenon DEF WhatSpelled
  <2> QED
    BY <2>1, <2>2
<1> QED
  BY <1>2, <1>11, <1>12

LEMMA SelectForm ==
    ASSUME NEW s \in Seq(TokenTypes), NEW m, m = Len(s)
    PROVE  IsSelect(s) <=> \E k \in Nat : SelectWhole(s, m, k)
<1>1. m \in Nat
  BY LenProperties
<1>2. ASSUME NEW f \in 3 .. Len(s), RestSpelled(s, f), NEW k \in Nat, k <= MAX_COLUMNS, WhatEnds(s, f, k)
      PROVE  SelectWhole(s, m, k)
  <2>1. SelectHead(s, f, k) /\ s[f + 1] = "identifier"
    BY <1>2, Zenon DEF SelectHead, RestSpelled
  <2>2. f \in Nat /\ f + 1 + 0 = f + 1 /\ f + 1 + 4 = f + 5
    OBVIOUS
  <2>3. CASE Len(s) = f + 1
    <3>1. m = f + 1 + 0
      BY <2>2, <2>3
    <3>2. SelectUpTo(s, m, k, 0)
      BY <2>1, <2>2, <3>1, ConditionNone, Zenon DEF SelectUpTo
    <3> QED
      BY <3>2, Zenon DEF SelectWhole
  <2>4. CASE Len(s) = f + 5 /\ ConditionRead(s, f, 4)
    <3>1. m = f + 1 + 4
      BY <2>2, <2>4
    <3>2. SelectUpTo(s, m, k, 4)
      BY <2>1, <2>2, <2>4, <3>1, Zenon DEF SelectUpTo
    <3> QED
      BY <3>2, Zenon DEF SelectWhole
  <2>5. Len(s) = f + 1 \/ (Len(s) = f + 5 /\ ConditionRead(s, f, 4))
    BY <1>2, ConditionWhole, Zenon DEF RestSpelled
  <2> QED
    BY <2>3, <2>4, <2>5
<1>3. ASSUME IsSelect(s) PROVE \E k \in Nat : SelectWhole(s, m, k)
  <2>1. PICK f \in 3 .. Len(s) : WhatSpelled(s, f, SubSeq(s, 2, f - 1)) /\ RestSpelled(s, f)
    BY <1>3, IsSelectParts
  <2>2. PICK k \in Nat : k <= MAX_COLUMNS /\ WhatEnds(s, f, k)
    BY <2>1, WhatForm
  <2> QED
    BY <1>2, <2>1, <2>2
<1>4. ASSUME NEW k \in Nat, NEW j \in {0, 4}, SelectUpTo(s, m, k, j)
      PROVE  IsSelect(s)
  <2>1. PICK f \in Nat : /\ SelectHead(s, f, k) /\ s[f + 1] = "identifier"
                         /\ m = f + 1 + j /\ ConditionRead(s, f, j)
    BY <1>4, Zenon DEF SelectUpTo
  <2>2. k <= MAX_COLUMNS /\ WhatEnds(s, f, k) /\ s[f] = "from"
    BY <2>1, Zenon DEF SelectHead
  <2>3. k # 0 => f = 2 * k + 1
    BY <2>2, Zenon DEF WhatEnds
  <2>4. k = 0 => f = 3
    BY <2>2, Zenon DEF WhatEnds
  <2>5. f \in 3 .. Len(s)
    BY <1>1, <2>1, <2>3, <2>4
  <2>6. WhatSpelled(s, f, SubSeq(s, 2, f - 1))
    BY <2>2, <2>5, WhatForm
  <2>7. (j = 0 => Len(s) = f + 1) /\ (j = 4 => Len(s) = f + 5)
    BY <1>1, <2>1
  <2>8. RestSpelled(s, f)
    <3>1. CASE j = 0
      BY <2>1, <2>2, <2>7, <3>1, Zenon DEF RestSpelled
    <3>2. CASE j = 4
      <4>1. ConditionRead(s, f, 4)
        BY <2>1, <3>2
      <4> QED
        BY <2>1, <2>2, <2>7, <3>2, <4>1, ConditionWhole, Zenon DEF RestSpelled
    <3> QED
      BY <3>1, <3>2
  <2> QED
    BY <2>5, <2>6, <2>8, IsSelectParts
<1> QED
  BY <1>3, <1>4 DEF SelectWhole

\* What is read depends on the token types read only.
Agree(r, s, n) == \A i \in 1 .. n : r[i] = s[i]

LEMMA AlternatesAgree ==
    ASSUME NEW r, NEW s, NEW m \in Nat, Agree(r, s, m), NEW v \in Nat, NEW n, n <= m, n \in Int, NEW S,
           Alternates(s, v, n, S)
    PROVE  Alternates(r, v, n, S)
<1>1. \A i \in v + 1 .. n : i \in 1 .. m
  OBVIOUS
<1>2. \A i \in v + 1 .. n : r[i] = s[i]
  BY <1>1 DEF Agree
<1> QED
  BY <1>2 DEF Alternates

\* So whether a statement is whole depends on its own token types only.
LEMMA WholesAgree ==
    ASSUME NEW r, NEW s, NEW m \in Nat, Agree(r, s, m), NEW k \in Nat, NEW h \in Nat
    PROVE  /\ InsertWhole(s, m, k, h) => InsertWhole(r, m, k, h)
           /\ SelectWhole(s, m, k) => SelectWhole(r, m, k)
<1>0. \A i \in 1 .. m : r[i] = s[i]
  BY DEF Agree
<1>1. ASSUME InsertWhole(s, m, k, h) PROVE InsertWhole(r, m, k, h)
  <2>1. h # 0 /\ h <= MAX_COLUMNS /\ (k # 0 => h = k)
    BY <1>1, Zenon DEF InsertWhole
  <2>2. PICK v \in Nat : /\ InsertHead(s, v - 2, k) /\ ValuesRead(s, v, m - 1)
                         /\ m = v + 2 * h /\ s[m] = ")"
    BY <1>1, Zenon DEF InsertWhole
  <2>a. InsertBegins(s) /\ HeadEnds(s, v - 2, k)
    BY <2>2, Zenon DEF InsertHead
  <2>b. (k = 0 => v - 2 = 3) /\ (k # 0 => v - 2 = 2 * k + 4)
    BY <2>a, Zenon DEF HeadEnds
  <2>3. /\ 1 \in 1 .. m /\ 2 \in 1 .. m /\ 3 \in 1 .. m /\ 4 \in 1 .. m /\ m \in 1 .. m
        /\ v \in 1 .. m /\ v - 1 \in 1 .. m /\ v - 2 \in 1 .. m /\ v - 2 - 1 <= m
        /\ v - 2 - 1 \in Int /\ m - 1 <= m /\ m - 1 \in Int
    BY <2>1, <2>2, <2>b
  <2>4. InsertBegins(r)
    BY <1>0, <2>a, <2>3, Zenon DEF InsertBegins
  <2>5. HeadEnds(r, v - 2, k)
    <3>1. CASE k = 0
      BY <2>a, <3>1, Zenon DEF HeadEnds
    <3>2. CASE k # 0
      <4>1. v - 2 = 2 * k + 4 /\ s[4] = "(" /\ s[v - 2] = ")" /\ Alternates(s, 4, v - 2 - 1, {"identifier"})
        BY <2>a, <3>2, Zenon DEF HeadEnds, ColumnsRead
      <4>2. PICK S : S = {"identifier"}
        OBVIOUS
      <4>3. PICK n : n = v - 2 - 1
        OBVIOUS
      <4>4. Alternates(r, 4, n, S)
        <5>1. n <= m /\ n \in Int /\ 4 \in Nat
          BY <2>3, <4>3
        <5>2. Alternates(s, 4, n, S)
          BY <4>1, <4>2, <4>3, Zenon
        <5> QED
          BY <5>1, <5>2, AlternatesAgree
      <4>5. r[4] = s[4] /\ r[v - 2] = s[v - 2]
        BY <1>0, <2>3
      <4> QED
        BY <3>2, <4>1, <4>2, <4>3, <4>4, <4>5, Zenon DEF HeadEnds, ColumnsRead
    <3> QED
      BY <3>1, <3>2
  <2>6. ValuesRead(r, v, m - 1)
    <3>1. Alternates(r, v, m - 1, Literals)
      <4>1. Alternates(s, v, m - 1, Literals)
        BY <2>2, Zenon DEF ValuesRead
      <4>2. m - 1 <= m /\ m - 1 \in Int
        BY <2>3
      <4> QED
        BY <4>1, <4>2, AlternatesAgree
    <3>2. r[v] = s[v] /\ r[v - 1] = s[v - 1]
      BY <1>0, <2>3
    <3> QED
      BY <2>2, <3>1, <3>2, Zenon DEF ValuesRead
  <2>7. r[m] = s[m]
    BY <1>0, <2>3
  <2> QED
    BY <2>1, <2>2, <2>4, <2>5, <2>6, <2>7, Zenon DEF InsertWhole, InsertHead
<1>2. ASSUME NEW j \in {0, 4}, SelectUpTo(s, m, k, j) PROVE SelectUpTo(r, m, k, j)
  <2>1. PICK f \in Nat : /\ SelectHead(s, f, k) /\ s[f + 1] = "identifier"
                         /\ m = f + 1 + j /\ ConditionRead(s, f, j)
    BY <1>2, Zenon DEF SelectUpTo
  <2>2. k <= MAX_COLUMNS /\ WhatEnds(s, f, k) /\ s[f] = "from"
    BY <2>1, Zenon DEF SelectHead
  <2>3. (k # 0 => f = 2 * k + 1) /\ (k = 0 => f = 3)
    BY <2>2, Zenon DEF WhatEnds
  <2>4. /\ 1 \in 1 .. m /\ 2 \in 1 .. m /\ f \in 1 .. m /\ f + 1 \in 1 .. m /\ f - 1 <= m /\ f - 1 \in Int
        /\ j = 4 => f + 2 \in 1 .. m /\ f + 3 \in 1 .. m /\ f + 4 \in 1 .. m /\ f + 5 \in 1 .. m
    BY <2>1, <2>3
  <2>5. WhatEnds(r, f, k)
    <3>1. CASE k = 0
      <4>1. r[1] = s[1] /\ r[2] = s[2]
        BY <1>0, <2>4
      <4> QED
        BY <2>2, <3>1, <4>1, Zenon DEF WhatEnds
    <3>2. CASE k # 0
      <4>1. f = 2 * k + 1 /\ s[1] = "select" /\ Alternates(s, 1, f - 1, {"identifier"})
        BY <2>2, <3>2, Zenon DEF WhatEnds, SelectColumns
      <4>2. PICK S : S = {"identifier"}
        OBVIOUS
      <4>3. PICK n : n = f - 1
        OBVIOUS
      <4>4. Alternates(r, 1, n, S)
        <5>1. n <= m /\ n \in Int /\ 1 \in Nat
          BY <2>4, <4>3
        <5>2. Alternates(s, 1, n, S)
          BY <4>1, <4>2, <4>3, Zenon
        <5> QED
          BY <5>1, <5>2, AlternatesAgree
      <4>5. r[1] = s[1]
        BY <1>0, <2>4
      <4> QED
        BY <3>2, <4>1, <4>2, <4>3, <4>4, <4>5, Zenon DEF WhatEnds, SelectColumns
    <3> QED
      BY <3>1, <3>2
  <2>6. r[f] = s[f] /\ r[f + 1] = s[f + 1]
    BY <1>0, <2>4
  <2>7. ConditionRead(r, f, j)
    <3>1. CASE j = 0
      BY <3>1, ConditionNone
    <3>2. CASE j = 4
      <4>1. r[f + 2] = s[f + 2] /\ r[f + 3] = s[f + 3] /\ r[f + 4] = s[f + 4] /\ r[f + 5] = s[f + 5]
        BY <1>0, <2>4, <3>2
      <4>2. ConditionRead(s, f, 4)
        BY <2>1, <3>2
      <4>3. ConditionRead(r, f, 4)
        BY <4>1, <4>2, ConditionWhole, Zenon
      <4> QED
        BY <3>2, <4>3
    <3> QED
      BY <3>1, <3>2
  <2> QED
    BY <2>1, <2>2, <2>5, <2>6, <2>7, Zenon DEF SelectUpTo, SelectHead
<1> QED
  BY <1>1, <1>2 DEF SelectWhole

\* An INSERT up to the jth token of its values.
ValuesUpTo(types, n, k, j) ==
    \E v \in Nat : InsertHead(types, v - 2, k) /\ ValuesRead(types, v, n) /\ n = v + j

\* n tokens, of which 2 belong to each of k columns.
Counted(n, k, others) == n = 2 * k + others

\* What is read of a statement at each place, from its token types: n tokens, k columns,
\* h values.
Described(place, types, n, k, h) ==
    /\ place \in {"statement", "into", "insert table", "columns?", "insert column", "more insert columns",
                  "values", "(", "value", "more values", ";", "what", "select column", "more select columns",
                  "from", "select table", "where?", "where column", "operator", "where value"}
    /\ place = "statement" => n = 0
    /\ place = "into" => n = 1 /\ k = 0 /\ h = 0 /\ types[1] = "insert"
    /\ place = "insert table" => n = 2 /\ k = 0 /\ h = 0 /\ types[1] = "insert" /\ types[2] = "into"
    /\ place = "columns?" => n = 3 /\ k = 0 /\ h = 0 /\ InsertBegins(types)
    /\ place = "insert column" => Counted(n, k, 4) /\ h = 0 /\ InsertBegins(types) /\ ColumnsRead(types, n)
    /\ place = "more insert columns" =>
         Counted(n, k, 3) /\ k # 0 /\ h = 0 /\ InsertBegins(types) /\ ColumnsRead(types, n)
    /\ place = "values" => k # 0 /\ h = 0 /\ InsertHead(types, n, k)
    /\ place = "(" => h = 0 /\ InsertHead(types, n - 1, k) /\ types[n] = "values"
    /\ place = "value" => ValuesUpTo(types, n, k, 2 * h)
    /\ place = "more values" => h # 0 /\ ValuesUpTo(types, n, k, 2 * h - 1)
    /\ place = ";" => InsertWhole(types, n, k, h) \/ SelectUpTo(types, n, k, 4)
    /\ place = "what" => n = 1 /\ k = 0 /\ types[1] = "select"
    /\ place = "select column" => n = 2 * k + 1 /\ k # 0 /\ SelectColumns(types, n)
    /\ place = "more select columns" => n = 2 * k /\ k # 0 /\ SelectColumns(types, n)
    /\ place = "from" => n = 2 /\ k = 0 /\ types[1] = "select" /\ types[2] = "*"
    /\ place = "select table" => SelectHead(types, n, k)
    /\ place = "where?" => SelectUpTo(types, n, k, 0)
    /\ place = "where column" => SelectUpTo(types, n, k, 1)
    /\ place = "operator" => SelectUpTo(types, n, k, 2)
    /\ place = "where value" => SelectUpTo(types, n, k, 3)

\* The columns of an INSERT.
LEMMA ColumnsStart ==
    ASSUME NEW types, types[4] = "("
    PROVE  ColumnsRead(types, 4)
<1>1. Alternates(types, 4, 4, {"identifier"})
  BY NothingAlternates
<1> QED
  BY <1>1, Zenon DEF ColumnsRead

\* An identifier after a comma, a comma after an identifier, the end of the list.
LEMMA ColumnAdded ==
    ASSUME NEW types, NEW k \in Nat, NEW n, n = 2 * k + 4, ColumnsRead(types, n),
           NEW N, N = n + 1, NEW t, t = types[N], t = "identifier"
    PROVE  ColumnsRead(types, N) /\ N = 2 * (k + 1) + 3
<1>1. PICK S : S = {"identifier"}
  OBVIOUS
<1>2. Alternates(types, 4, n, S) /\ types[4] = "("
  BY <1>1, Zenon DEF ColumnsRead
<1>3. types[n + 1] \in S
  BY <1>1, Zenon
<1>4. n = 4 + 2 * k /\ 4 \in Nat /\ N = 2 * (k + 1) + 3
  OBVIOUS
<1>5. Alternates(types, 4, n + 1, S)
  BY <1>2, <1>3, <1>4, ItemAlternates
<1> QED
  BY <1>1, <1>2, <1>4, <1>5, Zenon DEF ColumnsRead

LEMMA ColumnComma ==
    ASSUME NEW types, NEW k \in Nat, NEW n, n = 2 * k + 3, ColumnsRead(types, n),
           NEW N, N = n + 1, NEW t, t = types[N], t = Comma
    PROVE  ColumnsRead(types, N) /\ N = 2 * k + 4
<1>1. PICK S : S = {"identifier"}
  OBVIOUS
<1>2. Alternates(types, 4, n, S) /\ types[4] = "("
  BY <1>1, Zenon DEF ColumnsRead
<1>3. types[n + 1] = Comma
  OBVIOUS
<1>4. n = 4 + 2 * k - 1 /\ 4 \in Nat /\ N = 2 * k + 4
  OBVIOUS
<1>5. Alternates(types, 4, n + 1, S)
  BY <1>2, <1>3, <1>4, CommaAlternates
<1> QED
  BY <1>1, <1>2, <1>4, <1>5, Zenon DEF ColumnsRead

LEMMA ColumnsEnd ==
    ASSUME NEW types, NEW k \in Nat, k # 0, NEW n, n = 2 * k + 3, ColumnsRead(types, n), InsertBegins(types),
           NEW N, N = n + 1, NEW t, t = types[N], t = ")"
    PROVE  InsertHead(types, N, k)
<1>1. N = 2 * k + 4 /\ N - 1 = n
  OBVIOUS
<1>2. types[N] = ")"
  OBVIOUS
<1> QED
  BY <1>1, <1>2, Zenon DEF InsertHead, HeadEnds

\* The values of an INSERT.
LEMMA ValuesStart ==
    ASSUME NEW types, NEW k \in Nat, NEW n \in Nat, InsertHead(types, n - 1, k), types[n] = "values",
           NEW N, N = n + 1, NEW t, t = types[N], t = "("
    PROVE  ValuesUpTo(types, N, k, 2 * 0)
<1>1. N \in Nat /\ N - 2 = n - 1 /\ N - 1 = n /\ N = N + 2 * 0
  OBVIOUS
<1>2. Alternates(types, N, N, Literals)
  BY <1>1, NothingAlternates
<1>3. types[N] = "("
  OBVIOUS
<1>4. InsertHead(types, N - 2, k) /\ ValuesRead(types, N, N)
  BY <1>1, <1>2, <1>3, Zenon DEF ValuesRead
<1> QED
  BY <1>1, <1>4, Zenon DEF ValuesUpTo

\* A value after a comma, a comma after a value, the end of the statement.
LEMMA ValueRead ==
    ASSUME NEW types, NEW k \in Nat, NEW h \in Nat, NEW n, ValuesUpTo(types, n, k, 2 * h),
           NEW N, N = n + 1, NEW t, t = types[N], t \in Literals
    PROVE  ValuesUpTo(types, N, k, 2 * (h + 1) - 1)
<1>1. PICK v \in Nat : InsertHead(types, v - 2, k) /\ ValuesRead(types, v, n) /\ n = v + 2 * h
  BY Zenon DEF ValuesUpTo
<1>2. Alternates(types, v, n, Literals)
  BY <1>1, Zenon DEF ValuesRead
<1>3. n = v + 2 * h
  BY <1>1
<1>4. types[n + 1] \in Literals
  OBVIOUS
<1>5. Alternates(types, v, n + 1, Literals)
  BY <1>2, <1>3, <1>4, ItemAlternates
<1>6. N = v + (2 * (h + 1) - 1)
  BY <1>3
<1>7. ValuesRead(types, v, N)
  BY <1>1, <1>5, Zenon DEF ValuesRead
<1> QED
  BY <1>1, <1>6, <1>7, Zenon DEF ValuesUpTo

LEMMA ValueComma ==
    ASSUME NEW types, NEW k \in Nat, NEW h \in Nat, NEW n, ValuesUpTo(types, n, k, 2 * h - 1),
           NEW N, N = n + 1, NEW t, t = types[N], t = Comma
    PROVE  ValuesUpTo(types, N, k, 2 * h)
<1>1. PICK v \in Nat : InsertHead(types, v - 2, k) /\ ValuesRead(types, v, n) /\ n = v + (2 * h - 1)
  BY Zenon DEF ValuesUpTo
<1>2. Alternates(types, v, n, Literals)
  BY <1>1, Zenon DEF ValuesRead
<1>3. n = v + 2 * h - 1
  <2>1. n = v + (2 * h - 1)
    BY <1>1
  <2> QED
    BY <2>1
<1>4. types[n + 1] = Comma
  OBVIOUS
<1>5. Alternates(types, v, n + 1, Literals)
  BY <1>2, <1>3, <1>4, CommaAlternates
<1>6. N = v + 2 * h
  BY <1>3
<1>7. ValuesRead(types, v, N)
  BY <1>1, <1>5, Zenon DEF ValuesRead
<1> QED
  BY <1>1, <1>6, <1>7, Zenon DEF ValuesUpTo

LEMMA ValuesEnd ==
    ASSUME NEW types, NEW k \in Nat, NEW h \in Nat, h # 0, h <= MAX_COLUMNS, k # 0 => h = k,
           NEW n, ValuesUpTo(types, n, k, 2 * h - 1),
           NEW N, N = n + 1, NEW t, t = types[N], t = ")"
    PROVE  InsertWhole(types, N, k, h)
<1>1. PICK v \in Nat : InsertHead(types, v - 2, k) /\ ValuesRead(types, v, n) /\ n = v + (2 * h - 1)
  BY Zenon DEF ValuesUpTo
<1>2. n = v + (2 * h - 1)
  BY <1>1
<1>3. N = v + 2 * h /\ N - 1 = n
  BY <1>2
<1>4. types[N] = ")"
  OBVIOUS
<1> QED
  BY <1>1, <1>3, <1>4, Zenon DEF InsertWhole

\* The columns of a SELECT.
LEMMA SelectColumn ==
    ASSUME NEW types, NEW k \in Nat, NEW n, n = 2 * k + 1, SelectColumns(types, n),
           NEW N, N = n + 1, NEW t, t = types[N], t = "identifier"
    PROVE  SelectColumns(types, N) /\ N = 2 * (k + 1)
<1>1. PICK S : S = {"identifier"}
  OBVIOUS
<1>2. Alternates(types, 1, n, S) /\ types[1] = "select"
  BY <1>1, Zenon DEF SelectColumns
<1>3. types[n + 1] \in S
  BY <1>1, Zenon
<1>4. n = 1 + 2 * k /\ 1 \in Nat /\ N = 2 * (k + 1)
  OBVIOUS
<1>5. Alternates(types, 1, n + 1, S)
  BY <1>2, <1>3, <1>4, ItemAlternates
<1> QED
  BY <1>1, <1>2, <1>4, <1>5, Zenon DEF SelectColumns

LEMMA SelectStart ==
    ASSUME NEW types, types[1] = "select"
    PROVE  SelectColumns(types, 1)
<1>1. Alternates(types, 1, 1, {"identifier"})
  BY NothingAlternates
<1> QED
  BY <1>1, Zenon DEF SelectColumns

\* A comma after a column, FROM after the last.
LEMMA SelectComma ==
    ASSUME NEW types, NEW k \in Nat, NEW n, n = 2 * k, SelectColumns(types, n),
           NEW N, N = n + 1, NEW t, t = types[N], t = Comma
    PROVE  SelectColumns(types, N) /\ N = 2 * k + 1
<1>1. PICK S : S = {"identifier"}
  OBVIOUS
<1>2. Alternates(types, 1, n, S) /\ types[1] = "select"
  BY <1>1, Zenon DEF SelectColumns
<1>3. types[n + 1] = Comma
  OBVIOUS
<1>4. n = 1 + 2 * k - 1 /\ 1 \in Nat /\ N = 2 * k + 1
  OBVIOUS
<1>5. Alternates(types, 1, n + 1, S)
  BY <1>2, <1>3, <1>4, CommaAlternates
<1> QED
  BY <1>1, <1>2, <1>4, <1>5, Zenon DEF SelectColumns

LEMMA SelectFrom ==
    ASSUME NEW types, NEW k \in Nat, k <= MAX_COLUMNS, NEW n,
           \/ k # 0 /\ n = 2 * k /\ SelectColumns(types, n)
           \/ k = 0 /\ n = 2 /\ types[1] = "select" /\ types[2] = "*",
           NEW N, N = n + 1, NEW t, t = types[N], t = "from"
    PROVE  SelectHead(types, N, k)
<1>1. types[N] = "from"
  OBVIOUS
<1>2. CASE k # 0 /\ n = 2 * k /\ SelectColumns(types, n)
  <2>1. N = 2 * k + 1 /\ N - 1 = n
    BY <1>2
  <2> QED
    BY <1>1, <1>2, <2>1, Zenon DEF SelectHead, WhatEnds
<1>3. CASE k = 0 /\ n = 2 /\ types[1] = "select" /\ types[2] = "*"
  <2>1. N = 3
    BY <1>3
  <2> QED
    BY <1>1, <1>3, <2>1, Zenon DEF SelectHead, WhatEnds
<1> QED
  BY <1>2, <1>3

\* The condition of a SELECT.
LEMMA SelectTable ==
    ASSUME NEW types, NEW k \in Nat, NEW n \in Nat, SelectHead(types, n, k),
           NEW N, N = n + 1, NEW t, t = types[N], t = "identifier"
    PROVE  SelectUpTo(types, N, k, 0)
<1>1. N = n + 1 + 0 /\ types[n + 1] = "identifier"
  OBVIOUS
<1> QED
  BY <1>1, ConditionNone, Zenon DEF SelectUpTo

\* The condition grows in its order: WHERE, a column, an operator, a value.
LEMMA ConditionGrows ==
    ASSUME NEW types, NEW k \in Nat, NEW j \in {0, 1, 2, 3}, NEW n, SelectUpTo(types, n, k, j),
           NEW N, N = n + 1, NEW t, t = types[N],
           j = 0 => t = "where", j = 1 => t = "identifier",
           j = 2 => t \in Operators \cup {"!="}, j = 3 => t \in Literals
    PROVE  SelectUpTo(types, N, k, j + 1)
<1>1. PICK f \in Nat : /\ SelectHead(types, f, k) /\ types[f + 1] = "identifier"
                       /\ n = f + 1 + j /\ ConditionRead(types, f, j)
  BY Zenon DEF SelectUpTo
<1>2. n = f + 1 + j
  BY <1>1
<1>3. N = f + 1 + (j + 1) /\ N = f + (j + 2)
  BY <1>2
<1>4. ConditionRead(types, f, j + 1)
  <2>1. CASE j = 0
    <3>1. j + 1 >= 1 /\ ~(j + 1 >= 2) /\ ~(j + 1 >= 3) /\ ~(j + 1 >= 4) /\ N = f + 2
      BY <1>3, <2>1
    <3> QED
      BY <2>1, <3>1, Zenon DEF ConditionRead
  <2>2. CASE j = 1
    <3>1. j >= 1 /\ ~(j + 1 >= 3) /\ ~(j + 1 >= 4) /\ N = f + 3
      BY <1>3, <2>2
    <3> QED
      BY <1>1, <2>2, <3>1, Zenon DEF ConditionRead
  <2>3. CASE j = 2
    <3>1. j >= 1 /\ j >= 2 /\ ~(j + 1 >= 4) /\ N = f + 4
      BY <1>3, <2>3
    <3> QED
      BY <1>1, <2>3, <3>1, Zenon DEF ConditionRead
  <2>4. CASE j = 3
    <3>1. j >= 1 /\ j >= 2 /\ j >= 3 /\ N = f + 5
      BY <1>3, <2>4
    <3> QED
      BY <1>1, <2>4, <3>1, Zenon DEF ConditionRead
  <2> QED
    BY <2>1, <2>2, <2>3, <2>4
<1> QED
  BY <1>1, <1>3, <1>4, Zenon DEF SelectUpTo

\* The rules, one by one.
Moves(place, t, next) ==
    \/ place = "statement" /\ t = "insert" /\ next = "into"
    \/ place = "into" /\ t = "into" /\ next = "insert table"
    \/ place = "insert table" /\ t = "identifier" /\ next = "columns?"
    \/ place = "columns?" /\ t = "(" /\ next = "insert column"
    \/ place = "columns?" /\ t = "values" /\ next = "("
    \/ place = "insert column" /\ t = "identifier" /\ next = "more insert columns"
    \/ place = "more insert columns" /\ t = Comma /\ next = "insert column"
    \/ place = "more insert columns" /\ t = ")" /\ next = "values"
    \/ place = "values" /\ t = "values" /\ next = "("
    \/ place = "(" /\ t = "(" /\ next = "value"
    \/ place = "more values" /\ t = Comma /\ next = "value"
    \/ place = "more values" /\ t = ")" /\ next = ";"
    \/ place = "statement" /\ t = "select" /\ next = "what"
    \/ place = "what" /\ t = "*" /\ next = "from"
    \/ place = "what" /\ t = "identifier" /\ next = "more select columns"
    \/ place = "more select columns" /\ t = Comma /\ next = "select column"
    \/ place = "more select columns" /\ t = "from" /\ next = "select table"
    \/ place = "select column" /\ t = "identifier" /\ next = "more select columns"
    \/ place = "from" /\ t = "from" /\ next = "select table"
    \/ place = "select table" /\ t = "identifier" /\ next = "where?"
    \/ place = "where?" /\ t = "where" /\ next = "where column"
    \/ place = "where column" /\ t = "identifier" /\ next = "operator"
    \/ place = "where?" /\ t = ";" /\ next = "statement"
    \/ place = ";" /\ t = ";" /\ next = "statement"
    \/ place = "value" /\ t \in Literals /\ next = "more values"
    \/ place = "operator" /\ t \in Operators \cup {"!="} /\ next = "where value"
    \/ place = "where value" /\ t \in Literals /\ next = ";"

\* The rules of the grammar are these.
LEMMA MovesMade ==
    ASSUME NEW place, NEW t, NEW next, <<place, t, next>> \in Grammar
    PROVE  Moves(place, t, next)
<1>1. \/ <<place, t, next>> \in FixedRules
      \/ place = "value" /\ t \in Literals /\ next = "more values"
      \/ place = "operator" /\ t \in Operators \cup {"!="} /\ next = "where value"
      \/ place = "where value" /\ t \in Literals /\ next = ";"
  BY DEF Grammar
<1>2. CASE <<place, t, next>> \in FixedRules
  <2>a. PICK r : r = <<place, t, next>>
    OBVIOUS
  <2>b. r \in FixedRules
    BY <1>2, <2>a
  <2>c. \/ r = <<"statement", "insert", "into">>
        \/ r = <<"into", "into", "insert table">>
        \/ r = <<"insert table", "identifier", "columns?">>
        \/ r = <<"columns?", "(", "insert column">>
        \/ r = <<"columns?", "values", "(">>
        \/ r = <<"insert column", "identifier", "more insert columns">>
        \/ r = <<"more insert columns", ",", "insert column">>
        \/ r = <<"more insert columns", ")", "values">>
        \/ r = <<"values", "values", "(">>
        \/ r = <<"(", "(", "value">>
        \/ r = <<"more values", ",", "value">>
        \/ r = <<"more values", ")", ";">>
        \/ r = <<"statement", "select", "what">>
        \/ r = <<"what", "*", "from">>
        \/ r = <<"what", "identifier", "more select columns">>
        \/ r = <<"more select columns", ",", "select column">>
        \/ r = <<"more select columns", "from", "select table">>
        \/ r = <<"select column", "identifier", "more select columns">>
        \/ r = <<"from", "from", "select table">>
        \/ r = <<"select table", "identifier", "where?">>
        \/ r = <<"where?", "where", "where column">>
        \/ r = <<"where column", "identifier", "operator">>
        \/ r = <<"where?", ";", "statement">>
        \/ r = <<";", ";", "statement">>
    BY <2>b, Zenon DEF FixedRules
  <2>1. ASSUME r = <<"statement", "insert", "into">> PROVE Moves(place, t, next)
    <3>1. <<place, t, next>> = <<"statement", "insert", "into">>
      BY <2>a, <2>1, Zenon
    <3>2. place = "statement" /\ t = "insert" /\ next = "into"
      BY <3>1
    <3> QED
      BY <3>2, Zenon DEF Moves
  <2>2. ASSUME r = <<"into", "into", "insert table">> PROVE Moves(place, t, next)
    <3>1. <<place, t, next>> = <<"into", "into", "insert table">>
      BY <2>a, <2>2, Zenon
    <3>2. place = "into" /\ t = "into" /\ next = "insert table"
      BY <3>1
    <3> QED
      BY <3>2, Zenon DEF Moves
  <2>3. ASSUME r = <<"insert table", "identifier", "columns?">> PROVE Moves(place, t, next)
    <3>1. <<place, t, next>> = <<"insert table", "identifier", "columns?">>
      BY <2>a, <2>3, Zenon
    <3>2. place = "insert table" /\ t = "identifier" /\ next = "columns?"
      BY <3>1
    <3> QED
      BY <3>2, Zenon DEF Moves
  <2>4. ASSUME r = <<"columns?", "(", "insert column">> PROVE Moves(place, t, next)
    <3>1. <<place, t, next>> = <<"columns?", "(", "insert column">>
      BY <2>a, <2>4, Zenon
    <3>2. place = "columns?" /\ t = "(" /\ next = "insert column"
      BY <3>1
    <3> QED
      BY <3>2, Zenon DEF Moves
  <2>5. ASSUME r = <<"columns?", "values", "(">> PROVE Moves(place, t, next)
    <3>1. <<place, t, next>> = <<"columns?", "values", "(">>
      BY <2>a, <2>5, Zenon
    <3>2. place = "columns?" /\ t = "values" /\ next = "("
      BY <3>1
    <3> QED
      BY <3>2, Zenon DEF Moves
  <2>6. ASSUME r = <<"insert column", "identifier", "more insert columns">> PROVE Moves(place, t, next)
    <3>1. <<place, t, next>> = <<"insert column", "identifier", "more insert columns">>
      BY <2>a, <2>6, Zenon
    <3>2. place = "insert column" /\ t = "identifier" /\ next = "more insert columns"
      BY <3>1
    <3> QED
      BY <3>2, Zenon DEF Moves
  <2>7. ASSUME r = <<"more insert columns", ",", "insert column">> PROVE Moves(place, t, next)
    <3>1. <<place, t, next>> = <<"more insert columns", ",", "insert column">>
      BY <2>a, <2>7, Zenon
    <3>2. place = "more insert columns" /\ t = "," /\ next = "insert column"
      BY <3>1
    <3> QED
      BY <3>2, Zenon DEF Moves, Comma
  <2>8. ASSUME r = <<"more insert columns", ")", "values">> PROVE Moves(place, t, next)
    <3>1. <<place, t, next>> = <<"more insert columns", ")", "values">>
      BY <2>a, <2>8, Zenon
    <3>2. place = "more insert columns" /\ t = ")" /\ next = "values"
      BY <3>1
    <3> QED
      BY <3>2, Zenon DEF Moves
  <2>9. ASSUME r = <<"values", "values", "(">> PROVE Moves(place, t, next)
    <3>1. <<place, t, next>> = <<"values", "values", "(">>
      BY <2>a, <2>9, Zenon
    <3>2. place = "values" /\ t = "values" /\ next = "("
      BY <3>1
    <3> QED
      BY <3>2, Zenon DEF Moves
  <2>10. ASSUME r = <<"(", "(", "value">> PROVE Moves(place, t, next)
    <3>1. <<place, t, next>> = <<"(", "(", "value">>
      BY <2>a, <2>10, Zenon
    <3>2. place = "(" /\ t = "(" /\ next = "value"
      BY <3>1
    <3> QED
      BY <3>2, Zenon DEF Moves
  <2>11. ASSUME r = <<"more values", ",", "value">> PROVE Moves(place, t, next)
    <3>1. <<place, t, next>> = <<"more values", ",", "value">>
      BY <2>a, <2>11, Zenon
    <3>2. place = "more values" /\ t = "," /\ next = "value"
      BY <3>1
    <3> QED
      BY <3>2, Zenon DEF Moves, Comma
  <2>12. ASSUME r = <<"more values", ")", ";">> PROVE Moves(place, t, next)
    <3>1. <<place, t, next>> = <<"more values", ")", ";">>
      BY <2>a, <2>12, Zenon
    <3>2. place = "more values" /\ t = ")" /\ next = ";"
      BY <3>1
    <3> QED
      BY <3>2, Zenon DEF Moves
  <2>13. ASSUME r = <<"statement", "select", "what">> PROVE Moves(place, t, next)
    <3>1. <<place, t, next>> = <<"statement", "select", "what">>
      BY <2>a, <2>13, Zenon
    <3>2. place = "statement" /\ t = "select" /\ next = "what"
      BY <3>1
    <3> QED
      BY <3>2, Zenon DEF Moves
  <2>14. ASSUME r = <<"what", "*", "from">> PROVE Moves(place, t, next)
    <3>1. <<place, t, next>> = <<"what", "*", "from">>
      BY <2>a, <2>14, Zenon
    <3>2. place = "what" /\ t = "*" /\ next = "from"
      BY <3>1
    <3> QED
      BY <3>2, Zenon DEF Moves
  <2>15. ASSUME r = <<"what", "identifier", "more select columns">> PROVE Moves(place, t, next)
    <3>1. <<place, t, next>> = <<"what", "identifier", "more select columns">>
      BY <2>a, <2>15, Zenon
    <3>2. place = "what" /\ t = "identifier" /\ next = "more select columns"
      BY <3>1
    <3> QED
      BY <3>2, Zenon DEF Moves
  <2>16. ASSUME r = <<"more select columns", ",", "select column">> PROVE Moves(place, t, next)
    <3>1. <<place, t, next>> = <<"more select columns", ",", "select column">>
      BY <2>a, <2>16, Zenon
    <3>2. place = "more select columns" /\ t = "," /\ next = "select column"
      BY <3>1
    <3> QED
      BY <3>2, Zenon DEF Moves, Comma
  <2>17. ASSUME r = <<"more select columns", "from", "select table">> PROVE Moves(place, t, next)
    <3>1. <<place, t, next>> = <<"more select columns", "from", "select table">>
      BY <2>a, <2>17, Zenon
    <3>2. place = "more select columns" /\ t = "from" /\ next = "select table"
      BY <3>1
    <3> QED
      BY <3>2, Zenon DEF Moves
  <2>18. ASSUME r = <<"select column", "identifier", "more select columns">> PROVE Moves(place, t, next)
    <3>1. <<place, t, next>> = <<"select column", "identifier", "more select columns">>
      BY <2>a, <2>18, Zenon
    <3>2. place = "select column" /\ t = "identifier" /\ next = "more select columns"
      BY <3>1
    <3> QED
      BY <3>2, Zenon DEF Moves
  <2>19. ASSUME r = <<"from", "from", "select table">> PROVE Moves(place, t, next)
    <3>1. <<place, t, next>> = <<"from", "from", "select table">>
      BY <2>a, <2>19, Zenon
    <3>2. place = "from" /\ t = "from" /\ next = "select table"
      BY <3>1
    <3> QED
      BY <3>2, Zenon DEF Moves
  <2>20. ASSUME r = <<"select table", "identifier", "where?">> PROVE Moves(place, t, next)
    <3>1. <<place, t, next>> = <<"select table", "identifier", "where?">>
      BY <2>a, <2>20, Zenon
    <3>2. place = "select table" /\ t = "identifier" /\ next = "where?"
      BY <3>1
    <3> QED
      BY <3>2, Zenon DEF Moves
  <2>21. ASSUME r = <<"where?", "where", "where column">> PROVE Moves(place, t, next)
    <3>1. <<place, t, next>> = <<"where?", "where", "where column">>
      BY <2>a, <2>21, Zenon
    <3>2. place = "where?" /\ t = "where" /\ next = "where column"
      BY <3>1
    <3> QED
      BY <3>2, Zenon DEF Moves
  <2>22. ASSUME r = <<"where column", "identifier", "operator">> PROVE Moves(place, t, next)
    <3>1. <<place, t, next>> = <<"where column", "identifier", "operator">>
      BY <2>a, <2>22, Zenon
    <3>2. place = "where column" /\ t = "identifier" /\ next = "operator"
      BY <3>1
    <3> QED
      BY <3>2, Zenon DEF Moves
  <2>23. ASSUME r = <<"where?", ";", "statement">> PROVE Moves(place, t, next)
    <3>1. <<place, t, next>> = <<"where?", ";", "statement">>
      BY <2>a, <2>23, Zenon
    <3>2. place = "where?" /\ t = ";" /\ next = "statement"
      BY <3>1
    <3> QED
      BY <3>2, Zenon DEF Moves
  <2>24. ASSUME r = <<";", ";", "statement">> PROVE Moves(place, t, next)
    <3>1. <<place, t, next>> = <<";", ";", "statement">>
      BY <2>a, <2>24, Zenon
    <3>2. place = ";" /\ t = ";" /\ next = "statement"
      BY <3>1
    <3> QED
      BY <3>2, Zenon DEF Moves
  <2> QED
    BY <2>c, <2>1, <2>2, <2>3, <2>4, <2>5, <2>6, <2>7, <2>8, <2>9, <2>10, <2>11, <2>12, <2>13, <2>14, <2>15, <2>16, <2>17, <2>18, <2>19, <2>20, <2>21, <2>22, <2>23, <2>24, Zenon
<1>3. CASE place = "value" /\ t \in Literals /\ next = "more values"
  BY <1>3, Zenon DEF Moves
<1>4. CASE place = "operator" /\ t \in Operators \cup {"!="} /\ next = "where value"
  BY <1>4, Zenon DEF Moves
<1>5. CASE place = "where value" /\ t \in Literals /\ next = ";"
  BY <1>5, Zenon DEF Moves
<1> QED
  BY <1>1, <1>2, <1>3, <1>4, <1>5, Zenon

\* What a token adds, rule by rule.
LEMMA StatementTakesInsert ==
    ASSUME NEW types, NEW k \in Nat, NEW h \in Nat, NEW n \in Nat,
           n = 0,
           NEW N, N = n + 1, NEW t, t = types[N], t = "insert"
    PROVE  N = 1 /\ types[1] = "insert"
<1>1. N = 1
  OBVIOUS
<1>2. types[1] = "insert"
  BY <1>1, Zenon
<1> QED
  BY <1>1, <1>2

LEMMA IntoTakesInto ==
    ASSUME NEW types, NEW n \in Nat,
           n = 1, types[1] = "insert",
           NEW N, N = n + 1, NEW t, t = types[N], t = "into"
    PROVE  N = 2 /\ types[1] = "insert" /\ types[2] = "into"
<1>1. N = 2
  OBVIOUS
<1>2. types[2] = "into"
  BY <1>1, Zenon
<1> QED
  BY <1>1, <1>2

LEMMA InsertTableTakesIdentifier ==
    ASSUME NEW types, NEW n \in Nat,
           n = 2, types[1] = "insert", types[2] = "into",
           NEW N, N = n + 1, NEW t, t = types[N], t = "identifier"
    PROVE  N = 3 /\ InsertBegins(types)
<1>1. N = 3
  OBVIOUS
<1>2. types[3] = "identifier"
  BY <1>1, Zenon
<1>3. InsertBegins(types)
  BY <1>1, Zenon DEF InsertBegins
<1> QED
  BY <1>1, <1>2, <1>3

LEMMA ColumnsTakesOpen ==
    ASSUME NEW types, NEW k \in Nat, NEW n \in Nat,
           n = 3, k = 0,
           NEW N, N = n + 1, NEW t, t = types[N], t = "("
    PROVE  Counted(N, k, 4) /\ ColumnsRead(types, N)
<1>1. N = 4
  OBVIOUS
<1>2. types[4] = "("
  BY <1>1, Zenon
<1>3. ColumnsRead(types, 4)
  BY <1>1, ColumnsStart
<1> QED
  BY <1>1, <1>2, <1>3 DEF Counted

LEMMA ColumnsTakesValues ==
    ASSUME NEW types, NEW k \in Nat, NEW n \in Nat,
           n = 3, k = 0, InsertBegins(types),
           NEW N, N = n + 1, NEW t, t = types[N], t = "values"
    PROVE  InsertHead(types, N - 1, k) /\ types[N] = "values"
<1>1. N - 1 = 3 /\ types[N] = "values"
  OBVIOUS
<1>2. InsertHead(types, 3, 0)
  BY Zenon DEF InsertHead, HeadEnds
<1> QED
  BY <1>1, <1>2

LEMMA InsertColumnTakesIdentifier ==
    ASSUME NEW types, NEW k \in Nat, NEW n \in Nat,
           Counted(n, k, 4), ColumnsRead(types, n),
           NEW N, N = n + 1, NEW t, t = types[N], t = "identifier"
    PROVE  Counted(N, k + 1, 3) /\ (k + 1) # 0 /\ ColumnsRead(types, N)
<1>1. ColumnsRead(types, N) /\ N = 2 * (k + 1) + 3
  BY ColumnAdded DEF Counted
<1>2. (k + 1) # 0 /\ N = 2 * (k + 1) + 3
  BY <1>1
<1> QED
  BY <1>1, <1>2 DEF Counted

LEMMA MoreInsertColumnsTakesComma ==
    ASSUME NEW types, NEW k \in Nat, NEW n \in Nat,
           Counted(n, k, 3), k # 0, ColumnsRead(types, n),
           NEW N, N = n + 1, NEW t, t = types[N], t = Comma
    PROVE  Counted(N, k, 4) /\ ColumnsRead(types, N)
<1>1. ColumnsRead(types, N) /\ N = 2 * k + 4
  BY ColumnComma DEF Counted
<1> QED
  BY <1>1 DEF Counted

LEMMA MoreInsertColumnsTakesClose ==
    ASSUME NEW types, NEW k \in Nat, NEW h \in Nat, NEW n \in Nat,
           Counted(n, k, 3), k # 0, h = 0, InsertBegins(types), ColumnsRead(types, n),
           NEW N, N = n + 1, NEW t, t = types[N], t = ")"
    PROVE  k # 0 /\ h = 0 /\ InsertHead(types, N, k)
<1>1. InsertHead(types, N, k)
  BY ColumnsEnd DEF Counted
<1> QED
  BY <1>1

LEMMA ValuesTakesValues ==
    ASSUME NEW types, NEW k \in Nat, NEW h \in Nat, NEW n \in Nat,
           k # 0, h = 0, InsertHead(types, n, k),
           NEW N, N = n + 1, NEW t, t = types[N], t = "values"
    PROVE  h = 0 /\ InsertHead(types, N - 1, k) /\ types[N] = "values"
<1>1. N - 1 = n /\ types[N] = "values"
  OBVIOUS
<1> QED
  BY <1>1

LEMMA OpenTakesOpen ==
    ASSUME NEW types, NEW k \in Nat, NEW h \in Nat, NEW n \in Nat,
           h = 0, InsertHead(types, n - 1, k), types[n] = "values",
           NEW N, N = n + 1, NEW t, t = types[N], t = "("
    PROVE  ValuesUpTo(types, N, k, 2 * h)
<1>1. ValuesUpTo(types, N, k, 2 * 0)
  BY ValuesStart
<1> QED
  BY <1>1

LEMMA MoreValuesTakesComma ==
    ASSUME NEW types, NEW k \in Nat, NEW h \in Nat, NEW n \in Nat,
           h # 0, ValuesUpTo(types, n, k, 2 * h - 1),
           NEW N, N = n + 1, NEW t, t = types[N], t = Comma
    PROVE  ValuesUpTo(types, N, k, 2 * h)
<1>1. ValuesUpTo(types, N, k, 2 * h)
  BY ValueComma
<1> QED
  BY <1>1

LEMMA MoreValuesTakesClose ==
    ASSUME NEW types, NEW k \in Nat, NEW h \in Nat, NEW n \in Nat,
           h # 0, ValuesUpTo(types, n, k, 2 * h - 1),
           NEW N, N = n + 1, NEW t, t = types[N], t = ")", h <= MAX_COLUMNS, k # 0 => h = k
    PROVE  InsertWhole(types, N, k, h) \/ SelectUpTo(types, N, k, 4)
<1>1. InsertWhole(types, N, k, h)
  BY ValuesEnd
<1> QED
  BY <1>1

LEMMA StatementTakesSelect ==
    ASSUME NEW types, NEW k \in Nat, NEW h \in Nat, NEW n \in Nat,
           n = 0,
           NEW N, N = n + 1, NEW t, t = types[N], t = "select"
    PROVE  N = 1 /\ 0 = 0 /\ types[1] = "select"
<1>1. N = 1
  OBVIOUS
<1>2. types[1] = "select"
  BY <1>1, Zenon
<1> QED
  BY <1>1, <1>2

LEMMA WhatTakesStar ==
    ASSUME NEW types, NEW k \in Nat, NEW h \in Nat, NEW n \in Nat,
           n = 1, k = 0, types[1] = "select",
           NEW N, N = n + 1, NEW t, t = types[N], t = "*"
    PROVE  N = 2 /\ k = 0 /\ types[1] = "select" /\ types[2] = "*"
<1>1. N = 2
  OBVIOUS
<1>2. types[2] = "*"
  BY <1>1, Zenon
<1> QED
  BY <1>1, <1>2

LEMMA WhatTakesIdentifier ==
    ASSUME NEW types, NEW k \in Nat, NEW h \in Nat, NEW n \in Nat,
           n = 1, k = 0, types[1] = "select",
           NEW N, N = n + 1, NEW t, t = types[N], t = "identifier"
    PROVE  N = 2 * (k + 1) /\ (k + 1) # 0 /\ SelectColumns(types, N)
<1>1. SelectColumns(types, 1)
  BY SelectStart
<1>2. n = 2 * k + 1 /\ k + 1 # 0
  OBVIOUS
<1>3. SelectColumns(types, n)
  BY <1>1
<1>4. SelectColumns(types, N) /\ N = 2 * (k + 1)
  BY <1>2, <1>3, SelectColumn
<1> QED
  BY <1>1, <1>2, <1>3, <1>4

LEMMA MoreSelectColumnsTakesComma ==
    ASSUME NEW types, NEW k \in Nat, NEW h \in Nat, NEW n \in Nat,
           n = 2 * k, k # 0, SelectColumns(types, n),
           NEW N, N = n + 1, NEW t, t = types[N], t = Comma
    PROVE  N = 2 * k + 1 /\ k # 0 /\ SelectColumns(types, N)
<1>1. SelectColumns(types, N) /\ N = 2 * k + 1
  BY SelectComma
<1> QED
  BY <1>1

LEMMA MoreSelectColumnsTakesFrom ==
    ASSUME NEW types, NEW k \in Nat, NEW h \in Nat, NEW n \in Nat,
           n = 2 * k, k # 0, SelectColumns(types, n),
           NEW N, N = n + 1, NEW t, t = types[N], t = "from", k <= MAX_COLUMNS
    PROVE  SelectHead(types, N, k)
<1>1. SelectHead(types, N, k)
  BY SelectFrom
<1> QED
  BY <1>1

LEMMA SelectColumnTakesIdentifier ==
    ASSUME NEW types, NEW k \in Nat, NEW h \in Nat, NEW n \in Nat,
           n = 2 * k + 1, k # 0, SelectColumns(types, n),
           NEW N, N = n + 1, NEW t, t = types[N], t = "identifier"
    PROVE  N = 2 * (k + 1) /\ (k + 1) # 0 /\ SelectColumns(types, N)
<1>1. SelectColumns(types, N) /\ N = 2 * (k + 1)
  BY SelectColumn
<1>2. k + 1 # 0
  OBVIOUS
<1> QED
  BY <1>1, <1>2

LEMMA FromTakesFrom ==
    ASSUME NEW types, NEW k \in Nat, NEW h \in Nat, NEW n \in Nat,
           n = 2, k = 0, types[1] = "select", types[2] = "*",
           NEW N, N = n + 1, NEW t, t = types[N], t = "from", k <= MAX_COLUMNS
    PROVE  SelectHead(types, N, k)
<1>1. SelectHead(types, N, k)
  BY SelectFrom
<1> QED
  BY <1>1

LEMMA SelectTableTakesIdentifier ==
    ASSUME NEW types, NEW k \in Nat, NEW h \in Nat, NEW n \in Nat,
           SelectHead(types, n, k),
           NEW N, N = n + 1, NEW t, t = types[N], t = "identifier"
    PROVE  SelectUpTo(types, N, k, 0)
<1>1. SelectUpTo(types, N, k, 0)
  BY SelectTable
<1> QED
  BY <1>1

LEMMA WhereTakesWhere ==
    ASSUME NEW types, NEW k \in Nat, NEW h \in Nat, NEW n \in Nat,
           SelectUpTo(types, n, k, 0),
           NEW N, N = n + 1, NEW t, t = types[N], t = "where"
    PROVE  SelectUpTo(types, N, k, 1)
<1>1. PICK j : j = 0
  OBVIOUS
<1>2. j \in {0, 1, 2, 3} /\ j # 1 /\ j # 2 /\ j # 3 /\ j + 1 = 1
  BY <1>1
<1>3. SelectUpTo(types, n, k, j)
  BY <1>1, Zenon
<1>4. j = 0 => t = "where"
  BY <1>1, <1>2, Zenon
<1>5. j = 1 => t = "identifier"
  BY <1>1, <1>2, Zenon
<1>6. j = 2 => t \in Operators \cup {"!="}
  BY <1>2, Zenon
<1>7. j = 3 => t \in Literals
  BY <1>2, Zenon
<1>8. SelectUpTo(types, N, k, j + 1)
  BY <1>2, <1>3, <1>4, <1>5, <1>6, <1>7, ConditionGrows
<1> QED
  BY <1>2, <1>8, Zenon

LEMMA WhereColumnTakesIdentifier ==
    ASSUME NEW types, NEW k \in Nat, NEW h \in Nat, NEW n \in Nat,
           SelectUpTo(types, n, k, 1),
           NEW N, N = n + 1, NEW t, t = types[N], t = "identifier"
    PROVE  SelectUpTo(types, N, k, 2)
<1>1. PICK j : j = 1
  OBVIOUS
<1>2. j \in {0, 1, 2, 3} /\ j # 0 /\ j # 2 /\ j # 3 /\ j + 1 = 2
  BY <1>1
<1>3. SelectUpTo(types, n, k, j)
  BY <1>1, Zenon
<1>4. j = 0 => t = "where"
  BY <1>1, <1>2, Zenon
<1>5. j = 1 => t = "identifier"
  BY <1>1, <1>2, Zenon
<1>6. j = 2 => t \in Operators \cup {"!="}
  BY <1>2, Zenon
<1>7. j = 3 => t \in Literals
  BY <1>2, Zenon
<1>8. SelectUpTo(types, N, k, j + 1)
  BY <1>2, <1>3, <1>4, <1>5, <1>6, <1>7, ConditionGrows
<1> QED
  BY <1>2, <1>8, Zenon

LEMMA ValueTakesLiterals ==
    ASSUME NEW types, NEW k \in Nat, NEW h \in Nat, NEW n \in Nat,
           ValuesUpTo(types, n, k, 2 * h),
           NEW N, N = n + 1, NEW t, t = types[N], t \in Literals
    PROVE  (h + 1) # 0 /\ ValuesUpTo(types, N, k, 2 * (h + 1) - 1)
<1>1. ValuesUpTo(types, N, k, 2 * (h + 1) - 1)
  BY ValueRead
<1>2. h + 1 # 0
  OBVIOUS
<1> QED
  BY <1>1, <1>2

LEMMA OperatorTakesOps ==
    ASSUME NEW types, NEW k \in Nat, NEW h \in Nat, NEW n \in Nat,
           SelectUpTo(types, n, k, 2),
           NEW N, N = n + 1, NEW t, t = types[N], t \in Operators \cup {"!="}
    PROVE  SelectUpTo(types, N, k, 3)
<1>1. SelectUpTo(types, N, k, 2 + 1)
  BY ConditionGrows
<1>2. 2 + 1 = 3
  OBVIOUS
<1> QED
  BY <1>1, <1>2

LEMMA WhereValueTakesLiterals ==
    ASSUME NEW types, NEW k \in Nat, NEW h \in Nat, NEW n \in Nat,
           SelectUpTo(types, n, k, 3),
           NEW N, N = n + 1, NEW t, t = types[N], t \in Literals
    PROVE  InsertWhole(types, N, k, h) \/ SelectUpTo(types, N, k, 4)
<1>1. SelectUpTo(types, N, k, 3 + 1)
  BY ConditionGrows
<1>2. 3 + 1 = 4
  OBVIOUS
<1> QED
  BY <1>1, <1>2

\* How a token that is taken at a place changes the numbers of columns and values.
Tallies(place, t, k, h, k2, h2) ==
    /\ place = "statement" => k2 = 0 /\ h2 = 0
    /\ place # "statement" /\ place \in Names /\ t = "identifier" => k2 = k + 1
    /\ place # "statement" /\ ~(place \in Names /\ t = "identifier") => k2 = k
    /\ place = "value" => h2 = h + 1
    /\ place \notin {"statement", "value"} => h2 = h
    /\ place = "more values" /\ t = ")" => (k # 0 => h = k)

\* A token that is taken within a statement leads from what describes one place to
\* what describes the next.
LEMMA DescribedOn ==
    ASSUME NEW types, NEW place, NEW n \in Nat, NEW k \in Nat, NEW h \in Nat,
           Described(place, types, n, k, h),
           NEW N, N = n + 1, NEW t, t = types[N], NEW next, Moves(place, t, next), t # ";",
           NEW k2 \in Nat, NEW h2 \in Nat, k2 <= MAX_COLUMNS, h2 <= MAX_COLUMNS,
           Tallies(place, t, k, h, k2, h2)
    PROVE  Described(next, types, N, k2, h2)
<1>a. /\ place = "statement" => k2 = 0 /\ h2 = 0
      /\ place # "statement" /\ place \in Names /\ t = "identifier" => k2 = k + 1
      /\ place # "statement" /\ ~(place \in Names /\ t = "identifier") => k2 = k
      /\ place = "value" => h2 = h + 1
      /\ place \notin {"statement", "value"} => h2 = h
      /\ place = "more values" /\ t = ")" => (k # 0 => h = k)
  BY Zenon DEF Tallies
<1>1. CASE place = "statement" /\ t = "insert" /\ next = "into"
  <2>1. n = 0
    BY <1>1, Zenon DEF Described
  <2>2. k2 = 0 /\ h2 = 0
    BY <1>a, <1>1, Zenon DEF Names
  <2>3. N = 1 /\ types[1] = "insert"
    BY <1>1, <2>1, StatementTakesInsert, Zenon
  <2> QED
    BY <1>1, <2>2, <2>3, Zenon DEF Described
<1>2. CASE place = "into" /\ t = "into" /\ next = "insert table"
  <2>1. n = 1 /\ k = 0 /\ h = 0 /\ types[1] = "insert"
    BY <1>2, Zenon DEF Described
  <2>2. k2 = k /\ h2 = h
    BY <1>a, <1>2, Zenon DEF Names
  <2>3. N = 2 /\ types[1] = "insert" /\ types[2] = "into"
    BY <1>2, <2>1, IntoTakesInto, Zenon
  <2> QED
    BY <1>2, <2>1, <2>2, <2>3, Zenon DEF Described
<1>3. CASE place = "insert table" /\ t = "identifier" /\ next = "columns?"
  <2>1. n = 2 /\ k = 0 /\ h = 0 /\ types[1] = "insert" /\ types[2] = "into"
    BY <1>3, Zenon DEF Described
  <2>2. k2 = k /\ h2 = h
    BY <1>a, <1>3, Zenon DEF Names
  <2>3. N = 3 /\ InsertBegins(types)
    BY <1>3, <2>1, InsertTableTakesIdentifier, Zenon
  <2> QED
    BY <1>3, <2>1, <2>2, <2>3, Zenon DEF Described
<1>4. CASE place = "columns?" /\ t = "(" /\ next = "insert column"
  <2>1. n = 3 /\ k = 0 /\ h = 0 /\ InsertBegins(types)
    BY <1>4, Zenon DEF Described
  <2>2. k2 = k /\ h2 = h
    BY <1>a, <1>4, Zenon DEF Names
  <2>3. Counted(N, k, 4) /\ ColumnsRead(types, N)
    BY <1>4, <2>1, ColumnsTakesOpen, Zenon
  <2> QED
    BY <1>4, <2>1, <2>2, <2>3, Zenon DEF Described
<1>5. CASE place = "columns?" /\ t = "values" /\ next = "("
  <2>1. n = 3 /\ k = 0 /\ h = 0 /\ InsertBegins(types)
    BY <1>5, Zenon DEF Described
  <2>2. k2 = k /\ h2 = h
    BY <1>a, <1>5, Zenon DEF Names
  <2>3. InsertHead(types, N - 1, k) /\ types[N] = "values"
    BY <1>5, <2>1, ColumnsTakesValues, Zenon
  <2> QED
    BY <1>5, <2>1, <2>2, <2>3, Zenon DEF Described
<1>6. CASE place = "insert column" /\ t = "identifier" /\ next = "more insert columns"
  <2>1. Counted(n, k, 4) /\ h = 0 /\ InsertBegins(types) /\ ColumnsRead(types, n)
    BY <1>6, Zenon DEF Described
  <2>2. k2 = k + 1 /\ h2 = h
    BY <1>a, <1>6, Zenon DEF Names
  <2>3. Counted(N, k + 1, 3) /\ (k + 1) # 0 /\ ColumnsRead(types, N)
    BY <1>6, <2>1, InsertColumnTakesIdentifier, Zenon
  <2> QED
    BY <1>6, <2>1, <2>2, <2>3, Zenon DEF Described
<1>7. CASE place = "more insert columns" /\ t = Comma /\ next = "insert column"
  <2>1. Counted(n, k, 3) /\ k # 0 /\ h = 0 /\ InsertBegins(types) /\ ColumnsRead(types, n)
    BY <1>7, Zenon DEF Described
  <2>2. k2 = k /\ h2 = h
    BY <1>a, <1>7, Zenon DEF Names
  <2>3. Counted(N, k, 4) /\ ColumnsRead(types, N)
    BY <1>7, <2>1, MoreInsertColumnsTakesComma, Zenon
  <2> QED
    BY <1>7, <2>1, <2>2, <2>3, Zenon DEF Described
<1>8. CASE place = "more insert columns" /\ t = ")" /\ next = "values"
  <2>1. Counted(n, k, 3) /\ k # 0 /\ h = 0 /\ InsertBegins(types) /\ ColumnsRead(types, n)
    BY <1>8, Zenon DEF Described
  <2>2. k2 = k /\ h2 = h
    BY <1>a, <1>8, Zenon DEF Names
  <2>3. k # 0 /\ h = 0 /\ InsertHead(types, N, k)
    BY <1>8, <2>1, MoreInsertColumnsTakesClose, Zenon
  <2> QED
    BY <1>8, <2>2, <2>3, Zenon DEF Described
<1>9. CASE place = "values" /\ t = "values" /\ next = "("
  <2>1. k # 0 /\ h = 0 /\ InsertHead(types, n, k)
    BY <1>9, Zenon DEF Described
  <2>2. k2 = k /\ h2 = h
    BY <1>a, <1>9, Zenon DEF Names
  <2>3. h = 0 /\ InsertHead(types, N - 1, k) /\ types[N] = "values"
    BY <1>9, <2>1, ValuesTakesValues, Zenon
  <2> QED
    BY <1>9, <2>2, <2>3, Zenon DEF Described
<1>10. CASE place = "(" /\ t = "(" /\ next = "value"
  <2>1. h = 0 /\ InsertHead(types, n - 1, k) /\ types[n] = "values"
    BY <1>10, Zenon DEF Described
  <2>2. k2 = k /\ h2 = h
    BY <1>a, <1>10, Zenon DEF Names
  <2>3. ValuesUpTo(types, N, k, 2 * h)
    BY <1>10, <2>1, OpenTakesOpen, Zenon
  <2> QED
    BY <1>10, <2>2, <2>3, Zenon DEF Described
<1>11. CASE place = "more values" /\ t = Comma /\ next = "value"
  <2>1. h # 0 /\ ValuesUpTo(types, n, k, 2 * h - 1)
    BY <1>11, Zenon DEF Described
  <2>2. k2 = k /\ h2 = h
    BY <1>a, <1>11, Zenon DEF Names
  <2>3. ValuesUpTo(types, N, k, 2 * h)
    BY <1>11, <2>1, MoreValuesTakesComma, Zenon
  <2> QED
    BY <1>11, <2>2, <2>3, Zenon DEF Described
<1>12. CASE place = "more values" /\ t = ")" /\ next = ";"
  <2>1. h # 0 /\ ValuesUpTo(types, n, k, 2 * h - 1)
    BY <1>12, Zenon DEF Described
  <2>2. k2 = k /\ h2 = h
    BY <1>a, <1>12, Zenon DEF Names
  <2>3. h <= MAX_COLUMNS /\ (k # 0 => h = k)
    BY <1>a, <1>12, <2>2, Zenon
  <2>4. InsertWhole(types, N, k, h) \/ SelectUpTo(types, N, k, 4)
    BY <1>12, <2>1, <2>3, MoreValuesTakesClose, Zenon
  <2> QED
    BY <1>12, <2>2, <2>4, Zenon DEF Described
<1>13. CASE place = "statement" /\ t = "select" /\ next = "what"
  <2>1. n = 0
    BY <1>13, Zenon DEF Described
  <2>2. k2 = 0 /\ h2 = 0
    BY <1>a, <1>13, Zenon DEF Names
  <2>3. N = 1 /\ 0 = 0 /\ types[1] = "select"
    BY <1>13, <2>1, StatementTakesSelect, Zenon
  <2> QED
    BY <1>13, <2>2, <2>3, Zenon DEF Described
<1>14. CASE place = "what" /\ t = "*" /\ next = "from"
  <2>1. n = 1 /\ k = 0 /\ types[1] = "select"
    BY <1>14, Zenon DEF Described
  <2>2. k2 = k /\ h2 = h
    BY <1>a, <1>14, Zenon DEF Names
  <2>3. N = 2 /\ k = 0 /\ types[1] = "select" /\ types[2] = "*"
    BY <1>14, <2>1, WhatTakesStar, Zenon
  <2> QED
    BY <1>14, <2>2, <2>3, Zenon DEF Described
<1>15. CASE place = "what" /\ t = "identifier" /\ next = "more select columns"
  <2>1. n = 1 /\ k = 0 /\ types[1] = "select"
    BY <1>15, Zenon DEF Described
  <2>2. k2 = k + 1 /\ h2 = h
    BY <1>a, <1>15, Zenon DEF Names
  <2>3. N = 2 * (k + 1) /\ (k + 1) # 0 /\ SelectColumns(types, N)
    BY <1>15, <2>1, WhatTakesIdentifier, Zenon
  <2> QED
    BY <1>15, <2>2, <2>3, Zenon DEF Described
<1>16. CASE place = "more select columns" /\ t = Comma /\ next = "select column"
  <2>1. n = 2 * k /\ k # 0 /\ SelectColumns(types, n)
    BY <1>16, Zenon DEF Described
  <2>2. k2 = k /\ h2 = h
    BY <1>a, <1>16, Zenon DEF Names
  <2>3. N = 2 * k + 1 /\ k # 0 /\ SelectColumns(types, N)
    BY <1>16, <2>1, MoreSelectColumnsTakesComma, Zenon
  <2> QED
    BY <1>16, <2>2, <2>3, Zenon DEF Described
<1>17. CASE place = "more select columns" /\ t = "from" /\ next = "select table"
  <2>1. n = 2 * k /\ k # 0 /\ SelectColumns(types, n)
    BY <1>17, Zenon DEF Described
  <2>2. k2 = k /\ h2 = h
    BY <1>a, <1>17, Zenon DEF Names
  <2>3. k <= MAX_COLUMNS
    BY <1>17, <2>2, Zenon
  <2>4. SelectHead(types, N, k)
    BY <1>17, <2>1, <2>3, MoreSelectColumnsTakesFrom, Zenon
  <2> QED
    BY <1>17, <2>2, <2>4, Zenon DEF Described
<1>18. CASE place = "select column" /\ t = "identifier" /\ next = "more select columns"
  <2>1. n = 2 * k + 1 /\ k # 0 /\ SelectColumns(types, n)
    BY <1>18, Zenon DEF Described
  <2>2. k2 = k + 1 /\ h2 = h
    BY <1>a, <1>18, Zenon DEF Names
  <2>3. N = 2 * (k + 1) /\ (k + 1) # 0 /\ SelectColumns(types, N)
    BY <1>18, <2>1, SelectColumnTakesIdentifier, Zenon
  <2> QED
    BY <1>18, <2>2, <2>3, Zenon DEF Described
<1>19. CASE place = "from" /\ t = "from" /\ next = "select table"
  <2>1. n = 2 /\ k = 0 /\ types[1] = "select" /\ types[2] = "*"
    BY <1>19, Zenon DEF Described
  <2>2. k2 = k /\ h2 = h
    BY <1>a, <1>19, Zenon DEF Names
  <2>3. k <= MAX_COLUMNS
    BY <1>19, <2>2, Zenon
  <2>4. SelectHead(types, N, k)
    BY <1>19, <2>1, <2>3, FromTakesFrom, Zenon
  <2> QED
    BY <1>19, <2>2, <2>4, Zenon DEF Described
<1>20. CASE place = "select table" /\ t = "identifier" /\ next = "where?"
  <2>1. SelectHead(types, n, k)
    BY <1>20, Zenon DEF Described
  <2>2. k2 = k /\ h2 = h
    BY <1>a, <1>20, Zenon DEF Names
  <2>3. SelectUpTo(types, N, k, 0)
    BY <1>20, <2>1, SelectTableTakesIdentifier, Zenon
  <2> QED
    BY <1>20, <2>2, <2>3, Zenon DEF Described
<1>21. CASE place = "where?" /\ t = "where" /\ next = "where column"
  <2>1. SelectUpTo(types, n, k, 0)
    BY <1>21, Zenon DEF Described
  <2>2. k2 = k /\ h2 = h
    BY <1>a, <1>21, Zenon DEF Names
  <2>3. SelectUpTo(types, N, k, 1)
    BY <1>21, <2>1, WhereTakesWhere, Zenon
  <2> QED
    BY <1>21, <2>2, <2>3, Zenon DEF Described
<1>22. CASE place = "where column" /\ t = "identifier" /\ next = "operator"
  <2>1. SelectUpTo(types, n, k, 1)
    BY <1>22, Zenon DEF Described
  <2>2. k2 = k /\ h2 = h
    BY <1>a, <1>22, Zenon DEF Names
  <2>3. SelectUpTo(types, N, k, 2)
    BY <1>22, <2>1, WhereColumnTakesIdentifier, Zenon
  <2> QED
    BY <1>22, <2>2, <2>3, Zenon DEF Described
<1>23. CASE place = "value" /\ t \in Literals /\ next = "more values"
  <2>1. ValuesUpTo(types, n, k, 2 * h)
    BY <1>23, Zenon DEF Described
  <2>2. k2 = k /\ h2 = h + 1
    BY <1>a, <1>23, Zenon DEF Names
  <2>3. (h + 1) # 0 /\ ValuesUpTo(types, N, k, 2 * (h + 1) - 1)
    BY <1>23, <2>1, ValueTakesLiterals, Zenon
  <2> QED
    BY <1>23, <2>2, <2>3, Zenon DEF Described
<1>24. CASE place = "operator" /\ t \in Operators \cup {"!="} /\ next = "where value"
  <2>1. SelectUpTo(types, n, k, 2)
    BY <1>24, Zenon DEF Described
  <2>2. k2 = k /\ h2 = h
    BY <1>a, <1>24, Zenon DEF Names
  <2>3. SelectUpTo(types, N, k, 3)
    BY <1>24, <2>1, OperatorTakesOps, Zenon
  <2> QED
    BY <1>24, <2>2, <2>3, Zenon DEF Described
<1>25. CASE place = "where value" /\ t \in Literals /\ next = ";"
  <2>1. SelectUpTo(types, n, k, 3)
    BY <1>25, Zenon DEF Described
  <2>2. k2 = k /\ h2 = h
    BY <1>a, <1>25, Zenon DEF Names
  <2>3. InsertWhole(types, N, k, h) \/ SelectUpTo(types, N, k, 4)
    BY <1>25, <2>1, WhereValueTakesLiterals, Zenon
  <2> QED
    BY <1>25, <2>2, <2>3, Zenon DEF Described
<1>e. ~(place = "where?" /\ t = ";" /\ next = "statement") /\ ~(place = ";" /\ t = ";" /\ next = "statement")
  OBVIOUS
<1> QED
  BY <1>e, <1>1, <1>2, <1>3, <1>4, <1>5, <1>6, <1>7, <1>8, <1>9, <1>10, <1>11, <1>12, <1>13, <1>14, <1>15, <1>16, <1>17, <1>18, <1>19, <1>20, <1>21, <1>22, <1>23, <1>24, <1>25, Zenon DEF Moves

\* A comma is no other token, and neither a bracket nor FROM can be on a list.
LEMMA ListEndsDiffer ==
    /\ Comma # ")" /\ Comma # "from" /\ Comma # "identifier"
    /\ ")" \notin {"identifier"} \cup {Comma} /\ "from" \notin {"identifier"} \cup {Comma}
    /\ ")" \notin Literals \cup {Comma}
BY Zenon DEF Comma, Literals

\* What is no part of a list is beyond it.
LEMMA ListEndsBefore ==
    ASSUME NEW types, NEW v \in Nat, NEW n \in Nat, NEW S, Alternates(types, v, n, S),
           NEW e \in Nat, e > v, NEW t, t = types[e], t \notin S \cup {Comma}
    PROVE  n < e
<1>1. \A i \in v + 1 .. n : types[i] \in S \cup {Comma}
  BY AlternatesAt
<1>2. ~(e \in v + 1 .. n)
  BY <1>1, Zenon
<1> QED
  BY <1>2

\* The columns read so far are columns of the whole list.
LEMMA ColumnsWithin ==
    ASSUME NEW types, NEW n \in Nat, ColumnsRead(types, n),
           NEW c \in Nat, NEW k2 \in Nat, HeadEnds(types, c, k2), k2 = 0 => types[4] = "values"
    PROVE  k2 # 0 /\ Counted(c, k2, 4) /\ n < c /\ Alternates(types, 4, c - 1, {"identifier"}) /\ types[c] = ")"
<1>1. types[4] = "(" /\ Alternates(types, 4, n, {"identifier"})
  BY Zenon DEF ColumnsRead
<1>2. k2 # 0
  BY <1>1, Zenon
<1>3. c = 2 * k2 + 4 /\ ColumnsRead(types, c - 1) /\ types[c] = ")"
  BY <1>2, Zenon DEF HeadEnds
<1>4. Alternates(types, 4, c - 1, {"identifier"})
  BY <1>3, Zenon DEF ColumnsRead
<1>5. PICK S : S = {"identifier"}
  OBVIOUS
<1>6. PICK t : t = types[c]
  OBVIOUS
<1>7. t \notin S \cup {Comma}
  BY <1>3, <1>5, <1>6, ListEndsDiffer, Zenon
<1>8. c > 4
  <2>1. c = 2 * k2 + 4
    BY <1>3
  <2> QED
    BY <1>2, <2>1
<1>9. Alternates(types, 4, n, S)
  BY <1>1, <1>5, Zenon
<1>10. 4 \in Nat
  OBVIOUS
<1>11. n < c
  BY <1>6, <1>7, <1>8, <1>9, <1>10, ListEndsBefore, Zenon
<1>12. Counted(c, k2, 4)
  BY <1>3, Zenon DEF Counted
<1> QED
  BY <1>2, <1>3, <1>4, <1>11, <1>12, Zenon

\* The next of the columns, from the whole list.
LEMMA NextColumn ==
    ASSUME NEW types, NEW c \in Nat, NEW k \in Nat, NEW k2 \in Nat, NEW n \in Nat, Counted(n, k, 4), n < c,
           Counted(c, k2, 4), Alternates(types, 4, c - 1, {"identifier"})
    PROVE  k < k2 /\ types[n + 1] = "identifier"
<1>1. n = 2 * k + 4 /\ c = 2 * k2 + 4
  BY DEF Counted
<1>2. k < k2
  BY <1>1
<1>3. PICK m : m = c - 1
  OBVIOUS
<1>4. m \in Nat /\ 4 + 2 * k + 1 <= m /\ 4 + 2 * k + 1 = n + 1 /\ 4 \in Nat
  BY <1>1, <1>2, <1>3
<1>5. PICK S : S = {"identifier"}
  OBVIOUS
<1>6. Alternates(types, 4, m, S)
  BY <1>3, <1>5, Zenon
<1>7. \A i \in Nat : 4 + 2 * i + 1 <= m => types[4 + 2 * i + 1] \in S
  BY <1>4, <1>6, AlternatesAt
<1>8. types[4 + 2 * k + 1] \in S
  BY <1>4, <1>7, Zenon
<1>9. types[n + 1] \in S
  BY <1>4, <1>8, Zenon
<1> QED
  BY <1>2, <1>5, <1>9, Zenon

\* After a column the list goes on or ends.
LEMMA AfterColumn ==
    ASSUME NEW types, NEW c \in Nat, NEW k \in Nat \ {0}, NEW k2 \in Nat, NEW n \in Nat, Counted(n, k, 3), n < c,
           Counted(c, k2, 4), Alternates(types, 4, c - 1, {"identifier"})
    PROVE  (k = k2 /\ n + 1 = c) \/ (k < k2 /\ types[n + 1] = Comma)
<1>1. n = 2 * k + 3 /\ c = 2 * k2 + 4
  BY DEF Counted
<1>2. k <= k2
  BY <1>1
<1>3. CASE k = k2
  BY <1>1, <1>3
<1>4. CASE k < k2
  <2>3. PICK m : m = c - 1
    OBVIOUS
  <2>4. m \in Nat /\ 4 + 2 * k <= m /\ 4 + 2 * k = n + 1 /\ 4 \in Nat
    BY <1>1, <1>4, <2>3
  <2>5. PICK S : S = {"identifier"}
    OBVIOUS
  <2>6. Alternates(types, 4, m, S)
    BY <2>3, <2>5, Zenon
  <2>7. \A i \in Nat \ {0} : 4 + 2 * i <= m => types[4 + 2 * i] = Comma
    BY <2>4, <2>6, AlternatesAt
  <2>8. types[4 + 2 * k] = Comma
    BY <2>4, <2>7, Zenon
  <2>9. types[n + 1] = Comma
    BY <2>4, <2>8, Zenon
  <2> QED
    BY <1>4, <2>9
<1> QED
  BY <1>2, <1>3, <1>4

\* A text has one head at most: its columns end at one place.
LEMMA HeadOnce ==
    ASSUME NEW types, NEW c \in Nat, NEW k \in Nat, NEW c2 \in Nat, NEW k2 \in Nat,
           HeadEnds(types, c, k), HeadEnds(types, c2, k2),
           k = 0 => types[4] = "values", k2 = 0 => types[4] = "values"
    PROVE  c = c2 /\ k = k2
<1>1. CASE k = 0
  <2>1. types[4] # "("
    BY <1>1, Zenon
  <2>2. k2 = 0
    BY <2>1, Zenon DEF HeadEnds, ColumnsRead
  <2> QED
    BY <1>1, <2>2, Zenon DEF HeadEnds
<1>2. CASE k # 0
  <2>1. c = 2 * k + 4 /\ ColumnsRead(types, c - 1)
    BY <1>2, Zenon DEF HeadEnds
  <2>2. PICK n : n = c - 1
    OBVIOUS
  <2>3. n \in Nat
    <3>1. c = 2 * k + 4
      BY <2>1
    <3> QED
      BY <2>2, <3>1
  <2>4. ColumnsRead(types, n)
    BY <2>1, <2>2, Zenon
  <2>5. k2 # 0 /\ c2 = 2 * k2 + 4 /\ n < c2
    BY <2>3, <2>4, ColumnsWithin DEF Counted
  <2>6. c2 = 2 * k2 + 4 /\ ColumnsRead(types, c2 - 1)
    BY <2>5, Zenon DEF HeadEnds
  <2>7. PICK n2 : n2 = c2 - 1
    OBVIOUS
  <2>8. n2 \in Nat
    BY <2>5, <2>7
  <2>9. ColumnsRead(types, n2)
    BY <2>6, <2>7, Zenon
  <2>10. n2 < c
    BY <2>8, <2>9, ColumnsWithin
  <2>11. c = 2 * k + 4 /\ n = c - 1 /\ c2 = 2 * k2 + 4 /\ n2 = c2 - 1 /\ n < c2 /\ n2 < c
    BY <2>1, <2>2, <2>5, <2>7, <2>10
  <2> HIDE <2>1
  <2> QED
    BY <2>11
<1> QED
  BY <1>1, <1>2

\* Where the values begin.
ValuesBegin(types, v, k) ==
    /\ v >= 5 /\ InsertBegins(types) /\ HeadEnds(types, v - 2, k)
    /\ types[v - 1] = "values" /\ types[v] = "("
    /\ k = 0 => v = 5 /\ types[4] = "values"

\* The readings above, by the place where the values begin.
LEMMA BeginsAt ==
    ASSUME NEW types, NEW v \in Nat, NEW k \in Nat, InsertHead(types, v - 2, k),
           types[v - 1] = "values", types[v] = "("
    PROVE  ValuesBegin(types, v, k)
<1>1. InsertBegins(types) /\ HeadEnds(types, v - 2, k)
  BY Zenon DEF InsertHead
<1>2. CASE k = 0
  <2>1. v - 2 = 3
    BY <1>1, <1>2, Zenon DEF HeadEnds
  <2>2. v = 5 /\ v >= 5 /\ v - 1 = 4
    BY <2>1
  <2>3. types[4] = "values"
    BY <2>2, Zenon
  <2> QED
    BY <1>1, <2>2, <2>3, Zenon DEF ValuesBegin
<1>3. CASE k # 0
  <2>1. v - 2 = 2 * k + 4
    BY <1>1, <1>3, Zenon DEF HeadEnds
  <2>2. v >= 5
    BY <2>1
  <2> QED
    BY <1>1, <1>3, <2>2, Zenon DEF ValuesBegin
<1> QED
  BY <1>2, <1>3

LEMMA ValuesBegun ==
    ASSUME NEW types, NEW n, NEW k \in Nat, NEW j, ValuesUpTo(types, n, k, j)
    PROVE  \E v \in Nat : ValuesBegin(types, v, k) /\ Alternates(types, v, n, Literals) /\ n = v + j
<1>1. PICK v \in Nat : InsertHead(types, v - 2, k) /\ ValuesRead(types, v, n) /\ n = v + j
  BY Zenon DEF ValuesUpTo
<1>2. types[v - 1] = "values" /\ types[v] = "(" /\ Alternates(types, v, n, Literals)
  BY <1>1, Zenon DEF ValuesRead
<1>3. ValuesBegin(types, v, k)
  BY <1>1, <1>2, BeginsAt, Zenon
<1> QED
  BY <1>1, <1>2, <1>3

LEMMA InsertParts ==
    ASSUME NEW types, NEW m \in Nat, NEW k \in Nat, NEW h \in Nat, InsertWhole(types, m, k, h)
    PROVE  /\ h # 0 /\ h <= MAX_COLUMNS /\ (k # 0 => h = k)
           /\ \E v \in Nat : /\ ValuesBegin(types, v, k) /\ Alternates(types, v, m - 1, Literals)
                             /\ m = v + 2 * h /\ types[m] = ")"
<1>1. h # 0 /\ h <= MAX_COLUMNS /\ (k # 0 => h = k)
  BY Zenon DEF InsertWhole
<1>2. PICK v \in Nat : /\ InsertHead(types, v - 2, k) /\ ValuesRead(types, v, m - 1)
                       /\ m = v + 2 * h /\ types[m] = ")"
  BY Zenon DEF InsertWhole
<1>3. types[v - 1] = "values" /\ types[v] = "(" /\ Alternates(types, v, m - 1, Literals)
  BY <1>2, Zenon DEF ValuesRead
<1>4. ValuesBegin(types, v, k)
  BY <1>2, <1>3, BeginsAt, Zenon
<1> QED
  BY <1>1, <1>2, <1>3, <1>4

\* The values of a text begin at one place at most.
LEMMA ValuesBeginOnce ==
    ASSUME NEW types, NEW v \in Nat, NEW k \in Nat, ValuesBegin(types, v, k),
           NEW v2 \in Nat, NEW k2 \in Nat, ValuesBegin(types, v2, k2)
    PROVE  v = v2 /\ k = k2
<1>1. PICK c : c = v - 2
  OBVIOUS
<1>2. PICK c2 : c2 = v2 - 2
  OBVIOUS
<1>3. v >= 5 /\ v2 >= 5
  BY Zenon DEF ValuesBegin
<1>4. c \in Nat /\ c2 \in Nat
  BY <1>1, <1>2, <1>3
<1>5. HeadEnds(types, c, k) /\ HeadEnds(types, c2, k2)
  BY <1>1, <1>2, Zenon DEF ValuesBegin
<1>6. (k = 0 => types[4] = "values") /\ (k2 = 0 => types[4] = "values")
  BY Zenon DEF ValuesBegin
<1>7. c = c2 /\ k = k2
  BY <1>4, <1>5, <1>6, HeadOnce, Zenon
<1>8. v = v2
  <2>1. c = c2
    BY <1>7
  <2> QED
    BY <1>1, <1>2, <2>1
<1> QED
  BY <1>7, <1>8

\* The next of the values, from the whole list.
LEMMA NextValue ==
    ASSUME NEW types, NEW v \in Nat, NEW n \in Nat, NEW h \in Nat, n = v + 2 * h, Alternates(types, v, n, Literals),
           NEW m \in Nat, NEW h2 \in Nat \ {0}, m = v + 2 * h2, n <= m, Alternates(types, v, m - 1, Literals),
           types[m] = ")"
    PROVE  h < h2 /\ types[n + 1] \in Literals
<1>1. PICK t : t = types[m]
  OBVIOUS
<1>2. t \notin Literals \cup {Comma}
  BY <1>1, ListEndsDiffer, Zenon
<1>3. m > v
  OBVIOUS
<1>4. n < m
  BY <1>1, <1>2, <1>3, ListEndsBefore, Zenon
<1>5. PICK e : e = m - 1
  OBVIOUS
<1>6. h < h2 /\ e \in Nat /\ v + 2 * h + 1 <= e /\ v + 2 * h + 1 = n + 1
  BY <1>4, <1>5
<1>7. Alternates(types, v, e, Literals)
  BY <1>5, Zenon
<1>8. \A i \in Nat : v + 2 * i + 1 <= e => types[v + 2 * i + 1] \in Literals
  BY <1>6, <1>7, AlternatesAt
<1>9. types[v + 2 * h + 1] \in Literals
  BY <1>6, <1>8, Zenon
<1> QED
  BY <1>6, <1>9, Zenon

\* After a value the list goes on or ends.
LEMMA AfterValue ==
    ASSUME NEW types, NEW v \in Nat, NEW n \in Nat, NEW h \in Nat \ {0}, n = v + 2 * h - 1,
           NEW m \in Nat, NEW h2 \in Nat \ {0}, m = v + 2 * h2, n <= m, Alternates(types, v, m - 1, Literals)
    PROVE  (h = h2 /\ n + 1 = m) \/ (h < h2 /\ types[n + 1] = Comma)
<1>1. h <= h2
  OBVIOUS
<1>2. CASE h = h2
  BY <1>2
<1>3. CASE h < h2
  <2>1. PICK e : e = m - 1
    OBVIOUS
  <2>2. e \in Nat /\ v + 2 * h <= e /\ v + 2 * h = n + 1
    BY <1>3, <2>1
  <2>3. Alternates(types, v, e, Literals)
    BY <2>1, Zenon
  <2>4. \A i \in Nat \ {0} : v + 2 * i <= e => types[v + 2 * i] = Comma
    BY <2>2, <2>3, AlternatesAt
  <2>5. types[v + 2 * h] = Comma
    BY <2>2, <2>4, Zenon
  <2>6. types[n + 1] = Comma
    BY <2>2, <2>5, Zenon
  <2> QED
    BY <1>3, <2>6
<1> QED
  BY <1>1, <1>2, <1>3

\* A whole list of values is followed by no second end.
LEMMA WholeInsertOnce ==
    ASSUME NEW types, NEW n \in Nat, NEW k \in Nat, NEW h \in Nat, InsertWhole(types, n, k, h),
           NEW m \in Nat, NEW k2 \in Nat, NEW h2 \in Nat, InsertWhole(types, m, k2, h2), n <= m
    PROVE  n = m
<1>1. PICK v \in Nat : /\ ValuesBegin(types, v, k) /\ Alternates(types, v, n - 1, Literals)
                       /\ n = v + 2 * h /\ types[n] = ")"
  BY InsertParts
<1>2. PICK v2 \in Nat : /\ ValuesBegin(types, v2, k2) /\ Alternates(types, v2, m - 1, Literals)
                        /\ m = v2 + 2 * h2 /\ types[m] = ")"
  BY InsertParts
<1>3. v = v2 /\ h # 0 /\ h2 # 0
  BY <1>1, <1>2, ValuesBeginOnce, InsertParts
<1>4. PICK t : t = types[n]
  OBVIOUS
<1>5. t \notin Literals \cup {Comma}
  BY <1>1, <1>4, ListEndsDiffer, Zenon
<1>6. n = v + 2 * h /\ m = v + 2 * h2
  BY <1>1, <1>2, <1>3
<1>7. n > v
  BY <1>3, <1>6
<1>8. PICK e : e = m - 1
  OBVIOUS
<1>9. e \in Nat
  BY <1>3, <1>6, <1>8
<1>10. Alternates(types, v, e, Literals)
  BY <1>2, <1>3, <1>8, Zenon
<1>11. e < n
  BY <1>4, <1>5, <1>7, <1>9, <1>10, ListEndsBefore, Zenon
<1> QED
  BY <1>8, <1>11

\* The columns of a SELECT read so far are columns of the whole list.
LEMMA SelectWithin ==
    ASSUME NEW types, NEW n \in Nat, n > 1, SelectColumns(types, n),
           NEW f \in Nat, NEW k2 \in Nat, SelectHead(types, f, k2)
    PROVE  /\ k2 # 0 /\ Counted(f, k2, 1) /\ n < f /\ k2 <= MAX_COLUMNS
           /\ Alternates(types, 1, f - 1, {"identifier"}) /\ types[f] = "from"
<1>1. Alternates(types, 1, n, {"identifier"})
  BY Zenon DEF SelectColumns
<1>2. PICK S : S = {"identifier"}
  OBVIOUS
<1>3. Alternates(types, 1, n, S)
  BY <1>1, <1>2, Zenon
<1>4. types[2] = "identifier"
  <2>1. \A h \in Nat : 1 + 2 * h + 1 <= n => types[1 + 2 * h + 1] \in S
    BY <1>3, AlternatesAt
  <2>2. 0 \in Nat /\ 1 + 2 * 0 + 1 <= n /\ 1 + 2 * 0 + 1 = 2
    OBVIOUS
  <2>3. types[2] \in S
    BY <2>1, <2>2, Zenon
  <2> QED
    BY <1>2, <2>3, Zenon
<1>5. k2 <= MAX_COLUMNS /\ WhatEnds(types, f, k2) /\ types[f] = "from"
  BY Zenon DEF SelectHead
<1>6. k2 # 0
  <2>1. "identifier" # "*"
    BY Zenon
  <2> QED
    BY <1>4, <1>5, <2>1, Zenon DEF WhatEnds
<1>7. f = 2 * k2 + 1 /\ SelectColumns(types, f - 1)
  BY <1>5, <1>6, Zenon DEF WhatEnds
<1>8. Alternates(types, 1, f - 1, {"identifier"})
  BY <1>7, Zenon DEF SelectColumns
<1>9. PICK t : t = types[f]
  OBVIOUS
<1>10. t \notin S \cup {Comma}
  BY <1>2, <1>5, <1>9, ListEndsDiffer, Zenon
<1>11. f > 1 /\ 1 \in Nat
  <2>1. f = 2 * k2 + 1
    BY <1>7
  <2> QED
    BY <1>6, <2>1
<1>12. n < f
  BY <1>3, <1>9, <1>10, <1>11, ListEndsBefore, Zenon
<1>13. Counted(f, k2, 1)
  BY <1>7, Zenon DEF Counted
<1> QED
  BY <1>5, <1>6, <1>8, <1>12, <1>13, Zenon

\* The next of the columns, from the whole list.
LEMMA NextSelectColumn ==
    ASSUME NEW types, NEW f \in Nat, NEW k \in Nat, NEW k2 \in Nat, NEW n \in Nat, Counted(n, k, 1), n < f,
           Counted(f, k2, 1), Alternates(types, 1, f - 1, {"identifier"})
    PROVE  k < k2 /\ types[n + 1] = "identifier"
<1>0. n = 2 * k + 1 /\ f = 2 * k2 + 1
  BY DEF Counted
<1>1. k < k2
  BY <1>0
<1>2. PICK m : m = f - 1
  OBVIOUS
<1>3. m \in Nat /\ 1 + 2 * k + 1 <= m /\ 1 + 2 * k + 1 = n + 1 /\ 1 \in Nat
  BY <1>0, <1>1, <1>2
<1>4. PICK S : S = {"identifier"}
  OBVIOUS
<1>5. Alternates(types, 1, m, S)
  BY <1>2, <1>4, Zenon
<1>6. \A i \in Nat : 1 + 2 * i + 1 <= m => types[1 + 2 * i + 1] \in S
  BY <1>3, <1>5, AlternatesAt
<1>7. types[1 + 2 * k + 1] \in S
  BY <1>3, <1>6, Zenon
<1>8. types[n + 1] \in S
  BY <1>3, <1>7, Zenon
<1> QED
  BY <1>1, <1>4, <1>8, Zenon

\* After a column the list goes on or FROM comes.
LEMMA AfterSelectColumn ==
    ASSUME NEW types, NEW f \in Nat, NEW k \in Nat \ {0}, NEW k2 \in Nat, NEW n \in Nat, Counted(n, k, 0), n < f,
           Counted(f, k2, 1), Alternates(types, 1, f - 1, {"identifier"})
    PROVE  (k = k2 /\ n + 1 = f) \/ (k < k2 /\ types[n + 1] = Comma)
<1>0. n = 2 * k + 0 /\ f = 2 * k2 + 1
  BY DEF Counted
<1>1. k <= k2
  BY <1>0
<1>2. CASE k = k2
  BY <1>0, <1>2
<1>3. CASE k < k2
  <2>1. PICK m : m = f - 1
    OBVIOUS
  <2>2. m \in Nat /\ 1 + 2 * k <= m /\ 1 + 2 * k = n + 1 /\ 1 \in Nat
    BY <1>0, <1>3, <2>1
  <2>3. PICK S : S = {"identifier"}
    OBVIOUS
  <2>4. Alternates(types, 1, m, S)
    BY <2>1, <2>3, Zenon
  <2>5. \A i \in Nat \ {0} : 1 + 2 * i <= m => types[1 + 2 * i] = Comma
    BY <2>2, <2>4, AlternatesAt
  <2>6. types[1 + 2 * k] = Comma
    BY <2>2, <2>5, Zenon
  <2>7. types[n + 1] = Comma
    BY <2>2, <2>6, Zenon
  <2> QED
    BY <1>3, <2>7
<1> QED
  BY <1>1, <1>2, <1>3

\* A text has one FROM at most.
LEMMA FromOnce ==
    ASSUME NEW types, NEW f \in Nat, NEW k \in Nat, SelectHead(types, f, k),
           NEW f2 \in Nat, NEW k2 \in Nat, SelectHead(types, f2, k2)
    PROVE  f = f2 /\ k = k2
<1>1. ASSUME NEW g \in Nat, NEW i \in Nat, SelectHead(types, g, i), i # 0
      PROVE  g = 2 * i + 1 /\ g - 1 \in Nat /\ g - 1 > 1 /\ SelectColumns(types, g - 1)
  <2>1. g = 2 * i + 1 /\ SelectColumns(types, g - 1)
    BY <1>1, Zenon DEF SelectHead, WhatEnds
  <2>2. g = 2 * i + 1
    BY <2>1
  <2>3. g - 1 \in Nat /\ g - 1 > 1
    BY <1>1, <2>2
  <2> QED
    BY <2>1, <2>3
<1>2. CASE k = 0 /\ k2 = 0
  BY <1>2, Zenon DEF SelectHead, WhatEnds
<1>3. CASE k # 0
  <2>1. PICK n : n = f - 1
    OBVIOUS
  <2>2. f = 2 * k + 1 /\ n \in Nat /\ n > 1 /\ SelectColumns(types, n)
    BY <1>1, <1>3, <2>1
  <2>3. k2 # 0 /\ f2 = 2 * k2 + 1 /\ n < f2
    BY <2>2, SelectWithin DEF Counted
  <2>4. PICK n2 : n2 = f2 - 1
    OBVIOUS
  <2>5. n2 \in Nat /\ n2 > 1 /\ SelectColumns(types, n2)
    BY <1>1, <2>3, <2>4
  <2>6. n2 < f
    BY <2>5, SelectWithin DEF Counted
  <2> QED
    BY <2>1, <2>2, <2>3, <2>4, <2>6
<1>4. CASE k2 # 0
  <2>1. PICK n : n = f2 - 1
    OBVIOUS
  <2>2. f2 = 2 * k2 + 1 /\ n \in Nat /\ n > 1 /\ SelectColumns(types, n)
    BY <1>1, <1>4, <2>1
  <2>3. k # 0
    BY <2>2, SelectWithin DEF Counted
  <2> QED
    BY <1>3, <2>3
<1> QED
  BY <1>2, <1>3, <1>4

\* From FROM on.
LEMMA SelectOnce ==
    ASSUME NEW types, NEW n, NEW k \in Nat, NEW j \in 0 .. 4, SelectUpTo(types, n, k, j),
           NEW m \in Nat, NEW k2 \in Nat, SelectWhole(types, m, k2), n <= m
    PROVE  /\ j # 0 => m = n + 4 - j
           /\ j = 0 => m = n \/ m = n + 4
           /\ m > n => \E f \in Nat : n = f + 1 + j /\ ConditionRead(types, f, 4)
<1>1. PICK f \in Nat : SelectHead(types, f, k) /\ n = f + 1 + j
  BY Zenon DEF SelectUpTo
<1>2. PICK j2 \in {0, 4} : SelectUpTo(types, m, k2, j2)
  BY Zenon DEF SelectWhole
<1>3. PICK f2 \in Nat : SelectHead(types, f2, k2) /\ m = f2 + 1 + j2 /\ ConditionRead(types, f2, j2)
  BY <1>2, Zenon DEF SelectUpTo
<1>4. f = f2
  BY <1>1, <1>3, FromOnce, Zenon
<1>5. /\ j # 0 => m = n + 4 - j
      /\ j = 0 => m = n \/ m = n + 4
      /\ m > n => j2 = 4
  BY <1>1, <1>2, <1>3, <1>4
<1>6. m > n => ConditionRead(types, f, 4)
  BY <1>3, <1>4, <1>5
<1> QED
  BY <1>1, <1>5, <1>6

\* The rules are those of the grammar.
LEMMA MovesAre ==
    ASSUME NEW place, NEW t, NEW next, Moves(place, t, next)
    PROVE  <<place, t, next>> \in Grammar
<1>1. CASE place = "statement" /\ t = "insert" /\ next = "into"
  <2>1. <<"statement", "insert", "into">> \in FixedRules
    BY Zenon DEF FixedRules
  <2>2. <<place, t, next>> = <<"statement", "insert", "into">>
    BY <1>1, Zenon
  <2> QED
    BY <2>1, <2>2, Zenon DEF Grammar
<1>2. CASE place = "into" /\ t = "into" /\ next = "insert table"
  <2>1. <<"into", "into", "insert table">> \in FixedRules
    BY Zenon DEF FixedRules
  <2>2. <<place, t, next>> = <<"into", "into", "insert table">>
    BY <1>2, Zenon
  <2> QED
    BY <2>1, <2>2, Zenon DEF Grammar
<1>3. CASE place = "insert table" /\ t = "identifier" /\ next = "columns?"
  <2>1. <<"insert table", "identifier", "columns?">> \in FixedRules
    BY Zenon DEF FixedRules
  <2>2. <<place, t, next>> = <<"insert table", "identifier", "columns?">>
    BY <1>3, Zenon
  <2> QED
    BY <2>1, <2>2, Zenon DEF Grammar
<1>4. CASE place = "columns?" /\ t = "(" /\ next = "insert column"
  <2>1. <<"columns?", "(", "insert column">> \in FixedRules
    BY Zenon DEF FixedRules
  <2>2. <<place, t, next>> = <<"columns?", "(", "insert column">>
    BY <1>4, Zenon
  <2> QED
    BY <2>1, <2>2, Zenon DEF Grammar
<1>5. CASE place = "columns?" /\ t = "values" /\ next = "("
  <2>1. <<"columns?", "values", "(">> \in FixedRules
    BY Zenon DEF FixedRules
  <2>2. <<place, t, next>> = <<"columns?", "values", "(">>
    BY <1>5, Zenon
  <2> QED
    BY <2>1, <2>2, Zenon DEF Grammar
<1>6. CASE place = "insert column" /\ t = "identifier" /\ next = "more insert columns"
  <2>1. <<"insert column", "identifier", "more insert columns">> \in FixedRules
    BY Zenon DEF FixedRules
  <2>2. <<place, t, next>> = <<"insert column", "identifier", "more insert columns">>
    BY <1>6, Zenon
  <2> QED
    BY <2>1, <2>2, Zenon DEF Grammar
<1>7. CASE place = "more insert columns" /\ t = Comma /\ next = "insert column"
  <2>1. <<"more insert columns", ",", "insert column">> \in FixedRules
    BY Zenon DEF FixedRules
  <2>2. <<place, t, next>> = <<"more insert columns", ",", "insert column">>
    BY <1>7, Zenon DEF Comma
  <2> QED
    BY <2>1, <2>2, Zenon DEF Grammar
<1>8. CASE place = "more insert columns" /\ t = ")" /\ next = "values"
  <2>1. <<"more insert columns", ")", "values">> \in FixedRules
    BY Zenon DEF FixedRules
  <2>2. <<place, t, next>> = <<"more insert columns", ")", "values">>
    BY <1>8, Zenon
  <2> QED
    BY <2>1, <2>2, Zenon DEF Grammar
<1>9. CASE place = "values" /\ t = "values" /\ next = "("
  <2>1. <<"values", "values", "(">> \in FixedRules
    BY Zenon DEF FixedRules
  <2>2. <<place, t, next>> = <<"values", "values", "(">>
    BY <1>9, Zenon
  <2> QED
    BY <2>1, <2>2, Zenon DEF Grammar
<1>10. CASE place = "(" /\ t = "(" /\ next = "value"
  <2>1. <<"(", "(", "value">> \in FixedRules
    BY Zenon DEF FixedRules
  <2>2. <<place, t, next>> = <<"(", "(", "value">>
    BY <1>10, Zenon
  <2> QED
    BY <2>1, <2>2, Zenon DEF Grammar
<1>11. CASE place = "more values" /\ t = Comma /\ next = "value"
  <2>1. <<"more values", ",", "value">> \in FixedRules
    BY Zenon DEF FixedRules
  <2>2. <<place, t, next>> = <<"more values", ",", "value">>
    BY <1>11, Zenon DEF Comma
  <2> QED
    BY <2>1, <2>2, Zenon DEF Grammar
<1>12. CASE place = "more values" /\ t = ")" /\ next = ";"
  <2>1. <<"more values", ")", ";">> \in FixedRules
    BY Zenon DEF FixedRules
  <2>2. <<place, t, next>> = <<"more values", ")", ";">>
    BY <1>12, Zenon
  <2> QED
    BY <2>1, <2>2, Zenon DEF Grammar
<1>13. CASE place = "statement" /\ t = "select" /\ next = "what"
  <2>1. <<"statement", "select", "what">> \in FixedRules
    BY Zenon DEF FixedRules
  <2>2. <<place, t, next>> = <<"statement", "select", "what">>
    BY <1>13, Zenon
  <2> QED
    BY <2>1, <2>2, Zenon DEF Grammar
<1>14. CASE place = "what" /\ t = "*" /\ next = "from"
  <2>1. <<"what", "*", "from">> \in FixedRules
    BY Zenon DEF FixedRules
  <2>2. <<place, t, next>> = <<"what", "*", "from">>
    BY <1>14, Zenon
  <2> QED
    BY <2>1, <2>2, Zenon DEF Grammar
<1>15. CASE place = "what" /\ t = "identifier" /\ next = "more select columns"
  <2>1. <<"what", "identifier", "more select columns">> \in FixedRules
    BY Zenon DEF FixedRules
  <2>2. <<place, t, next>> = <<"what", "identifier", "more select columns">>
    BY <1>15, Zenon
  <2> QED
    BY <2>1, <2>2, Zenon DEF Grammar
<1>16. CASE place = "more select columns" /\ t = Comma /\ next = "select column"
  <2>1. <<"more select columns", ",", "select column">> \in FixedRules
    BY Zenon DEF FixedRules
  <2>2. <<place, t, next>> = <<"more select columns", ",", "select column">>
    BY <1>16, Zenon DEF Comma
  <2> QED
    BY <2>1, <2>2, Zenon DEF Grammar
<1>17. CASE place = "more select columns" /\ t = "from" /\ next = "select table"
  <2>1. <<"more select columns", "from", "select table">> \in FixedRules
    BY Zenon DEF FixedRules
  <2>2. <<place, t, next>> = <<"more select columns", "from", "select table">>
    BY <1>17, Zenon
  <2> QED
    BY <2>1, <2>2, Zenon DEF Grammar
<1>18. CASE place = "select column" /\ t = "identifier" /\ next = "more select columns"
  <2>1. <<"select column", "identifier", "more select columns">> \in FixedRules
    BY Zenon DEF FixedRules
  <2>2. <<place, t, next>> = <<"select column", "identifier", "more select columns">>
    BY <1>18, Zenon
  <2> QED
    BY <2>1, <2>2, Zenon DEF Grammar
<1>19. CASE place = "from" /\ t = "from" /\ next = "select table"
  <2>1. <<"from", "from", "select table">> \in FixedRules
    BY Zenon DEF FixedRules
  <2>2. <<place, t, next>> = <<"from", "from", "select table">>
    BY <1>19, Zenon
  <2> QED
    BY <2>1, <2>2, Zenon DEF Grammar
<1>20. CASE place = "select table" /\ t = "identifier" /\ next = "where?"
  <2>1. <<"select table", "identifier", "where?">> \in FixedRules
    BY Zenon DEF FixedRules
  <2>2. <<place, t, next>> = <<"select table", "identifier", "where?">>
    BY <1>20, Zenon
  <2> QED
    BY <2>1, <2>2, Zenon DEF Grammar
<1>21. CASE place = "where?" /\ t = "where" /\ next = "where column"
  <2>1. <<"where?", "where", "where column">> \in FixedRules
    BY Zenon DEF FixedRules
  <2>2. <<place, t, next>> = <<"where?", "where", "where column">>
    BY <1>21, Zenon
  <2> QED
    BY <2>1, <2>2, Zenon DEF Grammar
<1>22. CASE place = "where column" /\ t = "identifier" /\ next = "operator"
  <2>1. <<"where column", "identifier", "operator">> \in FixedRules
    BY Zenon DEF FixedRules
  <2>2. <<place, t, next>> = <<"where column", "identifier", "operator">>
    BY <1>22, Zenon
  <2> QED
    BY <2>1, <2>2, Zenon DEF Grammar
<1>23. CASE place = "where?" /\ t = ";" /\ next = "statement"
  <2>1. <<"where?", ";", "statement">> \in FixedRules
    BY Zenon DEF FixedRules
  <2>2. <<place, t, next>> = <<"where?", ";", "statement">>
    BY <1>23, Zenon
  <2> QED
    BY <2>1, <2>2, Zenon DEF Grammar
<1>24. CASE place = ";" /\ t = ";" /\ next = "statement"
  <2>1. <<";", ";", "statement">> \in FixedRules
    BY Zenon DEF FixedRules
  <2>2. <<place, t, next>> = <<";", ";", "statement">>
    BY <1>24, Zenon
  <2> QED
    BY <2>1, <2>2, Zenon DEF Grammar
<1>25. CASE place = "value" /\ t \in Literals /\ next = "more values"
  <2>1. <<"value", t, "more values">> \in Grammar
    BY <1>25, Zenon DEF Grammar
  <2> QED
    BY <1>25, <2>1, Zenon
<1>26. CASE place = "operator" /\ t \in Operators \cup {"!="} /\ next = "where value"
  <2>1. <<"operator", t, "where value">> \in Grammar
    BY <1>26, Zenon DEF Grammar
  <2> QED
    BY <1>26, <2>1, Zenon
<1>27. CASE place = "where value" /\ t \in Literals /\ next = ";"
  <2>1. <<"where value", t, ";">> \in Grammar
    BY <1>27, Zenon DEF Grammar
  <2> QED
    BY <1>27, <2>1, Zenon
<1> QED
  BY <1>1, <1>2, <1>3, <1>4, <1>5, <1>6, <1>7, <1>8, <1>9, <1>10, <1>11, <1>12, <1>13, <1>14, <1>15, <1>16, <1>17, <1>18, <1>19, <1>20, <1>21, <1>22, <1>23, <1>24, <1>25, <1>26, <1>27, Zenon DEF Moves

\* The limits are numbers of items.
LEMMA ColumnsLimited == MAX_COLUMNS \in Nat /\ 0 < MAX_COLUMNS
BY LimitsAssumption


\* What a whole INSERT has from its beginning on.
LEMMA WholeHead ==
    ASSUME NEW types, NEW m \in Nat, NEW k2 \in Nat, NEW h2 \in Nat, InsertWhole(types, m, k2, h2)
    PROVE  /\ InsertBegins(types) /\ (types[4] = "(" \/ types[4] = "values")
           /\ h2 # 0 /\ k2 <= MAX_COLUMNS /\ h2 <= MAX_COLUMNS /\ (k2 # 0 => h2 = k2)
           /\ \E c \in Nat : HeadEnds(types, c, k2) /\ types[c + 1] = "values" /\ types[c + 2] = "("
           /\ k2 = 0 => types[4] = "values"
<1>1. h2 # 0 /\ h2 <= MAX_COLUMNS /\ (k2 # 0 => h2 = k2)
  BY Zenon DEF InsertWhole
<1>2. PICK v \in Nat : ValuesBegin(types, v, k2)
  BY InsertParts
<1>3. /\ v >= 5 /\ InsertBegins(types) /\ HeadEnds(types, v - 2, k2)
      /\ types[v - 1] = "values" /\ types[v] = "(" /\ (k2 = 0 => types[4] = "values")
  BY <1>2, Zenon DEF ValuesBegin
<1>4. PICK c : c = v - 2
  OBVIOUS
<1>5. c \in Nat /\ c + 1 = v - 1 /\ c + 2 = v
  <2>1. v >= 5
    BY <1>3
  <2> QED
    BY <1>4, <2>1
<1>6. HeadEnds(types, c, k2) /\ types[c + 1] = "values" /\ types[c + 2] = "("
  BY <1>3, <1>4, <1>5, Zenon
<1>7. k2 # 0 => types[4] = "("
  BY <1>3, Zenon DEF HeadEnds, ColumnsRead
<1>8. k2 <= MAX_COLUMNS
  <2>1. k2 # 0 => h2 = k2
    BY <1>1
  <2>2. h2 <= MAX_COLUMNS /\ MAX_COLUMNS \in Nat
    BY <1>1, ColumnsLimited
  <2> QED
    BY <2>1, <2>2
<1> QED
  BY <1>1, <1>3, <1>5, <1>6, <1>7, <1>8, Zenon

\* The next token of an INSERT, at each place, from the whole one: within the column
\* list, between the lists, and within the values.
LEMMA InsertColumnGoes ==
    ASSUME NEW types, NEW n \in Nat, NEW k \in Nat, Counted(n, k, 4), ColumnsRead(types, n),
           NEW m \in Nat, NEW k2 \in Nat, NEW h2 \in Nat, InsertWhole(types, m, k2, h2)
    PROVE  types[n + 1] = "identifier" /\ k < MAX_COLUMNS
<1>1. PICK c \in Nat : HeadEnds(types, c, k2)
  BY WholeHead
<1>2. k2 <= MAX_COLUMNS /\ (k2 = 0 => types[4] = "values")
  BY WholeHead
<1>3. Counted(c, k2, 4) /\ n < c /\ Alternates(types, 4, c - 1, {"identifier"})
  BY <1>1, <1>2, ColumnsWithin, Zenon
<1>4. k < k2 /\ types[n + 1] = "identifier"
  BY <1>3, NextColumn, Zenon
<1>5. k < MAX_COLUMNS
  <2>1. k < k2 /\ k2 <= MAX_COLUMNS /\ MAX_COLUMNS \in Nat
    BY <1>2, <1>4, ColumnsLimited, Zenon
  <2> QED
    BY <2>1
<1> QED
  BY <1>4, <1>5, Zenon

LEMMA MoreInsertColumnsGo ==
    ASSUME NEW types, NEW n \in Nat, NEW k \in Nat, k # 0, Counted(n, k, 3), ColumnsRead(types, n),
           NEW m \in Nat, NEW k2 \in Nat, NEW h2 \in Nat, InsertWhole(types, m, k2, h2)
    PROVE  types[n + 1] = Comma \/ types[n + 1] = ")"
<1>1. PICK c \in Nat : HeadEnds(types, c, k2)
  BY WholeHead
<1>2. k2 = 0 => types[4] = "values"
  BY WholeHead
<1>3. Counted(c, k2, 4) /\ n < c /\ Alternates(types, 4, c - 1, {"identifier"}) /\ types[c] = ")"
  BY <1>1, <1>2, ColumnsWithin, Zenon
<1>4. k \in Nat \ {0}
  OBVIOUS
<1>5. (k = k2 /\ n + 1 = c) \/ (k < k2 /\ types[n + 1] = Comma)
  BY <1>3, <1>4, AfterColumn, Zenon
<1> QED
  BY <1>3, <1>5, Zenon

LEMMA ValuesGo ==
    ASSUME NEW types, NEW n \in Nat, NEW k \in Nat, k # 0, InsertHead(types, n, k),
           NEW m \in Nat, NEW k2 \in Nat, NEW h2 \in Nat, InsertWhole(types, m, k2, h2)
    PROVE  types[n + 1] = "values"
<1>1. PICK c \in Nat : HeadEnds(types, c, k2) /\ types[c + 1] = "values"
  BY WholeHead
<1>2. k2 = 0 => types[4] = "values"
  BY WholeHead
<1>3. HeadEnds(types, n, k)
  BY Zenon DEF InsertHead
<1>4. n = c
  BY <1>1, <1>2, <1>3, HeadOnce, Zenon
<1> QED
  BY <1>1, <1>4, Zenon

LEMMA OpenGoes ==
    ASSUME NEW types, NEW n \in Nat, NEW k \in Nat, InsertHead(types, n - 1, k), types[n] = "values",
           NEW m \in Nat, NEW k2 \in Nat, NEW h2 \in Nat, InsertWhole(types, m, k2, h2)
    PROVE  types[n + 1] = "("
<1>1. PICK c \in Nat : HeadEnds(types, c, k2) /\ types[c + 2] = "("
  BY WholeHead
<1>2. k2 = 0 => types[4] = "values"
  BY WholeHead
<1>3. PICK e : e = n - 1
  OBVIOUS
<1>4. HeadEnds(types, e, k)
  BY <1>3, Zenon DEF InsertHead
<1>5. (k = 0 => e = 3) /\ (k # 0 => e = 2 * k + 4)
  BY <1>4, Zenon DEF HeadEnds
<1>6. e \in Nat /\ (k = 0 => n = 4) /\ n + 1 = e + 2
  BY <1>3, <1>5
<1>7. k = 0 => types[4] = "values"
  BY <1>6, Zenon
<1>8. e = c
  BY <1>1, <1>2, <1>4, <1>6, <1>7, HeadOnce, Zenon
<1> QED
  BY <1>1, <1>6, <1>8, Zenon

LEMMA ValueGoes ==
    ASSUME NEW types, NEW n \in Nat, NEW k \in Nat, NEW h \in Nat, ValuesUpTo(types, n, k, 2 * h),
           NEW m \in Nat, n <= m, NEW k2 \in Nat, NEW h2 \in Nat, InsertWhole(types, m, k2, h2)
    PROVE  types[n + 1] \in Literals /\ h < MAX_COLUMNS /\ (k # 0 => h < k)
<1>1. PICK v \in Nat : ValuesBegin(types, v, k) /\ Alternates(types, v, n, Literals) /\ n = v + 2 * h
  BY ValuesBegun
<1>2. PICK v2 \in Nat : /\ ValuesBegin(types, v2, k2) /\ Alternates(types, v2, m - 1, Literals)
                        /\ m = v2 + 2 * h2 /\ types[m] = ")"
  BY InsertParts
<1>3. h2 # 0 /\ h2 <= MAX_COLUMNS /\ (k2 # 0 => h2 = k2)
  BY Zenon DEF InsertWhole
<1>4. v = v2 /\ k = k2
  BY <1>1, <1>2, ValuesBeginOnce, Zenon
<1>5. h2 \in Nat \ {0}
  BY <1>3
<1>6. Alternates(types, v, m - 1, Literals) /\ m = v + 2 * h2
  BY <1>2, <1>4, Zenon
<1>7. h < h2 /\ types[n + 1] \in Literals
  BY <1>1, <1>2, <1>5, <1>6, NextValue, Zenon
<1>8. h < MAX_COLUMNS /\ (k # 0 => h < k)
  <2>1. h < h2 /\ h2 <= MAX_COLUMNS /\ MAX_COLUMNS \in Nat /\ (k # 0 => h2 = k)
    BY <1>3, <1>4, <1>7, ColumnsLimited, Zenon
  <2> QED
    BY <2>1
<1> QED
  BY <1>7, <1>8, Zenon

LEMMA MoreValuesGo ==
    ASSUME NEW types, NEW n \in Nat, NEW k \in Nat, NEW h \in Nat, h # 0, ValuesUpTo(types, n, k, 2 * h - 1),
           NEW m \in Nat, n <= m, NEW k2 \in Nat, NEW h2 \in Nat, InsertWhole(types, m, k2, h2)
    PROVE  types[n + 1] = Comma \/ (types[n + 1] = ")" /\ (k # 0 => h = k))
<1>1. PICK v \in Nat : ValuesBegin(types, v, k) /\ n = v + (2 * h - 1)
  BY ValuesBegun
<1>2. PICK v2 \in Nat : /\ ValuesBegin(types, v2, k2) /\ Alternates(types, v2, m - 1, Literals)
                        /\ m = v2 + 2 * h2 /\ types[m] = ")"
  BY InsertParts
<1>3. h2 # 0 /\ (k2 # 0 => h2 = k2)
  BY Zenon DEF InsertWhole
<1>4. v = v2 /\ k = k2
  BY <1>1, <1>2, ValuesBeginOnce, Zenon
<1>5. h \in Nat \ {0} /\ h2 \in Nat \ {0}
  BY <1>3
<1>6. Alternates(types, v, m - 1, Literals) /\ m = v + 2 * h2
  BY <1>2, <1>4, Zenon
<1>7. n = v + 2 * h - 1
  BY <1>1
<1>8. (h = h2 /\ n + 1 = m) \/ (h < h2 /\ types[n + 1] = Comma)
  BY <1>5, <1>6, <1>7, AfterValue, Zenon
<1> QED
  BY <1>2, <1>3, <1>4, <1>8, Zenon

\* The grammar and the limits of the lists let the token t stand at a place.
Goes(place, t, k, h) ==
    /\ \E next : Moves(place, t, next)
    /\ place \in Names /\ place # "statement" => k < MAX_COLUMNS
    /\ place = "value" => h < MAX_COLUMNS /\ (k # 0 => h < k)
    /\ place = "more values" /\ t = ")" => (k # 0 => h = k)

\* A SELECT begins with its verb.
LEMMA SelectBegins ==
    ASSUME NEW types, NEW n, NEW k
    PROVE  /\ SelectColumns(types, n) => types[1] = "select"
           /\ SelectHead(types, n, k) => types[1] = "select"
           /\ \A j : SelectUpTo(types, n, k, j) => types[1] = "select"
           /\ SelectWhole(types, n, k) => types[1] = "select"
<1>1. SelectColumns(types, n) => types[1] = "select"
  BY Zenon DEF SelectColumns
<1>2. ASSUME NEW f, SelectHead(types, f, k) PROVE types[1] = "select"
  BY <1>2, Zenon DEF SelectHead, WhatEnds, SelectColumns
<1>3. ASSUME NEW j, SelectUpTo(types, n, k, j) PROVE types[1] = "select"
  BY <1>2, <1>3, Zenon DEF SelectUpTo
<1> QED
  BY <1>1, <1>2, <1>3, Zenon DEF SelectWhole

\* Numbers by their successors.
LEMMA Successors == 0 + 1 = 1 /\ 1 + 1 = 2 /\ 2 + 1 = 3 /\ 3 + 1 = 4
OBVIOUS

\* As long as an INSERT is not read whole, its next token may stand where it does.
LEMMA InsertGoesOn ==
    ASSUME NEW types, NEW place, NEW n \in Nat, NEW k \in Nat, NEW h \in Nat, Described(place, types, n, k, h),
           NEW m \in Nat, n <= m, NEW k2 \in Nat, NEW h2 \in Nat, InsertWhole(types, m, k2, h2),
           types[m + 1] = ";", NEW t, t = types[n + 1]
    PROVE  Goes(place, t, k, h)
<1>a. InsertBegins(types) /\ (types[4] = "(" \/ types[4] = "values")
  BY WholeHead, Zenon
<1>b. types[1] = "insert" /\ types[2] = "into" /\ types[3] = "identifier" /\ types[1] # "select"
  BY <1>a, Zenon DEF InsertBegins
<1>c. 0 + 1 = 1 /\ 1 + 1 = 2 /\ 2 + 1 = 3 /\ 3 + 1 = 4
  BY Successors
<1>1. CASE place = "statement"
  <2>1. n = 0
    BY <1>1, Zenon DEF Described
  <2>2. t = "insert"
    BY <1>b, <1>c, <2>1, Zenon
  <2> QED
    BY <1>1, <2>2, Zenon DEF Goes, Moves, Names
<1>2. CASE place = "into"
  <2>1. n = 1
    BY <1>2, Zenon DEF Described
  <2>2. t = "into"
    BY <1>b, <1>c, <2>1, Zenon
  <2> QED
    BY <1>2, <2>2, Zenon DEF Goes, Moves, Names
<1>3. CASE place = "insert table"
  <2>1. n = 2
    BY <1>3, Zenon DEF Described
  <2>2. t = "identifier"
    BY <1>b, <1>c, <2>1, Zenon
  <2> QED
    BY <1>3, <2>2, Zenon DEF Goes, Moves, Names
<1>4. CASE place = "columns?"
  <2>1. n = 3
    BY <1>4, Zenon DEF Described
  <2>2. t = "(" \/ t = "values"
    BY <1>a, <1>c, <2>1, Zenon
  <2> QED
    BY <1>4, <2>2, Zenon DEF Goes, Moves, Names
<1>5. CASE place = "insert column"
  <2>1. Counted(n, k, 4) /\ ColumnsRead(types, n)
    BY <1>5, Zenon DEF Described
  <2>2. t = "identifier" /\ k < MAX_COLUMNS
    BY <2>1, InsertColumnGoes, Zenon
  <2> QED
    BY <1>5, <2>2, Zenon DEF Goes, Moves
<1>6. CASE place = "more insert columns"
  <2>1. Counted(n, k, 3) /\ k # 0 /\ ColumnsRead(types, n)
    BY <1>6, Zenon DEF Described
  <2>2. t = Comma \/ t = ")"
    BY <2>1, MoreInsertColumnsGo, Zenon
  <2> QED
    BY <1>6, <2>2, Zenon DEF Goes, Moves, Names
<1>7. CASE place = "values"
  <2>1. k # 0 /\ InsertHead(types, n, k)
    BY <1>7, Zenon DEF Described
  <2>2. t = "values"
    BY <2>1, ValuesGo, Zenon
  <2> QED
    BY <1>7, <2>2, Zenon DEF Goes, Moves, Names
<1>8. CASE place = "("
  <2>1. InsertHead(types, n - 1, k) /\ types[n] = "values"
    BY <1>8, Zenon DEF Described
  <2>2. t = "("
    BY <2>1, OpenGoes, Zenon
  <2> QED
    BY <1>8, <2>2, Zenon DEF Goes, Moves, Names
<1>9. CASE place = "value"
  <2>1. ValuesUpTo(types, n, k, 2 * h)
    BY <1>9, Zenon DEF Described
  <2>2. t \in Literals /\ h < MAX_COLUMNS /\ (k # 0 => h < k)
    BY <2>1, ValueGoes, Zenon
  <2> QED
    BY <1>9, <2>2, Zenon DEF Goes, Moves, Names
<1>10. CASE place = "more values"
  <2>1. h # 0 /\ ValuesUpTo(types, n, k, 2 * h - 1)
    BY <1>10, Zenon DEF Described
  <2>a. types[n + 1] = Comma \/ (types[n + 1] = ")" /\ (k # 0 => h = k))
    BY <2>1, MoreValuesGo
  <2>2. t = Comma \/ (t = ")" /\ (k # 0 => h = k))
    BY <2>a, Zenon
  <2>3. Comma # ")"
    BY ListEndsDiffer
  <2> QED
    BY <1>10, <2>2, <2>3, Zenon DEF Goes, Moves, Names
<1>11. CASE place = ";"
  <2>1. InsertWhole(types, n, k, h) \/ SelectUpTo(types, n, k, 4)
    BY <1>11, Zenon DEF Described
  <2>2. InsertWhole(types, n, k, h)
    BY <1>b, <2>1, SelectBegins, Zenon
  <2>3. n = m
    BY <2>2, WholeInsertOnce, Zenon
  <2>4. t = ";"
    BY <2>3, Zenon
  <2> QED
    BY <1>11, <2>4, Zenon DEF Goes, Moves, Names
<1>12. CASE place \in {"what", "select column", "more select columns", "from", "select table",
                       "where?", "where column", "operator", "where value"}
  <2>1. types[1] = "select"
    BY <1>12, SelectBegins, Zenon DEF Described
  <2> QED
    BY <1>b, <2>1
<1> QED
  BY <1>1, <1>2, <1>3, <1>4, <1>5, <1>6, <1>7, <1>8, <1>9, <1>10, <1>11, <1>12, Zenon DEF Described

\* An INSERT begins with its verb.
LEMMA InsertVerb ==
    ASSUME NEW types, NEW place, NEW n, NEW k, NEW h, Described(place, types, n, k, h),
           place \in {"into", "insert table", "columns?", "insert column", "more insert columns",
                      "values", "(", "value", "more values"}
    PROVE  types[1] = "insert"
<1>1. ASSUME NEW c, InsertHead(types, c, k) PROVE types[1] = "insert"
  BY <1>1, Zenon DEF InsertHead, InsertBegins
<1>2. ASSUME NEW j, ValuesUpTo(types, n, k, j) PROVE types[1] = "insert"
  BY <1>1, <1>2, Zenon DEF ValuesUpTo
<1> QED
  BY <1>1, <1>2, Zenon DEF Described, InsertBegins

\* What a whole SELECT has after its verb, and before FROM.
LEMMA WholeWhat ==
    ASSUME NEW types, NEW m \in Nat, NEW k2 \in Nat, SelectWhole(types, m, k2)
    PROVE  \E f \in Nat :
             /\ SelectHead(types, f, k2) /\ types[f] = "from" /\ types[f + 1] = "identifier"
             /\ (k2 = 0 /\ f = 3 /\ types[2] = "*") \/ (k2 # 0 /\ types[2] = "identifier")
<1>1. PICK j : SelectUpTo(types, m, k2, j)
  BY Zenon DEF SelectWhole
<1>2. PICK f \in Nat : SelectHead(types, f, k2) /\ types[f + 1] = "identifier"
  BY <1>1, Zenon DEF SelectUpTo
<1>3. WhatEnds(types, f, k2) /\ types[f] = "from"
  BY <1>2, Zenon DEF SelectHead
<1>4. CASE k2 = 0
  <2>1. f = 3 /\ types[2] = "*"
    BY <1>3, <1>4, Zenon DEF WhatEnds
  <2> QED
    BY <1>2, <1>3, <1>4, <2>1
<1>5. CASE k2 # 0
  <2>1. f = 2 * k2 + 1 /\ SelectColumns(types, f - 1)
    BY <1>3, <1>5, Zenon DEF WhatEnds
  <2>2. Alternates(types, 1, f - 1, {"identifier"})
    BY <2>1, Zenon DEF SelectColumns
  <2>3. PICK n : n = f - 1
    OBVIOUS
  <2>4. PICK S : S = {"identifier"}
    OBVIOUS
  <2>5. n \in Nat /\ 1 + 2 * 0 + 1 <= n
    <3>1. f = 2 * k2 + 1
      BY <2>1
    <3> QED
      BY <1>5, <2>3, <3>1
  <2>6. Alternates(types, 1, n, S)
    BY <2>2, <2>3, <2>4, Zenon
  <2>7. \A i \in Nat : 1 + 2 * i + 1 <= n => types[1 + 2 * i + 1] \in S
    <3>1. 1 \in Nat
      OBVIOUS
    <3> QED
      BY <2>5, <2>6, <3>1, AlternatesAt
  <2>8. types[1 + 2 * 0 + 1] \in S
    <3>1. 0 \in Nat
      OBVIOUS
    <3> QED
      BY <2>5, <2>7, <3>1, Zenon
  <2>9. 1 + 2 * 0 + 1 = 2
    OBVIOUS
  <2>10. types[2] = "identifier"
    BY <2>4, <2>8, <2>9, Zenon
  <2> QED
    BY <1>2, <1>3, <1>5, <2>10
<1> QED
  BY <1>4, <1>5

\* The next token of a SELECT, at each place, from the whole one.
LEMMA SelectColumnGoes ==
    ASSUME NEW types, NEW n \in Nat, NEW k \in Nat, k # 0, Counted(n, k, 1), SelectColumns(types, n),
           NEW m \in Nat, NEW k2 \in Nat, SelectWhole(types, m, k2)
    PROVE  types[n + 1] = "identifier" /\ k < MAX_COLUMNS
<1>1. PICK f \in Nat : SelectHead(types, f, k2)
  BY WholeWhat
<1>2. n > 1
  BY DEF Counted
<1>3. /\ Counted(f, k2, 1) /\ n < f /\ k2 <= MAX_COLUMNS /\ Alternates(types, 1, f - 1, {"identifier"})
  BY <1>1, <1>2, SelectWithin, Zenon
<1>4. k < k2 /\ types[n + 1] = "identifier"
  BY <1>3, NextSelectColumn, Zenon
<1>5. k < MAX_COLUMNS
  <2>1. k < k2 /\ k2 <= MAX_COLUMNS /\ MAX_COLUMNS \in Nat
    BY <1>3, <1>4, ColumnsLimited, Zenon
  <2> QED
    BY <2>1
<1> QED
  BY <1>4, <1>5, Zenon

LEMMA MoreSelectColumnsGo ==
    ASSUME NEW types, NEW n \in Nat, NEW k \in Nat, k # 0, Counted(n, k, 0), SelectColumns(types, n),
           NEW m \in Nat, NEW k2 \in Nat, SelectWhole(types, m, k2)
    PROVE  types[n + 1] = Comma \/ types[n + 1] = "from"
<1>1. PICK f \in Nat : SelectHead(types, f, k2)
  BY WholeWhat
<1>2. n > 1 /\ k \in Nat \ {0}
  BY DEF Counted
<1>3. /\ Counted(f, k2, 1) /\ n < f /\ types[f] = "from" /\ Alternates(types, 1, f - 1, {"identifier"})
  BY <1>1, <1>2, SelectWithin, Zenon
<1>4. (k = k2 /\ n + 1 = f) \/ (k < k2 /\ types[n + 1] = Comma)
  BY <1>2, <1>3, AfterSelectColumn, Zenon
<1> QED
  BY <1>3, <1>4, Zenon

LEMMA SelectTableGoes ==
    ASSUME NEW types, NEW n \in Nat, NEW k \in Nat, SelectHead(types, n, k),
           NEW m \in Nat, NEW k2 \in Nat, SelectWhole(types, m, k2)
    PROVE  types[n + 1] = "identifier"
<1>1. PICK f \in Nat : SelectHead(types, f, k2) /\ types[f + 1] = "identifier"
  BY WholeWhat
<1>2. n = f
  BY <1>1, FromOnce, Zenon
<1> QED
  BY <1>1, <1>2, Zenon

\* The condition and its end.
LEMMA ConditionGoes ==
    ASSUME NEW types, NEW n \in Nat, NEW k \in Nat, NEW j \in 0 .. 4, SelectUpTo(types, n, k, j),
           NEW m \in Nat, n <= m, NEW k2 \in Nat, SelectWhole(types, m, k2)
    PROVE  /\ j = 0 => m = n \/ types[n + 1] = "where"
           /\ j = 1 => types[n + 1] = "identifier"
           /\ j = 2 => types[n + 1] \in Operators \cup {"!="}
           /\ j = 3 => types[n + 1] \in Literals
           /\ j = 4 => m = n
<1>1. /\ j # 0 => m = n + 4 - j
      /\ j = 0 => m = n \/ m = n + 4
      /\ m > n => \E f \in Nat : n = f + 1 + j /\ ConditionRead(types, f, 4)
  BY SelectOnce
<1>2. CASE m = n
  <2>1. j = 0 \/ j = 4
    BY <1>1, <1>2
  <2>2. j = 0 \/ ~(j = 0 \/ j = 1 \/ j = 2 \/ j = 3)
    BY <2>1
  <2> QED
    BY <1>2, <2>2
<1>3. CASE m > n
  <2>1. PICK f \in Nat : n = f + 1 + j /\ ConditionRead(types, f, 4)
    BY <1>1, <1>3
  <2>2. j # 4
    BY <1>1, <1>3
  <2>3. /\ types[f + 2] = "where" /\ types[f + 3] = "identifier"
        /\ types[f + 4] \in Operators \cup {"!="} /\ types[f + 5] \in Literals
    BY <2>1, ConditionWhole, Zenon
  <2>4. /\ j = 0 => n + 1 = f + 2
        /\ j = 1 => n + 1 = f + 3
        /\ j = 2 => n + 1 = f + 4
        /\ j = 3 => n + 1 = f + 5
    BY <2>1
  <2> QED
    BY <2>2, <2>3, <2>4
<1> QED
  BY <1>2, <1>3

LEMMA EvenCounted == \A n, k \in Nat : n = 2 * k => Counted(n, k, 0)
BY DEF Counted

\* The same, number by number.
LEMMA EachConditionGoes ==
    ASSUME NEW types, NEW n \in Nat, NEW k \in Nat,
           NEW m \in Nat, n <= m, NEW k2 \in Nat, SelectWhole(types, m, k2)
    PROVE  /\ SelectUpTo(types, n, k, 0) => m = n \/ types[n + 1] = "where"
           /\ SelectUpTo(types, n, k, 1) => types[n + 1] = "identifier"
           /\ SelectUpTo(types, n, k, 2) => types[n + 1] \in Operators \cup {"!="}
           /\ SelectUpTo(types, n, k, 3) => types[n + 1] \in Literals
           /\ SelectUpTo(types, n, k, 4) => m = n
<1>1. 0 \in 0 .. 4 /\ 1 \in 0 .. 4 /\ 2 \in 0 .. 4 /\ 3 \in 0 .. 4 /\ 4 \in 0 .. 4
  OBVIOUS
<1>2. ASSUME NEW j \in 0 .. 4, SelectUpTo(types, n, k, j)
      PROVE  /\ j = 0 => m = n \/ types[n + 1] = "where"
             /\ j = 1 => types[n + 1] = "identifier"
             /\ j = 2 => types[n + 1] \in Operators \cup {"!="}
             /\ j = 3 => types[n + 1] \in Literals
             /\ j = 4 => m = n
  BY <1>2, ConditionGoes
<1> QED
  BY <1>1, <1>2

\* As long as a SELECT is not read whole, its next token may stand where it does.
LEMMA SelectGoesOn ==
    ASSUME NEW types, NEW place, NEW n \in Nat, NEW k \in Nat, NEW h \in Nat, Described(place, types, n, k, h),
           NEW m \in Nat, n <= m, NEW k2 \in Nat, SelectWhole(types, m, k2),
           types[m + 1] = ";", NEW t, t = types[n + 1]
    PROVE  Goes(place, t, k, h)
<1>a. types[1] = "select" /\ types[1] # "insert"
  BY SelectBegins, Zenon
<1>b. PICK f \in Nat :
        /\ SelectHead(types, f, k2) /\ types[f] = "from" /\ types[f + 1] = "identifier"
        /\ (k2 = 0 /\ f = 3 /\ types[2] = "*") \/ (k2 # 0 /\ types[2] = "identifier")
  BY WholeWhat
<1>c. 0 + 1 = 1 /\ 1 + 1 = 2 /\ 2 + 1 = 3
  BY Successors
<1>1. CASE place = "statement"
  <2>1. n = 0
    BY <1>1, Zenon DEF Described
  <2>2. t = "select"
    BY <1>a, <1>c, <2>1, Zenon
  <2> QED
    BY <1>1, <2>2, Zenon DEF Goes, Moves, Names
<1>2. CASE place = "what"
  <2>1. n = 1 /\ k = 0
    BY <1>2, Zenon DEF Described
  <2>2. t = "*" \/ t = "identifier"
    BY <1>b, <1>c, <2>1, Zenon
  <2>3. k < MAX_COLUMNS
    BY <2>1, ColumnsLimited
  <2> QED
    BY <1>2, <2>2, <2>3, Zenon DEF Goes, Moves
<1>3. CASE place = "select column"
  <2>1. n = 2 * k + 1 /\ k # 0 /\ SelectColumns(types, n)
    BY <1>3, Zenon DEF Described
  <2>2. t = "identifier" /\ k < MAX_COLUMNS
    BY <2>1, SelectColumnGoes, Zenon DEF Counted
  <2> QED
    BY <1>3, <2>2, Zenon DEF Goes, Moves
<1>4. CASE place = "more select columns"
  <2>1. n = 2 * k /\ k # 0 /\ SelectColumns(types, n)
    BY <1>4, Zenon DEF Described
  <2>a. Counted(n, k, 0)
    BY <2>1, EvenCounted, Zenon
  <2>2. t = Comma \/ t = "from"
    BY <2>1, <2>a, MoreSelectColumnsGo, Zenon
  <2> QED
    BY <1>4, <2>2, Zenon DEF Goes, Moves, Names
<1>5. CASE place = "from"
  <2>1. n = 2 /\ types[2] = "*"
    BY <1>5, Zenon DEF Described
  <2>2. "*" # "identifier"
    BY Zenon
  <2>3. f = 3
    BY <1>b, <2>1, <2>2, Zenon
  <2>4. t = "from"
    BY <1>b, <1>c, <2>1, <2>3, Zenon
  <2> QED
    BY <1>5, <2>4, Zenon DEF Goes, Moves, Names
<1>6. CASE place = "select table"
  <2>1. SelectHead(types, n, k)
    BY <1>6, Zenon DEF Described
  <2>2. t = "identifier"
    BY <2>1, SelectTableGoes, Zenon
  <2> QED
    BY <1>6, <2>2, Zenon DEF Goes, Moves, Names
<1>7. CASE place = "where?"
  <2>1. SelectUpTo(types, n, k, 0)
    BY <1>7, Zenon DEF Described
  <2>2. m = n \/ t = "where"
    BY <2>1, EachConditionGoes, Zenon
  <2>3. t = ";" \/ t = "where"
    BY <2>2, Zenon
  <2> QED
    BY <1>7, <2>3, Zenon DEF Goes, Moves, Names
<1>8. CASE place = "where column"
  <2>1. SelectUpTo(types, n, k, 1)
    BY <1>8, Zenon DEF Described
  <2>2. t = "identifier"
    BY <2>1, EachConditionGoes, Zenon
  <2> QED
    BY <1>8, <2>2, Zenon DEF Goes, Moves, Names
<1>9. CASE place = "operator"
  <2>1. SelectUpTo(types, n, k, 2)
    BY <1>9, Zenon DEF Described
  <2>2. t \in Operators \cup {"!="}
    BY <2>1, EachConditionGoes, Zenon
  <2> QED
    BY <1>9, <2>2, Zenon DEF Goes, Moves, Names
<1>10. CASE place = "where value"
  <2>1. SelectUpTo(types, n, k, 3)
    BY <1>10, Zenon DEF Described
  <2>2. t \in Literals
    BY <2>1, EachConditionGoes, Zenon
  <2> QED
    BY <1>10, <2>2, Zenon DEF Goes, Moves, Names
<1>11. CASE place = ";"
  <2>1. InsertWhole(types, n, k, h) \/ SelectUpTo(types, n, k, 4)
    BY <1>11, Zenon DEF Described
  <2>2. InsertWhole(types, n, k, h) => types[1] = "insert"
    BY WholeHead, Zenon DEF InsertBegins
  <2>3. SelectUpTo(types, n, k, 4)
    BY <1>a, <2>1, <2>2, Zenon
  <2>4. m = n
    BY <2>3, EachConditionGoes, Zenon
  <2>5. t = ";"
    BY <2>4, Zenon
  <2> QED
    BY <1>11, <2>5, Zenon DEF Goes, Moves, Names
<1>12. CASE place \in {"into", "insert table", "columns?", "insert column", "more insert columns",
                       "values", "(", "value", "more values"}
  <2>1. types[1] = "insert"
    BY <1>12, InsertVerb, Zenon
  <2> QED
    BY <1>a, <2>1, Zenon
<1> QED
  BY <1>1, <1>2, <1>3, <1>4, <1>5, <1>6, <1>7, <1>8, <1>9, <1>10, <1>11, <1>12, Zenon DEF Described

\* Where a statement may end, one is read whole.
LEMMA Finished ==
    ASSUME NEW types, NEW place, NEW n, NEW k, NEW h, Described(place, types, n, k, h), place \in {";", "where?"}
    PROVE  InsertWhole(types, n, k, h) \/ SelectWhole(types, n, k)
BY Zenon DEF Described, SelectWhole

\* The statement that is being read begins at b.
OpenAt(b) ==
    /\ b \in 1 .. position
    /\ b = 1 \/ tokens[b - 1].type = ";"
    /\ \A i \in b .. position - 1 : tokens[i].type # ";"

\* The semicolons that are taken.
SemicolonsBefore == {i \in Semicolons : i < position}

\* A statement of the language, without its semicolon.
IsStatement(s) == IsInsert(s) \/ IsSelect(s)

\* Types by its places.
LEMMA TypesAre ==
    ASSUME tokens \in Seq(Tokens), NEW b \in 1 .. Len(tokens), NEW e \in b - 1 .. Len(tokens)
    PROVE  /\ Types(b, e) \in Seq(TokenTypes) /\ Len(Types(b, e)) = e - b + 1 /\ e - b + 1 \in Nat
           /\ \A i \in 1 .. e - b + 1 : Types(b, e)[i] = tokens[b + i - 1].type
<1>1. Len(tokens) \in Nat /\ DOMAIN tokens = 1 .. Len(tokens)
  BY LenProperties
<1>2. PICK n : n = e - b + 1
  OBVIOUS
<1>3. n \in Nat /\ \A i \in 1 .. n : b + i - 1 \in 1 .. Len(tokens)
  BY <1>1, <1>2
<1>4. \A i \in 1 .. n : tokens[b + i - 1] \in Tokens
  BY <1>1, <1>3, ElementOfSeq
<1>5. \A i \in 1 .. n : tokens[b + i - 1].type \in TokenTypes
  BY <1>4 DEF Tokens
<1>6. Types(b, e) = [i \in 1 .. n |-> tokens[b + i - 1].type]
  BY <1>2 DEF Types
<1>7. PICK s : s = [i \in 1 .. n |-> tokens[b + i - 1].type]
  OBVIOUS
<1>8. s \in [1 .. n -> TokenTypes]
  BY <1>5, <1>7
<1>9. s \in Seq(TokenTypes) /\ Len(s) = n
  <2>1. s \in Seq(TokenTypes)
    BY <1>3, <1>8, SeqDef
  <2> QED
    BY <1>3, <1>7, <2>1, LenProperties
<1> QED
  BY <1>2, <1>3, <1>6, <1>7, <1>9

\* Types up to two places are the same up to the first.
LEMMA TypesAgree ==
    ASSUME tokens \in Seq(Tokens), NEW b \in 1 .. Len(tokens), NEW e \in b - 1 .. Len(tokens)
    PROVE  /\ Agree(Types(b, Len(tokens)), Types(b, e), e - b + 1)
           /\ Agree(Types(b, e), Types(b, Len(tokens)), e - b + 1)
<1>1. Len(tokens) \in Nat
  BY LenProperties
<1>2. PICK n : n = Len(tokens)
  OBVIOUS
<1>3. n \in b - 1 .. Len(tokens)
  BY <1>1, <1>2
<1>4. \A i \in 1 .. n - b + 1 : Types(b, n)[i] = tokens[b + i - 1].type
  BY <1>3, TypesAre
<1>5. \A i \in 1 .. e - b + 1 : Types(b, e)[i] = tokens[b + i - 1].type
  BY TypesAre
<1>6. \A i \in 1 .. e - b + 1 : i \in 1 .. n - b + 1
  BY <1>1, <1>2
<1>7. \A i \in 1 .. e - b + 1 : Types(b, n)[i] = Types(b, e)[i]
  BY <1>4, <1>5, <1>6, Zenon
<1> QED
  BY <1>2, <1>7, Zenon DEF Agree

\* Where the statement before a semicolon begins.
LEMMA BeginIs ==
    ASSUME tokens \in Seq(Tokens), NEW e \in Semicolons, NEW b \in 1 .. e,
           b = 1 \/ b - 1 \in Semicolons, \A i \in b .. e - 1 : i \notin Semicolons
    PROVE  Begin(e) = b
<1>1. Len(tokens) \in Nat /\ DOMAIN tokens = 1 .. Len(tokens)
  BY LenProperties
<1>2. Semicolons \subseteq 1 .. Len(tokens)
  BY <1>1 DEF Semicolons
<1>3. e \in Nat /\ \A i \in Semicolons : i \in Nat /\ i >= 1
  BY <1>1, <1>2
<1>4. ASSUME NEW i \in Semicolons, i < e PROVE i <= b - 1
  BY <1>3, <1>4
<1>5. CASE b = 1
  <2>1. ~\E i \in Semicolons : i < e
    BY <1>3, <1>4, <1>5
  <2> QED
    BY <1>5, <2>1 DEF Begin
<1>6. CASE b - 1 \in Semicolons
  <2>1. PICK p : p = b - 1
    OBVIOUS
  <2>2. p \in Semicolons /\ p < e /\ \A j \in Semicolons : j < e => j <= p
    BY <1>3, <1>4, <1>6, <2>1
  <2>3. \A i \in Semicolons : i < e /\ (\A j \in Semicolons : j < e => j <= i) => i = p
    BY <1>3, <2>2
  <2>4. (CHOOSE i \in Semicolons : i < e /\ \A j \in Semicolons : j < e => j <= i) = p
    BY <2>2, <2>3
  <2>5. Begin(e) = p + 1
    BY <2>2, <2>4 DEF Begin
  <2> QED
    BY <2>1, <2>5
<1> QED
  BY <1>5, <1>6

\* What is open becomes the statement before the next semicolon.
LEMMA OpenBegins ==
    ASSUME tokens \in Seq(Tokens), position \in 1 .. Len(tokens), NEW b, OpenAt(b),
           NEW e \in Semicolons, e >= position, \A i \in position .. e - 1 : i \notin Semicolons
    PROVE  Begin(e) = b
<1>1. Len(tokens) \in Nat /\ DOMAIN tokens = 1 .. Len(tokens)
  BY LenProperties
<1>2. e \in 1 .. Len(tokens)
  BY <1>1 DEF Semicolons
<1>3. \A i \in b .. position - 1 : tokens[i].type # ";"
  BY Zenon DEF OpenAt
<1>4. b \in 1 .. e
  <2>1. b \in 1 .. position
    BY Zenon DEF OpenAt
  <2> QED
    BY <1>1, <1>2, <2>1
<1>5. b = 1 \/ b - 1 \in Semicolons
  <2>1. b = 1 \/ tokens[b - 1].type = ";"
    BY Zenon DEF OpenAt
  <2>2. b # 1 => b - 1 \in DOMAIN tokens
    BY <1>1, <1>2, <1>4
  <2> QED
    BY <2>1, <2>2, Zenon DEF Semicolons
<1>6. ASSUME NEW i \in b .. e - 1 PROVE i \notin Semicolons
  <2>1. i \in b .. position - 1 \/ i \in position .. e - 1
    BY <1>1, <1>2, <1>4, <1>6
  <2>2. i \in b .. position - 1 => i \notin Semicolons
    BY <1>3, Zenon DEF Semicolons
  <2> QED
    BY <2>1, <2>2
<1> QED
  BY <1>4, <1>5, <1>6, BeginIs

LEMMA BeforeEnd ==
    ASSUME NEW n \in Nat, NEW b \in 1 .. n, NEW e \in b .. n
    PROVE  e - b \in Nat /\ e - 1 - b + 1 = e - b /\ e - 1 \in b - 1 .. n
OBVIOUS

\* A statement that is read up to its semicolon is one of the language.
LEMMA StatementSound ==
    ASSUME tokens \in Seq(Tokens), NEW b \in 1 .. Len(tokens), NEW e \in b .. Len(tokens),
           NEW k \in Nat, NEW h \in Nat, NEW place \in {";", "where?"},
           Described(place, Types(b, Len(tokens)), e - b, k, h)
    PROVE  IsStatement(Types(b, e - 1))
<1>1. Len(tokens) \in Nat
  BY LenProperties
<1>2. PICK r : r = Types(b, Len(tokens))
  OBVIOUS
<1>3. PICK s : s = Types(b, e - 1)
  OBVIOUS
<1>4. PICK m : m = e - b
  OBVIOUS
<1>5. m \in Nat /\ e - 1 - b + 1 = m /\ e - 1 \in b - 1 .. Len(tokens)
  BY <1>1, <1>4, BeforeEnd, Zenon
<1>6. s \in Seq(TokenTypes) /\ Len(s) = m
  BY <1>3, <1>5, TypesAre
<1>7. Agree(s, r, m)
  BY <1>2, <1>3, <1>5, TypesAgree
<1>8. InsertWhole(r, m, k, h) \/ SelectWhole(r, m, k)
  <2>1. Described(place, r, m, k, h)
    BY <1>2, <1>4, Zenon
  <2> QED
    BY <2>1, Finished, Zenon
<1>9. InsertWhole(s, m, k, h) \/ SelectWhole(s, m, k)
  BY <1>5, <1>7, <1>8, WholesAgree, Zenon
<1>10. IsInsert(s) \/ IsSelect(s)
  BY <1>6, <1>9, InsertForm, SelectForm, Zenon
<1> QED
  BY <1>3, <1>10, Zenon DEF IsStatement

\* What goes on by the grammar is legal, within the limits of names and programs.
LEMMA GoesLegally ==
    ASSUME statement \in Statements,
           Goes(expecting, token.type, Len(statement.columns), Len(statement.values)),
           expecting = "statement" => Len(program) < MAX_STATEMENTS,
           token.type = "identifier" => Len(token.text) < MAX_NAME_LEN
    PROVE  Legal
<1>1. statement.columns \in Seq(Words)
  BY DEF Statements
<1>2. Len(statement.columns) = 0 <=> statement.columns = <<>>
  BY <1>1, EmptySeq
<1>3. Applicable # {}
  <2>1. PICK next : Moves(expecting, token.type, next)
    BY Zenon DEF Goes
  <2>2. <<expecting, token.type, next>> \in Grammar
    BY <2>1, MovesAre, Zenon
  <2>3. next \in {rule[3] : rule \in Grammar}
    <3>1. PICK rule : rule = <<expecting, token.type, next>>
      OBVIOUS
    <3>2. rule \in Grammar /\ rule[3] = next
      BY <2>2, <3>1
    <3> QED
      BY <3>2, Zenon
  <2>4. next \in Applicable
    BY <2>2, <2>3, Zenon DEF Applicable
  <2> QED
    BY <2>4, Zenon
<1>4. expecting \in Names => RoomForColumn(statement)
  <2>1. "statement" \notin Names
    BY Zenon DEF Names
  <2> QED
    BY <2>1, Zenon DEF Goes, RoomForColumn
<1>5. expecting = "value" => RoomForValue(statement)
  BY <1>2, Zenon DEF Goes, RoomForValue
<1>6. expecting = "more values" /\ token.type = ")" => CountsAgree(statement)
  BY <1>2, Zenon DEF Goes, CountsAgree
<1> QED
  BY <1>3, <1>4, <1>5, <1>6, Zenon DEF Legal

LEMMA PlacesBetween ==
    ASSUME NEW n \in Nat, NEW b \in 1 .. n, NEW e \in b .. n
    PROVE  /\ e \in b .. e /\ n \in b - 1 .. n
           /\ \A i \in b .. e : /\ i - b \in Nat /\ i - b <= e - b
                              /\ i - b + 1 \in 1 .. n - b + 1 /\ b + (i - b + 1) - 1 = i
OBVIOUS

LEMMA TypeAt ==
    ASSUME tokens \in Seq(Tokens), NEW b \in 1 .. Len(tokens), NEW e \in b .. Len(tokens)
    PROVE  \A j \in b .. e : Types(b, Len(tokens))[j - b + 1] = tokens[j].type
<1>1. PICK last : last = Len(tokens)
  OBVIOUS
<1>2. last \in Nat
  BY <1>1, LenProperties
<1>3. last \in b - 1 .. Len(tokens) /\ \A j \in b .. e : j - b + 1 \in 1 .. last - b + 1 /\ b + (j - b + 1) - 1 = j
  BY <1>1, <1>2
<1>4. \A j \in 1 .. last - b + 1 : Types(b, last)[j] = tokens[b + j - 1].type
  BY <1>3, TypesAre
<1> QED
  BY <1>1, <1>3, <1>4

\* Within a statement of the language, what is read of it goes on.
LEMMA StatementGoesOn ==
    ASSUME tokens \in Seq(Tokens), NEW b \in 1 .. Len(tokens), NEW e \in b .. Len(tokens),
           NEW i \in b .. e, IsStatement(Types(b, e - 1)), tokens[e].type = ";",
           NEW k \in Nat, NEW h \in Nat, NEW place,
           Described(place, Types(b, Len(tokens)), i - b, k, h)
    PROVE  Goes(place, tokens[i].type, k, h)
<1>1. Len(tokens) \in Nat
  BY LenProperties
<1>2. PICK r : r = Types(b, Len(tokens))
  OBVIOUS
<1>3. PICK s : s = Types(b, e - 1)
  OBVIOUS
<1>4. PICK m : m = e - b
  OBVIOUS
<1>5. PICK n : n = i - b
  OBVIOUS
<1>6. PICK last : last = Len(tokens)
  OBVIOUS
<1>7. m \in Nat /\ e - 1 - b + 1 = m /\ e - 1 \in b - 1 .. Len(tokens)
  BY <1>1, <1>4, BeforeEnd, Zenon
<1>8. n \in Nat /\ n <= m
  BY <1>4, <1>5, <1>1, PlacesBetween, Zenon
<1>9. s \in Seq(TokenTypes) /\ Len(s) = m
  BY <1>3, <1>7, TypesAre
<1>10. Agree(r, s, m)
  BY <1>2, <1>3, <1>7, TypesAgree
<1>11. r[n + 1] = tokens[i].type /\ r[m + 1] = tokens[e].type
  <2>3. \A j \in b .. e : r[j - b + 1] = tokens[j].type
    BY <1>2, TypeAt, Zenon
  <2>4. e \in b .. e
    BY <1>1, PlacesBetween, Zenon
  <2> QED
    BY <1>4, <1>5, <2>3, <2>4, Zenon
<1>12. Described(place, r, n, k, h)
  BY <1>2, <1>5, Zenon
<1>13. CASE IsInsert(s)
  <2>1. PICK k2 \in Nat, h2 \in Nat : InsertWhole(s, m, k2, h2)
    BY <1>9, <1>13, InsertForm, Zenon
  <2>2. InsertWhole(r, m, k2, h2)
    BY <1>7, <1>10, <2>1, WholesAgree, Zenon
  <2> QED
    BY <1>7, <1>8, <1>11, <1>12, <2>2, InsertGoesOn, Zenon
<1>14. CASE IsSelect(s)
  <2>1. PICK k2 \in Nat : SelectWhole(s, m, k2)
    BY <1>9, <1>14, SelectForm, Zenon
  <2>2. SelectWhole(r, m, k2)
    BY <1>7, <1>10, <2>1, WholesAgree, Zenon
  <2> QED
    BY <1>7, <1>8, <1>11, <1>12, <2>2, SelectGoesOn, Zenon
<1> QED
  BY <1>3, <1>13, <1>14, Zenon DEF IsStatement

\* What is read of the statement is what its place says.
ReadFrom(b) ==
    Described(expecting, Types(b, Len(tokens)), position - b, Len(statement.columns), Len(statement.values))
\* What is read of the statement that is open is what its place says.
ReadSoFar == \E b : OpenAt(b) /\ ReadFrom(b)

\* The statements before it are of the language.
StatementsRead ==
    /\ Len(program) = Cardinality(SemicolonsBefore)
    /\ \A end \in SemicolonsBefore : IsStatement(Types(Begin(end), end - 1))
    /\ \A i \in 1 .. position - 1 : tokens[i].type = "identifier" => Len(tokens[i].text) < MAX_NAME_LEN

\* Where parse_program stops with success: at the end of the text, behind a semicolon.
AtEnd == expecting = "statement" /\ token.type = "eof" /\ program # <<>>

\* No tokens are no list, no head and no statement.
LEMMA NoneCounted ==
    \A k \in Nat : /\ 0 # 2 * k + 1 /\ (k # 0 => 0 # 2 * k)
                   /\ ~Counted(0, k, 4) /\ ~Counted(0, k, 3)
                   /\ 0 # 1 /\ 0 # 2 /\ 0 # 3
BY DEF Counted

LEMMA HeadSome ==
    ASSUME NEW types, NEW k \in Nat, NEW c, InsertHead(types, c, k)
    PROVE  c \in Nat /\ c >= 3
<1>1. HeadEnds(types, c, k)
  BY Zenon DEF InsertHead
<1>2. (k = 0 => c = 3) /\ (k # 0 => c = 2 * k + 4)
  BY <1>1, Zenon DEF HeadEnds
<1> QED
  BY <1>2

LEMMA ValuesSome ==
    ASSUME NEW types, NEW k \in Nat, NEW n, NEW j \in Nat, ValuesUpTo(types, n, k, j)
    PROVE  n # 0
<1>1. PICK v \in Nat : InsertHead(types, v - 2, k) /\ n = v + j
  BY Zenon DEF ValuesUpTo
<1>2. v - 2 >= 3
  BY <1>1, HeadSome
<1> QED
  BY <1>1, <1>2

LEMMA SelectSome ==
    ASSUME NEW types, NEW k \in Nat, NEW n
    PROVE  /\ SelectHead(types, n, k) => n # 0
           /\ \A j \in Nat : SelectUpTo(types, n, k, j) => n # 0
<1>1. ASSUME NEW f, SelectHead(types, f, k) PROVE f # 0
  <2>1. (k = 0 => f = 3) /\ (k # 0 => f = 2 * k + 1)
    BY <1>1, Zenon DEF SelectHead, WhatEnds
  <2> QED
    BY <2>1
<1>2. ASSUME NEW j \in Nat, SelectUpTo(types, n, k, j) PROVE n # 0
  <2>1. PICK f \in Nat : n = f + 1 + j
    BY <1>2, Zenon DEF SelectUpTo
  <2> QED
    BY <2>1
<1> QED
  BY <1>1, <1>2

LEMMA WholeSome ==
    ASSUME NEW types, NEW k \in Nat, NEW h \in Nat, NEW n, InsertWhole(types, n, k, h)
    PROVE  n # 0
<1>1. PICK v \in Nat : InsertHead(types, v - 2, k) /\ n = v + 2 * h
  BY Zenon DEF InsertWhole
<1>2. v - 2 >= 3
  BY <1>1, HeadSome
<1> QED
  BY <1>1, <1>2

LEMMA Below ==
    /\ ~(0 >= 3) /\ ~(0 - 1 >= 3) /\ 0 \in Nat /\ 1 \in Nat /\ 2 \in Nat /\ 3 \in Nat /\ 4 \in Nat
    /\ \A h \in Nat : 2 * h \in Nat /\ (h # 0 => 2 * h - 1 \in Nat)
OBVIOUS

\* Only at the beginning of a statement nothing is read of it.
LEMMA NothingRead ==
    ASSUME NEW types, NEW place, NEW k \in Nat, NEW h \in Nat, NEW n, n = 0, Described(place, types, n, k, h)
    PROVE  place = "statement"
<1>1. /\ n # 1 /\ n # 2 /\ n # 3 /\ n # 2 * k + 1 /\ (k # 0 => n # 2 * k)
      /\ ~Counted(n, k, 4) /\ ~Counted(n, k, 3)
  BY NoneCounted, Zenon
<1>2. ~InsertHead(types, n, k) /\ ~InsertHead(types, n - 1, k)
  <2>1. \A c : InsertHead(types, c, k) => c \in Nat /\ c >= 3
    BY HeadSome
  <2>2. ~(n >= 3) /\ ~(n - 1 >= 3)
    BY Below
  <2> QED
    BY <2>1, <2>2, Zenon
<1>3. ~ValuesUpTo(types, n, k, 2 * h) /\ (h # 0 => ~ValuesUpTo(types, n, k, 2 * h - 1))
  <2>1. 2 * h \in Nat /\ (h # 0 => 2 * h - 1 \in Nat)
    BY Below
  <2>2. \A j \in Nat : ~ValuesUpTo(types, n, k, j)
    BY ValuesSome
  <2> QED
    BY <2>1, <2>2, Zenon
<1>4. ~SelectHead(types, n, k) /\ \A j \in {0, 1, 2, 3, 4} : ~SelectUpTo(types, n, k, j)
  <2>1. 0 \in Nat /\ 1 \in Nat /\ 2 \in Nat /\ 3 \in Nat /\ 4 \in Nat
    BY Below
  <2>2. ~SelectHead(types, n, k) /\ \A j \in Nat : ~SelectUpTo(types, n, k, j)
    BY SelectSome
  <2> QED
    BY <2>1, <2>2, Zenon
<1>5. ~InsertWhole(types, n, k, h)
  BY WholeSome
<1> QED
  BY <1>1, <1>2, <1>3, <1>4, <1>5, Zenon DEF Described

\* No token but the last of a whole text is the end of it.
OnlyLastEof == \A i \in DOMAIN tokens : tokens[i].type = "eof" => tokenizing = "done" /\ i = Len(tokens)

\* There are finitely many semicolons, and taken ones are some of them.
LEMMA SemicolonsFinite ==
    ASSUME tokens \in Seq(Tokens)
    PROVE  /\ Semicolons \subseteq 1 .. Len(tokens) /\ Len(tokens) \in Nat /\ DOMAIN tokens = 1 .. Len(tokens)
           /\ IsFiniteSet(Semicolons) /\ Cardinality(Semicolons) \in Nat
           /\ SemicolonsBefore \subseteq Semicolons /\ IsFiniteSet(SemicolonsBefore) /\ Cardinality(SemicolonsBefore) \in Nat
           /\ (Semicolons = {} <=> Cardinality(Semicolons) = 0)
<1>1. Len(tokens) \in Nat /\ DOMAIN tokens = 1 .. Len(tokens)
  BY LenProperties
<1>2. Semicolons \subseteq 1 .. Len(tokens)
  BY <1>1, Zenon DEF Semicolons
<1>3. IsFiniteSet(1 .. Len(tokens))
  BY <1>1, FS_Interval
<1>4. IsFiniteSet(Semicolons)
  BY <1>2, <1>3, FS_Subset
<1>5. SemicolonsBefore \subseteq Semicolons
  BY Zenon DEF SemicolonsBefore
<1>6. IsFiniteSet(SemicolonsBefore)
  BY <1>4, <1>5, FS_Subset
<1>7. Cardinality(Semicolons) \in Nat /\ Cardinality(SemicolonsBefore) \in Nat
  BY <1>4, <1>6, FS_CardinalityType
<1>8. Semicolons = {} <=> Cardinality(Semicolons) = 0
  BY <1>4, FS_EmptySet
<1> QED
  BY <1>1, <1>2, <1>4, <1>5, <1>6, <1>7, <1>8

\* While a semicolon is to come, not all are taken.
LEMMA MoreToPass ==
    ASSUME tokens \in Seq(Tokens), position \in Nat, NEW e \in Semicolons, e >= position
    PROVE  Cardinality(SemicolonsBefore) < Cardinality(Semicolons)
<1>1. /\ SemicolonsBefore \subseteq Semicolons /\ IsFiniteSet(SemicolonsBefore) /\ IsFiniteSet(Semicolons)
      /\ Cardinality(SemicolonsBefore) \in Nat /\ Cardinality(Semicolons) \in Nat
      /\ Semicolons \subseteq 1 .. Len(tokens) /\ Len(tokens) \in Nat
  BY SemicolonsFinite
<1>2. e \notin SemicolonsBefore
  BY <1>1 DEF SemicolonsBefore
<1>3. Cardinality(SemicolonsBefore \cup {e}) = Cardinality(SemicolonsBefore) + 1
  BY <1>1, <1>2, FS_AddElement
<1>4. SemicolonsBefore \cup {e} \subseteq Semicolons
  BY <1>1
<1>5. Cardinality(SemicolonsBefore \cup {e}) <= Cardinality(Semicolons)
  BY <1>1, <1>4, FS_Subset
<1> QED
  BY <1>1, <1>3, <1>5

\* Where the parser is, and what it has.
LEMMA Positioned ==
    ASSUME TokensShape, ParserShape, tokenizing = "done"
    PROVE  /\ tokens \in Seq(Tokens) /\ Len(tokens) \in Nat /\ DOMAIN tokens = 1 .. Len(tokens)
           /\ position \in 1 .. Len(tokens) /\ tokens[Len(tokens)].type = "eof"
           /\ Len(statement.columns) \in Nat /\ Len(statement.values) \in Nat /\ Len(program) \in Nat
           /\ program = <<>> <=> Len(program) = 0
<1>1. tokens \in Seq(Tokens) /\ tokens # <<>> /\ tokens[Len(tokens)].type = "eof"
  BY Zenon DEF TokensShape
<1>2. Len(tokens) \in Nat /\ DOMAIN tokens = 1 .. Len(tokens) /\ Len(tokens) # 0
  BY <1>1, LenProperties, EmptySeq
<1>3. position \in Nat \ {0} /\ (position = 1 \/ position <= Len(tokens))
  BY Zenon DEF ParserShape
<1>4. position \in 1 .. Len(tokens)
  BY <1>2, <1>3
<1>5. statement.columns \in Seq(Words) /\ statement.values \in Seq(Lexemes) /\ program \in Seq(Statements)
  BY DEF ParserShape, Statements
<1>6. /\ Len(statement.columns) \in Nat /\ Len(statement.values) \in Nat /\ Len(program) \in Nat
      /\ program = <<>> <=> Len(program) = 0
  BY <1>5, LenProperties, EmptySeq
<1> QED
  BY <1>1, <1>2, <1>4, <1>6

LEMMA InOrder ==
    ASSUME NEW n \in Nat, NEW p \in 1 .. n, NEW b \in 1 .. p, NEW e \in 1 .. n, e >= p
    PROVE  b \in 1 .. n /\ e \in b .. n /\ p \in b .. e
OBVIOUS

\* Of the semicolons to come one is the first.
LEMMA FirstToCome ==
    ASSUME tokens \in Seq(Tokens), position \in Nat, NEW j \in Semicolons, j >= position
    PROVE  \E e \in Semicolons :
             e >= position /\ e \in 1 .. Len(tokens) /\ \A i \in position .. e - 1 : i \notin Semicolons
<1>1. Semicolons \subseteq 1 .. Len(tokens) /\ Len(tokens) \in Nat
  BY SemicolonsFinite
<1>2. PICK T : T = {i \in Semicolons : i >= position}
  OBVIOUS
<1>3. T \subseteq Nat /\ T # {}
  <2>1. j \in T
    BY <1>2, Zenon
  <2>2. \A i \in Semicolons : i \in Nat
    BY <1>1
  <2>3. T \subseteq Nat
    BY <1>2, <2>2, Zenon
  <2> QED
    BY <2>1, <2>3, Zenon
<1>4. PICK e \in T : \A i \in T : e <= i
  BY <1>3, Smallest
<1>5. e \in Semicolons /\ e >= position /\ e \in 1 .. Len(tokens)
  BY <1>1, <1>2
<1>6. \A i \in position .. e - 1 : i \notin Semicolons
  BY <1>2, <1>4, <1>5
<1> QED
  BY <1>5, <1>6

LEMMA LastButOne ==
    ASSUME NEW n \in Nat, n > 1
    PROVE  n - 1 \in 1 .. n /\ \A p \in 1 .. n : n - 1 < p => p = n
OBVIOUS

\* While a text of the language has a semicolon to come, its next token is legal.
LEMMA LegalBefore ==
    ASSUME TokensShape, ParserShape, tokenizing = "done", ReadSoFar, StatementsRead, IsProgramText,
           NEW j \in Semicolons, j >= position
    PROVE  Legal
<1>1. /\ tokens \in Seq(Tokens) /\ Len(tokens) \in Nat /\ DOMAIN tokens = 1 .. Len(tokens)
      /\ position \in 1 .. Len(tokens)
      /\ Len(statement.columns) \in Nat /\ Len(statement.values) \in Nat /\ Len(program) \in Nat
  BY Positioned
<1>2. Semicolons \subseteq 1 .. Len(tokens) /\ Cardinality(Semicolons) \in Nat /\ Cardinality(SemicolonsBefore) \in Nat
  BY <1>1, SemicolonsFinite
<1>3. position \in Nat
  BY <1>1
<1>4. PICK e \in Semicolons :
        e >= position /\ e \in 1 .. Len(tokens) /\ \A i \in position .. e - 1 : i \notin Semicolons
  BY <1>1, <1>3, FirstToCome
<1>6. PICK b : OpenAt(b) /\ ReadFrom(b)
  BY Zenon DEF ReadSoFar
<1>7. Begin(e) = b
  BY <1>1, <1>4, <1>6, OpenBegins
<1>8. IsStatement(Types(b, e - 1))
  BY <1>4, <1>7, Zenon DEF IsProgramText, IsStatement
<1>9. b \in 1 .. position
  BY <1>6, Zenon DEF OpenAt
<1>10. b \in 1 .. Len(tokens) /\ e \in b .. Len(tokens) /\ position \in b .. e
  BY <1>1, <1>4, <1>9, InOrder, Zenon
<1>11. tokens[e].type = ";"
  BY <1>4, Zenon DEF Semicolons
<1>12. Goes(expecting, tokens[position].type, Len(statement.columns), Len(statement.values))
  BY <1>1, <1>6, <1>8, <1>10, <1>11, StatementGoesOn, Zenon DEF ReadFrom
<1>13. Len(program) < MAX_STATEMENTS
  <2>1. Len(program) = Cardinality(SemicolonsBefore) /\ Cardinality(Semicolons) <= MAX_STATEMENTS
    BY Zenon DEF StatementsRead, IsProgramText
  <2>2. Cardinality(SemicolonsBefore) < Cardinality(Semicolons)
    BY <1>1, <1>3, <1>4, MoreToPass
  <2> QED
    BY <1>2, <2>1, <2>2, LimitsAssumption
<1>14. token.type = "identifier" => Len(token.text) < MAX_NAME_LEN
  BY <1>1, Zenon DEF IsProgramText, token
<1>15. statement \in Statements
  BY Zenon DEF ParserShape
<1> QED
  BY <1>12, <1>13, <1>14, <1>15, GoesLegally, Zenon DEF token

\* After its last semicolon it ends.
LEMMA EndsAfter ==
    ASSUME TokensShape, ParserShape, tokenizing = "done", ReadSoFar, StatementsRead, IsProgramText,
           \A j \in Semicolons : j < position
    PROVE  AtEnd
<1>1. /\ tokens \in Seq(Tokens) /\ Len(tokens) \in Nat /\ DOMAIN tokens = 1 .. Len(tokens)
      /\ position \in 1 .. Len(tokens) /\ tokens[Len(tokens)].type = "eof"
      /\ Len(statement.columns) \in Nat /\ Len(statement.values) \in Nat /\ Len(program) \in Nat
      /\ program = <<>> <=> Len(program) = 0
  BY Positioned
<1>2. Len(tokens) > 1 /\ tokens[Len(tokens) - 1].type = ";" /\ Semicolons # {}
  BY Zenon DEF IsProgramText
<1>3. position = Len(tokens) /\ position - 1 \in Semicolons
  <2>1. Len(tokens) - 1 \in 1 .. Len(tokens) /\ \A p \in 1 .. Len(tokens) : Len(tokens) - 1 < p => p = Len(tokens)
    BY <1>1, <1>2, LastButOne, Zenon
  <2>2. Len(tokens) - 1 \in Semicolons
    BY <1>1, <1>2, <2>1, Zenon DEF Semicolons
  <2>3. position = Len(tokens)
    BY <1>1, <2>1, <2>2, Zenon
  <2> QED
    BY <2>2, <2>3, Zenon
<1>4. PICK b : OpenAt(b) /\ ReadFrom(b)
  BY Zenon DEF ReadSoFar
<1>5. b = position
  <2>1. b \in 1 .. position /\ \A i \in b .. position - 1 : tokens[i].type # ";"
    BY <1>4, Zenon DEF OpenAt
  <2>2. tokens[position - 1].type = ";"
    BY <1>3, Zenon DEF Semicolons
  <2>3. position - 1 \notin b .. position - 1
    BY <2>1, <2>2, Zenon
  <2>4. b \in 1 .. position
    BY <2>1
  <2> QED
    BY <1>1, <2>3, <2>4
<1>6. position - b = 0
  BY <1>1, <1>5
<1>7. expecting = "statement"
  BY <1>1, <1>4, <1>6, NothingRead, Zenon DEF ReadFrom
<1>8. SemicolonsBefore = Semicolons
  BY DEF SemicolonsBefore
<1>9. program # <<>>
  <2>1. Cardinality(Semicolons) # 0
    BY <1>1, <1>2, SemicolonsFinite
  <2>2. Len(program) = Cardinality(Semicolons)
    BY <1>8, Zenon DEF StatementsRead
  <2> QED
    BY <1>1, <2>1, <2>2
<1> QED
  BY <1>1, <1>3, <1>7, <1>9, Zenon DEF AtEnd, token

LEMMA FirstPlace ==
    ASSUME NEW n \in Nat, NEW p \in 1 .. n, p = n, NEW b \in 1 .. p, p - b = 0
    PROVE  b = p /\ (p # 1 => n > 1 /\ p - 1 = n - 1)
OBVIOUS

LEMMA UpToLast ==
    ASSUME NEW n \in Nat, NEW i \in 1 .. n
    PROVE  (i = n \/ i < n) /\ (i # n => i \in 1 .. n - 1)
OBVIOUS

LEMMA NoneBefore == \A n \in Nat : \A i \in 1 .. n : ~(i < 1)
OBVIOUS

\* A text that is read to its end is of the language.
LEMMA EndSound ==
    ASSUME TokensShape, ParserShape, ProgramFits, tokenizing = "done", OnlyLastEof,
           ReadSoFar, StatementsRead, AtEnd
    PROVE  IsProgramText
<1>1. /\ tokens \in Seq(Tokens) /\ Len(tokens) \in Nat /\ DOMAIN tokens = 1 .. Len(tokens)
      /\ position \in 1 .. Len(tokens) /\ tokens[Len(tokens)].type = "eof"
      /\ Len(statement.columns) \in Nat /\ Len(statement.values) \in Nat /\ Len(program) \in Nat
      /\ program = <<>> <=> Len(program) = 0
  BY Positioned
<1>2. expecting = "statement" /\ tokens[position].type = "eof" /\ program # <<>>
  BY Zenon DEF AtEnd, token
<1>3. position = Len(tokens)
  BY <1>1, <1>2, Zenon DEF OnlyLastEof
<1>4. /\ Semicolons \subseteq 1 .. Len(tokens) /\ (Semicolons = {} <=> Cardinality(Semicolons) = 0)
  BY <1>1, SemicolonsFinite
<1>5. SemicolonsBefore = Semicolons
  <2>1. "eof" # ";"
    BY Zenon
  <2>2. Len(tokens) \notin Semicolons
    BY <1>1, <2>1, Zenon DEF Semicolons
  <2>3. \A i \in 1 .. Len(tokens) : i = Len(tokens) \/ i < Len(tokens)
    BY <1>1, UpToLast
  <2>4. \A i \in Semicolons : i < position
    BY <1>3, <1>4, <2>2, <2>3, Zenon
  <2> QED
    BY <2>4, Zenon DEF SemicolonsBefore
<1>6. Semicolons # {} /\ Cardinality(Semicolons) <= MAX_STATEMENTS
  <2>1. Len(program) = Cardinality(Semicolons) /\ Len(program) <= MAX_STATEMENTS
    BY <1>5, Zenon DEF StatementsRead, ProgramFits
  <2>2. Len(program) # 0
    BY <1>1, <1>2, Zenon
  <2> QED
    BY <1>4, <2>1, <2>2, Zenon
<1>7. PICK b : OpenAt(b) /\ ReadFrom(b)
  BY Zenon DEF ReadSoFar
<1>8. b \in 1 .. position /\ position - b = 0 /\ (b = 1 \/ tokens[b - 1].type = ";")
  BY <1>2, <1>7, Zenon DEF OpenAt, ReadFrom, Described
<1>9. b = position /\ (position # 1 => Len(tokens) > 1 /\ position - 1 = Len(tokens) - 1)
  <2>1. Len(tokens) \in Nat /\ position \in 1 .. Len(tokens)
    BY <1>1, Zenon
  <2>2. b \in 1 .. position /\ position - b = 0
    BY <1>8, Zenon
  <2> QED
    BY <1>3, <2>1, <2>2, FirstPlace, Zenon
<1>10. position # 1
  <2>1. PICK i : i \in SemicolonsBefore
    BY <1>5, <1>6
  <2>2. i \in 1 .. Len(tokens) /\ i < position
    BY <1>4, <1>5, <2>1, Zenon DEF SemicolonsBefore
  <2> QED
    BY <2>2, NoneBefore, <1>1, Zenon
<1>11. Len(tokens) > 1 /\ tokens[Len(tokens) - 1].type = ";"
  BY <1>8, <1>9, <1>10, Zenon
<1>12. ASSUME NEW i \in DOMAIN tokens, tokens[i].type = "identifier"
       PROVE  Len(tokens[i].text) < MAX_NAME_LEN
  <2>1. "eof" # "identifier"
    BY Zenon
  <2>2. i # Len(tokens)
    BY <1>1, <1>12, <2>1, Zenon
  <2>3. i \in 1 .. position - 1
    BY <1>1, <1>3, <1>12, <2>2, UpToLast, Zenon
  <2> QED
    BY <1>12, <2>3, Zenon DEF StatementsRead
<1>13. \A end \in Semicolons : IsStatement(Types(Begin(end), end - 1))
  BY <1>5, Zenon DEF StatementsRead
<1> QED
  BY <1>6, <1>11, <1>12, <1>13, Zenon DEF IsProgramText, IsStatement

\* A semicolon is taken only where a statement may end.
LEMMA SemicolonEnds ==
    ASSUME NEW place, NEW next, NEW t, Moves(place, t, next)
    PROVE  /\ t = ";" => place \in {";", "where?"} /\ next = "statement"
           /\ place \in Tables \cup {"statement", "value"} \cup Wheres => t # ";"
           /\ t = "identifier" => t # ";"
<1>1. Comma # ";" /\ ";" \notin Literals /\ ";" \notin Operators \cup {"!="}
  BY Zenon DEF Comma, Literals, Operators
<1> QED
  BY <1>1, Zenon DEF Moves, Tables, Wheres

\* Every step within a statement.
LEMMA WithinStep ==
    ASSUME statement \in Statements, NEW S, S = statement',
           BeginStatement \/ TakeTable \/ TakeColumn \/ TakeValue \/ TakeWhere \/ TakeMark
    PROVE  /\ Take /\ UNCHANGED program
           /\ Tallies(expecting, token.type, Len(statement.columns), Len(statement.values), Len(S.columns), Len(S.values))
           /\ token.type # ";"
<1>1. Take /\ UNCHANGED program
  BY Zenon DEF BeginStatement, TakeTable, TakeColumn, TakeValue, TakeWhere, TakeMark
<1>2. Moves(expecting, token.type, expecting')
  <2>1. <<expecting, token.type, expecting'>> \in Grammar
    BY <1>1, Zenon DEF Take, Applicable
  <2> QED
    BY <2>1, MovesMade
<1>3. statement.columns \in Seq(Words) /\ statement.values \in Seq(Lexemes)
  BY DEF Statements
<1>4. CASE BeginStatement
  <2>1. expecting = "statement" /\ S = [verb |-> token.type, table |-> <<>>, columns |-> <<>>, values |-> <<>>, where |-> <<>>]
    BY <1>4, Zenon DEF BeginStatement
  <2>2. S.columns = <<>> /\ S.values = <<>>
    BY <2>1
  <2>3. Len(<<>>) = 0
    OBVIOUS
  <2>4. "statement" # "more values" /\ "statement" # "value"
    BY Zenon
  <2>5. Tallies(expecting, token.type, Len(statement.columns), Len(statement.values), Len(S.columns), Len(S.values))
    BY <2>1, <2>2, <2>3, <2>4, Zenon DEF Tallies
  <2> QED
    BY <1>1, <1>2, <2>1, <2>5, SemicolonEnds, Zenon
<1>5. CASE TakeTable
  <2>1. expecting \in Tables /\ S = [statement EXCEPT !.table = token.text]
    BY <1>5, Zenon DEF TakeTable
  <2>2. S.columns = statement.columns /\ S.values = statement.values
    BY <2>1 DEF Statements
  <2>3. \A place \in Tables : place \notin Names \cup {"statement", "value", "more values"}
    BY Zenon DEF Tables, Names
  <2>4. Tallies(expecting, token.type, Len(statement.columns), Len(statement.values), Len(S.columns), Len(S.values))
    BY <2>1, <2>2, <2>3, Zenon DEF Tallies
  <2> QED
    BY <1>1, <1>2, <2>1, <2>4, SemicolonEnds, Zenon
<1>6. CASE TakeColumn
  <2>1. expecting \in Names /\ token.type = "identifier" /\ S = [statement EXCEPT !.columns = Append(@, token.text)]
    BY <1>6, Zenon DEF TakeColumn
  <2>2. S.columns = Append(statement.columns, token.text) /\ S.values = statement.values
    BY <2>1 DEF Statements
  <2>3. Len(S.columns) = Len(statement.columns) + 1
    BY <1>3, <2>2
  <2>4. \A place \in Names : place \notin {"statement", "value", "more values"}
    BY Zenon DEF Names
  <2>5. Tallies(expecting, token.type, Len(statement.columns), Len(statement.values), Len(S.columns), Len(S.values))
    BY <2>1, <2>2, <2>3, <2>4, Zenon DEF Tallies
  <2> QED
    BY <1>1, <1>2, <2>1, <2>5, SemicolonEnds, Zenon
<1>7. CASE TakeValue
  <2>1. expecting = "value" /\ S = [statement EXCEPT !.values = Append(@, Lexeme(token.type, token.text))]
    BY <1>7, Zenon DEF TakeValue
  <2>2. S.columns = statement.columns /\ S.values = Append(statement.values, Lexeme(token.type, token.text))
    BY <2>1 DEF Statements
  <2>3. Len(S.values) = Len(statement.values) + 1
    BY <1>3, <2>2
  <2>4. "value" \notin Names \cup {"statement", "more values"}
    BY Zenon DEF Names
  <2>5. Tallies(expecting, token.type, Len(statement.columns), Len(statement.values), Len(S.columns), Len(S.values))
    BY <2>1, <2>2, <2>3, <2>4, Zenon DEF Tallies
  <2> QED
    BY <1>1, <1>2, <2>1, <2>5, SemicolonEnds, Zenon
<1>8. CASE TakeWhere
  <2>1. expecting \in Wheres /\ S = [statement EXCEPT !.where = Append(@, Lexeme(token.type, token.text))]
    BY <1>8, Zenon DEF TakeWhere
  <2>2. S.columns = statement.columns /\ S.values = statement.values
    BY <2>1 DEF Statements
  <2>3. \A place \in Wheres : place \notin Names \cup {"statement", "value", "more values"}
    BY Zenon DEF Wheres, Names
  <2>4. Tallies(expecting, token.type, Len(statement.columns), Len(statement.values), Len(S.columns), Len(S.values))
    BY <2>1, <2>2, <2>3, Zenon DEF Tallies
  <2> QED
    BY <1>1, <1>2, <2>1, <2>4, SemicolonEnds, Zenon
<1>9. CASE TakeMark
  <2>1. expecting \notin {"statement", "value"} /\ token.type \notin {"identifier", ";"} /\ S = statement
    BY <1>9, Zenon DEF TakeMark
  <2>2. expecting = "more values" /\ token.type = ")" => CountsAgree(statement)
    BY <1>1, Zenon DEF Take, Legal
  <2>3. Len(statement.columns) # 0 => statement.columns # <<>>
    BY <1>3, EmptySeq
  <2>4. Tallies(expecting, token.type, Len(statement.columns), Len(statement.values), Len(S.columns), Len(S.values))
    BY <2>1, <2>2, <2>3, Zenon DEF Tallies, CountsAgree
  <2> QED
    BY <1>1, <2>1, <2>4, Zenon
<1> QED
  BY <1>4, <1>5, <1>6, <1>7, <1>8, <1>9

\* What depends on the tokens only stays when they do.
LEMMA SameTokens ==
    ASSUME UNCHANGED tokens
    PROVE  /\ Semicolons' = Semicolons
           /\ \A e : Begin(e)' = Begin(e)
           /\ \A b, e : Types(b, e)' = Types(b, e)
           /\ \A b : Types(b, Len(tokens))' = Types(b, Len(tokens))
           /\ IsProgramText' = IsProgramText
<1>1. Semicolons' = Semicolons
  BY Zenon DEF Semicolons
<1>2. \A e : Begin(e)' = Begin(e)
  BY DEF Begin, Semicolons
<1>3. \A b, e : Types(b, e)' = Types(b, e)
  BY Zenon DEF Types
<1>4. \A b : Types(b, Len(tokens))' = Types(b, Len(tokens))
  BY Zenon DEF Types
<1>5. IsProgramText' = IsProgramText
  BY <1>1, <1>2, <1>3, Zenon DEF IsProgramText
<1> QED
  BY <1>1, <1>2, <1>3, <1>4, <1>5, Zenon

\* One place further on.
LEMMA Onward ==
    ASSUME NEW n \in Nat, NEW p \in 1 .. n, NEW b \in 1 .. p, NEW q, q = p + 1
    PROVE  /\ b \in 1 .. q /\ q \in Nat /\ q - 1 = p /\ p - b \in Nat /\ q - b = p - b + 1 /\ q - q = 0
           /\ b \in 1 .. n /\ p \in b .. n /\ n \in b .. n /\ q \in 1 .. q
           /\ \A i \in b .. q - 1 : i = p \/ i \in b .. p - 1
           /\ \A i \in 1 .. q - 1 : i = p \/ i \in 1 .. p - 1
           /\ \A i \in q .. q - 1 : FALSE
           /\ \A i \in 1 .. n : i < q <=> i < p \/ i = p
OBVIOUS

\* A step within a statement.
LEMMA WithinKeeps ==
    ASSUME Shape, tokenizing = "done", UNCHANGED tokenizer_vars, ParserShape', ProgramFits', ReadSoFar, StatementsRead,
           BeginStatement \/ TakeTable \/ TakeColumn \/ TakeValue \/ TakeWhere \/ TakeMark
    PROVE  ReadSoFar' /\ StatementsRead'
<1>1. /\ tokens \in Seq(Tokens) /\ Len(tokens) \in Nat /\ DOMAIN tokens = 1 .. Len(tokens)
      /\ position \in 1 .. Len(tokens)
      /\ Len(statement.columns) \in Nat /\ Len(statement.values) \in Nat
  BY Positioned DEF Shape
<1>2. UNCHANGED tokens
  BY Zenon DEF tokenizer_vars
<1>3. PICK S : S = statement'
  OBVIOUS
<1>4. /\ Take /\ UNCHANGED program
      /\ Tallies(expecting, token.type, Len(statement.columns), Len(statement.values), Len(S.columns), Len(S.values))
      /\ token.type # ";"
  BY <1>3, WithinStep DEF Shape, ParserShape
<1>5. /\ Moves(expecting, token.type, expecting') /\ position' = position + 1
      /\ token.type = "identifier" => Len(token.text) < MAX_NAME_LEN
  <2>1. <<expecting, token.type, expecting'>> \in Grammar
    BY <1>4, Zenon DEF Take, Applicable
  <2> QED
    BY <1>4, <2>1, MovesMade, Zenon DEF Take, Legal
<1>6. /\ Len(S.columns) \in Nat /\ Len(S.values) \in Nat
      /\ Len(S.columns) <= MAX_COLUMNS /\ Len(S.values) <= MAX_COLUMNS
  <2>1. S.columns \in Seq(Words) /\ S.values \in Seq(Lexemes)
    BY <1>3 DEF ParserShape, Statements
  <2>2. Len(S.columns) <= MAX_COLUMNS /\ Len(S.values) <= MAX_COLUMNS
    BY <1>3, Zenon DEF ProgramFits, WithinLimits
  <2> QED
    BY <2>1, <2>2, LenProperties
<1>7. PICK b : OpenAt(b) /\ ReadFrom(b)
  BY Zenon DEF ReadSoFar
<1>8. /\ b \in 1 .. position /\ (b = 1 \/ tokens[b - 1].type = ";")
      /\ \A i \in b .. position - 1 : tokens[i].type # ";"
  BY <1>7, Zenon DEF OpenAt
<1>9. PICK q : q = position'
  OBVIOUS
<1>10. /\ b \in 1 .. q /\ q - 1 = position /\ position - b \in Nat /\ q - b = position - b + 1
       /\ b \in 1 .. Len(tokens) /\ position \in b .. Len(tokens) /\ Len(tokens) \in b .. Len(tokens)
       /\ \A i \in b .. q - 1 : i = position \/ i \in b .. position - 1
       /\ \A i \in 1 .. q - 1 : i = position \/ i \in 1 .. position - 1
       /\ \A i \in 1 .. Len(tokens) : i < q <=> i < position \/ i = position
  <2>1. Len(tokens) \in Nat /\ position \in 1 .. Len(tokens)
    BY <1>1, Zenon
  <2>2. b \in 1 .. position
    BY <1>8, Zenon
  <2>3. q = position + 1
    BY <1>5, <1>9, Zenon
  <2> QED
    BY <2>1, <2>2, <2>3, Onward
<1>11. OpenAt(b)'
  <2>1. \A i \in b .. q - 1 : tokens[i].type # ";"
    BY <1>4, <1>8, <1>10, Zenon DEF token
  <2> QED
    BY <1>2, <1>8, <1>9, <1>10, <2>1, Zenon DEF OpenAt
<1>12. ReadFrom(b)'
  <2>1. PICK r : r = Types(b, Len(tokens))
    OBVIOUS
  <2>2. Described(expecting, r, position - b, Len(statement.columns), Len(statement.values))
    BY <1>7, <2>1, Zenon DEF ReadFrom
  <2>3. r[position - b + 1] = token.type
    BY <1>1, <1>10, <2>1, TypeAt, Zenon DEF token
  <2>4. PICK n : n = position - b
    OBVIOUS
  <2>5. n \in Nat /\ q - b = n + 1 /\ token.type = r[q - b]
    BY <1>10, <2>3, <2>4, Zenon
  <2>6. Described(expecting', r, q - b, Len(S.columns), Len(S.values))
    BY <1>1, <1>4, <1>5, <1>6, <2>2, <2>4, <2>5, DescribedOn, Zenon
  <2> QED
    BY <1>2, <1>3, <1>9, <2>1, <2>6, SameTokens, Zenon DEF ReadFrom
<1>13. StatementsRead'
  <2>1. SemicolonsBefore' = SemicolonsBefore
    <3>1. position \notin Semicolons /\ Semicolons \subseteq 1 .. Len(tokens)
      BY <1>1, <1>4, SemicolonsFinite, Zenon DEF Semicolons, token
    <3>2. SemicolonsBefore' = {i \in Semicolons : i < q}
      BY <1>2, <1>9, SameTokens, Zenon DEF SemicolonsBefore
    <3>3. \A i \in Semicolons : i < q <=> i < position
      BY <1>10, <3>1, Zenon
    <3> QED
      BY <3>2, <3>3, Zenon DEF SemicolonsBefore
  <2>2. \A i \in 1 .. q - 1 : tokens[i].type = "identifier" => Len(tokens[i].text) < MAX_NAME_LEN
    BY <1>5, <1>10, Zenon DEF StatementsRead, token
  <2> QED
    BY <1>2, <1>4, <1>9, <2>1, <2>2, SameTokens, Zenon DEF StatementsRead
<1> QED
  BY <1>11, <1>12, <1>13, Zenon DEF ReadSoFar

\* Before its first token nothing is read of a statement.
LEMMA BeginningDescribed ==
    ASSUME NEW place, place = "statement", NEW types, NEW n, n = 0, NEW k, NEW h
    PROVE  Described(place, types, n, k, h)
BY Zenon DEF Described

LEMMA NotBelowItself ==
    ASSUME NEW n \in Nat, NEW p \in 1 .. n
    PROVE  ~(p < p) /\ p \in Nat /\ p >= p /\ \A i \in p .. p - 1 : FALSE
OBVIOUS

\* The step that ends a statement.
LEMMA EndKeeps ==
    ASSUME Shape, tokenizing = "done", UNCHANGED tokenizer_vars, ReadSoFar, StatementsRead, EndStatement
    PROVE  ReadSoFar' /\ StatementsRead'
<1>1. /\ tokens \in Seq(Tokens) /\ Len(tokens) \in Nat /\ DOMAIN tokens = 1 .. Len(tokens)
      /\ position \in 1 .. Len(tokens)
      /\ Len(statement.columns) \in Nat /\ Len(statement.values) \in Nat /\ Len(program) \in Nat
  BY Positioned DEF Shape
<1>2. UNCHANGED tokens
  BY Zenon DEF tokenizer_vars
<1>3. Take /\ token.type = ";" /\ program' = Append(program, statement) /\ position' = position + 1
  BY Zenon DEF EndStatement, Take
<1>4. expecting \in {";", "where?"} /\ expecting' = "statement"
  <2>1. <<expecting, token.type, expecting'>> \in Grammar
    BY <1>3, Zenon DEF Take, Applicable
  <2> QED
    BY <1>3, <2>1, MovesMade, SemicolonEnds, Zenon
<1>5. tokens[position].type = ";" /\ position \in Semicolons
  BY <1>1, <1>3, Zenon DEF Semicolons, token
<1>6. PICK b : OpenAt(b) /\ ReadFrom(b)
  BY Zenon DEF ReadSoFar
<1>7. b \in 1 .. position
  BY <1>6, Zenon DEF OpenAt
<1>8. PICK q : q = position'
  OBVIOUS
<1>9. /\ q - 1 = position /\ position - b \in Nat /\ q - q = 0 /\ q \in 1 .. q
      /\ b \in 1 .. Len(tokens) /\ position \in b .. Len(tokens)
      /\ \A i \in 1 .. q - 1 : i = position \/ i \in 1 .. position - 1
      /\ \A i \in q .. q - 1 : FALSE
      /\ \A i \in 1 .. Len(tokens) : i < q <=> i < position \/ i = position
  <2>1. Len(tokens) \in Nat /\ position \in 1 .. Len(tokens)
    BY <1>1, Zenon
  <2>2. q = position + 1
    BY <1>3, <1>8, Zenon
  <2> QED
    BY <1>7, <2>1, <2>2, Onward
<1>10. ReadSoFar'
  <2>1. OpenAt(q)'
    BY <1>2, <1>5, <1>8, <1>9, Zenon DEF OpenAt
  <2>2. ReadFrom(q)'
    <3>1. \A types, k, h : Described(expecting', types, q - q, k, h)
      BY <1>4, <1>9, BeginningDescribed, Zenon
    <3> QED
      BY <1>8, <3>1, Zenon DEF ReadFrom
  <2> QED
    BY <2>1, <2>2, Zenon DEF ReadSoFar
<1>11. /\ SemicolonsBefore' = SemicolonsBefore \cup {position} /\ position \notin SemicolonsBefore
  <2>1. Semicolons \subseteq 1 .. Len(tokens)
    BY <1>1, SemicolonsFinite
  <2>2. SemicolonsBefore' = {i \in Semicolons : i < q}
    BY <1>2, <1>8, SameTokens, Zenon DEF SemicolonsBefore
  <2>3. \A i \in Semicolons : i < q <=> i < position \/ i = position
    BY <1>9, <2>1, Zenon
  <2>4. ~(position < position)
    BY <1>1, NotBelowItself, Zenon
  <2> QED
    BY <1>5, <2>2, <2>3, <2>4, Zenon DEF SemicolonsBefore
<1>12. Len(program') = Cardinality(SemicolonsBefore')
  <2>1. IsFiniteSet(SemicolonsBefore)
    BY <1>1, SemicolonsFinite
  <2>2. Cardinality(SemicolonsBefore \cup {position}) = Cardinality(SemicolonsBefore) + 1
    BY <1>11, <2>1, FS_AddElement
  <2>3. Len(program') = Len(program) + 1
    <3>1. program \in Seq(Statements)
      BY DEF Shape, ParserShape
    <3>2. statement \in Statements
      BY DEF Shape, ParserShape
    <3> QED
      BY <1>3, <3>1, <3>2, AppendProperties
  <2>4. Len(program) = Cardinality(SemicolonsBefore)
    BY Zenon DEF StatementsRead
  <2> QED
    BY <1>11, <2>2, <2>3, <2>4, Zenon
<1>13. IsStatement(Types(Begin(position), position - 1))
  <2>1. Begin(position) = b
    <3>1. position \in Nat /\ position >= position /\ \A i \in position .. position - 1 : i \notin Semicolons
      BY <1>1, NotBelowItself
    <3> QED
      BY <1>1, <1>5, <1>6, <3>1, OpenBegins
  <2>2. Described(expecting, Types(b, Len(tokens)), position - b, Len(statement.columns), Len(statement.values))
    BY <1>6, Zenon DEF ReadFrom
  <2> QED
    <3>1. IsStatement(Types(b, position - 1))
      <4>1. tokens \in Seq(Tokens) /\ b \in 1 .. Len(tokens) /\ position \in b .. Len(tokens)
        BY <1>1, <1>9, Zenon
      <4>2. \A place \in {";", "where?"} : \A k, h \in Nat :
              Described(place, Types(b, Len(tokens)), position - b, k, h) => IsStatement(Types(b, position - 1))
        BY <4>1, StatementSound
      <4>3. Len(statement.columns) \in Nat /\ Len(statement.values) \in Nat
        BY <1>1, Zenon
      <4> QED
        BY <1>4, <2>2, <4>2, <4>3, ZenonT(40)
    <3> QED
      BY <2>1, <3>1, ZenonT(40)
<1>14. \A end \in SemicolonsBefore' : IsStatement(Types(Begin(end), end - 1))
  BY <1>11, <1>13, Zenon DEF StatementsRead
<1>15. \A i \in 1 .. q - 1 : tokens[i].type = "identifier" => Len(tokens[i].text) < MAX_NAME_LEN
  <2>1. ";" # "identifier"
    BY Zenon
  <2> QED
    BY <1>5, <1>9, <2>1, Zenon DEF StatementsRead
<1>16. StatementsRead'
  <2>2. \A end \in SemicolonsBefore' : IsStatement(Types(Begin(end), end - 1))'
    BY <1>2, <1>14, SameTokens, Zenon
  <2> QED
    BY <1>2, <1>8, <1>12, <2>2, <1>15, SameTokens, Zenon DEF StatementsRead
<1> QED
  BY <1>10, <1>16

\* Until the text is a list of tokens, the parser is where it starts.
Waiting ==
    /\ position = 1 /\ expecting = "statement" /\ program = <<>> /\ parsing = "running"

\* What is read is of the language, token by token, and the parser stops for no other
\* reason than the end of it or a token that cannot go on.
Course ==
    /\ OnlyLastEof
    /\ tokenizing # "done" => Waiting
    /\ parsing \in {"running", "done", "failed"}
    /\ ReadSoFar /\ StatementsRead
    /\ parsing = "done" => AtEnd
    /\ parsing = "failed" => ~IsProgramText

\* At first nothing is read and nothing is to be said of it.
LEMMA NothingParsed ==
    ASSUME tokens \in Seq(Tokens), position = 1, expecting = "statement", program = <<>>
    PROVE  ReadSoFar /\ StatementsRead
<1>1. 1 \in 1 .. 1 /\ 1 - 1 = 0 /\ \A i \in 1 .. 1 - 1 : FALSE
  OBVIOUS
<1>2. Semicolons \subseteq 1 .. Len(tokens) /\ Len(tokens) \in Nat
  BY SemicolonsFinite
<1>3. ReadSoFar
  <2>1. OpenAt(1)
    BY <1>1, Zenon DEF OpenAt
  <2>2. \A types, k, h : Described(expecting, types, position - 1, k, h)
    BY <1>1, BeginningDescribed, Zenon
  <2> QED
    BY <2>1, <2>2, Zenon DEF ReadSoFar, ReadFrom
<1>4. SemicolonsBefore = {}
  <2>1. \A i \in Semicolons : ~(i < position)
    BY <1>2, NoneBefore, Zenon
  <2> QED
    BY <2>1, Zenon DEF SemicolonsBefore
<1>5. Len(program) = Cardinality(SemicolonsBefore)
  <2>1. Len(<<>>) = 0 /\ Cardinality({}) = 0
    BY FS_EmptySet
  <2> QED
    BY <1>4, <2>1, Zenon
<1> QED
  BY <1>1, <1>3, <1>4, <1>5, Zenon DEF StatementsRead

\* The first state is on course.
LEMMA CourseInit ==
    ASSUME TokenizerInit, ParserInit
    PROVE  Course
<1>1. tokens = <<>> /\ tokens \in Seq(Tokens) /\ DOMAIN tokens = {}
  BY DEF TokenizerInit
<1>2. Waiting
  BY Zenon DEF ParserInit, Waiting
<1>3. ReadSoFar /\ StatementsRead
  BY <1>1, <1>2, NothingParsed, Zenon DEF Waiting
<1> QED
  BY <1>1, <1>2, <1>3, Zenon DEF Course, OnlyLastEof, Waiting

\* What the readers make is no end of a text.
LEMMA ReadingsGoOn ==
    /\ read_word.lexeme.type # "eof" /\ read_number.lexeme.type # "eof" /\ read_string.lexeme.type # "eof"
    /\ At(index) \in Symbols \cup {"!"} => read_symbol.lexeme.type # "eof"
<1>1. "eof" \notin Keywords /\ "eof" \notin Symbols /\ "eof" \notin {"identifier", "number", "string", "!=", "!"}
  BY Zenon DEF Keywords, Symbols, Operators
<1>2. read_word.lexeme.type \in Keywords \cup {"identifier"}
  BY DEF read_word, Reading, Lexeme
<1>3. read_number.lexeme.type = "number"
  BY DEF read_number, Reading, Lexeme
<1>4. read_string.lexeme.type = "string"
  BY DEF read_string, Reading, Lexeme
<1>5. read_symbol.lexeme.type = "!=" \/ read_symbol.lexeme.type = At(index)
  BY DEF read_symbol, Reading, Lexeme
<1>6. At(index) \in Symbols \cup {"!"} => At(index) # "eof"
  BY <1>1, Zenon
<1> QED
  BY <1>1, <1>2, <1>3, <1>4, <1>5, <1>6, Zenon

\* The end of the text is its last token (tokenize_sql).
LEMMA EofKept ==
    ASSUME TokensShape, Tokenize, OnlyLastEof
    PROVE  OnlyLastEof'
<1>1. tokenizing = "running" /\ tokens \in Seq(Tokens)
  BY Zenon DEF Tokenize, TokensShape
<1>2. \A i \in DOMAIN tokens : tokens[i].type # "eof"
  <2>1. "running" # "done"
    BY Zenon
  <2> QED
    BY <1>1, <2>1, Zenon DEF OnlyLastEof
<1>3. ASSUME NEW lexeme, append_token(lexeme)
      PROVE  /\ DOMAIN tokens' = DOMAIN tokens \cup {Len(tokens')}
             /\ \A i \in DOMAIN tokens : tokens'[i] = tokens[i]
             /\ tokens'[Len(tokens')].type = lexeme.type
  <2>1. PICK placed : placed = Placed(lexeme)
    OBVIOUS
  <2>2. placed.type = lexeme.type
    BY <2>1 DEF Placed
  <2>3. tokens' = Append(tokens, placed)
    BY <1>3, <2>1, Zenon DEF append_token
  <2>4. /\ Len(tokens) \in Nat /\ Len(tokens') = Len(tokens) + 1
        /\ DOMAIN tokens = 1 .. Len(tokens) /\ DOMAIN tokens' = 1 .. Len(tokens) + 1
        /\ \A i \in 1 .. Len(tokens) : tokens'[i] = tokens[i]
        /\ tokens'[Len(tokens) + 1] = placed
    BY <1>1, <2>3, LenProperties
  <2> QED
    BY <2>2, <2>4
<1>4. CASE UNCHANGED tokens
  BY <1>2, <1>4, Zenon DEF OnlyLastEof
<1>5. ASSUME NEW lexeme, append_token(lexeme), lexeme.type # "eof" PROVE OnlyLastEof'
  BY <1>2, <1>3, <1>5, Zenon DEF OnlyLastEof
<1>6. ASSUME NEW reading, Read(reading), reading.legal => reading.lexeme.type # "eof" PROVE OnlyLastEof'
  BY <1>4, <1>5, <1>6, Zenon DEF Read
<1>7. CASE EndOfText
  <2>1. CASE append_token(Lexeme("eof", <<>>)) /\ tokenizing' = "done"
    BY <1>2, <1>3, <2>1, Zenon DEF OnlyLastEof
  <2> QED
    BY <1>4, <1>7, <2>1, Zenon DEF EndOfText
<1>8. CASE SkipBlank \/ SkipNewline
  BY <1>4, <1>8, Zenon DEF SkipBlank, SkipNewline
<1>9. CASE ReadWord \/ ReadNumber \/ ReadString
  BY <1>6, <1>9, ReadingsGoOn, Zenon DEF ReadWord, ReadNumber, ReadString
<1>10. CASE ReadSymbol
  <2>1. read_symbol.legal => At(index) \in Symbols \cup {"!"}
    BY DEF read_symbol, Reading
  <2> QED
    BY <1>6, <1>10, <2>1, ReadingsGoOn, Zenon DEF ReadSymbol
<1> QED
  BY <1>7, <1>8, <1>9, <1>10, Zenon DEF Tokenize

\* The same, after a step.
LEMMA NothingParsedNext ==
    (tokens \in Seq(Tokens) /\ Waiting)' => (ReadSoFar /\ StatementsRead)'
<1>1. tokens \in Seq(Tokens) /\ Waiting => ReadSoFar /\ StatementsRead
  BY NothingParsed DEF Waiting
<1> QED
  BY <1>1, PTL

\* While tokenize_sql makes tokens, parse_program has read none.
LEMMA TokenizeKeepsCourse ==
    ASSUME Shape, TokensShape', Tokenize, UNCHANGED parser_vars, Course
    PROVE  Course'
<1>1. tokenizing = "running" /\ "running" # "done"
  BY Zenon DEF Tokenize
<1>2. Waiting /\ OnlyLastEof
  BY <1>1, Zenon DEF Course
<1>3. Waiting'
  BY <1>2, Zenon DEF Waiting, parser_vars
<1>4. OnlyLastEof'
  BY <1>2, EofKept DEF Shape
<1>5. (ReadSoFar /\ StatementsRead)'
  <2>1. tokens' \in Seq(Tokens)
    BY Zenon DEF TokensShape
  <2> QED
    BY <1>3, <2>1, NothingParsedNext, Zenon
<1>6. parsing' = "running" /\ "running" \notin {"done", "failed"}
  BY <1>3, Zenon DEF Waiting
<1> QED
  BY <1>3, <1>4, <1>5, <1>6, Zenon DEF Course

\* What has been read stays read.
LEMMA ReadingStands ==
    ASSUME ReadSoFar, StatementsRead, UNCHANGED tokens,
           UNCHANGED <<position, expecting, statement, program>>
    PROVE  ReadSoFar' /\ StatementsRead' /\ AtEnd' = AtEnd /\ IsProgramText' = IsProgramText
<1>1. tokens' = tokens /\ position' = position /\ expecting' = expecting /\ statement' = statement /\ program' = program
  BY Zenon
<1>2. \A b : OpenAt(b)' = OpenAt(b)
  BY <1>1, Zenon DEF OpenAt
<1>3. \A b : ReadFrom(b)' = ReadFrom(b)
  BY <1>1, SameTokens, Zenon DEF ReadFrom
<1>4. ReadSoFar'
  BY <1>2, <1>3, Zenon DEF ReadSoFar
<1>5. SemicolonsBefore' = SemicolonsBefore
  BY <1>1, SameTokens, Zenon DEF SemicolonsBefore
<1>6. StatementsRead'
  BY <1>1, <1>5, SameTokens, Zenon DEF StatementsRead
<1>7. AtEnd' = AtEnd
  BY <1>1, Zenon DEF AtEnd, token
<1> QED
  BY <1>1, <1>4, <1>6, <1>7, SameTokens, Zenon

\* A step that changes neither tokenizer nor parser keeps the course.
LEMMA CourseStands ==
    ASSUME Course, UNCHANGED tokenizer_vars, UNCHANGED parser_vars
    PROVE  Course'
<1>1. UNCHANGED tokens /\ tokens' = tokens /\ tokenizing' = tokenizing
  BY Zenon DEF tokenizer_vars
<1>2. UNCHANGED <<position, expecting, statement, program>> /\ parsing' = parsing
  BY Zenon DEF parser_vars
<1>3. OnlyLastEof'
  BY <1>1, Zenon DEF Course, OnlyLastEof
<1>4. ReadSoFar' /\ StatementsRead' /\ AtEnd' = AtEnd /\ IsProgramText' = IsProgramText
  BY <1>1, <1>2, ReadingStands DEF Course
<1>5. Waiting' <=> Waiting
  BY <1>2, Zenon DEF Waiting
<1> QED
  BY <1>1, <1>2, <1>3, <1>4, <1>5, Zenon DEF Course

\* Every step of parse_program keeps the course: a token that is taken leads to what its
\* place says, the end of the text comes behind a whole statement, and a token that is
\* refused is in no text of the language.
LEMMA ParseKeepsCourse ==
    ASSUME Shape, Parse, UNCHANGED tokenizer_vars, Course
    PROVE  Course'
<1>1. tokenizing = "done" /\ parsing = "running" /\ tokens' = tokens /\ tokenizing' = tokenizing
  BY Zenon DEF Parse, tokenizer_vars
<1>2. OnlyLastEof'
  BY <1>1, Zenon DEF Course, OnlyLastEof
<1>3. ParserShape' /\ ProgramFits'
  BY ParseKeepsShape
<1>4. ReadSoFar /\ StatementsRead
  BY Zenon DEF Course
<1>5. ASSUME ReadSoFar', StatementsRead', parsing' = "running" PROVE Course'
  <2>1. "running" \notin {"done", "failed"}
    BY Zenon
  <2> QED
    BY <1>1, <1>2, <1>5, <2>1, Zenon DEF Course
<1>6. CASE BeginStatement \/ TakeTable \/ TakeColumn \/ TakeValue \/ TakeWhere \/ TakeMark
  <2>1. ReadSoFar' /\ StatementsRead'
    BY <1>1, <1>3, <1>4, <1>6, WithinKeeps
  <2>2. parsing' = "running"
    BY <1>1, <1>6, Zenon DEF BeginStatement, TakeTable, TakeColumn, TakeValue, TakeWhere, TakeMark, Take
  <2> QED
    BY <1>5, <2>1, <2>2
<1>7. CASE EndStatement
  <2>1. ReadSoFar' /\ StatementsRead'
    BY <1>1, <1>4, <1>7, EndKeeps
  <2>2. parsing' = "running"
    BY <1>1, <1>7, Zenon DEF EndStatement, Take
  <2> QED
    BY <1>5, <2>1, <2>2
<1>8. ASSUME UNCHANGED <<position, expecting, statement, program>>
      PROVE  ReadSoFar' /\ StatementsRead' /\ AtEnd' = AtEnd /\ IsProgramText' = IsProgramText
  BY <1>1, <1>4, <1>8, ReadingStands
<1>9. CASE EndOfTokens
  <2>1. AtEnd /\ parsing' = "done" /\ UNCHANGED <<position, expecting, statement, program>>
    BY <1>9, Zenon DEF EndOfTokens, AtEnd
  <2> QED
    BY <1>1, <1>2, <1>8, <2>1, Zenon DEF Course
<1>10. CASE ParseFails
  <2>1. ~Legal /\ ~AtEnd /\ parsing' = "failed" /\ UNCHANGED <<position, expecting, statement, program>>
    BY <1>10, Zenon DEF ParseFails, AtEnd
  <2>2. ~IsProgramText
    <3> SUFFICES ASSUME IsProgramText PROVE FALSE
      OBVIOUS
    <3>1. TokensShape /\ ParserShape
      BY Zenon DEF Shape
    <3>2. ~\E j \in Semicolons : j >= position
      BY <1>1, <1>4, <2>1, <3>1, LegalBefore
    <3>3. \A j \in Semicolons : j < position
      <4>1. Semicolons \subseteq 1 .. Len(tokens) /\ Len(tokens) \in Nat /\ position \in 1 .. Len(tokens)
        BY <1>1, <3>1, Positioned, SemicolonsFinite
      <4> QED
        BY <3>2, <4>1
    <3> QED
      BY <1>1, <1>4, <2>1, <3>1, <3>3, EndsAfter
  <2>3. ReadSoFar' /\ StatementsRead' /\ ~IsProgramText'
    BY <1>8, <2>1, <2>2
  <2>4. "failed" # "done"
    BY Zenon
  <2> QED
    BY <1>1, <1>2, <2>1, <2>3, <2>4, Zenon DEF Course
<1> QED
  BY <1>6, <1>7, <1>9, <1>10, Zenon DEF Parse

\* On this course a text is accepted exactly when it is of the language.
LEMMA CourseDecides == Shape /\ Course => GrammarDecides
<1> SUFFICES ASSUME Shape, Course, tokenizing = "done", parsing # "running"
             PROVE  parsing = "done" <=> IsProgramText
  BY Zenon DEF GrammarDecides
<1>1. CASE parsing = "done"
  <2>1. IsProgramText
    BY <1>1, EndSound DEF Course, Shape
  <2> QED
    BY <1>1, <2>1
<1>2. CASE parsing = "failed"
  BY <1>2, Zenon DEF Course
<1> QED
  BY <1>1, <1>2, Zenon DEF Course
=============================================================================
