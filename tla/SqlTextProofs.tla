--------------------------- MODULE SqlTextProofs ---------------------------
(***************************************************************************)
(* From a text to a program no buffer overflows and every token is the     *)
(* text at its place; and from the program to the file and back every      *)
(* value comes into its column, every SELECT answers, and a statement      *)
(* fails only for what it says.  For any texts, schema files and limits.   *)
(***************************************************************************)
EXTENDS SqlText, FileTextProofs

LEMMA InitShape == Init => Shape
<1> SUFFICES ASSUME Init PROVE Shape
  OBVIOUS
<1>1. sql_text \in Texts
  BY InputsAssumption DEF Init, Texts
<1>2. Len(sql_text) \in Nat
  BY <1>1, LenProperties DEF Texts
<1>3. TokensShape
  BY <1>1, <1>2 DEF Init, TokenizerInit, TokensShape
<1>4. TokensFit
  BY LimitsAssumption DEF Init, TokenizerInit, TokensFit
<1>5. statement \in Statements /\ program \in Seq(Statements)
  BY DEF Init, ParserInit, Statements, Words
<1>6. ParserShape
  BY <1>5 DEF Init, ParserInit, ParserShape
<1>7. ProgramFits
  BY LimitsAssumption DEF Init, ParserInit, ProgramFits, WithinLimits
<1> QED
  BY <1>3, <1>4, <1>6, <1>7 DEF Shape

LEMMA NextKeepsShape == Shape /\ [Next]_vars => Shape'
<1> SUFFICES ASSUME Shape, [Next]_vars PROVE Shape'
  OBVIOUS
<1>1. CASE UNCHANGED tokenizer_vars /\ UNCHANGED parser_vars
  BY <1>1 DEF Shape, TokensShape, TokensFit, ParserShape, ProgramFits, WithinLimits,
              tokenizer_vars, parser_vars
<1>2. CASE Tokenize /\ UNCHANGED parser_vars
  <2>1. TokensShape' /\ TokensFit'
    BY <1>2, TokenizeKeepsShape DEF Shape
  <2>2. ProgramFits'
    BY <1>2 DEF Shape, ProgramFits, WithinLimits, parser_vars
  <2>3. position \in Nat \ {0} /\ (position = 1 \/ position <= Len(tokens'))
    <3>1. Len(tokens') \in Nat /\ Len(tokens) \in Nat /\ Len(tokens') >= Len(tokens)
      BY <1>2, TokensOnlyGrow DEF Shape
    <3>2. position \in Nat \ {0} /\ (position = 1 \/ position <= Len(tokens))
      BY DEF Shape, ParserShape
    <3> QED
      BY <3>1, <3>2
  <2>4. ParserShape'
    BY <1>2, <2>3 DEF Shape, ParserShape, parser_vars
  <2> QED
    BY <2>1, <2>2, <2>4 DEF Shape
<1>3. CASE Parse /\ UNCHANGED tokenizer_vars
  <2>1. ParserShape' /\ ProgramFits'
    BY <1>3, ParseKeepsShape
  <2>2. TokensShape' /\ TokensFit'
    BY <1>3 DEF Shape, TokensShape, TokensFit, tokenizer_vars
  <2> QED
    BY <2>1, <2>2 DEF Shape
<1> QED
  BY <1>1, <1>2, <1>3 DEF Next, vars

\* Whatever the text and whatever the limits, no buffer of a token, a name, a
\* statement or a program is given more than it holds (append_token, read_string,
\* copy_name, parse_value_list, parse_program).
THEOREM TextLimitsHold == Spec => []LimitsHold
<1>1. Init => Shape
  BY InitShape
<1>2. Shape /\ [Next]_vars => Shape'
  BY NextKeepsShape
<1>3. Shape => LimitsHold
  BY ShapeFits
<1> QED
  BY <1>1, <1>2, <1>3, PTL DEF Spec

\* Reading keeps its course under every step of the program.
LEMMA NextKeepsCourse == Shape /\ Course /\ [Next]_vars => Course'
<1> SUFFICES ASSUME Shape, Course, [Next]_vars PROVE Course'
  OBVIOUS
<1>1. CASE UNCHANGED tokenizer_vars /\ UNCHANGED parser_vars
  BY <1>1, CourseStands
<1>2. CASE Tokenize /\ UNCHANGED parser_vars
  <2>1. TokensShape'
    BY NextKeepsShape DEF Shape
  <2> QED
    BY <1>2, <2>1, TokenizeKeepsCourse
<1>3. CASE Parse /\ UNCHANGED tokenizer_vars
  BY <1>3, ParseKeepsCourse
<1> QED
  BY <1>1, <1>2, <1>3 DEF Next, vars

\* A text whose tokens could be read is accepted exactly when it is a sequence of INSERT
\* and SELECT statements of the grammar, each ended by its semicolon, within the limits on
\* names, columns, values and statements: parse_program refuses no text of the language
\* and accepts no other, whatever the limits are (parse_program, parse_statement,
\* parse_insert, parse_select).
THEOREM TextGrammarDecides == Spec => []GrammarDecides
<1>1. Init => Shape /\ Course
  BY InitShape, CourseInit DEF Init
<1>2. Shape /\ Course /\ [Next]_vars => (Shape /\ Course)'
  BY NextKeepsShape, NextKeepsCourse
<1>3. Shape /\ Course => GrammarDecides
  BY CourseDecides
<1> QED
  BY <1>1, <1>2, <1>3, PTL DEF Spec

\* Whatever the text, tokens give the line and column where they begin, and what the
\* tokenizer passes over without a token is blank (tokenize_sql, append_token).
THEOREM TextTokensPlaced == Spec => TokensPlaced
<1>1. Init => Shape /\ Located
  BY InitShape, LocatedInit DEF Init
<1>2. Shape /\ Located /\ [Next]_vars =>
        (Shape /\ Located)' /\ (TakesItsText \/ UNCHANGED tokenizer_vars)
  <2> SUFFICES ASSUME Shape, Located, [Next]_vars
               PROVE  Located' /\ (TakesItsText \/ UNCHANGED tokenizer_vars)
    BY NextKeepsShape
  <2>1. CASE Tokenize
    BY <2>1, TokenizePlaced DEF Shape
  <2>2. CASE UNCHANGED tokenizer_vars
    BY <2>2 DEF tokenizer_vars, Located, LineOf, ColumnOf, Newlines, At
  <2> QED
    BY <2>1, <2>2 DEF Next, vars
<1>3. (TakesItsText \/ UNCHANGED tokenizer_vars) <=>
        [LET passed == SubSeq(sql_text, index, index' - 1)
             read == tokens'[Len(tokens')]
         IN  IF tokens' # tokens
             THEN /\ SubSeq(tokens', 1, Len(tokens)) = tokens
                  /\ read.line = LineOf(index) /\ read.column = ColumnOf(index)
                  /\ lower(passed) = lower(Spelling(read))
             ELSE \A i \in DOMAIN passed : passed[i] \in Blanks \cup {"\n"}]_tokenizer_vars
  BY Zenon DEF TakesItsText
<1> QED
  BY <1>1, <1>2, <1>3, PTL DEF Spec, TokensPlaced

-----------------------------------------------------------------------------
(* Columns and rows. *)

\* Every column name is the name of one column.
LEMMA NamesOfColumns ==
    ASSUME SchemaSound(columns)
    PROVE  /\ ColumnNames \in Seq(Words) /\ Len(ColumnNames) = Len(columns) /\ Len(columns) \in Nat
           /\ DOMAIN columns = 1 .. Len(columns) /\ DOMAIN ColumnNames = 1 .. Len(columns)
           /\ \A c \in 1 .. Len(columns) :
                /\ ColumnNames[c] = columns[c].name /\ columns[c].name \in ToSet(ColumnNames)
                /\ \A d \in 1 .. Len(columns) : columns[c].name = columns[d].name => c = d
                /\ find_schema_column(columns[c].name) = c
           /\ \A name \in ToSet(ColumnNames) : \E c \in 1 .. Len(columns) : columns[c].name = name
           /\ IsFiniteSet(ToSet(ColumnNames)) /\ Cardinality(ToSet(ColumnNames)) = Len(columns)
<1>1. PICK n : n = Len(columns)
  OBVIOUS
<1>2. PICK names : names = ColumnNames
  OBVIOUS
<1>3. n \in Nat /\ DOMAIN columns = 1 .. n
  BY <1>1 DEF SchemaSound
<1>4. names = [c \in 1 .. n |-> columns[c].name]
  BY <1>2, <1>3 DEF ColumnNames
<1>5. \A c \in 1 .. n : columns[c].name \in Words
  BY <1>3 DEF SchemaSound
<1>6. names \in [1 .. n -> Words]
  BY <1>4, <1>5
<1>7. names \in Seq(Words)
  BY <1>3, <1>6, IsASeq
<1>8. DOMAIN names = 1 .. n /\ Len(names) = n
  <2>1. DOMAIN names = 1 .. n /\ DOMAIN names = 1 .. Len(names) /\ Len(names) \in Nat
    BY <1>6, <1>7, LenProperties
  <2> QED
    BY <1>3, <2>1
<1>9. \A c, d \in 1 .. n : columns[c].name = columns[d].name => c = d
  BY <1>3 DEF SchemaSound, NamesDiffer
<1>10. \A c \in 1 .. n : names[c] = columns[c].name /\ columns[c].name \in ToSet(names)
  BY <1>4, <1>8 DEF ToSet
<1>11. \A name \in ToSet(names) : \E c \in 1 .. n : columns[c].name = name
  BY <1>4, <1>8 DEF ToSet
<1>12. \A c \in 1 .. n : find_schema_column(columns[c].name) = c
  <2> SUFFICES ASSUME NEW c \in 1 .. n PROVE find_schema_column(columns[c].name) = c
    OBVIOUS
  <2>1. \A d \in DOMAIN columns : columns[d].name = columns[c].name <=> d = c
    BY <1>3, <1>9
  <2>2. c \in DOMAIN columns
    BY <1>3
  <2>3. (CHOOSE d \in DOMAIN columns : columns[d].name = columns[c].name) = c
    BY <2>1, <2>2
  <2> QED
    BY <2>3 DEF find_schema_column
<1>13. IsFiniteSet(ToSet(names)) /\ Cardinality(ToSet(names)) = n
  <2>1. names \in Bijection(1 .. n, ToSet(names))
    <3>1. names \in [1 .. n -> ToSet(names)]
      BY <1>6, <1>10
    <3>2. \A c, d \in 1 .. n : names[c] = names[d] => c = d
      BY <1>9, <1>10
    <3>3. \A t \in ToSet(names) : \E c \in 1 .. n : names[c] = t
      BY <1>8 DEF ToSet
    <3> QED
      BY <3>1, <3>2, <3>3 DEF Bijection, Injection, Surjection, IsInjective
  <2>2. ExistsBijection(1 .. n, ToSet(names))
    BY <2>1 DEF ExistsBijection
  <2> QED
    BY <1>3, <2>2, FS_CountingElements, FS_NatBijection
<1> QED
  BY <1>1, <1>2, <1>3, <1>7, <1>8, <1>9, <1>10, <1>11, <1>12, <1>13

\* A list that names every column names each once.
LEMMA NamedOnce ==
    ASSUME SchemaSound(columns), NEW names \in Seq(Words), Len(names) = Len(columns),
           ToSet(names) = ToSet(ColumnNames)
    PROVE  /\ \A k, l \in 1 .. Len(columns) : names[k] = names[l] => k = l
           /\ \A c \in 1 .. Len(columns) : \E k \in 1 .. Len(columns) : names[k] = columns[c].name
           /\ \A k \in 1 .. Len(columns) : \E c \in 1 .. Len(columns) : names[k] = columns[c].name
<1>1. PICK n : n = Len(columns)
  OBVIOUS
<1>2. n \in Nat /\ Cardinality(ToSet(ColumnNames)) = n
  BY <1>1, NamesOfColumns
<1>3. DOMAIN names = 1 .. n
  BY <1>1, LenProperties
<1>4. names \in Surjection(1 .. n, ToSet(names))
  <2>1. names \in [1 .. n -> ToSet(names)]
    <3>1. names = [i \in 1 .. n |-> names[i]]
      BY <1>3
    <3>2. \A i \in 1 .. n : names[i] \in ToSet(names)
      BY <1>3 DEF ToSet
    <3> QED
      BY <3>1, <3>2
  <2>2. \A t \in ToSet(names) : \E c \in 1 .. n : names[c] = t
    BY <1>3 DEF ToSet
  <2> QED
    BY <2>1, <2>2 DEF Surjection
<1>5. IsFiniteSet(1 .. n) /\ Cardinality(1 .. n) = n
  BY <1>2, FS_Interval
<1>6. Cardinality(1 .. n) = Cardinality(ToSet(names))
  BY <1>2, <1>5
<1>7. names \in Injection(1 .. n, ToSet(names))
  BY <1>4, <1>5, <1>6, FS_SurjSameCardinalityImpliesInj
<1>8. \A k, l \in 1 .. n : names[k] = names[l] => k = l
  BY <1>7 DEF Injection, IsInjective
<1>9. \A c \in 1 .. n : columns[c].name \in ToSet(names)
  BY <1>1, NamesOfColumns
<1>10. \A c \in 1 .. n : \E k \in 1 .. n : names[k] = columns[c].name
  BY <1>3, <1>9 DEF ToSet
<1>11. \A k \in 1 .. n : names[k] \in ToSet(ColumnNames)
  BY <1>3 DEF ToSet
<1>12. \A k \in 1 .. n : \E c \in 1 .. n : names[k] = columns[c].name
  <2>1. \A name \in ToSet(ColumnNames) : \E c \in 1 .. n : columns[c].name = name
    BY <1>1, NamesOfColumns
  <2> QED
    BY <1>11, <2>1
<1> QED
  BY <1>1, <1>8, <1>10, <1>12

\* What an INSERT says of every column.
Told(s) == [c \in DOMAIN columns |-> Said(s, c)]

\* What the parts of a statement are.
LEMMA StatementParts ==
    ASSUME NEW s \in Statements
    PROVE  /\ s.columns \in Seq(Words) /\ s.values \in Seq(Lexemes) /\ s.where \in Seq(Lexemes)
           /\ s.table \in Words
           /\ Len(s.columns) \in Nat /\ DOMAIN s.columns = 1 .. Len(s.columns)
           /\ Len(s.values) \in Nat /\ DOMAIN s.values = 1 .. Len(s.values)
           /\ \A k \in 1 .. Len(s.values) : s.values[k].text \in Words
<1>1. s.columns \in Seq(Words) /\ s.values \in Seq(Lexemes) /\ s.where \in Seq(Lexemes) /\ s.table \in Words
  BY DEF Statements
<1>2. /\ Len(s.columns) \in Nat /\ DOMAIN s.columns = 1 .. Len(s.columns)
      /\ Len(s.values) \in Nat /\ DOMAIN s.values = 1 .. Len(s.values)
  BY <1>1, LenProperties
<1>3. \A k \in 1 .. Len(s.values) : s.values[k] \in Lexemes
  BY <1>1, ElementOfSeq
<1>4. \A k \in 1 .. Len(s.values) : s.values[k].text \in Words
  BY <1>3 DEF Lexemes
<1> QED
  BY <1>1, <1>2, <1>4

\* The value an INSERT gives a column stands where the list names the column.
LEMMA SaidAt ==
    ASSUME NEW s, NEW names, names = Named(s), NEW n \in Nat, DOMAIN s.values = 1 .. n,
           \A k, l \in 1 .. n : names[k] = names[l] => k = l,
           NEW c, NEW k \in 1 .. n, names[k] = columns[c].name
    PROVE  Said(s, c) = s.values[k].text
<1> DEFINE Pairs_ == {<<names[l], s.values[l].text>> : l \in 1 .. n}
<1>1. Said(s, c) = (CHOOSE pair \in Pairs_ : pair[1] = columns[c].name)[2]
  BY Zenon DEF Said
<1>2. <<names[k], s.values[k].text>> \in Pairs_
  OBVIOUS
<1>3. \A pair \in Pairs_ : pair[1] = columns[c].name <=> pair = <<names[k], s.values[k].text>>
  <2> SUFFICES ASSUME NEW l \in 1 .. n
               PROVE  <<names[l], s.values[l].text>>[1] = columns[c].name
                        <=> <<names[l], s.values[l].text>> = <<names[k], s.values[k].text>>
    OBVIOUS
  <2>1. <<names[l], s.values[l].text>>[1] = names[l]
    OBVIOUS
  <2>2. names[l] = names[k] => l = k
    OBVIOUS
  <2> QED
    BY <2>1, <2>2
<1>4. (CHOOSE pair \in Pairs_ : pair[1] = columns[c].name) = <<names[k], s.values[k].text>>
  <2> HIDE DEF Pairs_
  <2> QED
    BY <1>2, <1>3
<1> QED
  BY <1>1, <1>4

\* The row of an INSERT that fits is what it says of the columns, in the order of
\* the schema, and each value fits its buffer.
LEMMA RowTold ==
    ASSUME SchemaSound(columns), NEW s \in Statements, WithinLimits(s), InsertFits(s)
    PROVE  /\ row_values(s) = Told(s)
           /\ Told(s) \in Seq(Words) /\ Len(Told(s)) = Len(columns)
           /\ \A c \in 1 .. Len(columns) : Len(Told(s)[c]) < MAX_VALUE_LEN
<1>1. PICK n : n = Len(columns)
  OBVIOUS
<1>2. PICK names : names = Named(s)
  OBVIOUS
<1>3. n \in Nat /\ DOMAIN columns = 1 .. n
  BY <1>1, NamesOfColumns
<1>4. Len(s.values) = n /\ Len(names) = n /\ ToSet(names) = ToSet(ColumnNames)
  BY <1>1, <1>2 DEF InsertFits
<1>5. names \in Seq(Words)
  BY <1>2, StatementParts, NamesOfColumns DEF Named
<1>6. /\ \A k, l \in 1 .. n : names[k] = names[l] => k = l
      /\ \A c \in 1 .. n : \E k \in 1 .. n : names[k] = columns[c].name
  <2>1. Len(names) = Len(columns)
    BY <1>1, <1>4
  <2>2. ToSet(names) = ToSet(ColumnNames)
    BY <1>4
  <2>3. /\ \A k, l \in 1 .. Len(columns) : names[k] = names[l] => k = l
        /\ \A c \in 1 .. Len(columns) : \E k \in 1 .. Len(columns) : names[k] = columns[c].name
    BY <1>5, <2>1, <2>2, NamedOnce
  <2> QED
    BY <1>1, <2>3
<1>7. DOMAIN s.values = 1 .. n
  BY <1>4, StatementParts
<1>8. ASSUME NEW c \in 1 .. n, NEW k \in 1 .. n, names[k] = columns[c].name
      PROVE  /\ Said(s, c) = s.values[k].text /\ Said(s, c) \in Words /\ Len(Said(s, c)) < MAX_VALUE_LEN
             /\ row_values(s)[c] = s.values[k].text
  <2>1. Said(s, c) = s.values[k].text
    <3>1. n \in Nat
      BY <1>3
    <3>2. \A i, l \in 1 .. n : names[i] = names[l] => i = l
      BY <1>6
    <3>3. names[k] = columns[c].name
      BY <1>8
    <3> QED
      BY <1>2, <1>7, <3>1, <3>2, <3>3, SaidAt
  <2>2. s.values[k].text \in Words
    BY <1>4, StatementParts
  <2>3. Len(s.values[k].text) < MAX_VALUE_LEN
    BY <1>7 DEF WithinLimits
  <2>4. row_values(s)[c] = s.values[k].text
    <3>1. row_values(s)[c] = s.values[IF s.columns = <<>> THEN c
                 ELSE CHOOSE l \in DOMAIN s.columns : s.columns[l] = columns[c].name].text
      BY <1>3 DEF row_values
    <3>2. CASE s.columns = <<>>
      <4>1. names = ColumnNames
        BY <1>2, <3>2 DEF Named
      <4>2. names[c] = columns[c].name
        BY <1>1, <4>1, NamesOfColumns
      <4>3. c = k
        BY <1>6, <1>8, <4>2
      <4> QED
        BY <3>1, <3>2, <4>3
    <3>3. CASE s.columns # <<>>
      <4>1. s.columns = names /\ DOMAIN s.columns = 1 .. n
        BY <1>2, <1>4, <3>3, StatementParts DEF Named
      <4>2. k \in DOMAIN s.columns /\ \A l \in DOMAIN s.columns : s.columns[l] = columns[c].name <=> l = k
        <5>1. \A l \in 1 .. n : names[l] = names[k] => l = k
          BY <1>6
        <5>2. \A l \in 1 .. n : names[l] = columns[c].name <=> l = k
          BY <1>8, <5>1
        <5> QED
          BY <4>1, <5>2
      <4>3. (CHOOSE l \in DOMAIN s.columns : s.columns[l] = columns[c].name) = k
        BY <4>2
      <4> QED
        BY <3>1, <3>3, <4>3
    <3> QED
      BY <3>2, <3>3
  <2> QED
    BY <2>1, <2>2, <2>3, <2>4
<1>9. \A c \in 1 .. n : Said(s, c) \in Words /\ Len(Said(s, c)) < MAX_VALUE_LEN /\ row_values(s)[c] = Said(s, c)
  <2> SUFFICES ASSUME NEW c \in 1 .. n
               PROVE  Said(s, c) \in Words /\ Len(Said(s, c)) < MAX_VALUE_LEN /\ row_values(s)[c] = Said(s, c)
    OBVIOUS
  <2>1. PICK k \in 1 .. n : names[k] = columns[c].name
    BY <1>6
  <2> QED
    BY <1>8, <2>1
<1>10. PICK told : told = Told(s)
  OBVIOUS
<1>11. told = [c \in 1 .. n |-> Said(s, c)]
  BY <1>3, <1>10 DEF Told
<1>12. told \in [1 .. n -> Words]
  BY <1>9, <1>11
<1>13. told \in Seq(Words)
  BY <1>3, <1>12, IsASeq
<1>14. Len(told) = n
  <2>1. DOMAIN told = 1 .. n /\ DOMAIN told = 1 .. Len(told) /\ Len(told) \in Nat
    BY <1>12, <1>13, LenProperties
  <2> QED
    BY <1>3, <2>1
<1>15. row_values(s) = told
  <2>1. row_values(s) = [c \in 1 .. n |-> row_values(s)[c]]
    BY <1>3 DEF row_values
  <2>2. \A c \in 1 .. n : row_values(s)[c] = told[c]
    BY <1>9, <1>11
  <2> QED
    BY <1>11, <2>1, <2>2
<1>16. \A c \in 1 .. n : Len(told[c]) < MAX_VALUE_LEN
  BY <1>9, <1>11
<1> QED
  BY <1>1, <1>10, <1>13, <1>14, <1>15, <1>16

\* The places of the INSERTs and of the SELECTs among the first n statements.
InsertPlaces(n) == {k \in 1 .. n : program[k].verb = "insert"}
SelectPlaces(n) == {k \in 1 .. n : program[k].verb = "select"}

\* InsertsBefore picks the places of the INSERTs.
LEMMA InsertsAre ==
    ASSUME NEW n
    PROVE  InsertsBefore(n) = Picked(SubSeq(program, 1, n), InsertPlaces(n))
BY Zenon DEF InsertsBefore, InsertPlaces

\* The first statements of a program are a program.
LEMMA ProgramPrefix ==
    ASSUME program \in Seq(Statements), NEW n \in 0 .. Len(program)
    PROVE  /\ SubSeq(program, 1, n) \in Seq(Statements) /\ Len(SubSeq(program, 1, n)) = n
           /\ \A i \in 1 .. n : SubSeq(program, 1, n)[i] = program[i]
           /\ n < Len(program) =>
                /\ SubSeq(program, 1, n + 1) = Append(SubSeq(program, 1, n), program[n + 1])
                /\ program[n + 1] \in Statements
<1>1. Len(program) \in Nat
  BY LenProperties
<1>2. SubSeq(program, 1, n) \in Seq(Statements) /\ Len(SubSeq(program, 1, n)) = n - 1 + 1
  <2>1. 1 \in 1 .. Len(program) + 1 /\ n \in 1 - 1 .. Len(program)
    BY <1>1
  <2> QED
    BY <2>1, SliceLength
<1>3. \A i \in 1 .. n : SubSeq(program, 1, n)[i] = program[i]
  BY <1>1, SubSeqProperties
<1>4. ASSUME n < Len(program)
      PROVE  /\ SubSeq(program, 1, n + 1) = Append(SubSeq(program, 1, n), program[n + 1])
             /\ program[n + 1] \in Statements
  <2>1. n + 1 \in 1 .. Len(program) /\ n + 1 - 1 = n
    BY <1>1, <1>4
  <2>2. program[n + 1] \in Statements
    BY <2>1, ElementOfSeq
  <2>3. PICK p : p = SubSeq(program, 1, n)
    OBVIOUS
  <2>4. PICK q : q = SubSeq(program, 1, n + 1)
    OBVIOUS
  <2>5. PICK a : a = Append(p, program[n + 1])
    OBVIOUS
  <2>6. p \in Seq(Statements) /\ Len(p) = n /\ \A i \in 1 .. n : p[i] = program[i]
    BY <1>2, <1>3, <2>3
  <2>7. /\ a \in Seq(Statements) /\ Len(a) = n + 1 /\ a[n + 1] = program[n + 1]
        /\ \A i \in 1 .. n : a[i] = p[i]
    BY <2>2, <2>5, <2>6, AppendProperties
  <2>8. q \in Seq(Statements) /\ Len(q) = n + 1 /\ \A i \in 1 .. n + 1 : q[i] = program[i]
    <3>1. 1 \in 1 .. Len(program) + 1 /\ n + 1 \in 1 - 1 .. Len(program) /\ n + 1 - 1 + 1 = n + 1
      BY <1>1, <2>1
    <3>2. q \in Seq(Statements) /\ Len(q) = n + 1 - 1 + 1
      BY <2>4, <3>1, SliceLength
    <3>3. \A i \in 1 .. n + 1 : q[i] = program[i]
      BY <1>1, <2>1, <2>4, SubSeqProperties
    <3> QED
      BY <3>1, <3>2, <3>3
  <2>9. ASSUME NEW i \in 1 .. Len(q) PROVE q[i] = a[i]
    <3>1. i \in 1 .. n + 1 /\ (i = n + 1 \/ i \in 1 .. n)
      BY <2>8
    <3> QED
      BY <2>6, <2>7, <2>8, <3>1
  <2>10. q = a
    BY <2>7, <2>8, <2>9, SeqEqual
  <2> QED
    BY <2>2, <2>3, <2>4, <2>5, <2>10
<1>5. n - 1 + 1 = n
  OBVIOUS
<1> QED
  BY <1>2, <1>3, <1>4, <1>5

\* One statement more.
LEMMA InsertsGrow ==
    ASSUME program \in Seq(Statements), NEW n \in 0 .. Len(program), n < Len(program)
    PROVE  InsertsBefore(n + 1) = IF program[n + 1].verb = "insert"
                                  THEN Append(InsertsBefore(n), program[n + 1]) ELSE InsertsBefore(n)
<1>1. PICK p : p = SubSeq(program, 1, n)
  OBVIOUS
<1>2. p \in Seq(Statements) /\ Len(p) = n /\ program[n + 1] \in Statements
      /\ SubSeq(program, 1, n + 1) = Append(p, program[n + 1])
  BY <1>1, ProgramPrefix
<1>3. PICK K : K = InsertPlaces(n)
  OBVIOUS
<1>4. PICK L : L = InsertPlaces(n + 1)
  OBVIOUS
<1>5. n \in Nat
  OBVIOUS
<1>6. /\ \A i \in 1 .. n : i \in K <=> i \in L
      /\ n + 1 \in L <=> program[n + 1].verb = "insert"
  BY <1>3, <1>4, <1>5 DEF InsertPlaces
<1>7. p \in Seq(Statements)
  BY <1>2
<1>8. program[n + 1] \in Statements
  BY <1>2
<1>9. \A i \in 1 .. Len(p) : i \in K <=> i \in L
  BY <1>2, <1>6
<1>10. Picked(Append(p, program[n + 1]), L) =
         IF Len(p) + 1 \in L THEN Append(Picked(p, K), program[n + 1]) ELSE Picked(p, K)
  <2>1. PICK x : x = program[n + 1]
    OBVIOUS
  <2>2. x \in Statements
    BY <1>8, <2>1
  <2>3. Picked(Append(p, x), L) = IF Len(p) + 1 \in L THEN Append(Picked(p, K), x) ELSE Picked(p, K)
    BY <1>7, <1>9, <2>2, PickedAppended
  <2> QED
    BY <2>1, <2>3, Zenon
<1>11. InsertsBefore(n) = Picked(p, K)
  BY <1>1, <1>3, InsertsAre
<1>12. InsertsBefore(n + 1) = Picked(Append(p, program[n + 1]), L)
  BY <1>2, <1>4, InsertsAre
<1>13. Len(p) + 1 \in L <=> program[n + 1].verb = "insert"
  BY <1>2, <1>6
<1> QED
  BY <1>10, <1>11, <1>12, <1>13, Zenon

\* Before anything is executed no INSERT is.
LEMMA NoInsertsYet == InsertsBefore(0) = <<>>
<1>1. SubSeq(program, 1, 0) = <<>>
  BY SubSeqEmpty
<1> QED
  BY <1>1, PickedNone, InsertsAre

\* The INSERTs are INSERTs of the program.
LEMMA InsertsFrom ==
    ASSUME program \in Seq(Statements), NEW n \in 0 .. Len(program), NEW B,
           \A k \in 1 .. n : program[k].verb = "insert" => program[k] \in B
    PROVE  InsertsBefore(n) \in Seq(B) /\ InsertsBefore(n) \in Seq(Statements)
<1>1. PICK p : p = SubSeq(program, 1, n)
  OBVIOUS
<1>2. p \in Seq(Statements) /\ Len(p) = n /\ \A i \in 1 .. n : p[i] = program[i]
  BY <1>1, ProgramPrefix
<1>3. PICK K : K = InsertPlaces(n)
  OBVIOUS
<1>4. \A i \in 1 .. n : i \in K => program[i].verb = "insert"
  BY <1>3 DEF InsertPlaces
<1>5. \A i \in 1 .. Len(p) : i \in K => p[i] \in B
  BY <1>2, <1>4
<1>6. p \in Seq(Statements)
  BY <1>2
<1>7. Picked(p, K) \in Seq(B) /\ Picked(p, K) \in Seq(Statements)
  BY <1>5, <1>6, PickedFrom
<1> QED
  BY <1>1, <1>3, <1>7, InsertsAre

\* A row is its fields, joined, and a newline (write_csv_row).
LEMMA RowWritten ==
    ASSUME NEW values
    PROVE  write_csv_row(values) = Joined(Fields(values)) \o <<Newline>>
BY Zenon DEF write_csv_row, Fields, Newline

\* A row and a header are lines of a file.
LEMMA RowType ==
    ASSUME NEW values \in Seq(Words), values # <<>>
    PROVE  write_csv_row(values) \in Texts
<1>1. PICK fields : fields = Fields(values)
  OBVIOUS
<1>2. fields \in Seq(Seq(Plain)) /\ fields # <<>>
  BY <1>1, FieldsShape DEF Words
<1>3. Joined(fields) \in Seq(Plain)
  <2>1. Comma \in Plain /\ Plain \subseteq Atoms
    BY PlainAtoms
  <2> QED
    BY <1>2, <2>1, JoinedPlaces
<1>4. Joined(fields) \o <<Newline>> \in Texts
  BY <1>3, LineRead
<1> QED
  BY <1>1, <1>4, RowWritten

\* A header is a line of a file.
LEMMA HeaderType ==
    ASSUME SchemaSound(columns), columns # <<>>
    PROVE  header_line \in Texts
<1>1. PICK names : names = ColumnNames
  OBVIOUS
<1>2. names \in Seq(Seq(Plain)) /\ names # <<>>
  <2>1. names \in Seq(Words) /\ Len(names) = Len(columns)
    BY <1>1, NamesOfColumns
  <2>2. Len(columns) # 0
    BY EmptySeq DEF SchemaSound, Schemas
  <2>3. names # <<>>
    BY <2>1, <2>2, EmptySeq
  <2> QED
    BY <2>1, <2>3 DEF Words
<1>3. Joined(names) \in Seq(Plain)
  <2>1. Comma \in Plain /\ Plain \subseteq Atoms
    BY PlainAtoms
  <2> QED
    BY <1>2, <2>1, JoinedPlaces
<1>4. Joined(names) \o <<Newline>> \in Texts
  BY <1>3, LineRead
<1>5. header_line = Joined(names) \o <<Newline>>
  BY <1>1, Zenon DEF header_line, Newline
<1> QED
  BY <1>4, <1>5

\* The file that these INSERTs make: nothing, or the header and their rows.
FileHolds(file, inserts) ==
    /\ file \in Seq(Texts)
    /\ inserts = <<>> => file = <<>>
    /\ inserts # <<>> =>
         /\ Len(file) = Len(inserts) + 1 /\ file[1] = header_line
         /\ \A i \in 1 .. Len(inserts) : file[i + 1] = write_csv_row(Told(inserts[i]))

\* One INSERT more appends its row, and the first one the header before it
\* (ensure_data_file, storage_append_row).
LEMMA FileGrows ==
    ASSUME NEW S, NEW inserts \in Seq(S), NEW file, FileHolds(file, inserts), NEW s \in S,
           header_line \in Texts, write_csv_row(Told(s)) \in Texts
    PROVE  FileHolds(Append(IF file = <<>> THEN <<header_line>> ELSE file, write_csv_row(Told(s))), Append(inserts, s))
<1>1. PICK row : row = write_csv_row(Told(s))
  OBVIOUS
<1>2. PICK was : was = IF file = <<>> THEN <<header_line>> ELSE file
  OBVIOUS
<1>3. PICK n : n = Len(inserts)
  OBVIOUS
<1>4. n \in Nat /\ (inserts = <<>> <=> n = 0)
  BY <1>3, LenProperties, EmptySeq
<1>5. /\ was \in Seq(Texts) /\ Len(was) = n + 1 /\ was[1] = header_line
      /\ \A i \in 1 .. n : was[i + 1] = write_csv_row(Told(inserts[i]))
  <2>1. CASE inserts = <<>>
    <3>1. file = <<>> /\ was = <<header_line>> /\ n = 0
      BY <1>2, <1>4, <2>1 DEF FileHolds
    <3>2. PICK h : h = header_line
      OBVIOUS
    <3>3. <<h>> \in Seq(Texts) /\ Len(<<h>>) = 1 /\ <<h>>[1] = h
      BY <3>2
    <3>4. \A i \in 1 .. n : FALSE
      BY <3>1
    <3> QED
      BY <3>1, <3>2, <3>3, <3>4
  <2>2. CASE inserts # <<>>
    <3>1. /\ file \in Seq(Texts) /\ Len(file) = n + 1 /\ file[1] = header_line
          /\ \A i \in 1 .. n : file[i + 1] = write_csv_row(Told(inserts[i]))
      BY <1>3, <2>2 DEF FileHolds
    <3>2. file # <<>>
      BY <1>4, <3>1, EmptySeq
    <3> QED
      BY <1>2, <3>1, <3>2
  <2> QED
    BY <2>1, <2>2
<1>6. PICK now : now = Append(was, row)
  OBVIOUS
<1>7. PICK all : all = Append(inserts, s)
  OBVIOUS
<1>8. /\ now \in Seq(Texts) /\ Len(now) = n + 2 /\ now[n + 2] = row
      /\ \A i \in 1 .. n + 1 : now[i] = was[i]
  <2>1. was \in Seq(Texts) /\ row \in Texts /\ n + 1 + 1 = n + 2 /\ Len(was) = n + 1
    BY <1>1, <1>4, <1>5
  <2> QED
    BY <1>6, <2>1, AppendProperties
<1>9. /\ all \in Seq(S) /\ Len(all) = n + 1 /\ all[n + 1] = s /\ all # <<>>
      /\ \A i \in 1 .. n : all[i] = inserts[i]
  BY <1>3, <1>7, AppendProperties
<1>10. now[1] = header_line
  BY <1>4, <1>5, <1>8
<1>11. ASSUME NEW i \in 1 .. n + 1 PROVE now[i + 1] = write_csv_row(Told(all[i]))
  <2>1. CASE i = n + 1
    <3>1. i + 1 = n + 2 /\ all[i] = s
      BY <1>4, <1>9, <2>1
    <3> QED
      BY <1>1, <1>8, <3>1
  <2>2. CASE i # n + 1
    <3>1. i \in 1 .. n /\ i + 1 \in 1 .. n + 1
      BY <1>4, <2>2
    <3>2. now[i + 1] = was[i + 1] /\ all[i] = inserts[i]
      BY <1>8, <1>9, <3>1
    <3> QED
      BY <1>5, <3>1, <3>2
  <2> QED
    BY <2>1, <2>2
<1>12. Len(now) = Len(all) + 1 /\ Len(all) = n + 1
  BY <1>4, <1>8, <1>9
<1>13. FileHolds(now, all)
  BY <1>8, <1>9, <1>10, <1>11, <1>12 DEF FileHolds
<1> QED
  BY <1>1, <1>2, <1>6, <1>7, <1>13

\* INSERTs that fit the schema and the buffers.
Sound(s) == s \in Statements /\ WithinLimits(s) /\ InsertFits(s)

\* The rows of the file, read back, are what the INSERTs said.
LEMMA RowsTold ==
    ASSUME SchemaSound(columns), columns # <<>>, NEW inserts \in Seq(Statements),
           \A i \in 1 .. Len(inserts) : WithinLimits(inserts[i]) /\ InsertFits(inserts[i]),
           FileHolds(lines, inserts)
    PROVE  Rows = [i \in DOMAIN inserts |-> Told(inserts[i])]
<1>1. Len(inserts) \in Nat /\ DOMAIN inserts = 1 .. Len(inserts)
  BY LenProperties
<1>2. CASE inserts = <<>>
  <2>1. lines = <<>>
    BY <1>2 DEF FileHolds
  <2>2. Rows = <<>>
    BY <2>1, Zenon DEF Rows
  <2>3. DOMAIN inserts = {}
    BY <1>2
  <2>4. [i \in DOMAIN inserts |-> Told(inserts[i])] = <<>>
    BY <2>3
  <2> QED
    BY <2>2, <2>4
<1>3. CASE inserts # <<>>
  <2>1. /\ Len(lines) = Len(inserts) + 1 /\ lines \in Seq(Texts)
        /\ \A i \in 1 .. Len(inserts) : lines[i + 1] = write_csv_row(Told(inserts[i]))
    BY <1>3 DEF FileHolds
  <2>2. lines # <<>> /\ Len(lines) - 1 = Len(inserts)
    BY <1>1, <2>1, EmptySeq
  <2>3. Rows = [i \in 1 .. Len(lines) - 1 |-> parse_csv_line(lines[i + 1])]
    BY <2>2, Zenon DEF Rows
  <2>4. Rows = [i \in 1 .. Len(inserts) |-> parse_csv_line(lines[i + 1])]
    BY <2>2, <2>3
  <2>5. ASSUME NEW i \in 1 .. Len(inserts)
        PROVE  parse_csv_line(lines[i + 1]) = Told(inserts[i])
    <3>1. PICK s : s = inserts[i]
      OBVIOUS
    <3>2. s \in Statements /\ WithinLimits(s) /\ InsertFits(s)
      BY <3>1, ElementOfSeq
    <3>3. PICK told : told = Told(s)
      OBVIOUS
    <3>4. told \in Seq(Seq(Plain)) /\ Len(told) = Len(columns) /\ \A c \in 1 .. Len(columns) : Len(told[c]) < MAX_VALUE_LEN
      BY <3>2, <3>3, RowTold DEF Words
    <3>5. told # <<>>
      <4>1. Len(columns) # 0
        BY EmptySeq DEF SchemaSound, Schemas
      <4> QED
        BY <3>4, <4>1, EmptySeq
    <3>6. Len(told) <= MAX_COLUMNS /\ \A n \in 1 .. Len(told) : Len(told[n]) < MAX_VALUE_LEN
      BY <3>4 DEF SchemaSound
    <3>7. parse_csv_line(write_csv_row(told)) = told
      BY <3>4, <3>5, <3>6, RowRead
    <3> QED
      BY <2>1, <3>1, <3>3, <3>7
  <2> QED
    BY <1>1, <2>4, <2>5
<1> QED
  BY <1>2, <1>3

-----------------------------------------------------------------------------
(* The file in every state. *)

\* What is said of columns stays so while they stay.
LEMMA ColumnsKept ==
    ASSUME UNCHANGED columns, NEW s
    PROVE  /\ StatementFits(s)' <=> StatementFits(s)
           /\ Told(s)' = Told(s)
           /\ header_line' = header_line
           /\ Named(s)' = Named(s)
           /\ ColumnNames' = ColumnNames
<1>1. ColumnNames' = ColumnNames
  BY DEF ColumnNames
<1>2. Named(s)' = Named(s)
  BY <1>1 DEF Named
<1>3. \A c : find_schema_column(c)' = find_schema_column(c)
  BY DEF find_schema_column
<1>4. InsertFits(s)' <=> InsertFits(s)
  BY <1>1, <1>2, <1>3 DEF InsertFits
<1>5. SelectFits(s)' <=> SelectFits(s)
  BY <1>1, <1>2, <1>3 DEF SelectFits
<1>6. StatementFits(s)' <=> StatementFits(s)
  BY <1>4, <1>5 DEF StatementFits
<1>7. Told(s)' = Told(s)
  BY <1>2 DEF Told, Said
<1>8. header_line' = header_line
  BY <1>1 DEF header_line
<1> QED
  BY <1>1, <1>2, <1>6, <1>7, <1>8

\* A file holds the same rows while columns and program stay.
LEMMA HoldsKept ==
    ASSUME UNCHANGED columns, NEW file, NEW inserts
    PROVE  FileHolds(file, inserts)' <=> FileHolds(file, inserts)
<1>1. \A s : Told(s)' = Told(s)
  BY ColumnsKept
<1>2. header_line' = header_line
  BY ColumnsKept
<1> QED
  BY <1>1, <1>2 DEF FileHolds

\* Whether a statement runs depends on columns, program and file.
LEMMA RunsKept ==
    ASSUME UNCHANGED <<columns, lines, executed, program>>
    PROVE  Runs(next_statement)' <=> Runs(next_statement)
<1>1. PICK s : s = next_statement
  OBVIOUS
<1>2. next_statement' = s
  BY <1>1 DEF next_statement
<1>3. StatementFits(s)' <=> StatementFits(s)
  BY ColumnsKept
<1>4. HeaderIsValid' <=> HeaderIsValid
  BY ColumnsKept DEF HeaderIsValid
<1>5. Rows' = Rows
  BY DEF Rows
<1>6. FileIsValid(s)' <=> FileIsValid(s)
  BY <1>4, <1>5 DEF FileIsValid
<1>7. Runs(s)' <=> Runs(s)
  BY <1>3, <1>6 DEF Runs
<1>8. Runs(next_statement) <=> Runs(s)
  BY <1>1
<1>9. Runs(next_statement)' <=> Runs(s)'
  BY <1>2 DEF Runs, StatementFits, FileIsValid, InsertFits, SelectFits, Named
<1> QED
  BY <1>7, <1>8, <1>9

\* The file holds a row for each INSERT executed, each executed statement fits the
\* schema, nothing is executed before the parser is done, and the program stops at
\* a statement that cannot run.
Ran ==
    /\ SchemaSound(columns)
    /\ executed \in 0 .. Len(program)
    /\ parsing # "done" => executed = 0 /\ lines = <<>> /\ printed = <<>> /\ executing = "running"
    /\ \A k \in 1 .. executed : StatementFits(program[k])
    /\ FileHolds(lines, InsertsBefore(executed))
    /\ executing = "failed" => executed < Len(program) /\ ~Runs(next_statement)

\* Nothing is executed at first, and a schema that loads is sound.
LEMMA RanInit == Init => Ran
<1> SUFFICES ASSUME Init PROVE Ran
  OBVIOUS
<1>1. schema_file \in Texts /\ columns = load_table_schema(schema_file)
  BY InputsAssumption DEF Init, Texts
<1>2. SchemaSound(columns)
  BY <1>1, LoadedIsSound
<1>3. program = <<>> /\ parsing = "running" /\ lines = <<>> /\ executed = 0 /\ printed = <<>> /\ executing = "running"
  BY DEF Init, ParserInit
<1>4. Len(program) = 0
  BY <1>3
<1>5. FileHolds(lines, InsertsBefore(executed))
  BY <1>3, NoInsertsYet, EmptySeq DEF FileHolds
<1> QED
  BY <1>2, <1>3, <1>4, <1>5 DEF Ran

\* The program is fixed before anything is executed.
LEMMA RanParsing ==
    ASSUME Ran, UNCHANGED <<columns, execution_vars>>, parsing # "done",
           program' \in Seq(Statements)
    PROVE  Ran'
<1>1. executed = 0 /\ lines = <<>> /\ printed = <<>> /\ executing = "running" /\ SchemaSound(columns)
  BY DEF Ran
<1>2. executed' = 0 /\ lines' = <<>> /\ printed' = <<>> /\ executing' = "running"
  BY <1>1 DEF execution_vars
<1>3. Len(program') \in Nat
  BY LenProperties
<1>4. SchemaSound(columns)'
  BY <1>1 DEF SchemaSound, NamesDiffer
<1>5. InsertsBefore(executed)' = <<>>
  <2>1. SubSeq(program', 1, 0) = <<>>
    BY SubSeqEmpty
  <2>2. InsertsBefore(executed)' = Picked(SubSeq(program', 1, 0), {k \in 1 .. 0 : program'[k].verb = "insert"})
    BY <1>2 DEF InsertsBefore
  <2> QED
    BY <2>1, <2>2, PickedNone
<1>6. FileHolds(lines, InsertsBefore(executed))'
  BY <1>2, <1>5, EmptySeq DEF FileHolds
<1>7. (\A k \in 1 .. executed : StatementFits(program[k]))'
  BY <1>2
<1>8. (executed \in 0 .. Len(program))'
  BY <1>2, <1>3
<1> QED
  BY <1>2, <1>4, <1>6, <1>7, <1>8 DEF Ran

\* Nothing of what is executed changes.
LEMMA RanSame ==
    ASSUME Ran, UNCHANGED <<columns, program, parsing, execution_vars>>
    PROVE  Ran'
<1>1. UNCHANGED <<lines, executed, printed, executing>>
  BY DEF execution_vars
<1>2. SchemaSound(columns)'
  BY DEF Ran, SchemaSound, NamesDiffer
<1>3. PICK inserts : inserts = InsertsBefore(executed)
  OBVIOUS
<1>4. InsertsBefore(executed)' = inserts
  BY <1>1, <1>3 DEF InsertsBefore
<1>5. FileHolds(lines, InsertsBefore(executed))'
  <2>1. PICK file : file = lines
    OBVIOUS
  <2>2. FileHolds(file, inserts)
    BY <1>3, <2>1 DEF Ran
  <2>3. FileHolds(file, inserts)'
    BY <2>2, HoldsKept
  <2>4. lines' = file
    BY <1>1, <2>1
  <2> QED
    BY <1>4, <2>3, <2>4 DEF FileHolds
<1>6. (\A k \in 1 .. executed : StatementFits(program[k]))'
  <2>1. \A s : StatementFits(s)' <=> StatementFits(s)
    BY ColumnsKept
  <2>2. \A k \in 1 .. executed : StatementFits(program[k])
    BY DEF Ran
  <2> QED
    BY <1>1, <2>1, <2>2 DEF StatementFits
<1>7. Runs(next_statement)' <=> Runs(next_statement)
  BY <1>1, RunsKept
<1> QED
  BY <1>1, <1>2, <1>5, <1>6, <1>7 DEF Ran

\* What stays of Ran while one statement is executed.
LEMMA RanStep ==
    ASSUME Ran, parsing = "done", executed < Len(program), StatementFits(next_statement),
           UNCHANGED <<columns, program, parsing, executing>>, executing = "running", executed' = executed + 1,
           FileHolds(lines', InsertsBefore(executed + 1))
    PROVE  Ran'
<1>0. executed \in 0 .. Len(program) /\ executed < Len(program)
  BY DEF Ran
<1>1. SchemaSound(columns)'
  BY DEF Ran, SchemaSound, NamesDiffer
<1>2. PICK inserts : inserts = InsertsBefore(executed + 1)
  OBVIOUS
<1>3. InsertsBefore(executed)' = inserts
  BY <1>2 DEF InsertsBefore
<1>4. FileHolds(lines, InsertsBefore(executed))'
  <2>1. PICK file : file = lines'
    OBVIOUS
  <2>2. FileHolds(file, inserts)
    BY <1>2, <2>1
  <2>3. FileHolds(file, inserts)'
    BY <2>2, HoldsKept
  <2> QED
    BY <1>3, <2>1, <2>3 DEF FileHolds
<1>5. (\A k \in 1 .. executed : StatementFits(program[k]))'
  <2>1. \A s : StatementFits(s)' <=> StatementFits(s)
    BY ColumnsKept
  <2>2. \A k \in 1 .. executed : StatementFits(program[k])
    BY DEF Ran
  <2>3. StatementFits(program[executed + 1])
    BY DEF next_statement
  <2>4. \A k \in 1 .. executed + 1 : k \in 1 .. executed \/ k = executed + 1
    BY <1>0
  <2>5. \A k \in 1 .. executed + 1 : StatementFits(program[k])
    BY <2>2, <2>3, <2>4
  <2> QED
    BY <2>1, <2>5 DEF StatementFits
<1>6. (executed \in 0 .. Len(program))'
  <2>1. executed + 1 \in 0 .. Len(program)
    BY <1>0
  <2> QED
    BY <2>1
<1> QED
  BY <1>1, <1>4, <1>5, <1>6 DEF Ran

\* The statement that runs is of the program.
LEMMA NextSound ==
    ASSUME Shape, Ran, executed < Len(program)
    PROVE  /\ next_statement \in Statements /\ WithinLimits(next_statement)
           /\ program \in Seq(Statements) /\ executed \in 0 .. Len(program)
<1>1. program \in Seq(Statements) /\ \A k \in DOMAIN program : WithinLimits(program[k])
  BY DEF Shape, ParserShape, ProgramFits
<1>2. Len(program) \in Nat /\ DOMAIN program = 1 .. Len(program)
  BY <1>1, LenProperties
<1>3. executed \in 0 .. Len(program) /\ executed + 1 \in 1 .. Len(program)
  BY <1>2 DEF Ran
<1>4. program[executed + 1] \in Statements /\ WithinLimits(program[executed + 1])
  BY <1>1, <1>2, <1>3, ElementOfSeq
<1> QED
  BY <1>1, <1>3, <1>4 DEF next_statement

\* The INSERTs executed are of the program and fit.
LEMMA InsertsSound ==
    ASSUME Shape, Ran
    PROVE  /\ InsertsBefore(executed) \in Seq(Statements)
           /\ \A i \in 1 .. Len(InsertsBefore(executed)) :
                WithinLimits(InsertsBefore(executed)[i]) /\ InsertFits(InsertsBefore(executed)[i])
           /\ InsertsBefore(executed) # <<>> => columns # <<>>
<1>1. program \in Seq(Statements) /\ \A k \in DOMAIN program : WithinLimits(program[k])
  BY DEF Shape, ParserShape, ProgramFits
<1>2. executed \in 0 .. Len(program) /\ Len(program) \in Nat /\ DOMAIN program = 1 .. Len(program)
  BY <1>1, LenProperties DEF Ran
<1> DEFINE B == {s \in Statements : WithinLimits(s) /\ InsertFits(s) /\ columns # <<>>}
<1>3. ASSUME NEW k \in 1 .. executed, program[k].verb = "insert"
      PROVE  program[k] \in B
  <2>1. k \in 1 .. Len(program)
    BY <1>2
  <2>2. program[k] \in Statements /\ WithinLimits(program[k])
    BY <1>1, <1>2, <2>1, ElementOfSeq
  <2>3. StatementFits(program[k])
    BY DEF Ran
  <2>4. InsertFits(program[k]) /\ columns # <<>>
    BY <1>3, <2>3 DEF StatementFits
  <2> QED
    BY <2>2, <2>4
<1>4. PICK inserts : inserts = InsertsBefore(executed)
  OBVIOUS
<1> HIDE DEF B
<1>5. inserts \in Seq(B) /\ inserts \in Seq(Statements)
  BY <1>1, <1>2, <1>3, <1>4, InsertsFrom
<1>6. \A i \in 1 .. Len(inserts) : inserts[i] \in B
  BY <1>5, ElementOfSeq
<1>7. \A i \in 1 .. Len(inserts) : WithinLimits(inserts[i]) /\ InsertFits(inserts[i]) /\ columns # <<>>
  BY <1>6 DEF B
<1>8. inserts # <<>> => 1 \in 1 .. Len(inserts)
  BY <1>5, EmptySeq, LenProperties
<1> QED
  BY <1>4, <1>5, <1>7, <1>8

\* An INSERT that runs adds its row to the file.
LEMMA InsertRan ==
    ASSUME Shape, Ran, parsing = "done", executing = "running", UNCHANGED <<columns, program, parsing>>,
           execute_insert(next_statement)
    PROVE  Ran'
<1>1. PICK s : s = next_statement
  OBVIOUS
<1>2. /\ executed < Len(program) /\ StatementFits(s) /\ s.verb = "insert"
      /\ lines' = Append(ensure_data_file, write_csv_row(row_values(s)))
      /\ executed' = executed + 1 /\ executing' = executing
  BY <1>1 DEF execute_insert, Runs
<1>3. /\ s \in Statements /\ WithinLimits(s) /\ program \in Seq(Statements) /\ executed \in 0 .. Len(program)
      /\ s = program[executed + 1]
  BY <1>1, <1>2, NextSound DEF next_statement
<1>4. columns # <<>> /\ InsertFits(s)
  BY <1>2 DEF StatementFits
<1>5. SchemaSound(columns)
  BY DEF Ran
<1>6. row_values(s) = Told(s) /\ Told(s) \in Seq(Words) /\ Len(Told(s)) = Len(columns)
  BY <1>3, <1>4, <1>5, RowTold
<1>7. write_csv_row(Told(s)) \in Texts /\ header_line \in Texts
  <2>1. PICK told : told = Told(s)
    OBVIOUS
  <2>2. Len(columns) # 0
    BY <1>4, <1>5, EmptySeq DEF SchemaSound, Schemas
  <2>3. told \in Seq(Words) /\ told # <<>>
    BY <1>6, <2>1, <2>2, EmptySeq
  <2> QED
    BY <1>4, <1>5, <2>1, <2>3, RowType, HeaderType
<1>8. PICK inserts : inserts = InsertsBefore(executed)
  OBVIOUS
<1>9. inserts \in Seq(Statements)
  BY <1>8, InsertsSound
<1>10. InsertsBefore(executed + 1) = Append(inserts, s)
  BY <1>2, <1>3, <1>8, InsertsGrow
<1>11. FileHolds(lines, inserts)
  BY <1>8 DEF Ran
<1>12. FileHolds(lines', InsertsBefore(executed + 1))
  <2>1. lines' = Append(IF lines = <<>> THEN <<header_line>> ELSE lines, write_csv_row(Told(s)))
    BY <1>2, <1>6 DEF ensure_data_file
  <2>2. FileHolds(Append(IF lines = <<>> THEN <<header_line>> ELSE lines, write_csv_row(Told(s))), Append(inserts, s))
    BY <1>3, <1>7, <1>9, <1>11, FileGrows
  <2> QED
    BY <1>10, <2>1, <2>2
<1> QED
  BY <1>1, <1>2, <1>12, RanStep

\* A SELECT leaves the file alone.
LEMMA SelectRan ==
    ASSUME Shape, Ran, parsing = "done", executing = "running", UNCHANGED <<columns, program, parsing>>,
           execute_select(next_statement)
    PROVE  Ran' /\ InsertsBefore(executed + 1) = InsertsBefore(executed)
<1>1. PICK s : s = next_statement
  OBVIOUS
<1>2. /\ executed < Len(program) /\ StatementFits(s) /\ s.verb = "select"
      /\ lines' = lines /\ executed' = executed + 1 /\ executing' = executing
  BY <1>1 DEF execute_select, Runs
<1>3. program \in Seq(Statements) /\ executed \in 0 .. Len(program) /\ s = program[executed + 1]
  BY <1>1, <1>2, NextSound DEF next_statement
<1>4. InsertsBefore(executed + 1) = InsertsBefore(executed)
  <2>1. program[executed + 1].verb # "insert"
    BY <1>2, <1>3
  <2> QED
    BY <1>2, <1>3, <2>1, InsertsGrow
<1>5. FileHolds(lines', InsertsBefore(executed + 1))
  BY <1>2, <1>4 DEF Ran
<1> QED
  BY <1>1, <1>2, <1>4, <1>5, RanStep

\* A statement that cannot run ends the program.
LEMMA FailRan ==
    ASSUME Ran, parsing = "done", executing = "running", UNCHANGED <<columns, program, parsing>>,
           StatementFails \/ EndOfProgram
    PROVE  Ran'
<1>1. /\ UNCHANGED <<lines, executed, printed>>
      /\ executing' = "failed" => executed < Len(program) /\ ~Runs(next_statement)
  BY DEF StatementFails, EndOfProgram
<1>2. SchemaSound(columns)'
  BY DEF Ran, SchemaSound, NamesDiffer
<1>3. PICK inserts : inserts = InsertsBefore(executed)
  OBVIOUS
<1>4. InsertsBefore(executed)' = inserts
  BY <1>1, <1>3 DEF InsertsBefore
<1>5. FileHolds(lines, InsertsBefore(executed))'
  <2>1. PICK file : file = lines
    OBVIOUS
  <2>2. FileHolds(file, inserts)
    BY <1>3, <2>1 DEF Ran
  <2>3. FileHolds(file, inserts)'
    BY <2>2, HoldsKept
  <2>4. lines' = file
    BY <1>1, <2>1
  <2> QED
    BY <1>4, <2>3, <2>4 DEF FileHolds
<1>6. (\A k \in 1 .. executed : StatementFits(program[k]))'
  <2>1. \A s : StatementFits(s)' <=> StatementFits(s)
    BY ColumnsKept
  <2>2. \A k \in 1 .. executed : StatementFits(program[k])
    BY DEF Ran
  <2> QED
    BY <1>1, <2>1, <2>2 DEF StatementFits
<1>7. Runs(next_statement)' <=> Runs(next_statement)
  BY <1>1, RunsKept
<1> QED
  BY <1>1, <1>2, <1>5, <1>6, <1>7 DEF Ran

\* Every step keeps Ran.
LEMMA RanKept ==
    ASSUME Shape, Ran, [Next]_vars
    PROVE  Ran'
<1>1. CASE UNCHANGED vars
  BY <1>1, RanSame DEF vars, parser_vars, execution_vars
<1>2. CASE Tokenize /\ UNCHANGED <<columns, parser_vars, execution_vars>>
  BY <1>2, RanSame DEF parser_vars
<1>3. CASE Parse /\ UNCHANGED <<columns, tokenizer_vars, execution_vars>>
  <2>1. parsing # "done"
    BY <1>3 DEF Parse
  <2>2. program' \in Seq(Statements)
    BY <1>3, ParseKeepsShape DEF ParserShape
  <2> QED
    BY <1>3, <2>1, <2>2, RanParsing
<1>4. CASE Execute /\ UNCHANGED <<columns, tokenizer_vars, parser_vars>>
  <2>1. parsing = "done" /\ executing = "running" /\ UNCHANGED <<columns, program, parsing>>
    BY <1>4 DEF Execute, parser_vars
  <2>2. \/ execute_insert(next_statement) \/ execute_select(next_statement)
        \/ StatementFails \/ EndOfProgram
    BY <1>4 DEF Execute
  <2> QED
    BY <2>1, <2>2, InsertRan, SelectRan, FailRan
<1> QED
  BY <1>1, <1>2, <1>3, <1>4 DEF Next

\* A file that holds the rows of the INSERTs gives back what they said.
LEMMA RanReadsBack ==
    ASSUME Shape, Ran
    PROVE  RowsReadBack
<1>1. PICK inserts : inserts = InsertsBefore(executed)
  OBVIOUS
<1>2. /\ inserts \in Seq(Statements)
      /\ \A i \in 1 .. Len(inserts) : WithinLimits(inserts[i]) /\ InsertFits(inserts[i])
      /\ inserts # <<>> => columns # <<>>
  BY <1>1, InsertsSound
<1>3. FileHolds(lines, inserts) /\ SchemaSound(columns)
  BY <1>1 DEF Ran
<1>4. lines = <<>> <=> inserts = <<>>
  <2>1. inserts # <<>> => Len(lines) = Len(inserts) + 1 /\ Len(inserts) \in Nat
    BY <1>2, <1>3, LenProperties DEF FileHolds
  <2>2. inserts # <<>> => Len(lines) # 0
    BY <2>1
  <2>3. lines = <<>> => Len(lines) = 0
    BY EmptySeq
  <2> QED
    BY <1>3, <2>2, <2>3 DEF FileHolds
<1>5. inserts # <<>> => Rows = [i \in DOMAIN inserts |-> Told(inserts[i])]
  BY <1>2, <1>3, RowsTold
<1>6. [i \in DOMAIN inserts |-> Told(inserts[i])]
        = [i \in DOMAIN inserts |-> [c \in DOMAIN columns |-> Said(inserts[i], c)]]
  BY Zenon DEF Told
<1>7. inserts # <<>> => Rows = [i \in DOMAIN inserts |-> [c \in DOMAIN columns |-> Said(inserts[i], c)]]
  BY <1>5, <1>6
<1> QED
  BY <1>1, <1>4, <1>7 DEF RowsReadBack

\* For any schema file, any text and any limits: after every statement the data file,
\* read back, is one row for each INSERT executed, in their order, and every column has
\* the text that the INSERT gave it, whatever the order of its column list and whatever
\* characters the text has (build_insert_row_values, write_csv_row, parse_csv_line).
THEOREM TextRowsReadBack == Spec => []RowsReadBack
<1>1. Init => Shape /\ Ran
  BY InitShape, RanInit
<1>2. Shape /\ Ran /\ [Next]_vars => (Shape /\ Ran)'
  BY NextKeepsShape, RanKept
<1>3. Shape /\ Ran => RowsReadBack
  BY RanReadsBack
<1> QED
  BY <1>1, <1>2, <1>3, PTL DEF Spec

\* No column name has a quote.  A header writes such a name in quotes, which doubles the
\* quotes in it, and then may not read as the schema says: the hypothesis of
\* TextOnlyBadStatementsFail.  The schema files of the run text have it; the run
\* text_header has one without it, where the property fails.
NamesUnquoted == \A c \in DOMAIN columns : \A i \in DOMAIN columns[c].name : columns[c].name[i] # DoubleQuote

\* The characters for which a value is written in quotes.
LEMMA MarksAre == \A x : x \in Marks => x = Comma \/ x = DoubleQuote \/ x = Newline
  BY Zenon DEF Marks, Comma, Newline

\* A name without a quote is written as it is.
LEMMA NameWritten ==
    ASSUME NEW name \in EntryTexts, name \in Words, \A i \in DOMAIN name : name[i] # DoubleQuote
    PROVE  write_csv_field(name) = name
<1>1. DOMAIN name = 1 .. Len(name)
  BY LenProperties DEF Words
<1>2. ASSUME NEW i \in DOMAIN name PROVE name[i] \notin Marks
  <2>1. name[i] \in Plain \ {Comma}
    BY <1>1, ElementOfSeq DEF EntryTexts
  <2>2. Newline \notin Plain
    BY PlainAtoms
  <2> QED
    BY <2>1, <2>2, MarksAre
<1> QED
  BY <1>2, Zenon DEF write_csv_field

\* The header is read as the names it was written from.
LEMMA HeaderRead ==
    ASSUME SchemaSound(columns), NamesUnquoted, columns # <<>>
    PROVE  parse_csv_line(header_line) = ColumnNames
<1>1. PICK names : names = ColumnNames
  OBVIOUS
<1>2. /\ names \in Seq(Words) /\ Len(names) = Len(columns) /\ DOMAIN names = 1 .. Len(columns)
      /\ DOMAIN columns = 1 .. Len(columns)
      /\ \A c \in 1 .. Len(columns) : names[c] = columns[c].name
  BY <1>1, NamesOfColumns
<1>3. names # <<>>
  <2>1. Len(columns) # 0
    BY EmptySeq DEF SchemaSound, Schemas
  <2> QED
    BY <1>2, <2>1, EmptySeq
<1>4. ASSUME NEW c \in 1 .. Len(columns)
      PROVE  /\ Len(names[c]) < MAX_VALUE_LEN
             /\ write_csv_field(names[c]) = names[c]
  <2>1. PICK name : name = names[c]
    OBVIOUS
  <2>2. name \in Words /\ name \in EntryTexts /\ Len(name) < MAX_NAME_LEN
    BY <1>2, <2>1 DEF SchemaSound
  <2>3. \A i \in DOMAIN name : name[i] # DoubleQuote
    BY <1>2, <2>1 DEF NamesUnquoted
  <2>4. Len(name) < MAX_VALUE_LEN
    <3>1. Len(name) \in Nat /\ MAX_VALUE_LEN \in Nat
      BY <2>2, LenProperties, LimitsAssumption DEF Words
    <3> QED
      BY <2>2, <3>1, LimitsAssumption
  <2>5. write_csv_field(name) = name
    BY <2>2, <2>3, NameWritten
  <2> QED
    BY <2>1, <2>4, <2>5
<1>5. Fields(names) = names
  <2>1. Fields(names) = [c \in 1 .. Len(columns) |-> names[c]]
    BY <1>2, <1>4 DEF Fields
  <2> QED
    BY <1>2, <2>1
<1>6. write_csv_row(names) = header_line
  <2>1. write_csv_row(names) = Joined(names) \o <<Newline>>
    BY <1>5, RowWritten
  <2> QED
    BY <1>1, <2>1, Zenon DEF header_line, Newline
<1>7. parse_csv_line(write_csv_row(names)) = names
  <2>1. names \in Seq(Seq(Plain))
    BY <1>2 DEF Words
  <2>2. Len(names) <= MAX_COLUMNS
    BY <1>2 DEF SchemaSound
  <2>3. \A n \in 1 .. Len(names) : Len(names[n]) < MAX_VALUE_LEN
    BY <1>2, <1>4
  <2> QED
    BY <1>3, <2>1, <2>2, <2>3, RowRead
<1> QED
  BY <1>1, <1>6, <1>7

\* What the INSERTs left in the file is what a statement takes.
LEMMA FileTaken ==
    ASSUME Shape, Ran, NamesUnquoted, NEW s
    PROVE  FileIsValid(s)
<1>1. PICK inserts : inserts = InsertsBefore(executed)
  OBVIOUS
<1>2. /\ inserts \in Seq(Statements)
      /\ \A i \in 1 .. Len(inserts) : WithinLimits(inserts[i]) /\ InsertFits(inserts[i])
      /\ inserts # <<>> => columns # <<>>
  BY <1>1, InsertsSound
<1>3. FileHolds(lines, inserts) /\ SchemaSound(columns)
  BY <1>1 DEF Ran
<1> SUFFICES ASSUME lines # <<>>
             PROVE  HeaderIsValid /\ \A i \in DOMAIN Rows : Len(Rows[i]) = Len(columns)
  BY DEF FileIsValid
<1>4. inserts # <<>> /\ lines[1] = header_line
  BY <1>3 DEF FileHolds
<1>5. HeaderIsValid
  BY <1>2, <1>3, <1>4, HeaderRead DEF HeaderIsValid
<1>6. Rows = [i \in DOMAIN inserts |-> Told(inserts[i])] /\ DOMAIN inserts = 1 .. Len(inserts)
  BY <1>2, <1>3, <1>4, RowsTold, LenProperties
<1>7. ASSUME NEW i \in DOMAIN Rows PROVE Len(Rows[i]) = Len(columns)
  <2>1. i \in 1 .. Len(inserts) /\ Rows[i] = Told(inserts[i])
    BY <1>6
  <2>2. PICK t : t = inserts[i]
    OBVIOUS
  <2>3. t \in Statements /\ WithinLimits(t) /\ InsertFits(t)
    BY <1>2, <2>1, <2>2, ElementOfSeq
  <2>4. Len(Told(t)) = Len(columns)
    BY <1>3, <2>3, RowTold
  <2> QED
    BY <2>1, <2>2, <2>4
<1> QED
  BY <1>5, <1>7

\* For any schema file without a quote in a column name, any text and any limits: what
\* INSERTs leave in the file, its header and its rows, is accepted by every later
\* statement, so a statement fails only for what it says itself (ensure_data_file,
\* validate_header_values, storage_print_rows).
THEOREM TextOnlyBadStatementsFail == Spec /\ NamesUnquoted => []OnlyBadStatementsFail
<1>1. Init => Shape /\ Ran
  BY InitShape, RanInit
<1>2. Shape /\ Ran /\ NamesUnquoted /\ [Next]_vars => (Shape /\ Ran /\ NamesUnquoted)'
  <2> SUFFICES ASSUME Shape, Ran, NamesUnquoted, [Next]_vars
               PROVE  (Shape /\ Ran)' /\ NamesUnquoted'
    OBVIOUS
  <2>1. columns' = columns
    BY DEF Next, vars
  <2>2. NamesUnquoted'
    BY <2>1 DEF NamesUnquoted
  <2> QED
    BY <2>2, NextKeepsShape, RanKept
<1>3. Shape /\ Ran /\ NamesUnquoted => OnlyBadStatementsFail
  <2> SUFFICES ASSUME Shape, Ran, NamesUnquoted, executing = "failed"
               PROVE  ~StatementFits(next_statement)
    BY DEF OnlyBadStatementsFail
  <2>1. PICK s : s = next_statement
    OBVIOUS
  <2>2. executed < Len(program) /\ ~Runs(s)
    BY <2>1 DEF Ran
  <2>3. FileIsValid(s)
    BY FileTaken
  <2> QED
    BY <2>1, <2>2, <2>3 DEF Runs
<1> QED
  BY <1>1, <1>2, <1>3, PTL DEF Spec

-----------------------------------------------------------------------------
(* What SELECT prints. *)

\* A condition, if there is one, has an operator.
Compares(where) == where # <<>> => where[2].type \in Operators \cup {"!="}

\* What is read of the condition at every place.
ConditionShape ==
    /\ expecting = "operator" => Len(statement.where) = 1
    /\ expecting = "where value" => Len(statement.where) = 2 /\ statement.where[2].type \in Operators \cup {"!="}
    /\ expecting = ";" => Compares(statement.where)
    /\ expecting \notin {"statement", "operator", "where value", ";"} => statement.where = <<>>
    /\ \A k \in DOMAIN program : Compares(program[k].where)

\* What the rules say of the places of a condition.
LEMMA ConditionRules ==
    ASSUME NEW place, NEW type, NEW next, <<place, type, next>> \in Grammar
    PROVE  /\ place = "where column" => next = "operator"
           /\ place = "operator" => type \in Operators \cup {"!="} /\ next = "where value"
           /\ place = "where value" => next = ";"
           /\ type = ";" => place \in {"where?", ";"} /\ next = "statement"
           /\ place = ";" => type = ";"
           /\ next \in {"operator", "where value"} => place \in Wheres
<1>1. \/ <<place, type, next>> \in FixedRules
      \/ place = "value" /\ type \in Literals /\ next = "more values"
      \/ place = "operator" /\ type \in Operators \cup {"!="} /\ next = "where value"
      \/ place = "where value" /\ type \in Literals /\ next = ";"
  BY DEF Grammar
<1>2. CASE <<place, type, next>> \in FixedRules
  BY <1>2 DEF FixedRules, Wheres
<1> QED
  BY <1>1, <1>2 DEF Wheres, Literals, Operators

\* Nothing is read of a condition at first.
LEMMA ConditionInit == ParserInit => ConditionShape
  BY DEF ParserInit, ConditionShape

\* Every step of the parser keeps ConditionShape.
LEMMA ConditionKept ==
    ASSUME Shape, ConditionShape, Parse, UNCHANGED tokenizer_vars
    PROVE  ConditionShape'
<1>1. tokenizing = "done" /\ TokensShape /\ TokensFit /\ ParserShape
  BY DEF Parse, Shape
<1>2. statement \in Statements /\ statement.where \in Seq(Lexemes)
  BY <1>1 DEF ParserShape, Statements
<1>3. ASSUME Take
      PROVE  token \in Tokens /\ <<expecting, token.type, expecting'>> \in Grammar
  BY <1>1, <1>3, TokenTaken
<1>4. ASSUME Take
      PROVE  /\ expecting = "where column" => expecting' = "operator"
             /\ expecting = "operator" => token.type \in Operators \cup {"!="} /\ expecting' = "where value"
             /\ expecting = "where value" => expecting' = ";"
             /\ token.type = ";" => expecting \in {"where?", ";"} /\ expecting' = "statement"
             /\ expecting = ";" => token.type = ";"
             /\ expecting' \in {"operator", "where value"} => expecting \in Wheres
  BY <1>3, <1>4, ConditionRules
<1>5. ASSUME Take, UNCHANGED program, expecting \notin Wheres \cup {";", "statement"},
             statement'.where = statement.where
      PROVE  ConditionShape'
  BY <1>4, <1>5 DEF ConditionShape, Compares, Wheres
<1>6. CASE BeginStatement
  <2>1. Take /\ UNCHANGED program /\ expecting = "statement" /\ statement'.where = <<>>
    BY <1>6 DEF BeginStatement
  <2>2. expecting' \notin {"operator", "where value"}
    BY <1>4, <2>1 DEF Wheres
  <2> QED
    BY <2>1, <2>2 DEF ConditionShape, Compares
<1>7. CASE TakeTable
  <2>1. Take /\ UNCHANGED program /\ expecting \in Tables /\ statement'.where = statement.where
    BY <1>2, <1>7 DEF TakeTable, Statements
  <2> QED
    BY <1>5, <2>1 DEF Tables, Wheres
<1>8. CASE TakeColumn
  <2>1. Take /\ UNCHANGED program /\ expecting \in Names /\ statement'.where = statement.where
    BY <1>2, <1>8 DEF TakeColumn, Statements
  <2> QED
    BY <1>5, <2>1 DEF Names, Wheres
<1>9. CASE TakeValue
  <2>1. Take /\ UNCHANGED program /\ expecting = "value" /\ statement'.where = statement.where
    BY <1>2, <1>9 DEF TakeValue, Statements
  <2> QED
    BY <1>5, <2>1 DEF Wheres
<1>10. CASE TakeWhere
  <2>1. Take /\ UNCHANGED program /\ expecting \in Wheres
    BY <1>10 DEF TakeWhere
  <2>2. PICK lexeme : lexeme = Lexeme(token.type, token.text)
    OBVIOUS
  <2>3. lexeme \in Lexemes /\ lexeme.type = token.type
    BY <1>3, <2>1, <2>2 DEF Tokens, Lexeme, Lexemes
  <2>4. PICK was : was = statement.where
    OBVIOUS
  <2>5. PICK longer : longer = Append(was, lexeme)
    OBVIOUS
  <2>6. statement'.where = longer
    BY <1>2, <1>10, <2>2, <2>4, <2>5 DEF TakeWhere, Statements
  <2>7. /\ was \in Seq(Lexemes) /\ longer \in Seq(Lexemes) /\ Len(longer) = Len(was) + 1
        /\ longer[Len(was) + 1] = lexeme /\ \A i \in 1 .. Len(was) : longer[i] = was[i]
        /\ Len(was) \in Nat
    BY <1>2, <2>3, <2>4, <2>5, AppendProperties, LenProperties
  <2>8. CASE expecting = "where column"
    <3>1. was = <<>> /\ expecting' = "operator"
      BY <1>4, <2>1, <2>4, <2>8 DEF ConditionShape
    <3>2. Len(longer) = 1
      BY <2>7, <3>1
    <3> QED
      BY <2>1, <2>6, <3>1, <3>2 DEF ConditionShape
  <2>9. CASE expecting = "operator"
    <3>1. Len(was) = 1 /\ expecting' = "where value" /\ token.type \in Operators \cup {"!="}
      BY <1>4, <2>1, <2>4, <2>9 DEF ConditionShape
    <3>a. Len(was) = 1
      BY <3>1
    <3>2. Len(was) + 1 = 2
      BY <3>a
    <3>3. Len(longer) = 2 /\ longer[2] = lexeme
      BY <2>7, <3>2
    <3> QED
      BY <2>1, <2>3, <2>6, <3>1, <3>3 DEF ConditionShape
  <2>10. CASE expecting = "where value"
    <3>1. Len(was) = 2 /\ expecting' = ";" /\ was[2].type \in Operators \cup {"!="}
      BY <1>4, <2>1, <2>4, <2>10 DEF ConditionShape
    <3>a. Len(was) = 2
      BY <3>1
    <3>2. 2 \in 1 .. Len(was)
      BY <3>a
    <3>3. longer[2] = was[2]
      BY <2>7, <3>2
    <3> QED
      BY <2>1, <2>6, <3>1, <3>3 DEF ConditionShape, Compares
  <2> QED
    BY <2>1, <2>8, <2>9, <2>10 DEF Wheres
<1>11. CASE TakeMark
  <2>1. Take /\ UNCHANGED <<statement, program>> /\ expecting \notin Wheres \cup {"statement"} /\ token.type # ";"
    BY <1>11 DEF TakeMark
  <2> QED
    BY <1>4, <1>5, <2>1
<1>12. CASE EndStatement
  <2>1. Take /\ UNCHANGED statement /\ token.type = ";" /\ program' = Append(program, statement)
    BY <1>12 DEF EndStatement
  <2>2. expecting \in {"where?", ";"} /\ expecting' = "statement"
    BY <1>4, <2>1
  <2>3. Compares(statement.where)
    BY <2>2 DEF ConditionShape, Compares
  <2>4. \A k \in DOMAIN program' : (k \in DOMAIN program /\ program'[k] = program[k]) \/ program'[k] = statement
    <3>1. program \in Seq(Statements)
      BY <1>1 DEF ParserShape
    <3>2. PICK longer : longer = Append(program, statement)
      OBVIOUS
    <3>3. \A k \in DOMAIN longer : (k \in DOMAIN program /\ longer[k] = program[k]) \/ longer[k] = statement
      BY <1>2, <3>1, <3>2, Appended
    <3> QED
      BY <2>1, <3>2, <3>3
  <2>5. \A k \in DOMAIN program' : Compares(program'[k].where)
    BY <2>3, <2>4 DEF ConditionShape
  <2>6. Compares(statement.where)'
    BY <2>1, <2>3 DEF Compares
  <2> QED
    BY <2>2, <2>5 DEF ConditionShape, Compares
<1>13. CASE EndOfTokens \/ ParseFails
  BY <1>13 DEF EndOfTokens, ParseFails, ConditionShape, Compares
<1> QED
  BY <1>6, <1>7, <1>8, <1>9, <1>10, <1>11, <1>12, <1>13 DEF Parse

\* The column that a name means.
LEMMA PlaceOf ==
    ASSUME SchemaSound(columns), NEW name \in ToSet(ColumnNames)
    PROVE  \E c \in 1 .. Len(columns) :
             /\ columns[c].name = name
             /\ find_schema_column(name) = c /\ Place(name) = c
             /\ IsNumber(name) <=> columns[c].type # <<"string">>
<1>1. PICK c \in 1 .. Len(columns) : columns[c].name = name
  BY NamesOfColumns
<1>2. find_schema_column(name) = c
  BY <1>1, NamesOfColumns
<1>3. Place(name) = c
  BY <1>2, Zenon DEF Place, find_schema_column
<1>4. columns[c].type \in DataTypes
  BY DEF SchemaSound
<1>5. columns[c].type = <<"int">> <=> columns[c].type # <<"string">>
  BY <1>4, DataTypesWords DEF DataTypes
<1>6. \A d \in DOMAIN columns : columns[d].name = name => d = c
  BY <1>1, NamesOfColumns
<1>7. c \in DOMAIN columns
  BY NamesOfColumns
<1>8. IsNumber(name) <=> columns[c].type = <<"int">>
  BY <1>1, <1>6, <1>7, Zenon DEF IsNumber
<1> QED
  BY <1>1, <1>2, <1>3, <1>5, <1>8

\* A row read from the file satisfies a condition when what its INSERT said does.
LEMMA RowMatches ==
    ASSUME SchemaSound(columns), NEW s, SelectFits(s), s.where # <<>>, Compares(s.where), NEW insert
    PROVE  csv_value_matches_where(Told(insert), s.where) <=> Satisfies(insert, s.where)
<1>1. PICK where : where = s.where
  OBVIOUS
<1>2. PICK name : name = where[1].text
  OBVIOUS
<1>3. name \in ToSet(ColumnNames)
  BY <1>1, <1>2 DEF SelectFits
<1>4. PICK c \in 1 .. Len(columns) :
         /\ columns[c].name = name
         /\ find_schema_column(name) = c /\ Place(name) = c
         /\ IsNumber(name) <=> columns[c].type # <<"string">>
  BY <1>3, PlaceOf
<1>5. PICK operator : operator = where[2].type
  OBVIOUS
<1>6. operator \in {"=", "!=", ">", "<"}
  BY <1>1, <1>5 DEF Compares, Operators
<1>7. columns[c].type = <<"string">> => operator \in {"=", "!="}
  BY <1>1, <1>2, <1>4, <1>5 DEF SelectFits
<1>8. PICK said : said = Said(insert, c)
  OBVIOUS
<1>9. Told(insert)[c] = said
  <2>1. c \in DOMAIN columns
    BY NamesOfColumns
  <2> QED
    BY <1>8, <2>1 DEF Told
<1>10. PICK text : text = where[3].text
  OBVIOUS
<1>11. csv_value_matches_where(Told(insert), where) <=>
         IF columns[c].type = <<"string">> THEN Compare(operator, said, text) ELSE Compare(operator, Number(said), Number(text))
  BY <1>2, <1>4, <1>5, <1>9, <1>10, Zenon DEF csv_value_matches_where
<1>12. CASE columns[c].type = <<"string">>
  <2>1. ~IsNumber(name)
    BY <1>4, <1>12
  <2>2. Satisfies(insert, where) <=>
          CASE operator = "="  -> said = text
            [] operator = "!=" -> ~(said = text)
            [] operator = ">"  -> Number(said) > Number(text)
            [] operator = "<"  -> Number(said) < Number(text)
    BY <1>2, <1>4, <1>5, <1>8, <1>10, <2>1, Zenon DEF Satisfies
  <2>a. csv_value_matches_where(Told(insert), where) <=> Compare(operator, said, text)
    BY <1>11, <1>12
  <2>3. CASE operator = "="
    <3>1. Satisfies(insert, where) <=> said = text
      BY <2>2, <2>3, Zenon
    <3>2. Compare(operator, said, text) <=> said = text
      BY <2>3, Zenon DEF Compare
    <3> QED
      BY <1>1, <2>a, <3>1, <3>2
  <2>4. CASE operator = "!="
    <3>1. Satisfies(insert, where) <=> said # text
      BY <2>2, <2>4, Zenon
    <3>2. Compare(operator, said, text) <=> said # text
      BY <2>4, Zenon DEF Compare
    <3> QED
      BY <1>1, <2>a, <3>1, <3>2
  <2> QED
    BY <1>1, <1>7, <1>12, <2>3, <2>4
<1>13. CASE columns[c].type # <<"string">>
  <2>1. IsNumber(name)
    BY <1>4, <1>13
  <2>2. PICK a : a = Number(said)
    OBVIOUS
  <2>3. PICK b : b = Number(text)
    OBVIOUS
  <2>4. Satisfies(insert, where) <=>
          CASE operator = "="  -> a = b
            [] operator = "!=" -> ~(a = b)
            [] operator = ">"  -> a > b
            [] operator = "<"  -> a < b
    BY <1>2, <1>4, <1>5, <1>8, <1>10, <2>1, <2>2, <2>3, Zenon DEF Satisfies
  <2>5. csv_value_matches_where(Told(insert), where) <=> Compare(operator, a, b)
    BY <1>11, <1>13, <2>2, <2>3
  <2>6. Compare(operator, a, b) <=>
          CASE operator = "="  -> a = b
            [] operator = "!=" -> ~(a = b)
            [] operator = ">"  -> a > b
            [] operator = "<"  -> a < b
    BY <1>6 DEF Compare
  <2> QED
    BY <1>1, <2>4, <2>5, <2>6
<1> QED
  BY <1>12, <1>13

\* A SELECT prints its answer: the rows of the INSERTs before it that satisfy its
\* condition, with its columns (execute_select, storage_print_rows_where_equals).
LEMMA SelectPrints ==
    ASSUME Shape, Ran, ConditionShape, parsing = "done", executing = "running",
           UNCHANGED <<columns, program, parsing>>, execute_select(next_statement)
    PROVE  printed' = Append(printed, Answer(executed + 1))
<1>1. PICK s : s = next_statement
  OBVIOUS
<1>2. executed < Len(program) /\ StatementFits(s) /\ s.verb = "select"
  BY <1>1 DEF execute_select, Runs
<1>3. columns # <<>> /\ SelectFits(s)
  BY <1>2 DEF StatementFits
<1>4. SchemaSound(columns)
  BY DEF Ran
<1>5. s \in Statements /\ s = program[executed + 1] /\ executed + 1 \in DOMAIN program
  <2>1. program \in Seq(Statements) /\ executed \in 0 .. Len(program) /\ s \in Statements
    BY <1>1, <1>2, NextSound
  <2>2. executed + 1 \in 1 .. Len(program)
    BY <1>2, <2>1
  <2> QED
    BY <1>1, <2>1, <2>2, LenProperties DEF next_statement
<1>6. Compares(s.where)
  BY <1>5 DEF ConditionShape
<1>7. PICK inserts : inserts = InsertsBefore(executed)
  OBVIOUS
<1>8. inserts = InsertsBefore(executed + 1)
  BY <1>7, SelectRan
<1>9. /\ inserts \in Seq(Statements)
      /\ \A i \in 1 .. Len(inserts) : WithinLimits(inserts[i]) /\ InsertFits(inserts[i])
  BY <1>7, InsertsSound
<1>10. FileHolds(lines, inserts)
  BY <1>7 DEF Ran
<1>11. PICK rows : rows = Rows
  OBVIOUS
<1>12. rows = [i \in DOMAIN inserts |-> Told(inserts[i])]
  BY <1>3, <1>4, <1>9, <1>10, <1>11, RowsTold
<1>13. DOMAIN inserts = 1 .. Len(inserts) /\ Len(inserts) \in Nat /\ DOMAIN rows = DOMAIN inserts
  BY <1>9, <1>12, LenProperties
<1> DEFINE K_ == {i \in DOMAIN rows : s.where = <<>> \/ csv_value_matches_where(rows[i], s.where)}
           L_ == {i \in DOMAIN inserts : s.where = <<>> \/ Satisfies(inserts[i], s.where)}
           f_ == [x \in Statements |-> Told(x)]
           B_ == {Told(x) : x \in Statements}
<1>14. PICK K : K = K_
  OBVIOUS
<1>15. PICK L : L = L_
  OBVIOUS
<1>16. PICK f : f = f_
  OBVIOUS
<1>17. PICK B : B = B_
  OBVIOUS
<1>18. f \in [Statements -> B] /\ \A x \in Statements : f[x] = Told(x)
  BY <1>16, <1>17
<1>19. ASSUME NEW i \in 1 .. Len(inserts) PROVE i \in K <=> i \in L
  <2>1. rows[i] = Told(inserts[i]) /\ i \in DOMAIN rows /\ i \in DOMAIN inserts
    BY <1>12, <1>13
  <2>2. CASE s.where = <<>>
    BY <1>14, <1>15, <2>1, <2>2
  <2>3. CASE s.where # <<>>
    <3>1. PICK x : x = inserts[i]
      OBVIOUS
    <3>2. csv_value_matches_where(Told(x), s.where) <=> Satisfies(x, s.where)
      BY <1>3, <1>4, <1>6, <2>3, RowMatches
    <3> QED
      BY <1>14, <1>15, <2>1, <2>3, <3>1, <3>2
  <2> QED
    BY <2>2, <2>3
<1>20. rows = [i \in DOMAIN inserts |-> f[inserts[i]]]
  <2>1. \A i \in DOMAIN inserts : Told(inserts[i]) = f[inserts[i]]
    BY <1>9, <1>13, <1>18, ElementOfSeq
  <2> QED
    BY <1>12, <2>1
<1> HIDE DEF K_, L_, f_, B_
<1>21. PICK found : found = Picked(rows, K)
  OBVIOUS
<1>22. PICK told : told = Picked(inserts, L)
  OBVIOUS
<1>23. told = Picked(inserts, K)
  BY <1>9, <1>19, <1>22, PickedAgree
<1>24. /\ told \in Seq(Statements) /\ found \in Seq(B) /\ Len(found) = Len(told)
       /\ \A i \in 1 .. Len(told) : found[i] = f[told[i]]
  <2>1. f \in [Statements -> B]
    BY <1>18
  <2> QED
    BY <1>9, <1>20, <1>21, <1>23, <2>1, PickedMapped
<1>25. DOMAIN found = DOMAIN told /\ \A i \in DOMAIN told : found[i] = Told(told[i])
  <2>1. DOMAIN told = 1 .. Len(told) /\ DOMAIN found = 1 .. Len(found)
    BY <1>24, LenProperties
  <2>2. \A i \in 1 .. Len(told) : told[i] \in Statements
    BY <1>24, ElementOfSeq
  <2> QED
    BY <1>18, <1>24, <2>1, <2>2
<1>26. PICK names : names = Named(s)
  OBVIOUS
<1>27. PICK chosen : chosen = selected_indices(s)
  OBVIOUS
<1>28. DOMAIN chosen = DOMAIN names
  BY <1>26, <1>27 DEF selected_indices
<1>29. ASSUME NEW k \in DOMAIN names
       PROVE  chosen[k] = Place(names[k]) /\ chosen[k] \in DOMAIN columns
  <2>1. PICK name : name = names[k]
    OBVIOUS
  <2>2. name \in ToSet(ColumnNames)
    <3>1. name \in ToSet(Named(s))
      BY <1>26, <2>1 DEF ToSet
    <3> QED
      BY <1>3, <3>1 DEF SelectFits
  <2>3. PICK c \in 1 .. Len(columns) : find_schema_column(name) = c /\ Place(name) = c
    BY <1>4, <2>2, PlaceOf
  <2>4. chosen[k] = find_schema_column(name)
    BY <1>26, <1>27, <2>1 DEF selected_indices
  <2>5. DOMAIN columns = 1 .. Len(columns)
    BY <1>4 DEF SchemaSound
  <2> QED
    BY <2>1, <2>3, <2>4, <2>5
<1>30. ASSUME NEW x, NEW k \in DOMAIN names
       PROVE  Told(x)[chosen[k]] = Said(x, Place(names[k]))
  <2>1. PICK c : c = chosen[k]
    OBVIOUS
  <2>2. c \in DOMAIN columns /\ c = Place(names[k])
    BY <1>29, <2>1
  <2>3. Told(x)[c] = Said(x, c)
    BY <2>2 DEF Told
  <2> QED
    BY <2>1, <2>2, <2>3
<1>31. [i \in DOMAIN found |-> [k \in DOMAIN chosen |-> found[i][chosen[k]]]]
        = [i \in DOMAIN told |-> [k \in DOMAIN names |-> Said(told[i], Place(names[k]))]]
  <2>1. \A i \in DOMAIN told : \A k \in DOMAIN names : found[i][chosen[k]] = Said(told[i], Place(names[k]))
    BY <1>25, <1>30
  <2>2. \A i \in DOMAIN told : [k \in DOMAIN names |-> found[i][chosen[k]]] = [k \in DOMAIN names |-> Said(told[i], Place(names[k]))]
    BY <2>1
  <2> QED
    BY <1>25, <1>28, <2>2
<1>32. printed' = Append(printed, [i \in DOMAIN found |-> [k \in DOMAIN chosen |-> found[i][chosen[k]]]])
  <2>1. found = Picked(Rows, {i \in DOMAIN Rows : s.where = <<>> \/ csv_value_matches_where(Rows[i], s.where)})
    BY <1>11, <1>14, <1>21 DEF K_
  <2> QED
    BY <1>1, <1>27, <2>1 DEF execute_select
<1>33. Answer(executed + 1) = [i \in DOMAIN told |-> [k \in DOMAIN names |-> Said(told[i], Place(names[k]))]]
  <2>1. told = Picked(inserts, {i \in DOMAIN inserts : s.where = <<>> \/ Satisfies(inserts[i], s.where)})
    BY <1>15, <1>22 DEF L_
  <2> QED
    BY <1>5, <1>8, <1>26, <2>1, Zenon DEF Answer
<1> QED
  BY <1>31, <1>32, <1>33

\* The places of the SELECTs among the first n statements, in their order.
Upto(n) == [k \in 1 .. n |-> k]
SelectList(n) == Picked(Upto(n), SelectPlaces(n))
Answers(n) == [i \in DOMAIN SelectList(n) |-> Answer(SelectList(n)[i])]

\* SelectsAnswer says that the answers so far are what is printed.
LEMMA AnswersAre == SelectsAnswer <=> printed = Answers(executed)
BY Zenon DEF SelectsAnswer, Answers, SelectList, SelectPlaces, Upto

\* Places up to one more.
LEMMA UptoGrows ==
    ASSUME NEW n \in Nat
    PROVE  /\ Upto(n) \in Seq(Nat) /\ Len(Upto(n)) = n
           /\ Upto(n + 1) = Append(Upto(n), n + 1)
<1>1. \A m \in Nat : Upto(m) \in Seq(Nat) /\ Len(Upto(m)) = m /\ \A i \in 1 .. m : Upto(m)[i] = i
  <2> SUFFICES ASSUME NEW m \in Nat
               PROVE  Upto(m) \in Seq(Nat) /\ Len(Upto(m)) = m /\ \A i \in 1 .. m : Upto(m)[i] = i
    OBVIOUS
  <2>1. PICK u : u = Upto(m)
    OBVIOUS
  <2>2. u \in [1 .. m -> Nat] /\ \A i \in 1 .. m : u[i] = i
    BY <2>1 DEF Upto
  <2>3. u \in Seq(Nat)
    BY <2>2, IsASeq
  <2>4. DOMAIN u = 1 .. m /\ DOMAIN u = 1 .. Len(u) /\ Len(u) \in Nat
    BY <2>2, <2>3, LenProperties
  <2>5. Len(u) = m
    BY <2>4
  <2> QED
    BY <2>1, <2>2, <2>3, <2>5
<1>2. PICK u : u = Upto(n)
  OBVIOUS
<1>3. PICK v : v = Upto(n + 1)
  OBVIOUS
<1>4. PICK w : w = Append(u, n + 1)
  OBVIOUS
<1>5. n + 1 \in Nat
  OBVIOUS
<1>6. u \in Seq(Nat) /\ Len(u) = n /\ \A i \in 1 .. n : u[i] = i
  BY <1>1, <1>2
<1>7. v \in Seq(Nat) /\ Len(v) = n + 1 /\ \A i \in 1 .. n + 1 : v[i] = i
  BY <1>1, <1>3, <1>5
<1>8. w \in Seq(Nat) /\ Len(w) = n + 1 /\ w[n + 1] = n + 1 /\ \A i \in 1 .. n : w[i] = u[i]
  BY <1>4, <1>5, <1>6, AppendProperties
<1>9. \A i \in 1 .. n + 1 : v[i] = w[i]
  BY <1>6, <1>7, <1>8
<1>10. v = w
  BY <1>7, <1>8, <1>9, SeqEqual
<1> QED
  BY <1>2, <1>3, <1>4, <1>6, <1>10

\* One statement more.
LEMMA SelectsGrow ==
    ASSUME NEW n \in Nat
    PROVE  /\ SelectList(n) \in Seq(Nat)
           /\ SelectList(n + 1) = IF program[n + 1].verb = "select"
                                  THEN Append(SelectList(n), n + 1) ELSE SelectList(n)
<1>1. PICK u : u = Upto(n)
  OBVIOUS
<1>2. u \in Seq(Nat) /\ Len(u) = n /\ Upto(n + 1) = Append(u, n + 1) /\ n + 1 \in Nat
  <2>1. Upto(n) \in Seq(Nat) /\ Len(Upto(n)) = n /\ Upto(n + 1) = Append(Upto(n), n + 1)
    BY UptoGrows
  <2>2. n + 1 \in Nat
    OBVIOUS
  <2> QED
    BY <1>1, <2>1, <2>2, Zenon
<1>3. PICK K : K = SelectPlaces(n)
  OBVIOUS
<1>4. PICK L : L = SelectPlaces(n + 1)
  OBVIOUS
<1>5. /\ \A i \in 1 .. n : i \in K <=> i \in L
      /\ n + 1 \in L <=> program[n + 1].verb = "select"
  <2>1. /\ \A i \in 1 .. n : i \in 1 .. n + 1
        /\ n + 1 \in 1 .. n + 1
    OBVIOUS
  <2> QED
    BY <1>3, <1>4, <2>1 DEF SelectPlaces
<1>6. \A i \in 1 .. Len(u) : i \in K <=> i \in L
  BY <1>2, <1>5
<1>7. Picked(Append(u, n + 1), L) = IF Len(u) + 1 \in L THEN Append(Picked(u, K), n + 1) ELSE Picked(u, K)
  <2>1. PICK x : x = n + 1
    OBVIOUS
  <2>2. x \in Nat /\ u \in Seq(Nat)
    BY <1>2, <2>1
  <2>3. Picked(Append(u, x), L) = IF Len(u) + 1 \in L THEN Append(Picked(u, K), x) ELSE Picked(u, K)
    BY <1>6, <2>2, PickedAppended
  <2> QED
    BY <2>1, <2>3
<1>8. SelectList(n) = Picked(u, K) /\ SelectList(n + 1) = Picked(Append(u, n + 1), L)
  BY <1>1, <1>2, <1>3, <1>4 DEF SelectList
<1>9. Picked(u, K) \in Seq(Nat)
  <2>1. \A i \in 1 .. Len(u) : i \in K => u[i] \in Nat
    BY <1>2, ElementOfSeq
  <2> QED
    BY <1>2, <2>1, PickedFrom
<1>10. Len(u) + 1 = n + 1
  BY <1>2
<1> QED
  BY <1>5, <1>7, <1>8, <1>9, <1>10

\* Before anything is executed no SELECT is.
LEMMA NoSelectsYet == SelectList(0) = <<>>
<1>1. Upto(0) = <<>>
  BY DEF Upto
<1> QED
  BY <1>1, PickedNone DEF SelectList

\* Replacing each element, and then one more.
LEMMA MappedAppended ==
    ASSUME NEW A, NEW s \in Seq(A), NEW x \in A, NEW B, NEW f \in [A -> B]
    PROVE  [i \in DOMAIN Append(s, x) |-> f[Append(s, x)[i]]] = Append([i \in DOMAIN s |-> f[s[i]]], f[x])
<1>1. PICK n : n = Len(s)
  OBVIOUS
<1>2. n \in Nat /\ DOMAIN s = 1 .. n /\ \A i \in 1 .. n : s[i] \in A
  BY <1>1, LenProperties, ElementOfSeq
<1>3. PICK t : t = Append(s, x)
  OBVIOUS
<1>4. t \in Seq(A) /\ Len(t) = n + 1 /\ DOMAIN t = 1 .. n + 1 /\ t[n + 1] = x /\ \A i \in 1 .. n : t[i] = s[i]
  BY <1>1, <1>3, AppendProperties, LenProperties
<1>5. PICK u : u = [i \in DOMAIN s |-> f[s[i]]]
  OBVIOUS
<1>6. u \in Seq(B) /\ Len(u) = n /\ \A i \in 1 .. n : u[i] = f[s[i]]
  <2>1. u \in [1 .. n -> B] /\ \A i \in 1 .. n : u[i] = f[s[i]]
    BY <1>2, <1>5
  <2>2. u \in Seq(B)
    BY <1>2, <2>1, IsASeq
  <2>3. DOMAIN u = 1 .. n /\ DOMAIN u = 1 .. Len(u) /\ Len(u) \in Nat
    BY <2>1, <2>2, LenProperties
  <2>4. Len(u) = n
    BY <1>2, <2>3
  <2> QED
    BY <2>1, <2>2, <2>4
<1>7. PICK y : y = f[x]
  OBVIOUS
<1>8. y \in B
  BY <1>7
<1>9. PICK v : v = Append(u, y)
  OBVIOUS
<1>10. v \in Seq(B) /\ Len(v) = n + 1 /\ DOMAIN v = 1 .. n + 1 /\ v[n + 1] = y /\ \A i \in 1 .. n : v[i] = u[i]
  BY <1>6, <1>8, <1>9, AppendProperties, LenProperties
<1>11. PICK w : w = [i \in DOMAIN t |-> f[t[i]]]
  OBVIOUS
<1>12. w \in [1 .. n + 1 -> B] /\ \A i \in 1 .. n + 1 : w[i] = f[t[i]]
  BY <1>4, <1>11, ElementOfSeq
<1>13. w \in Seq(B) /\ Len(w) = n + 1
  <2>1. n + 1 \in Nat
    BY <1>2
  <2>2. w \in Seq(B)
    BY <1>12, <2>1, IsASeq
  <2>3. DOMAIN w = 1 .. n + 1 /\ DOMAIN w = 1 .. Len(w) /\ Len(w) \in Nat
    BY <1>12, <2>2, LenProperties
  <2>4. Len(w) = n + 1
    BY <2>1, <2>3
  <2> QED
    BY <2>2, <2>4
<1>14. \A i \in 1 .. n + 1 : w[i] = v[i]
  <2>1. ASSUME NEW i \in 1 .. n + 1 PROVE w[i] = v[i]
    <3>1. i = n + 1 \/ i \in 1 .. n
      BY <1>2
    <3> QED
      BY <1>4, <1>6, <1>7, <1>10, <1>12, <3>1
  <2> QED
    BY <2>1
<1>15. w = v
  BY <1>10, <1>13, <1>14, SeqEqual
<1> QED
  BY <1>3, <1>5, <1>7, <1>9, <1>11, <1>15

\* One statement more adds its answer, if it is a SELECT.
LEMMA AnswersGrow ==
    ASSUME NEW n \in Nat
    PROVE  Answers(n + 1) = IF program[n + 1].verb = "select"
                            THEN Append(Answers(n), Answer(n + 1)) ELSE Answers(n)
<1>1. PICK list : list = SelectList(n)
  OBVIOUS
<1>2. list \in Seq(Nat)
  BY <1>1, SelectsGrow
<1>3. CASE program[n + 1].verb = "select"
  <2>1. PICK x : x = n + 1
    OBVIOUS
  <2>2. x \in Nat
    BY <2>1
  <2>3. SelectList(n + 1) = Append(list, x)
    BY <1>1, <1>3, <2>1, SelectsGrow
  <2> DEFINE f_ == [k \in Nat |-> Answer(k)]
             B_ == {Answer(k) : k \in Nat}
  <2>4. PICK f : f = f_
    OBVIOUS
  <2>5. PICK B : B = B_
    OBVIOUS
  <2>6. f \in [Nat -> B] /\ \A k \in Nat : f[k] = Answer(k)
    BY <2>4, <2>5
  <2> HIDE DEF f_, B_
  <2>7. [i \in DOMAIN Append(list, x) |-> f[Append(list, x)[i]]] = Append([i \in DOMAIN list |-> f[list[i]]], f[x])
    <3>1. f \in [Nat -> B]
      BY <2>6
    <3> QED
      BY <1>2, <2>2, <3>1, MappedAppended
  <2>8. PICK longer : longer = Append(list, x)
    OBVIOUS
  <2>9. longer \in Seq(Nat)
    BY <1>2, <2>2, <2>8, AppendProperties
  <2>10. \A s \in Seq(Nat) : [i \in DOMAIN s |-> f[s[i]]] = [i \in DOMAIN s |-> Answer(s[i])]
    <3> SUFFICES ASSUME NEW s \in Seq(Nat)
                 PROVE  [i \in DOMAIN s |-> f[s[i]]] = [i \in DOMAIN s |-> Answer(s[i])]
      OBVIOUS
    <3>1. \A i \in DOMAIN s : s[i] \in Nat
      BY LenProperties, ElementOfSeq
    <3>2. \A i \in DOMAIN s : f[s[i]] = Answer(s[i])
      BY <2>6, <3>1
    <3> QED
      BY <3>2
  <2>11. Answers(n + 1) = [i \in DOMAIN longer |-> Answer(longer[i])]
    BY <2>3, <2>8, Zenon DEF Answers
  <2>12. Answers(n) = [i \in DOMAIN list |-> Answer(list[i])]
    BY <1>1, Zenon DEF Answers
  <2>13. Answers(n + 1) = [i \in DOMAIN longer |-> f[longer[i]]] /\ Answers(n) = [i \in DOMAIN list |-> f[list[i]]]
    BY <1>2, <2>9, <2>10, <2>11, <2>12
  <2>14. f[x] = Answer(n + 1)
    BY <2>1, <2>2, <2>6
  <2> QED
    BY <1>3, <2>7, <2>8, <2>13, <2>14
<1>4. CASE program[n + 1].verb # "select"
  <2>1. SelectList(n + 1) = SelectList(n)
    BY <1>4, SelectsGrow
  <2>2. Answers(n + 1) = Answers(n)
    BY <2>1, Zenon DEF Answers
  <2> QED
    BY <1>4, <2>2
<1> QED
  BY <1>3, <1>4

\* Before anything is executed nothing is answered.
LEMMA NoAnswersYet == Answers(0) = <<>>
<1>1. DOMAIN SelectList(0) = {}
  BY NoSelectsYet
<1> QED
  BY <1>1 DEF Answers

\* What was answered stays so while the columns and the program stay.
LEMMA AnswersKept ==
    ASSUME UNCHANGED <<columns, program>>, NEW n
    PROVE  Answers(n)' = Answers(n)
<1>1. \A k : InsertsBefore(k)' = InsertsBefore(k)
  BY DEF InsertsBefore
<1>2. \A s, c : Said(s, c)' = Said(s, c)
  <2> SUFFICES ASSUME NEW s, NEW c PROVE Said(s, c)' = Said(s, c)
    OBVIOUS
  <2>1. Named(s)' = Named(s)
    BY ColumnsKept
  <2> QED
    BY <2>1 DEF Said
<1>3. \A name : Place(name)' = Place(name) /\ (IsNumber(name)' <=> IsNumber(name))
  BY DEF Place, IsNumber
<1>4. \A insert, where : Satisfies(insert, where)' <=> Satisfies(insert, where)
  BY <1>2, <1>3, ZenonT(40) DEF Satisfies
<1>5. \A s : Named(s)' = Named(s)
  BY ColumnsKept
<1>6. \A k : Answer(k)' = Answer(k)
  BY <1>1, <1>2, <1>3, <1>4, <1>5 DEF Answer
<1>7. SelectList(n)' = SelectList(n)
  BY DEF SelectList, SelectPlaces
<1> QED
  BY <1>6, <1>7 DEF Answers

\* Nothing is printed at first.
LEMMA AnswersInit == Init => SelectsAnswer
<1> SUFFICES ASSUME Init PROVE SelectsAnswer
  OBVIOUS
<1>1. printed = <<>> /\ executed = 0
  BY DEF Init
<1> QED
  BY <1>1, NoAnswersYet, AnswersAre

\* Every step keeps SelectsAnswer.
LEMMA AnswersStep ==
    ASSUME Shape, Ran, ConditionShape, SelectsAnswer, [Next]_vars
    PROVE  SelectsAnswer'
<1>1. printed = Answers(executed)
  BY AnswersAre
<1>2. columns' = columns
  BY DEF Next, vars
<1>a. ASSUME UNCHANGED program, NEW n, executed' = n, printed' = Answers(n)
      PROVE  SelectsAnswer'
  <2>1. Answers(n)' = Answers(n)
    BY <1>2, <1>a, AnswersKept
  <2>2. Answers(executed)' = Answers(n)
    BY <1>a, <2>1 DEF Answers
  <2> QED
    BY <1>a, <2>2 DEF SelectsAnswer, Answers, SelectList, SelectPlaces, Upto
<1>3. ASSUME UNCHANGED <<program, printed, executed>>
      PROVE  SelectsAnswer'
  <2>1. PICK n : n = executed
    OBVIOUS
  <2> QED
    BY <1>a, <1>1, <1>3, <2>1
<1>4. CASE UNCHANGED vars
  BY <1>3, <1>4 DEF vars, parser_vars, execution_vars
<1>5. CASE Tokenize /\ UNCHANGED <<parser_vars, execution_vars>>
  BY <1>3, <1>5 DEF parser_vars, execution_vars
<1>6. CASE Parse /\ UNCHANGED <<tokenizer_vars, execution_vars>>
  <2>1. parsing # "done"
    BY <1>6 DEF Parse
  <2>2. printed' = <<>> /\ executed' = 0
    BY <1>6, <2>1 DEF Ran, execution_vars
  <2>3. PICK n : n = 0
    OBVIOUS
  <2>4. UNCHANGED columns /\ Answers(0)' = <<>>
    <3>1. DOMAIN SelectList(0)' = {}
      <4>1. Upto(0) = <<>>
        BY DEF Upto
      <4>2. SelectList(0)' = Picked(<<>>, {k \in 1 .. 0 : program'[k].verb = "select"})
        BY <4>1 DEF SelectList, SelectPlaces
      <4> QED
        BY <4>2, PickedNone
    <3> QED
      BY <1>2, <3>1 DEF Answers
  <2> QED
    BY <2>2, <2>4 DEF SelectsAnswer, Answers, SelectList, SelectPlaces, Upto
<1>7. CASE Execute /\ UNCHANGED <<tokenizer_vars, parser_vars>>
  <2>1. parsing = "done" /\ executing = "running" /\ UNCHANGED <<columns, program, parsing>>
    BY <1>2, <1>7 DEF Execute, parser_vars
  <2>2. executed \in Nat
    BY DEF Ran
  <2>3. PICK n : n = executed + 1
    OBVIOUS
  <2>4. CASE execute_insert(next_statement)
    <3>1. executed' = n /\ printed' = printed /\ program[executed + 1].verb # "select"
      BY <2>3, <2>4 DEF execute_insert, next_statement
    <3>2. Answers(n) = Answers(executed)
      BY <2>2, <2>3, <3>1, AnswersGrow
    <3> QED
      BY <1>a, <1>1, <2>1, <3>1, <3>2
  <2>5. CASE execute_select(next_statement)
    <3>1. executed' = n /\ program[executed + 1].verb = "select"
      BY <2>3, <2>5 DEF execute_select, next_statement
    <3>2. printed' = Append(printed, Answer(executed + 1))
      BY <2>1, <2>5, SelectPrints
    <3>3. Answers(n) = Append(Answers(executed), Answer(executed + 1))
      BY <2>2, <2>3, <3>1, AnswersGrow
    <3> QED
      BY <1>a, <1>1, <2>1, <3>1, <3>2, <3>3
  <2>6. CASE StatementFails \/ EndOfProgram
    BY <1>3, <2>1, <2>6 DEF StatementFails, EndOfProgram
  <2> QED
    BY <1>7, <2>4, <2>5, <2>6 DEF Execute
<1> QED
  BY <1>4, <1>5, <1>6, <1>7 DEF Next

\* For any schema file, any text and any limits: every SELECT executed printed exactly
\* the rows of the INSERTs before it that satisfy its condition, in their order, numbers
\* compared as numbers and texts as texts, with the columns it names in the order it
\* names them (execute_select, storage_print_rows, storage_print_rows_where_equals).
THEOREM TextSelectsAnswer == Spec => []SelectsAnswer
<1> DEFINE I == Shape /\ Ran /\ ConditionShape /\ SelectsAnswer
<1>1. Init => I
  BY InitShape, RanInit, ConditionInit, AnswersInit DEF Init
<1>2. I /\ [Next]_vars => I'
  <2> SUFFICES ASSUME Shape, Ran, ConditionShape, SelectsAnswer, [Next]_vars
               PROVE  (Shape /\ Ran)' /\ ConditionShape' /\ SelectsAnswer'
    OBVIOUS
  <2>1. ConditionShape'
    <3>1. CASE Parse /\ UNCHANGED tokenizer_vars
      BY <3>1, ConditionKept
    <3>2. CASE UNCHANGED parser_vars
      BY <3>2 DEF parser_vars, ConditionShape, Compares
    <3> QED
      BY <3>1, <3>2 DEF Next, vars
  <2> QED
    BY <2>1, NextKeepsShape, RanKept, AnswersStep
<1>3. I => SelectsAnswer
  OBVIOUS
<1> QED
  BY <1>1, <1>2, <1>3, PTL DEF Spec

-----------------------------------------------------------------------------
(* The schema. *)

\* What a text loads spells the text again, in lower case.
LEMMA ColumnsSpelled ==
    ASSUME NEW text \in Words, NEW cs, cs = ColumnsOf(Entries(text)), Loads(cs), cs # <<>>
    PROVE  lower(text) \in {Spelled(cs), Spelled(cs) \o <<",">>}
<1>1. PICK es : es = Entries(text)
  OBVIOUS
<1>2. PICK N : N = Len(es)
  OBVIOUS
<1>3. es \in Seq(Words) /\ DOMAIN es = 1 .. N /\ N \in Nat
  BY <1>1, <1>2, EntriesType, LenProperties
<1>4. es # <<>>
  BY <1>1 DEF ColumnsOf
<1>5. DOMAIN cs = 1 .. N /\ \A i \in 1 .. N : cs[i] = Column(es[i])
  BY <1>1, <1>3 DEF ColumnsOf
<1>6. PICK lows : lows = [i \in 1 .. Len(es) |-> lower(es[i])]
  OBVIOUS
<1>7. \A i \in 1 .. N : lower(es[i]) = cs[i].name \o <<":">> \o cs[i].type
  <2> SUFFICES ASSUME NEW i \in 1 .. N
               PROVE  lower(es[i]) = cs[i].name \o <<":">> \o cs[i].type
    OBVIOUS
  <2>1. PICK entry : entry = es[i]
    OBVIOUS
  <2>2. entry \in Words /\ cs[i] = Column(entry)
    BY <1>2, <1>3, <1>5, <2>1, ElementOfSeq
  <2>3. cs[i].type \in DataTypes
    BY <1>5 DEF Loads
  <2>4. Column(entry).type # <<>>
    BY <2>2, <2>3, DataTypesWords
  <2>5. lower(entry) = Column(entry).name \o <<":">> \o Column(entry).type
    BY <2>2, <2>4, ColumnShape
  <2> QED
    BY <2>1, <2>2, <2>5, Zenon
<1>8. lows = [c \in DOMAIN cs |-> cs[c].name \o <<":">> \o cs[c].type]
  <2>1. [i \in 1 .. N |-> lower(es[i])] = [i \in 1 .. N |-> cs[i].name \o <<":">> \o cs[i].type]
    BY <1>7, Zenon
  <2> QED
    BY <1>2, <1>5, <1>6, <2>1, Zenon
<1>9. Joined(lows) = Spelled(cs)
  BY <1>8, Zenon DEF Spelled
<1>10. lower(Joined(es)) = Joined(lows) /\ Joined(es) \in Words
  BY <1>3, <1>6, LowerJoined
<1>11. PICK c : c = <<Comma>>
  OBVIOUS
<1>12. text = Joined(es) \/ text = Joined(es) \o c
  BY <1>1, <1>4, <1>11, EntriesJoined
<1>13. c \in Words /\ lower(c) = c
  <2>1. Comma \notin Letters /\ Comma \in Plain
    BY CharactersAssumption, PlainAtoms DEF Comma, Symbols
  <2>2. DOMAIN c = 1 .. 1 /\ c[1] = Comma
    BY <1>11
  <2>3. lower(c) = [i \in 1 .. 1 |-> Comma]
    BY <2>1, <2>2 DEF lower
  <2> QED
    BY <1>11, <2>1, <2>3 DEF Words
<1>14. lower(Joined(es) \o c) = Spelled(cs) \o c
  <2>1. lower(Joined(es) \o c) = lower(Joined(es)) \o lower(c)
    BY <1>10, <1>13, LowerConcat
  <2> QED
    BY <1>9, <1>10, <1>13, <2>1
<1>15. lower(text) = Spelled(cs) \/ lower(text) = Spelled(cs) \o c
  BY <1>9, <1>10, <1>12, <1>14
<1> QED
  BY <1>11, <1>15, Zenon DEF Comma

\* A line that the buffer holds is read as a whole.
LEMMA WholeLineRead ==
    ASSUME NEW file \in Texts, Len(lower(FirstLine(file))) < MAX_SCHEMA_LINE_LEN
    PROVE  SchemaLine(file) = FirstLine(file)
<1>1. PICK line_ : line_ = FirstLine(file)
  OBVIOUS
<1>2. line_ \in Words
  BY <1>1, FirstLineWords
<1>3. Len(lower(line_)) = Len(line_)
  BY <1>2, LowerPlain
<1>4. SubSeq(line_, 1, Len(line_)) = line_
  BY <1>2, LenProperties DEF Words
<1> QED
  BY <1>1, <1>3, <1>4 DEF SchemaLine

\* Columns that load are those the line spells, and their names differ.
LEMMA LoadedFollowsText ==
    ASSUME schema_file \in Texts, columns = load_table_schema(schema_file)
    PROVE  SchemaFollowsText
<1>1. SchemaSound(columns)
  BY LoadedIsSound
<1>2. Cardinality(ToSet(ColumnNames)) = Len(columns)
  BY <1>1, NamesOfColumns
<1>3. PICK said : said = lower(FirstLine(schema_file))
  OBVIOUS
<1>4. ASSUME columns # <<>>, Len(said) < MAX_SCHEMA_LINE_LEN
      PROVE  said \in {Spelled(columns), Spelled(columns) \o <<",">>}
  <2>1. PICK text : text = SchemaLine(schema_file)
    OBVIOUS
  <2>2. text \in Words
    BY <2>1, SchemaLineWords
  <2>3. lower(text) = said
    BY <1>3, <1>4, <2>1, WholeLineRead
  <2>4. columns = IF Loads(ColumnsOf(Entries(text))) THEN ColumnsOf(Entries(text)) ELSE <<>>
    BY <2>1, SchemaRead
  <2>5. columns = ColumnsOf(Entries(text)) /\ Loads(columns)
    BY <1>4, <2>4
  <2>6. lower(text) \in {Spelled(columns), Spelled(columns) \o <<",">>}
    BY <1>4, <2>2, <2>5, ColumnsSpelled
  <2> QED
    BY <2>3, <2>6
<1> QED
  BY <1>2, <1>3, <1>4, Zenon DEF SchemaFollowsText

\* The columns that load, if any do, have names that all differ, and spell the line of
\* the schema file in lower case, in its order and nothing left out, when that line is
\* shorter than MAX_SCHEMA_LINE_LEN (load_table_schema).  Of a longer line fgets reads
\* the beginning only, and what loads need not be the whole of it.
THEOREM TextSchemaFollowsText == Spec => []SchemaFollowsText
<1> DEFINE I == schema_file \in Texts /\ columns = load_table_schema(schema_file)
<1>1. Init => I
  BY InputsAssumption DEF Init, Texts
<1>2. I /\ [Next]_vars => I'
  <2>1. [Next]_vars => schema_file' = schema_file /\ columns' = columns
    BY DEF Next, vars
  <2> QED
    BY <2>1
<1>3. I => SchemaFollowsText
  BY LoadedFollowsText
<1> QED
  BY <1>1, <1>2, <1>3, PTL DEF Spec
============================================================================
