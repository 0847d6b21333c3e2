--------------------------- MODULE FileTextProofs ---------------------------
(***************************************************************************)
(* What stands in files, for any values, names and limits: a row that      *)
(* storage.c writes is the row it reads back, whatever is in its values,   *)
(* and the columns that schema.c loads are those its line spells.          *)
(*                                                                         *)
(* The recursive functions of CsvFormat, TableSchema and SqlProc come in   *)
(* by their equations (the lemmas named Steps); from there on a line is    *)
(* read and written an atom at a time.                                     *)
(***************************************************************************)
EXTENDS CsvFormat, TableSchema, SqlParserProofs

\* Texts made of texts.
LEMMA TextParts ==
    /\ <<>> \in Texts
    /\ \A a \in Atoms : <<a>> \in Texts
    /\ \A a, b \in Atoms : <<a, b>> \in Texts
    /\ \A u, v \in Texts : u \o v \in Texts
BY ConcatProperties DEF Texts

LEMMA DoubleQuoteAtom ==
    /\ DoubleQuote \in Atoms
    /\ DoubleQuote \notin {",", "\n", "\r", ":"}
BY Zenon DEF DoubleQuote, Atoms, Others

\* Joined by its equations.
LEMMA JoinedSteps ==
    ASSUME NEW A, Comma \in A, NEW texts \in Seq(Seq(A))
    PROVE  \E upTo \in [0 .. Len(texts) -> Seq(A)] :
             /\ Joined(texts) = upTo[Len(texts)] /\ upTo[0] = <<>>
             /\ \A n \in 1 .. Len(texts) :
                  upTo[n] = IF n = 1 THEN texts[1] ELSE upTo[n - 1] \o <<",">> \o texts[n]
<1> DEFINE N == Len(texts)
           S == Seq(A)
           Put(q, n) == IF n = 1 THEN texts[1] ELSE q \o <<",">> \o texts[n]
           Kept(f) == f = [n \in 0 .. N |-> IF n = 0 THEN <<>> ELSE IF n = 1 THEN texts[1]
                                            ELSE f[n - 1] \o <<",">> \o texts[n]]
           step == [n \in 1 .. N |-> [q \in S |-> Put(q, n)]]
<1>1. N \in Nat /\ \A n \in 1 .. N : texts[n] \in S
  BY LenProperties, ElementOfSeq
<1>2. <<>> \in S /\ \A q \in S, n \in 1 .. N : Put(q, n) \in S
  <2>1. \A a \in A : <<a>> \in S
    OBVIOUS
  <2>a. <<",">> \in S
    BY <2>1, Zenon DEF Comma
  <2>b. (\A u, v \in S : u \o v \in S) /\ <<>> \in S
    BY ConcatProperties, EmptySeq
  <2>2. <<>> \in S /\ <<",">> \in S /\ \A u, v \in S : u \o v \in S
    BY <2>a, <2>b, Zenon
  <2>3. ASSUME NEW q \in S, NEW n \in 1 .. N PROVE Put(q, n) \in S
    <3>1. texts[n] \in S
      BY <1>1
    <3>2. n = 1 => texts[1] \in S
      BY <3>1
    <3> HIDE DEF S
    <3> QED
      BY <2>2, <3>1, <3>2
  <2> QED
    BY <2>2, <2>3
<1>3. step \in StepsOn(N, S)
  <2> HIDE DEF N, S, Put
  <2> QED
    BY <1>2 DEF StepsOn
<1> HIDE DEF S, N
<1>4. \E f : Kept(f)
  <2>1. PICK f : Computes(f, N, S, <<>>, step)
    <3> HIDE DEF step, Kept
    <3> QED
      BY <1>1, <1>2, <1>3, StepByStep
  <2>2. \A n \in 1 .. N : f[n] = Put(f[n - 1], n)
    <3>1. \A n \in 1 .. N : n - 1 \in 0 .. N
      BY <1>1
    <3> HIDE DEF Put
    <3> QED
      BY <2>1, <3>1 DEF Computes
  <2>3. f = [n \in 0 .. N |-> f[n]] /\ f[0] = <<>>
    BY <2>1 DEF Computes
  <2>4. \A n \in 0 .. N : f[n] = IF n = 0 THEN <<>> ELSE Put(f[n - 1], n)
    <3>1. \A n \in 0 .. N : n = 0 \/ n \in 1 .. N
      BY <1>1
    <3> HIDE DEF Put
    <3> QED
      BY <2>2, <2>3, <3>1
  <2>5. [n \in 0 .. N |-> f[n]] = [n \in 0 .. N |-> IF n = 0 THEN <<>> ELSE Put(f[n - 1], n)]
    <3> HIDE DEF Put
    <3> QED
      BY <2>4
  <2> QED
    BY <2>3, <2>5, Zenon
<1> DEFINE g == CHOOSE f : Kept(f)
<1>5. Kept(g)
  BY <1>4
<1>6. Joined(texts) = g[N]
  BY DEF Joined, N
<1> HIDE DEF g
<1>7. \A n \in 0 .. N : g[n] = IF n = 0 THEN <<>> ELSE Put(g[n - 1], n)
  BY <1>5, Zenon
<1>8. g = [n \in 0 .. N |-> g[n]]
  BY <1>5, Zenon
<1> HIDE DEF Put, Kept
<1>9. g[0] = <<>> /\ \A n \in 1 .. N : g[n] = Put(g[n - 1], n)
  BY <1>1, <1>7
<1> DEFINE T == {n \in 0 .. N : g[n] \in S}
<1>10. 0 \in T /\ \A n \in 1 .. N : n - 1 \in T => n \in T
  BY <1>1, <1>2, <1>9
<1>11. 0 .. N \subseteq T
  <2> HIDE DEF T
  <2> QED
    BY <1>1, <1>10, UpTo
<1>12. g \in [0 .. N -> S]
  BY <1>8, <1>11
<1> QED
  BY <1>6, <1>9, <1>12 DEF N, S, Put

\* A line is a text.
LEMMA FirstLineType ==
    ASSUME NEW text \in Texts
    PROVE  FirstLine(text) \in Texts
<1>1. Span(text, Atoms \ {"\r", "\n"}) \in 0 .. Len(text) /\ Len(text) \in Nat
  BY SpanBound, LenProperties DEF Texts
<1> DEFINE n == Span(text, Atoms \ {"\r", "\n"})
<1>a. n \in 0 .. Len(text) /\ Len(text) \in Nat
  BY <1>1
<1> HIDE DEF n
<1>2. n \in Int /\ \A i \in 1 .. n : i \in 1 .. Len(text)
  BY <1>a
<1>3. \A i \in 1 .. n : text[i] \in Atoms
  BY <1>2, ElementOfSeq DEF Texts
<1>4. SubSeq(text, 1, n) \in Seq(Atoms)
  BY <1>2, <1>3, SubSeqProperties
<1> QED
  BY <1>4 DEF FirstLine, n, Texts

\* Picked by its equations.
LEMMA PickedSteps ==
    ASSUME NEW A, NEW s \in Seq(A), NEW K
    PROVE  \E upTo \in [0 .. Len(s) -> Seq(A)] :
             /\ Picked(s, K) = upTo[Len(s)] /\ upTo[0] = <<>>
             /\ \A n \in 1 .. Len(s) :
                  upTo[n] = IF n \in K THEN Append(upTo[n - 1], s[n]) ELSE upTo[n - 1]
<1> DEFINE N == Len(s)
           S == Seq(A)
           Put(q, n) == IF n \in K THEN Append(q, s[n]) ELSE q
           Kept(f) == f = [n \in 0 .. N |-> IF n = 0 THEN <<>> ELSE IF n \in K THEN Append(f[n - 1], s[n]) ELSE f[n - 1]]
           step == [n \in 1 .. N |-> [q \in S |-> Put(q, n)]]
<1>1. N \in Nat /\ \A n \in 1 .. N : s[n] \in A
  BY LenProperties, ElementOfSeq
<1>2. <<>> \in S /\ \A q \in S, n \in 1 .. N : Put(q, n) \in S
  BY <1>1, EmptySeq, AppendProperties
<1>3. step \in StepsOn(N, S)
  <2> HIDE DEF N, S, Put
  <2> QED
    BY <1>2 DEF StepsOn
<1> HIDE DEF S, N
<1>4. \E f : Kept(f)
  <2>1. PICK f : Computes(f, N, S, <<>>, step)
    <3> HIDE DEF step, Kept
    <3> QED
      BY <1>1, <1>2, <1>3, StepByStep
  <2>2. \A n \in 1 .. N : f[n] = Put(f[n - 1], n)
    <3>1. \A n \in 1 .. N : n - 1 \in 0 .. N
      BY <1>1
    <3> HIDE DEF Put
    <3> QED
      BY <2>1, <3>1 DEF Computes
  <2>3. f = [n \in 0 .. N |-> f[n]] /\ f[0] = <<>>
    BY <2>1 DEF Computes
  <2>4. \A n \in 0 .. N : f[n] = IF n = 0 THEN <<>> ELSE Put(f[n - 1], n)
    <3>1. \A n \in 0 .. N : n = 0 \/ n \in 1 .. N
      BY <1>1
    <3> HIDE DEF Put
    <3> QED
      BY <2>2, <2>3, <3>1
  <2> QED
    BY <2>3, <2>4
<1> DEFINE g == CHOOSE f : Kept(f)
<1>5. Kept(g)
  BY <1>4
<1>6. Picked(s, K) = g[N]
  BY DEF Picked, N
<1> HIDE DEF g
<1>7. \A n \in 0 .. N : g[n] = IF n = 0 THEN <<>> ELSE Put(g[n - 1], n)
  BY <1>5, Zenon
<1>8. g = [n \in 0 .. N |-> g[n]]
  BY <1>5, Zenon
<1> HIDE DEF Put, Kept
<1>9. g[0] = <<>> /\ \A n \in 1 .. N : g[n] = Put(g[n - 1], n)
  BY <1>1, <1>7
<1> DEFINE T == {n \in 0 .. N : g[n] \in S}
<1>10. 0 \in T /\ \A n \in 1 .. N : n - 1 \in T => n \in T
  BY <1>1, <1>2, <1>9
<1>11. 0 .. N \subseteq T
  <2> HIDE DEF T
  <2> QED
    BY <1>1, <1>10, UpTo
<1>12. g \in [0 .. N -> S]
  BY <1>8, <1>11
<1> QED
  BY <1>6, <1>9, <1>12 DEF N, S, Put

\* Quoted by its equations.
LEMMA QuotedSteps ==
    ASSUME NEW A, DoubleQuote \in A, NEW text \in Seq(A)
    PROVE  \E upTo \in [0 .. Len(text) -> Seq(A)] :
             /\ Quoted(text) = upTo[Len(text)] \o <<DoubleQuote>> /\ upTo[0] = <<DoubleQuote>>
             /\ \A n \in 1 .. Len(text) :
                  upTo[n] = upTo[n - 1] \o (IF text[n] = DoubleQuote THEN <<DoubleQuote, DoubleQuote>> ELSE <<text[n]>>)
<1> DEFINE N == Len(text)
           S == Seq(A)
           Put(q, n) == q \o (IF text[n] = DoubleQuote THEN <<DoubleQuote, DoubleQuote>> ELSE <<text[n]>>)
           Kept(f) == f = [n \in 0 .. N |-> IF n = 0 THEN <<DoubleQuote>> ELSE f[n - 1] \o (IF text[n] = DoubleQuote THEN <<DoubleQuote, DoubleQuote>> ELSE <<text[n]>>)]
           step == [n \in 1 .. N |-> [q \in S |-> Put(q, n)]]
<1>1. N \in Nat /\ \A n \in 1 .. N : text[n] \in A
  BY LenProperties, ElementOfSeq
<1>2. <<DoubleQuote>> \in S /\ \A q \in S, n \in 1 .. N : Put(q, n) \in S
  <2>1. \A a, b \in A : <<a>> \in S /\ <<a, b>> \in S
    OBVIOUS
  <2>a. \A u, v \in S : u \o v \in S
    BY ConcatProperties
  <2>2. <<DoubleQuote>> \in S /\ \A u, v \in S : u \o v \in S
    BY <2>1, <2>a
  <2>3. <<DoubleQuote, DoubleQuote>> \in S
    BY <2>1
  <2>4. ASSUME NEW q \in S, NEW n \in 1 .. N PROVE Put(q, n) \in S
    <3>1. <<text[n]>> \in S
      BY <1>1, <2>1
    <3> HIDE DEF S
    <3> QED
      BY <2>2, <2>3, <3>1
  <2> QED
    BY <2>2, <2>4
<1>3. step \in StepsOn(N, S)
  <2> HIDE DEF N, S, Put
  <2> QED
    BY <1>2 DEF StepsOn
<1> HIDE DEF S, N
<1>4. \E f : Kept(f)
  <2>1. PICK f : Computes(f, N, S, <<DoubleQuote>>, step)
    <3> HIDE DEF step, Kept
    <3> QED
      BY <1>1, <1>2, <1>3, StepByStep
  <2>2. \A n \in 1 .. N : f[n] = Put(f[n - 1], n)
    <3>1. \A n \in 1 .. N : n - 1 \in 0 .. N
      BY <1>1
    <3> HIDE DEF Put
    <3> QED
      BY <2>1, <3>1 DEF Computes
  <2>3. f = [n \in 0 .. N |-> f[n]] /\ f[0] = <<DoubleQuote>>
    BY <2>1 DEF Computes
  <2>4. \A n \in 0 .. N : f[n] = IF n = 0 THEN <<DoubleQuote>> ELSE Put(f[n - 1], n)
    <3>1. \A n \in 0 .. N : n = 0 \/ n \in 1 .. N
      BY <1>1
    <3> HIDE DEF Put
    <3> QED
      BY <2>2, <2>3, <3>1
  <2> QED
    BY <2>3, <2>4
<1> DEFINE g == CHOOSE f : Kept(f)
<1>5. Kept(g)
  BY <1>4
<1>6. Quoted(text) = g[N] \o <<DoubleQuote>>
  BY DEF Quoted, N
<1> HIDE DEF g
<1>7. \A n \in 0 .. N : g[n] = IF n = 0 THEN <<DoubleQuote>> ELSE Put(g[n - 1], n)
  BY <1>5, Zenon
<1>8. g = [n \in 0 .. N |-> g[n]]
  BY <1>5, Zenon
<1> HIDE DEF Put, Kept
<1>9. g[0] = <<DoubleQuote>> /\ \A n \in 1 .. N : g[n] = Put(g[n - 1], n)
  BY <1>1, <1>7
<1> DEFINE T == {n \in 0 .. N : g[n] \in S}
<1>10. 0 \in T /\ \A n \in 1 .. N : n - 1 \in T => n \in T
  BY <1>1, <1>2, <1>9
<1>11. 0 .. N \subseteq T
  <2> HIDE DEF T
  <2> QED
    BY <1>1, <1>10, UpTo
<1>12. g \in [0 .. N -> S]
  BY <1>8, <1>11
<1> QED
  BY <1>6, <1>9, <1>12 DEF N, S, Put

ReadStates == [values : Seq(Texts) \ {<<>>}, quoted : BOOLEAN, skip : BOOLEAN]
ReadStart == [values |-> <<(<<>>)>>, quoted |-> FALSE, skip |-> FALSE]

\* One atom more leaves what is read in shape (parse_csv_line).
LEMMA ReadAtomType ==
    ASSUME NEW q \in ReadStates, NEW text \in Texts, NEW n \in 1 .. Len(text)
    PROVE  ReadAtom(q, text, n) \in ReadStates
<1> DEFINE last == Len(q.values)
           extended == [q.values EXCEPT ![last] = Append(@, text[n])]
           more == Append(q.values, <<>>)
<1>1. text[n] \in Atoms /\ <<>> \in Texts
  BY ElementOfSeq, EmptySeq DEF Texts
<1>2. q.values \in Seq(Texts) /\ q.values # <<>> /\ q.quoted \in BOOLEAN /\ q.skip \in BOOLEAN
  BY DEF ReadStates
<1>3. last \in 1 .. last
  BY <1>2, EmptySeq
<1>4. q.values[last] \in Texts
  BY <1>2, <1>3, ElementOfSeq
<1>5. Append(q.values[last], text[n]) \in Texts
  BY <1>1, <1>4, AppendProperties DEF Texts
<1>6. extended \in Seq(Texts) /\ Len(extended) = last
  BY <1>2, <1>3, <1>5, ExceptSeq
<1>7. extended # <<>>
  BY <1>3, <1>6, EmptySeq
<1>8. more \in Seq(Texts) /\ more # <<>>
  BY <1>1, <1>2, AppendProperties
<1> DEFINE put == [q EXCEPT !.values[Len(q.values)] = Append(@, text[n])]
<1>9. put = [q EXCEPT !.values = extended]
  OBVIOUS
<1> HIDE DEF last, extended
<1>10. put \in ReadStates
  BY <1>6, <1>7, <1>9 DEF ReadStates
<1> HIDE DEF put
<1>11. /\ [q EXCEPT !.skip = FALSE] \in ReadStates
       /\ [q EXCEPT !.quoted = ~@] \in ReadStates
       /\ [put EXCEPT !.skip = TRUE] \in ReadStates
       /\ [q EXCEPT !.values = more] \in ReadStates
  BY <1>8, <1>10 DEF ReadStates
<1> QED
  BY <1>10, <1>11 DEF ReadAtom, put

\* parse_csv_line by its equations: one atom a step.
LEMMA ParseSteps ==
    ASSUME NEW line_ \in Texts
    PROVE  \E upTo \in [0 .. Len(FirstLine(line_)) -> ReadStates] :
             /\ upTo[0] = ReadStart
             /\ \A n \in 1 .. Len(FirstLine(line_)) : upTo[n] = ReadAtom(upTo[n - 1], FirstLine(line_), n)
             /\ parse_csv_line(line_) =
                  LET read == upTo[Len(FirstLine(line_))]
                  IN  IF /\ validate_line_length(line_)
                         /\ Len(read.values) <= MAX_COLUMNS
                         /\ \A i \in DOMAIN read.values : Len(read.values[i]) < MAX_VALUE_LEN
                      THEN read.values ELSE <<>>
<1> DEFINE N == Len(FirstLine(line_))
           S == ReadStates
           Put(q, n) == ReadAtom(q, FirstLine(line_), n)
           Kept(f) == f = [n \in 0 .. N |-> IF n = 0 THEN [values |-> <<(<<>>)>>, quoted |-> FALSE, skip |-> FALSE]
                                            ELSE ReadAtom(f[n - 1], FirstLine(line_), n)]
           step == [n \in 1 .. N |-> [q \in S |-> Put(q, n)]]
<1>0. FirstLine(line_) \in Texts
  BY FirstLineType
<1>1. N \in Nat
  BY <1>0, LenProperties DEF Texts
<1>2. ReadStart \in S /\ \A q \in S, n \in 1 .. N : Put(q, n) \in S
  <2>1. ReadStart \in ReadStates
    BY EmptySeq DEF ReadStart, ReadStates, Texts
  <2> QED
    BY <1>0, <2>1, ReadAtomType
<1>3. step \in StepsOn(N, S)
  <2> HIDE DEF N, S, Put
  <2> QED
    BY <1>2 DEF StepsOn
<1> HIDE DEF S, N
<1>4. \E f : Kept(f)
  <2>1. PICK f : Computes(f, N, S, ReadStart, step)
    <3> HIDE DEF step, Kept
    <3> QED
      BY <1>1, <1>2, <1>3, StepByStep
  <2>2. \A n \in 1 .. N : f[n] = Put(f[n - 1], n)
    <3>1. \A n \in 1 .. N : n - 1 \in 0 .. N
      BY <1>1
    <3> HIDE DEF Put
    <3> QED
      BY <2>1, <3>1 DEF Computes
  <2>3. f = [n \in 0 .. N |-> f[n]] /\ f[0] = ReadStart
    BY <2>1 DEF Computes
  <2>4. \A n \in 0 .. N : f[n] = IF n = 0 THEN ReadStart ELSE Put(f[n - 1], n)
    <3>1. \A n \in 0 .. N : n = 0 \/ n \in 1 .. N
      BY <1>1
    <3> HIDE DEF Put
    <3> QED
      BY <2>2, <2>3, <3>1
  <2> QED
    BY <2>3, <2>4 DEF ReadStart
<1> DEFINE g == CHOOSE f : Kept(f)
<1>5. Kept(g)
  BY <1>4
<1>6. parse_csv_line(line_) =
        LET read == g[N]
        IN  IF /\ validate_line_length(line_)
               /\ Len(read.values) <= MAX_COLUMNS
               /\ \A i \in DOMAIN read.values : Len(read.values[i]) < MAX_VALUE_LEN
            THEN read.values ELSE <<>>
  BY DEF parse_csv_line, N
<1> HIDE DEF g
<1>7. \A n \in 0 .. N : g[n] = IF n = 0 THEN ReadStart ELSE Put(g[n - 1], n)
  BY <1>5, Zenon DEF ReadStart
<1>8. g = [n \in 0 .. N |-> g[n]]
  BY <1>5, Zenon
<1> HIDE DEF Put, Kept
<1>9. g[0] = ReadStart /\ \A n \in 1 .. N : g[n] = Put(g[n - 1], n)
  BY <1>1, <1>7
<1> DEFINE T == {n \in 0 .. N : g[n] \in S}
<1>10. 0 \in T /\ \A n \in 1 .. N : n - 1 \in T => n \in T
  BY <1>1, <1>2, <1>9
<1>11. 0 .. N \subseteq T
  <2> HIDE DEF T
  <2> QED
    BY <1>1, <1>10, UpTo
<1>12. g \in [0 .. N -> S]
  BY <1>8, <1>11
<1> QED
  BY <1>6, <1>9, <1>12 DEF N, S, Put

\* What pieces put one after another make: each is a prefix of the whole, and each
\* piece stands in the whole where those before it end.
LEMMA Chain ==
    ASSUME NEW N \in Nat, NEW g \in [0 .. N -> Texts], NEW X \in [1 .. N -> Texts],
           \A n \in 1 .. N : g[n] = g[n - 1] \o X[n]
    PROVE  /\ \A n \in 0 .. N : /\ Len(g[n]) \in Nat /\ Len(g[n]) <= Len(g[N])
                                /\ \A i \in 1 .. Len(g[n]) : g[N][i] = g[n][i]
           /\ \A n \in 1 .. N : /\ Len(X[n]) \in Nat /\ Len(g[n]) = Len(g[n - 1]) + Len(X[n])
                                /\ \A i \in 1 .. Len(X[n]) : g[N][Len(g[n - 1]) + i] = X[n][i]
<1>1. \A n \in 0 .. N : g[n] \in Texts /\ Len(g[n]) \in Nat
  BY LenProperties DEF Texts
<1>2. \A n \in 1 .. N : X[n] \in Texts /\ Len(X[n]) \in Nat
  BY LenProperties DEF Texts
<1>3. ASSUME NEW n \in 1 .. N
      PROVE  /\ n - 1 \in 0 .. N /\ n \in 0 .. N
             /\ Len(g[n]) = Len(g[n - 1]) + Len(X[n])
             /\ \A i \in 1 .. Len(g[n]) : g[n][i] = IF i <= Len(g[n - 1]) THEN g[n - 1][i] ELSE X[n][i - Len(g[n - 1])]
  <2>1. n - 1 \in 0 .. N /\ n \in 0 .. N
    OBVIOUS
  <2>2. g[n - 1] \in Seq(Atoms) /\ X[n] \in Seq(Atoms)
    BY <1>1, <1>2, <2>1 DEF Texts
  <2>3. g[n] = g[n - 1] \o X[n]
    OBVIOUS
  <2> QED
    BY <2>1, <2>2, <2>3, ConcatProperties
<1> DEFINE Prefix(m) == /\ Len(g[m]) <= Len(g[N])
                        /\ \A i \in 1 .. Len(g[m]) : g[N][i] = g[m][i]
           T == {k \in 0 .. N : Prefix(N - k)}
<1>4. 0 \in T
  BY <1>1
<1>5. ASSUME NEW k \in 1 .. N, k - 1 \in T PROVE k \in T
  <2>1. N - (k - 1) \in 1 .. N /\ N - k \in 0 .. N /\ (N - (k - 1)) - 1 = N - k /\ k \in 0 .. N
    OBVIOUS
  <2> DEFINE m == N - (k - 1)
  <2>2. Prefix(m)
    BY <1>5
  <2>3. Prefix(m - 1)
    <3>1. m \in 1 .. N
      BY <2>1
    <3> HIDE DEF m
    <3>2. Len(g[m]) = Len(g[m - 1]) + Len(X[m]) /\ Len(g[m - 1]) \in Nat /\ Len(X[m]) \in Nat /\ Len(g[m]) \in Nat /\ Len(g[N]) \in Nat
      BY <1>1, <1>2, <1>3, <3>1
    <3>3. \A i \in 1 .. Len(g[m - 1]) : i \in 1 .. Len(g[m]) /\ g[m][i] = g[m - 1][i]
      BY <1>3, <3>1, <3>2
    <3>a. Len(g[m]) <= Len(g[N])
      BY <2>2
    <3>b. \A a, b, c, d \in Nat : a = b + c /\ a <= d => b <= d
      OBVIOUS
    <3>4. Len(g[m - 1]) <= Len(g[N])
      BY <3>a, <3>b, <3>2, Zenon
    <3>5. \A i \in 1 .. Len(g[m]) : g[N][i] = g[m][i]
      BY <2>2
    <3>6. \A i \in 1 .. Len(g[m - 1]) : g[N][i] = g[m - 1][i]
      BY <3>3, <3>5
    <3> QED
      BY <3>4, <3>6
  <2> QED
    BY <2>1, <2>3
<1>6. 0 .. N \subseteq T
  <2> HIDE DEF T
  <2> QED
    BY <1>4, <1>5, UpTo
<1>7. ASSUME NEW n \in 0 .. N PROVE Prefix(n)
  <2>1. N - n \in 0 .. N /\ N - (N - n) = n
    OBVIOUS
  <2> QED
    BY <1>6, <2>1
<1>8. ASSUME NEW n \in 1 .. N, NEW i \in 1 .. Len(X[n]) PROVE g[N][Len(g[n - 1]) + i] = X[n][i]
  <2>1. n \in 0 .. N /\ n - 1 \in 0 .. N
    OBVIOUS
  <2>2. Len(g[n - 1]) \in Nat /\ Len(X[n]) \in Nat
    BY <1>1, <1>2, <2>1
  <2> DEFINE j == Len(g[n - 1]) + i
  <2>3. j \in 1 .. Len(g[n]) /\ j > Len(g[n - 1]) /\ j - Len(g[n - 1]) = i
    BY <1>3, <2>2
  <2>4. g[n][j] = X[n][i]
    <3> HIDE DEF j
    <3> QED
      BY <1>1, <1>3, <2>1, <2>2, <2>3
  <2>5. g[N][j] = g[n][j]
    BY <1>7, <2>1, <2>3
  <2> QED
    BY <2>4, <2>5
<1> QED
  BY <1>1, <1>2, <1>3, <1>7, <1>8

\* What is read of a line: the values before, and the text of the one being read.
Midway(read, prev, text) == read \in ReadStates /\ read.values = Append(prev, text) /\ ~read.skip

\* Replacing the last element.
LEMMA ExceptLast ==
    ASSUME NEW A, NEW s \in Seq(A), s # <<>>, NEW e \in A, NEW t, t = [s EXCEPT ![Len(s)] = e]
    PROVE  t \in Seq(A) /\ Len(t) = Len(s) /\ \A i \in 1 .. Len(s) : t[i] = IF i = Len(s) THEN e ELSE s[i]
<1>1. Len(s) \in 1 .. Len(s)
  BY EmptySeq
<1> QED
  BY <1>1, ExceptSeq

LEMMA LastReplaced ==
    ASSUME NEW A, NEW prev \in Seq(A), NEW u \in A, NEW v \in A
    PROVE  LET was == Append(prev, u)
           IN  /\ was # <<>> /\ was[Len(was)] = u
               /\ [was EXCEPT ![Len(was)] = v] = Append(prev, v)
<1>1. PICK was : was = Append(prev, u)
  OBVIOUS
<1>2. PICK now : now = Append(prev, v)
  OBVIOUS
<1>3. PICK put : put = [was EXCEPT ![Len(was)] = v]
  OBVIOUS
<1>4. /\ was \in Seq(A) /\ was # <<>> /\ Len(was) = Len(prev) + 1 /\ was[Len(prev) + 1] = u
      /\ \A i \in 1 .. Len(prev) : was[i] = prev[i]
  BY <1>1, AppendProperties
<1>5. /\ now \in Seq(A) /\ Len(now) = Len(prev) + 1 /\ now[Len(prev) + 1] = v
      /\ \A i \in 1 .. Len(prev) : now[i] = prev[i]
  BY <1>2, AppendProperties
<1>6. put \in Seq(A) /\ Len(put) = Len(was) /\ \A i \in 1 .. Len(was) : put[i] = IF i = Len(was) THEN v ELSE was[i]
  <2>1. was \in Seq(A)
    BY <1>4
  <2>2. was # <<>>
    BY <1>4
  <2> QED
    BY <1>3, <2>1, <2>2, ExceptLast
<1>7. Len(prev) \in Nat
  BY LenProperties
<1>8. ASSUME NEW i \in 1 .. Len(put) PROVE put[i] = now[i]
  <2>1. i = Len(prev) + 1 \/ i \in 1 .. Len(prev)
    BY <1>4, <1>6, <1>7
  <2> QED
    BY <1>4, <1>5, <1>6, <1>7, <2>1
<1>9. Len(put) = Len(now)
  BY <1>4, <1>5, <1>6
<1>10. put = now
  BY <1>5, <1>6, <1>8, <1>9, SeqEqual
<1> QED
  BY <1>1, <1>2, <1>3, <1>4, <1>10

\* An atom that is put goes to the value being read.
LEMMA MidwayPut ==
    ASSUME NEW prev \in Seq(Texts), NEW text \in Texts, NEW a \in Atoms, NEW read, Midway(read, prev, text)
    PROVE  LET next == [read EXCEPT !.values[Len(read.values)] = Append(@, a)]
           IN  Midway(next, prev, Append(text, a)) /\ (next.quoted <=> read.quoted)
<1>1. read \in ReadStates /\ read.values = Append(prev, text)
  BY DEF Midway
<1> DEFINE more == Append(prev, Append(text, a))
           extended == [read.values EXCEPT ![Len(read.values)] = Append(@, a)]
<1>2. extended = more /\ more \in Seq(Texts) /\ more # <<>>
  <2>1. Append(text, a) \in Texts
    BY AppendProperties DEF Texts
  <2>2. PICK u : u = Append(text, a)
    OBVIOUS
  <2>3. u \in Texts
    BY <2>1, <2>2
  <2>4. Append(prev, u) \in Seq(Texts) /\ Append(prev, u) # <<>>
    BY <2>3, AppendProperties
  <2>5. LET was == Append(prev, text)
        IN  was[Len(was)] = text /\ [was EXCEPT ![Len(was)] = u] = Append(prev, u)
    BY <2>3, LastReplaced
  <2> QED
    BY <1>1, <2>2, <2>4, <2>5
<1>3. [read EXCEPT !.values[Len(read.values)] = Append(@, a)] = [read EXCEPT !.values = extended]
  OBVIOUS
<1> HIDE DEF more, extended
<1>4. /\ [read EXCEPT !.values = more] \in ReadStates
      /\ [read EXCEPT !.values = more].values = more
      /\ [read EXCEPT !.values = more].quoted <=> read.quoted
      /\ ~[read EXCEPT !.values = more].skip
  BY <1>2 DEF ReadStates, Midway
<1>5. [read EXCEPT !.values[Len(read.values)] = Append(@, a)] = [read EXCEPT !.values = more]
  BY <1>2, <1>3
<1> QED
  BY <1>4, <1>5 DEF Midway, more

LEMMA MidwayMore ==
    ASSUME NEW prev \in Seq(Texts), NEW text \in Texts, NEW read, Midway(read, prev, text)
    PROVE  Append(read.values, <<>>) \in Seq(Texts) /\ Append(read.values, <<>>) # <<>>
<1>1. read.values \in Seq(Texts) /\ <<>> \in Texts
  BY TextParts DEF Midway, ReadStates
<1> QED
  BY <1>1, AppendProperties

Outside(read, prev, text) == Midway(read, prev, text) /\ ~read.quoted
Inside(read, prev, text) == Midway(read, prev, text) /\ read.quoted

\* An atom of a value goes to the value.
LEMMA ReadPlain ==
    ASSUME NEW prev \in Seq(Texts), NEW text \in Texts, NEW L \in Texts, NEW i \in 1 .. Len(L),
           NEW read, L[i] # DoubleQuote
    PROVE  /\ Outside(read, prev, text) /\ L[i] # "," => Outside(ReadAtom(read, L, i), prev, Append(text, L[i]))
           /\ Inside(read, prev, text) => Inside(ReadAtom(read, L, i), prev, Append(text, L[i]))
<1>1. L[i] \in Atoms
  BY ElementOfSeq DEF Texts
<1> DEFINE put == [read EXCEPT !.values[Len(read.values)] = Append(@, L[i])]
<1>2. Midway(read, prev, text) => Midway(put, prev, Append(text, L[i])) /\ (put.quoted <=> read.quoted)
  BY <1>1, MidwayPut, Zenon
<1>3. Midway(read, prev, text) /\ (L[i] # "," \/ read.quoted) => ReadAtom(read, L, i) = put
  BY DEF ReadAtom, Midway
<1> HIDE DEF put
<1> QED
  BY <1>2, <1>3 DEF Outside, Inside

\* A doubled quote within quotes is one quote of the value.
LEMMA ReadDoubled ==
    ASSUME NEW prev \in Seq(Texts), NEW text \in Texts, NEW L \in Texts, NEW i \in 1 .. Len(L),
           i + 1 <= Len(L), NEW read, Inside(read, prev, text),
           L[i] = DoubleQuote, L[i + 1] = DoubleQuote
    PROVE  Inside(ReadAtom(ReadAtom(read, L, i), L, i + 1), prev, Append(text, DoubleQuote))
<1>1. L[i] \in Atoms /\ i < Len(L)
  BY ElementOfSeq, LenProperties DEF Texts
<1> DEFINE put == [read EXCEPT !.values[Len(read.values)] = Append(@, L[i])]
           once == [put EXCEPT !.skip = TRUE]
           twice == [once EXCEPT !.skip = FALSE]
<1>2. Midway(put, prev, Append(text, L[i])) /\ (put.quoted <=> read.quoted)
  BY <1>1, MidwayPut, Zenon DEF Inside
<1>3. ReadAtom(read, L, i) = once
  BY <1>1 DEF ReadAtom, Midway, Inside
<1> HIDE DEF put
<1>4. once \in ReadStates /\ once.skip /\ once.values = put.values /\ (once.quoted <=> put.quoted)
  BY <1>2 DEF ReadStates, Midway
<1>5. ReadAtom(once, L, i + 1) = twice
  <2> HIDE DEF once
  <2> QED
    BY <1>4 DEF ReadAtom
<1> HIDE DEF once
<1>6. twice \in ReadStates /\ ~twice.skip /\ twice.values = once.values /\ (twice.quoted <=> once.quoted)
  BY <1>4 DEF ReadStates
<1> HIDE DEF twice
<1> QED
  BY <1>2, <1>3, <1>4, <1>5, <1>6 DEF Midway, Inside

\* A quote that no quote follows opens a value in quotes or ends it.
LEMMA ReadQuote ==
    ASSUME NEW prev \in Seq(Texts), NEW text \in Texts, NEW L \in Texts, NEW i \in 1 .. Len(L),
           NEW read, L[i] = DoubleQuote
    PROVE  /\ Outside(read, prev, text) => Inside(ReadAtom(read, L, i), prev, text)
           /\ Inside(read, prev, text) /\ (i < Len(L) => L[i + 1] # DoubleQuote)
                => Outside(ReadAtom(read, L, i), prev, text)
<1> DEFINE next == [read EXCEPT !.quoted = ~@]
<1>1. Midway(read, prev, text) /\ (~read.quoted \/ (i < Len(L) => L[i + 1] # DoubleQuote))
        => ReadAtom(read, L, i) = next
  BY DEF ReadAtom, Midway
<1>2. Midway(read, prev, text) =>
        next \in ReadStates /\ next.values = read.values /\ (next.quoted <=> ~read.quoted) /\ ~next.skip
  BY DEF Midway, ReadStates
<1> HIDE DEF next
<1> QED
  BY <1>1, <1>2 DEF Midway, Outside, Inside

\* A comma outside quotes ends a value.
LEMMA ReadComma ==
    ASSUME NEW prev \in Seq(Texts), NEW text \in Texts, NEW L \in Texts, NEW i \in 1 .. Len(L),
           NEW read, Outside(read, prev, text), L[i] = ","
    PROVE  Outside(ReadAtom(read, L, i), Append(prev, text), <<>>)
<1> DEFINE more == Append(read.values, <<>>)
           next == [read EXCEPT !.values = more]
<1>1. ReadAtom(read, L, i) = next
  BY DoubleQuoteAtom DEF ReadAtom, Midway, Outside
<1>2. more \in Seq(Texts) /\ more # <<>>
  BY MidwayMore, Zenon DEF Outside
<1>3. read \in ReadStates
  BY DEF Midway, Outside
<1> HIDE DEF more
<1>4. next \in ReadStates /\ next.values = more /\ ~next.quoted /\ ~next.skip
  BY <1>2, <1>3 DEF ReadStates, Midway, Outside
<1> HIDE DEF next
<1> QED
  BY <1>1, <1>4 DEF Midway, more, Outside

\* The states of reading a line.
Reads(up, L) ==
    /\ up \in [0 .. Len(L) -> ReadStates]
    /\ \A n \in 1 .. Len(L) : up[n] = ReadAtom(up[n - 1], L, n)

\* A text stands in a line after place b.
Stands(F, L, b) == b + Len(F) <= Len(L) /\ \A i \in 1 .. Len(F) : L[b + i] = F[i]

LEMMA PrefixExtended ==
    ASSUME NEW text \in Texts, NEW n \in 1 .. Len(text)
    PROVE  /\ SubSeq(text, 1, n) = Append(SubSeq(text, 1, n - 1), text[n])
           /\ SubSeq(text, 1, n - 1) \in Texts
<1>1. Len(text) \in Nat /\ n \in 1 .. Len(text)
  BY LenProperties DEF Texts
<1>2. 1 \in 1 .. Len(text) /\ n - 1 \in 0 .. Len(text) /\ 1 \in 1 .. Len(text) + 1 /\ n - 1 \in 1 - 1 .. Len(text)
  BY <1>1
<1>3. SubSeq(text, 1, n) = SubSeq(text, 1, n - 1) \o <<text[n]>>
  BY <1>1, <1>2, SubSeqRecursiveSecond DEF Texts
<1>4. SubSeq(text, 1, n - 1) \in Texts
  BY <1>2, SliceLength DEF Texts
<1>5. text[n] \in Atoms
  BY ElementOfSeq DEF Texts
<1> QED
  BY <1>3, <1>4, <1>5, AppendIsConcat DEF Texts

\* A value written as it is, is read as it is.
LEMMA ReadBare ==
    ASSUME NEW L \in Texts, NEW up, Reads(up, L), NEW text \in Texts, NEW b \in Nat,
           Stands(text, L, b), \A i \in DOMAIN text : text[i] \notin Marks,
           NEW prev \in Seq(Texts), Outside(up[b], prev, <<>>)
    PROVE  Outside(up[b + Len(text)], prev, text)
<1> DEFINE N == Len(text)
           Holds(n) == Outside(up[b + n], prev, SubSeq(text, 1, n))
           T == {n \in 0 .. N : Holds(n)}
<1>1. N \in Nat /\ DOMAIN text = 1 .. N /\ Len(L) \in Nat
  BY LenProperties DEF Texts
<1>2. 0 \in T
  <2>1. SubSeq(text, 1, 0) = <<>>
    BY SubSeqEmpty
  <2>2. b + 0 = b
    OBVIOUS
  <2>3. Holds(0)
    BY <2>1, <2>2
  <2> HIDE DEF Holds, N
  <2> QED
    BY <1>1, <2>3
<1>3. ASSUME NEW n \in 1 .. N, n - 1 \in T PROVE n \in T
  <2>1. n \in 0 .. N /\ b + n \in 1 .. Len(L) /\ (b + n) - 1 = b + (n - 1) /\ L[b + n] = text[n]
    BY <1>1 DEF Stands
  <2>a. text[n] \notin Marks
    BY <1>1
  <2>2. L[b + n] # "," /\ L[b + n] # DoubleQuote
    BY <2>1, <2>a DEF Marks
  <2>3. /\ SubSeq(text, 1, n) = Append(SubSeq(text, 1, n - 1), text[n])
        /\ SubSeq(text, 1, n - 1) \in Texts
    BY PrefixExtended
  <2>4. Outside(up[b + (n - 1)], prev, SubSeq(text, 1, n - 1))
    BY <1>3
  <2>5. up[b + n] = ReadAtom(up[b + (n - 1)], L, b + n)
    BY <2>1 DEF Reads
  <2>6. Outside(ReadAtom(up[b + (n - 1)], L, b + n), prev, Append(SubSeq(text, 1, n - 1), L[b + n]))
    BY <2>1, <2>2, <2>3, <2>4, ReadPlain
  <2> QED
    BY <2>1, <2>3, <2>5, <2>6
<1>4. 0 .. N \subseteq T
  <2> HIDE DEF T, N
  <2> QED
    BY <1>1, <1>2, <1>3, UpTo
<1>5. N \in T
  BY <1>1, <1>4
<1>6. SubSeq(text, 1, N) = text
  BY SubSeqFull DEF Texts
<1> QED
  BY <1>5, <1>6

\* What quoting puts for one atom.
Escaped(a) == IF a = DoubleQuote THEN <<DoubleQuote, DoubleQuote>> ELSE <<a>>

LEMMA EscapedAtoms ==
    ASSUME NEW a \in Atoms
    PROVE  /\ Escaped(a) \in Texts
           /\ a = DoubleQuote => Len(Escaped(a)) = 2 /\ Escaped(a)[1] = DoubleQuote /\ Escaped(a)[2] = DoubleQuote
           /\ a # DoubleQuote => Len(Escaped(a)) = 1 /\ Escaped(a)[1] = a
BY TextParts, DoubleQuoteAtom DEF Escaped

\* Where the pieces of a quoted value stand.
LEMMA QuotedPlaces ==
    ASSUME NEW text \in Texts
    PROVE  \E end \in [0 .. Len(text) -> Nat] :
             /\ end[0] = 1 /\ Quoted(text)[1] = DoubleQuote
             /\ \A n \in 1 .. Len(text) :
                  /\ end[n] = end[n - 1] + Len(Escaped(text[n]))
                  /\ \A i \in 1 .. Len(Escaped(text[n])) : Quoted(text)[end[n - 1] + i] = Escaped(text[n])[i]
             /\ Len(Quoted(text)) = end[Len(text)] + 1 /\ Quoted(text)[end[Len(text)] + 1] = DoubleQuote
             /\ Quoted(text) \in Texts
             /\ \A n \in 0 .. Len(text) : end[n] <= end[Len(text)]
<1> DEFINE N == Len(text)
<1>1. PICK q \in [0 .. N -> Texts] :
             /\ Quoted(text) = q[N] \o <<DoubleQuote>> /\ q[0] = <<DoubleQuote>>
             /\ \A n \in 1 .. N :
                  q[n] = q[n - 1] \o (IF text[n] = DoubleQuote THEN <<DoubleQuote, DoubleQuote>> ELSE <<text[n]>>)
  BY QuotedSteps, DoubleQuoteAtom DEF Texts
<1>2. N \in Nat /\ \A n \in 1 .. N : text[n] \in Atoms
  BY LenProperties, ElementOfSeq DEF Texts
<1> DEFINE X == [n \in 1 .. N |-> Escaped(text[n])]
           end == [n \in 0 .. N |-> Len(q[n])]
<1>3. X \in [1 .. N -> Texts] /\ \A n \in 1 .. N : X[n] = Escaped(text[n])
  BY <1>2, EscapedAtoms
<1>4. \A n \in 1 .. N : q[n] = q[n - 1] \o X[n]
  BY <1>1, <1>3 DEF Escaped
<1> HIDE DEF X, N
<1>5. /\ \A n \in 0 .. N : /\ Len(q[n]) \in Nat /\ Len(q[n]) <= Len(q[N])
                            /\ \A i \in 1 .. Len(q[n]) : q[N][i] = q[n][i]
      /\ \A n \in 1 .. N : /\ Len(X[n]) \in Nat /\ Len(q[n]) = Len(q[n - 1]) + Len(X[n])
                            /\ \A i \in 1 .. Len(X[n]) : q[N][Len(q[n - 1]) + i] = X[n][i]
  BY <1>2, <1>3, <1>4, Chain
<1>6. /\ Quoted(text) \in Texts /\ Len(Quoted(text)) = Len(q[N]) + 1
      /\ \A i \in 1 .. Len(q[N]) : Quoted(text)[i] = q[N][i]
      /\ Quoted(text)[Len(q[N]) + 1] = DoubleQuote
  <2>1. <<DoubleQuote>> \in Texts /\ Len(<<DoubleQuote>>) = 1 /\ <<DoubleQuote>>[1] = DoubleQuote
    BY DoubleQuoteAtom, TextParts
  <2>2. q[N] \in Texts /\ Len(q[N]) \in Nat
    BY <1>2, <1>5
  <2>3. PICK Q : Q = <<DoubleQuote>>
    OBVIOUS
  <2>4. Q \in Seq(Atoms) /\ q[N] \in Seq(Atoms) /\ Len(Q) = 1 /\ Q[1] = DoubleQuote
    BY <2>1, <2>2, <2>3 DEF Texts
  <2>5. /\ q[N] \o Q \in Seq(Atoms) /\ Len(q[N] \o Q) = Len(q[N]) + 1
        /\ \A i \in 1 .. Len(q[N]) + 1 : (q[N] \o Q)[i] = IF i <= Len(q[N]) THEN q[N][i] ELSE Q[i - Len(q[N])]
    <3>1. q[N] \in Seq(Atoms)
      BY <2>4
    <3>2. Q \in Seq(Atoms)
      BY <2>4
    <3>3. /\ q[N] \o Q \in Seq(Atoms) /\ Len(q[N] \o Q) = Len(q[N]) + Len(Q)
          /\ \A i \in 1 .. Len(q[N]) + Len(Q) : (q[N] \o Q)[i] = IF i <= Len(q[N]) THEN q[N][i] ELSE Q[i - Len(q[N])]
      BY <3>1, <3>2, ConcatProperties, Zenon
    <3> QED
      BY <2>4, <3>3
  <2>6. Quoted(text) = q[N] \o Q
    BY <1>1, <2>3
  <2>7. (q[N] \o Q)[Len(q[N]) + 1] = DoubleQuote
    BY <2>2, <2>4, <2>5
  <2>8. \A i \in 1 .. Len(q[N]) : (q[N] \o Q)[i] = q[N][i]
    BY <2>2, <2>5
  <2> QED
    BY <2>5, <2>6, <2>7, <2>8 DEF Texts
<1>7. Len(q[0]) = 1 /\ Quoted(text)[1] = DoubleQuote
  <2>1. Len(q[0]) = 1 /\ q[0][1] = DoubleQuote
    BY <1>1
  <2>2. 0 \in 0 .. N /\ 1 \in 1 .. Len(q[0])
    BY <1>2, <2>1
  <2>3. q[N][1] = DoubleQuote /\ 1 \in 1 .. Len(q[N])
    BY <1>5, <1>2, <2>1, <2>2
  <2> QED
    BY <1>6, <2>1, <2>3
<1>8. ASSUME NEW n \in 1 .. N
      PROVE  /\ end[n] = end[n - 1] + Len(Escaped(text[n]))
             /\ \A i \in 1 .. Len(Escaped(text[n])) : Quoted(text)[end[n - 1] + i] = Escaped(text[n])[i]
  <2>1. n \in 0 .. N /\ n - 1 \in 0 .. N /\ N \in 0 .. N
    BY <1>2
  <2>2. end[n] = Len(q[n]) /\ end[n - 1] = Len(q[n - 1]) /\ X[n] = Escaped(text[n])
    BY <1>3, <2>1
  <2>3. \A i \in 1 .. Len(X[n]) : Len(q[n - 1]) + i \in 1 .. Len(q[N])
    <3>1. Len(q[n]) <= Len(q[N]) /\ Len(q[n]) = Len(q[n - 1]) + Len(X[n])
      BY <1>5, <2>1
    <3>2. Len(q[n - 1]) \in Nat /\ Len(X[n]) \in Nat /\ Len(q[N]) \in Nat
      BY <1>5, <2>1
    <3>3. \A a, b, c, d \in Nat : a <= b /\ a = c + d => \A i \in 1 .. d : c + i \in 1 .. b
      OBVIOUS
    <3>4. Len(q[n]) \in Nat
      BY <1>5, <2>1
    <3> QED
      BY <3>1, <3>2, <3>3, <3>4, Zenon
  <2>4. \A i \in 1 .. Len(X[n]) : Quoted(text)[Len(q[n - 1]) + i] = X[n][i]
    BY <1>5, <1>6, <2>3
  <2>5. Len(q[n]) = Len(q[n - 1]) + Len(X[n])
    BY <1>5
  <2> HIDE DEF end
  <2> QED
    BY <2>2, <2>4, <2>5
<1>9. end \in [0 .. N -> Nat] /\ end[0] = 1 /\ end[N] = Len(q[N]) /\ \A n \in 0 .. N : end[n] <= end[N]
  BY <1>2, <1>5, <1>7
<1> HIDE DEF end
<1> QED
  BY <1>6, <1>7, <1>8, <1>9 DEF N

\* A value written in quotes is read without them, and each doubled quote once.
LEMMA ReadInQuotes ==
    ASSUME NEW L \in Texts, NEW up, Reads(up, L), NEW text \in Texts, NEW b \in Nat,
           Stands(Quoted(text), L, b),
           b + Len(Quoted(text)) < Len(L) => L[b + Len(Quoted(text)) + 1] # DoubleQuote,
           NEW prev \in Seq(Texts), Outside(up[b], prev, <<>>)
    PROVE  Outside(up[b + Len(Quoted(text))], prev, text)
<1> DEFINE N == Len(text)
           Q == Quoted(text)
<1>1. N \in Nat /\ Len(L) \in Nat /\ (\A n \in 1 .. N : text[n] \in Atoms)
  BY LenProperties, ElementOfSeq DEF Texts
<1>2. PICK end \in [0 .. N -> Nat] :
             /\ end[0] = 1 /\ Q[1] = DoubleQuote
             /\ \A n \in 1 .. N :
                  /\ end[n] = end[n - 1] + Len(Escaped(text[n]))
                  /\ \A i \in 1 .. Len(Escaped(text[n])) : Q[end[n - 1] + i] = Escaped(text[n])[i]
             /\ Len(Q) = end[N] + 1 /\ Q[end[N] + 1] = DoubleQuote
             /\ Q \in Texts
             /\ \A n \in 0 .. N : end[n] <= end[N]
  BY QuotedPlaces
<1>3. /\ b + Len(Q) <= Len(L) /\ \A i \in 1 .. Len(Q) : L[b + i] = Q[i]
      /\ b + Len(Q) < Len(L) => L[b + Len(Q) + 1] # DoubleQuote
  BY DEF Stands
<1> HIDE DEF Q, N
<1>a. N \in Nat
  BY <1>1
<1>4. /\ Len(Q) \in Nat /\ end[N] \in Nat /\ Len(L) \in Nat
      /\ Len(Q) = end[N] + 1 /\ b + Len(Q) <= Len(L)
  BY <1>1, <1>2, <1>3
<1>b. \A n \in 0 .. N : end[n] \in Nat
  BY <1>a
<1> DEFINE Holds(n) == Inside(up[b + end[n]], prev, SubSeq(text, 1, n))
           T == {n \in 0 .. N : Holds(n)}
<1>5. \A m \in 1 .. Len(L) : up[m] = ReadAtom(up[m - 1], L, m)
  BY DEF Reads
<1>6. 0 \in T
  <2>1. SubSeq(text, 1, 0) = <<>>
    BY SubSeqEmpty
  <2>2. 1 \in 1 .. Len(Q) /\ b + 1 \in 1 .. Len(L) /\ (b + 1) - 1 = b
    BY <1>4
  <2>3. L[b + 1] = DoubleQuote
    BY <1>2, <1>3, <2>2
  <2>4. up[b + 1] = ReadAtom(up[b], L, b + 1)
    BY <1>5, <2>2
  <2>5. <<>> \in Texts
    BY TextParts
  <2>6. Inside(ReadAtom(up[b], L, b + 1), prev, <<>>)
    BY <2>2, <2>3, <2>5, ReadQuote
  <2>7. Holds(0)
    BY <1>2, <2>1, <2>4, <2>6
  <2> HIDE DEF Holds
  <2> QED
    BY <1>1, <2>7
<1>7. ASSUME NEW n \in 1 .. N, n - 1 \in T PROVE n \in T
  <2> DEFINE m == b + end[n - 1]
             before == SubSeq(text, 1, n - 1)
  <2>1. n \in 0 .. N /\ n - 1 \in 0 .. N /\ end[n] \in Nat /\ end[n - 1] \in Nat
    BY <1>a, <1>b
  <2>2. m \in Nat /\ Inside(up[m], prev, before)
    BY <1>7, <2>1
  <2>3. text[n] \in Atoms /\ SubSeq(text, 1, n) = Append(before, text[n]) /\ before \in Texts
    BY <1>1, PrefixExtended DEF N
  <2>4. /\ end[n] = end[n - 1] + Len(Escaped(text[n])) /\ end[n] <= end[N]
        /\ \A i \in 1 .. Len(Escaped(text[n])) : Q[end[n - 1] + i] = Escaped(text[n])[i]
    BY <1>2, <2>1
  <2> HIDE DEF before
  <2>5. CASE text[n] = DoubleQuote
    <3>1. Len(Escaped(text[n])) = 2 /\ Escaped(text[n])[1] = DoubleQuote /\ Escaped(text[n])[2] = DoubleQuote
      BY <2>3, <2>5, EscapedAtoms
    <3>2. Q[end[n - 1] + 1] = DoubleQuote /\ Q[end[n - 1] + 2] = DoubleQuote
      BY <2>4, <3>1
    <3>3. /\ end[n - 1] + 1 \in 1 .. Len(Q) /\ end[n - 1] + 2 \in 1 .. Len(Q)
          /\ m + 1 \in 1 .. Len(L) /\ m + 2 \in 1 .. Len(L) /\ (m + 1) + 1 = m + 2
          /\ (m + 1) - 1 = m /\ (m + 2) - 1 = m + 1 /\ end[n] = end[n - 1] + 2
          /\ b + (end[n - 1] + 1) = m + 1 /\ b + (end[n - 1] + 2) = m + 2 /\ b + end[n] = m + 2
          /\ (m + 1) + 1 <= Len(L)
      <4>1. end[n] = end[n - 1] + Len(Escaped(text[n])) /\ end[n] <= end[N]
        BY <2>4
      <4>2. Len(Escaped(text[n])) = 2
        BY <3>1
      <4>3. end[n] = end[n - 1] + 2
        BY <4>1, <4>2
      <4>4. end[n - 1] \in Nat
        BY <2>1
      <4>5. end[n] <= end[N]
        BY <4>1
      <4>6. end[n - 1] + 2 <= end[N]
        BY <4>3, <4>5
      <4>7. end[n - 1] + 2 <= Len(Q)
        BY <1>4, <4>4, <4>6
      <4>8. m + 2 <= Len(L)
        BY <1>4, <4>4, <4>7, SMTT(30)
      <4>9. m \in Nat
        BY <4>4
      <4>10. b + (end[n - 1] + 1) = m + 1 /\ b + (end[n - 1] + 2) = m + 2
        BY <4>4
      <4>11. b + end[n] = m + 2
        BY <4>3, <4>10
      <4> HIDE DEF m
      <4>12. /\ m + 1 \in 1 .. Len(L) /\ (m + 1) - 1 = m /\ m + 2 \in 1 .. Len(L)
             /\ (m + 1) + 1 = m + 2 /\ (m + 2) - 1 = m + 1 /\ (m + 1) + 1 <= Len(L)
        BY <1>4, <4>8, <4>9
      <4>13. end[n - 1] + 1 \in 1 .. Len(Q) /\ end[n - 1] + 2 \in 1 .. Len(Q)
        <5>1. PICK e : e = end[n - 1]
          OBVIOUS
        <5>2. e \in Nat /\ e + 2 <= Len(Q) /\ Len(Q) \in Nat
          BY <1>4, <4>4, <4>7, <5>1
        <5>3. e + 1 \in 1 .. Len(Q) /\ e + 2 \in 1 .. Len(Q)
          BY <5>2
        <5> QED
          BY <5>1, <5>3
      <4> QED
        BY <4>3, <4>10, <4>11, <4>12, <4>13
    <3>4. L[m + 1] = DoubleQuote /\ L[(m + 1) + 1] = DoubleQuote
      BY <1>3, <3>2, <3>3
    <3> HIDE DEF m
    <3>5. up[m + 2] = ReadAtom(ReadAtom(up[m], L, m + 1), L, (m + 1) + 1)
      BY <1>5, <3>3
    <3>6. Inside(ReadAtom(ReadAtom(up[m], L, m + 1), L, (m + 1) + 1), prev, Append(before, DoubleQuote))
      BY <2>2, <2>3, <3>3, <3>4, ReadDoubled
    <3>7. Holds(n)
      BY <2>3, <2>5, <3>3, <3>5, <3>6
    <3> HIDE DEF Holds
    <3> QED
      BY <2>1, <3>7
  <2>6. CASE text[n] # DoubleQuote
    <3>1. Len(Escaped(text[n])) = 1 /\ Escaped(text[n])[1] = text[n]
      BY <2>3, <2>6, EscapedAtoms
    <3>2. Q[end[n - 1] + 1] = text[n]
      BY <2>4, <3>1
    <3>3. /\ end[n - 1] + 1 \in 1 .. Len(Q) /\ m + 1 \in 1 .. Len(L) /\ (m + 1) - 1 = m
          /\ end[n] = end[n - 1] + 1 /\ b + (end[n - 1] + 1) = m + 1 /\ b + end[n] = m + 1
      <4>1. end[n] = end[n - 1] + Len(Escaped(text[n])) /\ end[n] <= end[N]
        BY <2>4
      <4>2. Len(Escaped(text[n])) = 1
        BY <3>1
      <4>3. end[n] = end[n - 1] + 1
        BY <4>1, <4>2
      <4>4. end[n - 1] \in Nat
        BY <2>1
      <4>5. end[n] <= end[N]
        BY <4>1
      <4>6. end[n - 1] + 1 <= end[N]
        BY <4>3, <4>5
      <4>7. end[n - 1] + 1 <= Len(Q)
        BY <1>4, <4>4, <4>6
      <4>8. m + 1 <= Len(L)
        BY <1>4, <4>4, <4>7, SMTT(30)
      <4>9. m \in Nat
        BY <4>4
      <4>10. b + (end[n - 1] + 1) = m + 1
        BY <4>4
      <4>11. b + end[n] = m + 1
        BY <4>3, <4>10
      <4> HIDE DEF m
      <4>12. m + 1 \in 1 .. Len(L) /\ (m + 1) - 1 = m
        BY <1>4, <4>8, <4>9
      <4>13. end[n - 1] + 1 \in 1 .. Len(Q)
        BY <1>4, <4>4, <4>7, SMTT(30)
      <4> QED
        BY <4>3, <4>10, <4>11, <4>12, <4>13
    <3>4. L[m + 1] = text[n]
      BY <1>3, <3>2, <3>3
    <3> HIDE DEF m
    <3>5. up[m + 1] = ReadAtom(up[m], L, m + 1)
      BY <1>5, <3>3
    <3>6. L[m + 1] # DoubleQuote
      BY <2>6, <3>4
    <3>7. Inside(ReadAtom(up[m], L, m + 1), prev, Append(before, L[m + 1]))
      BY <2>2, <2>3, <3>3, <3>6, ReadPlain
    <3>8. Holds(n)
      BY <2>3, <3>3, <3>4, <3>5, <3>7
    <3> HIDE DEF Holds
    <3> QED
      BY <2>1, <3>8
  <2> QED
    BY <2>5, <2>6
<1>8. N \in T
  <2>1. 0 .. N \subseteq T
    <3> HIDE DEF T
    <3> QED
      BY <1>1, <1>6, <1>7, UpTo
  <2> HIDE DEF T
  <2> QED
    BY <1>1, <2>1
<1>9. Inside(up[b + end[N]], prev, text)
  <2>1. SubSeq(text, 1, N) = text
    BY SubSeqFull DEF Texts, N
  <2> QED
    BY <1>8, <2>1
<1> DEFINE m == b + end[N]
<1>10. /\ m + 1 \in 1 .. Len(L) /\ (m + 1) - 1 = m /\ b + Len(Q) = m + 1 /\ b + (end[N] + 1) = m + 1
       /\ end[N] + 1 \in 1 .. Len(Q)
  BY <1>4
<1>11. L[m + 1] = DoubleQuote /\ (m + 1 < Len(L) => L[(m + 1) + 1] # DoubleQuote)
  BY <1>2, <1>3, <1>10
<1> HIDE DEF m
<1>12. up[m + 1] = ReadAtom(up[m], L, m + 1)
  BY <1>5, <1>10
<1>13. Inside(up[m], prev, text)
  BY <1>9 DEF m
<1>14. Outside(ReadAtom(up[m], L, m + 1), prev, text)
  BY <1>10, <1>11, <1>13, ReadQuote
<1> QED
  BY <1>10, <1>12, <1>14 DEF Q

\* A value as it is written: at most all quotes, each doubled, and two around them.
LEMMA FieldShape ==
    ASSUME NEW A, DoubleQuote \in A, A \subseteq Atoms, NEW text \in Seq(A)
    PROVE  /\ write_csv_field(text) \in Seq(A)
           /\ Len(write_csv_field(text)) \in Nat
           /\ Len(write_csv_field(text)) <= Len(text) * 2 + 2
<1>1. text \in Texts /\ Len(text) \in Nat
  BY SeqMonotonic, LenProperties DEF Texts
<1>2. Quoted(text) \in Seq(A)
  <2>1. PICK q \in [0 .. Len(text) -> Seq(A)] :
             Quoted(text) = q[Len(text)] \o <<DoubleQuote>>
    BY QuotedSteps
  <2>2. q[Len(text)] \in Seq(A) /\ <<DoubleQuote>> \in Seq(A)
    BY <1>1
  <2> QED
    BY <2>1, <2>2, ConcatProperties
<1>3. Len(Quoted(text)) \in Nat /\ Len(Quoted(text)) <= Len(text) * 2 + 2
  <2> DEFINE N == Len(text)
  <2>1. PICK end \in [0 .. N -> Nat] :
             /\ end[0] = 1
             /\ \A n \in 1 .. N : end[n] = end[n - 1] + Len(Escaped(text[n]))
             /\ Len(Quoted(text)) = end[N] + 1
    <3> HIDE DEF Quoted
    <3> QED
      BY <1>1, QuotedPlaces
  <2>2. \A n \in 1 .. N : Len(Escaped(text[n])) \in 1 .. 2
    BY <1>1, ElementOfSeq, EscapedAtoms DEF Texts
  <2> DEFINE T == {n \in 0 .. N : end[n] <= n * 2 + 1}
  <2>a. N \in Nat
    BY <1>1
  <2> HIDE DEF N
  <2>3. 0 \in T
    BY <2>1, <2>a
  <2>4. ASSUME NEW n \in 1 .. N, n - 1 \in T PROVE n \in T
    <3>1. n \in 0 .. N /\ n - 1 \in 0 .. N /\ end[n] \in Nat /\ end[n - 1] \in Nat
      BY <2>a
    <3>2. end[n] = end[n - 1] + Len(Escaped(text[n])) /\ Len(Escaped(text[n])) \in 1 .. 2
      BY <2>1, <2>2
    <3>3. end[n - 1] <= (n - 1) * 2 + 1
      BY <2>4
    <3>4. PICK k : k = Len(Escaped(text[n]))
      OBVIOUS
    <3>5. end[n] = end[n - 1] + k /\ k \in 1 .. 2
      BY <3>2, <3>4
    <3>6. end[n] <= n * 2 + 1
      BY <3>1, <3>3, <3>5
    <3> QED
      BY <3>1, <3>6
  <2>5. 0 .. N \subseteq T
    <3> HIDE DEF T
    <3> QED
      BY <2>a, <2>3, <2>4, UpTo
  <2>6. end[N] <= N * 2 + 1 /\ end[N] \in Nat
    BY <2>5, <2>a
  <2> QED
    BY <2>1, <2>6, <2>a DEF N
<1> HIDE DEF Quoted
<1>4. write_csv_field(text) \in {text, Quoted(text)}
  BY Zenon DEF write_csv_field
<1> QED
  BY <1>1, <1>2, <1>3, <1>4

\* A value as it is written is read as it was.
LEMMA ReadField ==
    ASSUME NEW L \in Texts, NEW up, Reads(up, L), NEW text \in Texts, NEW b \in Nat,
           Stands(write_csv_field(text), L, b),
           b + Len(write_csv_field(text)) < Len(L) => L[b + Len(write_csv_field(text)) + 1] # DoubleQuote,
           NEW prev \in Seq(Texts), Outside(up[b], prev, <<>>)
    PROVE  Outside(up[b + Len(write_csv_field(text))], prev, text)
<1> DEFINE Marked == \E i \in DOMAIN text : text[i] \in Marks
<1>1. CASE Marked
  <2>1. write_csv_field(text) = Quoted(text)
    BY <1>1, Zenon DEF write_csv_field
  <2>2. PICK F : F = write_csv_field(text)
    OBVIOUS
  <2>3. Stands(Quoted(text), L, b)
    BY <2>1, Zenon
  <2>4. b + Len(Quoted(text)) < Len(L) => L[b + Len(Quoted(text)) + 1] # DoubleQuote
    BY <2>1, Zenon
  <2>5. Outside(up[b + Len(Quoted(text))], prev, text)
    BY <2>3, <2>4, ReadInQuotes, Zenon
  <2> QED
    BY <2>1, <2>5, Zenon
<1>2. CASE ~Marked
  <2>1. write_csv_field(text) = text
    BY <1>2, Zenon DEF write_csv_field
  <2>2. Stands(text, L, b)
    BY <2>1, Zenon
  <2>3. Outside(up[b + Len(text)], prev, text)
    BY <1>2, <2>2, ReadBare, Zenon
  <2> QED
    BY <2>1, <2>3, Zenon
<1> QED
  BY <1>1, <1>2, Zenon

\* Where the texts stand that are joined.
LEMMA JoinedPlaces ==
    ASSUME NEW A, Comma \in A, A \subseteq Atoms, NEW texts \in Seq(Seq(A)), texts # <<>>
    PROVE  \E start \in [1 .. Len(texts) -> Nat] :
             /\ start[1] = 0 /\ Joined(texts) \in Seq(A)
             /\ \A n \in 1 .. Len(texts) : Len(texts[n]) \in Nat /\ Stands(texts[n], Joined(texts), start[n])
             /\ \A n \in 2 .. Len(texts) :
                  start[n] = start[n - 1] + Len(texts[n - 1]) + 1 /\ Joined(texts)[start[n]] = Comma
             /\ Len(Joined(texts)) = start[Len(texts)] + Len(texts[Len(texts)])
<1> DEFINE N == Len(texts)
<1>1. N \in Nat \ {0} /\ \A n \in 1 .. N : texts[n] \in Seq(A) /\ texts[n] \in Texts /\ Len(texts[n]) \in Nat
  BY EmptySeq, ElementOfSeq, SeqMonotonic, LenProperties DEF Texts
<1>2. PICK J \in [0 .. N -> Seq(A)] :
             /\ Joined(texts) = J[N] /\ J[0] = <<>>
             /\ \A n \in 1 .. N : J[n] = IF n = 1 THEN texts[1] ELSE J[n - 1] \o <<",">> \o texts[n]
  BY JoinedSteps
<1>c. 1 \in 1 .. N /\ 1 \in 0 .. N /\ N \in 0 .. N
  BY <1>1
<1>a. Joined(texts) = J[N] /\ J[N] \in Seq(A)
  <2>1. J[N] \in Seq(A)
    BY <1>c
  <2> QED
    BY <1>2, <2>1, Zenon
<1>b. J[1] = texts[1] /\ 1 \in 1 .. N /\ 1 \in 0 .. N
  BY <1>c, <1>2, Zenon
<1> DEFINE X == [n \in 1 .. N |-> IF n = 1 THEN texts[1] ELSE <<Comma>> \o texts[n]]
           start == [n \in 1 .. N |-> IF n = 1 THEN 0 ELSE Len(J[n - 1]) + 1]
<1>3. PICK c : c = <<Comma>>
  OBVIOUS
<1>4. c \in Texts /\ Len(c) = 1 /\ c[1] = Comma
  BY <1>3 DEF Texts
<1>5. \A n \in 0 .. N : J[n] \in Texts
  BY SeqMonotonic DEF Texts
<1> HIDE DEF N
<1>6. ASSUME NEW n \in 1 .. N, n # 1
      PROVE  /\ c \o texts[n] \in Texts /\ Len(c \o texts[n]) = Len(texts[n]) + 1
             /\ (c \o texts[n])[1] = Comma
             /\ \A i \in 1 .. Len(texts[n]) : (c \o texts[n])[i + 1] = texts[n][i]
             /\ J[n] = J[n - 1] \o (c \o texts[n])
  <2>1. PICK t : t = texts[n]
    OBVIOUS
  <2>2. t \in Seq(Atoms) /\ Len(t) \in Nat
    BY <1>1, <2>1 DEF Texts
  <2>3. c \in Seq(Atoms)
    BY <1>4 DEF Texts
  <2>4. /\ c \o t \in Seq(Atoms) /\ Len(c \o t) = Len(c) + Len(t)
        /\ \A i \in 1 .. Len(c) + Len(t) : (c \o t)[i] = IF i <= Len(c) THEN c[i] ELSE t[i - Len(c)]
    <3>1. t \in Seq(Atoms)
      BY <2>2
    <3> QED
      BY <2>3, <3>1, ConcatProperties
  <2>5. (c \o t)[1] = Comma /\ Len(c \o t) = Len(t) + 1
    BY <1>4, <2>2, <2>4
  <2>6. \A i \in 1 .. Len(t) : (c \o t)[i + 1] = t[i]
    <3> TAKE i \in 1 .. Len(t)
    <3>1. i + 1 \in 1 .. 1 + Len(t) /\ ~(i + 1 <= 1) /\ (i + 1) - 1 = i
      BY <2>2
    <3>2. Len(c) = 1
      BY <1>4
    <3> QED
      BY <2>4, <3>1, <3>2
  <2>7. n - 1 \in 0 .. N
    BY <1>1
  <2>8. J[n - 1] \in Seq(Atoms)
    BY <1>5, <2>7 DEF Texts
  <2>9. (J[n - 1] \o c) \o t = J[n - 1] \o (c \o t)
    <3>1. t \in Seq(Atoms)
      BY <2>2
    <3>2. PICK u : u = J[n - 1]
      OBVIOUS
    <3>3. u \in Seq(Atoms)
      BY <2>8, <3>2
    <3>4. (u \o c) \o t = u \o (c \o t)
      BY <2>3, <3>1, <3>3, ConcatAssociative, SMTT(30)
    <3> QED
      BY <3>2, <3>4
  <2>10. J[n] = J[n - 1] \o c \o t
    <3>1. J[n] = J[n - 1] \o <<",">> \o texts[n]
      BY <1>2, <1>6
    <3> QED
      BY <1>3, <2>1, <3>1, Zenon DEF Comma
  <2>11. c \o t \in Texts
    BY <2>4 DEF Texts
  <2> QED
    BY <2>1, <2>5, <2>6, <2>9, <2>10, <2>11
<1>7. \A n \in 1 .. N : X[n] = IF n = 1 THEN texts[1] ELSE c \o texts[n]
  BY <1>3
<1>8. X \in [1 .. N -> Texts]
  <2>1. \A n \in 1 .. N : X[n] \in Texts
    BY <1>1, <1>6, <1>7
  <2>2. X = [n \in 1 .. N |-> X[n]]
    OBVIOUS
  <2> HIDE DEF X
  <2> QED
    BY <2>1, <2>2
<1> HIDE DEF X
<1>9. \A n \in 1 .. N : J[n] = J[n - 1] \o X[n]
  <2> TAKE n \in 1 .. N
  <2>1. CASE n = 1
    <3>1. texts[1] \in Seq(Atoms) /\ 1 - 1 = 0
      BY <1>1, <2>1 DEF Texts
    <3>2. <<>> \o texts[1] = texts[1]
      BY <3>1, ConcatEmptySeq
    <3> QED
      BY <1>2, <1>7, <2>1, <3>1, <3>2
  <2>2. CASE n # 1
    BY <1>6, <1>7, <2>2
  <2> QED
    BY <2>1, <2>2
<1>10. J \in [0 .. N -> Texts]
  BY <1>5
<1>11. /\ \A n \in 0 .. N : /\ Len(J[n]) \in Nat /\ Len(J[n]) <= Len(J[N])
                            /\ \A i \in 1 .. Len(J[n]) : J[N][i] = J[n][i]
       /\ \A n \in 1 .. N : /\ Len(X[n]) \in Nat /\ Len(J[n]) = Len(J[n - 1]) + Len(X[n])
                            /\ \A i \in 1 .. Len(X[n]) : J[N][Len(J[n - 1]) + i] = X[n][i]
  BY <1>1, <1>8, <1>9, <1>10, Chain
<1>12. \A n \in 1 .. N : start[n] = IF n = 1 THEN 0 ELSE Len(J[n - 1]) + 1
  OBVIOUS
<1>13. start \in [1 .. N -> Nat]
  <2>1. \A n \in 1 .. N : n - 1 \in 0 .. N
    BY <1>1
  <2>2. \A n \in 1 .. N : Len(J[n - 1]) + 1 \in Nat
    BY <1>11, <2>1
  <2> QED
    BY <2>2
<1> HIDE DEF start
<1>14. ASSUME NEW n \in 1 .. N
       PROVE  Len(J[n]) = start[n] + Len(texts[n])
  <2>1. CASE n = 1
    <3>1. J[1] = texts[1] /\ start[1] = 0 /\ Len(texts[1]) \in Nat
      BY <1>1, <1>2, <1>12, <2>1
    <3> QED
      BY <2>1, <3>1
  <2>2. CASE n # 1
    <3>1. Len(J[n]) = Len(J[n - 1]) + Len(X[n]) /\ Len(X[n]) = Len(texts[n]) + 1 /\ start[n] = Len(J[n - 1]) + 1
      BY <1>6, <1>7, <1>11, <1>12, <2>2
    <3>2. Len(J[n - 1]) \in Nat /\ Len(texts[n]) \in Nat
      <4>1. n - 1 \in 0 .. N
        BY <1>1
      <4> QED
        BY <1>1, <1>11, <4>1
    <3>3. \A j, t, x, u, v \in Nat : v = u + x /\ x = t + 1 /\ j = u + 1 => v = j + t
      OBVIOUS
    <3>4. Len(J[n]) \in Nat /\ Len(X[n]) \in Nat /\ start[n] \in Nat
      <4>1. n \in 0 .. N
        BY <1>1
      <4> QED
        BY <1>11, <1>13, <4>1
    <3>5. PICK j, t, x, u, v : j = start[n] /\ t = Len(texts[n]) /\ x = Len(X[n]) /\ u = Len(J[n - 1]) /\ v = Len(J[n])
      OBVIOUS
    <3>6. j \in Nat /\ t \in Nat /\ x \in Nat /\ u \in Nat /\ v \in Nat
      BY <3>2, <3>4, <3>5
    <3>7. v = u + x /\ x = t + 1 /\ j = u + 1
      BY <3>1, <3>5
    <3>8. v = j + t
      BY <3>3, <3>6, <3>7
    <3> QED
      BY <3>5, <3>8
  <2> QED
    BY <2>1, <2>2
<1>15. ASSUME NEW n \in 1 .. N PROVE Stands(texts[n], J[N], start[n])
  <2>1. start[n] + Len(texts[n]) <= Len(J[N])
    <3>1. n \in 0 .. N
      BY <1>1
    <3> QED
      BY <1>11, <1>14, <3>1
  <2>2. ASSUME NEW i \in 1 .. Len(texts[n]) PROVE J[N][start[n] + i] = texts[n][i]
    <3>1. CASE n = 1
      <4>1. start[n] = 0 /\ J[1] = texts[1] /\ 1 \in 0 .. N
        BY <1>b, <1>12, <3>1
      <4>2. J[N][i] = texts[n][i]
        BY <1>11, <3>1, <4>1
      <4>3. 0 + i = i
        BY <1>1
      <4> QED
        BY <4>1, <4>2, <4>3
    <3>2. CASE n # 1
      <4>1. X[n] = c \o texts[n] /\ Len(X[n]) = Len(texts[n]) + 1 /\ X[n][i + 1] = texts[n][i] /\ start[n] = Len(J[n - 1]) + 1
        <5>1. X[n] = c \o texts[n] /\ start[n] = Len(J[n - 1]) + 1
          BY <1>7, <1>12, <3>2
        <5>2. /\ Len(c \o texts[n]) = Len(texts[n]) + 1
              /\ \A k \in 1 .. Len(texts[n]) : (c \o texts[n])[k + 1] = texts[n][k]
          BY <1>6, <3>2
        <5> QED
          BY <5>1, <5>2
      <4>2. Len(texts[n]) \in Nat /\ Len(J[n - 1]) \in Nat
        <5>1. n - 1 \in 0 .. N
          BY <1>1
        <5> QED
          BY <1>1, <1>11, <5>1
      <4>3. i + 1 \in 1 .. Len(X[n]) /\ Len(J[n - 1]) + (i + 1) = start[n] + i
        <5>1. Len(X[n]) = Len(texts[n]) + 1 /\ start[n] = Len(J[n - 1]) + 1
          BY <4>1
        <5>2. PICK t, u : t = Len(texts[n]) /\ u = Len(J[n - 1])
          OBVIOUS
        <5>3. t \in Nat /\ u \in Nat /\ i \in 1 .. t
          BY <4>2, <5>2
        <5>4. i + 1 \in 1 .. t + 1 /\ u + (i + 1) = (u + 1) + i
          BY <5>3
        <5> QED
          BY <5>1, <5>2, <5>4
      <4>4. J[N][Len(J[n - 1]) + (i + 1)] = X[n][i + 1]
        BY <1>11, <4>3
      <4> QED
        BY <4>1, <4>3, <4>4
    <3> QED
      BY <3>1, <3>2
  <2> QED
    BY <2>1, <2>2 DEF Stands
<1>16. ASSUME NEW n \in 2 .. N
       PROVE  start[n] = start[n - 1] + Len(texts[n - 1]) + 1 /\ J[N][start[n]] = Comma
  <2>1. n \in 1 .. N /\ n # 1 /\ n - 1 \in 1 .. N
    BY <1>1
  <2>2. start[n] = Len(J[n - 1]) + 1 /\ Len(J[n - 1]) = start[n - 1] + Len(texts[n - 1])
    BY <1>12, <1>14, <2>1
  <2>3. X[n] = c \o texts[n] /\ X[n][1] = Comma /\ Len(X[n]) = Len(texts[n]) + 1 /\ Len(texts[n]) \in Nat
    BY <1>1, <1>6, <1>7, <2>1
  <2>a. Len(X[n]) = Len(texts[n]) + 1 /\ Len(texts[n]) \in Nat
    BY <2>3
  <2>4. 1 \in 1 .. Len(X[n])
    BY <2>a
  <2>5. J[N][Len(J[n - 1]) + 1] = X[n][1]
    BY <1>11, <2>1, <2>4
  <2> QED
    BY <2>2, <2>3, <2>5
<1>17. Joined(texts) \in Seq(A) /\ Joined(texts) = J[N]
  BY <1>a
<1>18. N \in 1 .. N /\ 1 \in 1 .. N
  BY <1>1
<1>19. start[1] = 0 /\ Len(J[N]) = start[N] + Len(texts[N])
  BY <1>12, <1>14, <1>18
<1> QED
  BY <1>1, <1>13, <1>15, <1>16, <1>17, <1>19 DEF N

Newline == "\n"

LEMMA PlainAtoms ==
    /\ DoubleQuote \in Plain /\ Comma \in Plain /\ Plain \subseteq Atoms
    /\ Newline \in Atoms /\ Newline \notin Plain
    /\ Comma # DoubleQuote
<1>1. DoubleQuote \in Plain
  BY DoubleQuoteAtom, Zenon DEF Plain
<1>2. Comma \in Plain /\ Newline \in Atoms
  BY DEF Comma, Plain, Atoms, Symbols, Newline, Others
<1>3. Comma # DoubleQuote
  BY Zenon DEF Comma, DoubleQuote
<1> QED
  BY <1>1, <1>2, <1>3, Zenon DEF Plain, Newline

\* A line ends with the first newline, and a row has none before it (fgets).
LEMMA LineRead ==
    ASSUME NEW text \in Seq(Plain)
    PROVE  /\ FirstLine(text \o <<Newline>>) = text
           /\ text \o <<Newline>> \in Texts /\ Len(text \o <<Newline>>) = Len(text) + 1
<1>1. PICK c : c = <<Newline>>
  OBVIOUS
<1>2. PICK s : s = text \o c
  OBVIOUS
<1> DEFINE N == Len(text)
<1>3. c \in Seq(Atoms) /\ Len(c) = 1 /\ c[1] \notin Plain
  BY <1>1, PlainAtoms
<1>4. text \in Seq(Atoms) /\ N \in Nat
  BY PlainAtoms, SeqMonotonic, LenProperties
<1>a. text \in Seq(Atoms)
  BY <1>4
<1>b. c \in Seq(Atoms)
  BY <1>3
<1>5. /\ s \in Seq(Atoms) /\ Len(s) = N + Len(c)
      /\ \A i \in 1 .. N + Len(c) : s[i] = IF i <= N THEN text[i] ELSE c[i - N]
  BY <1>2, <1>a, <1>b, ConcatProperties
<1>6. Len(s) = N + 1 /\ s[N + 1] \notin Plain /\ \A i \in 1 .. N : s[i] = text[i]
  BY <1>3, <1>4, <1>5
<1>7. \A i \in 1 .. N : s[i] \in Plain
  BY <1>6, ElementOfSeq
<1> DEFINE P == {n \in 1 .. Len(s) : \A i \in 1 .. n : s[i] \in Plain}
<1>8. P = 1 .. N
  <2>a. N \in Nat /\ Len(s) = N + 1
    BY <1>4, <1>6
  <2> HIDE DEF N
  <2>1. ASSUME NEW n \in P PROVE n \in 1 .. N
    <3>1. n \in 1 .. N + 1
      BY <2>a
    <3>2. n # N + 1
      <4> SUFFICES ASSUME n = N + 1 PROVE FALSE
        OBVIOUS
      <4>1. N + 1 \in 1 .. n
        BY <2>a
      <4> QED
        BY <1>6, <4>1
    <3> QED
      BY <3>1, <3>2, <2>a
  <2>2. ASSUME NEW n \in 1 .. N PROVE n \in P
    <3>1. n \in 1 .. Len(s)
      BY <2>a
    <3>2. \A i \in 1 .. n : i \in 1 .. N
      BY <2>a
    <3> QED
      BY <1>7, <3>1, <3>2
  <2> HIDE DEF P
  <2> QED
    BY <2>1, <2>2
<1>9. Span(s, Plain) = N
  <2>1. Span(s, Plain) = Cardinality(P)
    BY DEF Span
  <2>2. Cardinality(1 .. N) = N
    <3>1. N \in Nat
      BY <1>4
    <3>2. PICK k : k = N
      OBVIOUS
    <3>3. k \in Nat
      BY <3>1, <3>2
    <3>4. Cardinality(1 .. k) = k
      BY <3>3, FS_Interval
    <3> QED
      BY <3>2, <3>4
  <2> HIDE DEF P, N
  <2> QED
    BY <1>8, <2>1, <2>2
<1>10. FirstLine(s) = SubSeq(s, 1, N)
  BY <1>9 DEF FirstLine, Plain
<1>11. SubSeq(s, 1, N) = text
  <2>a. N \in Nat /\ N \in Int /\ 1 \in Int
    BY <1>4
  <2>b. \A i \in 1 .. N : s[i] \in Plain
    BY <1>7
  <2>1. /\ SubSeq(s, 1, N) \in Seq(Plain)
        /\ Len(SubSeq(s, 1, N)) = IF 1 <= N THEN N - 1 + 1 ELSE 0
        /\ \A i \in 1 .. N - 1 + 1 : SubSeq(s, 1, N)[i] = s[1 + i - 1]
    BY <2>a, <2>b, SubSeqProperties
  <2>2. PICK t : t = SubSeq(s, 1, N)
    OBVIOUS
  <2>3. t \in Seq(Plain) /\ Len(t) = N /\ \A i \in 1 .. N : t[i] = text[i]
    BY <1>6, <2>a, <2>1, <2>2
  <2>4. Len(t) = Len(text) /\ \A i \in 1 .. Len(t) : t[i] = text[i]
    BY <2>3
  <2>5. t = text
    BY <2>3, <2>4, SeqEqual
  <2> QED
    BY <2>2, <2>5
<1> QED
  BY <1>1, <1>2, <1>5, <1>6, <1>10, <1>11 DEF Texts

\* What is written of the values of a row before the newline.
Fields(values) == [i \in DOMAIN values |-> write_csv_field(values[i])]

\* The fields of a row are texts of one line.
LEMMA FieldsShape ==
    ASSUME NEW values \in Seq(Seq(Plain)), values # <<>>
    PROVE  /\ Fields(values) \in Seq(Seq(Plain)) /\ Len(Fields(values)) = Len(values) /\ Fields(values) # <<>>
           /\ \A n \in 1 .. Len(values) : Fields(values)[n] = write_csv_field(values[n])
<1>1. Len(values) \in Nat \ {0} /\ DOMAIN values = 1 .. Len(values)
  BY EmptySeq, LenProperties
<1>2. \A n \in 1 .. Len(values) : write_csv_field(values[n]) \in Seq(Plain)
  BY ElementOfSeq, FieldShape, PlainAtoms
<1>3. Fields(values) = [n \in 1 .. Len(values) |-> write_csv_field(values[n])]
  BY <1>1, Zenon DEF Fields
<1>4. Fields(values) \in [1 .. Len(values) -> Seq(Plain)]
  BY <1>2, <1>3
<1>5. Fields(values) \in Seq(Seq(Plain)) /\ Len(Fields(values)) = Len(values)
  BY <1>1, <1>4
<1>6. Fields(values) # <<>>
  BY <1>1, <1>5, EmptySeq
<1> QED
  BY <1>3, <1>5, <1>6

\* The buffer of a line holds the longest row.
LEMMA RowFits ==
    ASSUME NEW values \in Seq(Seq(Plain)), values # <<>>, Len(values) <= MAX_COLUMNS,
           \A n \in 1 .. Len(values) : Len(values[n]) < MAX_VALUE_LEN
    PROVE  Len(Joined(Fields(values))) \in Nat /\ Len(Joined(Fields(values))) + 1 < MAX_CSV_ROW_LEN
<1> DEFINE N == Len(values)
           F == Fields(values)
           W == (MAX_VALUE_LEN - 1) * 2 + 2
<1>1. N \in Nat \ {0} /\ F \in Seq(Seq(Plain)) /\ Len(F) = N /\ F # <<>>
  BY FieldsShape, EmptySeq
<1>2. \A n \in 1 .. N : Len(F[n]) \in Nat /\ Len(F[n]) <= W
  <2> TAKE n \in 1 .. N
  <2>1. values[n] \in Seq(Plain) /\ Len(values[n]) \in Nat
    BY ElementOfSeq, LenProperties
  <2>2. Len(write_csv_field(values[n])) \in Nat /\ Len(write_csv_field(values[n])) <= Len(values[n]) * 2 + 2
    BY <2>1, FieldShape, PlainAtoms
  <2>3. F[n] = write_csv_field(values[n])
    BY FieldsShape
  <2>4. Len(values[n]) <= MAX_VALUE_LEN - 1 /\ MAX_VALUE_LEN \in Nat
    BY <2>1, LimitsAssumption
  <2> QED
    BY <2>1, <2>2, <2>3, <2>4
<1>3. W \in Nat /\ MAX_COLUMNS \in Nat /\ N <= MAX_COLUMNS /\ MAX_CSV_ROW_LEN = MAX_COLUMNS * W + (MAX_COLUMNS - 1) + 2
  BY LimitsAssumption DEF MAX_CSV_ROW_LEN
<1> HIDE DEF F, N, W
<1>4. Len(F) = N
  BY <1>1
<1>5. PICK start \in [1 .. N -> Nat] :
             /\ start[1] = 0 /\ Joined(F) \in Seq(Plain)
             /\ \A n \in 2 .. N : start[n] = start[n - 1] + Len(F[n - 1]) + 1
             /\ Len(Joined(F)) = start[N] + Len(F[N])
  <2>1. F \in Seq(Seq(Plain)) /\ F # <<>>
    BY <1>1
  <2> QED
    BY <1>4, <2>1, JoinedPlaces, PlainAtoms
<1> DEFINE Holds(n) == start[n] + Len(F[n]) <= n * W + (n - 1)
           T == {n \in 0 .. N : n = 0 \/ Holds(n)}
<1>6. ASSUME NEW n \in 1 .. N, n - 1 \in T PROVE n \in T
  <2>1. n \in 0 .. N /\ n \in Nat
    BY <1>1
  <2>2. PICK f, s : f = Len(F[n]) /\ s = start[n]
    OBVIOUS
  <2>3. f \in Nat /\ f <= W /\ s \in Nat
    BY <1>2, <2>2
  <2>4. CASE n = 1
    <3>1. s = 0 /\ 1 * W = W
      BY <1>3, <1>5, <2>2, <2>4
    <3>2. Holds(n)
      BY <1>3, <2>2, <2>3, <2>4, <3>1
    <3> QED
      BY <2>1, <3>2
  <2>5. CASE n # 1
    <3>1. n \in 2 .. N /\ n - 1 \in 1 .. N
      BY <1>1, <2>5
    <3>2. PICK g, r : g = Len(F[n - 1]) /\ r = start[n - 1]
      OBVIOUS
    <3>3. g \in Nat /\ r \in Nat /\ s = r + g + 1
      BY <1>2, <1>5, <2>2, <3>1, <3>2
    <3>4. r + g <= (n - 1) * W + ((n - 1) - 1)
      BY <1>6, <3>1, <3>2
    <3>5. (n - 1) * W + W = n * W /\ n * W \in Nat /\ (n - 1) * W \in Nat
      BY <1>3, <2>1, <3>1
    <3>6. PICK a, b : a = (n - 1) * W /\ b = n * W
      OBVIOUS
    <3>7. s + f <= b + (n - 1)
      BY <1>3, <2>1, <2>3, <3>3, <3>4, <3>5, <3>6
    <3>8. Holds(n)
      BY <2>2, <3>6, <3>7
    <3> QED
      BY <2>1, <3>8
  <2> QED
    BY <2>4, <2>5
<1>7. N \in T
  <2>1. 0 \in T
    BY <1>1
  <2>2. 0 .. N \subseteq T
    <3>1. N \in Nat
      BY <1>1
    <3> HIDE DEF T
    <3> QED
      BY <1>6, <2>1, <3>1, UpTo
  <2> HIDE DEF T
  <2> QED
    BY <1>1, <2>2
<1>8. start[N] + Len(F[N]) <= N * W + (N - 1) /\ start[N] \in Nat /\ Len(F[N]) \in Nat
  BY <1>1, <1>2, <1>7
<1>9. N * W <= MAX_COLUMNS * W /\ N * W \in Nat /\ MAX_COLUMNS * W \in Nat
  <2>1. \A a, b, w \in Nat : a <= b => a * w <= b * w
    <3> TAKE a, b, w \in Nat
    <3>1. (b - a) * w = b * w - a * w
      OBVIOUS
    <3>2. a <= b => (b - a) * w >= 0
      OBVIOUS
    <3> QED
      BY <3>1, <3>2
  <2> QED
    BY <1>1, <1>3, <2>1
<1>10. PICK a, b, s, f, l : a = N * W /\ b = MAX_COLUMNS * W /\ s = start[N] /\ f = Len(F[N]) /\ l = Len(Joined(F))
  OBVIOUS
<1>11. l = s + f
  BY <1>5, <1>10
<1>12. l \in Nat /\ l + 1 < b + (MAX_COLUMNS - 1) + 2
  <2>1. s + f <= a + (N - 1) /\ s \in Nat /\ f \in Nat /\ a <= b /\ a \in Nat /\ b \in Nat
    BY <1>8, <1>9, <1>10
  <2>2. N \in Nat /\ MAX_COLUMNS \in Nat /\ N <= MAX_COLUMNS
    BY <1>1, <1>3
  <2> QED
    BY <1>11, <2>1, <2>2
<1> QED
  BY <1>3, <1>10, <1>12 DEF F

\* Whatever the values, commas, quotes and longest values included, a row that
\* write_csv_row writes fits the buffer of a line and parse_csv_line reads the same
\* values back: no atom, no column and no line is lost or made.
THEOREM RowRead ==
    ASSUME NEW values \in Seq(Seq(Plain)), values # <<>>, Len(values) <= MAX_COLUMNS,
           \A n \in 1 .. Len(values) : Len(values[n]) < MAX_VALUE_LEN
    PROVE  parse_csv_line(write_csv_row(values)) = values
<1> DEFINE N == Len(values)
           F == Fields(values)
           L == Joined(F)
           row == L \o <<Newline>>
<1>1. N \in Nat \ {0} /\ N \in 1 .. N /\ 1 \in 1 .. N
  BY EmptySeq
<1>2. F \in Seq(Seq(Plain)) /\ F # <<>> /\ Len(F) = N /\ \A n \in 1 .. N : F[n] = write_csv_field(values[n])
  BY FieldsShape
<1>a. F \in Seq(Seq(Plain))
  BY <1>2
<1>b. F # <<>>
  BY <1>2
<1>3. PICK start \in [1 .. N -> Nat] :
             /\ start[1] = 0 /\ L \in Seq(Plain)
             /\ \A n \in 1 .. N : Len(F[n]) \in Nat /\ Stands(F[n], L, start[n])
             /\ \A n \in 2 .. N : start[n] = start[n - 1] + Len(F[n - 1]) + 1 /\ L[start[n]] = Comma
             /\ Len(L) = start[N] + Len(F[N])
  <2> HIDE DEF F, N
  <2>1. Len(F) = N
    BY <1>2
  <2> QED
    BY <1>a, <1>b, <2>1, JoinedPlaces, PlainAtoms
<1>4. row \in Texts /\ FirstLine(row) = L /\ Len(row) = Len(L) + 1
  BY <1>3, LineRead
<1>5. L \in Texts /\ Len(L) \in Nat
  BY <1>3, PlainAtoms, SeqMonotonic, LenProperties DEF Texts
<1>6. validate_line_length(row)
  BY <1>4, RowFits DEF validate_line_length
<1>7. write_csv_row(values) = row
  BY Zenon DEF write_csv_row, Fields, Newline
<1>8. PICK up \in [0 .. Len(L) -> ReadStates] :
             /\ up[0] = ReadStart
             /\ \A n \in 1 .. Len(L) : up[n] = ReadAtom(up[n - 1], L, n)
             /\ parse_csv_line(row) =
                  LET read == up[Len(L)]
                  IN  IF /\ validate_line_length(row)
                         /\ Len(read.values) <= MAX_COLUMNS
                         /\ \A i \in DOMAIN read.values : Len(read.values[i]) < MAX_VALUE_LEN
                      THEN read.values ELSE <<>>
  <2> HIDE DEF row, L
  <2> QED
    BY <1>4, ParseSteps
<1>9. Reads(up, L)
  BY <1>8 DEF Reads
<1>10. \A n \in 1 .. N : values[n] \in Texts /\ F[n] = write_csv_field(values[n])
  BY <1>2, PlainAtoms, ElementOfSeq, SeqMonotonic DEF Texts
<1>11. values \in Seq(Texts)
  <2>1. Seq(Plain) \subseteq Texts
    BY PlainAtoms, SeqMonotonic DEF Texts
  <2> QED
    BY <2>1, SeqMonotonic
<1> HIDE DEF F, L, row
<1>12. PICK text : text = [n \in 1 .. N |-> values[n]]
  OBVIOUS
<1> DEFINE Holds(n) == Outside(up[start[n] + Len(F[n])], SubSeq(values, 1, n - 1), values[n])
           T == {n \in 0 .. N : n = 0 \/ Holds(n)}
<1>13. \A n \in 1 .. N : start[n] + Len(F[n]) < Len(L) => L[start[n] + Len(F[n]) + 1] # DoubleQuote
  <2> SUFFICES ASSUME NEW n \in 1 .. N, start[n] + Len(F[n]) < Len(L)
               PROVE  L[start[n] + Len(F[n]) + 1] # DoubleQuote
    OBVIOUS
  <2>1. n # N
    BY <1>3
  <2>2. n + 1 \in 2 .. N /\ (n + 1) - 1 = n
    BY <1>1, <2>1
  <2>3. start[n + 1] = start[n] + Len(F[n]) + 1 /\ L[start[n + 1]] = Comma
    BY <1>3, <2>2
  <2> QED
    BY <2>3, PlainAtoms
<1>14. \A n \in 1 .. N : SubSeq(values, 1, n - 1) \in Seq(Texts)
  <2> TAKE n \in 1 .. N
  <2>1. 1 \in 1 .. Len(values) + 1 /\ n - 1 \in 1 - 1 .. Len(values)
    BY <1>1
  <2> QED
    BY <1>11, <2>1, SliceLength
<1>15. ASSUME NEW n \in 1 .. N, Outside(up[start[n]], SubSeq(values, 1, n - 1), <<>>)
       PROVE  Holds(n)
  <2>1. start[n] \in Nat /\ values[n] \in Texts /\ SubSeq(values, 1, n - 1) \in Seq(Texts)
    BY <1>10, <1>14
  <2>2. Stands(write_csv_field(values[n]), L, start[n])
    BY <1>3, <1>10
  <2>3. start[n] + Len(write_csv_field(values[n])) < Len(L) => L[start[n] + Len(write_csv_field(values[n])) + 1] # DoubleQuote
    BY <1>10, <1>13
  <2>4. PICK v, b, prev : v = values[n] /\ b = start[n] /\ prev = SubSeq(values, 1, n - 1)
    OBVIOUS
  <2>5. v \in Texts
    BY <2>1, <2>4
  <2>6. b \in Nat
    BY <2>1, <2>4
  <2>7. prev \in Seq(Texts)
    BY <2>1, <2>4
  <2>8. Stands(write_csv_field(v), L, b)
    BY <2>2, <2>4
  <2>9. b + Len(write_csv_field(v)) < Len(L) => L[b + Len(write_csv_field(v)) + 1] # DoubleQuote
    BY <2>3, <2>4
  <2>10. Outside(up[b], prev, <<>>)
    BY <1>15, <2>4
  <2>11. L \in Texts
    BY <1>5
  <2>12. Outside(up[b + Len(write_csv_field(v))], prev, v)
    BY <1>9, <2>5, <2>6, <2>7, <2>8, <2>9, <2>10, <2>11, ReadField
  <2> QED
    BY <1>10, <2>4, <2>12
<1>16. ASSUME NEW n \in 1 .. N, n - 1 \in T PROVE n \in T
  <2>1. CASE n = 1
    <3>1. Outside(ReadStart, <<>>, <<>>)
      <4>1. <<(<<>>)>> \in Seq(Texts) \ {<<>>} /\ <<(<<>>)>> = Append(<<>>, <<>>)
        BY TextParts
      <4>2. PICK v : v = <<(<<>>)>>
        OBVIOUS
      <4>3. [values |-> v, quoted |-> FALSE, skip |-> FALSE] \in ReadStates
        BY <4>1, <4>2 DEF ReadStates
      <4>4. ReadStart.values = v /\ ~ReadStart.quoted /\ ~ReadStart.skip
        BY <4>2 DEF ReadStart
      <4>5. ReadStart \in ReadStates
        BY <4>2, <4>3 DEF ReadStart
      <4> QED
        BY <4>1, <4>2, <4>4, <4>5 DEF Outside, Midway
    <3>2. up[start[n]] = ReadStart
      BY <1>3, <1>8, <2>1
    <3>3. SubSeq(values, 1, n - 1) = <<>>
      BY <2>1, SubSeqEmpty
    <3>4. Outside(up[start[n]], SubSeq(values, 1, n - 1), <<>>)
      BY <3>1, <3>2, <3>3
    <3>5. Holds(n)
      BY <1>15, <3>4
    <3> HIDE DEF Holds
    <3> QED
      BY <1>1, <3>5
  <2>2. CASE n # 1
    <3>1. n \in 2 .. N /\ n - 1 \in 1 .. N
      BY <1>1, <2>2
    <3>2. Outside(up[start[n - 1] + Len(F[n - 1])], SubSeq(values, 1, (n - 1) - 1), values[n - 1])
      BY <1>16, <3>1
    <3>3. start[n] = start[n - 1] + Len(F[n - 1]) + 1 /\ L[start[n]] = Comma
      BY <1>3, <3>1
    <3>4. start[n] \in 1 .. Len(L) /\ start[n] - 1 = start[n - 1] + Len(F[n - 1])
      <4>1. PICK s, r, f, g, l : s = start[n] /\ r = start[n - 1] /\ f = Len(F[n - 1]) /\ g = Len(F[n]) /\ l = Len(L)
        OBVIOUS
      <4>2. s \in Nat /\ r \in Nat /\ f \in Nat /\ g \in Nat /\ l \in Nat
        BY <1>3, <1>5, <3>1, <4>1
      <4>3. s = r + f + 1
        BY <3>3, <4>1
      <4>4. s + g <= l
        BY <1>3, <4>1 DEF Stands
      <4>5. s \in 1 .. l /\ s - 1 = r + f
        BY <4>2, <4>3, <4>4
      <4> QED
        BY <4>1, <4>5
    <3>5. up[start[n]] = ReadAtom(up[start[n] - 1], L, start[n])
      BY <1>8, <3>4
    <3>6. PICK prev, v, read, i : prev = SubSeq(values, 1, (n - 1) - 1) /\ v = values[n - 1] /\ read = up[start[n] - 1] /\ i = start[n]
      OBVIOUS
    <3>7. prev \in Seq(Texts)
      BY <1>14, <3>1, <3>6
    <3>8. v \in Texts
      BY <1>10, <3>1, <3>6
    <3>9. Outside(read, prev, v)
      BY <3>2, <3>4, <3>6
    <3>10. i \in 1 .. Len(L)
      BY <3>4, <3>6
    <3>11. L[i] = ","
      BY <3>3, <3>6 DEF Comma
    <3>12. L \in Texts
      BY <1>5
    <3>13. Outside(ReadAtom(read, L, i), Append(prev, v), <<>>)
      BY <3>7, <3>8, <3>9, <3>10, <3>11, <3>12, ReadComma
    <3>14. Append(prev, v) = SubSeq(values, 1, n - 1)
      <4>1. n - 1 \in 1 .. Len(values) /\ 1 \in 1 .. Len(values)
        BY <3>1, <1>1
      <4>2. 1 \in 1 .. Len(values) /\ n - 1 \in 1 .. Len(values)
        BY <4>1
      <4>3. SubSeq(values, 1, n - 1) = SubSeq(values, 1, (n - 1) - 1) \o <<values[n - 1]>>
        BY <1>11, <4>1, SubSeqRecursiveSecond
      <4> QED
        BY <3>6, <3>7, <3>8, <4>3, AppendIsConcat
    <3>15. Outside(up[start[n]], SubSeq(values, 1, n - 1), <<>>)
      BY <3>5, <3>6, <3>13, <3>14
    <3>16. Holds(n)
      BY <1>15, <3>15
    <3> HIDE DEF Holds
    <3> QED
      BY <1>1, <3>16
  <2> QED
    BY <2>1, <2>2
<1>17. Holds(N)
  <2>0. N \in Nat
    BY <1>1
  <2>1. 0 \in T
    BY <2>0
  <2>2. 0 .. N \subseteq T
    <3> HIDE DEF T, N
    <3> QED
      BY <1>16, <2>0, <2>1, UpTo
  <2>3. N \in T
    <3> HIDE DEF T
    <3> QED
      BY <2>0, <2>2
  <2> HIDE DEF Holds
  <2> QED
    BY <1>1, <2>3
<1>18. up[Len(L)].values = values
  <2>1. up[Len(L)].values = Append(SubSeq(values, 1, N - 1), values[N])
    BY <1>3, <1>17 DEF Outside, Midway
  <2>2. SubSeq(values, 1, N) = SubSeq(values, 1, N - 1) \o <<values[N]>>
    BY <1>1, <1>11, SubSeqRecursiveSecond
  <2>3. SubSeq(values, 1, N) = values
    BY SubSeqFull
  <2>4. Append(SubSeq(values, 1, N - 1), values[N]) = SubSeq(values, 1, N - 1) \o <<values[N]>>
    BY <1>1, <1>10, <1>14, AppendIsConcat
  <2> QED
    BY <2>1, <2>2, <2>3, <2>4
<1>19. \A i \in DOMAIN values : Len(values[i]) < MAX_VALUE_LEN
  BY LenProperties
<1> QED
  BY <1>6, <1>7, <1>8, <1>18, <1>19

-----------------------------------------------------------------------------
(* Schema files. *)

\* A line is the atoms of one line.
LEMMA FirstLineWords ==
    ASSUME NEW text \in Texts
    PROVE  FirstLine(text) \in Words
<1> DEFINE n == Span(text, Plain)
<1>1. n \in 0 .. Len(text) /\ Len(text) \in Nat
  BY SpanBound, LenProperties DEF Texts
<1>2. \A i \in 1 .. n : text[i] \in Plain
  BY SpanInside DEF Texts
<1>3. FirstLine(text) = SubSeq(text, 1, n)
  BY Zenon DEF FirstLine, Plain
<1> HIDE DEF n
<1>4. \A i \in 1 .. n : i \in 1 .. Len(text)
  BY <1>1
<1>5. SubSeq(text, 1, n) \in Seq(Plain)
  BY <1>1, <1>2, <1>4, SubSeqProperties DEF Texts
<1> QED
  BY <1>3, <1>5 DEF Words

\* A sequence that is not empty is its front and its last element.
LEMMA LastShape ==
    ASSUME NEW A, NEW s \in Seq(A), s # <<>>
    PROVE  \E front \in Seq(A), last \in A :
             s = Append(front, last) /\ Front(s) = front /\ Last(s) = last /\ Len(front) = Len(s) - 1
<1>1. Len(s) \in Nat /\ Len(s) # 0
  BY LenProperties, EmptySeq
<1>2. PICK front : front = SubSeq(s, 1, Len(s) - 1)
  OBVIOUS
<1>3. PICK last : last = s[Len(s)]
  OBVIOUS
<1>4. last \in A
  BY <1>1, <1>3, ElementOfSeq
<1>5. \A i \in 1 .. Len(s) - 1 : s[i] \in A
  BY <1>1, ElementOfSeq
<1>6. front \in Seq(A) /\ Len(front) = Len(s) - 1 /\ \A i \in 1 .. Len(s) - 1 : front[i] = s[i]
  <2>1. Len(s) - 1 \in Nat /\ \A i \in 1 .. Len(s) - 1 : i \in 1 .. Len(s)
    BY <1>1
  <2>2. \A i \in 1 .. Len(s) - 1 : i \in DOMAIN s
    BY <2>1, LenProperties
  <2>a. 1 \in 1 .. Len(s) + 1 /\ Len(s) - 1 \in 1 - 1 .. Len(s)
    BY <1>1
  <2>b. front \in Seq(A) /\ Len(front) = (Len(s) - 1) - 1 + 1
    BY <1>2, <2>a, SliceLength
  <2>3. Len(front) = Len(s) - 1
    BY <1>1, <2>b
  <2>4. \A i \in 1 .. Len(s) - 1 : front[i] = s[i]
    BY <1>1, <1>2, SubSeqProperties
  <2> QED
    BY <2>b, <2>3, <2>4
<1>7. PICK t : t = Append(front, last)
  OBVIOUS
<1>8. /\ t \in Seq(A) /\ Len(t) = Len(s) - 1 + 1 /\ t[Len(s) - 1 + 1] = last
      /\ \A i \in 1 .. Len(s) - 1 : t[i] = front[i]
  BY <1>1, <1>4, <1>6, <1>7, AppendProperties
<1>9. Len(s) - 1 + 1 = Len(s)
  BY <1>1
<1>10. Len(t) = Len(s) /\ t[Len(s)] = last
  BY <1>8, <1>9
<1>11. ASSUME NEW i \in 1 .. Len(t) PROVE t[i] = s[i]
  <2>1. i = Len(s) \/ i \in 1 .. Len(s) - 1
    BY <1>1, <1>10
  <2> QED
    BY <1>3, <1>6, <1>8, <1>10, <2>1
<1>12. t = s
  BY <1>8, <1>10, <1>11, SeqEqual
<1> QED
  BY <1>2, <1>3, <1>4, <1>6, <1>7, <1>12 DEF Front, Last

\* The last text of a list takes one more atom.
LastPut(parts, a, put) == put = [parts EXCEPT ![Len(parts)] = Append(@, a)]
Ends(s, front, last) == s = Append(front, last)

LEMMA LastExtended ==
    ASSUME NEW A, NEW parts \in Seq(Seq(A)), parts # <<>>, NEW a \in A,
           NEW put, LastPut(parts, a, put)
    PROVE  \E front \in Seq(Seq(A)), last \in Seq(A), longer \in Seq(A) :
             /\ Ends(parts, front, last) /\ Ends(put, front, longer) /\ Ends(longer, last, a)
             /\ put \in Seq(Seq(A)) /\ put # <<>>
<1>1. PICK front \in Seq(Seq(A)), last \in Seq(A) : parts = Append(front, last) /\ Last(parts) = last
  BY LastShape
<1>2. PICK longer : longer = Append(last, a)
  OBVIOUS
<1>3. longer \in Seq(A)
  BY <1>2, AppendProperties
<1>4. parts[Len(parts)] = last
  BY <1>1 DEF Last
<1>5. [parts EXCEPT ![Len(parts)] = longer] = Append(front, longer)
  BY <1>1, <1>3, LastReplaced
<1>6. put = [parts EXCEPT ![Len(parts)] = longer]
  BY <1>2, <1>4 DEF LastPut
<1>7. Append(front, longer) \in Seq(Seq(A)) /\ Append(front, longer) # <<>>
  BY <1>3, AppendProperties
<1>8. put \in Seq(Seq(A)) /\ put # <<>>
  BY <1>5, <1>6, <1>7
<1>9. Ends(parts, front, last) /\ Ends(put, front, longer) /\ Ends(longer, last, a)
  BY <1>1, <1>2, <1>5, <1>6, Zenon DEF Ends
<1> QED
  BY <1>3, <1>8, <1>9

\* What stands between commas.
EntryTexts == Seq(Plain \ {Comma})
PartLists == Seq(EntryTexts) \ {<<>>}
PartStart == <<(<<>>)>>
PutPart(parts, a) ==
    IF a = "," THEN Append(parts, <<>>) ELSE [parts EXCEPT ![Len(parts)] = Append(@, a)]

LEMMA PutPartType ==
    ASSUME NEW parts \in PartLists, NEW a \in Plain
    PROVE  PutPart(parts, a) \in PartLists
<1>1. CASE a = Comma
  <2>1. PutPart(parts, a) = Append(parts, <<>>)
    BY <1>1, Zenon DEF PutPart, Comma
  <2>2. <<>> \in EntryTexts
    BY EmptySeq DEF EntryTexts
  <2>3. Append(parts, <<>>) \in PartLists
    BY <2>2, AppendProperties DEF PartLists
  <2> QED
    BY <2>1, <2>3
<1>2. CASE a # Comma
  <2>1. PutPart(parts, a) = [parts EXCEPT ![Len(parts)] = Append(@, a)]
    BY <1>2, Zenon DEF PutPart, Comma
  <2>2. parts \in Seq(Seq(Plain \ {Comma})) /\ parts # <<>> /\ a \in Plain \ {Comma}
    BY <1>2 DEF PartLists, EntryTexts
  <2>3. PICK t : t = [parts EXCEPT ![Len(parts)] = Append(@, a)]
    OBVIOUS
  <2>4. t \in Seq(Seq(Plain \ {Comma})) /\ t # <<>>
    BY <2>2, <2>3, LastExtended DEF LastPut
  <2> QED
    BY <2>1, <2>3, <2>4 DEF PartLists, EntryTexts
<1> QED
  BY <1>1, <1>2

\* Entries by its equations.
LEMMA EntriesSteps ==
    ASSUME NEW text \in Words
    PROVE  \E parts \in [0 .. Len(text) -> PartLists] :
             /\ parts[0] = PartStart
             /\ \A n \in 1 .. Len(text) : parts[n] = PutPart(parts[n - 1], text[n])
             /\ Entries(text) = IF Last(parts[Len(text)]) = <<>> THEN Front(parts[Len(text)]) ELSE parts[Len(text)]
<1> DEFINE N == Len(text)
           S == PartLists
           Put(q, n) == PutPart(q, text[n])
           Kept(f) == f = [n \in 0 .. N |->
                             IF n = 0 THEN <<(<<>>)>>
                             ELSE IF text[n] = "," THEN Append(f[n - 1], <<>>)
                             ELSE [f[n - 1] EXCEPT ![Len(f[n - 1])] = Append(@, text[n])]]
           step == [n \in 1 .. N |-> [q \in S |-> Put(q, n)]]
<1>1. N \in Nat /\ \A n \in 1 .. N : text[n] \in Plain
  BY LenProperties, ElementOfSeq DEF Words
<1>2. PartStart \in S /\ \A q \in S, n \in 1 .. N : Put(q, n) \in S
  <2>1. PartStart \in S
    BY DEF PartStart, PartLists, EntryTexts
  <2> QED
    BY <1>1, <2>1, PutPartType
<1>3. step \in StepsOn(N, S)
  <2> HIDE DEF N, S, Put
  <2> QED
    BY <1>2 DEF StepsOn
<1> HIDE DEF S, N
<1>4. \E f : Kept(f)
  <2>1. PICK f : Computes(f, N, S, PartStart, step)
    <3> HIDE DEF step, Kept
    <3> QED
      BY <1>1, <1>2, <1>3, StepByStep
  <2>2. \A n \in 1 .. N : f[n] = Put(f[n - 1], n)
    <3>1. \A n \in 1 .. N : n - 1 \in 0 .. N
      BY <1>1
    <3> HIDE DEF Put
    <3> QED
      BY <2>1, <3>1 DEF Computes
  <2>3. f = [n \in 0 .. N |-> f[n]] /\ f[0] = PartStart
    BY <2>1 DEF Computes
  <2>4. \A n \in 0 .. N : f[n] = IF n = 0 THEN PartStart ELSE Put(f[n - 1], n)
    <3>1. \A n \in 0 .. N : n = 0 \/ n \in 1 .. N
      BY <1>1
    <3> HIDE DEF Put
    <3> QED
      BY <2>2, <2>3, <3>1
  <2>5. [n \in 0 .. N |-> f[n]] = [n \in 0 .. N |-> IF n = 0 THEN PartStart ELSE Put(f[n - 1], n)]
    BY <2>4, Zenon
  <2> QED
    BY <2>3, <2>5, Zenon DEF PartStart, PutPart
<1> DEFINE g == CHOOSE f : Kept(f)
<1>5. Kept(g)
  BY <1>4, Zenon
<1>6. Entries(text) = IF Last(g[N]) = <<>> THEN Front(g[N]) ELSE g[N]
  BY Zenon DEF Entries, N
<1> HIDE DEF g
<1>7. \A n \in 0 .. N : g[n] = IF n = 0 THEN PartStart ELSE Put(g[n - 1], n)
  BY <1>5, Zenon DEF PartStart, PutPart
<1>8. g = [n \in 0 .. N |-> g[n]]
  BY <1>5, Zenon
<1> HIDE DEF Put, Kept
<1>9. g[0] = PartStart /\ \A n \in 1 .. N : g[n] = Put(g[n - 1], n)
  BY <1>1, <1>7
<1> DEFINE T == {n \in 0 .. N : g[n] \in S}
<1>10. 0 \in T /\ \A n \in 1 .. N : n - 1 \in T => n \in T
  BY <1>1, <1>2, <1>9
<1>11. 0 .. N \subseteq T
  <2> HIDE DEF T
  <2> QED
    BY <1>1, <1>10, UpTo
<1>12. g \in [0 .. N -> S]
  BY <1>8, <1>11
<1> QED
  BY <1>6, <1>9, <1>12, Zenon DEF N, S, Put

\* A span ends before an atom that is not of the set.
LEMMA SpanEnds ==
    ASSUME NEW A, NEW text \in Seq(A), NEW S, Span(text, S) < Len(text)
    PROVE  text[Span(text, S) + 1] \notin S
<1> SUFFICES ASSUME text[Span(text, S) + 1] \in S PROVE FALSE
  OBVIOUS
<1> DEFINE P == {n \in 1 .. Len(text) : \A i \in 1 .. n : text[i] \in S}
           m == Span(text, S)
<1>1. m = Cardinality(P)
  BY Zenon DEF Span
<1>2. Len(text) \in Nat /\ m \in 0 .. Len(text) /\ m < Len(text)
  BY LenProperties, SpanBound
<1>3. \A i \in 1 .. m : text[i] \in S
  BY SpanInside
<1>4. text[m + 1] \in S
  OBVIOUS
<1>5. P \subseteq 1 .. Len(text)
  OBVIOUS
<1> HIDE DEF m
<1>6. 1 .. m + 1 \subseteq P
  BY <1>2, <1>3, <1>4
<1> HIDE DEF P
<1>7. IsFiniteSet(P)
  <2>1. IsFiniteSet(1 .. Len(text))
    BY <1>2, FS_Interval
  <2> QED
    BY <1>5, <2>1, FS_Subset
<1>8. Cardinality(1 .. m + 1) = m + 1
  BY <1>2, FS_Interval
<1>9. Cardinality(1 .. m + 1) <= Cardinality(P)
  BY <1>6, <1>7, FS_Subset
<1> QED
  BY <1>1, <1>2, <1>8, <1>9

\* Folding to lower case goes atom by atom.
LEMMA LowerConcat ==
    ASSUME NEW u \in Words, NEW v \in Words
    PROVE  lower(u \o v) = lower(u) \o lower(v) /\ u \o v \in Words
<1>1. PICK w : w = u \o v
  OBVIOUS
<1>2. /\ w \in Words /\ Len(w) = Len(u) + Len(v)
      /\ \A i \in 1 .. Len(u) + Len(v) : w[i] = IF i <= Len(u) THEN u[i] ELSE v[i - Len(u)]
  BY <1>1, ConcatProperties DEF Words
<1>3. PICK x : x = lower(u)
  OBVIOUS
<1>4. PICK y : y = lower(v)
  OBVIOUS
<1>5. PICK z : z = lower(w)
  OBVIOUS
<1>6. /\ x \in Seq(Plain) /\ Len(x) = Len(u) /\ y \in Seq(Plain) /\ Len(y) = Len(v)
      /\ z \in Seq(Plain) /\ Len(z) = Len(w)
  BY <1>2, <1>3, <1>4, <1>5, LowerPlain DEF Words
<1>7. PICK t : t = x \o y
  OBVIOUS
<1>8. /\ t \in Seq(Plain) /\ Len(t) = Len(u) + Len(v)
      /\ \A i \in 1 .. Len(u) + Len(v) : t[i] = IF i <= Len(u) THEN x[i] ELSE y[i - Len(u)]
  <2>1. x \in Seq(Plain)
    BY <1>6
  <2>2. y \in Seq(Plain)
    BY <1>6
  <2>3. /\ t \in Seq(Plain) /\ Len(t) = Len(x) + Len(y)
        /\ \A i \in 1 .. Len(x) + Len(y) : t[i] = IF i <= Len(x) THEN x[i] ELSE y[i - Len(x)]
    BY <1>7, <2>1, <2>2, ConcatProperties
  <2> QED
    BY <1>6, <2>3
<1> DEFINE low(a) == IF a \in Letters THEN LowerCase[a] ELSE a
<1>a. \A r \in Words : DOMAIN r = 1 .. Len(r) /\ Len(r) \in Nat
  BY LenProperties DEF Words
<1>9. /\ \A i \in 1 .. Len(u) : x[i] = low(u[i])
      /\ \A i \in 1 .. Len(v) : y[i] = low(v[i])
      /\ \A i \in 1 .. Len(w) : z[i] = low(w[i])
  BY <1>2, <1>3, <1>4, <1>5, <1>a DEF lower
<1> HIDE DEF low
<1>10. ASSUME NEW i \in 1 .. Len(z) PROVE z[i] = t[i]
  <2>0. Len(u) \in Nat /\ Len(v) \in Nat
    BY <1>a
  <2>1. CASE i <= Len(u)
    <3>1. i \in 1 .. Len(u) /\ i \in 1 .. Len(w) /\ i \in 1 .. Len(u) + Len(v)
      BY <1>2, <1>6, <2>0, <2>1
    <3> QED
      BY <1>2, <1>8, <1>9, <2>1, <3>1
  <2>2. CASE ~(i <= Len(u))
    <3>1. i - Len(u) \in 1 .. Len(v) /\ i \in 1 .. Len(w) /\ i \in 1 .. Len(u) + Len(v)
      BY <1>2, <1>6, <2>0, <2>2
    <3>2. w[i] = v[i - Len(u)] /\ t[i] = y[i - Len(u)]
      BY <1>2, <1>8, <2>2, <3>1
    <3> QED
      BY <1>9, <3>1, <3>2
  <2> QED
    BY <2>1, <2>2
<1>11. z = t
  BY <1>2, <1>6, <1>8, <1>10, SeqEqual
<1> QED
  BY <1>1, <1>2, <1>3, <1>4, <1>5, <1>7, <1>11

Colon == ":"

\* A colon is no letter and stays what it is in lower case.
LEMMA ColonAtom == Colon \in Plain /\ Colon \notin Letters /\ <<Colon>> \in Words /\ lower(<<Colon>>) = <<Colon>>
<1>1. Colon \in Plain
  BY DEF Colon, Plain, Atoms, Others
<1>2. Colon \notin Letters
  BY CharactersAssumption DEF Colon, Others
<1>3. <<Colon>> \in Words /\ Len(<<Colon>>) = 1 /\ <<Colon>>[1] = Colon
  BY <1>1 DEF Words
<1>4. DOMAIN <<Colon>> = 1 .. 1
  OBVIOUS
<1>5. lower(<<Colon>>) = [i \in 1 .. 1 |-> Colon]
  BY <1>2, <1>3, <1>4 DEF lower
<1> QED
  BY <1>1, <1>2, <1>3, <1>5

\* A piece of a line is of one line.
LEMMA SliceWords ==
    ASSUME NEW text \in Words, NEW m \in 1 .. Len(text) + 1, NEW n \in m - 1 .. Len(text)
    PROVE  SubSeq(text, m, n) \in Words /\ Len(SubSeq(text, m, n)) = n - m + 1
BY SliceLength DEF Words

\* What stands between commas, in lower case too, is a text without a comma.
LEMMA EntryTextsWords ==
    /\ EntryTexts \subseteq Words
    /\ \A text \in EntryTexts : lower(text) \in EntryTexts
<1>1. \A text \in EntryTexts : text \in Words
  BY SeqMonotonic DEF EntryTexts, Words
<1>2. Comma \notin Letters
  BY CharactersAssumption DEF Comma, Symbols
<1>3. ASSUME NEW text \in EntryTexts
      PROVE  lower(text) \in EntryTexts
  <2>1. Len(text) \in Nat /\ DOMAIN text = 1 .. Len(text)
    BY LenProperties DEF EntryTexts
  <2>2. Letters \subseteq Plain \ {Comma}
    BY <1>2, PlainAtomsRead
  <2>3. \A i \in 1 .. Len(text) : text[i] \in Plain \ {Comma}
    BY ElementOfSeq DEF EntryTexts
  <2>4. lower(text) = [i \in 1 .. Len(text) |-> IF text[i] \in Letters THEN LowerCase[text[i]] ELSE text[i]]
    BY <2>1 DEF lower
  <2>5. lower(text) \in [1 .. Len(text) -> Plain \ {Comma}]
    BY <2>2, <2>3, <2>4, LettersAssumption
  <2> QED
    BY <2>1, <2>5, IsASeq DEF EntryTexts
<1> QED
  BY <1>1, <1>3

\* What is not a colon, and the column of an entry whose colon is known.
NotColon == Atoms \ {":"}
ColumnAt(entry, colon) ==
    [name |-> lower(SubSeq(entry, 1, colon - 1)), type |-> lower(SubSeq(entry, colon + 1, Len(entry)))]

LEMMA ColumnRead ==
    ASSUME NEW entry, NEW colon, colon = Span(entry, NotColon) + 1
    PROVE  /\ Column(entry).name = lower(SubSeq(entry, 1, colon - 1))
           /\ Column(entry).type = lower(SubSeq(entry, colon + 1, Len(entry)))
<1>1. Column(entry) = ColumnAt(entry, Span(entry, Atoms \ {":"}) + 1)
  BY Zenon DEF Column, ColumnAt
<1>2. Column(entry) = ColumnAt(entry, Span(entry, NotColon) + 1)
  BY <1>1, Zenon DEF NotColon
<1>3. Column(entry) = ColumnAt(entry, colon)
  BY <1>2, Zenon
<1>4. /\ ColumnAt(entry, colon).name = lower(SubSeq(entry, 1, colon - 1))
      /\ ColumnAt(entry, colon).type = lower(SubSeq(entry, colon + 1, Len(entry)))
  BY DEF ColumnAt
<1> QED
  BY <1>3, <1>4, Zenon

\* An entry with a type is its name, a colon and its type.
LEMMA ColumnShape ==
    ASSUME NEW entry \in Words, Column(entry).type # <<>>
    PROVE  /\ Column(entry).name \in Words
           /\ entry \in EntryTexts => Column(entry).name \in EntryTexts
           /\ Column(entry).type \in Words
           /\ lower(entry) = Column(entry).name \o <<":">> \o Column(entry).type
<1> DEFINE S == NotColon
           m == Span(entry, S)
<1>1. PICK before : before = SubSeq(entry, 1, m)
  OBVIOUS
<1>2. PICK after : after = SubSeq(entry, m + 2, Len(entry))
  OBVIOUS
<1>3. Len(entry) \in Nat /\ m \in 0 .. Len(entry)
  BY LenProperties, SpanBound DEF Words
<1>4. Column(entry).name = lower(before) /\ Column(entry).type = lower(after)
  <2>1. PICK colon : colon = Span(entry, NotColon) + 1
    OBVIOUS
  <2>2. /\ Column(entry).name = lower(SubSeq(entry, 1, colon - 1))
        /\ Column(entry).type = lower(SubSeq(entry, colon + 1, Len(entry)))
    BY <2>1, ColumnRead
  <2> HIDE DEF m
  <2>3. colon - 1 = m /\ colon + 1 = m + 2
    BY <1>3, <2>1 DEF m
  <2> QED
    BY <1>1, <1>2, <2>2, <2>3
<1>5. m < Len(entry) => entry[m + 1] \notin S
  BY SpanEnds DEF Words
<1> HIDE DEF m
<1>6. m < Len(entry)
  <2> SUFFICES ASSUME m = Len(entry) PROVE FALSE
    BY <1>3
  <2>1. after = <<>>
    <3>1. m + 2 > Len(entry) /\ m + 2 \in Int /\ Len(entry) \in Int
      BY <1>3
    <3> QED
      BY <1>2, <3>1, SubSeqEmpty
  <2>2. lower(<<>>) = <<>>
    BY DEF lower
  <2> QED
    BY <1>4, <2>1, <2>2
<1>7. entry[m + 1] = Colon
  <2>1. m + 1 \in 1 .. Len(entry)
    BY <1>3, <1>6
  <2>2. entry[m + 1] \in Plain
    BY <2>1, ElementOfSeq DEF Words
  <2>3. entry[m + 1] \in Atoms
    BY <2>2, PlainAtoms
  <2>4. entry[m + 1] \notin NotColon
    BY <1>5, <1>6
  <2> QED
    BY <2>3, <2>4, Zenon DEF NotColon, Colon
<1>8. before \in Words /\ Len(before) = m /\ after \in Words /\ Len(after) = Len(entry) - (m + 1)
  <2>1. 1 \in 1 .. Len(entry) + 1 /\ m \in 1 - 1 .. Len(entry) /\ m - 1 + 1 = m
    BY <1>3
  <2>2. m + 2 \in 1 .. Len(entry) + 1 /\ Len(entry) \in m + 2 - 1 .. Len(entry)
        /\ Len(entry) - (m + 2) + 1 = Len(entry) - (m + 1)
    BY <1>3, <1>6
  <2>3. before \in Words /\ Len(before) = m - 1 + 1
    BY <1>1, <2>1, SliceWords
  <2>4. after \in Words /\ Len(after) = Len(entry) - (m + 2) + 1
    BY <1>2, <2>2, SliceWords
  <2> QED
    BY <2>1, <2>2, <2>3, <2>4
<1>9. PICK u : u = before \o <<Colon>>
  OBVIOUS
<1>10. PICK w : w = u \o after
  OBVIOUS
<1>11. u \in Words /\ lower(u) = lower(before) \o <<Colon>>
  <2>1. PICK c : c = <<Colon>>
    OBVIOUS
  <2>2. c \in Words
    BY <2>1, ColonAtom
  <2>3. lower(c) = c
    BY <2>1, ColonAtom
  <2>4. before \in Words
    BY <1>8
  <2>5. u = before \o c
    BY <1>9, <2>1
  <2>6. u \in Words /\ lower(u) = lower(before) \o lower(c)
    BY <2>2, <2>4, <2>5, LowerConcat
  <2> QED
    BY <2>1, <2>3, <2>6
<1>12. w \in Words /\ lower(w) = lower(u) \o lower(after)
  BY <1>8, <1>10, <1>11, LowerConcat
<1>13. w = entry
  <2>1. PICK c : c = <<Colon>>
    OBVIOUS
  <2>2. c \in Seq(Plain) /\ Len(c) = 1 /\ c[1] = Colon
    BY <2>1, ColonAtom DEF Words
  <2>3. /\ Len(u) = m + 1 /\ \A i \in 1 .. m + 1 : u[i] = IF i <= m THEN before[i] ELSE c[i - m]
    <3>a. before \in Seq(Plain)
      BY <1>8 DEF Words
    <3>1. Len(u) = Len(before) + Len(c)
          /\ \A i \in 1 .. Len(before) + Len(c) : u[i] = IF i <= Len(before) THEN before[i] ELSE c[i - Len(before)]
      BY <1>9, <2>1, <2>2, <3>a, ConcatProperties
    <3> QED
      BY <1>8, <2>2, <3>1
  <2>4. /\ Len(w) = Len(entry)
        /\ \A i \in 1 .. Len(entry) : w[i] = IF i <= m + 1 THEN u[i] ELSE after[i - (m + 1)]
    <3>1. /\ Len(w) = Len(u) + Len(after)
          /\ \A i \in 1 .. Len(u) + Len(after) : w[i] = IF i <= Len(u) THEN u[i] ELSE after[i - Len(u)]
      BY <1>8, <1>10, <1>11, ConcatProperties DEF Words
    <3>2. Len(u) + Len(after) = Len(entry)
      BY <1>3, <1>6, <1>8, <2>3
    <3> QED
      BY <2>3, <3>1, <3>2
  <2>5. \A i \in 1 .. m : before[i] = entry[i]
    BY <1>1, <1>3, SubSeqProperties DEF Words
  <2>6. \A i \in 1 .. Len(entry) - (m + 1) : after[i] = entry[i + (m + 1)]
    <3>1. m + 2 \in 1 .. Len(entry) + 1 /\ m + 2 \in Int /\ Len(entry) - (m + 2) + 1 = Len(entry) - (m + 1)
      BY <1>3, <1>6
    <3>2. \A i \in 1 .. Len(entry) - (m + 2) + 1 : after[i] = entry[m + 2 + i - 1]
      BY <1>2, <1>3, <3>1, SubSeqProperties DEF Words
    <3> QED
      BY <1>3, <3>1, <3>2
  <2>7. ASSUME NEW i \in 1 .. Len(w) PROVE w[i] = entry[i]
    <3>1. CASE i <= m
      <4>1. i \in 1 .. m /\ i \in 1 .. m + 1 /\ i <= m + 1 /\ i \in 1 .. Len(entry)
        BY <1>3, <2>4, <3>1
      <4> QED
        BY <2>3, <2>4, <2>5, <3>1, <4>1
    <3>2. CASE i = m + 1
      <4>1. i \in 1 .. m + 1 /\ i <= m + 1 /\ i \in 1 .. Len(entry) /\ ~(i <= m) /\ i - m = 1
        BY <1>3, <2>4, <3>2
      <4>2. w[i] = u[i] /\ u[i] = c[1]
        BY <2>3, <2>4, <4>1
      <4> QED
        BY <1>7, <2>2, <3>2, <4>2
    <3>3. CASE i > m + 1
      <4>1. /\ i - (m + 1) \in 1 .. Len(entry) - (m + 1) /\ ~(i <= m + 1) /\ i \in 1 .. Len(entry)
            /\ i - (m + 1) + (m + 1) = i
        BY <1>3, <2>4, <3>3
      <4> QED
        BY <2>4, <2>6, <4>1
    <3> QED
      BY <1>3, <2>4, <3>1, <3>2, <3>3
  <2> QED
    BY <1>12, <2>4, <2>7, SeqEqual DEF Words
<1>14. lower(before) \in Words /\ lower(after) \in Words
  BY <1>8, LowerPlain
<1>15. ASSUME entry \in EntryTexts PROVE lower(before) \in EntryTexts
  <2>1. 1 \in 1 .. Len(entry) + 1 /\ m \in 1 - 1 .. Len(entry)
    BY <1>3
  <2>2. before \in EntryTexts
    BY <1>1, <1>15, <2>1, SliceLength DEF EntryTexts
  <2> QED
    BY <2>2, EntryTextsWords
<1> QED
  BY <1>4, <1>11, <1>12, <1>13, <1>14, <1>15 DEF Colon

\* The entries of a line are texts of one line.
LEMMA EntriesType ==
    ASSUME NEW text \in Words
    PROVE  Entries(text) \in Seq(EntryTexts) /\ Entries(text) \in Seq(Words)
<1>1. PICK parts \in [0 .. Len(text) -> PartLists] :
        Entries(text) = IF Last(parts[Len(text)]) = <<>> THEN Front(parts[Len(text)]) ELSE parts[Len(text)]
  BY EntriesSteps
<1>2. Len(text) \in 0 .. Len(text)
  BY LenProperties DEF Words
<1>3. PICK all : all = parts[Len(text)]
  OBVIOUS
<1>4. all \in Seq(EntryTexts) /\ all # <<>>
  BY <1>2, <1>3 DEF PartLists
<1>5. Front(all) \in Seq(EntryTexts)
  BY <1>4, LastShape
<1>6. Entries(text) \in Seq(EntryTexts)
  BY <1>1, <1>3, <1>4, <1>5
<1>7. EntryTexts \subseteq Words
  BY EntryTextsWords
<1> QED
  BY <1>6, <1>7, SeqMonotonic

\* Columns as a schema that loads has them: few enough, with types, and with
\* short names that differ.
Schemas == Seq([name : Words, type : DataTypes])
SchemaSound(cs) ==
    /\ cs \in Schemas
    /\ Len(cs) \in Nat /\ DOMAIN cs = 1 .. Len(cs) /\ Len(cs) <= MAX_COLUMNS
    /\ \A c \in DOMAIN cs : cs[c].name \in Words /\ Len(cs[c].name) < MAX_NAME_LEN /\ cs[c].type \in DataTypes
    /\ NamesDiffer(cs)
    /\ \A c \in DOMAIN cs : cs[c].name \in EntryTexts

\* The two types are words and differ.
LEMMA DataTypesWords ==
    /\ DataTypes \subseteq Words
    /\ <<>> \notin DataTypes
    /\ <<"int">> # <<"string">>
<1>1. {"int", "string"} \subseteq Plain
  BY LettersAssumption, PlainAtomsRead
<1>2. <<"int">> \in Words /\ <<"string">> \in Words
  BY <1>1 DEF Words
<1>3. <<"int">> # <<>> /\ <<"string">> # <<>> /\ <<"int">> # <<"string">>
  OBVIOUS
<1> QED
  BY <1>2, <1>3, Zenon DEF DataTypes

\* What is read of a schema file, and what of it must be so for it to load.
SchemaLine(file) ==
    SubSeq(FirstLine(file), 1, IF Len(FirstLine(file)) < MAX_SCHEMA_LINE_LEN THEN Len(FirstLine(file)) ELSE MAX_SCHEMA_LINE_LEN - 1)
ColumnsOf(entries) == [i \in DOMAIN entries |-> Column(entries[i])]
Loads(cs) ==
    /\ Len(cs) <= MAX_COLUMNS
    /\ NamesDiffer(cs)
    /\ \A i \in DOMAIN cs : Len(cs[i].name) < MAX_NAME_LEN /\ cs[i].type \in DataTypes

\* load_table_schema in two steps: the columns of the line, if they are accepted.
LEMMA SchemaRead ==
    ASSUME NEW file
    PROVE  load_table_schema(file) =
             IF Loads(ColumnsOf(Entries(SchemaLine(file)))) THEN ColumnsOf(Entries(SchemaLine(file))) ELSE <<>>
BY Zenon DEF load_table_schema, SchemaLine, ColumnsOf, Loads

\* What is read of a schema file is of one line.
LEMMA SchemaLineWords ==
    ASSUME NEW file \in Texts
    PROVE  SchemaLine(file) \in Words
<1>1. PICK line_ : line_ = FirstLine(file)
  OBVIOUS
<1>2. line_ \in Words
  BY <1>1, FirstLineWords
<1>3. PICK n : n = IF Len(line_) < MAX_SCHEMA_LINE_LEN THEN Len(line_) ELSE MAX_SCHEMA_LINE_LEN - 1
  OBVIOUS
<1>4. Len(line_) \in Nat
  BY <1>2, LenProperties DEF Words
<1>5. MAX_SCHEMA_LINE_LEN \in Nat \ {0}
  <2>1. MAX_COLUMNS \in Nat \ {0} /\ MAX_NAME_LEN \in Nat \ {0}
    BY LimitsAssumption
  <2>2. MAX_COLUMNS * ((MAX_NAME_LEN - 1) + 1 + 1) \in Nat
    BY <2>1
  <2> QED
    BY <2>1, <2>2 DEF MAX_SCHEMA_LINE_LEN
<1>6. n \in 1 - 1 .. Len(line_) /\ 1 \in 1 .. Len(line_) + 1
  BY <1>3, <1>4, <1>5
<1>7. SubSeq(line_, 1, n) \in Words
  BY <1>2, <1>6, SliceWords
<1> QED
  BY <1>1, <1>3, <1>7 DEF SchemaLine

\* A schema that does not load has no columns, and one that does has sound ones.
LEMMA LoadedIsSound ==
    ASSUME NEW file \in Texts, NEW cs, cs = load_table_schema(file)
    PROVE  SchemaSound(cs)
<1>1. PICK entries : entries = Entries(SchemaLine(file))
  OBVIOUS
<1>2. entries \in Seq(Words) /\ entries \in Seq(EntryTexts)
  BY <1>1, SchemaLineWords, EntriesType
<1>3. cs = IF Loads(ColumnsOf(entries)) THEN ColumnsOf(entries) ELSE <<>>
  BY <1>1, SchemaRead
<1>4. CASE cs = <<>>
  <2>1. NamesDiffer(<<>>)
    BY DEF NamesDiffer
  <2>2. <<>> \in Schemas /\ Len(<<>>) = 0 /\ DOMAIN <<>> = 1 .. 0
    BY EmptySeq DEF Schemas
  <2> QED
    BY <1>4, <2>1, <2>2, LimitsAssumption DEF SchemaSound
<1>5. CASE Loads(ColumnsOf(entries)) /\ cs = ColumnsOf(entries)
  <2>1. Len(entries) \in Nat /\ DOMAIN entries = 1 .. Len(entries)
    BY <1>2, LenProperties
  <2>2. cs = [i \in 1 .. Len(entries) |-> Column(entries[i])]
    BY <1>5, <2>1 DEF ColumnsOf
  <2>3. Loads(cs)
    BY <1>5
  <2>4. DOMAIN cs = 1 .. Len(entries)
    BY <2>2
  <2>5. ASSUME NEW i \in 1 .. Len(entries)
        PROVE  cs[i] \in [name : Words, type : DataTypes] /\ cs[i].name \in EntryTexts
    <3>1. cs[i] = Column(entries[i]) /\ cs[i].type \in DataTypes
      BY <2>2, <2>3, <2>4 DEF Loads
    <3>2. entries[i] \in Words /\ entries[i] \in EntryTexts
      BY <1>2, <2>1, ElementOfSeq
    <3>3. Column(entries[i]).type # <<>>
      BY <3>1, DataTypesWords
    <3>4. Column(entries[i]).name \in Words /\ Column(entries[i]).name \in EntryTexts
      BY <3>2, <3>3, ColumnShape
    <3>5. Column(entries[i]) = [name |-> Column(entries[i]).name, type |-> Column(entries[i]).type]
      BY Zenon DEF Column
    <3> QED
      BY <3>1, <3>4, <3>5
  <2>6. cs \in [1 .. Len(entries) -> [name : Words, type : DataTypes]]
    BY <2>2, <2>5
  <2>7. cs \in Schemas
    <3>1. PICK n : n = Len(entries)
      OBVIOUS
    <3>2. PICK S : S = [name : Words, type : DataTypes]
      OBVIOUS
    <3>3. n \in Nat /\ cs \in [1 .. n -> S]
      BY <2>1, <2>6, <3>1, <3>2
    <3>4. cs \in Seq(S)
      BY <3>3, IsASeq
    <3> QED
      BY <3>2, <3>4 DEF Schemas
  <2>8. Len(cs) = Len(entries)
    BY <2>1, <2>4, <2>7, LenProperties DEF Schemas
  <2>9. \A i \in DOMAIN cs : /\ Len(cs[i].name) < MAX_NAME_LEN /\ cs[i].type \in DataTypes
                             /\ cs[i].name \in Words /\ cs[i].name \in EntryTexts
    BY <2>3, <2>4, <2>5 DEF Loads
  <2> QED
    BY <2>1, <2>3, <2>4, <2>7, <2>8, <2>9 DEF SchemaSound, Loads
<1> QED
  BY <1>3, <1>4, <1>5

\* The name of an entry stands before its colon and is in lower case.
LEMMA NameHasNoColon ==
    ASSUME NEW entry \in Words, NEW name, name = Column(entry).name
    PROVE  /\ lower(name) = name
           /\ \A i \in DOMAIN name : name[i] # Colon
<1>1. PICK m : m = Span(entry, NotColon)
  OBVIOUS
<1>2. PICK before : before = SubSeq(entry, 1, m)
  OBVIOUS
<1>3. Len(entry) \in Nat /\ m \in 0 .. Len(entry)
  BY <1>1, LenProperties, SpanBound DEF Words
<1>4. name = lower(before)
  <2>1. PICK colon : colon = Span(entry, NotColon) + 1
    OBVIOUS
  <2>2. Column(entry).name = lower(SubSeq(entry, 1, colon - 1))
    BY <2>1, ColumnRead
  <2>3. colon - 1 = m
    BY <1>1, <1>3, <2>1
  <2> QED
    BY <1>2, <2>2, <2>3
<1>5. before \in Words /\ Len(before) = m
  <2>1. 1 \in 1 .. Len(entry) + 1 /\ m \in 1 - 1 .. Len(entry) /\ m - 1 + 1 = m
    BY <1>3
  <2> QED
    BY <1>2, <2>1, SliceWords
<1>6. lower(name) = name
  BY <1>4, <1>5, WordsAreTexts, LowerTwice
<1>7. DOMAIN before = 1 .. m
  BY <1>5, LenProperties DEF Words
<1>8. \A i \in 1 .. m : before[i] # Colon
  <2> SUFFICES ASSUME NEW i \in 1 .. m PROVE before[i] # Colon
    OBVIOUS
  <2>1. before[i] = entry[i]
    BY <1>2, <1>3 DEF Words
  <2>2. entry[i] \in NotColon
    BY <1>1, SpanInside DEF Words
  <2> QED
    BY <2>1, <2>2, Zenon DEF NotColon, Colon
<1>9. name = [i \in 1 .. m |-> IF before[i] \in Letters THEN LowerCase[before[i]] ELSE before[i]]
  BY <1>4, <1>7, Zenon DEF lower
<1>10. \A letter \in Letters : LowerCase[letter] # Colon
  BY ColonAtom, LettersAssumption
<1> QED
  BY <1>6, <1>8, <1>9, <1>10

\* A schema file that loads gives at least one column and at most MAX_COLUMNS, each of
\* one of the two types.  Its names differ, are not empty, leave room for the end of
\* a string, are in lower case, and have no comma, colon or end of a line, whatever else
\* stands in them (load_table_schema).
THEOREM SchemaShape ==
    ASSUME NEW file \in Texts, NEW cs, cs = load_table_schema(file), cs # <<>>
    PROVE  /\ Len(cs) \in 1 .. MAX_COLUMNS
           /\ \A c \in DOMAIN cs :
                /\ cs[c].type \in {<<"int">>, <<"string">>}
                /\ Len(cs[c].name) \in 1 .. MAX_NAME_LEN - 1
                /\ lower(cs[c].name) = cs[c].name
                /\ \A i \in DOMAIN cs[c].name : cs[c].name[i] \in Atoms \ {",", ":", "\r", "\n"}
           /\ \A c, d \in DOMAIN cs : cs[c].name = cs[d].name => c = d
<1>1. SchemaSound(cs)
  BY LoadedIsSound
<1>2. PICK entries : entries = Entries(SchemaLine(file))
  OBVIOUS
<1>3. entries \in Seq(Words)
  BY <1>2, SchemaLineWords, EntriesType
<1>4. cs = ColumnsOf(entries)
  BY <1>2, SchemaRead
<1>5. \A c \in DOMAIN cs : cs[c] = Column(entries[c]) /\ entries[c] \in Words
  <2>1. DOMAIN cs = DOMAIN entries /\ \A c \in DOMAIN entries : cs[c] = Column(entries[c])
    BY <1>4 DEF ColumnsOf
  <2>2. DOMAIN entries = 1 .. Len(entries)
    BY <1>3, LenProperties
  <2> QED
    BY <1>3, <2>1, <2>2, ElementOfSeq
<1>6. Len(cs) \in 1 .. MAX_COLUMNS
  <2>1. Len(cs) # 0
    BY <1>1, EmptySeq DEF SchemaSound, Schemas
  <2>2. Len(cs) \in Nat /\ Len(cs) <= MAX_COLUMNS
    BY <1>1 DEF SchemaSound
  <2> QED
    BY <2>1, <2>2, LimitsAssumption
<1>7. ASSUME NEW c \in DOMAIN cs
      PROVE  /\ cs[c].type \in {<<"int">>, <<"string">>}
             /\ Len(cs[c].name) \in 1 .. MAX_NAME_LEN - 1
             /\ lower(cs[c].name) = cs[c].name
             /\ \A i \in DOMAIN cs[c].name : cs[c].name[i] \in Atoms \ {",", ":", "\r", "\n"}
  <2>1. PICK name : name = cs[c].name
    OBVIOUS
  <2>2. /\ name \in Words /\ name \in EntryTexts /\ Len(name) < MAX_NAME_LEN /\ name # <<>>
        /\ cs[c].type \in DataTypes
    BY <1>1, <2>1 DEF SchemaSound, NamesDiffer
  <2>3. lower(name) = name /\ \A i \in DOMAIN name : name[i] # Colon
    BY <1>5, <2>1, NameHasNoColon
  <2>4. Len(name) \in 1 .. MAX_NAME_LEN - 1
    <3>1. Len(name) \in Nat /\ Len(name) # 0
      BY <2>2, LenProperties, EmptySeq DEF Words
    <3>2. MAX_NAME_LEN \in Nat
      BY LimitsAssumption
    <3> QED
      BY <2>2, <3>1, <3>2
  <2>5. \A i \in DOMAIN name : name[i] \in Plain \ {Comma}
    <3>1. DOMAIN name = 1 .. Len(name)
      BY <2>2, LenProperties DEF Words
    <3> QED
      BY <2>2, <3>1, ElementOfSeq DEF EntryTexts
  <2>6. \A i \in DOMAIN name : name[i] \in Atoms \ {",", ":", "\r", "\n"}
    BY <2>3, <2>5, Zenon DEF Plain, Comma, Colon
  <2> QED
    BY <2>1, <2>2, <2>3, <2>4, <2>6, Zenon DEF DataTypes
<1>8. \A c, d \in DOMAIN cs : cs[c].name = cs[d].name => c = d
  BY <1>1 DEF SchemaSound, NamesDiffer
<1> QED
  BY <1>6, <1>7, <1>8

\* What Joined goes through, as a relation.
Joins(up, A, texts) ==
    /\ up \in [0 .. Len(texts) -> Seq(A)]
    /\ Joined(texts) = up[Len(texts)] /\ up[0] = <<>>
    /\ \A n \in 1 .. Len(texts) : up[n] = IF n = 1 THEN texts[1] ELSE up[n - 1] \o <<",">> \o texts[n]

LEMMA JoinedRun ==
    ASSUME NEW A, Comma \in A, NEW texts \in Seq(Seq(A))
    PROVE  \E up : Joins(up, A, texts)
<1>1. \E up \in [0 .. Len(texts) -> Seq(A)] :
             /\ Joined(texts) = up[Len(texts)] /\ up[0] = <<>>
             /\ \A n \in 1 .. Len(texts) :
                  up[n] = IF n = 1 THEN texts[1] ELSE up[n - 1] \o <<",">> \o texts[n]
  BY JoinedSteps
<1>2. PICK up \in [0 .. Len(texts) -> Seq(A)] :
             /\ Joined(texts) = up[Len(texts)] /\ up[0] = <<>>
             /\ \A n \in 1 .. Len(texts) :
                  up[n] = IF n = 1 THEN texts[1] ELSE up[n - 1] \o <<",">> \o texts[n]
  BY <1>1, Zenon
<1> QED
  BY <1>2, Zenon DEF Joins

\* One text more.
LEMMA JoinedAppended ==
    ASSUME NEW A, Comma \in A, NEW s \in Seq(Seq(A)), NEW x \in Seq(A), NEW t, Ends(t, s, x)
    PROVE  /\ Joined(t) = IF s = <<>> THEN x ELSE Joined(s) \o <<Comma>> \o x
           /\ Joined(t) \in Seq(A) /\ Joined(s) \in Seq(A)
<1>1. t = Append(s, x)
  BY DEF Ends
<1>2. PICK N : N = Len(s)
  OBVIOUS
<1>3. /\ t \in Seq(Seq(A)) /\ Len(t) = N + 1 /\ N \in Nat /\ t[N + 1] = x
      /\ \A i \in 1 .. N : t[i] = s[i]
  BY <1>1, <1>2, AppendProperties, LenProperties
<1>4. PICK up : Joins(up, A, t)
  BY <1>3, JoinedRun
<1>5. PICK was : Joins(was, A, s)
  BY JoinedRun
<1>6. PICK c : c = <<",">>
  OBVIOUS
<1>7. /\ Joined(t) = up[N + 1] /\ up[0] = <<>> /\ up \in [0 .. N + 1 -> Seq(A)]
      /\ \A n \in 1 .. N + 1 : up[n] = IF n = 1 THEN t[1] ELSE up[n - 1] \o c \o t[n]
  BY <1>3, <1>4, <1>6 DEF Joins
<1>8. /\ Joined(s) = was[N] /\ was[0] = <<>> /\ was \in [0 .. N -> Seq(A)]
      /\ \A n \in 1 .. N : was[n] = IF n = 1 THEN s[1] ELSE was[n - 1] \o c \o s[n]
  BY <1>2, <1>5, <1>6 DEF Joins
<1> DEFINE T == {n \in 0 .. N : was[n] = up[n]}
<1>9. 0 \in T
  BY <1>3, <1>7, <1>8
<1>10. ASSUME NEW n \in 1 .. N, n - 1 \in T PROVE n \in T
  <2>1. n \in 0 .. N /\ n \in 1 .. N + 1 /\ was[n - 1] = up[n - 1]
    BY <1>3, <1>10
  <2>2. t[n] = s[n] /\ (n = 1 => t[1] = s[1])
    BY <1>3
  <2>3. was[n] = IF n = 1 THEN s[1] ELSE was[n - 1] \o c \o s[n]
    BY <1>8
  <2>4. up[n] = IF n = 1 THEN t[1] ELSE up[n - 1] \o c \o t[n]
    BY <1>7, <2>1
  <2>5. was[n] = up[n]
    BY <2>1, <2>2, <2>3, <2>4
  <2> QED
    BY <2>1, <2>5
<1>11. 0 .. N \subseteq T
  <2> HIDE DEF T
  <2> QED
    BY <1>3, <1>9, <1>10, UpTo
<1>12. was[N] = up[N]
  BY <1>3, <1>11
<1>13. N + 1 \in 1 .. N + 1 /\ N + 1 - 1 = N /\ N \in 0 .. N
  BY <1>3
<1>14. up[N + 1] = IF N + 1 = 1 THEN t[1] ELSE up[N] \o c \o x
  BY <1>3, <1>7, <1>13
<1>15. (s = <<>> <=> N = 0) /\ (N + 1 = 1 <=> N = 0)
  BY <1>2, <1>3, EmptySeq
<1>16. N = 0 => t[1] = x
  BY <1>3
<1>17. Joined(t) = IF s = <<>> THEN x ELSE Joined(s) \o c \o x
  BY <1>7, <1>8, <1>12, <1>14, <1>15, <1>16
<1>18. Joined(t) \in Seq(A) /\ Joined(s) \in Seq(A)
  <2>1. N + 1 \in 0 .. N + 1
    BY <1>3
  <2> QED
    BY <1>7, <1>8, <1>13, <2>1
<1> QED
  BY <1>6, <1>17, <1>18, Zenon DEF Comma

\* Nothing joined is nothing.
LEMMA JoinedNone == Joined(<<>>) = <<>>
<1>1. PICK s : s = <<>>
  OBVIOUS
<1>2. s \in Seq(Seq({Comma})) /\ Len(s) = 0
  BY <1>1, EmptySeq
<1>3. PICK up : Joins(up, {Comma}, s)
  BY <1>2, JoinedRun
<1>4. Joined(s) = up[Len(s)] /\ up[0] = <<>>
  BY <1>3 DEF Joins
<1> QED
  BY <1>1, <1>2, <1>4

\* Texts put together need no brackets.
LEMMA Associated ==
    ASSUME NEW A, NEW x \in Seq(A), NEW y \in Seq(A), NEW z \in Seq(A)
    PROVE  (x \o y) \o z = x \o (y \o z)
BY ConcatAssociative

\* One atom more of a text.
LEMMA SliceGrows ==
    ASSUME NEW A, NEW text \in Seq(A), NEW n \in 1 .. Len(text)
    PROVE  /\ SubSeq(text, 1, n) = Append(SubSeq(text, 1, n - 1), text[n])
           /\ SubSeq(text, 1, n - 1) \in Seq(A) /\ text[n] \in A
<1>1. PICK a : a = text[n]
  OBVIOUS
<1>2. PICK said : said = SubSeq(text, 1, n - 1)
  OBVIOUS
<1>3. PICK whole : whole = SubSeq(text, 1, n)
  OBVIOUS
<1>4. PICK longer : longer = Append(said, a)
  OBVIOUS
<1>5. Len(text) \in Nat /\ n \in Nat \ {0} /\ n <= Len(text) /\ a \in A
  BY <1>1, LenProperties, ElementOfSeq
<1>6. 1 \in 1 .. Len(text) + 1 /\ n - 1 \in 1 - 1 .. Len(text) /\ n \in 1 - 1 .. Len(text)
  BY <1>5
<1>7. said \in Seq(A) /\ Len(said) = (n - 1) - 1 + 1 /\ whole \in Seq(A) /\ Len(whole) = n - 1 + 1
  BY <1>2, <1>3, <1>6, SliceLength
<1>8. n - 1 - 1 + 1 = n - 1 /\ n - 1 + 1 = n /\ n - 1 \in Nat
  BY <1>5
<1>9. Len(said) = n - 1 /\ Len(whole) = n
  BY <1>7, <1>8
<1>10. /\ \A i \in 1 .. n - 1 : said[i] = text[i]
       /\ \A i \in 1 .. n : whole[i] = text[i]
  <2>1. /\ \A i \in 1 .. n - 1 : i \in 1 .. Len(text)
        /\ \A i \in 1 .. n : i \in 1 .. Len(text)
    BY <1>5
  <2> QED
    BY <1>2, <1>3, <1>5, <2>1, SubSeqProperties
<1>11. /\ longer \in Seq(A) /\ Len(longer) = Len(said) + 1 /\ longer[Len(said) + 1] = a
       /\ \A i \in 1 .. Len(said) : longer[i] = said[i]
  BY <1>4, <1>5, <1>7, AppendProperties
<1>12. Len(longer) = n /\ longer[n] = a /\ \A i \in 1 .. n - 1 : longer[i] = said[i]
  BY <1>8, <1>9, <1>11
<1>13. ASSUME NEW i \in 1 .. n PROVE longer[i] = whole[i]
  <2>1. i = n \/ i \in 1 .. n - 1
    BY <1>5
  <2> QED
    BY <1>1, <1>10, <1>12, <2>1
<1>14. longer = whole
  BY <1>7, <1>9, <1>11, <1>12, <1>13, SeqEqual
<1> QED
  BY <1>1, <1>2, <1>3, <1>4, <1>5, <1>7, <1>14

\* One atom more of the entries read.
LEMMA JoinedPut ==
    ASSUME NEW A, Comma \in A, NEW p \in Seq(Seq(A)), p # <<>>, NEW a \in A
    PROVE  Joined(PutPart(p, a)) = Append(Joined(p), a)
<1>1. PICK c : c = <<Comma>>
  OBVIOUS
<1>2. c \in Seq(A)
  BY <1>1
<1>3. PICK said : said = Joined(p)
  OBVIOUS
<1>4. PICK put : LastPut(p, a, put)
  BY Zenon DEF LastPut
<1>5. PICK front \in Seq(Seq(A)), last \in Seq(A), longer \in Seq(A) :
        Ends(p, front, last) /\ Ends(put, front, longer) /\ Ends(longer, last, a)
  BY <1>4, LastExtended
<1>6. said = IF front = <<>> THEN last ELSE Joined(front) \o c \o last
  <2>1. Ends(p, front, last)
    BY <1>5
  <2>2. Joined(p) = IF front = <<>> THEN last ELSE Joined(front) \o <<Comma>> \o last
    BY <2>1, JoinedAppended, SMTT(30)
  <2> QED
    BY <1>1, <1>3, <2>2, Zenon
<1>7. said \in Seq(A) /\ Joined(front) \in Seq(A)
  BY <1>3, <1>5, JoinedAppended
<1>8. CASE a = Comma
  <2>1. PICK e : e = <<>>
    OBVIOUS
  <2>2. PICK more : Ends(more, p, e)
    BY Zenon DEF Ends
  <2>3. PutPart(p, a) = more
    BY <1>8, <2>1, <2>2, Zenon DEF PutPart, Comma, Ends
  <2>4. e \in Seq(A)
    BY <2>1, EmptySeq
  <2>5. Joined(more) = (said \o c) \o e
    <3>1. Joined(more) = IF p = <<>> THEN e ELSE Joined(p) \o <<Comma>> \o e
      BY <2>2, <2>4, JoinedAppended, SMTT(30)
    <3> QED
      BY <1>1, <1>3, <3>1, Zenon
  <2>6. said \o c \in Seq(A)
    BY <1>2, <1>7, ConcatProperties
  <2>7. (said \o c) \o e = said \o c
    BY <2>1, <2>6, ConcatProperties
  <2>8. said \o c = Append(said, a)
    BY <1>1, <1>7, <1>8, AppendIsConcat
  <2> QED
    BY <1>3, <2>3, <2>5, <2>7, <2>8
<1>9. CASE a # Comma
  <2>1. PutPart(p, a) = put
    BY <1>4, <1>9, Zenon DEF PutPart, Comma, LastPut
  <2>2. Joined(put) = IF front = <<>> THEN longer ELSE Joined(front) \o c \o longer
    <3>1. Ends(put, front, longer)
      BY <1>5
    <3>2. Joined(put) = IF front = <<>> THEN longer ELSE Joined(front) \o <<Comma>> \o longer
      BY <3>1, JoinedAppended, SMTT(30)
    <3> QED
      BY <1>1, <3>2, Zenon
  <2>3. CASE front = <<>>
    BY <1>3, <1>5, <1>6, <2>1, <2>2, <2>3, Zenon DEF Ends
  <2>4. CASE front # <<>>
    <3>1. PICK before : before = Joined(front) \o c
      OBVIOUS
    <3>2. before \in Seq(A)
      BY <1>2, <1>7, <3>1, ConcatProperties
    <3>3. said = before \o last /\ Joined(put) = before \o longer
      BY <1>6, <2>2, <2>4, <3>1
    <3>4. PICK b : b = <<a>>
      OBVIOUS
    <3>5. b \in Seq(A)
      BY <3>4
    <3>6. longer = last \o b
      <4>1. longer = Append(last, a)
        BY <1>5, Zenon DEF Ends
      <4>2. Append(last, a) = last \o <<a>>
        BY AppendIsConcat
      <4> QED
        BY <3>4, <4>1, <4>2, Zenon
    <3>7. Append(said, a) = said \o b
      BY <1>7, <3>4, AppendIsConcat
    <3>8. (before \o last) \o b = before \o (last \o b)
      <4>1. last \in Seq(A)
        OBVIOUS
      <4> QED
        BY <3>2, <3>5, <4>1, Associated, SMTT(30)
    <3> QED
      BY <1>3, <2>1, <3>3, <3>6, <3>7, <3>8
  <2> QED
    BY <2>3, <2>4
<1> QED
  BY <1>8, <1>9

\* The entries of a line, joined, are the line, or the line without the comma it ends with.
LEMMA EntriesJoined ==
    ASSUME NEW text \in Words, Entries(text) # <<>>
    PROVE  text = Joined(Entries(text)) \/ text = Joined(Entries(text)) \o <<Comma>>
<1>a. Comma \in Plain /\ <<Comma>> \in Words
  BY PlainAtoms DEF Words
<1>1. PICK parts \in [0 .. Len(text) -> PartLists] :
             /\ parts[0] = PartStart
             /\ \A n \in 1 .. Len(text) : parts[n] = PutPart(parts[n - 1], text[n])
             /\ Entries(text) = IF Last(parts[Len(text)]) = <<>> THEN Front(parts[Len(text)]) ELSE parts[Len(text)]
  BY EntriesSteps
<1>2. PICK N : N = Len(text)
  OBVIOUS
<1>3. N \in Nat /\ N \in 0 .. N /\ \A n \in 1 .. N : text[n] \in Plain
  BY <1>2, LenProperties, ElementOfSeq DEF Words
<1>4. ASSUME NEW p \in PartLists
      PROVE  p \in Seq(Words) /\ p # <<>>
  <2>1. p \in Seq(EntryTexts) /\ p # <<>>
    BY DEF PartLists
  <2> QED
    BY <2>1, EntryTextsWords, SeqMonotonic
<1> DEFINE T == {n \in 0 .. N : Joined(parts[n]) = SubSeq(text, 1, n)}
<1>5. 0 \in T
  <2>1. PICK e : e = <<>>
    OBVIOUS
  <2>2. e \in Seq(Seq(Plain)) /\ e \in Seq(Plain)
    BY <2>1, EmptySeq
  <2>4. Ends(PartStart, e, e)
    BY <2>1 DEF PartStart, Ends
  <2>3. Joined(PartStart) = e
    BY <1>a, <2>1, <2>2, <2>4, JoinedAppended
  <2>5. SubSeq(text, 1, 0) = e
    BY <2>1, SubSeqEmpty
  <2>6. parts[0] = PartStart
    BY <1>1
  <2>7. Joined(parts[0]) = SubSeq(text, 1, 0)
    BY <2>3, <2>5, <2>6
  <2>8. 0 \in 0 .. N
    BY <1>3
  <2> QED
    BY <2>7, <2>8
<1>6. ASSUME NEW n \in 1 .. N, n - 1 \in T PROVE n \in T
  <2>1. n \in 0 .. N /\ n - 1 \in 0 .. N /\ Joined(parts[n - 1]) = SubSeq(text, 1, n - 1)
    BY <1>3, <1>6
  <2>2. PICK a : a = text[n]
    OBVIOUS
  <2>3. a \in Plain
    BY <1>3, <2>2
  <2>4. PICK p : p = parts[n - 1]
    OBVIOUS
  <2>5. p \in PartLists /\ p \in Seq(Words) /\ p # <<>> /\ parts[n] = PutPart(p, a)
    <3>1. p \in PartLists
      BY <1>1, <1>2, <2>1, <2>4
    <3>2. parts[n] = PutPart(p, a)
      BY <1>1, <1>2, <2>2, <2>4
    <3> QED
      BY <1>4, <3>1, <3>2
  <2>6. PICK said : said = SubSeq(text, 1, n - 1)
    OBVIOUS
  <2>7. SubSeq(text, 1, n) = Append(said, a)
    <3>1. n \in 1 .. Len(text) /\ text \in Seq(Plain)
      BY <1>2 DEF Words
    <3> QED
      BY <2>2, <2>6, <3>1, SliceGrows
  <2>8. p \in Seq(Seq(Plain)) /\ Joined(p) = said
    BY <2>1, <2>4, <2>5, <2>6 DEF Words
  <2>9. Joined(PutPart(p, a)) = Append(said, a)
    BY <1>a, <2>3, <2>5, <2>8, JoinedPut
  <2> QED
    BY <2>1, <2>5, <2>7, <2>9
<1>7. 0 .. N \subseteq T
  <2> HIDE DEF T
  <2> QED
    BY <1>3, <1>5, <1>6, UpTo
<1>8. SubSeq(text, 1, N) = text
  BY <1>2, LenProperties DEF Words
<1>9. PICK all : all = parts[N]
  OBVIOUS
<1>10. Joined(all) = text /\ all \in Seq(Words) /\ all # <<>>
  BY <1>1, <1>2, <1>3, <1>4, <1>7, <1>8, <1>9
<1>11. Entries(text) = IF Last(all) = <<>> THEN Front(all) ELSE all
  BY <1>1, <1>2, <1>9
<1>12. PICK front \in Seq(Words), last \in Words : all = Append(front, last) /\ Front(all) = front /\ Last(all) = last
  BY <1>10, LastShape
<1>13. CASE last = <<>>
  <2>1. Entries(text) = front /\ front # <<>>
    BY <1>11, <1>12, <1>13
  <2>2. front \in Seq(Seq(Plain)) /\ last \in Seq(Plain)
    BY <1>12 DEF Words
  <2>3. Ends(all, front, last)
    BY <1>12, Zenon DEF Ends
  <2>4. PICK c : c = <<Comma>>
    OBVIOUS
  <2>5. PICK j : j = Joined(front)
    OBVIOUS
  <2>6. Joined(all) = (j \o c) \o last /\ j \in Seq(Plain)
    <3>1. /\ Joined(all) = IF front = <<>> THEN last ELSE Joined(front) \o <<Comma>> \o last
          /\ Joined(front) \in Seq(Plain)
      BY <1>a, <2>2, <2>3, JoinedAppended
    <3> QED
      BY <2>1, <2>4, <2>5, <3>1, Zenon
  <2>7. c \in Seq(Plain)
    BY <1>a, <2>4 DEF Words
  <2>8. j \o c \in Seq(Plain)
    BY <2>6, <2>7, ConcatProperties
  <2>9. (j \o c) \o <<>> = j \o c
    BY <2>8, ConcatProperties
  <2> QED
    BY <1>10, <1>13, <2>1, <2>4, <2>5, <2>6, <2>9
<1>14. CASE last # <<>>
  BY <1>10, <1>11, <1>12, <1>14
<1> QED
  BY <1>13, <1>14

\* Folding what is joined folds each text: a comma is no letter.
LEMMA LowerJoined ==
    ASSUME NEW es \in Seq(Words), NEW lows, lows = [i \in 1 .. Len(es) |-> lower(es[i])]
    PROVE  lower(Joined(es)) = Joined(lows) /\ Joined(es) \in Words
<1>1. PICK N : N = Len(es)
  OBVIOUS
<1>2. N \in Nat /\ \A n \in 1 .. N : es[n] \in Words
  BY <1>1, LenProperties, ElementOfSeq
<1>3. lows \in Seq(Words) /\ Len(lows) = N /\ \A n \in 1 .. N : lows[n] = lower(es[n])
  <2>1. PICK W : W = Words
    OBVIOUS
  <2>2. \A n \in 1 .. N : lower(es[n]) \in Words
    BY <1>2, LowerPlain
  <2>3. lows \in [1 .. N -> W]
    BY <1>1, <2>1, <2>2
  <2>4. lows \in Seq(W) /\ Len(lows) = N
    BY <1>2, <2>3, IsASeq
  <2> QED
    BY <1>1, <2>1, <2>4
<1>4. PICK c : c = <<",">>
  OBVIOUS
<1>5. c = <<Comma>> /\ Comma \in Plain /\ c \in Words
  <2>1. c = <<Comma>>
    BY <1>4, Zenon DEF Comma
  <2>2. Comma \in Plain
    BY PlainAtoms
  <2> QED
    BY <2>1, <2>2 DEF Words
<1>6. lower(c) = c
  <2>1. Comma \notin Letters
    BY CharactersAssumption DEF Comma, Symbols
  <2>2. DOMAIN c = 1 .. 1 /\ c[1] = Comma
    BY <1>5
  <2>3. lower(c) = [i \in 1 .. 1 |-> Comma]
    BY <2>1, <2>2 DEF lower
  <2> QED
    BY <1>5, <2>3
<1>7. PICK up : Joins(up, Plain, es)
  BY <1>5, JoinedRun DEF Words
<1>8. PICK low : Joins(low, Plain, lows)
  BY <1>3, <1>5, JoinedRun DEF Words
<1>9. /\ Joined(es) = up[N] /\ up[0] = <<>> /\ up \in [0 .. N -> Words]
      /\ \A n \in 1 .. N : up[n] = IF n = 1 THEN es[1] ELSE up[n - 1] \o c \o es[n]
  BY <1>1, <1>4, <1>7 DEF Joins, Words
<1>10. /\ Joined(lows) = low[N] /\ low[0] = <<>>
       /\ \A n \in 1 .. N : low[n] = IF n = 1 THEN lows[1] ELSE low[n - 1] \o c \o lows[n]
  BY <1>3, <1>4, <1>8 DEF Joins, Words
<1> DEFINE T == {n \in 0 .. N : lower(up[n]) = low[n]}
<1>11. 0 \in T
  <2>1. lower(<<>>) = <<>>
    BY DEF lower
  <2> QED
    BY <1>2, <1>9, <1>10, <2>1
<1>12. ASSUME NEW n \in 1 .. N, n - 1 \in T PROVE n \in T
  <2>1. n \in 0 .. N /\ n - 1 \in 0 .. N /\ lower(up[n - 1]) = low[n - 1]
    BY <1>2, <1>12
  <2>2. PICK e : e = es[n]
    OBVIOUS
  <2>3. e \in Words /\ lows[n] = lower(e) /\ up[n - 1] \in Words
    BY <1>2, <1>3, <1>9, <2>1, <2>2
  <2>4. CASE n = 1
    BY <1>2, <1>3, <1>9, <1>10, <2>1, <2>4
  <2>5. CASE n # 1
    <3>1. PICK u : u = up[n - 1] \o c
      OBVIOUS
    <3>2. lower(u) = low[n - 1] \o c /\ u \in Words
      <4>1. up[n - 1] \in Words
        BY <2>3
      <4>2. lower(u) = lower(up[n - 1]) \o lower(c) /\ u \in Words
        BY <1>5, <3>1, <4>1, LowerConcat
      <4> QED
        BY <1>6, <2>1, <4>2
    <3>3. lower(u \o e) = lower(u) \o lower(e)
      BY <2>3, <3>2, LowerConcat
    <3>4. up[n] = u \o e /\ low[n] = (low[n - 1] \o c) \o lower(e)
      BY <1>9, <1>10, <2>2, <2>3, <2>5, <3>1
    <3> QED
      BY <2>1, <3>2, <3>3, <3>4
  <2> QED
    BY <2>4, <2>5
<1>13. 0 .. N \subseteq T
  <2> HIDE DEF T
  <2> QED
    BY <1>2, <1>11, <1>12, UpTo
<1>14. N \in 0 .. N
  BY <1>2
<1> QED
  BY <1>9, <1>10, <1>13, <1>14

-----------------------------------------------------------------------------
(* Picking from a sequence. *)

\* What Picked goes through, as a relation.
Picks(up, A, s, K) ==
    /\ up \in [0 .. Len(s) -> Seq(A)]
    /\ Picked(s, K) = up[Len(s)] /\ up[0] = <<>>
    /\ \A n \in 1 .. Len(s) : up[n] = IF n \in K THEN Append(up[n - 1], s[n]) ELSE up[n - 1]

LEMMA PickedRun ==
    ASSUME NEW A, NEW s \in Seq(A), NEW K
    PROVE  \E up : Picks(up, A, s, K)
<1>1. \E up \in [0 .. Len(s) -> Seq(A)] :
             /\ Picked(s, K) = up[Len(s)] /\ up[0] = <<>>
             /\ \A n \in 1 .. Len(s) :
                  up[n] = IF n \in K THEN Append(up[n - 1], s[n]) ELSE up[n - 1]
  BY PickedSteps
<1>2. PICK up \in [0 .. Len(s) -> Seq(A)] :
             /\ Picked(s, K) = up[Len(s)] /\ up[0] = <<>>
             /\ \A n \in 1 .. Len(s) :
                  up[n] = IF n \in K THEN Append(up[n - 1], s[n]) ELSE up[n - 1]
  BY <1>1
<1> QED
  BY <1>2 DEF Picks

\* What is picked depends on the places of the sequence only, and an element at
\* its end is picked last or not at all.
LEMMA PickedOfPrefix ==
    ASSUME NEW A, NEW s \in Seq(A), NEW K, NEW t \in Seq(A), NEW L, Len(s) <= Len(t),
           \A i \in 1 .. Len(s) : t[i] = s[i] /\ (i \in K <=> i \in L),
           NEW up, Picks(up, A, t, L)
    PROVE  Picked(s, K) = up[Len(s)]
<1> DEFINE N == Len(s)
<1>a. PICK was : Picks(was, A, s, K)
  BY PickedRun
<1>1. /\ Picked(s, K) = was[N] /\ was[0] = <<>>
      /\ \A n \in 1 .. N : was[n] = IF n \in K THEN Append(was[n - 1], s[n]) ELSE was[n - 1]
  BY <1>a DEF Picks
<1>b. /\ up[0] = <<>>
      /\ \A n \in 1 .. Len(t) : up[n] = IF n \in L THEN Append(up[n - 1], t[n]) ELSE up[n - 1]
  BY DEF Picks
<1>2. N \in Nat /\ Len(t) \in Nat /\ N <= Len(t)
  BY LenProperties
<1> DEFINE T == {n \in 0 .. N : was[n] = up[n]}
<1>3. 0 \in T
  BY <1>1, <1>2, <1>b
<1>4. ASSUME NEW n \in 1 .. N, n - 1 \in T PROVE n \in T
  <2>1. n \in 0 .. N /\ n \in 1 .. Len(t) /\ was[n - 1] = up[n - 1]
    BY <1>2, <1>4
  <2>2. t[n] = s[n] /\ (n \in K <=> n \in L)
    OBVIOUS
  <2>3. was[n] = IF n \in K THEN Append(was[n - 1], s[n]) ELSE was[n - 1]
    BY <1>1
  <2>4. up[n] = IF n \in L THEN Append(up[n - 1], t[n]) ELSE up[n - 1]
    BY <1>b, <2>1
  <2>5. was[n] = up[n]
    BY <2>1, <2>2, <2>3, <2>4, Zenon
  <2> QED
    BY <2>1, <2>5
<1>5. 0 .. N \subseteq T
  <2> HIDE DEF T, N
  <2> QED
    BY <1>2, <1>3, <1>4, UpTo
<1>6. N \in 0 .. N
  BY <1>2
<1> QED
  BY <1>1, <1>5, <1>6

\* Only the places within the sequence count.
LEMMA PickedAgree ==
    ASSUME NEW A, NEW s \in Seq(A), NEW K, NEW L, \A i \in 1 .. Len(s) : i \in K <=> i \in L
    PROVE  Picked(s, K) = Picked(s, L)
<1>1. PICK up : Picks(up, A, s, L)
  BY PickedRun
<1>2. Len(s) <= Len(s)
  BY LenProperties
<1>3. \A i \in 1 .. Len(s) : s[i] = s[i] /\ (i \in K <=> i \in L)
  OBVIOUS
<1>4. Picked(s, L) = up[Len(s)]
  BY <1>1 DEF Picks
<1>5. Picked(s, K) = up[Len(s)]
  BY <1>1, <1>2, <1>3, PickedOfPrefix
<1> QED
  BY <1>4, <1>5

\* Nothing is picked from nothing.
LEMMA PickedNone ==
    ASSUME NEW K
    PROVE  Picked(<<>>, K) = <<>>
<1>0. PICK s : s = <<>>
  OBVIOUS
<1>1. s \in Seq({}) /\ Len(s) = 0
  BY <1>0, EmptySeq
<1>2. PICK up : Picks(up, {}, s, K)
  BY <1>1, PickedRun
<1>3. Picked(s, K) = up[Len(s)] /\ up[0] = <<>>
  BY <1>2 DEF Picks
<1> QED
  BY <1>0, <1>1, <1>3

\* One element more is picked last or not at all.
LEMMA PickedAppended ==
    ASSUME NEW A, NEW s \in Seq(A), NEW x \in A, NEW K, NEW L, \A i \in 1 .. Len(s) : i \in K <=> i \in L
    PROVE  Picked(Append(s, x), L) = IF Len(s) + 1 \in L THEN Append(Picked(s, K), x) ELSE Picked(s, K)
<1>1. PICK t : t = Append(s, x)
  OBVIOUS
<1>2. /\ t \in Seq(A) /\ Len(t) = Len(s) + 1 /\ Len(s) \in Nat /\ t[Len(s) + 1] = x
      /\ \A i \in 1 .. Len(s) : t[i] = s[i]
  BY <1>1, AppendProperties, LenProperties
<1>a. PICK up : Picks(up, A, t, L)
  BY <1>2, PickedRun
<1>3. /\ Picked(t, L) = up[Len(t)] /\ up[0] = <<>>
      /\ \A n \in 1 .. Len(t) : up[n] = IF n \in L THEN Append(up[n - 1], t[n]) ELSE up[n - 1]
  BY <1>a DEF Picks
<1>4. Len(s) <= Len(t) /\ Len(s) + 1 \in 1 .. Len(t) /\ Len(s) + 1 - 1 = Len(s)
  BY <1>2
<1>5. \A i \in 1 .. Len(s) : t[i] = s[i] /\ (i \in K <=> i \in L)
  BY <1>2
<1>6. Picked(s, K) = up[Len(s)]
  <2>1. t \in Seq(A)
    BY <1>2
  <2>2. Len(s) <= Len(t)
    BY <1>4
  <2> QED
    BY <1>5, <1>a, <2>1, <2>2, PickedOfPrefix
<1>7. up[Len(s) + 1] = IF Len(s) + 1 \in L THEN Append(up[Len(s) + 1 - 1], t[Len(s) + 1]) ELSE up[Len(s) + 1 - 1]
  BY <1>3, <1>4
<1> QED
  BY <1>1, <1>2, <1>3, <1>4, <1>6, <1>7

\* What is picked was at one of the places.
LEMMA PickedFrom ==
    ASSUME NEW A, NEW s \in Seq(A), NEW K, NEW B, \A i \in 1 .. Len(s) : i \in K => s[i] \in B
    PROVE  Picked(s, K) \in Seq(B) /\ Picked(s, K) \in Seq(A)
<1> DEFINE N == Len(s)
<1>a. PICK up : Picks(up, A, s, K)
  BY PickedRun
<1>1. /\ up \in [0 .. N -> Seq(A)] /\ Picked(s, K) = up[N] /\ up[0] = <<>>
      /\ \A n \in 1 .. N : up[n] = IF n \in K THEN Append(up[n - 1], s[n]) ELSE up[n - 1]
  BY <1>a DEF Picks
<1>2. N \in Nat
  BY LenProperties
<1> DEFINE T == {n \in 0 .. N : up[n] \in Seq(B)}
<1>3. 0 \in T
  BY <1>1, <1>2
<1>4. ASSUME NEW n \in 1 .. N, n - 1 \in T PROVE n \in T
  <2>1. n \in 0 .. N /\ up[n - 1] \in Seq(B)
    BY <1>2, <1>4
  <2>2. up[n] = IF n \in K THEN Append(up[n - 1], s[n]) ELSE up[n - 1]
    BY <1>1
  <2>3. n \in K => s[n] \in B
    OBVIOUS
  <2>4. up[n] \in Seq(B)
    BY <2>1, <2>2, <2>3, AppendProperties
  <2> QED
    BY <2>1, <2>4
<1>5. 0 .. N \subseteq T
  <2> HIDE DEF T, N
  <2> QED
    BY <1>2, <1>3, <1>4, UpTo
<1>6. N \in 0 .. N
  BY <1>2
<1> QED
  BY <1>1, <1>5, <1>6

\* Picking and replacing each element by another go in either order.
LEMMA PickedMapped ==
    ASSUME NEW A, NEW B, NEW s \in Seq(A), NEW f \in [A -> B], NEW K,
           NEW t, t = [i \in DOMAIN s |-> f[s[i]]]
    PROVE  /\ t \in Seq(B) /\ Len(t) = Len(s)
           /\ Picked(s, K) \in Seq(A) /\ Picked(t, K) \in Seq(B)
           /\ Len(Picked(t, K)) = Len(Picked(s, K))
           /\ \A i \in 1 .. Len(Picked(s, K)) : Picked(t, K)[i] = f[Picked(s, K)[i]]
<1> DEFINE N == Len(s)
<1>1. N \in Nat /\ DOMAIN s = 1 .. N
  BY LenProperties
<1>2. \A i \in 1 .. N : t[i] = f[s[i]] /\ s[i] \in A
  BY <1>1, ElementOfSeq
<1>3. t \in [1 .. N -> B]
  BY <1>1, <1>2
<1>4. t \in Seq(B) /\ Len(t) = N
  <2> HIDE DEF N
  <2>1. t \in Seq(B)
    BY <1>1, <1>3, IsASeq
  <2>2. DOMAIN t = 1 .. N /\ DOMAIN t = 1 .. Len(t) /\ Len(t) \in Nat
    BY <1>3, <2>1, LenProperties
  <2> QED
    BY <1>1, <2>1, <2>2
<1>a. PICK u : Picks(u, A, s, K)
  BY PickedRun
<1>5. /\ u \in [0 .. N -> Seq(A)] /\ Picked(s, K) = u[N] /\ u[0] = <<>>
      /\ \A n \in 1 .. N : u[n] = IF n \in K THEN Append(u[n - 1], s[n]) ELSE u[n - 1]
  BY <1>a DEF Picks
<1>b. PICK v : Picks(v, B, t, K)
  BY <1>4, PickedRun
<1>c. Len(t) = N
  BY <1>4
<1>6. /\ v \in [0 .. N -> Seq(B)] /\ Picked(t, K) = v[N] /\ v[0] = <<>>
      /\ \A n \in 1 .. N : v[n] = IF n \in K THEN Append(v[n - 1], t[n]) ELSE v[n - 1]
  BY <1>b, <1>c DEF Picks
<1> DEFINE Alike(n) == Len(v[n]) = Len(u[n]) /\ \A i \in 1 .. Len(u[n]) : v[n][i] = f[u[n][i]]
           T == {n \in 0 .. N : Alike(n)}
<1>7. 0 \in T
  <2>1. u[0] = <<>> /\ v[0] = <<>> /\ Len(<<>>) = 0
    BY <1>5, <1>6
  <2> QED
    BY <1>1, <2>1
<1>8. ASSUME NEW n \in 1 .. N, n - 1 \in T PROVE n \in T
  <2>1. n \in 0 .. N /\ n - 1 \in 0 .. N /\ Alike(n - 1)
    BY <1>1, <1>8
  <2>2. PICK x : x = u[n - 1]
    OBVIOUS
  <2>3. PICK y : y = v[n - 1]
    OBVIOUS
  <2>4. x \in Seq(A) /\ y \in Seq(B) /\ Len(y) = Len(x) /\ \A i \in 1 .. Len(x) : y[i] = f[x[i]]
    BY <1>5, <1>6, <2>1, <2>2, <2>3
  <2>5. CASE n \in K
    <3>1. u[n] = Append(x, s[n]) /\ v[n] = Append(y, t[n])
      BY <1>5, <1>6, <2>2, <2>3, <2>5
    <3>2. s[n] \in A /\ t[n] = f[s[n]] /\ t[n] \in B
      BY <1>2, <1>3
    <3>3. PICK p : p = Append(x, s[n])
      OBVIOUS
    <3>4. PICK q : q = Append(y, t[n])
      OBVIOUS
    <3>5. Len(p) = Len(x) + 1 /\ p[Len(x) + 1] = s[n] /\ \A i \in 1 .. Len(x) : p[i] = x[i]
      BY <2>4, <3>2, <3>3, AppendProperties
    <3>6. Len(q) = Len(y) + 1 /\ q[Len(y) + 1] = t[n] /\ \A i \in 1 .. Len(y) : q[i] = y[i]
      BY <2>4, <3>2, <3>4, AppendProperties
    <3>7. Len(x) \in Nat
      BY <2>4, LenProperties
    <3>8. Len(q) = Len(p) /\ \A i \in 1 .. Len(p) : q[i] = f[p[i]]
      <4>1. ASSUME NEW i \in 1 .. Len(p) PROVE q[i] = f[p[i]]
        <5>1. i = Len(x) + 1 \/ i \in 1 .. Len(x)
          BY <3>5, <3>7
        <5> QED
          BY <2>4, <3>2, <3>5, <3>6, <5>1
      <4> QED
        BY <2>4, <3>5, <3>6, <4>1
    <3>9. Alike(n)
      BY <3>1, <3>3, <3>4, <3>8
    <3> QED
      BY <2>1, <3>9
  <2>6. CASE n \notin K
    <3>1. u[n] = x /\ v[n] = y
      BY <1>5, <1>6, <2>2, <2>3, <2>6
    <3>2. Alike(n)
      BY <2>4, <3>1
    <3> QED
      BY <2>1, <3>2
  <2> QED
    BY <2>5, <2>6
<1>9. 0 .. N \subseteq T
  <2> HIDE DEF T, N
  <2> QED
    BY <1>1, <1>7, <1>8, UpTo
<1>10. N \in 0 .. N
  BY <1>1
<1>11. Alike(N)
  BY <1>9, <1>10
<1>12. /\ Picked(s, K) \in Seq(A) /\ Picked(t, K) \in Seq(B)
       /\ Len(Picked(t, K)) = Len(Picked(s, K))
       /\ \A i \in 1 .. Len(Picked(s, K)) : Picked(t, K)[i] = f[Picked(s, K)[i]]
  <2>1. PICK x : x = u[N]
    OBVIOUS
  <2>2. PICK y : y = v[N]
    OBVIOUS
  <2>3. Picked(s, K) = x /\ Picked(t, K) = y
    BY <1>5, <1>6, <2>1, <2>2
  <2>4. Len(y) = Len(x) /\ \A i \in 1 .. Len(x) : y[i] = f[x[i]]
    BY <1>11, <2>1, <2>2
  <2>5. x \in Seq(A) /\ y \in Seq(B)
    BY <1>5, <1>6, <1>10, <2>1, <2>2
  <2> QED
    BY <2>3, <2>4, <2>5
<1> QED
  BY <1>4, <1>12
=============================================================================
