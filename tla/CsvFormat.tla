----------------------------- MODULE CsvFormat -----------------------------
(***************************************************************************)
(* How src/storage.c writes the values of a row as a line of a file and    *)
(* takes a line apart.  <<>> stands for a line that cannot be read.        *)
(***************************************************************************)
EXTENDS SqlProc

\* Slip: a quote within quotes is written once.
QuotedOnce(text) == <<DoubleQuote>> \o text \o <<DoubleQuote>>

\* In quotes, with every quote doubled.
Quoted(text) ==
    LET upTo[n \in 0 .. Len(text)] ==
            IF n = 0 THEN <<DoubleQuote>>
            ELSE upTo[n - 1] \o (IF text[n] = DoubleQuote THEN <<DoubleQuote, DoubleQuote>> ELSE <<text[n]>>)
    IN  upTo[Len(text)] \o <<DoubleQuote>>

\* What a value may hold only in quotes.
Marks == {",", DoubleQuote, "\n"}

write_csv_field(text) ==
    IF \E i \in DOMAIN text : text[i] \in Marks THEN Quoted(text) ELSE text

write_csv_row(values) == Joined([i \in DOMAIN values |-> write_csv_field(values[i])]) \o <<"\n">>

\* Atom i of a line: what is read of it so far is a sequence of values, of
\* which the last is being read, inside quotes or not, and whether the atom
\* belongs to a doubled quote already read.
ReadAtom(read, line, i) ==
    LET put == [read EXCEPT !.values[Len(read.values)] = Append(@, line[i])]
    IN  IF read.skip THEN [read EXCEPT !.skip = FALSE]
        ELSE IF line[i] = DoubleQuote
        THEN IF read.quoted /\ i < Len(line) /\ line[i + 1] = DoubleQuote THEN [put EXCEPT !.skip = TRUE]
             ELSE [read EXCEPT !.quoted = ~@]
        ELSE IF line[i] = "," /\ ~read.quoted THEN [read EXCEPT !.values = Append(@, <<>>)]
        ELSE put

\* Slip: the buffer of a line is one short.
ShorterThanBuffer(line) == Len(line) < MAX_CSV_ROW_LEN - 1

\* A line that the buffer does not hold is refused.
validate_line_length(line) == Len(line) < MAX_CSV_ROW_LEN

parse_csv_line(line) ==
    LET text == FirstLine(line)
        upTo[n \in 0 .. Len(text)] ==
            IF n = 0 THEN [values |-> <<(<<>>)>>, quoted |-> FALSE, skip |-> FALSE]
            ELSE ReadAtom(upTo[n - 1], text, n)
        read == upTo[Len(text)]
    IN  IF /\ validate_line_length(line)
           /\ Len(read.values) <= MAX_COLUMNS
           /\ \A i \in DOMAIN read.values : Len(read.values[i]) < MAX_VALUE_LEN
        THEN read.values
        ELSE <<>>
=============================================================================
