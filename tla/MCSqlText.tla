----------------------------- MODULE MCSqlText -----------------------------
(* Small inputs for SqlText: every short text over a few atoms, well-formed   *)
(* statements with one token changed, dropped or doubled, well-formed         *)
(* programs over values that are hard to write down, and schema files.        *)
EXTENDS SqlText, SequencesExt

MCLower == ("SELECT" :> "select") @@ ("A" :> "a") @@ ("INT" :> "int")
           @@ [x \in Keywords \cup {"int", "string", "id", "t", "a", "b"} |-> x]
MCLetters == DOMAIN MCLower
MCDigits == "0" :> 0 @@ "1" :> 1 @@ "9" :> 9
MCTable == <<"t">>

Upto(n, S) == UNION {[1 .. k -> S] : k \in 0 .. n}
Tokens(atoms) == [i \in DOMAIN atoms |-> <<atoms[i]>>]
Spaced(texts, separator) == FlattenSeq([i \in DOMAIN texts |-> texts[i] \o separator])
Str(text) == <<"'">> \o text \o <<"'">>

\* Schema files.
Plain == <<"a", ":", "string", ",", "b", ":", "INT">>
Numbers == <<"b", ":", "int", ",", "a", ":", "int", "\n">>
Texts == <<"b", ":", "string", ",", "a", ":", "string">>
Pieces == {<<"a", ":", "int">>, <<"A", ":", "string">>, <<"b", ":", "INT">>, <<"b", "a", ":", "string">>,
           <<"b", "a", "a", ":", "int">>, <<"a", "b", ":", "int">>, <<"id", ":", "string">>, <<":", "int">>, <<"b">>,
           <<"a", ":", ":", "int">>, <<"a", ":", "t">>, <<" ", ":", "int">>, <<>>}
Commas(texts) == FlattenSeq([i \in DOMAIN texts |-> (IF i = 1 THEN <<>> ELSE <<",">>) \o texts[i]])
Schemas == {Commas(pieces) \o end : pieces \in Upto(3, Pieces), end \in {<<>>, <<",">>, <<"\r", "\n", "b">>}}

\* Texts atom by atom.
Scribbles ==
    Upto(3, {"a", "1", "-", "!", "=", "'", "\"", "SELECT", ";", "\n", "\r", " "})
    \cup Upto(5, {"a", "'", "\r", "\n"}) \cup Upto(4, {"-", "1", "b"})
Semicolons_ == {[i \in 1 .. n |-> ";"] : n \in {MAX_TOKENS - 1, MAX_TOKENS, MAX_TOKENS + 1}}

\* Statements as sequences of token texts, and the same with one mistake.
Insert(list, values) ==
    Tokens(<<"insert", "into", "t">>)
    \o (IF list = <<>> THEN <<>> ELSE Tokens(<<"(">> \o Commas(Tokens(list)) \o <<")">>))
    \o Tokens(<<"values", "(">>) \o [i \in 1 .. 2 * Len(values) - 1 |-> IF i % 2 = 1 THEN values[(i + 1) \div 2] ELSE <<",">>]
    \o Tokens(<<")", ";">>)
Select(list, where) ==
    Tokens(<<"SELECT">> \o (IF list = <<>> THEN <<"*">> ELSE Commas(Tokens(list))) \o <<"from", "t">>)
    \o where \o <<(<<";">>)>>
Where(column_, operator, value) == <<(<<"where">>), <<column_>>, operator, value>>

Bases == {Insert(<<>>, <<Str(<<"a">>), <<"1">>>>), Insert(<<"b", "A">>, <<(<<"9">>), Str(<<>>)>>),
          Select(<<>>, <<>>), Select(<<"a", "b">>, Where("b", <<"!", "=">>, <<"-", "1">>))}
Mistakes == Tokens(<<"insert", "SELECT", "values", "from", "where", "a", "(", ")", "*", ",", ";", "=">>)
            \o <<Str(<<"a">>), <<"1">>, <<"a", "b", "a">>, <<"1", "1", "1", "1">>,
               Str(<<"a", "a", "a", "a">>), <<"a", "b", "a", "b">>>>
Mistaken(base) ==
    {ReplaceAt(base, i, Mistakes[m]) : i \in DOMAIN base, m \in DOMAIN Mistakes}
    \cup {RemoveAt(base, i) : i \in DOMAIN base}
    \cup {InsertAt(base, i, base[i]) : i \in DOMAIN base}
Programs == UNION {Mistaken(base) : base \in Bases}
            \cup {Insert(<<"a", "b", "a">>, <<(<<"1">>), <<"1">>, <<"1">>>>), Select(<<"a", "b", "a">>, <<>>),
                  Insert(<<>>, <<(<<"1">>), <<"1">>, <<"1">>>>), Insert(<<"b", "a">>, <<(<<"1">>)>>)}

\* Programs of two INSERTs and a SELECT, and longer ones.
Strings == {Str(<<>>), Str(<<",">>), Str(<<"\"", "\"", "\"">>), Str(<<"a", "\"">>), Str(<<"=", "a">>), Str(<<"1">>), Str(<<"a", "\r">>)}
Integers_ == {<<"1">>, <<"0", "1">>, <<"-", "1">>, <<"9", "9">>, <<"1", "0">>}
Values == {<<s, <<"1">>>> : s \in Strings} \cup {<<Str(<<"a">>), n>> : n \in Integers_}
Inserts == {Insert(<<>>, v) : v \in Values} \cup {Insert(<<"b", "A">>, <<v[2], v[1]>>) : v \in Values}
Few == {Insert(<<>>, <<Str(<<"\"", "\"", "\"">>), <<"0", "1">>>>), Insert(<<"b", "a">>, <<(<<"-", "1">>), Str(<<",">>)>>)}
Operators_ == {<<"=">>, <<"!", "=">>, <<"<">>, <<">">>}
Selects == {Select(<<>>, <<>>), Select(<<"b", "a">>, <<>>), Select(<<"b", "b">>, <<>>)}
           \cup {Select(<<"A">>, Where("b", operator, <<"1">>)) : operator \in Operators_}
           \cup {Select(<<"b">>, Where("a", operator, Str(<<",">>))) : operator \in Operators_}
           \cup {Select(<<"id">>, <<>>), Select(<<>>, Where("b", <<"=">>, <<"9", "9">>))}
Sessions == {i \o j \o s : i \in Inserts, j \in Few, s \in Selects}
Long == {Select(<<>>, <<>>) \o i \o s \o j : i, j \in Few, s \in Selects}

Entry(schema, sql) == [schema |-> schema, sql |-> sql]
MCInputs ==
    {Entry(Plain, text) : text \in Scribbles \cup Semicolons_}
    \cup {Entry(Plain, Spaced(p, separator)) : p \in Programs, separator \in {<<>>, <<" ">>}}
    \cup {Entry(Plain, Spaced(p, <<" ">>)) : p \in Sessions \cup Long}
    \cup {Entry(Texts, Spaced(Insert(<<"a", "b">>, <<v, w>>) \o s, <<" ">>)) :
            v, w \in Strings, s \in {Select(<<>>, <<>>), Select(<<"b">>, Where("a", <<"!", "=">>, Str(<<"1">>)))}}
    \cup {Entry(Numbers, Spaced(Insert(<<>>, <<(<<"1">>), <<"9">>>>) \o s, <<"\n">>)) : s \in Selects}
    \cup {Entry(schema, Spaced(Insert(<<"b", "a">>, <<(<<"1">>), Str(<<",">>)>>), <<" ">>)) : schema \in {<<>>, <<"\n">>}}
    \cup {Entry(schema, <<>>) : schema \in Schemas}

\* Schema files with a column name in quotes.
MCQuotedInputs ==
    {Entry(<<"\"", name, "\"", ":", "string", ",", "b", ":", "int">>,
           Spaced(Insert(<<>>, <<Str(<<"a">>), <<"1">>>>) \o s, <<" ">>)) :
        name \in {"a"}, s \in Selects}
=============================================================================
