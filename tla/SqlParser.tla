----------------------------- MODULE SqlParser -----------------------------
(***************************************************************************)
(* parse_program of src/parser.c over the tokens of SqlTokenizer, one      *)
(* token a step.  The parse functions call one another to a fixed depth,   *)
(* so where the parser is, is one of the places that Grammar names, each   *)
(* for what is to come: a triple is a place, a token type it takes, and    *)
(* the place after it.                                                     *)
(***************************************************************************)
EXTENDS SqlTokenizer

VARIABLES
    position,        \* the token to be looked at
    expecting,       \* where the parser is
    statement,       \* what is read of the statement
    program,
    parsing          \* "running", "done" or "failed"

parser_vars == <<position, expecting, statement, program, parsing>>

Literals == {"number", "string"}

\* Where a token leads: parse_statement, parse_insert_statement, parse_value_list,
\* parse_select_statement, parse_where_operator, parse_literal.
FixedRules ==
    {<<"statement", "insert", "into">>,
     <<"into", "into", "insert table">>,
     <<"insert table", "identifier", "columns?">>,
     <<"columns?", "(", "insert column">>,
     <<"columns?", "values", "(">>,
     <<"insert column", "identifier", "more insert columns">>,
     <<"more insert columns", ",", "insert column">>,
     <<"more insert columns", ")", "values">>,
     <<"values", "values", "(">>,
     <<"(", "(", "value">>,
     <<"more values", ",", "value">>,
     <<"more values", ")", ";">>,
     <<"statement", "select", "what">>,
     <<"what", "*", "from">>,
     <<"what", "identifier", "more select columns">>,
     <<"more select columns", ",", "select column">>,
     <<"more select columns", "from", "select table">>,
     <<"select column", "identifier", "more select columns">>,
     <<"from", "from", "select table">>,
     <<"select table", "identifier", "where?">>,
     <<"where?", "where", "where column">>,
     <<"where?", ";", "statement">>,
     <<"where column", "identifier", "operator">>,
     <<";", ";", "statement">>}

\* All rules: with those that take any literal or any operator.
Grammar ==
    FixedRules
    \cup {<<"value", literal, "more values">> : literal \in Literals}
    \cup {<<"operator", operator, "where value">> : operator \in Operators \cup {"!="}}
    \cup {<<"where value", literal, ";">> : literal \in Literals}

Names == {"insert column", "select column", "what"}
Tables == {"insert table", "select table"}
Wheres == {"where column", "operator", "where value"}

token == tokens[position]

\* Slip: the values may be fewer than the columns.
NotTooManyValues(s) == s.columns # <<>> => Len(s.values) <= Len(s.columns)

\* At the end of a value list: with a column list, as many values as columns.
CountsAgree(s) == s.columns # <<>> => Len(s.values) = Len(s.columns)

RoomForValue(s) ==
    Len(s.values) < MAX_COLUMNS /\ (s.columns # <<>> => Len(s.values) < Len(s.columns))

\* Slip: one column too many.
RoomForOneMore(s) == Len(s.columns) <= MAX_COLUMNS
RoomForColumn(s) == Len(s.columns) < MAX_COLUMNS

\* Where the token may lead.
Applicable == {place \in {rule[3] : rule \in Grammar} : <<expecting, token.type, place>> \in Grammar}

\* The token is one that the grammar and the limits let stand here.
Legal ==
    /\ Applicable # {}
    /\ expecting = "statement" => Len(program) < MAX_STATEMENTS
    /\ token.type = "identifier" => Len(token.text) < MAX_NAME_LEN
    /\ expecting \in Names => RoomForColumn(statement)
    /\ expecting = "value" => RoomForValue(statement)
    /\ expecting = "more values" /\ token.type = ")" => CountsAgree(statement)

Take ==
    /\ Legal
    /\ position' = position + 1
    /\ expecting' \in Applicable
    /\ UNCHANGED parsing

BeginStatement ==
    /\ expecting = "statement"
    /\ statement' = [verb |-> token.type, table |-> <<>>, columns |-> <<>>, values |-> <<>>, where |-> <<>>]
    /\ Take
    /\ UNCHANGED program

TakeTable ==
    /\ expecting \in Tables
    /\ statement' = [statement EXCEPT !.table = token.text]
    /\ Take
    /\ UNCHANGED program

TakeColumn ==
    /\ expecting \in Names /\ token.type = "identifier"
    /\ statement' = [statement EXCEPT !.columns = Append(@, token.text)]
    /\ Take
    /\ UNCHANGED program

TakeValue ==
    /\ expecting = "value"
    /\ statement' = [statement EXCEPT !.values = Append(@, Lexeme(token.type, token.text))]
    /\ Take
    /\ UNCHANGED program

TakeWhere ==
    /\ expecting \in Wheres
    /\ statement' = [statement EXCEPT !.where = Append(@, Lexeme(token.type, token.text))]
    /\ Take
    /\ UNCHANGED program

EndStatement ==
    /\ token.type = ";"
    /\ program' = Append(program, statement)
    /\ Take
    /\ UNCHANGED statement

TakeMark ==
    /\ expecting \notin Tables \cup Wheres \cup {"statement", "value"}
    /\ token.type \notin {"identifier", ";"}
    /\ Take
    /\ UNCHANGED <<statement, program>>

EndOfTokens ==
    /\ expecting = "statement" /\ token.type = "eof" /\ program # <<>>
    /\ parsing' = "done"
    /\ UNCHANGED <<position, expecting, statement, program>>

ParseFails ==
    /\ ~Legal
    /\ ~(expecting = "statement" /\ token.type = "eof" /\ program # <<>>)
    /\ parsing' = "failed"
    /\ UNCHANGED <<position, expecting, statement, program>>

ParserInit ==
    /\ position = 1
    /\ expecting = "statement"
    /\ statement = [verb |-> "none", table |-> <<>>, columns |-> <<>>, values |-> <<>>, where |-> <<>>]
    /\ program = <<>>
    /\ parsing = "running"

Parse ==
    /\ tokenizing = "done" /\ parsing = "running"
    /\ \/ BeginStatement \/ TakeTable \/ TakeColumn \/ TakeValue \/ TakeWhere
       \/ TakeMark \/ EndStatement \/ EndOfTokens \/ ParseFails

-----------------------------------------------------------------------------
(* Properties. *)

WithinLimits(s) ==
    /\ Len(s.table) < MAX_NAME_LEN
    /\ Len(s.columns) <= MAX_COLUMNS /\ Len(s.values) <= MAX_COLUMNS
    /\ \A k \in DOMAIN s.columns : Len(s.columns[k]) < MAX_NAME_LEN
    /\ \A k \in DOMAIN s.values : Len(s.values[k].text) < MAX_VALUE_LEN
    /\ s.where # <<>> => Len(s.where[1].text) < MAX_NAME_LEN

\* Whatever the text, no buffer of a token, a name, a statement or a program is
\* given more than it holds, whichever reader or list the text comes through
\* (append_token, read_string, copy_name, parse_value_list, parse_program).
LimitsHold ==
    /\ Len(tokens) <= MAX_TOKENS /\ Len(program) <= MAX_STATEMENTS
    /\ \A k \in DOMAIN tokens : Len(tokens[k].text) < MAX_VALUE_LEN
    /\ WithinLimits(statement)
    /\ \A k \in DOMAIN program : WithinLimits(program[k])

\* The language, from its rules: token types, from the first on.
Types(from, to) == [i \in 1 .. to - from + 1 |-> tokens[from + i - 1].type]
IsList(s, S) ==
    Len(s) % 2 = 1 /\ \A i \in DOMAIN s : IF i % 2 = 1 THEN s[i] \in S ELSE s[i] = ","
Listed(s) == (Len(s) + 1) \div 2

IsInsert(s) ==
    \E c \in 3 .. Len(s), v \in 4 .. Len(s) :
        /\ SubSeq(s, 1, 3) = <<"insert", "into", "identifier">>
        /\ \/ c = 3
           \/ /\ c > 5 /\ s[4] = "(" /\ s[c] = ")"
              /\ IsList(SubSeq(s, 5, c - 1), {"identifier"})
              /\ Listed(SubSeq(s, 5, c - 1)) = Listed(SubSeq(s, v + 1, Len(s) - 1))
        /\ v = c + 2 /\ v < Len(s)
        /\ s[c + 1] = "values" /\ s[v] = "(" /\ s[Len(s)] = ")"
        /\ IsList(SubSeq(s, v + 1, Len(s) - 1), Literals)
        /\ Listed(SubSeq(s, v + 1, Len(s) - 1)) <= MAX_COLUMNS

IsSelect(s) ==
    \E f \in 3 .. Len(s) :
        /\ s[1] = "select" /\ s[f] = "from"
        /\ \/ f = 3 /\ s[2] = "*"
           \/ /\ IsList(SubSeq(s, 2, f - 1), {"identifier"})
              /\ Listed(SubSeq(s, 2, f - 1)) <= MAX_COLUMNS
        /\ \/ Len(s) = f + 1
           \/ /\ Len(s) = f + 5
              /\ s[f + 2] = "where" /\ s[f + 3] = "identifier"
              /\ s[f + 4] \in Operators \cup {"!="} /\ s[f + 5] \in Literals
        /\ s[f + 1] = "identifier"

\* The tokens between the (k-1)th and the kth semicolon.
Semicolons == {i \in DOMAIN tokens : tokens[i].type = ";"}
Begin(end) == IF \E i \in Semicolons : i < end
              THEN (CHOOSE i \in Semicolons : i < end /\ \A j \in Semicolons : j < end => j <= i) + 1
              ELSE 1
IsProgramText ==
    /\ \A k \in DOMAIN tokens : tokens[k].type = "identifier" => Len(tokens[k].text) < MAX_NAME_LEN
    /\ Semicolons # {} /\ Cardinality(Semicolons) <= MAX_STATEMENTS
    /\ Len(tokens) > 1 /\ tokens[Len(tokens) - 1].type = ";"
    /\ \A end \in Semicolons :
         LET s == Types(Begin(end), end - 1) IN IsInsert(s) \/ IsSelect(s)

\* parse_program accepts a text exactly when it is statements of the language with
\* a semicolon each, within the limits: nothing more, nothing less, and nothing
\* after the last semicolon.
GrammarDecides ==
    tokenizing = "done" /\ parsing # "running" => (parsing = "done" <=> IsProgramText)
=============================================================================
