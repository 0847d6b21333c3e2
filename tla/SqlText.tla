------------------------------ MODULE SqlText ------------------------------
(***************************************************************************)
(* A SQL text from its first character to the file: tokenize_sql, then     *)
(* parse_program, then execute_program (src/executor.c), each beginning    *)
(* when the one before is done, over one table of one schema file.         *)
(*                                                                         *)
(* The tables here have no primary key; SqlTable models those that have.   *)
(***************************************************************************)
EXTENDS SqlParser, TableSchema, CsvFormat

CONSTANTS
    Table,           \* the name of the table
    Inputs           \* pairs of a schema file and a SQL text

ASSUME InputsAssumption ==
    \A input \in Inputs :
        input.schema \in Seq(Atoms) /\ input.sql \in Seq(Atoms) /\ ~HasPrimaryKey(load_table_schema(input.schema))

VARIABLES
    schema_file,     \* what the schema file holds, which does not change
    columns,         \* what every statement loads from it
    lines,           \* the lines of the data file; <<>> when there is none
    executed,        \* how many statements of the program are executed
    printed,         \* one result per SELECT
    executing        \* "running", "done" or "failed"

execution_vars == <<lines, executed, printed, executing>>
vars == <<tokenizer_vars, parser_vars, schema_file, columns, execution_vars>>

ColumnNames == [c \in DOMAIN columns |-> columns[c].name]

find_schema_column(name) == CHOOSE c \in DOMAIN columns : columns[c].name = name

int_literal_in_range(literal) == Number(literal.text) \in -INT_MAX - 1 .. INT_MAX

string_literal_is_safe_for_csv(literal) ==
    literal.text # <<>> => literal.text[1] \notin {"=", "+", "-", "@"}

\* validate_literal_type and the range of a number.
LiteralFits(to, literal) ==
    \/ to.type = <<"int">> /\ literal.type = "number" /\ int_literal_in_range(literal)
    \/ to.type = <<"string">> /\ literal.type = "string"

\* The columns a list names, in the order of the list; without a list, all.
Named(s) == IF s.columns = <<>> THEN ColumnNames ELSE s.columns

\* build_insert_row_values: the values must be those of all columns, each once.
InsertFits(s) ==
    LET names == Named(s)
    IN  /\ Len(s.values) = Len(names) /\ Len(names) = Len(columns)
        /\ ToSet(names) = ToSet(ColumnNames)
        /\ \A k \in DOMAIN names :
             LET into == IF s.columns = <<>> THEN columns[k] ELSE columns[find_schema_column(names[k])]
             IN  /\ LiteralFits(into, s.values[k])
                 /\ into.type = <<"string">> => string_literal_is_safe_for_csv(s.values[k])

\* Slip: the values stay in the order of the statement.
ValuesAsListed(s) == [c \in DOMAIN columns |-> s.values[c].text]

\* The values in the order of the schema.
row_values(s) ==
    [c \in DOMAIN columns |->
        s.values[IF s.columns = <<>> THEN c
                 ELSE CHOOSE k \in DOMAIN s.columns : s.columns[k] = columns[c].name].text]

\* resolve_selected_columns, resolve_where_column
SelectFits(s) ==
    /\ ToSet(Named(s)) \subseteq ToSet(ColumnNames)
    /\ s.where # <<>> =>
         /\ s.where[1].text \in ToSet(ColumnNames)
         /\ LET tested == columns[find_schema_column(s.where[1].text)]
            IN  /\ LiteralFits(tested, s.where[3])
                /\ tested.type = <<"string">> => s.where[2].type \in {"=", "!="}

selected_indices(s) ==
    [k \in DOMAIN Named(s) |-> find_schema_column(Named(s)[k])]

Compare(operator, a, b) ==
    CASE operator = "="  -> a = b
      [] operator = "!=" -> a # b
      [] operator = ">"  -> a > b
      [] operator = "<"  -> a < b

\* Slip: numbers are compared as they are spelled.
MatchesSpelling(values, where) ==
    IF where[2].type \in {"=", "!="}
    THEN Compare(where[2].type, values[find_schema_column(where[1].text)], where[3].text)
    ELSE Compare(where[2].type, Number(values[find_schema_column(where[1].text)]), Number(where[3].text))

csv_value_matches_where(values, where) ==
    LET c == find_schema_column(where[1].text)
    IN  IF columns[c].type = <<"string">> THEN Compare(where[2].type, values[c], where[3].text)
        ELSE Compare(where[2].type, Number(values[c]), Number(where[3].text))

header_line == Joined(ColumnNames) \o <<"\n">>

\* validate_header_values of the first line.
HeaderIsValid == parse_csv_line(lines[1]) = ColumnNames

\* ensure_data_file: the file as the row finds it.
ensure_data_file == IF lines = <<>> THEN <<header_line>> ELSE lines

Rows == IF lines = <<>> THEN <<>> ELSE [i \in 1 .. Len(lines) - 1 |-> parse_csv_line(lines[i + 1])]

next_statement == program[executed + 1]

\* What the statement asks of the schema.
StatementFits(s) ==
    /\ columns # <<>> /\ s.table = Table
    /\ IF s.verb = "insert" THEN InsertFits(s) ELSE SelectFits(s)

\* What the statement asks of the file.
FileIsValid(s) ==
    lines # <<>> =>
        /\ HeaderIsValid
        /\ s.verb = "select" => \A i \in DOMAIN Rows : Len(Rows[i]) = Len(columns)

Runs(s) == executed < Len(program) /\ StatementFits(s) /\ FileIsValid(s)

execute_insert(s) ==
    /\ Runs(s) /\ s.verb = "insert"
    /\ lines' = Append(ensure_data_file, write_csv_row(row_values(s)))
    /\ executed' = executed + 1
    /\ UNCHANGED <<printed, executing>>

\* storage_print_rows and storage_print_rows_where_equals
execute_select(s) ==
    /\ Runs(s) /\ s.verb = "select"
    /\ LET chosen == selected_indices(s)
           found == Picked(Rows, {i \in DOMAIN Rows : s.where = <<>> \/ csv_value_matches_where(Rows[i], s.where)})
       IN  printed' = Append(printed, [i \in DOMAIN found |-> [k \in DOMAIN chosen |-> found[i][chosen[k]]]])
    /\ executed' = executed + 1
    /\ UNCHANGED <<lines, executing>>

\* The program stops at the first statement that fails, which changes nothing.
\* (The rows that a SELECT prints before one it cannot read are left out.)
StatementFails ==
    /\ executed < Len(program) /\ ~Runs(next_statement)
    /\ executing' = "failed"
    /\ UNCHANGED <<lines, executed, printed>>

EndOfProgram ==
    /\ executed = Len(program)
    /\ executing' = "done"
    /\ UNCHANGED <<lines, executed, printed>>

Execute ==
    /\ parsing = "done" /\ executing = "running"
    /\ \/ execute_insert(next_statement)
       \/ execute_select(next_statement)
       \/ StatementFails
       \/ EndOfProgram

Init ==
    /\ \E input \in Inputs : schema_file = input.schema /\ sql_text = input.sql
    /\ columns = load_table_schema(schema_file)
    /\ TokenizerInit /\ ParserInit
    /\ lines = <<>> /\ executed = 0 /\ printed = <<>> /\ executing = "running"

Next ==
    /\ UNCHANGED <<schema_file, columns>>
    /\ \/ Tokenize /\ UNCHANGED <<parser_vars, execution_vars>>
       \/ Parse /\ UNCHANGED <<tokenizer_vars, execution_vars>>
       \/ Execute /\ UNCHANGED <<tokenizer_vars, parser_vars>>

Spec == Init /\ [][Next]_vars

-----------------------------------------------------------------------------
(* Properties. *)

\* The line of a schema file that holds these columns.
Spelled(cs) == Joined([c \in DOMAIN cs |-> cs[c].name \o <<":">> \o cs[c].type])

\* A schema that loads is what the line of its file says, in the order of the line,
\* and every name is that of one column, so that a name in a statement means one
\* place of a row (load_table_schema, for lines that its buffer holds).  Of a longer
\* line fgets keeps the beginning, and what loads need not be all of it.
SchemaFollowsText ==
    columns # <<>> =>
        /\ LET said == lower(FirstLine(schema_file))
           IN  Len(said) < MAX_SCHEMA_LINE_LEN => said \in {Spelled(columns), Spelled(columns) \o <<",">>}
        /\ Cardinality(ToSet(ColumnNames)) = Len(columns)

InsertsBefore(n) == Picked(SubSeq(program, 1, n), {k \in 1 .. n : program[k].verb = "insert"})

\* What an INSERT says of the column in place c: the value at the place of its
\* name in the list, or at its own place.
Said(s, c) ==
    (CHOOSE pair \in {<<Named(s)[k], s.values[k].text>> : k \in DOMAIN s.values} :
        pair[1] = columns[c].name)[2]

\* The file is one row for each INSERT executed, in their order, and each row,
\* read back, gives every column the text the statement gave it, commas, quotes
\* and longest values included (build_insert_row_values, write_csv_row,
\* parse_csv_line: a row never runs into the next column or the next row).
RowsReadBack ==
    LET inserts == InsertsBefore(executed)
    IN  /\ lines = <<>> <=> inserts = <<>>
        /\ inserts # <<>> =>
             Rows = [i \in DOMAIN inserts |-> [c \in DOMAIN columns |-> Said(inserts[i], c)]]

IsNumber(name) == \E c \in DOMAIN columns : columns[c].name = name /\ columns[c].type = <<"int">>
Place(name) == CHOOSE c \in DOMAIN columns : columns[c].name = name

\* Does a row satisfy the condition: texts as texts, numbers as numbers.
Satisfies(insert, where) ==
    LET raw == Said(insert, Place(where[1].text))
        number == IsNumber(where[1].text)
        same == IF number THEN Number(raw) = Number(where[3].text) ELSE raw = where[3].text
    IN  CASE where[2].type = "="  -> same
          [] where[2].type = "!=" -> ~same
          [] where[2].type = ">"  -> Number(raw) > Number(where[3].text)
          [] where[2].type = "<"  -> Number(raw) < Number(where[3].text)

\* The answer the statements before the kth give to it.
Answer(k) ==
    LET s == program[k]
        inserts == InsertsBefore(k)
        rows == Picked(inserts, {i \in DOMAIN inserts : s.where = <<>> \/ Satisfies(inserts[i], s.where)})
    IN  [i \in DOMAIN rows |-> [j \in DOMAIN Named(s) |-> Said(rows[i], Place(Named(s)[j]))]]

\* Every SELECT printed the rows of the INSERTs before it that satisfy its
\* condition, in their order, with the columns it names in the order it names
\* them (execute_select, storage_print_rows_where_equals).
SelectsAnswer ==
    LET selects == Picked([k \in 1 .. executed |-> k], {k \in 1 .. executed : program[k].verb = "select"})
    IN  printed = [i \in DOMAIN selects |-> Answer(selects[i])]

\* A statement fails for what it says, never for what earlier statements left in
\* the file: what INSERT writes, header and rows, is what INSERT and SELECT take
\* (ensure_data_file, storage_print_rows).
OnlyBadStatementsFail == executing = "failed" => ~StatementFits(next_statement)
=============================================================================
