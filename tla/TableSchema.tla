---------------------------- MODULE TableSchema ----------------------------
(***************************************************************************)
(* load_table_schema of src/schema.c: the one line of a schema file, such  *)
(* as id:int,name:string, made into columns.  <<>> stands for failure.     *)
(***************************************************************************)
EXTENDS SqlProc

DataTypes == {<<"int">>, <<"string">>}

\* The entries between the commas; nothing follows a comma at the end.
Entries(line) ==
    LET parts[n \in 0 .. Len(line)] ==
            IF n = 0 THEN <<(<<>>)>>
            ELSE IF line[n] = "," THEN Append(parts[n - 1], <<>>)
            ELSE [parts[n - 1] EXCEPT ![Len(parts[n - 1])] = Append(@, line[n])]
        all == parts[Len(line)]
    IN  IF Last(all) = <<>> THEN Front(all) ELSE all

\* One entry: a name, the first colon, a type.
Column(entry) ==
    LET colon == Span(entry, Atoms \ {":"}) + 1
    IN  [name |-> lower(SubSeq(entry, 1, colon - 1)),
         type |-> lower(SubSeq(entry, colon + 1, Len(entry)))]

\* Slip: names are not compared.
NoNameEmpty(columns) == \A i \in DOMAIN columns : columns[i].name # <<>>

NamesDiffer(columns) ==
    /\ \A i \in DOMAIN columns : columns[i].name # <<>>
    /\ \A i, j \in DOMAIN columns : i # j => columns[i].name # columns[j].name

\* fgets reads what the buffer holds of the line, and drops the rest.
load_table_schema(file) ==
    LET line == FirstLine(file)
        cut == SubSeq(line, 1, IF Len(line) < MAX_SCHEMA_LINE_LEN THEN Len(line) ELSE MAX_SCHEMA_LINE_LEN - 1)
        entries == Entries(cut)
        columns == [i \in DOMAIN entries |-> Column(entries[i])]
    IN  IF /\ Len(columns) <= MAX_COLUMNS
           /\ NamesDiffer(columns)
           /\ \A i \in DOMAIN columns : Len(columns[i].name) < MAX_NAME_LEN /\ columns[i].type \in DataTypes
        THEN columns
        ELSE <<>>

HasPrimaryKey(columns) ==
    \E i \in DOMAIN columns : columns[i].name = <<"id">> /\ columns[i].type = <<"int">>
=============================================================================
