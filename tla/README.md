# Verification of sqlproc

`sqlproc` runs a small SQL dialect (INSERT and SELECT) on CSV files. A table with
an integer primary key `id` gets a B+ tree in memory that maps an id to the place of
its row in the file. This directory models the program in four layers that can each
be checked on their own: the B+ tree while it is updated; one table's file, index and
id counter while statements run, fail or are cut off; a whole command, from its input
to its exit; and the way of a text through tokenizer, parser and executor into the
file and back.

## The system

| component | source | state | operations |
|---|---|---|---|
| B+ tree index | `src/src/bptree.c` | nodes, root, leaf chain | create, insert, search, visit greater / less, destroy |
| table runtime state and executor | `src/src/executor.c` | `table_states[32]`: schema and data directory, table, `next_id`, `pk_index` | load the state, allocate an id, check uniqueness, INSERT, SELECT by index / range / scan, run a program |
| CSV storage | `src/src/storage.c` | one file per table | create with header, append, rebuild the index, print all / equal / at offset(s) |
| front end | `src/src/app.c`, `main.c` | what is left of stdin | file mode, interactive mode, benchmark mode |
| tokenizer, parser | `src/src/tokenizer.c`, `parser.c` | place in the text, tokens, program | text to at most 512 tokens, at most 32 statements |
| schema | `src/src/schema.c` | none (reads a file) | load the columns, find the primary key |
| benchmark | `src/src/benchmark.c`, `src/benchmarks/bench_index.c` | workspace files | ask for a number, generate rows, look one up, go on as a session |

How they interact: the front end gives a text to the parser, and the parsed program
to the executor, which runs its statements in order and stops at the first that
fails. An INSERT loads the schema, may take the next id, asks the index whether the
id exists, lets the storage append the row, and enters the row's offset into the
index. A SELECT whose WHERE is about the primary key asks the index for offsets and
lets the storage print the rows there; any other SELECT reads the file. The program
has one thread. Concurrency appears where two commands use one data directory: each
has its own index, and the file is shared without a lock.

What is hard, by component:

* **B+ tree**: an insertion changes a leaf, the leaf chain and the parents in
  separate steps, over several recursion levels, and each step that needs memory
  can stop the rest. Correct means: at any moment a search tree, no entry lost, a
  recursion that ends, the same answers whichever way the data is reached.
* **Table state and storage**: three copies of the truth (file, index, `next_id`)
  must agree after refused statements, explicit ids in any order, failed writes
  and restarts. Correct means: fresh ids, unique ids, rows that stay, index and
  scan that agree, a file that the next start can load.
* **Front end and execution**: limits must refuse and not cut; nothing runs if a
  later statement does not parse, but statements before a failing one stay applied;
  an error shows in the exit code of a file and not in that of a session; slots are
  shared by tables of two directories; the benchmark runs SQL of its own first.
* **Text, format and schema**: four readers, each with its limits, hand values on,
  and what the writer of a line escapes must be what its reader undoes, up to the
  longest value. Names are folded in two places, columns matched in any order.

`PROJECT.json` lists the hazards at their lines with the properties about them.

## The modules

    PkIndex           what bptree.h promises: a map with insert, search, two visits
      ^ implemented by
    BPlusTree         bptree.c, step by step              <- MCBPlusTree
      ^ EXTENDS
    BPlusTreeProofs   arrays, recursion and search tree, for any order, keys and failures
      ^ EXTENDS
    BPlusTreeMapProofs     the leaf chain, the refinement and the answers, for the same

    KeyedTable        what a table with a primary key promises to one process
      ^ implemented by
    SqlTable          executor.c + storage.c, one table   <- MCSqlTable
      ^ EXTENDS
    SqlTableProofs    for any processes and faults, and for one that may be killed

    SqlProgram        app.c, benchmark.c, execute_program <- MCSqlProgram
      ^ EXTENDS
    SqlProgramProofs

    SqlProc           sqlproc.h: limits and texts
      ^ EXTENDS
    SqlTokenizer      tokenizer.c
      ^ EXTENDS
    SqlParser         parser.c       TableSchema  schema.c     CsvFormat  storage.c's lines
      ^                                ^                         ^
      SqlText         from the text to the file and back, without a key <- MCSqlText

    SqlParserProofs   buffers, places and the grammar   (over SqlParser)
      ^ EXTENDS
    FileTextProofs    rows and schema files, as written and as read   (over CsvFormat, TableSchema)
      ^ EXTENDS
    SqlTextProofs     from the text to the file and back, for any text, schema file and limits

    NaturalsRecursion  induction and recursion up to a number, for the proofs

An MC module gives the constants of its instances; the `.cfg` files name them.
Definitions marked `Slip` are likely mistakes, each one a variant of the definition
below it; nothing uses them but the experiments in `PROJECT.json` that show that a
property would notice.

### BPlusTree

`heap` holds the node records by address and `allocated` the addresses handed out;
keys, offsets and children are sequences, so C's index `i` is position `i + 1`. A
call of `bptree_insert` is `InsertCall` and then one action per step of the C
functions:

| code | actions |
|---|---|
| `bptree_insert` 338-343, empty tree | `CreateRoot`, `CreateRootFails` |
| `insert_recursive`, down | `Descend` (pushes `<<node, position>>` on `path`) |
| `insert_into_leaf` | `LeafDuplicate`, `LeafInsert` |
| `split_leaf_and_insert` | `LeafSplit`, `LeafSplitFails` |
| `insert_recursive`, back up | `InternalInsert` |
| `split_internal_and_insert` | `InternalSplit`, `InternalSplitFails` |
| `bptree_insert` 345-362 | `NewRoot`, `NewRootFails` |

`up` is the `InsertResult` that travels up. The nodes are cut where the C functions
return to each other, which is where a `calloc` can leave the tree half updated;
within one function nothing can fail after the allocation. `Failing` names the
allocation sites that may fail, so that a run can say which. Searches and visits
only read and are operators with the names of the C functions; a visit is the
sequence of offsets handed to the callback (the callback's own failure, which only
stops the visit, is left out).

`PkIndex` is the abstract map. In the refinement the stored map is the leaf chain;
while a split travels up, the new key does not count yet, because the call can still
be refused. Under `Failing # {}` the abstract insertion may be refused too.

### SqlTable and KeyedTable

The data file is a sequence of `lines` (header, row with an id, or a line that no
reader accepts) and `open_end`, whether the last line lacks its newline. Each
process has `loaded`, `next_id` and `index` (its `TableRuntimeState`) and the locals
of the statement it runs; `pc` is the next file access or state change.

| code | actions |
|---|---|
| `get_table_state_index`, `create_table_state`, `storage_rebuild_pk_index` | `LoadState`, `LoadStateFails` |
| `build_insert_row_values`, `allocate_next_primary_key` | `InsertExplicit`, `InsertAuto`, `Allocate`, `AllocateThenReject`, `AllocateFails` |
| `validate_primary_key_unique` | `CheckUnique`, `RefuseDuplicate` |
| `ensure_data_file` | `EnsureExisting`, `EnsureBadHeader`, `EnsureAbsent`, `Create`, `CreateFails`, `WriteHeader`, `HeaderLost` |
| `storage_append_row` to 382 | `OpenAppend`, `OpenAppendFails` |
| `fclose` at 392, where the buffered row is written | `Flush`, `FlushShort` |
| `bptree_insert` and `remember_explicit_primary_key` in `execute_insert` | `IndexInsert`, `IndexInsertFails` |
| end or kill of the process | `Exit` |
| SELECT on the primary key | `SelectByKey`, `LoadState`; the answers are `select_with_index`, `select_with_index_range`, `select_with_scan` |

A row is at most about 2 KB and stdio's buffer is larger, so `fclose` does the one
write of the row; that is why an append is `OpenAppend` (offset read) and `Flush`
(row written), with other processes in between. `Faults` says what the environment
may do: `"open fails"`, `"disk full"`, `"no memory"`, `"crash"`. A crash is the death
of the process, not a loss of power: what was written stays, what was buffered goes.

Abstractions. The other columns are left out (at least one follows the id). An
offset is a line number; after a truncation a byte offset could also point into the
middle of a line, so what a stale index prints after the file was truncated is not
examined. Statements refused before they change anything are left out.

The index is the map of `PkIndex`, and `IndexInsertFails` leaves it as it was. In the
code a `bptree_insert` that runs out of memory above a leaf it has divided loses the
right part of that division to searches (bptree.c:247, 351); what the tree then answers
is the subject of `BPlusTree`. `NextIdFresh` and `AutoIdFree`, the properties checked with
`"no memory"`, do not depend on it: an id of the index that is lost makes both easier,
and an id that a failed insertion leaves where searches find it is below the two keys or
more of the part that is lost, one of which is not `INT_MAX` and was below `next_id`. The
refused id itself, if it is above all others, is always in the
lost part. `SelectsAgree` and `SuccessMeansStored` would depend on it; they are checked
without that fault.

The header is written whole (`WriteHeader`), over the first line if another process
has written one meanwhile, or lost (`HeaderLost`); storage.c:303-325 could also leave a
part of it on a full disk, or a rest of a longer first line behind it. A row that lands
behind a torn one, or behind one that has no newline yet, makes a line that no reader
accepts (`Appended`); storage.c:178-218 and 382 could by chance make one that parses.
Neither is about a complete row that was there before, which is what
`OnlyCreationDropsRows` follows, and the runs with one process and `"crash"` meet neither.

`KeyedTable` is what one process may rely on: an INSERT stores at most one row, under
a key that had none, before it reports success; a refused one stores nothing; a
killed process may leave the row of its last INSERT, and no row is lost. The
refinement maps `keys` to the ids in the file, `wanted` to the ids the running
statement may still take, `stored` to having passed `Flush`.

### SqlProgram

One command from start to exit, a statement at a time. Input is a sequence of
pieces, each one place of a line buffer: a statement, a semicolon, a newline, an exit
word, a number, or something no program contains. A cut between two pieces stands for
every cut: what is left on both sides does not parse unless a statement and its
semicolon are whole. A data file is the sequence of its ids.

| code | definitions |
|---|---|
| `load_sql_file`, `run_sql_file` | `LoadFile`, `LoadFileFails` (`Fits`: the probe for one byte more) |
| `run_interactive_program` | `ReadLine`, `ReadExit`, `EndOfInput`; `Taken` is fgets |
| `tokenize_sql`, `parse_program` | `Parse`: the whole text is statements, or nothing runs |
| what a text's success or failure does in each mode | `After` |
| `find_table_state`, `get_table_state_index`, `create_table_state` | `find_table_state`, `LoadState`, `LoadStateFails` |
| `execute_insert`, `execute_select`, `execute_program` | `InsertKeyed`, `InsertPlain`, `InsertPlainFails`, `RefuseInsert`, `Select`, `Refuse` |
| `ensure_data_file`, `storage_append_row` | `Recreations`, `Appended`, `Stored`, `AppendFails` |
| `prompt_record_count`, `run_benchmark_mode` | `ReadCount`, `CountEndOfInput`, `Build`, `BuildFails`, then `LoadFile` for each of the three lookups and the session |

`record_count * 9` overflows: `Products` is then any int, because C does not say
which. Writes are whole here: `SqlTable` is where they are lost or torn.

`"open fails"` lets any single `fopen` fail. For the data file of an INSERT there are
three. When the one with `"rb"` fails (storage.c:260), for whatever reason, the file is
opened with `"wb"` (297), which leaves a header and no row; `Recreations` is that
choice. When the one with `"wb"` or the one with `"a+b"` fails, so does the INSERT, and the
file may be empty by then (`AppendFails`). The slot of the table keeps its index in each
case, which then has ids of rows that are gone. `storage_rebuild_pk_index` does tell a
missing file from one it cannot open (1150), so a slot is never made from a file that
was not read.

### SqlText and its parts

A text is a sequence of atoms: characters, and the words the checks need no letters
of (a keyword, a type, a name of length one). Each atom takes one column of the text
and one place of a buffer, so the lengths that matter are reached with short texts.
`MAX_SCHEMA_LINE_LEN` and `MAX_CSV_ROW_LEN` are computed from the other limits as
`sqlproc.h` does.

* `SqlTokenizer` reads one token or one blank a step (`read_word`, `read_number`,
  `read_string`, `read_symbol`, `append_token`), with line and column.
* `SqlParser` takes one token a step. The parse functions call each other to a fixed
  depth, so where the parser is, is one of the places named in `Grammar`; `Legal`
  has the limits and the counts that the functions check on the way.
* `TableSchema` is `load_table_schema`, with the cut that `fgets` makes.
* `CsvFormat` is `write_csv_row`, `parse_csv_line` and the checks on a line.
* `SqlText` puts them together and adds what `execute_insert` and `execute_select` do
  with values: the order of a column list, types, the text rule against formulas, the
  conditions, and the file with its header. It has tables without a primary key, whose
  statements go through none of the state of `SqlTable`.

## The runs

| run | instance | result |
|---|---|---|
| `tree` | order 4 as in the source, 11 keys (one also with a second offset), 12 nodes; the allocations of the first leaf and of a leaf split may fail | `TypeOK`, `SearchTree`, `ReadsAnswer`, `ImplementsPkIndex` hold |
| `tree_no_memory` | order 3, 6 keys, 9 nodes, every allocation may fail | `SearchTree`, `EntriesStay`, `NoNodePassedTwice` hold |
| `tree_twice` | order 3, 5 keys, every allocation may fail | `NoKeyTwice` is violated |
| `table` | one process, ids -2 .. 4, up to 4 rows, killed at any step | `TypeOK`, `NextIdFresh`, `FileStaysReadable`, `SelectsAgree`, `SuccessMeansStored`, `RowsStay`, `ImplementsKeyedTable` hold |
| `table_shared` | two processes, all faults, ids -1 .. 3, INSERTs start on at most 2 lines | `NextIdFresh`, `AutoIdFree`, `OnlyCreationDropsRows` hold |
| `table_duplicate` | two processes, no fault | `UniquePrimaryKeys` is violated |
| `table_creation` | two processes, no file at first, no fault | `RowsStay` is violated |
| `table_restart` | one process, no fault | `RestartReloads` is violated |
| `program` | all short files and sessions, files and sessions of up to 3 statements on one line or several, 4 to 6 INSERTs, and pairs of answers to the prompt followed by a session; any open may fail; 100737 states | `TypeOK`, `FilesFollowAcks`, `SlotsFollowFiles`, `WholeTextOnly`, `ExitCodeTells`, `SessionServesAll`, `TargetExists`, `CommandEnds` hold |
| `program_long_line` | the same inputs, no fault | `LongLinesRefused` is violated |
| `text` | all short texts, statements with one token changed, dropped or doubled, programs over values that are hard to write down, schema files with every kind of mistake; 130610 states | `LimitsHold`, `GrammarDecides`, `SchemaFollowsText`, `RowsReadBack`, `SelectsAnswer`, `OnlyBadStatementsFail`, `TokensPlaced` hold |
| `text_header` | a schema file with a column name in quotes | `OnlyBadStatementsFail` is violated |

What they show, in a sentence each: `tree` that the steps of a split never show in
what a search or a visit answers; `tree_no_memory` that memory running out anywhere
costs reachability at most, and never leads the recursion in a circle; `table` that
one process, killed and restarted at will, keeps the promises of `KeyedTable`;
`table_shared` what remains true when two processes share a file without a lock;
`program` that what is executed, what the slots know and what the exit code says belong
together, that even where an open that fails empties a file, what is left in it is the
last of what was acknowledged, and that the command ends; `text` that a value that is accepted comes
back from the file as it was, into the column it was meant for.

Bounds and why they are enough.

* `tree`: with order 4 an internal node splits after the tenth key at the earliest
  in ascending order. All orders of 11 keys are too many; the action constraint
  `FromBothEnds` lets a new key be the greatest absent one, or leave at most one
  smaller absent key behind, so that splits happen at the left end, at the right end
  and next to either. The reads and duplicates are not restricted. `tree_no_memory`
  takes the smallest order, 3, where 6 keys in every order reach three levels, and
  explores every interleaving of failures; `FewRepeats` stops it when two entries are
  repeated.
* `table`: `MaxLines` bounds the length at which an INSERT may start; four rows are
  enough for negative, zero, greatest and `INT_MAX` ids in every order. `IntMin` and
  `IntMax` stand for the limits of `int`, so the comparisons with `INT_MAX` are
  exercised. Ids below 0 are in range because SQL may name them.
* `table_shared`: two processes suffice for a stale index, a race of two creations,
  and a glued or split append; a third adds no new pair of steps. The processes are
  symmetric.
* `program`: the limits are small so that inputs lie on both sides of each: a buffer
  of 7 pieces (so 6 fit), 7 tokens (3 statements and the end), 3 statements, 2 slots
  for 3 keyed tables in two directories, an answer of 2 pieces, `IntMax` 31 so that 4
  records already overflow `record_count * 9`. The sample statements are one of each
  way to succeed or fail, by key, without a key, and in an unknown table.
* `text`: names shorter than 3 and values shorter than 4 places, 2 columns, 37
  tokens, 3 statements, ints to 50. Each limit is met exactly and exceeded by one in
  some input; a value of three quotes gives the longest line, and a text of only
  semicolons the greatest number of tokens.

Fairness. `SqlProgram` has one sequential process that waits for nothing but the
return of a read or a write; the input is finite, and at its end `fgets` says so. So
some step is always taken as long as one can be: `WF_vars(Next)`, in `FairSpec`. It
gives `CommandEnds`: whatever the input, the session, the statements and the prompt
for a number, which asks again after every wrong answer, come to an end. The other
models have no liveness property. A call of the B+ tree ends because it goes down a
finite tree once (`NoNodePassedTwice`) and up again; a statement of `SqlTable` is a
fixed sequence of steps; both wait for nobody.

Deadlock is checked in every run of `BPlusTree` and `SqlTable`: a statement can
always go on or fail. `SqlProgram` and `SqlText` end, so their runs say
`CHECK_DEADLOCK FALSE`; that `SqlProgram` does not stop anywhere but at its exit is
`CommandEnds`, for which a state without a next step elsewhere would be a
counterexample.

### What the violated properties say

* **`NoKeyTwice`**: `docs/bptree-easy-guide.md:246` says a duplicate insertion is a
  failure. If memory runs out above a leaf that was already split, its right half
  is only on the leaf chain. The insertion reports a failure though the entry is
  in the chain, and the same key can then be inserted again. `EntriesStay` shows
  that nothing is lost from the chain: range visits that come from the left still
  see these rows, searches do not.
* **`UniquePrimaryKeys`**: `README.md:419` says the id is checked just before it is
  stored. It is checked against this process's index, not against the file.
* **`RowsStay`** with two processes and no file: the comment in `ensure_data_file`
  says a file is created if there is none; the check and the truncating `fopen`
  are two steps, and the second creator erases the first one's row. One process is
  enough when the file is there but cannot be opened with `"rb"` (260), because of
  too many open files for instance: every failure is taken for a missing file. The run
  has no such fault; `SqlProgram` has it, and `FilesFollowAcks` says what is left: rows
  go from the front of a file, and only at a statement that reached the append.
* **`RestartReloads`**: `README.md:222` says the index is rebuilt at the first use.
  A row with id `INT_MAX` is accepted and stored; from then on no new process can
  load the table.
* **`OnlyBadStatementsFail`** with a column name in double quotes, which
  `load_table_schema` accepts: `ensure_data_file` (storage.c:312) writes the header
  with `fputs` and reads it back as CSV (277), which takes the quotes away. The
  first INSERT creates a file whose header never matches the schema
  (`docs/insert-column-order-explained.md:136-137` describes the two halves), and
  every later statement on the table fails. Rows are quoted, so with other names the
  same property holds in `text`.
* **`LongLinesRefused`**: `GUIDE.md:197` gives 8192 as the longest input of a file or
  a session, and `GUIDE.md:200-201` says that the program reports an error beyond. A
  file is refused (app.c:124); a line of a session is cut by `fgets` (app.c:226), and
  each part that is a program is executed. `WholeTextOnly` is about the parts: each
  is run whole or not at all.

Two more disagreements with the documents are in the models, without a run that shows
them. `GUIDE.md:55` promises the greatest id in the CSV plus one; a statement that is
refused after the allocation (`AllocateThenReject`, executor.c:390, 399) leaves a gap.
By `GUIDE.md:193` and 200-201 a schema of more than 16 columns is an error; `fgets` in
`load_table_schema` (schema.c:92) reads no more than the longest line of 16 columns,
and a 17th behind these is dropped. `SchemaFollowsText` is about the lines that fit.

Seen while modelling, and claimed otherwise nowhere in the repository: the offset in
the index is wrong if another process appends between `ftell` and `fclose` (storage.c:375,
392); a write that fails in `fclose` is reported as success; a file left empty by a
crash is accepted by every reader but refused by every INSERT (storage.c:262).

## The proofs

TLAPS checks these for every value of the constants that satisfies the `ASSUME`s of
the module: for `SqlTable` any set of processes, any range of ids around 0, any
length; for `SqlProgram` any input, tables, schemas, limits and width of int; for
`SqlText` any texts over any letters and digits, and any limits; for `BPlusTree` any
order from 3 on, any finite set of nodes and any keys.

| theorem | says | needs |
|---|---|---|
| `TreeTypeOK` | `[]TypeOK` of `BPlusTree`: no child is NULL, the root is allocated | - |
| `NodeArraysFit` | `[]Shapes`: no array of a node overflows, and keys, offsets and children belong together, at every step | - |
| `TreePassesNoNodeTwice` | `[]NoNodePassedTwice` | - |
| `TreeIsSearchTree` | `[]SearchTree`: after any failed allocation and at every step between, what is below the root is a B+ tree | - |
| `TreeEntriesStay` | `EntriesStay`: no step, and no failed allocation, loses an entry of the leaf chain | - |
| `TreeImplementsPkIndex` | `ImplementsPkIndex` | the parents of a split get their memory |
| `TreeAnswersReads` | `[]ReadsAnswer` | the same |
| `TreeHoldsNoKeyTwice` | `[]NoKeyTwice` | the same |
| `TypeCorrect` | `[]TypeOK` of `SqlTable`; in particular `next_id` never overflows | - |
| `IdsStayFresh` | `[]NextIdFresh` | - |
| `AutoIdsAccepted` | `[]AutoIdFree` | - |
| `AppendsKeepRows` | `OnlyCreationDropsRows` | - |
| `RowsStayInPlace` | `RowsStay` | the file exists at the start, opening it does not fail |
| `AloneFileReadable` | `[]FileStaysReadable` | one process, no fault but a crash, a readable file at the start |
| `AloneSuccessStored` | `[]SuccessMeansStored` | the same |
| `AloneSelectsAgree` | `[]SelectsAgree` | the same |
| `AloneImplementsKeyedTable` | `ImplementsKeyedTable` | the same |
| `ProgramTypeOK` | `[]TypeOK` of `SqlProgram`, with `Phase` | - |
| `ProgramTargetExists` | `[]TargetExists`, whatever an overflow gives | - |
| `ProgramFilesFollowAcks` | `[]FilesFollowAcks`, whatever opens fail | - |
| `ProgramFilesHoldAcks` | `[]FilesHoldAcks` | every file opens |
| `ProgramSlotsFollowFiles` | `[]SlotsFollowFiles`, whatever opens fail | - |
| `ProgramWholeTextOnly` | `[]WholeTextOnly` | - |
| `ProgramExitCodeTells` | `[]ExitCodeTells` | - |
| `ProgramSessionServesAll` | `[]SessionServesAll` | - |
| `TextLimitsHold` | `[]LimitsHold` | - |
| `TextTokensPlaced` | `TokensPlaced` | - |
| `TextGrammarDecides` | `[]GrammarDecides`: what `parse_program` accepts is the language, for any limits | - |
| `RowRead` | `parse_csv_line(write_csv_row(values)) = values` | at most `MAX_COLUMNS` values, each in its buffer, without a line end |
| `SchemaShape` | a schema that loads has 1 to `MAX_COLUMNS` columns of a known type; its names differ, fit, are not empty, are in lower case and have no comma, colon or line end | - |
| `TextSchemaFollowsText` | `[]SchemaFollowsText`; the columns spell lines shorter than `MAX_SCHEMA_LINE_LEN` | - |
| `TextRowsReadBack` | `[]RowsReadBack` | - |
| `TextSelectsAnswer` | `[]SelectsAnswer` | - |
| `TextOnlyBadStatementsFail` | `[]OnlyBadStatementsFail` | no column name has a quote in it |

`ParentsGetMemory`, the hypothesis of three theorems about the tree, is weaker than
"no allocation fails": the first leaf and the half of a leaf may be refused memory in
any pattern, and only the allocations after a leaf was divided must succeed. It is
true in every state of the instance of `tree`, so these theorems contain what that run
checks. They cannot do without it: `NoKeyTwice` is violated in `tree_twice`, where
the parents of a split may be refused too.

`NamesUnquoted`, the hypothesis of `TextOnlyBadStatementsFail`, is about the schema file
only: a column name in it has no double quote. The inputs of the run `text` satisfy it,
and the run `text_header`, whose schema file does not, shows that the property fails
without it.

The assumptions on characters say what `isalpha`, `isdigit`, `isspace` and `tolower` of
the C locale do: letters, digits and the rest are disjoint, and lowering twice is
lowering once (`CharactersAssumption`).

The inductive invariants:

* `TreeInv` = `TypeOK`, `Shapes`, what is known of the running call at each place
  (`CallShape`), that the path consists of internal nodes and ends at the root
  (`PathShape`), and `Leveled`. `NoNodePassedTwice` speaks of the path only, and a
  circle could come from any link in the heap. The depth of a node would exclude
  circles, but computing it takes a walk, and facts about a walk need induction.
  `Leveled` says instead that a number can be given to each node, one less to a child
  than to its parent and the same to both halves of a split; each step shows how the
  numbers of the next state come from those of this one. Nodes on the path then have
  numbers that grow by one, so they differ. This survives a failed allocation, because
  a half without a parent keeps its number.
* `SearchInv` = `TreeInv`, keys in order in every node (`KeysAscend`), halves that
  are full enough (`Filled`), no node in two places (`OneParent`), the path as a branch
  of the tree (`PathLinked`), and `KeysDivided`. `SearchTree` is about all keys under a
  child, which again takes a walk. `KeysDivided` says instead that a set of keys, `under`,
  can be given to each node that holds at least its own keys and the sets of its
  children, each between the separators beside it. On the way down the set of a node
  that is reached takes in the key to be inserted before the leaf has it, so that each
  step changes one node and the sets of its neighbours still fit; on the way up
  the promoted key divides the sets of the two halves. `OneParent` is needed because a
  node in a second place would be widened there too, and `PathLinked` because the half
  that waits goes beside the child the path came through. A half that never gets a
  parent is in no node's set, which is why memory running out costs reachability and
  not order. That the sets and the levels hold what `Subtree` and `Height` compute is
  proved at the end, by the node of least level where they would not.
* `SearchInv /\ ChainInv`, where `ChainInv` says that a sequence `chain` holds every
  leaf once in the order of the next pointers, and that each node can be given the leaf
  its first children lead to, which for the root is the first of `chain`. The walk
  `Chain` then holds exactly the entries of the leaves (`ChainStores`), and `EntriesStay`
  becomes a question about leaves: an insertion adds its own entry to those stored, a
  split moves them, and what fails changes no leaf. This is also the reason why the
  entries of a half without a parent stay: it is still on `chain`.
* `KnownInv` = `SearchInv`, `ChainInv`, `RangeInv` and `CallKnown`. An insertion is told
  "duplicate" by the one leaf it reaches, while the map of `PkIndex` is the whole chain;
  so no other leaf may hold the key. `SearchTree` does not say that, because it is about
  the leaves below the root only. `RangeInv` gives each node the keys that a search
  brings there, its range: every integer for the root, and for a child the part that
  the separators send to it. The ranges of the leaves follow one another along the
  chain, a leaf holds keys of its own range only, and the key of the running call is in
  the range of the node it has reached. A split divides a range in two; the second part
  belongs to the new half, which waits for its separator, and `RangeInv` says so. A half
  that never gets a parent would be on the chain without a range, which is where the
  hypothesis is used. `CallKnown` says what is still to be reported at each place: while
  a split goes up, the new entry is in the chain but not yet in the map, and no other
  entry has its key. The answers follow without another walk: the leaf a search
  reaches is the only one whose range has the key, and the chain from there on is in
  key order.
* `IdsInv` = `TypeOK` and, for each process, `NextIdFresh` and: an allocated id that
  is not checked yet came from a loaded state and is not in the index. Without
  "loaded" the step `LoadState` could bring the id in from the file.
* `FileInPlace` = the file exists, starts with the header, a last line without
  newline is not the first line, and no process is about to create the file.
  Without the third part the repair of a torn line could strike the header.
* `AloneInv` = the file is readable; where the state is loaded, the index is
  exactly what a rebuild would give (`FileEntries`), except for the one row between
  `Flush` and `IndexInsert`; and what the statement has learned on its way (the
  file is absent or empty, the id is free, the offset is the end) still holds. With
  two processes this last part is what fails. The refinement of `KeyedTable` uses it
  for the one step that matters, `Flush`: the key it stores was free when it was
  checked, and still is.
* `TypeOK /\ Phase` for `SqlProgram`: before the benchmark has built its files no
  table has been used and nothing was acknowledged; slots belong to keyed tables; a
  lookup about to be loaded exists. `FilesFollowAcks` and, while nothing fails,
  `FilesHoldAcks` are inductive together with it: `Build` overwrites a file, and `Phase`
  says that no slot and no acknowledged row is about it. `FilesFollowAcks` has a file as
  the end of a sequence (`IsTail`), which an appended row extends (`TailAndRow`) and an
  emptied file satisfies too.
* `SlotsInv` for `SlotsFollowFiles`: besides one slot for a table (`Apart`), its next id
  (`Ahead`) and its index (`Indexed`), it says that the file of a keyed table without a
  slot still holds all that was promised (`Unused`). Only an INSERT with a slot can empty
  such a file, so the file from which a slot is made is whole. Later the index is not
  that of the file any more, but that of the rows that were promised.
* `Course /\ TextInHand` for the front end of `SqlProgram`: each mode passes through its
  own places, and only a benchmark whose files are built goes on as a session; while a
  text is executed, the statements that ran and those that are left spell it, and in a
  file it is the whole input. The three properties of the exit and of the text look
  back at the beginning, which the state does not hold: these two say what is still
  known of it.
* `Shape` for `SqlText`: the tokens fit and, when complete, end with an eof; the
  parser has not gone past it; a name that is about to be read fits where the parser
  is; a statement under way still has room in the program. `LimitsHold` alone does
  not say where the parser is, and a limit is checked at one place and relied on at
  another. `TokensPlaced` needs `Located` besides: line and column are those of the
  place where the tokenizer is, counted from the text.
* `Shape /\ Course`. `GrammarDecides` compares a walk along the tokens with a description
  of each statement as a whole, and only when the walk is over. `Course` says what holds
  before: the statement being read begins behind the last semicolon that was taken
  (`OpenAt`), what is read of it is what its place says (`Described`: so many columns and
  values, each a token of its kind, a comma between two, the columns in their brackets),
  the statements before it are of the language, and there are as many of them as
  semicolons taken. One direction follows step by step: each token that is taken
  leads from what describes its place to what describes the next (`DescribedOn`), and
  at a semicolon what is described is a whole statement (`StatementSound`). The other
  needs that a text of the language is never refused: what is read is the beginning
  of a whole statement, whose columns end at one place only (`HeadOnce`, `FromOnce`),
  so that it has a next token and that token is legal (`InsertGoesOn`,
  `SelectGoesOn`, `LegalBefore`); a limit that would refuse it contradicts the limits
  in `IsProgramText`.
* `Shape /\ Ran` for the file of `SqlText`. `Ran` says that the schema is sound
  (`LoadedIsSound`), that the statements executed were all fit to be,
  that the file is the header and one written row for each INSERT among them, in order
  (`FileHolds`), and that execution stopped only before a statement that does not run.
  `RowsReadBack` then follows line by line from `RowRead`, once a row is known to hold
  only values that fit and have no line end, which `InsertFits` checked when the row was
  built. `OnlyBadStatementsFail` also needs that the header reads back as the schema
  says, which is what `NamesUnquoted` is for.
* `Shape /\ Ran /\ ConditionShape /\ SelectsAnswer`: what a SELECT printed cannot be
  recomputed later from the file, which has grown, so `SelectsAnswer` is its own
  invariant: at the step of the SELECT the rows of the file are those of the INSERTs so
  far, and the later steps change neither what was printed nor the INSERTs before it.
  `ConditionShape` says that a condition that was read has an operator, without which
  the code's comparison and the one of the property could differ.

`AppendRow` and `AppendKeepsRows` are the lemmas about the data file that the others
rest on; `IndexFinds` and `ScanFinds` evaluate the two kinds of SELECT; `StoredRow`,
`FailedRows` and `InsertedSlot` are their counterparts in `SqlProgram`; `Slice` and
`Inserted` are what the splits of the tree do to sequences.

Recursive definitions (`Tokens`, `Subtree`, `Height`, `parse_csv_line`, `Joined`) are
functions, and what they compute is shown in two steps: that a function with those equations exists, built from
sets (`StepByStep` for a walk along a sequence, `Reached` for the nodes below a node),
and that every such function has the property, because a smallest place where it
fails leads to a smaller one (`Smallest`, `UpTo`, `ByLevel`).

A line and the values on it are related one atom at a time. `ReadField` says
what `parse_csv_line` holds after the atoms of one value, quoted or not, and `LineRead`
what it holds after all of them; `EntriesJoined` does the same for a line of a schema. The
lemmas named `...Steps` turn the
recursive functions into the equations these use.

Every invariant and every action property of the passing runs is a theorem.
`ProgramFilesHoldAcks` is one that no run checks: the run `program` has opens that fail. Only
model-checked are `CommandEnds`, which is liveness under fairness and rests on `ENABLED`,
beyond the prover's reach, and what the six runs that end in a violation show, which is
that something does not hold.

## Not modelled

* `parse_arguments` (app.c:15-92): it looks at `argv` once, before anything else.
* Primary keys in `SqlText`: the ways through the index are in `SqlTable` and
  `SqlProgram`, which in turn know nothing of texts and values.
* Torn and lost writes in `SqlProgram` and `SqlText`: they are in `SqlTable`. Opens
  that fail are in `SqlTable` and `SqlProgram`.
* The wording of error messages and the columns they name (the places of the tokens
  they come from are checked, `TokensPlaced`); the layout of what SELECT prints; the
  rows a SELECT has printed before it meets one it cannot read.
* NUL bytes. One in a SQL file ends the text, and the rest is silently not executed
  (app.c:141).
* The benchmark's times and its redirection of stdout, the paths it composes, and
  `bench_index.c`, whose result is a time. With `record_count = INT_MAX` the loop
  over the rows would overflow its variable; that takes 50 GB of rows first.
* `bptree_destroy`, which frees a tree that nobody else reaches;
  `storage_find_max_int_value` and `storage_int_value_exists`, which nothing calls.
* The tests and the build.
