----------------------------- MODULE SqlProgram -----------------------------
(***************************************************************************)
(* One run of the sqlproc command: the front end of src/app.c that reads a *)
(* SQL file or a session of lines, execute_program with the table slots of *)
(* src/executor.c, and the benchmark mode of src/benchmark.c, which makes  *)
(* its own tables in a subdirectory and then goes on as a session.         *)
(*                                                                         *)
(* Abstractions: input is a sequence of pieces, each of which fills one    *)
(* place of a line buffer and is one token: a whole statement, a           *)
(* semicolon, a newline, an exit word, a number, or anything no program    *)
(* contains; a cut inside a statement leaves two texts that do not parse,  *)
(* as a cut before its semicolon does.  A data file is the sequence of the *)
(* ids of its rows.  Any fopen may fail, also the one that looks whether   *)
(* there is a data file, which is then created anew.  The steps inside one *)
(* statement, lost writes and other processes are the subject of SqlTable. *)
(***************************************************************************)
EXTENDS Integers, Sequences, FiniteSets

CONSTANTS
    IntMax,                \* INT_MAX
    Tables,                \* names of tables
    Schemas,               \* the tables of --schema-dir: "keyed" or "plain"
    Preloaded,             \* the rows of the files of both directories at the start
    Inputs,                \* mode and contents of the SQL file or of stdin
    MAX_SQL_SIZE,          \* size of the buffer for a file or a line
    BENCHMARK_INPUT_LEN,   \* size of the buffer for the answer to the prompt
    MAX_TOKENS, MAX_STATEMENTS, MAX_TABLE_STATES,
    Faults                 \* {"open fails"}, or nothing fails

Int_ == -IntMax - 1 .. IntMax
Dirs == {"own", "benchmark"}
Modes == {"file", "interactive", "benchmark"}
Verbs == {"insert", "insert auto", "insert short", "select key", "select", "refused"}

\* Pieces.  "insert short" leaves out the id and another column; "refused" is a
\* statement with an unknown column or a literal that does not fit its column.
Statement(verb, table, id) ==
    [kind |-> "statement", verb |-> verb, table |-> table, id |-> id]
Statements == [kind : {"statement"}, verb : Verbs, table : Tables, id : Int_]
Symbol(kind) == [kind |-> kind]
Semicolon == Symbol(";")
Newline == Symbol("newline")
Number(n) == [kind |-> "number", n |-> n]
Pieces == Statements \cup {Symbol(k) : k \in {";", "newline", "exit", "other"}}
             \cup [kind : {"number"}, n : Nat]

ASSUME IntMaxAssumption == IntMax \in Nat \ {0}
ASSUME TablesAssumption == "users" \in Tables
ASSUME SchemasAssumption ==
    DOMAIN Schemas \subseteq Tables /\ \A t \in DOMAIN Schemas : Schemas[t] \in {"keyed", "plain"}
ASSUME PreloadedAssumption ==
    Preloaded \in [Dirs -> [Tables -> Seq(Int_)]]
ASSUME InputsAssumption ==
    \A input \in Inputs : input.mode \in Modes /\ input.pieces \in Seq(Pieces)
ASSUME LimitsAssumption ==
    /\ MAX_SQL_SIZE \in Nat \ {0, 1} /\ BENCHMARK_INPUT_LEN \in Nat \ {0, 1}
    /\ MAX_TOKENS \in Nat /\ MAX_STATEMENTS \in Nat /\ MAX_TABLE_STATES \in Nat
ASSUME FaultsAssumption == Faults \subseteq {"open fails"}

VARIABLES
    mode,            \* which of the three ways the command was started
    pc,              \* where the program is
    dir,             \* the directories of the AppConfig in use
    input,           \* the SQL file, or what is left of stdin
    text,            \* the SQL text that was read last
    program, ran,    \* its statements not yet and already executed
    files,           \* the data files, per directory and table
    table_states,    \* the slots in use, in order
    acked,           \* history: the ids of the INSERTs that succeeded, per file
    lookups,         \* the SQL files the benchmark still has to run
    record_count, target_id,
    exit_code

front == <<mode, input, text, exit_code>>
bench == <<lookups, record_count, target_id>>
data == <<files, table_states, acked>>
vars == <<mode, pc, dir, input, text, program, ran, files, table_states, acked,
          lookups, record_count, target_id, exit_code>>

-----------------------------------------------------------------------------
(* The front end. *)

\* What fgets takes for a buffer of the given size: up to and with a newline, or
\* as much as fits.
Taken(size) ==
    CHOOSE n \in 1 .. Len(input) :
        /\ n = Len(input) \/ n = size - 1 \/ input[n].kind = "newline"
        /\ \A m \in 1 .. n - 1 : m # size - 1 /\ input[m].kind # "newline"
Line(size) ==     \* trim_line_end
    IF input[Taken(size)] = Newline THEN SubSeq(input, 1, Taken(size) - 1)
    ELSE SubSeq(input, 1, Taken(size))
Rest(size) == SubSeq(input, Taken(size) + 1, Len(input))

Exit(code) ==
    /\ pc' = "exited"
    /\ exit_code' = code

\* A text from a file decides how the command ends; a line is followed by the next.
FromFile == mode = "file" \/ dir = "benchmark"

\* Slips: an error does not show in the exit code; it ends the session.
AlwaysSuccess(ok) == 0
OnceRefused(ok) == ~ok

ExitCode(ok) == IF ok THEN 0 ELSE 1
EndsSession(ok) == FALSE

After(ok) ==
    \/ /\ IF FromFile THEN ~ok \/ mode = "file" ELSE EndsSession(ok)
       /\ Exit(ExitCode(ok))
       /\ UNCHANGED dir
    \/ /\ dir = "benchmark" /\ ok
       /\ IF lookups = <<>> THEN pc' = "prompt" /\ dir' = "own"
                            ELSE pc' = "load" /\ UNCHANGED dir
       /\ UNCHANGED exit_code
    \/ /\ ~FromFile /\ ~EndsSession(ok)
       /\ pc' = "prompt"
       /\ UNCHANGED <<dir, exit_code>>

\* Slip: a file that fills the buffer is not probed for more.
FitsOrIsCut(s) == TRUE

\* load_sql_file: a file that is too big for the buffer is refused.
Fits(s) == Len(s) < MAX_SQL_SIZE
Buffered(s) == IF Len(s) < MAX_SQL_SIZE THEN s ELSE SubSeq(s, 1, MAX_SQL_SIZE - 1)
SqlFile == IF dir = "benchmark" THEN Head(lookups) ELSE input
Remaining == IF dir = "benchmark" THEN Tail(lookups) ELSE lookups

LoadFile ==
    /\ pc = "load"
    /\ Fits(SqlFile)
    /\ text' = Buffered(SqlFile)
    /\ lookups' = Remaining
    /\ pc' = "parse"
    /\ program' = <<>> /\ ran' = <<>>
    /\ UNCHANGED <<mode, dir, input, data, record_count, target_id, exit_code>>

LoadFileFails ==
    /\ pc = "load"
    /\ ~Fits(SqlFile) \/ "open fails" \in Faults
    /\ Exit(1)
    /\ UNCHANGED <<mode, dir, input, text, program, ran, data, bench>>

\* run_interactive_program
ReadLine ==
    /\ pc = "prompt"
    /\ input # <<>>
    /\ Line(MAX_SQL_SIZE) # <<Symbol("exit")>>
    /\ text' = Line(MAX_SQL_SIZE)
    /\ input' = Rest(MAX_SQL_SIZE)
    /\ pc' = IF text' = <<>> THEN "prompt" ELSE "parse"
    /\ program' = <<>> /\ ran' = <<>>
    /\ UNCHANGED <<mode, dir, data, bench, exit_code>>

ReadExit ==
    /\ pc = "prompt"
    /\ input # <<>>
    /\ Line(MAX_SQL_SIZE) = <<Symbol("exit")>>
    /\ text' = Line(MAX_SQL_SIZE)
    /\ input' = Rest(MAX_SQL_SIZE)
    /\ program' = <<>> /\ ran' = <<>>
    /\ Exit(0)
    /\ UNCHANGED <<mode, dir, data, bench>>

EndOfInput ==
    /\ pc = "prompt"
    /\ input = <<>>
    /\ Exit(0)
    /\ UNCHANGED <<mode, dir, input, text, program, ran, data, bench>>

\* A text without its newlines.
Tokens(s) ==
    LET kept[n \in 0 .. Len(s)] ==
            IF n = 0 THEN <<>>
            ELSE IF s[n] = Newline THEN kept[n - 1] ELSE Append(kept[n - 1], s[n])
    IN  kept[Len(s)]

\* Slip: what follows the statements is not looked at.
StartsWithStatements(s, n) ==
    /\ 2 * n <= Len(Tokens(s))
    /\ \A i \in 1 .. n : Tokens(s)[2 * i - 1] \in Statements /\ Tokens(s)[2 * i] = Semicolon

\* The text is n statements, each with its semicolon, and nothing else; the token
\* at the end of the text counts.
IsProgram(s, n) ==
    /\ Len(Tokens(s)) = 2 * n /\ 2 * n < MAX_TOKENS
    /\ \A i \in 1 .. n : Tokens(s)[2 * i - 1] \in Statements /\ Tokens(s)[2 * i] = Semicolon

\* tokenize_sql and parse_program: all the statements of a text, or none; no
\* statement at all is an error.
parse_program(s) ==
    IF \E n \in 1 .. MAX_STATEMENTS : IsProgram(s, n)
    THEN [i \in 1 .. (CHOOSE n \in 1 .. MAX_STATEMENTS : IsProgram(s, n)) |-> Tokens(s)[2 * i - 1]]
    ELSE <<>>

Parse ==
    /\ pc = "parse"
    /\ program' = parse_program(text)
    /\ IF program' # <<>> THEN pc' = "run" /\ UNCHANGED <<dir, exit_code>> ELSE After(FALSE)
    /\ UNCHANGED <<mode, input, text, ran, data, bench>>

-----------------------------------------------------------------------------
(* execute_program.  The statement that runs is st, on table t. *)

st == Head(program)
t == st.table
DirSchemas == IF dir = "own" THEN Schemas ELSE [table \in {"users"} |-> "keyed"]
Known == t \in DOMAIN DirSchemas
Keyed == Known /\ DirSchemas[t] = "keyed"

Succeed ==
    /\ program' = Tail(program)
    /\ ran' = Append(ran, st)
    /\ IF Len(program) = 1 THEN After(TRUE) ELSE UNCHANGED <<pc, dir, exit_code>>
    /\ UNCHANGED <<mode, input, text, bench>>

\* A statement fails: those after it are given up, those before it stay.
GiveUp ==
    /\ After(FALSE)
    /\ UNCHANGED <<mode, input, text, program, ran, bench>>

FailStatement ==
    /\ GiveUp
    /\ UNCHANGED <<files, acked>>

\* Slip: the directories are not compared.
FindByName(d, table) == {i \in DOMAIN table_states : table_states[i].table = table}

find_table_state(d, table) ==
    {i \in DOMAIN table_states : table_states[i].dir = d /\ table_states[i].table = table}

Slots == find_table_state(dir, t)
NeedsSlot == Keyed /\ st.verb \in {"insert", "insert auto", "insert short", "select key"}

Rows(d, table) == {files[d][table][i] : i \in DOMAIN files[d][table]}
IsMaxId(m) ==
    IF Rows(dir, t) = {} THEN m = 0
    ELSE m \in Rows(dir, t) /\ \A k \in Rows(dir, t) : k <= m

\* Slip: nobody counts the slots.
AlwaysRoom(n) == TRUE
HasRoom(n) == n < MAX_TABLE_STATES

\* storage_rebuild_pk_index refuses a file with an id twice.
Readable ==
    \A i, j \in DOMAIN files[dir][t] : files[dir][t][i] = files[dir][t][j] => i = j

\* get_table_state_index, create_table_state: the file is read first.
LoadState ==
    /\ pc = "run" /\ NeedsSlot /\ Slots = {}
    /\ Readable /\ HasRoom(Len(table_states))
    /\ \E max_id \in Rows(dir, t) \cup {0} :
         /\ IsMaxId(max_id)
         /\ max_id # IntMax
         /\ table_states' = Append(table_states,
                [dir |-> dir, table |-> t, next_id |-> max_id + 1, pk_index |-> Rows(dir, t)])
    /\ UNCHANGED <<front, pc, dir, program, ran, files, acked, bench>>

LoadStateFails ==
    /\ pc = "run" /\ NeedsSlot /\ Slots = {}
    /\ ~Readable \/ ~HasRoom(Len(table_states)) \/ IsMaxId(IntMax) \/ "open fails" \in Faults
    /\ FailStatement
    /\ UNCHANGED table_states

NextIdAfter(k, next) == IF k # IntMax /\ next <= k THEN k + 1 ELSE next

\* ensure_data_file: whatever the reason that a file cannot be opened with "rb", it
\* is opened with "wb", which leaves its header.
Recreations == IF "open fails" \in Faults THEN BOOLEAN ELSE {FALSE}

\* storage_append_row
Appended(recreated, rows) ==
    files' = [files EXCEPT ![dir][t] = (IF recreated THEN <<>> ELSE @) \o rows]

Stored(k) ==
    /\ \E recreated \in Recreations : Appended(recreated, <<k>>)
    /\ acked' = [acked EXCEPT ![dir][t] = Append(@, k)]

\* The file cannot be opened with "wb" or, perhaps after that, not with "a+b".
AppendFails ==
    /\ "open fails" \in Faults
    /\ \E recreated \in Recreations : Appended(recreated, <<>>)
    /\ GiveUp
    /\ UNCHANGED acked

\* allocate_next_primary_key, or the id of the statement.
NewId(i) == IF st.verb = "insert" THEN st.id ELSE table_states[i].next_id
Allocated(i) ==
    IF st.verb # "insert" /\ table_states[i].next_id # IntMax
    THEN [table_states EXCEPT ![i].next_id = @ + 1] ELSE table_states
IdIsFree(i) ==
    /\ st.verb = "insert auto" => table_states[i].next_id # IntMax
    /\ NewId(i) \notin table_states[i].pk_index

InsertKeyed ==
    /\ pc = "run" /\ Keyed /\ st.verb \in {"insert", "insert auto"}
    /\ \E i \in Slots :
         /\ IdIsFree(i)
         /\ Stored(NewId(i))
         /\ table_states' = [table_states EXCEPT
                ![i].pk_index = @ \cup {NewId(i)},
                ![i].next_id = NextIdAfter(NewId(i), @)]
    /\ Succeed

InsertPlain ==
    /\ pc = "run" /\ Known /\ ~Keyed /\ st.verb = "insert"
    /\ Stored(st.id)
    /\ Succeed
    /\ UNCHANGED table_states

InsertPlainFails ==
    /\ pc = "run" /\ Known /\ ~Keyed /\ st.verb = "insert"
    /\ AppendFails
    /\ UNCHANGED table_states

\* Slip: the row is written before it is looked for.
RefuseAfterAppend(i) ==
    /\ ~IdIsFree(i)
    /\ Appended(FALSE, <<NewId(i)>>)
    /\ GiveUp
    /\ UNCHANGED acked

\* No id is left, or the id is taken.
RefuseTaken(i) == ~IdIsFree(i) /\ FailStatement

RefuseInsert ==
    /\ pc = "run" /\ Keyed
    /\ \E i \in Slots :
         /\ \/ st.verb \in {"insert", "insert auto"} /\ RefuseTaken(i)
            \/ st.verb = "insert short" /\ FailStatement
            \/ st.verb \in {"insert", "insert auto"} /\ IdIsFree(i) /\ AppendFails
         /\ table_states' = Allocated(i)

Select ==
    /\ pc = "run" /\ Known
    /\ \/ st.verb = "select key" /\ (Keyed => Slots # {})
       \/ st.verb = "select"
    /\ Succeed
    /\ UNCHANGED data

\* The schema or, for a SELECT, the data file cannot be read, or the statement does
\* not fit the schema.
Refuse ==
    /\ pc = "run"
    /\ \/ ~Known \/ st.verb = "refused"
       \/ ~Keyed /\ st.verb \in {"insert auto", "insert short"}
       \/ "open fails" \in Faults
    /\ FailStatement
    /\ UNCHANGED table_states

-----------------------------------------------------------------------------
(* The benchmark. *)

\* prompt_record_count: asks again until a line is a positive int.
Count(line) == IF Len(line) = 1 /\ line[1].kind = "number" THEN line[1].n ELSE 0
Answer == Count(Line(BENCHMARK_INPUT_LEN))
IsAnswer == Answer \in 1 .. IntMax

ReadCount ==
    /\ pc = "count"
    /\ input # <<>>
    /\ IF IsAnswer THEN pc' = "build" /\ record_count' = Answer
                   ELSE UNCHANGED <<pc, record_count>>
    /\ input' = Rest(BENCHMARK_INPUT_LEN)
    /\ UNCHANGED <<mode, dir, text, program, ran, data, lookups, target_id, exit_code>>

\* Slip: the end of the input is one more wrong answer.
CountAskedAgain == pc = "count" /\ input = <<>> /\ UNCHANGED vars

CountEndOfInput ==
    /\ pc = "count"
    /\ input = <<>>
    /\ Exit(1)
    /\ UNCHANGED <<mode, dir, input, text, program, ran, data, bench>>

\* record_count * 9: what an int holds after an overflow is not defined.
Products(n) == IF n * 9 <= IntMax THEN {n * 9} ELSE Int_

\* Slip: one record has no ninth tenth.
NineTenths(product) == product \div 10

Target(product) == IF product \div 10 <= 0 THEN 1 ELSE product \div 10

Lookup(verb, id) == <<Statement(verb, "users", id), Semicolon, Newline>>

\* prepare_benchmark_workspace, build_benchmark_files: the files are overwritten;
\* the lookups are by key (cold, then warm) and by name.
Build ==
    /\ pc = "build"
    /\ files' = [files EXCEPT !["benchmark"]["users"] = [i \in 1 .. record_count |-> i]]
    /\ target_id' \in {Target(product) : product \in Products(record_count)}
    /\ lookups' = <<Lookup("select key", target_id'), Lookup("select key", target_id'),
                    Lookup("select", target_id')>>
    /\ dir' = "benchmark"
    /\ pc' = "load"
    /\ UNCHANGED <<front, program, ran, table_states, acked, record_count>>

BuildFails ==
    /\ pc = "build"
    /\ "open fails" \in Faults
    /\ \/ UNCHANGED files
       \/ files' = [files EXCEPT !["benchmark"]["users"] = [i \in 1 .. record_count |-> i]]
    /\ Exit(1)
    /\ UNCHANGED <<mode, dir, input, text, program, ran, table_states, acked, bench>>

-----------------------------------------------------------------------------
Init ==
    /\ \E i \in Inputs : mode = i.mode /\ input = i.pieces
    /\ pc = CASE mode = "file" -> "load"
              [] mode = "interactive" -> "prompt"
              [] mode = "benchmark" -> "count"
    /\ dir = "own"
    /\ text = <<>> /\ program = <<>> /\ ran = <<>>
    /\ files = Preloaded
    /\ table_states = <<>>
    /\ acked = [d \in Dirs |-> [table \in Tables |-> <<>>]]
    /\ lookups = <<>> /\ record_count = 0 /\ target_id = 0
    /\ exit_code = 0

Next ==
    \/ LoadFile \/ LoadFileFails \/ ReadLine \/ ReadExit \/ EndOfInput \/ Parse
    \/ LoadState \/ LoadStateFails \/ InsertKeyed \/ InsertPlain \/ InsertPlainFails
    \/ RefuseInsert \/ Select \/ Refuse
    \/ ReadCount \/ CountEndOfInput \/ Build \/ BuildFails

Spec == Init /\ [][Next]_vars

\* One sequential program, whose reads and writes return.
FairSpec == Spec /\ WF_vars(Next)

-----------------------------------------------------------------------------
(* Properties. *)

\* Every variable keeps its shape; next_id never leaves the range of int, and no
\* more slots are in use than table_states has.
TypeOK ==
    /\ mode \in Modes
    /\ pc \in {"load", "prompt", "parse", "run", "count", "build", "exited"}
    /\ dir \in Dirs
    /\ input \in Seq(Pieces) /\ text \in Seq(Pieces)
    /\ program \in Seq(Statements) /\ ran \in Seq(Statements)
    /\ files \in [Dirs -> [Tables -> Seq(Int_)]]
    /\ table_states \in Seq([dir : Dirs, table : Tables, next_id : Int_, pk_index : SUBSET Int_])
    /\ Len(table_states) <= MAX_TABLE_STATES
    /\ acked \in [Dirs -> [Tables -> Seq(Int_)]]
    /\ lookups \in Seq(Seq(Pieces))
    /\ record_count \in 0 .. IntMax /\ target_id \in 0 .. IntMax
    /\ exit_code \in {0, 1}
    /\ pc = "run" => program # <<>>

\* The rows that a table of the program has at the start of its SQL.
Base(d, table) ==
    IF d = "benchmark" /\ table = "users" THEN [i \in 1 .. record_count |-> i]
    ELSE Preloaded[d][table]

\* The rows that the program has told its user a table has.
Promised(d, table) == Base(d, table) \o acked[d][table]

\* The file of the benchmark counts from when the benchmark has written it.
IsMade(d, table) == d = "own" \/ table # "users" \/ target_id # 0

\* While every file opens, a data file holds what it held at the start and the row
\* of every INSERT that succeeded, in order, in the directory of its config:
\* nothing of a refused statement, of one after a failure (execute_program), or of
\* the benchmark in the user's own tables.
FilesHoldAcks ==
    \A d \in Dirs, table \in Tables :
        IsMade(d, table) => files[d][table] = Promised(d, table)

\* Also when any file fails to open, a data file holds the last of those rows and
\* nothing else: ensure_data_file (storage.c:260, 297) may drop rows from its front,
\* those before an INSERT that succeeds or fails, but never one that comes after,
\* and no statement that fails leaves a row of its own.
FilesFollowAcks ==
    \A d \in Dirs, table \in Tables :
        IsMade(d, table) =>
            \E n \in 0 .. Len(Promised(d, table)) :
                files[d][table] =
                    SubSeq(Promised(d, table), n + 1, Len(Promised(d, table)))

\* However many tables and directories share the slots, there is one slot for a
\* table (find_table_state); its index has the ids of all rows the table was
\* promised, no others, and so those of every row its own file still holds, which
\* may be fewer (ensure_data_file); and the next automatic id was never used.
Ids(rows) == {rows[i] : i \in DOMAIN rows}
SlotsFollowFiles ==
    \A i \in DOMAIN table_states :
        LET slot == table_states[i] IN
        /\ \A j \in DOMAIN table_states :
             slot.dir = table_states[j].dir /\ slot.table = table_states[j].table => i = j
        /\ slot.pk_index = Ids(Promised(slot.dir, slot.table))
        /\ Rows(slot.dir, slot.table) \subseteq slot.pk_index
        /\ \A k \in slot.pk_index : k < slot.next_id \/ k = IntMax

\* run_sql_text runs no statement of a text that is not a program from end to end,
\* run_sql_file none of a file that was not read whole (app.c:114-130), and the
\* statements run in their order, each once.  A line that is too long for its
\* buffer is two texts, each a program or not (LongLinesRefused).
Spelling(s) == [i \in 1 .. 2 * Len(s) |-> IF i % 2 = 0 THEN Semicolon ELSE s[(i + 1) \div 2]]
WholeTextOnly ==
    ran # <<>> =>
        /\ Tokens(text) = Spelling(ran \o program)
        /\ mode = "file" => text = input

\* "The longest input of a file or of a session" is MAX_SQL_SIZE, and "beyond these
\* values the program reports an error" (GUIDE.md:197, 200-201): nothing of a line
\* that does not fit its buffer is run (fgets in run_interactive_program).
LineIsCut ==
    /\ Len(input) >= MAX_SQL_SIZE
    /\ \A n \in 1 .. MAX_SQL_SIZE : input[n] # Newline
LongLinesRefused == [][pc = "prompt" /\ LineIsCut => parse_program(text') = <<>>]_vars

\* The exit code of a file is 0 exactly when every statement of it succeeded, that
\* of a benchmark exactly when its lookups did (run_program, main).
ExitCodeTells ==
    pc = "exited" =>
        CASE mode = "file" -> exit_code = 0 <=>
               (ran # <<>> /\ Tokens(input) = Spelling(ran))
          [] mode = "benchmark" -> exit_code = 0 <=> (target_id # 0 /\ dir = "own")
          [] mode = "interactive" -> exit_code = 0

\* A session, also one after a benchmark, ends with its input or with an exit line
\* and not with a statement that fails (run_interactive_program).
SessionServesAll ==
    (pc = "exited" /\ dir = "own" /\ (mode = "interactive" \/ target_id # 0)) =>
        input = <<>> \/ text = <<Symbol("exit")>>

\* The benchmark looks for a row it has generated, also when record_count * 9
\* overflows (benchmark.c:299-302).
TargetExists == target_id # 0 => target_id \in 1 .. record_count

\* Whatever the input, the command ends (prompt_record_count, run_interactive_program).
CommandEnds == <>(pc = "exited")
=============================================================================
