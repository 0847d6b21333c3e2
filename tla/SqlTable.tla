------------------------------ MODULE SqlTable ------------------------------
(***************************************************************************)
(* One table with a primary key, as src/executor.c and src/storage.c keep  *)
(* it: a CSV data file that only grows, and in every process that uses the *)
(* table a TableRuntimeState with the next automatic id and the index from *)
(* id to row offset, rebuilt from the file at the first use and then       *)
(* trusted.  Processes (sqlproc commands on one data directory) share only *)
(* the file; an INSERT is cut into steps where it reads or writes it.      *)
(*                                                                         *)
(* Abstractions: the other columns of a row are left out (there is at      *)
(* least one after the id, so a torn row never shows another id); an       *)
(* offset is the number of the line that starts there, which tells apart   *)
(* the same rows as the byte offset while no file is truncated; the index  *)
(* is the map that PkIndex specifies.  Statements that are refused before  *)
(* they touch the state (unknown table or column, wrong type, literal out  *)
(* of range) change nothing and are left out.                              *)
(***************************************************************************)
EXTENDS Integers, Sequences, FiniteSets

CONSTANTS
    Procs,           \* the processes that use the data directory
    IntMin, IntMax,  \* INT_MIN and INT_MAX
    ExplicitIds,     \* the ids that INSERT statements name
    Preloaded,       \* the lines of the data file at the start, <<>> if absent
    MaxLines,        \* bound: no INSERT starts on a longer file
    Faults           \* what can go wrong outside the program

Header == [kind |-> "header", id |-> 0]
Bad == [kind |-> "bad", id |-> 0]        \* a line no reader accepts
Row(k) == [kind |-> "row", id |-> k]

Ids == IntMin .. IntMax
Lines == {Header, Bad} \cup {Row(k) : k \in Ids}

ASSUME IntAssumption == IntMin \in Int /\ IntMax \in Int /\ IntMin < 0 /\ 0 < IntMax
ASSUME ExplicitIdsAssumption == ExplicitIds \subseteq Ids
ASSUME PreloadedAssumption ==
    Preloaded \in Seq(Lines) /\ (Preloaded # <<>> => Preloaded[1] = Header)
ASSUME MaxLinesAssumption == MaxLines \in Nat
ASSUME FaultsAssumption == Faults \subseteq {"open fails", "disk full", "no memory", "crash"}

VARIABLES
    exists,          \* the data file exists
    lines,           \* its lines
    open_end,        \* its last line has no newline
    loaded,          \* per process: table_states has a slot for the table
    next_id,         \* table_states[].next_id
    index,           \* table_states[].pk_index, as <<id, offset>> pairs
    pc,              \* the step at which the running statement is
    id, auto,        \* primary_key_value, and whether it was allocated
    newline,         \* the append starts with a newline of its own
    row_offset,      \* where the new row will be found
    result           \* the outcome of the last INSERT

file == <<exists, lines, open_end>>
state == <<loaded, next_id, index>>
local == <<pc, id, auto, newline, row_offset, result>>
vars == <<exists, lines, open_end, loaded, next_id, index,
          pc, id, auto, newline, row_offset, result>>

-----------------------------------------------------------------------------
(* The table's runtime state. *)

RowLines == {i \in DOMAIN lines : lines[i].kind = "row"}
FileIds == {lines[i].id : i \in RowLines}

\* What storage_rebuild_pk_index accepts: no file, an empty one, or a header
\* followed by rows with distinct ids.
Readable ==
    lines # <<>> =>
        /\ lines[1] = Header
        /\ \A i \in DOMAIN lines : i > 1 => lines[i].kind = "row"
        /\ \A i, j \in RowLines : lines[i].id = lines[j].id => i = j

\* Slip: the id of the last row.
IsLastId(m) == IF FileIds = {} THEN m = 0 ELSE lines[Len(lines)] = Row(m)

\* *max_value after the scan: 0 without rows, otherwise the greatest id.
IsMaxId(m) ==
    IF FileIds = {} THEN m = 0 ELSE m \in FileIds /\ \A k \in FileIds : k <= m

IndexedIds(p) == {entry[1] : entry \in index[p]}

\* The statement returns 0; its locals are dead.
Fail(p) ==
    /\ pc' = [pc EXCEPT ![p] = "idle"]
    /\ id' = [id EXCEPT ![p] = 0]
    /\ auto' = [auto EXCEPT ![p] = FALSE]
    /\ newline' = [newline EXCEPT ![p] = FALSE]
    /\ row_offset' = [row_offset EXCEPT ![p] = 0]
    /\ result' = [result EXCEPT ![p] = "error"]

Goto(p, step) ==
    /\ pc' = [pc EXCEPT ![p] = step]
    /\ UNCHANGED <<id, auto, newline, row_offset, result>>

NeedsState(p) == pc[p] \in {"select", "allocate", "unique"} /\ ~loaded[p]

\* create_table_state: the first statement that needs the state loads it.
LoadState(p) ==
    /\ NeedsState(p)
    /\ Readable
    /\ \E max_id \in FileIds \cup {0} :
         /\ IsMaxId(max_id)
         /\ max_id # IntMax
         /\ next_id' = [next_id EXCEPT ![p] = max_id + 1]
    /\ index' = [index EXCEPT ![p] = {<<lines[i].id, i>> : i \in RowLines}]
    /\ loaded' = [loaded EXCEPT ![p] = TRUE]
    /\ IF pc[p] = "select" THEN Goto(p, "idle") ELSE UNCHANGED local
    /\ UNCHANGED file

LoadStateFails(p) ==
    /\ NeedsState(p)
    /\ \/ ~Readable
       \/ IsMaxId(IntMax)
       \/ exists /\ "open fails" \in Faults
       \/ "no memory" \in Faults
    /\ Fail(p)
    /\ UNCHANGED <<file, state>>

-----------------------------------------------------------------------------
(* Statements: SELECT ... WHERE id <op> k, and INSERT with or without an id.   *)

SelectByKey(p) ==
    /\ pc[p] = "idle"
    /\ ~loaded[p]
    /\ Goto(p, "select")
    /\ UNCHANGED <<file, state>>

InsertExplicit(p, k) ==
    /\ pc[p] = "idle"
    /\ Len(lines) < MaxLines
    /\ pc' = [pc EXCEPT ![p] = "unique"]
    /\ id' = [id EXCEPT ![p] = k]
    /\ auto' = [auto EXCEPT ![p] = FALSE]
    /\ row_offset' = [row_offset EXCEPT ![p] = 0]
    /\ result' = [result EXCEPT ![p] = "running"]
    /\ UNCHANGED <<file, state, newline>>

InsertAuto(p) ==
    /\ pc[p] = "idle"
    /\ Len(lines) < MaxLines
    /\ pc' = [pc EXCEPT ![p] = "allocate"]
    /\ id' = [id EXCEPT ![p] = 0]
    /\ auto' = [auto EXCEPT ![p] = TRUE]
    /\ row_offset' = [row_offset EXCEPT ![p] = 0]
    /\ result' = [result EXCEPT ![p] = "running"]
    /\ UNCHANGED <<file, state, newline>>

\* allocate_next_primary_key: the id is taken at once ...
Allocate(p) ==
    /\ pc[p] = "allocate"
    /\ loaded[p]
    /\ next_id[p] # IntMax
    /\ id' = [id EXCEPT ![p] = next_id[p]]
    /\ next_id' = [next_id EXCEPT ![p] = @ + 1]
    /\ pc' = [pc EXCEPT ![p] = "unique"]
    /\ UNCHANGED <<file, loaded, index, auto, newline, row_offset, result>>

\* ... and is gone when build_insert_row_values misses a later column.
AllocateThenReject(p) ==
    /\ pc[p] = "allocate"
    /\ loaded[p]
    /\ next_id[p] # IntMax
    /\ next_id' = [next_id EXCEPT ![p] = @ + 1]
    /\ Fail(p)
    /\ UNCHANGED <<file, loaded, index>>

AllocateFails(p) ==
    /\ pc[p] = "allocate"
    /\ loaded[p]
    /\ next_id[p] = IntMax
    /\ Fail(p)
    /\ UNCHANGED <<file, state>>

\* Slip: an id that was not passed yet is not looked up.
KnownBelowNext(p) == id[p] < next_id[p] /\ id[p] \in IndexedIds(p)

\* validate_primary_key_unique asks the cached index only.
KnownDuplicate(p) == id[p] \in IndexedIds(p)

CheckUnique(p) ==
    /\ pc[p] = "unique"
    /\ loaded[p]
    /\ ~KnownDuplicate(p)
    /\ Goto(p, "ensure")
    /\ UNCHANGED <<file, state>>

RefuseDuplicate(p) ==
    /\ pc[p] = "unique"
    /\ loaded[p]
    /\ KnownDuplicate(p)
    /\ Fail(p)
    /\ UNCHANGED <<file, state>>

-----------------------------------------------------------------------------
(* storage_append_row. *)

HasHeader == lines # <<>> /\ lines[1] = Header

\* ensure_data_file finds a file with the right header.
EnsureExisting(p) ==
    /\ pc[p] = "ensure"
    /\ exists /\ HasHeader
    /\ Goto(p, "append")
    /\ UNCHANGED <<file, state>>

EnsureBadHeader(p) ==
    /\ pc[p] = "ensure"
    /\ exists /\ ~HasHeader
    /\ Fail(p)
    /\ UNCHANGED <<file, state>>

\* fopen "rb" failed: for whatever reason, the file will be created.
EnsureAbsent(p) ==
    /\ pc[p] = "ensure"
    /\ ~exists \/ "open fails" \in Faults
    /\ Goto(p, "create")
    /\ UNCHANGED <<file, state>>

\* fopen "wb" creates or truncates.
Create(p) ==
    /\ pc[p] = "create"
    /\ exists' = TRUE /\ lines' = <<>> /\ open_end' = FALSE
    /\ Goto(p, "header")
    /\ UNCHANGED state

CreateFails(p) ==
    /\ pc[p] = "create"
    /\ "open fails" \in Faults
    /\ Fail(p)
    /\ UNCHANGED <<file, state>>

\* The header goes to the start of the file, whatever is there by now.
WriteHeader(p) ==
    /\ pc[p] = "header"
    /\ lines' = IF lines = <<>> THEN <<Header>> ELSE [lines EXCEPT ![1] = Header]
    /\ open_end' = (open_end /\ Len(lines) > 1)
    /\ Goto(p, "append")
    /\ UNCHANGED <<exists, state>>

\* The result of fclose is not looked at.
HeaderLost(p) ==
    /\ pc[p] = "header"
    /\ "disk full" \in Faults
    /\ Goto(p, "append")
    /\ UNCHANGED <<file, state>>

\* Slip: the start of the last line.
LastLine == Len(lines)
AppendOffset == Len(lines) + 1

\* fopen "a+b", ensure_append_starts_on_new_line, ftell.
OpenAppend(p) ==
    /\ pc[p] = "append"
    /\ newline' = [newline EXCEPT ![p] = open_end]
    /\ row_offset' = [row_offset EXCEPT ![p] = AppendOffset]
    /\ pc' = [pc EXCEPT ![p] = "flush"]
    /\ UNCHANGED <<file, state, id, auto, result>>

OpenAppendFails(p) ==
    /\ pc[p] = "append"
    /\ "open fails" \in Faults
    /\ Fail(p)
    /\ UNCHANGED <<file, state>>

\* Slip: the row is written over the last row.
Overwritten(p, line) ==
    IF Len(lines) < 2 THEN Append(lines, line) ELSE [lines EXCEPT ![Len(lines)] = line]

\* The lines after the buffered text of p, with the given line, lands at the end:
\* its own newline may by now be one too few (the line is glued to the last one)
\* or one too many (an empty line comes first).
Appended(p, line) ==
    IF open_end /\ ~newline[p] THEN [lines EXCEPT ![Len(lines)] = Bad]
    ELSE IF newline[p] /\ ~open_end THEN lines \o <<Bad, line>>
    ELSE Append(lines, line)

\* fclose writes the buffered row.
Flush(p) ==
    /\ pc[p] = "flush"
    /\ lines' = Appended(p, Row(id[p]))
    /\ open_end' = FALSE
    /\ Goto(p, "index")
    /\ UNCHANGED <<exists, state>>

\* On a full disk nothing, only the newline, or a part of the row is written;
\* the result of fclose is not looked at.
FlushShort(p) ==
    /\ pc[p] = "flush"
    /\ "disk full" \in Faults
    /\ \/ UNCHANGED <<lines, open_end>>
       \/ /\ newline[p] /\ open_end
          /\ open_end' = FALSE
          /\ UNCHANGED lines
       \/ /\ \E line \in {Bad, Row(id[p])} : lines' = Appended(p, line)
          /\ open_end' = TRUE
    /\ Goto(p, "index")
    /\ UNCHANGED <<exists, state>>

-----------------------------------------------------------------------------
(* Back in execute_insert. *)

\* Slips: an id equal to next_id does not advance it; INT_MAX does.
NextIdAfterGreater(k, next) == IF k # IntMax /\ next < k THEN k + 1 ELSE next
NextIdUnbounded(k, next) == IF next <= k THEN k + 1 ELSE next

\* remember_explicit_primary_key
NextIdAfter(k, next) == IF k # IntMax /\ next <= k THEN k + 1 ELSE next

IndexInsert(p) ==
    /\ pc[p] = "index"
    /\ index' = [index EXCEPT ![p] = @ \cup {<<id[p], row_offset[p]>>}]
    /\ next_id' = [next_id EXCEPT ![p] = NextIdAfter(id[p], @)]
    /\ pc' = [pc EXCEPT ![p] = "idle"]
    /\ result' = [result EXCEPT ![p] = "ok"]
    /\ auto' = [auto EXCEPT ![p] = FALSE]
    /\ newline' = [newline EXCEPT ![p] = FALSE]
    /\ UNCHANGED <<file, loaded, id, row_offset>>

\* bptree_insert found no memory; the row is in the file already.
IndexInsertFails(p) ==
    /\ pc[p] = "index"
    /\ "no memory" \in Faults
    /\ Fail(p)
    /\ UNCHANGED <<file, state>>

\* The process ends, or dies inside a statement; another one takes its place.
Exit(p) ==
    /\ pc[p] # "idle" => "crash" \in Faults
    /\ loaded' = [loaded EXCEPT ![p] = FALSE]
    /\ next_id' = [next_id EXCEPT ![p] = 1]
    /\ index' = [index EXCEPT ![p] = {}]
    /\ pc' = [pc EXCEPT ![p] = "idle"]
    /\ id' = [id EXCEPT ![p] = 0]
    /\ auto' = [auto EXCEPT ![p] = FALSE]
    /\ newline' = [newline EXCEPT ![p] = FALSE]
    /\ row_offset' = [row_offset EXCEPT ![p] = 0]
    /\ result' = [result EXCEPT ![p] = "none"]
    /\ UNCHANGED file

-----------------------------------------------------------------------------
(* What a SELECT prints, as the rows it selects; an error prints a part of them. *)
(* K is the set of ids for which the WHERE condition holds.                      *)

Answer(ok, rows) == [ok |-> ok, rows |-> rows]
Error == Answer(FALSE, {})

\* storage_print_row(s)_at_offset(s): the header, then the line at each offset.
PrintAtOffsets(offsets) ==
    IF offsets = {} THEN Answer(TRUE, {})
    ELSE IF HasHeader /\ \A i \in offsets : i \in DOMAIN lines /\ lines[i] # Bad
         THEN Answer(TRUE, {lines[i] : i \in offsets})
         ELSE Error

select_with_index(p, k) == PrintAtOffsets({e[2] : e \in {d \in index[p] : d[1] = k}})
select_with_index_range(p, K) == PrintAtOffsets({e[2] : e \in {d \in index[p] : d[1] \in K}})

\* storage_print_rows and storage_print_rows_where_equals: the whole file in order.
select_with_scan(K) ==
    IF lines = <<>> THEN Answer(TRUE, {})
    ELSE IF HasHeader /\ \A i \in DOMAIN lines : i > 1 => lines[i].kind = "row"
         THEN Answer(TRUE, {lines[i] : i \in {j \in RowLines : lines[j].id \in K}})
         ELSE Error

-----------------------------------------------------------------------------
Init ==
    /\ exists = (Preloaded # <<>>)
    /\ lines = Preloaded
    /\ open_end = FALSE
    /\ loaded = [p \in Procs |-> FALSE]
    /\ next_id = [p \in Procs |-> 1]
    /\ index = [p \in Procs |-> {}]
    /\ pc = [p \in Procs |-> "idle"]
    /\ id = [p \in Procs |-> 0]
    /\ auto = [p \in Procs |-> FALSE]
    /\ newline = [p \in Procs |-> FALSE]
    /\ row_offset = [p \in Procs |-> 0]
    /\ result = [p \in Procs |-> "none"]

Next ==
    \E p \in Procs :
        \/ SelectByKey(p) \/ LoadState(p) \/ LoadStateFails(p)
        \/ \E k \in ExplicitIds : InsertExplicit(p, k)
        \/ InsertAuto(p)
        \/ Allocate(p) \/ AllocateThenReject(p) \/ AllocateFails(p)
        \/ CheckUnique(p) \/ RefuseDuplicate(p)
        \/ EnsureExisting(p) \/ EnsureBadHeader(p) \/ EnsureAbsent(p)
        \/ Create(p) \/ CreateFails(p) \/ WriteHeader(p) \/ HeaderLost(p)
        \/ OpenAppend(p) \/ OpenAppendFails(p) \/ Flush(p) \/ FlushShort(p)
        \/ IndexInsert(p) \/ IndexInsertFails(p)
        \/ Exit(p)

Spec == Init /\ [][Next]_vars

-----------------------------------------------------------------------------
(* Properties. *)

\* Every variable keeps its shape; next_id never leaves the range of int.
TypeOK ==
    /\ exists \in BOOLEAN /\ lines \in Seq(Lines) /\ open_end \in BOOLEAN
    /\ loaded \in [Procs -> BOOLEAN]
    /\ next_id \in [Procs -> Ids]
    /\ index \in [Procs -> SUBSET (Ids \X Nat)]
    /\ pc \in [Procs -> {"idle", "select", "allocate", "unique", "ensure",
                          "create", "header", "append", "flush", "index"}]
    /\ id \in [Procs -> Ids] /\ auto \in [Procs -> BOOLEAN]
    /\ newline \in [Procs -> BOOLEAN] /\ row_offset \in [Procs -> Nat]
    /\ result \in [Procs -> {"none", "running", "ok", "error"}]

(* The next automatic id lies above every indexed id (but INT_MAX, which it may *)
(* never reach), whatever explicit ids came before, in whatever order           *)
(* (executor.c:170, 207-213, 228-230).                                          *)
NextIdFresh ==
    \A p \in Procs : \A entry \in index[p] :
        entry[1] < next_id[p] \/ entry[1] = IntMax

(* An INSERT that got its id automatically is never refused as a duplicate      *)
(* (executor.c:390-396 against 440).                                            *)
AutoIdFree ==
    \A p \in Procs : auto[p] /\ pc[p] = "unique" => ~KnownDuplicate(p)

CompleteRowsKept ==
    \A i \in RowLines :
        i < Len(lines) \/ ~open_end => i \in DOMAIN lines' /\ lines'[i] = lines[i]

(* A complete row of the data file is never altered or removed.  The code says  *)
(* so of creation too: "데이터 파일이 이미 있으면 ..., 없으면 새 CSV 파일을 만들고"  *)
(* (storage.c:256-257).                                                         *)
RowsStay == [][CompleteRowsKept]_vars

(* Whatever fails and whoever runs: no step but the creation of the file (its   *)
(* truncation, and the header written to its start) touches a complete row.     *)
(* (storage.c:363-392, where a torn last line may precede the appended row).    *)
OnlyCreationDropsRows ==
    [][(\A p \in Procs : pc[p] \in {"create", "header"} => pc'[p] = pc[p])
            => CompleteRowsKept]_vars

(* "저장 직전에는 같은 id가 이미 있는지 확인해 중복 PK를 막습니다" (README.md:419).  *)
UniquePrimaryKeys ==
    \A i, j \in RowLines : lines[i].id = lines[j].id => i = j

(* With one process, crashes included, the file stays one that the next start   *)
(* can read: no duplicate id and no broken line keeps storage_rebuild_pk_index  *)
(* from rebuilding the index (storage.c:1214-1252).                             *)
FileStaysReadable == Readable

(* The rows that WHERE id <op> k prints through the index, and by a scan of the *)
(* file, are the same (executor.c:589-592 and 673-684 against storage.c:738).   *)
SelectsAgree ==
    \A p \in Procs : pc[p] = "idle" /\ loaded[p] =>
        \A k \in Ids :
            /\ select_with_index(p, k) = select_with_scan({k})
            /\ select_with_index_range(p, (k + 1) .. IntMax) = select_with_scan((k + 1) .. IntMax)
            /\ select_with_index_range(p, IntMin .. (k - 1)) = select_with_scan(IntMin .. (k - 1))

(* An INSERT that reports success has its row in the file, at the offset that   *)
(* the index hands out (executor.c:445-465).                                    *)
SuccessMeansStored ==
    \A p \in Procs : result[p] = "ok" =>
        /\ row_offset[p] \in DOMAIN lines
        /\ lines[row_offset[p]] = Row(id[p])

(* "프로그램 실행 중 테이블을 처음 사용할 때 기존 CSV를 스캔해 메모리 B+ Tree를     *)
(* 재구성합니다" (README.md:222): no file this program wrote keeps a new process  *)
(* from doing so.                                                               *)
RestartReloads == Readable /\ ~IsMaxId(IntMax)

-----------------------------------------------------------------------------
(* Refinement of KeyedTable, for the one process of an instance with one.        *)

Only == CHOOSE p \in Procs : TRUE
WantedIds == IF result[Only] = "running" /\ ~auto[Only] THEN {id[Only]} ELSE Ids
InitialIds == {Preloaded[i].id : i \in {j \in DOMAIN Preloaded : Preloaded[j].kind = "row"}}

Contract == INSTANCE KeyedTable WITH
    Keys <- Ids, Preloaded <- InitialIds,
    keys <- FileIds, wanted <- WantedIds, stored <- pc[Only] = "index",
    status <- result[Only]

(* Across all steps of a statement, and wherever the process is killed, INSERT  *)
(* is the one atomic insertion that KeyedTable promises: its checks against the *)
(* index (executor.c:440) and the append it allows (storage.c:347-394) are two  *)
(* reads of the file apart.                                                     *)
ImplementsKeyedTable == Contract!Spec
=============================================================================
