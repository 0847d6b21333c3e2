-------------------------- MODULE SqlProgramProofs --------------------------
(***************************************************************************)
(* Theorems about SqlProgram, for every input, any tables, any number of   *)
(* slots and any width of int.                                             *)
(***************************************************************************)
EXTENDS SqlProgram, SequenceTheorems, NaturalsRecursion, TLAPS

Slot == [dir : Dirs, table : Tables, next_id : Int_, pk_index : SUBSET Int_]

\* The tables a slot can be for.
KeyedIn(d, table) ==
    IF d = "own" THEN table \in DOMAIN Schemas /\ Schemas[table] = "keyed" ELSE table = "users"

\* Before the benchmark has built its files no table was used; slots are for keyed
\* tables; a lookup that is about to be loaded exists.
Phase ==
    /\ pc \in {"count", "build"} =>
         /\ dir = "own" /\ target_id = 0
         /\ table_states = <<>>
         /\ acked = [d \in Dirs |-> [table \in Tables |-> <<>>]]
    /\ \A i \in DOMAIN table_states : KeyedIn(table_states[i].dir, table_states[i].table)
    /\ pc = "build" => record_count \in 1 .. IntMax
    /\ pc = "load" /\ dir = "benchmark" => lookups # <<>>

\* What the other invariants need of TypeOK.
Types ==
    /\ dir \in Dirs
    /\ program \in Seq(Statements)
    /\ files \in [Dirs -> [Tables -> Seq(Int_)]]
    /\ table_states \in Seq(Slot)
    /\ acked \in [Dirs -> [Tables -> Seq(Int_)]]
    /\ record_count \in 0 .. IntMax

-----------------------------------------------------------------------------
(* Helpers. *)

\* Where a text leaves the program.
LEMMA AfterText ==
    ASSUME NEW ok \in BOOLEAN, After(ok), dir \in Dirs
    PROVE  /\ pc' \in {"exited", "prompt", "load"}
           /\ dir' \in Dirs
           /\ exit_code' \in {exit_code, 0, 1}
           /\ pc' = "load" => lookups # <<>>
BY DEF After, Exit, ExitCode, EndsSession, FromFile, Dirs

\* What parse_program accepts is a sequence of statements.
LEMMA ParsedType == \A s : parse_program(s) \in Seq(Statements)
<1> SUFFICES ASSUME NEW s PROVE parse_program(s) \in Seq(Statements)
  OBVIOUS
<1>1. CASE \E n \in 1 .. MAX_STATEMENTS : IsProgram(s, n)
  <2> DEFINE N == CHOOSE n \in 1 .. MAX_STATEMENTS : IsProgram(s, n)
  <2>1. N \in 1 .. MAX_STATEMENTS /\ IsProgram(s, N)
    BY <1>1
  <2> HIDE DEF N
  <2>2. N \in Nat /\ \A i \in 1 .. N : Tokens(s)[2 * i - 1] \in Statements
    BY <2>1, LimitsAssumption DEF IsProgram
  <2>3. parse_program(s) = [i \in 1 .. N |-> Tokens(s)[2 * i - 1]]
    BY <1>1 DEF parse_program, N
  <2> DEFINE P == [i \in 1 .. N |-> Tokens(s)[2 * i - 1]]
  <2>4. P \in [1 .. N -> Statements] /\ Len(P) = N
    BY <2>2
  <2> HIDE DEF P
  <2>5. P \in Seq(Statements)
    BY <2>2, <2>4
  <2>6. QED
    BY <2>3, <2>5 DEF P
<1>2. CASE ~ \E n \in 1 .. MAX_STATEMENTS : IsProgram(s, n)
  BY <1>2 DEF parse_program
<1>3. QED
  BY <1>1, <1>2

\* The statement that runs.
LEMMA RunningStatement ==
    ASSUME program \in Seq(Statements), program # <<>>
    PROVE  st \in Statements /\ t \in Tables /\ Tail(program) \in Seq(Statements)
<1>1. Head(program) \in Statements /\ Tail(program) \in Seq(Statements)
  BY HeadTailProperties
<1>2. QED
  BY <1>1 DEF st, t, Statements

\* What storage_append_row does to the files.
LEMMA AppendedFile ==
    ASSUME Types, t \in Tables, NEW recreated \in BOOLEAN, NEW rows \in Seq(Int_),
           Appended(recreated, rows)
    PROVE  /\ files' \in [Dirs -> [Tables -> Seq(Int_)]]
           /\ files'[dir][t] = (IF recreated THEN <<>> ELSE files[dir][t]) \o rows
           /\ \A d \in Dirs, table \in Tables :
                ~(d = dir /\ table = t) => files'[d][table] = files[d][table]
<1> DEFINE old == IF recreated THEN <<>> ELSE files[dir][t]
<1>1. files[dir][t] \in Seq(Int_) /\ <<>> \in Seq(Int_)
  BY EmptySeq DEF Types
<1>2. old \in Seq(Int_)
  BY <1>1
<1>3. files' = [files EXCEPT ![dir][t] = old \o rows]
  BY DEF Appended
<1> HIDE DEF old
<1>4. old \o rows \in Seq(Int_)
  BY <1>2, ConcatProperties
<1> DEFINE new == old \o rows
<1>5. new \in Seq(Int_) /\ files' = [files EXCEPT ![dir][t] = new]
  BY <1>3, <1>4
<1> HIDE DEF new
<1>6. /\ files' \in [Dirs -> [Tables -> Seq(Int_)]]
      /\ files'[dir][t] = new
      /\ \A d \in Dirs, table \in Tables :
           ~(d = dir /\ table = t) => files'[d][table] = files[d][table]
  BY <1>5 DEF Types
<1>7. QED
  BY <1>6 DEF new, old

\* A row more in one file and in what was acknowledged.
LEMMA StoredRow ==
    ASSUME Types, t \in Tables, NEW k \in Int_, Stored(k)
    PROVE  /\ files' \in [Dirs -> [Tables -> Seq(Int_)]]
           /\ acked' \in [Dirs -> [Tables -> Seq(Int_)]]
           /\ \E recreated \in Recreations :
                files'[dir][t] = (IF recreated THEN <<>> ELSE files[dir][t]) \o <<k>>
           /\ acked'[dir][t] = Append(acked[dir][t], k)
           /\ \A d \in Dirs, table \in Tables :
                ~(d = dir /\ table = t) =>
                  files'[d][table] = files[d][table] /\ acked'[d][table] = acked[d][table]
<1>1. PICK recreated \in Recreations : Appended(recreated, <<k>>)
  BY DEF Stored
<1>a. recreated \in BOOLEAN
  BY Zenon DEF Recreations
<1>2. recreated \in BOOLEAN /\ <<k>> \in Seq(Int_)
  BY <1>a
<1>3. /\ files' \in [Dirs -> [Tables -> Seq(Int_)]]
      /\ files'[dir][t] = (IF recreated THEN <<>> ELSE files[dir][t]) \o <<k>>
      /\ \A d \in Dirs, table \in Tables :
           ~(d = dir /\ table = t) => files'[d][table] = files[d][table]
  BY <1>1, <1>2, AppendedFile
<1> DEFINE new == Append(acked[dir][t], k)
<1>4. new \in Seq(Int_) /\ acked' = [acked EXCEPT ![dir][t] = new]
  BY DEF Types, Stored
<1> HIDE DEF new
<1>5. /\ acked' \in [Dirs -> [Tables -> Seq(Int_)]]
      /\ acked'[dir][t] = new
      /\ \A d \in Dirs, table \in Tables :
           ~(d = dir /\ table = t) => acked'[d][table] = acked[d][table]
  BY <1>4 DEF Types
<1>6. QED
  BY <1>3, <1>5 DEF new

\* A statement that fails adds no row; it may have emptied its table.
LEMMA FailedRows ==
    ASSUME Types, t \in Tables, AppendFails
    PROVE  /\ files' \in [Dirs -> [Tables -> Seq(Int_)]]
           /\ files'[dir][t] \in {<<>>, files[dir][t]}
           /\ "open fails" \notin Faults => files'[dir][t] = files[dir][t]
           /\ \A d \in Dirs, table \in Tables :
                ~(d = dir /\ table = t) => files'[d][table] = files[d][table]
           /\ acked' = acked /\ GiveUp
<1>1. PICK recreated \in Recreations : Appended(recreated, <<>>)
  BY DEF AppendFails
<1>2. recreated \in BOOLEAN /\ <<>> \in Seq(Int_) /\ files[dir][t] \in Seq(Int_)
  BY EmptySeq DEF Recreations, Types
<1>3. /\ files' \in [Dirs -> [Tables -> Seq(Int_)]]
      /\ files'[dir][t] = (IF recreated THEN <<>> ELSE files[dir][t]) \o <<>>
      /\ \A d \in Dirs, table \in Tables :
           ~(d = dir /\ table = t) => files'[d][table] = files[d][table]
  BY <1>1, <1>2, AppendedFile
<1>4. files'[dir][t] \in {<<>>, files[dir][t]}
  BY <1>2, <1>3, ConcatEmptySeq
<1>5. QED
  BY <1>3, <1>4 DEF AppendFails

\* What is in a slot.
LEMMA SlotFields ==
    ASSUME Types, NEW j \in DOMAIN table_states
    PROVE  /\ table_states[j] \in Slot
           /\ table_states[j].dir \in Dirs /\ table_states[j].table \in Tables
           /\ table_states[j].next_id \in Int_ /\ table_states[j].next_id \in Int
           /\ table_states[j].pk_index \subseteq Int_
<1>1. table_states[j] \in Slot
  BY DEF Types
<1>2. Int_ \subseteq Int
  BY IntMaxAssumption DEF Int_
<1>3. QED
  BY <1>1, <1>2 DEF Slot

\* A slot keeps its shape.
LEMMA NextIdAfterType ==
    ASSUME NEW k \in Int_, NEW n \in Int_
    PROVE  NextIdAfter(k, n) \in Int_
BY IntMaxAssumption DEF NextIdAfter, Int_

LEMMA AllocatedType ==
    ASSUME Types, NEW i \in DOMAIN table_states
    PROVE  /\ Allocated(i) \in Seq(Slot)
           /\ Len(Allocated(i)) = Len(table_states)
           /\ \A j \in DOMAIN table_states :
                /\ Allocated(i)[j].dir = table_states[j].dir
                /\ Allocated(i)[j].table = table_states[j].table
                /\ Allocated(i)[j].pk_index = table_states[j].pk_index
                /\ Allocated(i)[j].next_id >= table_states[j].next_id
<1>1. table_states \in Seq(Slot) /\ table_states[i] \in Slot
  BY DEF Types
<1> DEFINE new == [table_states[i] EXCEPT !.next_id = @ + 1]
<1>2. CASE st.verb # "insert" /\ table_states[i].next_id # IntMax
  <2>a. table_states[i].next_id + 1 \in Int_
    <3>1. table_states[i].next_id \in Int_
      BY <1>1 DEF Slot
    <3>2. QED
      BY <1>2, <3>1, IntMaxAssumption DEF Int_
  <2>1. new \in Slot
    BY <1>1, <2>a DEF Slot
  <2>2. Allocated(i) = [table_states EXCEPT ![i] = new]
    BY <1>2 DEF Allocated
  <2>3. /\ new.dir = table_states[i].dir /\ new.table = table_states[i].table
        /\ new.pk_index = table_states[i].pk_index /\ new.next_id >= table_states[i].next_id
    BY <1>1 DEF Slot, Int_
  <2>4. \A j \in DOMAIN table_states : table_states[j].next_id \in Int
    BY SlotFields
  <2> HIDE DEF new
  <2>5. /\ i \in 1 .. Len(table_states)
        /\ DOMAIN table_states = 1 .. Len(table_states)
    BY <1>1
  <2>6. /\ Allocated(i) \in Seq(Slot) /\ Len(Allocated(i)) = Len(table_states)
        /\ \A j \in DOMAIN table_states :
             Allocated(i)[j] = IF j = i THEN new ELSE table_states[j]
    BY <1>1, <2>1, <2>2, <2>5, ExceptSeq
  <2>7. QED
    BY <2>3, <2>4, <2>6
<1>3. CASE ~(st.verb # "insert" /\ table_states[i].next_id # IntMax)
  <2>1. Allocated(i) = table_states
    BY <1>3 DEF Allocated
  <2>2. \A j \in DOMAIN table_states : table_states[j].next_id \in Int
    BY SlotFields
  <2>3. QED
    BY <1>1, <2>1, <2>2
<1>4. QED
  BY <1>2, <1>3

\* The id that an INSERT into a keyed table stores is an int.
LEMMA NewIdType ==
    ASSUME Types, program # <<>>, NEW i \in DOMAIN table_states
    PROVE  NewId(i) \in Int_
<1>1. table_states[i] \in Slot /\ st \in Statements
  BY RunningStatement DEF Types
<1>2. QED
  BY <1>1 DEF NewId, Slot, Statements
\* A slot after an INSERT: its id is in the index and the next id is not below.
Inserted(i, k, n) == [table_states EXCEPT ![i].pk_index = @ \cup {k}, ![i].next_id = n]

LEMMA InsertedSlot ==
    ASSUME Types, NEW i \in DOMAIN table_states, NEW k \in Int_, NEW n \in Int_
    PROVE  /\ Inserted(i, k, n) \in Seq(Slot)
           /\ Len(Inserted(i, k, n)) = Len(table_states)
           /\ \A j \in DOMAIN table_states :
                /\ Inserted(i, k, n)[j].dir = table_states[j].dir
                /\ Inserted(i, k, n)[j].table = table_states[j].table
                /\ j # i => Inserted(i, k, n)[j] = table_states[j]
           /\ Inserted(i, k, n)[i].pk_index = table_states[i].pk_index \cup {k}
           /\ Inserted(i, k, n)[i].next_id = n
<1> DEFINE slot == [table_states[i] EXCEPT !.pk_index = @ \cup {k}, !.next_id = n]
<1>1. table_states \in Seq(Slot) /\ table_states[i] \in Slot
  BY DEF Types
<1>2. /\ slot \in Slot
      /\ slot.dir = table_states[i].dir /\ slot.table = table_states[i].table
      /\ slot.pk_index = table_states[i].pk_index \cup {k} /\ slot.next_id = n
  BY <1>1 DEF Slot
<1>3. Inserted(i, k, n) = [table_states EXCEPT ![i] = slot]
  BY <1>1 DEF Slot, Inserted
<1>4. i \in 1 .. Len(table_states) /\ DOMAIN table_states = 1 .. Len(table_states)
  BY <1>1
<1> HIDE DEF slot
<1>5. /\ Inserted(i, k, n) \in Seq(Slot) /\ Len(Inserted(i, k, n)) = Len(table_states)
      /\ \A j \in DOMAIN table_states : Inserted(i, k, n)[j] = IF j = i THEN slot ELSE table_states[j]
  BY <1>1, <1>2, <1>3, <1>4, ExceptSeq
<1>6. QED
  BY <1>2, <1>5

-----------------------------------------------------------------------------
(* Types is kept by every step. *)

\* Starting on a benchmark fills one file with the ids 1 .. record_count.
LEMMA GeneratedType ==
    ASSUME Types
    PROVE  /\ [i \in 1 .. record_count |-> i] \in Seq(Int_)
           /\ [files EXCEPT !["benchmark"]["users"] = [i \in 1 .. record_count |-> i]]
                \in [Dirs -> [Tables -> Seq(Int_)]]
<1>1. [i \in 1 .. record_count |-> i] \in Seq(Int_)
  BY IntMaxAssumption DEF Types, Int_
<1>2. QED
  BY <1>1, TablesAssumption DEF Types, Dirs

LEMMA SucceedType ==
    ASSUME Types, program # <<>>, Succeed
    PROVE  dir' \in Dirs /\ program' \in Seq(Statements) /\ record_count' = record_count
BY RunningStatement, AfterText DEF Types, Succeed, bench

LEMMA GiveUpType ==
    ASSUME Types, GiveUp
    PROVE  dir' \in Dirs /\ UNCHANGED <<program, record_count>>
BY AfterText DEF Types, GiveUp, bench

LEMMA FailType ==
    ASSUME Types, FailStatement
    PROVE  dir' \in Dirs /\ UNCHANGED <<program, files, acked, record_count>>
BY GiveUpType DEF FailStatement

LEMMA TypesInit == Init => Types
BY PreloadedAssumption, IntMaxAssumption, EmptySeq DEF Init, Types, Dirs

LEMMA TypesStep ==
    ASSUME Types, pc = "run" => program # <<>>, [Next]_vars
    PROVE  Types'
<1>1. ASSUME LoadFile PROVE Types'
  BY <1>1, EmptySeq DEF LoadFile, Types, data
<1>2. ASSUME LoadFileFails PROVE Types'
  BY <1>2 DEF LoadFileFails, Types, data, bench
<1>3. ASSUME ReadLine PROVE Types'
  BY <1>3, EmptySeq DEF ReadLine, Types, data, bench
<1>4. ASSUME ReadExit PROVE Types'
  BY <1>4, EmptySeq DEF ReadExit, Types, data, bench
<1>5. ASSUME EndOfInput PROVE Types'
  BY <1>5 DEF EndOfInput, Types, data, bench
<1>6. ASSUME Parse PROVE Types'
  BY <1>6, ParsedType, AfterText DEF Parse, Types, data, bench
<1>7. ASSUME LoadState PROVE Types'
  <2>1. program # <<>> /\ t \in Tables
    BY <1>7, RunningStatement DEF LoadState, Types
  <2>2. PICK max_id \in Rows(dir, t) \cup {0} :
          /\ IsMaxId(max_id) /\ max_id # IntMax
          /\ table_states' = Append(table_states,
                 [dir |-> dir, table |-> t, next_id |-> max_id + 1, pk_index |-> Rows(dir, t)])
    BY <1>7 DEF LoadState
  <2>3. Rows(dir, t) \subseteq Int_
    BY <2>1 DEF Rows, Types
  <2>4. max_id + 1 \in Int_
    BY <2>2, <2>3, IntMaxAssumption DEF Int_
  <2>5. table_states' \in Seq(Slot)
    BY <2>1, <2>2, <2>3, <2>4 DEF Types, Slot
  <2>6. QED
    BY <1>7, <2>5 DEF LoadState, Types, front, bench
<1>8. ASSUME LoadStateFails PROVE Types'
  BY <1>8, FailType DEF LoadStateFails, Types
<1>9. ASSUME InsertKeyed PROVE Types'
  <2>1. program # <<>> /\ t \in Tables
    BY <1>9, RunningStatement DEF InsertKeyed, Types
  <2>2. PICK i \in Slots :
          /\ Stored(NewId(i))
          /\ table_states' = Inserted(i, NewId(i), NextIdAfter(NewId(i), table_states[i].next_id))
    BY <1>9 DEF InsertKeyed, Inserted
  <2>3. i \in DOMAIN table_states
    BY DEF Slots, find_table_state
  <2>4. NewId(i) \in Int_ /\ NextIdAfter(NewId(i), table_states[i].next_id) \in Int_
    BY <2>1, <2>3, NewIdType, NextIdAfterType, SlotFields
  <2>5. table_states' \in Seq(Slot)
    BY <2>2, <2>3, <2>4, InsertedSlot
  <2>6. QED
    BY <1>9, <2>1, <2>2, <2>4, <2>5, StoredRow, SucceedType DEF InsertKeyed, Types
<1>10. ASSUME InsertPlain PROVE Types'
  <2>1. program # <<>> /\ t \in Tables /\ st \in Statements
    BY <1>10, RunningStatement DEF InsertPlain, Types
  <2>2. st.id \in Int_
    BY <2>1 DEF Statements
  <2>3. QED
    BY <1>10, <2>1, <2>2, StoredRow, SucceedType DEF InsertPlain, Types
<1>11. ASSUME RefuseInsert PROVE Types'
  <2>1. PICK i \in Slots : table_states' = Allocated(i)
    BY <1>11 DEF RefuseInsert
  <2>2. table_states' \in Seq(Slot)
    BY <2>1, AllocatedType DEF Slots, find_table_state
  <2>3. CASE FailStatement
    BY <2>2, <2>3, FailType DEF Types
  <2>4. CASE AppendFails
    <3>1. t \in Tables
      BY <1>11, RunningStatement DEF RefuseInsert, Types
    <3>2. QED
      BY <2>2, <2>4, <3>1, FailedRows, GiveUpType DEF Types
  <2>5. QED
    BY <1>11, <2>3, <2>4 DEF RefuseInsert, RefuseTaken
<1>12. ASSUME Select PROVE Types'
  BY <1>12, SucceedType DEF Select, Types, data
<1>13. ASSUME Refuse PROVE Types'
  BY <1>13, FailType DEF Refuse, Types
<1>14. ASSUME ReadCount PROVE Types'
  BY <1>14 DEF ReadCount, IsAnswer, Types, data
<1>15. ASSUME CountEndOfInput PROVE Types'
  BY <1>15 DEF CountEndOfInput, Types, data, bench
<1>16. ASSUME Build PROVE Types'
  BY <1>16, GeneratedType DEF Build, Types, Dirs
<1>17. ASSUME BuildFails PROVE Types'
  BY <1>17, GeneratedType DEF BuildFails, Types, bench
<1>18. ASSUME InsertPlainFails PROVE Types'
  <2>1. t \in Tables
    BY <1>18, RunningStatement DEF InsertPlainFails, Types
  <2>2. QED
    BY <1>18, <2>1, FailedRows, GiveUpType DEF InsertPlainFails, Types
<1>19. ASSUME UNCHANGED vars PROVE Types'
  BY <1>19 DEF vars, Types
<1>20. QED
  BY <1>1, <1>2, <1>3, <1>4, <1>5, <1>6, <1>7, <1>8, <1>9, <1>10, <1>11, <1>12,
     <1>13, <1>14, <1>15, <1>16, <1>17, <1>18, <1>19 DEF Next

-----------------------------------------------------------------------------
(* Lines.  What fgets takes is not empty and lies in the input. *)

LEMMA TakenType ==
    ASSUME input \in Seq(Pieces), input # <<>>, NEW size \in Nat \ {0, 1}
    PROVE  Taken(size) \in 1 .. Len(input)
<1> DEFINE Ends == {n \in 1 .. Len(input) :
                      n = Len(input) \/ n = size - 1 \/ input[n].kind = "newline"}
<1>1. Len(input) \in Nat \ {0}
  BY EmptySeq
<1>2. Ends \subseteq Nat /\ Len(input) \in Ends
  BY <1>1
<1>3. PICK n \in Ends : \A m \in Ends : n <= m
  BY <1>2, Smallest
<1>4. \A m \in 1 .. n - 1 : m # size - 1 /\ input[m].kind # "newline"
  <2>1. \A m \in 1 .. n - 1 : m \in 1 .. Len(input) /\ m \notin Ends
    <3> HIDE DEF Ends
    <3>1. n \in Nat /\ n <= Len(input) /\ Len(input) \in Nat /\ Ends \subseteq Nat
      BY <1>1, <1>2, <1>3
    <3>2. QED
      BY <1>3, <3>1
  <2>2. QED
    BY <2>1, Zenon
<1>5. QED
  BY <1>3, <1>4 DEF Taken

LEMMA LineType ==
    ASSUME input \in Seq(Pieces), input # <<>>, NEW size \in Nat \ {0, 1}
    PROVE  Line(size) \in Seq(Pieces) /\ Rest(size) \in Seq(Pieces)
<1>1. Len(input) \in Nat /\ Taken(size) \in 1 .. Len(input)
  BY TakenType
<1> DEFINE n == Taken(size)
<1> HIDE DEF n
<1>2. n \in Int /\ n - 1 \in Int /\ n + 1 \in Int /\ Len(input) \in Int /\ n \in 1 .. Len(input)
  BY <1>1 DEF n
<1>3. \A i \in 1 .. Len(input) : input[i] \in Pieces
  BY ElementOfSeq
<1>4. SubSeq(input, 1, n) \in Seq(Pieces) /\ SubSeq(input, 1, n - 1) \in Seq(Pieces)
  BY <1>2, <1>3, SubSeqProperties
<1>5. SubSeq(input, n + 1, Len(input)) \in Seq(Pieces)
  BY <1>2, <1>3, SubSeqProperties
<1>6. QED
  BY <1>4, <1>5 DEF Line, Rest, n

\* What a text is without its newlines.
LEMMA TokensType ==
    ASSUME NEW s \in Seq(Pieces)
    PROVE  Tokens(s) \in Seq(Pieces)
<1> DEFINE N == Len(s)
           S == Seq(Pieces)
           Kept(kept) ==
             kept = [n \in 0 .. N |->
                        IF n = 0 THEN <<>>
                        ELSE IF s[n] = Newline THEN kept[n - 1] ELSE Append(kept[n - 1], s[n])]
           step == [n \in 1 .. N |-> [q \in S |-> IF s[n] = Newline THEN q ELSE Append(q, s[n])]]
<1>1. N \in Nat /\ \A n \in 1 .. N : s[n] \in Pieces
  BY LenProperties, ElementOfSeq
<1>2. <<>> \in S /\ \A q \in S, n \in 1 .. N : Append(q, s[n]) \in S
  BY <1>1, EmptySeq, AppendProperties
<1>3. step \in [1 .. N -> [S -> S]]
  BY <1>1, <1>2
<1> HIDE DEF N, S
<1>4. \E kept : Kept(kept)
  <2>0. N \in Nat /\ <<>> \in S
    BY <1>1, <1>2
  <2>1. PICK f : Computes(f, N, S, <<>>, step)
    <3> HIDE DEF step, Kept
    <3>1. QED
      BY <1>3, <2>0, StepByStep DEF StepsOn
  <2>2. \A n \in 1 .. N : n - 1 \in 0 .. N
    BY <1>1
  <2>3. \A n \in 1 .. N : f[n] = IF s[n] = Newline THEN f[n - 1] ELSE Append(f[n - 1], s[n])
    BY <2>1, <2>2 DEF Computes
  <2> DEFINE e(n) == IF n = 0 THEN <<>>
                     ELSE IF s[n] = Newline THEN f[n - 1] ELSE Append(f[n - 1], s[n])
  <2>a. \A n \in 0 .. N : f[n] = e(n)
    <3>1. \A n \in 0 .. N : n = 0 \/ n \in 1 .. N
      BY <1>1
    <3>2. f[0] = e(0)
      BY <2>1 DEF Computes
    <3>3. \A n \in 1 .. N : f[n] = e(n)
      BY <1>1, <2>3
    <3>4. QED
      BY <3>1, <3>2, <3>3, Zenon
  <2>b. f = [n \in 0 .. N |-> f[n]]
    BY <2>1 DEF Computes
  <2> HIDE DEF e
  <2>c. f = [n \in 0 .. N |-> e(n)]
    BY <2>a, <2>b
  <2>4. Kept(f)
    BY <2>c, Zenon DEF e
  <2>5. QED
    BY <2>4
<1> DEFINE kept == CHOOSE kept : Kept(kept)
<1>5. Kept(kept)
  BY <1>4
<1>6. Tokens(s) = kept[N]
  BY DEF Tokens, N
<1> HIDE DEF kept
<1>a. \A n \in 0 .. N : kept[n] = IF n = 0 THEN <<>>
                       ELSE IF s[n] = Newline THEN kept[n - 1] ELSE Append(kept[n - 1], s[n])
  BY <1>5, Zenon
<1>7. kept[0] = <<>> /\ \A n \in 1 .. N : kept[n] = IF s[n] = Newline THEN kept[n - 1] ELSE Append(kept[n - 1], s[n])
  BY <1>1, <1>a
<1> DEFINE T == {n \in 0 .. N : kept[n] \in S}
<1>8. 0 \in T
  BY <1>1, <1>2, <1>7
<1>9. \A n \in 1 .. N : n - 1 \in T => n \in T
  BY <1>1, <1>2, <1>7
<1>10. 0 .. N \subseteq T
  <2> HIDE DEF T
  <2>1. QED
    BY <1>1, <1>8, <1>9, UpTo
<1>11. QED
  BY <1>1, <1>6, <1>10 DEF S

-----------------------------------------------------------------------------
(* TypeOK. *)

LEMMA TypeOKTypes == TypeOK => Types
BY DEF TypeOK, Types, Slot

\* The row the benchmark looks for is one of those it wrote, whatever the int
\* product is after an overflow.
LEMMA TargetInRange ==
    ASSUME NEW n \in 1 .. IntMax, NEW product \in Products(n)
    PROVE  Target(product) \in 1 .. n
<1>1. product \in Int /\ product <= n * 9 /\ n \in Nat /\ 1 <= n
  <2>1. CASE n * 9 <= IntMax
    BY <2>1, IntMaxAssumption DEF Products
  <2>2. CASE ~(n * 9 <= IntMax)
    BY <2>2, IntMaxAssumption DEF Products, Int_
  <2>3. QED
    BY <2>1, <2>2
<1>2. product \div 10 \in Int /\ product \div 10 <= n
  BY <1>1
<1>3. QED
  BY <1>1, <1>2 DEF Target

LEMMA ThreeInSeq ==
    ASSUME NEW S, NEW a \in S, NEW b \in S, NEW c \in S
    PROVE  <<a, b, c>> \in Seq(S)
OBVIOUS

\* The statements of the lookups are pieces.
LEMMA LookupType ==
    ASSUME NEW verb \in Verbs, NEW k \in Int_
    PROVE  Lookup(verb, k) \in Seq(Pieces)
<1>1. Statement(verb, "users", k) \in Pieces
  BY TablesAssumption DEF Statement, Statements, Pieces
<1>2. Semicolon \in Pieces /\ Newline \in Pieces
  BY DEF Semicolon, Newline, Symbol, Pieces
<1>3. QED
  BY <1>1, <1>2 DEF Lookup

\* What is loaded from a file is a text.
LEMMA LoadedType ==
    ASSUME TypeOK, Phase, LoadFile
    PROVE  text' \in Seq(Pieces) /\ lookups' \in Seq(Seq(Pieces))
<1>1. SqlFile \in Seq(Pieces) /\ Remaining \in Seq(Seq(Pieces))
  <2>1. CASE dir = "benchmark"
    <3>1. lookups \in Seq(Seq(Pieces)) /\ lookups # <<>>
      BY <2>1 DEF TypeOK, Phase, LoadFile
    <3>2. Head(lookups) \in Seq(Pieces) /\ Tail(lookups) \in Seq(Seq(Pieces))
      BY <3>1, HeadTailProperties
    <3>3. QED
      BY <2>1, <3>2 DEF SqlFile, Remaining
  <2>2. CASE dir # "benchmark"
    BY <2>2 DEF SqlFile, Remaining, TypeOK
  <2>3. QED
    BY <2>1, <2>2
<1>2. QED
  BY <1>1 DEF LoadFile, Fits, Buffered

\* What the steps of a statement share.
LEMMA SucceedTypeOK ==
    ASSUME TypeOK, program # <<>>, pc = "run", Succeed
    PROVE  /\ pc' \in {"load", "prompt", "parse", "run", "count", "build", "exited"}
           /\ pc' = "run" => program' # <<>>
           /\ ran' \in Seq(Statements)
           /\ exit_code' \in {0, 1}
           /\ UNCHANGED <<mode, input, text, lookups, record_count, target_id>>
<1>1. program \in Seq(Statements) /\ st \in Statements
  BY RunningStatement DEF TypeOK
<1>2. CASE Len(program) = 1
  <2>1. After(TRUE) /\ dir \in Dirs /\ exit_code \in {0, 1}
    BY <1>2 DEF Succeed, TypeOK
  <2>2. pc' \in {"exited", "prompt", "load"} /\ exit_code' \in {0, 1}
    BY <2>1, AfterText
  <2>3. ran' \in Seq(Statements)
    BY <1>1 DEF Succeed, TypeOK
  <2>4. QED
    BY <2>2, <2>3 DEF Succeed, bench
<1>3. CASE Len(program) # 1
  <2>1. Tail(program) # <<>>
    <3>1. Len(Tail(program)) = Len(program) - 1 /\ Len(program) \in Nat
      BY <1>1, HeadTailProperties
    <3>2. QED
      BY <1>3, <3>1
  <2>2. QED
    BY <1>1, <1>3, <2>1 DEF Succeed, TypeOK, bench
<1>4. QED
  BY <1>2, <1>3

LEMMA FailTypeOK ==
    ASSUME TypeOK, GiveUp
    PROVE  /\ pc' \in {"load", "prompt", "exited"}
           /\ exit_code' \in {0, 1}
           /\ UNCHANGED <<mode, input, text, ran, lookups, record_count, target_id>>
BY AfterText DEF GiveUp, TypeOK, bench

\* Every statement that fails gives up.
LEMMA EveryFailureGivesUp ==
    ASSUME LoadStateFails \/ InsertPlainFails \/ RefuseInsert \/ Refuse
    PROVE  GiveUp
BY DEF LoadStateFails, InsertPlainFails, RefuseInsert, RefuseTaken, Refuse, FailStatement,
       AppendFails

LEMMA TypeOKInit == Init => TypeOK
<1> SUFFICES ASSUME Init PROVE TypeOK
  OBVIOUS
<1>1. Types
  BY TypesInit
<1>2. mode \in Modes /\ input \in Seq(Pieces)
  BY InputsAssumption DEF Init
<1>3. pc \in {"load", "prompt", "count"}
  BY <1>2 DEF Init, Modes
<1>4. /\ text \in Seq(Pieces) /\ ran \in Seq(Statements) /\ lookups \in Seq(Seq(Pieces))
      /\ Len(table_states) <= MAX_TABLE_STATES
  BY EmptySeq, LimitsAssumption DEF Init
<1>5. exit_code \in {0, 1} /\ target_id \in 0 .. IntMax
  BY IntMaxAssumption DEF Init
<1>6. QED
  BY <1>1, <1>2, <1>3, <1>4, <1>5 DEF Types, TypeOK, Slot

LEMMA TypeOKStep ==
    ASSUME TypeOK, Phase, [Next]_vars
    PROVE  TypeOK'
<1> DEFINE Others ==
      /\ mode \in Modes
      /\ pc \in {"load", "prompt", "parse", "run", "count", "build", "exited"}
      /\ input \in Seq(Pieces) /\ text \in Seq(Pieces) /\ ran \in Seq(Statements)
      /\ Len(table_states) <= MAX_TABLE_STATES
      /\ lookups \in Seq(Seq(Pieces)) /\ target_id \in 0 .. IntMax
      /\ exit_code \in {0, 1}
      /\ pc = "run" => program # <<>>
<1>0. Types /\ Others
  BY TypeOKTypes DEF TypeOK
<1>1. ASSUME LoadFile PROVE Others'
  BY <1>0, <1>1, LoadedType, EmptySeq DEF LoadFile, data
<1>2. ASSUME LoadFileFails PROVE Others'
  BY <1>0, <1>2 DEF LoadFileFails, Exit, data, bench
<1>3. ASSUME ReadLine PROVE Others'
  BY <1>0, <1>3, LineType, LimitsAssumption, EmptySeq DEF ReadLine, data, bench
<1>4. ASSUME ReadExit PROVE Others'
  BY <1>0, <1>4, LineType, LimitsAssumption, EmptySeq DEF ReadExit, Exit, data, bench
<1>5. ASSUME EndOfInput PROVE Others'
  BY <1>0, <1>5 DEF EndOfInput, Exit, data, bench
<1>6. ASSUME Parse PROVE Others'
  BY <1>0, <1>6, AfterText DEF Parse, Types, data, bench
<1>7. ASSUME LoadState PROVE Others'
  <2>1. Len(table_states') <= MAX_TABLE_STATES
    BY <1>0, <1>7, LimitsAssumption DEF LoadState, HasRoom, Types
  <2>2. QED
    BY <1>0, <1>7, <2>1 DEF LoadState, front, bench
<1>8. ASSUME LoadStateFails PROVE Others'
  BY <1>0, <1>8, EveryFailureGivesUp, FailTypeOK DEF LoadStateFails
<1>9. ASSUME InsertKeyed PROVE Others'
  <2>1. pc = "run" /\ program # <<>>
    BY <1>0, <1>9 DEF InsertKeyed
  <2>2. PICK i \in Slots :
          table_states' = Inserted(i, NewId(i), NextIdAfter(NewId(i), table_states[i].next_id))
    BY <1>9 DEF InsertKeyed, Inserted
  <2>3. i \in DOMAIN table_states
    BY DEF Slots, find_table_state
  <2>4. NewId(i) \in Int_ /\ NextIdAfter(NewId(i), table_states[i].next_id) \in Int_
    BY <1>0, <2>1, <2>3, NewIdType, NextIdAfterType, SlotFields
  <2>5. Len(table_states') = Len(table_states)
    BY <1>0, <2>2, <2>3, <2>4, InsertedSlot
  <2>6. QED
    BY <1>0, <1>9, <2>1, <2>5, SucceedTypeOK DEF InsertKeyed
<1>10. ASSUME InsertPlain PROVE Others'
  BY <1>0, <1>10, SucceedTypeOK DEF InsertPlain
<1>11. ASSUME RefuseInsert PROVE Others'
  <2>1. PICK i \in Slots : table_states' = Allocated(i)
    BY <1>11 DEF RefuseInsert
  <2>2. Len(table_states') = Len(table_states)
    BY <1>0, <2>1, AllocatedType DEF Slots, find_table_state
  <2>3. QED
    BY <1>0, <1>11, <2>2, EveryFailureGivesUp, FailTypeOK
<1>12. ASSUME Select PROVE Others'
  BY <1>0, <1>12, SucceedTypeOK DEF Select, data
<1>13. ASSUME Refuse PROVE Others'
  BY <1>0, <1>13, EveryFailureGivesUp, FailTypeOK DEF Refuse
<1>14. ASSUME ReadCount PROVE Others'
  BY <1>0, <1>14, LineType, LimitsAssumption DEF ReadCount, data
<1>15. ASSUME CountEndOfInput PROVE Others'
  BY <1>0, <1>15 DEF CountEndOfInput, Exit, data, bench
<1>16. ASSUME Build PROVE Others'
  <2>1. record_count \in 1 .. IntMax
    BY <1>16 DEF Build, Phase
  <2>2. PICK product \in Products(record_count) : target_id' = Target(product)
    BY <1>16 DEF Build
  <2>3. target_id' \in 1 .. IntMax
    BY <2>1, <2>2, TargetInRange, IntMaxAssumption
  <2>4. target_id' \in Int_ /\ target_id' \in 0 .. IntMax
    BY <2>3, IntMaxAssumption DEF Int_
  <2>5. lookups' \in Seq(Seq(Pieces))
    <3>1. /\ Lookup("select key", target_id') \in Seq(Pieces)
          /\ Lookup("select", target_id') \in Seq(Pieces)
      BY <2>4, LookupType DEF Verbs
    <3>2. lookups' = <<Lookup("select key", target_id'), Lookup("select key", target_id'),
                       Lookup("select", target_id')>>
      BY <1>16 DEF Build
    <3>3. QED
      BY <3>1, <3>2, ThreeInSeq
  <2>6. QED
    BY <1>0, <1>16, <2>4, <2>5 DEF Build, front
<1>17. ASSUME BuildFails PROVE Others'
  BY <1>0, <1>17 DEF BuildFails, Exit, bench
<1>18. ASSUME InsertPlainFails PROVE Others'
  BY <1>0, <1>18, EveryFailureGivesUp, FailTypeOK DEF InsertPlainFails
<1>19. ASSUME UNCHANGED vars PROVE Others'
  BY <1>0, <1>19 DEF vars
<1>20. Others'
  BY <1>1, <1>2, <1>3, <1>4, <1>5, <1>6, <1>7, <1>8, <1>9, <1>10, <1>11, <1>12,
     <1>13, <1>14, <1>15, <1>16, <1>17, <1>18, <1>19 DEF Next
<1>21. Types'
  BY <1>0, TypesStep
<1>22. QED
  BY <1>20, <1>21 DEF TypeOK, Types, Slot

-----------------------------------------------------------------------------
(* Phase. *)

LEMMA PhaseInit == Init => Phase
<1> SUFFICES ASSUME Init PROVE Phase
  OBVIOUS
<1>1. mode \in Modes
  BY InputsAssumption DEF Init
<1>2. pc \in {"load", "prompt", "count"}
  BY <1>1 DEF Init, Modes
<1>3. table_states = <<>> /\ DOMAIN table_states = {}
  BY DEF Init
<1>4. dir = "own" /\ target_id = 0 /\ acked = [d \in Dirs |-> [table \in Tables |-> <<>>]]
  BY DEF Init
<1>5. QED
  BY <1>2, <1>3, <1>4 DEF Phase

\* Where a statement, or a text, leads never is the benchmark's preparation.
LEMMA AfterPhase ==
    ASSUME Phase, dir \in Dirs, NEW ok \in BOOLEAN, After(ok), UNCHANGED <<table_states, lookups>>
    PROVE  Phase'
BY AfterText DEF Phase

LEMMA PhaseStep ==
    ASSUME TypeOK, Phase, [Next]_vars
    PROVE  Phase'
<1>0. Types /\ dir \in Dirs
  BY TypeOKTypes DEF TypeOK
<1> DEFINE KeyedSlot(slot) == KeyedIn(slot.dir, slot.table)
<1>1. ASSUME LoadFile PROVE Phase'
  BY <1>1 DEF LoadFile, Phase, data
<1>2. ASSUME LoadFileFails PROVE Phase'
  BY <1>2 DEF LoadFileFails, Exit, Phase, data
<1>3. ASSUME ReadLine PROVE Phase'
  BY <1>3 DEF ReadLine, Phase, data
<1>4. ASSUME ReadExit PROVE Phase'
  BY <1>4 DEF ReadExit, Exit, Phase, data
<1>5. ASSUME EndOfInput PROVE Phase'
  BY <1>5 DEF EndOfInput, Exit, Phase, data
<1>6. ASSUME Parse PROVE Phase'
  <2>1. CASE program' # <<>>
    BY <1>6, <2>1 DEF Parse, Phase, data
  <2>2. CASE program' = <<>>
    BY <1>0, <1>6, <2>2, AfterPhase DEF Parse, data, bench
  <2>3. QED
    BY <2>1, <2>2
<1>7. ASSUME GiveUp, UNCHANGED table_states PROVE Phase'
  BY <1>0, <1>7, AfterPhase DEF GiveUp, bench
<1>8. ASSUME pc = "run", Succeed,
             \A i \in DOMAIN table_states' :
               i \in DOMAIN table_states /\ table_states'[i].dir = table_states[i].dir
               /\ table_states'[i].table = table_states[i].table
      PROVE Phase'
  <2>1. \A i \in DOMAIN table_states' : KeyedSlot(table_states'[i])
    BY <1>8 DEF Phase
  <2>2. pc' \notin {"count", "build"} /\ (pc' = "load" => lookups' # <<>>)
    BY <1>0, <1>8, AfterText DEF Succeed, bench
  <2>3. QED
    BY <2>1, <2>2 DEF Phase
<1>9. ASSUME LoadState PROVE Phase'
  <2>1. PICK n : table_states' = Append(table_states,
                [dir |-> dir, table |-> t, next_id |-> n, pk_index |-> Rows(dir, t)])
    BY <1>9 DEF LoadState
  <2>2. KeyedSlot([dir |-> dir, table |-> t, next_id |-> n, pk_index |-> Rows(dir, t)])
    BY <1>0, <1>9 DEF LoadState, NeedsSlot, Keyed, Known, DirSchemas, KeyedIn
  <2>3. \A i \in DOMAIN table_states' : KeyedSlot(table_states'[i])
    BY <1>0, <2>1, <2>2 DEF Types, Phase
  <2>4. QED
    BY <1>9, <2>3 DEF LoadState, Phase, front, bench
<1>10. ASSUME LoadStateFails PROVE Phase'
  BY <1>7, <1>10, EveryFailureGivesUp DEF LoadStateFails
<1>11. ASSUME InsertKeyed PROVE Phase'
  <2>1. pc = "run" /\ program # <<>> /\ Succeed
    BY <1>11 DEF InsertKeyed, TypeOK
  <2>2. PICK i \in Slots :
          table_states' = Inserted(i, NewId(i), NextIdAfter(NewId(i), table_states[i].next_id))
    BY <1>11 DEF InsertKeyed, Inserted
  <2>3. i \in DOMAIN table_states
    BY DEF Slots, find_table_state
  <2>4. NewId(i) \in Int_ /\ NextIdAfter(NewId(i), table_states[i].next_id) \in Int_
    BY <1>0, <2>1, <2>3, NewIdType, NextIdAfterType, SlotFields
  <2>5. /\ Len(table_states') = Len(table_states) /\ table_states' \in Seq(Slot)
        /\ \A j \in DOMAIN table_states :
             /\ table_states'[j].dir = table_states[j].dir
             /\ table_states'[j].table = table_states[j].table
    BY <1>0, <2>2, <2>3, <2>4, InsertedSlot
  <2>6. DOMAIN table_states' = DOMAIN table_states
    BY <1>0, <2>5 DEF Types
  <2>7. QED
    BY <1>8, <2>1, <2>5, <2>6
<1>12. ASSUME InsertPlain PROVE Phase'
  BY <1>8, <1>12 DEF InsertPlain
<1>13. ASSUME RefuseInsert PROVE Phase'
  <2>1. PICK i \in Slots : table_states' = Allocated(i)
    BY <1>13 DEF RefuseInsert
  <2>2. /\ table_states' \in Seq(Slot) /\ Len(table_states') = Len(table_states)
        /\ \A j \in DOMAIN table_states :
             /\ table_states'[j].dir = table_states[j].dir
             /\ table_states'[j].table = table_states[j].table
    BY <1>0, <2>1, AllocatedType DEF Slots, find_table_state
  <2>3. DOMAIN table_states' = DOMAIN table_states
    BY <1>0, <2>2 DEF Types
  <2>4. \A j \in DOMAIN table_states' : KeyedSlot(table_states'[j])
    BY <2>2, <2>3 DEF Phase
  <2>5. GiveUp
    BY <1>13, EveryFailureGivesUp
  <2>6. pc' \notin {"count", "build"} /\ (pc' = "load" => lookups' # <<>>)
    BY <1>0, <2>5, AfterText DEF GiveUp, bench
  <2>7. QED
    BY <2>4, <2>6 DEF Phase
<1>14. ASSUME Select PROVE Phase'
  BY <1>8, <1>14 DEF Select, data
<1>15. ASSUME Refuse PROVE Phase'
  BY <1>7, <1>15, EveryFailureGivesUp DEF Refuse
<1>16. ASSUME ReadCount PROVE Phase'
  BY <1>16 DEF ReadCount, IsAnswer, Phase, data
<1>17. ASSUME CountEndOfInput PROVE Phase'
  BY <1>17 DEF CountEndOfInput, Exit, Phase, data
<1>18. ASSUME Build PROVE Phase'
  BY <1>18 DEF Build, Phase
<1>19. ASSUME BuildFails PROVE Phase'
  BY <1>19 DEF BuildFails, Exit, Phase
<1>20. ASSUME InsertPlainFails PROVE Phase'
  BY <1>7, <1>20, EveryFailureGivesUp DEF InsertPlainFails
<1>21. ASSUME UNCHANGED vars PROVE Phase'
  BY <1>21 DEF vars, Phase
<1>22. QED
  BY <1>1, <1>2, <1>3, <1>4, <1>5, <1>6, <1>9, <1>10, <1>11, <1>12, <1>13,
     <1>14, <1>15, <1>16, <1>17, <1>18, <1>19, <1>20, <1>21 DEF Next

-----------------------------------------------------------------------------
(* TargetExists. *)

LEMMA TargetStep ==
    ASSUME Phase, TargetExists, [Next]_vars
    PROVE  TargetExists'
<1>1. ASSUME UNCHANGED <<record_count, target_id>> PROVE TargetExists'
  BY <1>1 DEF TargetExists
<1>2. ASSUME Succeed \/ GiveUp PROVE TargetExists'
  BY <1>1, <1>2 DEF Succeed, GiveUp, bench
<1>3. ASSUME LoadFile \/ LoadFileFails \/ ReadLine \/ ReadExit \/ EndOfInput \/ Parse PROVE TargetExists'
  BY <1>1, <1>3 DEF LoadFile, LoadFileFails, ReadLine, ReadExit, EndOfInput, Parse, bench
<1>4. ASSUME LoadState PROVE TargetExists'
  BY <1>1, <1>4 DEF LoadState, bench
<1>5. ASSUME LoadStateFails \/ InsertKeyed \/ InsertPlain \/ InsertPlainFails \/ RefuseInsert
             \/ Select \/ Refuse
      PROVE TargetExists'
  BY <1>2, <1>5, EveryFailureGivesUp DEF InsertKeyed, InsertPlain, Select
<1>6. ASSUME ReadCount PROVE TargetExists'
  BY <1>6 DEF ReadCount, Phase, TargetExists
<1>7. ASSUME CountEndOfInput \/ BuildFails PROVE TargetExists'
  BY <1>1, <1>7 DEF CountEndOfInput, BuildFails, bench
<1>8. ASSUME Build PROVE TargetExists'
  <2>1. record_count \in 1 .. IntMax /\ record_count' = record_count
    BY <1>8 DEF Build, Phase
  <2>2. PICK product \in Products(record_count) : target_id' = Target(product)
    BY <1>8 DEF Build
  <2>3. QED
    BY <2>1, <2>2, TargetInRange DEF TargetExists
<1>9. ASSUME UNCHANGED vars PROVE TargetExists'
  BY <1>1, <1>9 DEF vars
<1>10. QED
  BY <1>3, <1>4, <1>5, <1>6, <1>7, <1>8, <1>9 DEF Next

-----------------------------------------------------------------------------
(* The front end. *)

\* Each way the command was started has its own course, and only a benchmark that
\* has built its files goes on as a session.
Course ==
    /\ dir = "benchmark" => mode = "benchmark" /\ target_id # 0
    /\ mode = "file" => pc \in {"load", "parse", "run", "exited"} /\ target_id = 0
    /\ mode = "interactive" => pc \in {"prompt", "parse", "run", "exited"}
    /\ pc \in {"count", "build"} => mode = "benchmark"
    /\ mode = "benchmark" /\ pc = "load" => dir = "benchmark"
    /\ mode = "benchmark" /\ pc \in {"prompt", "parse", "run"} => target_id # 0
    /\ pc = "prompt" => dir = "own"
    /\ mode = "file" /\ pc = "load" => ran = <<>>

\* The text in hand: while its statements run they spell it, those done and those
\* to do, and in a file it is all there is.
TextInHand ==
    /\ pc = "parse" => ran = <<>>
    /\ mode = "file" /\ pc \in {"parse", "run"} => text = input
    /\ pc = "run" => Tokens(text) = Spelling(ran \o program)
    /\ WholeTextOnly

FrontEnd == Course /\ TextInHand

LEMMA SpellingLen ==
    ASSUME NEW p \in Seq(Statements)
    PROVE  /\ Spelling(p) = [i \in 1 .. 2 * Len(p) |-> IF i % 2 = 0 THEN Semicolon ELSE p[(i + 1) \div 2]]
           /\ Len(Spelling(p)) = 2 * Len(p)
BY DEF Spelling

\* A text that is n statements is what its statements spell.
LEMMA ParsedSpells ==
    ASSUME NEW s \in Seq(Pieces), parse_program(s) # <<>>
    PROVE  Tokens(s) = Spelling(parse_program(s))
<1> DEFINE N == CHOOSE n \in 1 .. MAX_STATEMENTS : IsProgram(s, n)
           P == [i \in 1 .. N |-> Tokens(s)[2 * i - 1]]
           T == Tokens(s)
<1>1. \E n \in 1 .. MAX_STATEMENTS : IsProgram(s, n)
  BY DEF parse_program
<1>2. N \in 1 .. MAX_STATEMENTS /\ IsProgram(s, N)
  BY <1>1
<1>3. parse_program(s) = P
  BY <1>1 DEF parse_program
<1> HIDE DEF N
<1>4. N \in Nat /\ Len(T) = 2 * N /\ \A i \in 1 .. N : T[2 * i] = Semicolon
  BY <1>2, LimitsAssumption DEF IsProgram
<1>5. T \in Seq(Pieces)
  BY TokensType
<1> HIDE DEF T
<1>6. Len(P) = N /\ \A i \in 1 .. N : P[i] = T[2 * i - 1]
  BY <1>4 DEF T
<1> HIDE DEF P
<1>7. ASSUME NEW i \in 1 .. 2 * N
      PROVE  T[i] = IF i % 2 = 0 THEN Semicolon ELSE P[(i + 1) \div 2]
  <2>1. CASE i % 2 = 0
    <3>1. i \div 2 \in 1 .. N /\ i = 2 * (i \div 2)
      BY <1>4, <2>1
    <3>2. QED
      BY <1>4, <2>1, <3>1
  <2>2. CASE i % 2 # 0
    <3>1. (i + 1) \div 2 \in 1 .. N /\ i = 2 * ((i + 1) \div 2) - 1
      BY <1>4, <2>2
    <3>2. QED
      BY <1>6, <2>2, <3>1
  <2>3. QED
    BY <2>1, <2>2
<1>8. T = [i \in 1 .. 2 * N |-> T[i]]
  BY <1>4, <1>5
<1>9. T = [i \in 1 .. 2 * N |-> IF i % 2 = 0 THEN Semicolon ELSE P[(i + 1) \div 2]]
  BY <1>7, <1>8
<1>10. QED
  BY <1>3, <1>6, <1>9 DEF Spelling, T

\* Where a text leaves the front end.
LEMMA CourseAfter ==
    ASSUME TypeOK, Phase, FrontEnd, NEW ok \in BOOLEAN, After(ok), pc \in {"parse", "run"},
           UNCHANGED <<mode, input, text, target_id>>,
           mode = "file" => text = input /\ (ok <=> ran' # <<>> /\ Tokens(text) = Spelling(ran')),
           ran' # <<>> => Tokens(text) = Spelling(ran' \o program') /\ (mode = "file" => text = input)
    PROVE  FrontEnd' /\ ExitCodeTells' /\ SessionServesAll'
<1>1. dir \in {"own", "benchmark"} /\ mode \in {"file", "interactive", "benchmark"}
  BY DEF TypeOK, Dirs, Modes
<1>2. WholeTextOnly'
  BY DEF WholeTextOnly
<1>3. CASE FromFile /\ pc' = "exited" /\ exit_code' = ExitCode(ok) /\ dir' = dir /\ (~ok \/ mode = "file")
  <2>1. Course'
    BY <1>1, <1>3 DEF FrontEnd, Course
  <2>2. TextInHand'
    BY <1>2, <1>3 DEF TextInHand
  <2>3. ExitCodeTells'
    <3>1. CASE mode = "file"
      <4>1. exit_code' = 0 <=> ran' # <<>> /\ Tokens(input) = Spelling(ran')
        BY <1>3, <3>1 DEF ExitCode
      <4>2. QED
        BY <3>1, <4>1 DEF ExitCodeTells
    <3>2. CASE mode = "benchmark"
      <4>1. exit_code' = 1 /\ dir' = "benchmark"
        BY <1>1, <1>3, <3>2 DEF ExitCode, FromFile
      <4>2. QED
        BY <3>2, <4>1 DEF ExitCodeTells
    <3>3. CASE mode = "interactive"
      BY <1>1, <1>3, <3>3 DEF FromFile, FrontEnd, Course
    <3>4. QED
      BY <1>1, <3>1, <3>2, <3>3
  <2>4. SessionServesAll'
    BY <1>1, <1>3 DEF FromFile, FrontEnd, Course, SessionServesAll
  <2>5. QED
    BY <2>1, <2>2, <2>3, <2>4 DEF FrontEnd
<1>4. CASE dir = "benchmark" /\ ok /\ (IF lookups = <<>> THEN pc' = "prompt" /\ dir' = "own"
                            ELSE pc' = "load" /\ UNCHANGED dir)
  BY <1>1, <1>2, <1>4 DEF FrontEnd, Course, TextInHand, ExitCodeTells, SessionServesAll
<1>5. CASE ~FromFile /\ pc' = "prompt" /\ dir' = dir
  BY <1>1, <1>2, <1>5 DEF FromFile, FrontEnd, Course, TextInHand, ExitCodeTells, SessionServesAll
<1>6. QED
  BY <1>3, <1>4, <1>5 DEF After, Exit, EndsSession

\* The statements done and those to do, before and after one of them.
LEMMA SucceedSpells ==
    ASSUME TypeOK, pc = "run", FrontEnd, Succeed
    PROVE  ran' # <<>> /\ ran' \in Seq(Statements) /\ ran' \o program' = ran \o program
           /\ (Len(program) = 1 => ran' \o program' = ran')
<1>1. program \in Seq(Statements) /\ program # <<>> /\ ran \in Seq(Statements)
  BY DEF TypeOK
<1>2. Head(program) \in Statements /\ Tail(program) \in Seq(Statements)
      /\ program = <<Head(program)>> \o Tail(program) /\ Len(Tail(program)) = Len(program) - 1
  BY <1>1, HeadTailProperties
<1> DEFINE h == Head(program)
           q == Tail(program)
<1>3. ran' = Append(ran, h) /\ program' = q
  BY DEF Succeed, st
<1>4. h \in Statements /\ q \in Seq(Statements) /\ program = <<h>> \o q
  BY <1>2
<1> HIDE DEF h, q
<1>5. Append(ran, h) = ran \o <<h>> /\ Append(ran, h) \in Seq(Statements) /\ Append(ran, h) # <<>>
  BY <1>1, <1>4, AppendProperties, AppendIsConcat
<1>6. (ran \o <<h>>) \o q = ran \o (<<h>> \o q)
  BY <1>1, <1>4, ConcatAssociative
<1>7. Len(program) = 1 => q = <<>>
  BY <1>2, <1>4, EmptySeq DEF q
<1>8. Append(ran, h) \o <<>> = Append(ran, h)
  BY <1>5, ConcatEmptySeq
<1>9. QED
  BY <1>3, <1>4, <1>5, <1>6, <1>7, <1>8

LEMMA FrontSucceed ==
    ASSUME TypeOK, Phase, FrontEnd, pc = "run", Succeed
    PROVE  FrontEnd' /\ ExitCodeTells' /\ SessionServesAll'
<1>1. /\ ran' # <<>> /\ ran' \in Seq(Statements) /\ ran' \o program' = ran \o program
      /\ Len(program) = 1 => ran' \o program' = ran'
  BY SucceedSpells
<1>2. Tokens(text) = Spelling(ran' \o program') /\ (mode = "file" => text = input)
  BY <1>1 DEF FrontEnd, TextInHand
<1>3. UNCHANGED <<mode, input, text, target_id>>
  BY DEF Succeed, bench
<1>4. CASE Len(program) = 1
  <2>1. After(TRUE)
    BY <1>4 DEF Succeed
  <2>2. Tokens(text) = Spelling(ran')
    BY <1>1, <1>2, <1>4
  <2>3. QED
    BY <1>1, <1>2, <1>3, <2>1, <2>2, CourseAfter
<1>5. CASE Len(program) # 1
  <2>1. UNCHANGED <<pc, dir, exit_code>>
    BY <1>5 DEF Succeed
  <2>2. WholeTextOnly'
    BY <1>2, <1>3 DEF WholeTextOnly
  <2>3. TextInHand'
    BY <1>2, <1>3, <2>1, <2>2 DEF TextInHand
  <2>4. Course'
    BY <1>3, <2>1 DEF FrontEnd, Course
  <2>5. QED
    BY <2>1, <2>3, <2>4 DEF FrontEnd, ExitCodeTells, SessionServesAll
<1>6. QED
  BY <1>4, <1>5

\* What was done of a text that has more is not all of it.
LEMMA MoreSpells ==
    ASSUME NEW p \in Seq(Statements), NEW q \in Seq(Statements), q # <<>>
    PROVE  Spelling(p \o q) # Spelling(p)
<1>1. p \o q \in Seq(Statements) /\ Len(p \o q) = Len(p) + Len(q)
  BY ConcatProperties
<1>2. Len(q) # 0 /\ Len(p) \in Nat /\ Len(q) \in Nat
  BY EmptySeq
<1>3. Len(Spelling(p \o q)) = 2 * Len(p \o q) /\ Len(Spelling(p)) = 2 * Len(p)
  BY <1>1, SpellingLen
<1>4. QED
  BY <1>1, <1>2, <1>3

LEMMA FrontFail ==
    ASSUME TypeOK, Phase, FrontEnd, pc = "run", GiveUp
    PROVE  FrontEnd' /\ ExitCodeTells' /\ SessionServesAll'
<1>1. After(FALSE) /\ UNCHANGED <<mode, input, text, program, ran, target_id>>
  BY DEF GiveUp, bench
<1>2. Tokens(text) = Spelling(ran \o program) /\ (mode = "file" => text = input)
  BY DEF FrontEnd, TextInHand
<1>3. Tokens(text) # Spelling(ran)
  BY <1>2, MoreSpells DEF TypeOK
<1>4. QED
  BY <1>1, <1>2, <1>3, CourseAfter

LEMMA FrontParse ==
    ASSUME TypeOK, Phase, FrontEnd, Parse
    PROVE  FrontEnd' /\ ExitCodeTells' /\ SessionServesAll'
<1>1. pc = "parse" /\ ran = <<>> /\ ran' = <<>> /\ UNCHANGED <<mode, input, text, target_id>>
      /\ program' = parse_program(text)
  BY DEF Parse, FrontEnd, TextInHand, bench
<1>2. CASE program' = <<>>
  <2>1. After(FALSE)
    BY <1>2 DEF Parse
  <2>2. mode = "file" => text = input
    BY <1>1 DEF FrontEnd, TextInHand
  <2>3. QED
    BY <1>1, <2>1, <2>2, CourseAfter
<1>3. CASE program' # <<>>
  <2>1. pc' = "run" /\ UNCHANGED <<dir, exit_code>>
    BY <1>3 DEF Parse
  <2>2. Tokens(text) = Spelling(program')
    BY <1>1, <1>3, ParsedSpells DEF TypeOK
  <2>3. <<>> \o program' = program'
    BY <1>1, ParsedType, ConcatEmptySeq
  <2>4. TextInHand'
    BY <1>1, <2>1, <2>2, <2>3 DEF FrontEnd, TextInHand, WholeTextOnly
  <2>5. Course'
    BY <1>1, <2>1 DEF FrontEnd, Course
  <2>6. QED
    BY <2>1, <2>4, <2>5 DEF FrontEnd, ExitCodeTells, SessionServesAll
<1>4. QED
  BY <1>2, <1>3

LEMMA FrontInit == Init => FrontEnd /\ ExitCodeTells /\ SessionServesAll
<1> SUFFICES ASSUME Init PROVE FrontEnd /\ ExitCodeTells /\ SessionServesAll
  OBVIOUS
<1>1. mode \in {"file", "interactive", "benchmark"}
  BY InputsAssumption DEF Init, Modes
<1>2. /\ pc = IF mode = "file" THEN "load" ELSE IF mode = "interactive" THEN "prompt" ELSE "count"
      /\ dir = "own" /\ ran = <<>> /\ target_id = 0
  BY <1>1 DEF Init
<1>3. QED
  BY <1>1, <1>2 DEF FrontEnd, Course, TextInHand, WholeTextOnly, ExitCodeTells, SessionServesAll

LEMMA FrontStep ==
    ASSUME TypeOK, Phase, FrontEnd, ExitCodeTells, SessionServesAll, [Next]_vars
    PROVE  FrontEnd' /\ ExitCodeTells' /\ SessionServesAll'
<1> DEFINE Goal == FrontEnd' /\ ExitCodeTells' /\ SessionServesAll'
<1>0. dir \in {"own", "benchmark"} /\ mode \in {"file", "interactive", "benchmark"}
  BY DEF TypeOK, Dirs, Modes
<1>1. ASSUME LoadFile PROVE Goal
  <2>1. /\ pc = "load" /\ pc' = "parse" /\ ran' = <<>> /\ text' = SqlFile
        /\ UNCHANGED <<mode, dir, input, target_id, exit_code>>
    BY <1>1 DEF LoadFile, Fits, Buffered
  <2>2. mode = "file" => text' = input
    BY <2>1 DEF SqlFile, FrontEnd, Course
  <2>3. WholeTextOnly'
    BY <2>1 DEF WholeTextOnly
  <2>4. TextInHand'
    BY <2>1, <2>2, <2>3 DEF TextInHand
  <2>5. Course'
    BY <1>0, <2>1 DEF FrontEnd, Course
  <2>6. ExitCodeTells' /\ SessionServesAll'
    BY <2>1 DEF ExitCodeTells, SessionServesAll
  <2>7. QED
    BY <2>4, <2>5, <2>6 DEF FrontEnd
<1>2. ASSUME LoadFileFails PROVE Goal
  <2>1. /\ pc = "load" /\ pc' = "exited" /\ exit_code' = 1
        /\ UNCHANGED <<mode, dir, input, text, program, ran, target_id>>
    BY <1>2 DEF LoadFileFails, Exit, bench
  <2>2. WholeTextOnly'
    BY <2>1 DEF FrontEnd, TextInHand, WholeTextOnly
  <2>3. /\ mode' = "file" => ran' = <<>>
        /\ mode' = "benchmark" => dir' = "benchmark"
        /\ mode' # "interactive" /\ exit_code' # 0
    BY <1>0, <2>1 DEF FrontEnd, Course
  <2>4. ExitCodeTells'
    BY <1>0, <2>1, <2>3, Zenon DEF ExitCodeTells
  <2>5. SessionServesAll'
    BY <1>0, <2>1 DEF FrontEnd, Course, SessionServesAll
  <2>6. Course' /\ TextInHand'
    BY <1>0, <2>1, <2>2 DEF FrontEnd, Course, TextInHand
  <2>7. QED
    BY <2>4, <2>5, <2>6 DEF FrontEnd
<1>3. ASSUME ReadLine PROVE Goal
  <2>1. /\ pc = "prompt" /\ pc' \in {"prompt", "parse"} /\ ran' = <<>>
        /\ UNCHANGED <<mode, dir, target_id, exit_code>>
    BY <1>3 DEF ReadLine, bench
  <2>2. QED
    BY <1>0, <2>1 DEF FrontEnd, Course, TextInHand, WholeTextOnly, ExitCodeTells, SessionServesAll
<1>4. ASSUME ReadExit PROVE Goal
  <2>1. /\ pc = "prompt" /\ pc' = "exited" /\ ran' = <<>> /\ exit_code' = 0
        /\ text' = <<Symbol("exit")>>
        /\ UNCHANGED <<mode, dir, target_id>>
    BY <1>4 DEF ReadExit, Exit, bench
  <2>2. QED
    BY <1>0, <2>1 DEF FrontEnd, Course, TextInHand, WholeTextOnly, ExitCodeTells, SessionServesAll
<1>5. ASSUME EndOfInput PROVE Goal
  <2>1. /\ pc = "prompt" /\ pc' = "exited" /\ exit_code' = 0 /\ input = <<>>
        /\ UNCHANGED <<mode, dir, input, text, program, ran, target_id>>
    BY <1>5 DEF EndOfInput, Exit, bench
  <2>2. WholeTextOnly'
    BY <2>1 DEF FrontEnd, TextInHand, WholeTextOnly
  <2>3. QED
    BY <1>0, <2>1, <2>2 DEF FrontEnd, Course, TextInHand, ExitCodeTells, SessionServesAll
<1>6. ASSUME Parse PROVE Goal
  BY <1>6, FrontParse
<1>7. ASSUME LoadState PROVE Goal
  <2>1. UNCHANGED <<mode, pc, dir, input, text, program, ran, target_id, exit_code>>
    BY <1>7 DEF LoadState, front, bench
  <2>2. QED
    BY <2>1 DEF FrontEnd, Course, TextInHand, WholeTextOnly, ExitCodeTells, SessionServesAll
<1>8. ASSUME LoadStateFails \/ InsertPlainFails \/ RefuseInsert \/ Refuse PROVE Goal
  <2>1. pc = "run" /\ GiveUp
    BY <1>8, EveryFailureGivesUp DEF LoadStateFails, InsertPlainFails, RefuseInsert, Refuse
  <2>2. QED
    BY <2>1, FrontFail
<1>9. ASSUME InsertKeyed \/ InsertPlain \/ Select PROVE Goal
  <2>1. pc = "run" /\ Succeed
    BY <1>9 DEF InsertKeyed, InsertPlain, Select
  <2>2. QED
    BY <2>1, FrontSucceed
<1>10. ASSUME ReadCount \/ CountEndOfInput PROVE Goal
  <2>1. /\ pc = "count" /\ pc' \in {"count", "build", "exited"} /\ ran' = ran
        /\ text' = text /\ program' = program
        /\ pc' = "exited" => exit_code' = 1
        /\ UNCHANGED <<mode, dir, target_id>>
    BY <1>10 DEF ReadCount, CountEndOfInput, Exit, data, bench
  <2>2. mode = "benchmark" /\ target_id = 0
    BY <2>1 DEF FrontEnd, Course, Phase
  <2>3. WholeTextOnly'
    BY <2>1, <2>2 DEF FrontEnd, TextInHand, WholeTextOnly
  <2>4. QED
    BY <2>1, <2>2, <2>3 DEF FrontEnd, Course, TextInHand, ExitCodeTells, SessionServesAll
<1>11. ASSUME Build PROVE Goal
  <2>1. /\ pc = "build" /\ pc' = "load" /\ dir' = "benchmark"
        /\ target_id' \in {Target(product) : product \in Products(record_count)}
        /\ UNCHANGED <<mode, input, text, program, ran>>
    BY <1>11 DEF Build, front
  <2>2. mode = "benchmark" /\ record_count \in 1 .. IntMax
    BY <2>1 DEF FrontEnd, Course, Phase
  <2>3. target_id' \in 1 .. record_count
    BY <2>1, <2>2, TargetInRange
  <2>4. target_id' # 0
    BY <2>2, <2>3
  <2>5. WholeTextOnly'
    BY <2>1 DEF FrontEnd, TextInHand, WholeTextOnly
  <2>6. QED
    BY <2>1, <2>2, <2>4, <2>5 DEF FrontEnd, Course, TextInHand, ExitCodeTells, SessionServesAll
<1>12. ASSUME BuildFails PROVE Goal
  <2>1. /\ pc = "build" /\ pc' = "exited" /\ exit_code' = 1
        /\ UNCHANGED <<mode, dir, input, text, program, ran, target_id>>
    BY <1>12 DEF BuildFails, Exit, bench
  <2>2. mode = "benchmark" /\ target_id = 0
    BY <2>1 DEF FrontEnd, Course, Phase
  <2>3. WholeTextOnly'
    BY <2>1 DEF FrontEnd, TextInHand, WholeTextOnly
  <2>4. QED
    BY <2>1, <2>2, <2>3 DEF FrontEnd, Course, TextInHand, ExitCodeTells, SessionServesAll
<1>13. ASSUME UNCHANGED vars PROVE Goal
  BY <1>13 DEF vars, FrontEnd, Course, TextInHand, WholeTextOnly, ExitCodeTells, SessionServesAll
<1>14. QED
  BY <1>1, <1>2, <1>3, <1>4, <1>5, <1>6, <1>7, <1>8, <1>9, <1>10, <1>11, <1>12, <1>13 DEF Next

-----------------------------------------------------------------------------
(* FilesFollowAcks. *)

\* The end of a sequence, from some place on.
IsTail(s, all) == \E n \in 0 .. Len(all) : s = SubSeq(all, n + 1, Len(all))

LEMMA FollowsAcks ==
    FilesFollowAcks <=>
        \A d \in Dirs, table \in Tables : IsMade(d, table) => IsTail(files[d][table], Promised(d, table))
BY DEF FilesFollowAcks, IsTail

LEMMA WholeIsTail ==
    ASSUME NEW all \in Seq(Int_)
    PROVE  IsTail(all, all) /\ IsTail(<<>>, all)
<1>1. Len(all) \in Nat /\ all = SubSeq(all, 0 + 1, Len(all))
  OBVIOUS
<1>2. <<>> = SubSeq(all, Len(all) + 1, Len(all))
  BY <1>1
<1>3. QED
  BY <1>1, <1>2 DEF IsTail

LEMMA TailAndRow ==
    ASSUME NEW all \in Seq(Int_), NEW k \in Int_, NEW s \in Seq(Int_), IsTail(s, all)
    PROVE  IsTail(Append(s, k), Append(all, k)) /\ IsTail(<<k>>, Append(all, k))
<1>1. PICK n \in 0 .. Len(all) : s = SubSeq(all, n + 1, Len(all))
  BY DEF IsTail
<1> DEFINE more == Append(all, k)
<1>2. /\ Len(all) \in Nat /\ more \in Seq(Int_) /\ Len(more) = Len(all) + 1
      /\ \A i \in 1 .. Len(all) : more[i] = all[i]
      /\ more[Len(all) + 1] = k
  BY AppendProperties
<1> HIDE DEF more
<1>3. ASSUME NEW q \in Seq(Int_), NEW m \in 0 .. Len(all), Len(q) = Len(all) - m + 1,
             \A i \in 1 .. Len(q) : q[i] = more[i + m]
      PROVE  q = SubSeq(more, m + 1, Len(more))
  BY <1>2, <1>3
<1>4. Append(s, k) = SubSeq(more, n + 1, Len(more))
  <2>1. /\ Len(s) = Len(all) - n
        /\ \A i \in 1 .. Len(s) : s[i] = all[i + n]
    BY <1>1, <1>2
  <2>a. /\ Append(s, k) \in Seq(Int_) /\ Len(Append(s, k)) = Len(s) + 1
        /\ \A i \in 1 .. Len(s) : Append(s, k)[i] = s[i]
        /\ Append(s, k)[Len(s) + 1] = k
    BY AppendProperties
  <2>b. ASSUME NEW i \in 1 .. Len(s) + 1 PROVE Append(s, k)[i] = more[i + n]
    <3>1. CASE i \in 1 .. Len(s)
      <4>1. Append(s, k)[i] = all[i + n]
        BY <2>1, <2>a, <3>1
      <4>2. i + n \in 1 .. Len(all)
        BY <1>1, <1>2, <2>1, <3>1
      <4>3. QED
        BY <1>2, <4>1, <4>2
    <3>2. CASE i = Len(s) + 1
      <4>1. i + n = Len(all) + 1
        BY <1>1, <1>2, <2>1, <3>2
      <4>2. QED
        BY <1>2, <2>a, <3>2, <4>1
    <3>3. QED
      <4>1. Len(s) \in Nat
        BY LenProperties
      <4>2. QED
        BY <3>1, <3>2, <4>1
  <2>2. /\ Append(s, k) \in Seq(Int_) /\ Len(Append(s, k)) = Len(all) - n + 1
        /\ \A i \in 1 .. Len(Append(s, k)) : Append(s, k)[i] = more[i + n]
    BY <2>1, <2>a, <2>b
  <2>3. QED
    BY <1>1, <1>3, <2>2
<1>5. <<k>> = SubSeq(more, Len(all) + 1, Len(more))
  <2>1. /\ <<k>> \in Seq(Int_) /\ Len(<<k>>) = Len(all) - Len(all) + 1
        /\ \A i \in 1 .. Len(<<k>>) : <<k>>[i] = more[i + Len(all)]
    BY <1>2
  <2>2. Len(all) \in 0 .. Len(all)
    BY <1>2
  <2>3. QED
    BY <1>3, <2>1, <2>2
<1>6. n \in 0 .. Len(more) /\ Len(all) \in 0 .. Len(more)
  BY <1>1, <1>2
<1>7. QED
  BY <1>4, <1>5, <1>6 DEF IsTail, more

\* What is promised is a sequence of ids; a row that is stored is one more.
LEMMA PromisedType ==
    ASSUME Types, NEW d \in Dirs, NEW table \in Tables
    PROVE  /\ Base(d, table) \in Seq(Int_) /\ acked[d][table] \in Seq(Int_)
           /\ Promised(d, table) \in Seq(Int_)
<1>1. Base(d, table) \in Seq(Int_) /\ acked[d][table] \in Seq(Int_)
  BY PreloadedAssumption, GeneratedType DEF Base, Types
<1>2. QED
  BY <1>1, ConcatProperties DEF Promised

LEMMA PromisedStored ==
    ASSUME Types, t \in Tables, NEW k \in Int_, Stored(k), record_count' = record_count,
           NEW d \in Dirs, NEW table \in Tables
    PROVE  Promised(d, table)' = IF d = dir /\ table = t THEN Append(Promised(d, table), k)
                                 ELSE Promised(d, table)
<1>1. Base(d, table)' = Base(d, table)
  BY DEF Base
<1>2. acked'[d][table] = IF d = dir /\ table = t THEN Append(acked[d][table], k)
                         ELSE acked[d][table]
  BY StoredRow
<1>3. Base(d, table) \in Seq(Int_) /\ acked[d][table] \in Seq(Int_)
  BY PromisedType
<1>4. \A b \in Seq(Int_), a \in Seq(Int_) : b \o Append(a, k) = Append(b \o a, k)
  OBVIOUS
<1>5. Base(d, table) \o Append(acked[d][table], k) = Append(Base(d, table) \o acked[d][table], k)
  BY <1>3, <1>4, Zenon
<1>6. QED
  BY <1>1, <1>2, <1>5 DEF Promised

LEMMA PromisedKept ==
    ASSUME UNCHANGED <<acked, record_count>>, NEW d, NEW table
    PROVE  Promised(d, table)' = Promised(d, table)
BY DEF Promised, Base

\* The benchmark writes one file.
LEMMA FilesGenerated ==
    ASSUME Types, NEW g, files' = [files EXCEPT !["benchmark"]["users"] = g],
           NEW d \in Dirs, NEW table \in Tables
    PROVE  files'[d][table] = IF d = "benchmark" /\ table = "users" THEN g ELSE files[d][table]
BY TablesAssumption DEF Types, Dirs

\* A row more in the file and in what was promised.
LEMMA FilesStored ==
    ASSUME Types, t \in Tables, FilesFollowAcks, NEW k \in Int_, Stored(k),
           UNCHANGED <<record_count, target_id>>
    PROVE  FilesFollowAcks'
<1> SUFFICES ASSUME NEW d \in Dirs, NEW table \in Tables, IsMade(d, table)
             PROVE  IsTail(files'[d][table], Promised(d, table)')
  BY DEF FilesFollowAcks, IsTail, IsMade
<1>1. IsTail(files[d][table], Promised(d, table))
  BY FollowsAcks
<1>2. Promised(d, table) \in Seq(Int_) /\ files[d][table] \in Seq(Int_)
  BY PromisedType DEF Types
<1>3. CASE d = dir /\ table = t
  <2>1. PICK recreated \in Recreations :
          files'[d][table] = (IF recreated THEN <<>> ELSE files[d][table]) \o <<k>>
    BY <1>3, StoredRow
  <2>2. files[d][table] \o <<k>> = Append(files[d][table], k) /\ <<>> \o <<k>> = <<k>>
    BY <1>2, AppendIsConcat, ConcatEmptySeq
  <2>3. files'[d][table] \in {<<k>>, Append(files[d][table], k)}
    BY <2>1, <2>2
  <2>4. Promised(d, table)' = Append(Promised(d, table), k)
    BY <1>3, PromisedStored
  <2>5. /\ IsTail(Append(files[d][table], k), Append(Promised(d, table), k))
        /\ IsTail(<<k>>, Append(Promised(d, table), k))
    BY <1>1, <1>2, TailAndRow
  <2>6. QED
    BY <2>3, <2>4, <2>5, Zenon
<1>4. CASE ~(d = dir /\ table = t)
  <2>1. files'[d][table] = files[d][table] /\ Promised(d, table)' = Promised(d, table)
    BY <1>4, StoredRow, PromisedStored
  <2>2. QED
    BY <1>1, <2>1, Zenon
<1>5. QED
  BY <1>3, <1>4

LEMMA FilesFail ==
    ASSUME Types, t \in Tables, FilesFollowAcks, AppendFails
    PROVE  FilesFollowAcks'
<1>1. UNCHANGED <<acked, record_count, target_id>>
  BY FailedRows DEF GiveUp, bench
<1> SUFFICES ASSUME NEW d \in Dirs, NEW table \in Tables, IsMade(d, table)
             PROVE  IsTail(files'[d][table], Promised(d, table)')
  BY <1>1 DEF FilesFollowAcks, IsTail, IsMade
<1>2. IsTail(files[d][table], Promised(d, table)) /\ IsTail(<<>>, Promised(d, table))
  BY FollowsAcks, PromisedType, WholeIsTail
<1>3. files'[d][table] \in {<<>>, files[d][table]}
  BY FailedRows
<1>4. Promised(d, table)' = Promised(d, table)
  BY <1>1, PromisedKept
<1>5. QED
  BY <1>2, <1>3, <1>4, Zenon

LEMMA FilesKept ==
    ASSUME UNCHANGED <<files, acked, record_count, target_id>>
    PROVE  /\ FilesFollowAcks => FilesFollowAcks'
           /\ FilesHoldAcks => FilesHoldAcks'
BY DEF FilesFollowAcks, FilesHoldAcks, Promised, Base, IsMade

LEMMA FilesInit == Init => FilesHoldAcks /\ FilesFollowAcks
<1> SUFFICES ASSUME Init PROVE FilesHoldAcks /\ FilesFollowAcks
  OBVIOUS
<1>0. Types
  BY TypesInit
<1>1. ASSUME NEW d \in Dirs, NEW table \in Tables, IsMade(d, table)
      PROVE  files[d][table] = Promised(d, table)
  <2>1. files[d][table] = Preloaded[d][table] /\ acked[d][table] = <<>> /\ target_id = 0
    BY DEF Init
  <2>2. Preloaded[d][table] \in Seq(Int_)
    BY PreloadedAssumption
  <2>3. Base(d, table) = Preloaded[d][table]
    BY <1>1, <2>1 DEF Base, IsMade, Dirs
  <2>4. QED
    BY <2>1, <2>2, <2>3, ConcatEmptySeq DEF Promised
<1>2. \A d \in Dirs, table \in Tables :
        IsMade(d, table) => IsTail(files[d][table], Promised(d, table))
  BY <1>0, <1>1, WholeIsTail, PromisedType
<1>3. QED
  BY <1>1, <1>2, FollowsAcks DEF FilesHoldAcks

\* Until the benchmark's file is written nothing is said of it; then it is what
\* Base says.
LEMMA BenchmarkFile ==
    ASSUME TypeOK, Phase, ReadCount \/ Build \/ BuildFails, NEW d \in Dirs, NEW table \in Tables
    PROVE  /\ d = "own" \/ table # "users" =>
                IsMade(d, table) /\ files'[d][table] = files[d][table]
                /\ Promised(d, table)' = Promised(d, table)
           /\ ~(d = "own" \/ table # "users") /\ IsMade(d, table)' =>
                files'[d][table] = Promised(d, table)' /\ Promised(d, table)' \in Seq(Int_)
<1>0. Types /\ target_id = 0 /\ acked' = acked
  BY TypeOKTypes DEF Phase, ReadCount, Build, BuildFails, data
<1>a. acked[d][table] = <<>>
  <2>1. pc \in {"count", "build"}
    BY Zenon DEF ReadCount, Build, BuildFails
  <2>2. acked = [c \in Dirs |-> [x \in Tables |-> <<>>]]
    BY <2>1 DEF Phase
  <2>3. QED
    BY <2>2
<1>1. acked[d][table] = <<>> /\ (IsMade(d, table) <=> d = "own" \/ table # "users")
  BY <1>0, <1>a DEF IsMade
<1>2. ASSUME d = "own" \/ table # "users"
      PROVE  files'[d][table] = files[d][table] /\ Promised(d, table)' = Promised(d, table)
  <2>1. Base(d, table)' = Base(d, table)
    BY <1>2 DEF Base, Dirs
  <2>2. Promised(d, table)' = Promised(d, table)
    BY <1>0, <2>1 DEF Promised
  <2>3. files'[d][table] = files[d][table]
    BY <1>0, <1>2, FilesGenerated DEF ReadCount, Build, BuildFails, data
  <2>4. QED
    BY <2>2, <2>3
<1>3. ASSUME ~(d = "own" \/ table # "users"), IsMade(d, table)'
      PROVE  files'[d][table] = Promised(d, table)' /\ Promised(d, table)' \in Seq(Int_)
  <2>1. Build /\ d = "benchmark" /\ table = "users"
    BY <1>0, <1>3 DEF IsMade, ReadCount, BuildFails, bench, Dirs
  <2> DEFINE g == [i \in 1 .. record_count |-> i]
  <2>a. files' = [files EXCEPT !["benchmark"]["users"] = g] /\ record_count' = record_count
    BY <2>1 DEF Build
  <2>3. g \in Seq(Int_)
    BY <1>0, GeneratedType
  <2>4. Base(d, table)' = g
    BY <2>1, <2>a DEF Base
  <2>5. acked'[d][table] = <<>>
    BY <1>0, <1>1
  <2> HIDE DEF g
  <2>2. files'[d][table] = g
    BY <1>0, <2>1, <2>a, FilesGenerated
  <2>6. Promised(d, table)' = g
    BY <2>3, <2>4, <2>5, ConcatEmptySeq DEF Promised
  <2>7. QED
    BY <2>2, <2>3, <2>6
<1>4. QED
  BY <1>1, <1>2, <1>3

LEMMA FilesOfBenchmark ==
    ASSUME TypeOK, Phase, ReadCount \/ Build \/ BuildFails
    PROVE  /\ FilesFollowAcks => FilesFollowAcks'
           /\ FilesHoldAcks => FilesHoldAcks'
<1>1. ASSUME FilesFollowAcks PROVE FilesFollowAcks'
  <2>1. \A d \in Dirs, table \in Tables :
          IsMade(d, table)' => IsTail(files'[d][table], Promised(d, table)')
    BY <1>1, BenchmarkFile, FollowsAcks, WholeIsTail
  <2>2. QED
    BY <2>1 DEF FilesFollowAcks, IsTail
<1>2. ASSUME FilesHoldAcks PROVE FilesHoldAcks'
  BY <1>2, BenchmarkFile DEF FilesHoldAcks
<1>3. QED
  BY <1>1, <1>2

\* The steps that leave files, history and benchmark alone.
LEMMA FilesAlone ==
    ASSUME \/ LoadFile \/ LoadFileFails \/ ReadLine \/ ReadExit \/ EndOfInput \/ Parse
           \/ LoadState \/ LoadStateFails \/ Select \/ Refuse \/ CountEndOfInput
           \/ UNCHANGED vars
    PROVE  UNCHANGED <<files, acked, record_count, target_id>>
BY DEF LoadFile, LoadFileFails, ReadLine, ReadExit, EndOfInput, Parse, LoadState,
       LoadStateFails, Select, Refuse, CountEndOfInput, Succeed, FailStatement, GiveUp,
       data, bench, vars

\* What an INSERT does to the files.
LEMMA InsertsRows ==
    ASSUME TypeOK, InsertKeyed \/ InsertPlain \/ InsertPlainFails \/ RefuseInsert
    PROVE  /\ t \in Tables /\ UNCHANGED <<record_count, target_id>>
           /\ \/ \E k \in Int_ : Stored(k)
              \/ AppendFails
              \/ UNCHANGED <<files, acked>>
<1>0. Types /\ program # <<>> /\ t \in Tables /\ st \in Statements
  BY TypeOKTypes, RunningStatement
     DEF TypeOK, InsertKeyed, InsertPlain, InsertPlainFails, RefuseInsert
<1>1. ASSUME InsertKeyed
      PROVE  (\E k \in Int_ : Stored(k)) /\ UNCHANGED <<record_count, target_id>>
  <2>1. PICK i \in Slots : Stored(NewId(i))
    BY <1>1 DEF InsertKeyed
  <2>2. NewId(i) \in Int_
    BY <1>0, NewIdType DEF Slots, find_table_state
  <2>3. QED
    BY <1>1, <2>1, <2>2 DEF InsertKeyed, Succeed, bench
<1>2. ASSUME InsertPlain
      PROVE  (\E k \in Int_ : Stored(k)) /\ UNCHANGED <<record_count, target_id>>
  BY <1>0, <1>2 DEF InsertPlain, Succeed, bench, Statements
<1>3. ASSUME InsertPlainFails \/ RefuseInsert
      PROVE  /\ AppendFails \/ UNCHANGED <<files, acked>>
             /\ UNCHANGED <<record_count, target_id>>
  BY <1>3, EveryFailureGivesUp
     DEF InsertPlainFails, RefuseInsert, RefuseTaken, FailStatement, GiveUp, bench
<1>4. QED
  BY <1>0, <1>1, <1>2, <1>3

LEMMA FilesStep ==
    ASSUME TypeOK, Phase, FilesFollowAcks, [Next]_vars
    PROVE  FilesFollowAcks'
<1>1. ASSUME InsertKeyed \/ InsertPlain \/ InsertPlainFails \/ RefuseInsert
      PROVE FilesFollowAcks'
  BY <1>1, TypeOKTypes, InsertsRows, FilesStored, FilesFail, FilesKept
<1>2. ASSUME ReadCount \/ Build \/ BuildFails PROVE FilesFollowAcks'
  BY <1>2, FilesOfBenchmark
<1>3. QED
  BY <1>1, <1>2, FilesAlone, FilesKept DEF Next

-----------------------------------------------------------------------------
(* FilesHoldAcks. *)

LEMMA FilesHoldStep ==
    ASSUME TypeOK, Phase, FilesHoldAcks, "open fails" \notin Faults, [Next]_vars
    PROVE  FilesHoldAcks'
<1>0. Types /\ Recreations = {FALSE}
  BY TypeOKTypes DEF Recreations
<1>1. ASSUME t \in Tables, NEW k \in Int_, Stored(k), UNCHANGED <<record_count, target_id>>
      PROVE FilesHoldAcks'
  <2> SUFFICES ASSUME NEW d \in Dirs, NEW table \in Tables, IsMade(d, table)
               PROVE  files'[d][table] = Promised(d, table)'
    BY <1>1 DEF FilesHoldAcks, IsMade
  <2>1. files[d][table] = Promised(d, table) /\ files[d][table] \in Seq(Int_)
    BY <1>0 DEF FilesHoldAcks, Types
  <2>2. Promised(d, table)' = IF d = dir /\ table = t THEN Append(Promised(d, table), k)
                              ELSE Promised(d, table)
    BY <1>0, <1>1, PromisedStored
  <2>3. CASE d = dir /\ table = t
    <3>1. files'[d][table] = files[d][table] \o <<k>>
      BY <1>0, <1>1, <2>3, StoredRow
    <3>2. files'[d][table] = Append(files[d][table], k)
      BY <1>1, <2>1, <3>1, AppendIsConcat
    <3>3. QED
      BY <2>1, <2>2, <2>3, <3>2
  <2>4. CASE ~(d = dir /\ table = t)
    BY <1>0, <1>1, <2>1, <2>2, <2>4, StoredRow
  <2>5. QED
    BY <2>3, <2>4
<1>2. ASSUME InsertKeyed \/ InsertPlain \/ InsertPlainFails \/ RefuseInsert
      PROVE FilesHoldAcks'
  BY <1>1, <1>2, InsertsRows, FilesKept DEF AppendFails
<1>3. ASSUME ReadCount \/ Build \/ BuildFails PROVE FilesHoldAcks'
  BY <1>3, FilesOfBenchmark
<1>4. QED
  BY <1>2, <1>3, FilesAlone, FilesKept DEF Next

-----------------------------------------------------------------------------
(* SlotsFollowFiles. *)

\* The inductive invariant: no two slots are for one table, the next id is above the
\* ids of the index, which are those that were promised, and the file of a keyed
\* table without a slot holds all that was promised.
SlotOf(i, d, table) == table_states[i].dir = d /\ table_states[i].table = table

Apart ==
    \A i, j \in DOMAIN table_states :
        table_states[i].dir = table_states[j].dir /\ table_states[i].table = table_states[j].table
            => i = j
Ahead ==
    \A i \in DOMAIN table_states :
        \A k \in table_states[i].pk_index : k < table_states[i].next_id \/ k = IntMax
Indexed ==
    \A i \in DOMAIN table_states, d \in Dirs, table \in Tables :
        SlotOf(i, d, table) =>
            IsMade(d, table) /\ table_states[i].pk_index = Ids(Promised(d, table))
Unused ==
    \A d \in Dirs, table \in Tables :
        KeyedIn(d, table) /\ IsMade(d, table) /\ (\A i \in DOMAIN table_states : ~SlotOf(i, d, table))
            => files[d][table] = Promised(d, table)

SlotsInv == Apart /\ Ahead /\ Indexed /\ Unused

LEMMA TailIds ==
    ASSUME NEW all \in Seq(Int_), NEW s, IsTail(s, all)
    PROVE  Ids(s) \subseteq Ids(all)
<1>1. PICK n \in 0 .. Len(all) : s = SubSeq(all, n + 1, Len(all))
  BY DEF IsTail
<1>2. \A i \in DOMAIN s : i + n \in DOMAIN all /\ s[i] = all[i + n]
  BY <1>1
<1>3. QED
  BY <1>2 DEF Ids

LEMMA IdsAppend ==
    ASSUME NEW s \in Seq(Int_), NEW k \in Int_
    PROVE  Ids(Append(s, k)) = Ids(s) \cup {k}
<1> DEFINE more == Append(s, k)
<1>1. /\ Len(s) \in Nat /\ DOMAIN s = 1 .. Len(s) /\ DOMAIN more = 1 .. Len(s) + 1
      /\ \A i \in 1 .. Len(s) : more[i] = s[i]
      /\ more[Len(s) + 1] = k
  BY AppendProperties
<1> HIDE DEF more
<1>2. {more[i] : i \in DOMAIN more} = {s[i] : i \in DOMAIN s} \cup {k}
  BY <1>1
<1>3. QED
  BY <1>2 DEF Ids, more

LEMMA SlotsInvImplies ==
    ASSUME TypeOK, FilesFollowAcks, SlotsInv
    PROVE  SlotsFollowFiles
<1>0. Types
  BY TypeOKTypes
<1> SUFFICES ASSUME NEW i \in DOMAIN table_states
             PROVE  /\ \A j \in DOMAIN table_states :
                         table_states[i].dir = table_states[j].dir
                         /\ table_states[i].table = table_states[j].table => i = j
                    /\ table_states[i].pk_index =
                         Ids(Promised(table_states[i].dir, table_states[i].table))
                    /\ Rows(table_states[i].dir, table_states[i].table) \subseteq
                         table_states[i].pk_index
                    /\ \A k \in table_states[i].pk_index :
                         k < table_states[i].next_id \/ k = IntMax
  BY DEF SlotsFollowFiles
<1> DEFINE d == table_states[i].dir
           table == table_states[i].table
<1>1. d \in Dirs /\ table \in Tables /\ SlotOf(i, d, table)
  BY <1>0, SlotFields DEF SlotOf
<1>2. IsMade(d, table) /\ table_states[i].pk_index = Ids(Promised(d, table))
  BY <1>1 DEF SlotsInv, Indexed
<1>3. Rows(d, table) \subseteq Ids(Promised(d, table))
  <2>1. IsTail(files[d][table], Promised(d, table)) /\ Promised(d, table) \in Seq(Int_)
    BY <1>0, <1>1, <1>2, FollowsAcks, PromisedType
  <2>2. Ids(files[d][table]) \subseteq Ids(Promised(d, table))
    BY <2>1, TailIds
  <2>3. QED
    BY <2>2 DEF Rows, Ids
<1>4. QED
  BY <1>2, <1>3 DEF SlotsInv, Apart, Ahead

LEMMA NextIdAbove ==
    ASSUME NEW k \in Int_, NEW n \in Int_
    PROVE  /\ NextIdAfter(k, n) >= n
           /\ k < NextIdAfter(k, n) \/ k = IntMax
BY IntMaxAssumption DEF NextIdAfter, Int_

LEMMA SlotsLoadState ==
    ASSUME TypeOK, FrontEnd, SlotsInv, LoadState
    PROVE  SlotsInv'
<1>0. Types /\ program # <<>> /\ t \in Tables /\ dir \in Dirs
  BY TypeOKTypes, RunningStatement DEF TypeOK, LoadState
<1>1. PICK m \in Rows(dir, t) \cup {0} :
        /\ IsMaxId(m) /\ m # IntMax
        /\ table_states' = Append(table_states,
               [dir |-> dir, table |-> t, next_id |-> m + 1, pk_index |-> Rows(dir, t)])
  BY DEF LoadState
<1> DEFINE new == [dir |-> dir, table |-> t, next_id |-> m + 1, pk_index |-> Rows(dir, t)]
           n == Len(table_states)
<1>2. Rows(dir, t) \subseteq Int /\ m \in Int
  BY <1>0, IntMaxAssumption DEF Rows, Types, Int_
<1>3. /\ new.dir = dir /\ new.table = t
      /\ new.pk_index = Rows(dir, t) /\ new.next_id = m + 1
  OBVIOUS
<1>4. \A k \in Rows(dir, t) : k < m + 1
  <2>1. \A k \in Rows(dir, t) : k <= m
    BY <1>1 DEF IsMaxId
  <2>2. QED
    BY <1>2, <2>1
<1>5. table_states \in Seq(Slot) /\ n \in Nat /\ DOMAIN table_states = 1 .. n
  BY <1>0 DEF Types
<1> HIDE DEF new, n
<1>6. /\ DOMAIN table_states' = 1 .. n + 1
      /\ \A i \in 1 .. n : table_states'[i] = table_states[i]
      /\ table_states'[n + 1] = new
  BY <1>1, <1>5, AppendProperties DEF new, n
<1>7. \A i \in 1 .. n : ~SlotOf(i, dir, t)
  BY <1>5 DEF LoadState, Slots, find_table_state, SlotOf
<1>8. UNCHANGED <<files, acked, record_count, target_id>>
  BY DEF LoadState, bench
<1>9. \A i \in 1 .. n + 1 : i \in 1 .. n \/ i = n + 1
  BY <1>5
<1>10. Apart'
  BY <1>3, <1>5, <1>6, <1>7, <1>9 DEF SlotsInv, Apart, SlotOf
<1>11. Ahead'
  BY <1>3, <1>4, <1>5, <1>6, <1>9 DEF SlotsInv, Ahead
<1>12. KeyedIn(dir, t) /\ IsMade(dir, t)
  BY DEF LoadState, NeedsSlot, Keyed, Known, DirSchemas, KeyedIn, IsMade, FrontEnd, Course, TypeOK, Dirs
<1>13. Rows(dir, t) = Ids(Promised(dir, t))
  <2>1. files[dir][t] = Promised(dir, t)
    BY <1>0, <1>5, <1>7, <1>12 DEF SlotsInv, Unused
  <2>2. QED
    BY <2>1 DEF Rows, Ids
<1>14. \A d \in Dirs, table \in Tables :
         Promised(d, table)' = Promised(d, table) /\ IsMade(d, table)' = IsMade(d, table)
  BY <1>8, PromisedKept DEF IsMade
<1>15. Indexed'
  <2> SUFFICES ASSUME NEW i \in DOMAIN table_states', NEW d \in Dirs, NEW table \in Tables,
                      SlotOf(i, d, table)'
               PROVE  /\ IsMade(d, table)'
                      /\ table_states'[i].pk_index = Ids(Promised(d, table)')
    BY DEF Indexed, Ids
  <2>1. CASE i \in 1 .. n
    <3>1. SlotOf(i, d, table)
      BY <1>6, <2>1 DEF SlotOf
    <3>2. IsMade(d, table) /\ table_states[i].pk_index = Ids(Promised(d, table))
      BY <1>5, <2>1, <3>1 DEF SlotsInv, Indexed
    <3>3. QED
      BY <1>6, <1>14, <2>1, <3>2
  <2>2. CASE i = n + 1
    <3>1. d = dir /\ table = t
      BY <1>3, <1>6, <2>2 DEF SlotOf
    <3>2. QED
      BY <1>3, <1>6, <1>12, <1>13, <1>14, <2>2, <3>1
  <2>3. QED
    BY <1>6, <1>9, <2>1, <2>2
<1>16. Unused'
  <2> SUFFICES ASSUME NEW d \in Dirs, NEW table \in Tables, KeyedIn(d, table), IsMade(d, table)',
                      \A i \in DOMAIN table_states' : ~SlotOf(i, d, table)'
               PROVE  files'[d][table] = Promised(d, table)'
    BY DEF Unused, KeyedIn
  <2>1. \A i \in DOMAIN table_states : ~SlotOf(i, d, table)
    BY <1>5, <1>6 DEF SlotOf
  <2>2. files[d][table] = Promised(d, table)
    BY <1>14, <2>1 DEF SlotsInv, Unused
  <2>3. QED
    BY <1>8, <1>14, <2>2
<1>17. QED
  BY <1>10, <1>11, <1>15, <1>16 DEF SlotsInv

\* What an INSERT into a keyed table does to the slots: all keep their tables, and
\* one may index an id more or have a greater next id.
LEMMA SlotsInsertKeyed ==
    ASSUME TypeOK, SlotsInv, InsertKeyed
    PROVE  SlotsInv'
<1>0. Types /\ program # <<>> /\ t \in Tables /\ dir \in Dirs
  BY TypeOKTypes, RunningStatement DEF TypeOK, InsertKeyed
<1>1. PICK i \in Slots :
        /\ Stored(NewId(i))
        /\ table_states' = Inserted(i, NewId(i), NextIdAfter(NewId(i), table_states[i].next_id))
  BY DEF InsertKeyed, Inserted
<1>2. i \in DOMAIN table_states /\ SlotOf(i, dir, t)
  BY DEF Slots, find_table_state, SlotOf
<1> DEFINE k == NewId(i)
           n == table_states[i].next_id
           next == NextIdAfter(k, n)
<1>3. k \in Int_ /\ n \in Int_ /\ Int_ \subseteq Int
  BY <1>0, <1>2, NewIdType, SlotFields, IntMaxAssumption DEF Int_
<1> HIDE DEF k, n
<1>4. next \in Int_ /\ next >= n /\ (k < next \/ k = IntMax)
  BY <1>3, NextIdAfterType, NextIdAbove
<1>5. table_states' = Inserted(i, k, next) /\ Stored(k)
  BY <1>1 DEF k, n
<1> HIDE DEF next
<1>6. /\ Inserted(i, k, next) \in Seq(Slot)
      /\ Len(Inserted(i, k, next)) = Len(table_states)
      /\ \A j \in DOMAIN table_states :
           /\ Inserted(i, k, next)[j].dir = table_states[j].dir
           /\ Inserted(i, k, next)[j].table = table_states[j].table
           /\ j # i => Inserted(i, k, next)[j] = table_states[j]
      /\ Inserted(i, k, next)[i].pk_index = table_states[i].pk_index \cup {k}
      /\ Inserted(i, k, next)[i].next_id = next
  BY <1>0, <1>2, <1>3, <1>4, InsertedSlot
<1>7. /\ DOMAIN table_states' = DOMAIN table_states
      /\ \A j \in DOMAIN table_states :
           /\ table_states'[j].dir = table_states[j].dir
           /\ table_states'[j].table = table_states[j].table
           /\ j # i => table_states'[j] = table_states[j]
      /\ table_states'[i].pk_index = table_states[i].pk_index \cup {k}
      /\ table_states'[i].next_id = next
  BY <1>0, <1>5, <1>6 DEF Types
<1>8. UNCHANGED <<record_count, target_id>>
  BY DEF InsertKeyed, Succeed, bench
<1>9. \A d \in Dirs, table \in Tables :
        /\ IsMade(d, table)' = IsMade(d, table)
        /\ Promised(d, table) \in Seq(Int_)
        /\ Promised(d, table)' = IF d = dir /\ table = t THEN Append(Promised(d, table), k)
                                 ELSE Promised(d, table)
        /\ ~(d = dir /\ table = t) => files'[d][table] = files[d][table]
  BY <1>0, <1>3, <1>5, <1>8, PromisedStored, PromisedType, StoredRow DEF IsMade
<1>10. Apart'
  BY <1>7 DEF SlotsInv, Apart
<1>11. ASSUME NEW j \in DOMAIN table_states, NEW x \in table_states'[j].pk_index
       PROVE  x < table_states'[j].next_id \/ x = IntMax
  <2>1. \A y \in table_states[j].pk_index : y \in Int /\ (y < table_states[j].next_id \/ y = IntMax)
    BY <1>0, <1>3, SlotFields DEF SlotsInv, Ahead
  <2>2. CASE j # i
    BY <1>7, <1>11, <2>1, <2>2
  <2>3. CASE j = i
    <3>1. x \in table_states[i].pk_index \cup {k} /\ table_states'[j].next_id = next
      BY <1>7, <1>11, <2>3
    <3>2. \A y \in table_states[i].pk_index : y \in Int /\ (y < n \/ y = IntMax)
      BY <2>1, <2>3 DEF n
    <3>3. n \in Int /\ next \in Int
      BY <1>3, <1>4
    <3>4. QED
      BY <1>4, <3>1, <3>2, <3>3
  <2>4. QED
    BY <2>2, <2>3
<1>12. Ahead'
  BY <1>7, <1>11 DEF Ahead
<1>13. Indexed'
  <2> SUFFICES ASSUME NEW j \in DOMAIN table_states', NEW d \in Dirs, NEW table \in Tables,
                      SlotOf(j, d, table)'
               PROVE  /\ IsMade(d, table)'
                      /\ table_states'[j].pk_index = Ids(Promised(d, table)')
    BY DEF Indexed, Ids
  <2>1. j \in DOMAIN table_states /\ SlotOf(j, d, table)
    BY <1>7 DEF SlotOf
  <2>2. IsMade(d, table) /\ table_states[j].pk_index = Ids(Promised(d, table))
    BY <2>1 DEF SlotsInv, Indexed
  <2>3. CASE j = i
    <3>1. d = dir /\ table = t
      BY <1>2, <2>1, <2>3 DEF SlotOf
    <3>2. Ids(Append(Promised(d, table), k)) = Ids(Promised(d, table)) \cup {k}
      BY <1>3, <1>9, IdsAppend
    <3>3. QED
      BY <1>7, <1>9, <2>2, <2>3, <3>1, <3>2
  <2>4. CASE j # i
    <3>1. ~(d = dir /\ table = t)
      BY <1>2, <2>1, <2>4 DEF SlotsInv, Apart, SlotOf
    <3>2. Promised(d, table)' = Promised(d, table) /\ table_states'[j] = table_states[j]
      BY <1>7, <1>9, <2>1, <2>4, <3>1
    <3>3. QED
      BY <1>9, <2>2, <3>2
  <2>5. QED
    BY <2>3, <2>4
<1>14. Unused'
  <2> SUFFICES ASSUME NEW d \in Dirs, NEW table \in Tables, KeyedIn(d, table), IsMade(d, table)',
                      \A j \in DOMAIN table_states' : ~SlotOf(j, d, table)'
               PROVE  files'[d][table] = Promised(d, table)'
    BY DEF Unused, KeyedIn
  <2>1. \A j \in DOMAIN table_states : ~SlotOf(j, d, table)
    BY <1>7 DEF SlotOf
  <2>2. ~(d = dir /\ table = t)
    BY <1>2, <2>1
  <2>3. files[d][table] = Promised(d, table)
    BY <1>9, <2>1 DEF SlotsInv, Unused
  <2>4. QED
    BY <1>9, <2>2, <2>3
<1>15. QED
  BY <1>10, <1>12, <1>13, <1>14 DEF SlotsInv

\* A plain table has no slot.
LEMMA SlotsInsertPlain ==
    ASSUME TypeOK, Phase, SlotsInv, InsertPlain \/ InsertPlainFails
    PROVE  SlotsInv'
<1>0. Types /\ t \in Tables /\ dir \in Dirs /\ table_states' = table_states
  BY TypeOKTypes, RunningStatement DEF TypeOK, InsertPlain, InsertPlainFails
<1>1. ~KeyedIn(dir, t)
  BY DEF InsertPlain, InsertPlainFails, Known, Keyed, DirSchemas, KeyedIn, TypeOK, Dirs
<1>2. UNCHANGED <<record_count, target_id>>
  BY InsertsRows
<1>3. ASSUME NEW d \in Dirs, NEW table \in Tables, ~(d = dir /\ table = t)
      PROVE  files'[d][table] = files[d][table] /\ Promised(d, table)' = Promised(d, table)
  <2>1. CASE InsertPlain
    <3>1. st.id \in Int_
      BY <1>0, <2>1, RunningStatement DEF TypeOK, InsertPlain, Statements
    <3>2. Stored(st.id)
      BY <2>1 DEF InsertPlain
    <3>3. QED
      BY <1>0, <1>2, <1>3, <3>1, <3>2, StoredRow, PromisedStored
  <2>2. CASE InsertPlainFails
    <3>1. AppendFails
      BY <2>2 DEF InsertPlainFails
    <3>2. QED
      BY <1>0, <1>2, <1>3, <3>1, FailedRows, PromisedKept
  <2>3. QED
    BY <2>1, <2>2
<1>4. Apart' /\ Ahead'
  BY <1>0 DEF SlotsInv, Apart, Ahead
<1>5. Indexed'
  <2> SUFFICES ASSUME NEW j \in DOMAIN table_states, NEW d \in Dirs, NEW table \in Tables,
                      SlotOf(j, d, table)
               PROVE  /\ IsMade(d, table)'
                      /\ table_states[j].pk_index = Ids(Promised(d, table)')
    BY <1>0 DEF Indexed, Ids, SlotOf
  <2>1. KeyedIn(d, table)
    BY DEF Phase, SlotOf
  <2>2. Promised(d, table)' = Promised(d, table)
    BY <1>1, <1>3, <2>1
  <2>3. IsMade(d, table) /\ table_states[j].pk_index = Ids(Promised(d, table))
    BY DEF SlotsInv, Indexed
  <2>4. QED
    BY <1>2, <2>2, <2>3 DEF IsMade
<1>6. Unused'
  <2> SUFFICES ASSUME NEW d \in Dirs, NEW table \in Tables, KeyedIn(d, table), IsMade(d, table)',
                      \A j \in DOMAIN table_states : ~SlotOf(j, d, table)
               PROVE  files'[d][table] = Promised(d, table)'
    BY <1>0 DEF Unused, KeyedIn, SlotOf
  <2>1. files[d][table] = Promised(d, table)
    BY <1>2 DEF SlotsInv, Unused, IsMade
  <2>2. QED
    BY <1>1, <1>3, <2>1
<1>7. QED
  BY <1>4, <1>5, <1>6 DEF SlotsInv

LEMMA SlotsRefuseInsert ==
    ASSUME TypeOK, SlotsInv, RefuseInsert
    PROVE  SlotsInv'
<1>0. Types /\ t \in Tables
  BY TypeOKTypes, InsertsRows
<1>1. PICK i \in Slots : table_states' = Allocated(i)
  BY DEF RefuseInsert
<1>2. i \in DOMAIN table_states /\ SlotOf(i, dir, t)
  BY DEF Slots, find_table_state, SlotOf
<1>3. /\ table_states' \in Seq(Slot) /\ DOMAIN table_states' = DOMAIN table_states
      /\ \A j \in DOMAIN table_states :
           /\ table_states'[j].dir = table_states[j].dir
           /\ table_states'[j].table = table_states[j].table
           /\ table_states'[j].pk_index = table_states[j].pk_index
           /\ table_states'[j].next_id >= table_states[j].next_id
  BY <1>0, <1>1, <1>2, AllocatedType DEF Types
<1>4. /\ UNCHANGED <<acked, record_count, target_id>>
      /\ \A d \in Dirs, table \in Tables :
           ~(d = dir /\ table = t) => files'[d][table] = files[d][table]
  BY <1>0, InsertsRows, FailedRows DEF RefuseInsert, RefuseTaken, FailStatement
<1>5. \A d \in Dirs, table \in Tables :
        Promised(d, table)' = Promised(d, table) /\ IsMade(d, table)' = IsMade(d, table)
  BY <1>4, PromisedKept DEF IsMade
<1>6. ASSUME NEW j \in DOMAIN table_states, NEW x \in table_states'[j].pk_index
      PROVE  x < table_states'[j].next_id \/ x = IntMax
  <2>1. x \in table_states[j].pk_index /\ (x < table_states[j].next_id \/ x = IntMax)
    BY <1>3, <1>6 DEF SlotsInv, Ahead
  <2>2. x \in Int /\ table_states[j].next_id \in Int
    BY <1>0, <2>1, SlotFields, IntMaxAssumption DEF Int_
  <2>3. table_states'[j].next_id \in Int
    <3>1. table_states'[j] \in Slot
      BY <1>3, ElementOfSeq
    <3>2. QED
      BY <3>1, IntMaxAssumption DEF Slot, Int_
  <2>4. QED
    BY <1>3, <2>1, <2>2, <2>3
<1>7. Apart' /\ Ahead'
  BY <1>3, <1>6 DEF SlotsInv, Apart, Ahead
<1>8. Indexed'
  <2> SUFFICES ASSUME NEW j \in DOMAIN table_states', NEW d \in Dirs, NEW table \in Tables,
                      SlotOf(j, d, table)'
               PROVE  /\ IsMade(d, table)'
                      /\ table_states'[j].pk_index = Ids(Promised(d, table)')
    BY DEF Indexed, Ids
  <2>1. j \in DOMAIN table_states /\ SlotOf(j, d, table)
    BY <1>3 DEF SlotOf
  <2>2. IsMade(d, table) /\ table_states[j].pk_index = Ids(Promised(d, table))
    BY <2>1 DEF SlotsInv, Indexed
  <2>3. QED
    BY <1>3, <1>5, <2>1, <2>2
<1>9. Unused'
  <2> SUFFICES ASSUME NEW d \in Dirs, NEW table \in Tables, KeyedIn(d, table), IsMade(d, table)',
                      \A j \in DOMAIN table_states' : ~SlotOf(j, d, table)'
               PROVE  files'[d][table] = Promised(d, table)'
    BY DEF Unused, KeyedIn
  <2>1. \A j \in DOMAIN table_states : ~SlotOf(j, d, table)
    BY <1>3 DEF SlotOf
  <2>2. ~(d = dir /\ table = t)
    BY <1>2, <2>1
  <2>3. files[d][table] = Promised(d, table)
    BY <1>5, <2>1 DEF SlotsInv, Unused
  <2>4. QED
    BY <1>4, <1>5, <2>2, <2>3
<1>10. QED
  BY <1>7, <1>8, <1>9 DEF SlotsInv

\* The benchmark makes its files before any slot is in use.
LEMMA SlotsOfBenchmark ==
    ASSUME TypeOK, Phase, SlotsInv, ReadCount \/ Build \/ BuildFails
    PROVE  SlotsInv'
<1>1. table_states = <<>> /\ table_states' = <<>>
  BY DEF Phase, ReadCount, Build, BuildFails, data
<1>2. DOMAIN table_states = {} /\ DOMAIN table_states' = {}
  BY <1>1
<1>3. Apart' /\ Ahead' /\ Indexed'
  BY <1>2 DEF Apart, Ahead, Indexed
<1>4. ASSUME NEW d \in Dirs, NEW table \in Tables, KeyedIn(d, table), IsMade(d, table)'
      PROVE  files'[d][table] = Promised(d, table)'
  <2>1. CASE d = "own" \/ table # "users"
    <3>1. /\ IsMade(d, table) /\ files'[d][table] = files[d][table]
          /\ Promised(d, table)' = Promised(d, table)
      BY <2>1, BenchmarkFile
    <3>2. files[d][table] = Promised(d, table)
      BY <1>2, <1>4, <3>1 DEF SlotsInv, Unused
    <3>3. QED
      BY <3>1, <3>2
  <2>2. CASE ~(d = "own" \/ table # "users")
    BY <1>4, <2>2, BenchmarkFile
  <2>3. QED
    BY <2>1, <2>2
<1>5. Unused'
  BY <1>4 DEF Unused, KeyedIn
<1>6. QED
  BY <1>3, <1>5 DEF SlotsInv

LEMMA SlotsInit == Init => SlotsInv
<1> SUFFICES ASSUME Init PROVE SlotsInv
  OBVIOUS
<1>1. DOMAIN table_states = {}
  BY DEF Init
<1>2. FilesHoldAcks
  BY FilesInit
<1>3. Unused
  BY <1>2 DEF FilesHoldAcks, Unused
<1>4. QED
  BY <1>1, <1>3 DEF SlotsInv, Apart, Ahead, Indexed

LEMMA SlotsStep ==
    ASSUME TypeOK, Phase, FrontEnd, SlotsInv, [Next]_vars
    PROVE  SlotsInv'
<1>1. ASSUME UNCHANGED <<files, acked, record_count, target_id>>, UNCHANGED table_states
      PROVE  SlotsInv'
  <2>1. \A d \in Dirs, table \in Tables :
          Promised(d, table)' = Promised(d, table) /\ IsMade(d, table)' = IsMade(d, table)
    BY <1>1, PromisedKept DEF IsMade
  <2>2. Apart' /\ Ahead'
    BY <1>1 DEF SlotsInv, Apart, Ahead
  <2>3. Indexed'
    <3> SUFFICES ASSUME NEW j \in DOMAIN table_states, NEW d \in Dirs, NEW table \in Tables,
                        SlotOf(j, d, table)
                 PROVE  /\ IsMade(d, table)'
                        /\ table_states[j].pk_index = Ids(Promised(d, table)')
      BY <1>1 DEF Indexed, Ids, SlotOf
    <3>1. QED
      BY <2>1 DEF SlotsInv, Indexed
  <2>4. Unused'
    BY <1>1, <2>1 DEF SlotsInv, Unused, SlotOf, KeyedIn
  <2>5. QED
    BY <2>2, <2>3, <2>4 DEF SlotsInv
<1>2. ASSUME \/ LoadFile \/ LoadFileFails \/ ReadLine \/ ReadExit \/ EndOfInput \/ Parse
             \/ LoadStateFails \/ Select \/ Refuse \/ CountEndOfInput \/ UNCHANGED vars
      PROVE  SlotsInv'
  <2>1. table_states' = table_states
    BY <1>2 DEF LoadFile, LoadFileFails, ReadLine, ReadExit, EndOfInput, Parse, LoadStateFails,
                Select, Refuse, CountEndOfInput, data, vars
  <2>2. QED
    BY <1>1, <1>2, <2>1, FilesAlone
<1>3. QED
  BY <1>2, SlotsLoadState, SlotsInsertKeyed, SlotsInsertPlain, SlotsRefuseInsert,
     SlotsOfBenchmark DEF Next

-----------------------------------------------------------------------------
(* Theorems. *)

\* Every variable keeps its shape, next_id never leaves the range of int however
\* ids and overflows go, and get_table_state_index never fills a slot that is not
\* there; Phase is what makes it inductive.
THEOREM ProgramTypeOK == Spec => [](TypeOK /\ Phase)
<1>1. Init => TypeOK /\ Phase
  BY TypeOKInit, PhaseInit
<1>2. TypeOK /\ Phase /\ [Next]_vars => (TypeOK /\ Phase)'
  BY TypeOKStep, PhaseStep
<1>3. QED
  BY <1>1, <1>2, PTL DEF Spec

\* run_benchmark_mode looks for a row it has generated, for every record_count
\* and every value of record_count * 9 after an overflow.
THEOREM ProgramTargetExists == Spec => []TargetExists
<1>1. Init => TargetExists
  BY DEF Init, TargetExists
<1>2. Phase /\ TargetExists /\ [Next]_vars => TargetExists'
  BY TargetStep
<1>3. QED
  BY <1>1, <1>2, ProgramTypeOK, PTL DEF Spec

\* After any program, session or benchmark, and whatever files could not be opened
\* on the way, a data file holds the last rows, from some place on, of its first
\* ones followed by those of the INSERTs that succeeded, and nothing of the others.
THEOREM ProgramFilesFollowAcks == Spec => []FilesFollowAcks
<1>1. Init => FilesFollowAcks
  BY FilesInit
<1>2. TypeOK /\ Phase /\ FilesFollowAcks /\ [Next]_vars => FilesFollowAcks'
  BY FilesStep
<1>3. QED
  BY <1>1, <1>2, ProgramTypeOK, PTL DEF Spec

\* While every file opens, it holds all of them (ensure_data_file makes no file anew
\* that is there).
THEOREM ProgramFilesHoldAcks == Spec => []("open fails" \notin Faults => FilesHoldAcks)
<1>1. Init => ("open fails" \notin Faults => FilesHoldAcks)
  BY FilesInit
<1>2. TypeOK /\ Phase /\ ("open fails" \notin Faults => FilesHoldAcks) /\ [Next]_vars
        => ("open fails" \notin Faults => FilesHoldAcks)'
  BY FilesHoldStep
<1>3. QED
  BY <1>1, <1>2, ProgramTypeOK, PTL DEF Spec

\* No statement of a text runs unless the whole text is a program, and of a file
\* unless the buffer holds all of it; what ran and what is left spell the text.
THEOREM ProgramFrontEnd == Spec => [](FrontEnd /\ ExitCodeTells /\ SessionServesAll)
<1>1. Init => FrontEnd /\ ExitCodeTells /\ SessionServesAll
  BY FrontInit
<1>2. TypeOK /\ Phase /\ (FrontEnd /\ ExitCodeTells /\ SessionServesAll) /\ [Next]_vars
        => (FrontEnd /\ ExitCodeTells /\ SessionServesAll)'
  BY FrontStep
<1>3. QED
  BY <1>1, <1>2, ProgramTypeOK, PTL DEF Spec

\* For any number of tables, directories and slots, find_table_state finds at most
\* one slot; its index has the ids of all rows its table was promised, whatever
\* ensure_data_file has left of them in the file.
THEOREM ProgramSlotsFollowFiles == Spec => []SlotsFollowFiles
<1>1. Init => SlotsInv
  BY SlotsInit
<1>2. TypeOK /\ Phase /\ FrontEnd /\ SlotsInv /\ [Next]_vars => SlotsInv'
  BY SlotsStep
<1>3. TypeOK /\ FilesFollowAcks /\ SlotsInv => SlotsFollowFiles
  BY SlotsInvImplies
<1>4. QED
  BY <1>1, <1>2, <1>3, ProgramTypeOK, ProgramFrontEnd, ProgramFilesFollowAcks, PTL DEF Spec

\* run_sql_text and run_sql_file execute nothing of a text that is not a program
\* from end to end, or of a file that was cut.  A line that fgets cuts is two texts.
THEOREM ProgramWholeTextOnly == Spec => []WholeTextOnly
<1>1. FrontEnd => WholeTextOnly
  BY DEF FrontEnd, TextInHand
<1>2. QED
  BY <1>1, ProgramFrontEnd, PTL

\* The exit code of main says for a file whether all of it was done, for a
\* benchmark whether its lookups were, whatever happened in between.
THEOREM ProgramExitCodeTells == Spec => []ExitCodeTells
BY ProgramFrontEnd, PTL

\* A statement that fails does not end run_interactive_program.
THEOREM ProgramSessionServesAll == Spec => []SessionServesAll
BY ProgramFrontEnd, PTL
=============================================================================
