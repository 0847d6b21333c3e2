-------------------------- MODULE SqlTableProofs ---------------------------
(***************************************************************************)
(* Theorems about SqlTable: first for any set of processes, any range of   *)
(* ids and any faults, then for one process that may be killed at any step *)
(* but whose calls do not fail.                                            *)
(***************************************************************************)
EXTENDS SqlTable, SequenceTheorems, TLAPS

\* 0 is an int of the model, the id of a statement that has none.
LEMMA ZeroIsId == 0 \in Ids
BY IntAssumption DEF Ids

\* Every line carries an id, if only a dummy one.
LEMMA LineIds == \A l \in Lines : l.id \in Ids
BY ZeroIsId DEF Lines, Header, Bad, Row

\* The lines the model writes are lines.
LEMMA KnownLines == Header \in Lines /\ Bad \in Lines /\ \A k \in Ids : Row(k) \in Lines
BY DEF Lines

\* Replacing an element of a sequence, at whatever place, gives a sequence.
LEMMA ReplacedIsSeq ==
    ASSUME NEW S, NEW s \in Seq(S), NEW i, NEW e \in S
    PROVE  [s EXCEPT ![i] = e] \in Seq(S)
<1>1. CASE i \in 1 .. Len(s)
  BY <1>1, ExceptSeq
<1>2. CASE i \notin 1 .. Len(s)
  <2>1. DOMAIN s = 1 .. Len(s) /\ s = [j \in DOMAIN s |-> s[j]]
    OBVIOUS
  <2>2. [s EXCEPT ![i] = e] = [j \in DOMAIN s |-> s[j]]
    BY <1>2, <2>1
  <2>3. QED
    BY <2>1, <2>2
<1>3. QED
  BY <1>1, <1>2

\* Below INT_MAX there is a next id.
LEMMA NextIsId ==
    ASSUME NEW n \in Ids, n # IntMax
    PROVE  n + 1 \in Ids
BY IntAssumption DEF Ids

\* remember_explicit_primary_key leaves an int.
LEMMA NextIdAfterType ==
    ASSUME NEW k \in Ids, NEW n \in Ids
    PROVE  NextIdAfter(k, n) \in Ids
BY NextIsId DEF NextIdAfter

\* The ids of the file are ints.
LEMMA FileIdsAreIds == TypeOK => FileIds \subseteq Ids
BY LineIds DEF TypeOK, FileIds, RowLines

\* What an append leaves in the file is a sequence of lines.
LEMMA AppendedType ==
    ASSUME TypeOK, NEW p \in Procs, NEW line \in Lines
    PROVE  Appended(p, line) \in Seq(Lines)
<1>1. lines \in Seq(Lines)
  BY DEF TypeOK
<1>2. [lines EXCEPT ![Len(lines)] = Bad] \in Seq(Lines)
  BY <1>1, KnownLines, ReplacedIsSeq
<1>3. lines \o <<Bad, line>> \in Seq(Lines)
  BY <1>1, KnownLines
<1>4. Append(lines, line) \in Seq(Lines)
  BY <1>1
<1>5. QED
  BY <1>2, <1>3, <1>4 DEF Appended

-----------------------------------------------------------------------------
(* Type correctness. *)

\* The initial values have their types.
LEMMA TypeInit == Init => TypeOK
<1>1. 0 \in Ids /\ 1 \in Ids
  BY IntAssumption DEF Ids
<1>2. Init => exists \in BOOLEAN
  BY Zenon DEF Init
<1>3. Init => lines \in Seq(Lines) /\ open_end \in BOOLEAN
  BY PreloadedAssumption, Zenon DEF Init
<1>4. Init => /\ loaded \in [Procs -> BOOLEAN]
              /\ next_id \in [Procs -> Ids]
              /\ index \in [Procs -> SUBSET (Ids \X Nat)]
  BY <1>1 DEF Init
<1>5. Init => /\ pc \in [Procs -> {"idle", "select", "allocate", "unique", "ensure",
                                    "create", "header", "append", "flush", "index"}]
              /\ id \in [Procs -> Ids] /\ auto \in [Procs -> BOOLEAN]
              /\ newline \in [Procs -> BOOLEAN] /\ row_offset \in [Procs -> Nat]
              /\ result \in [Procs -> {"none", "running", "ok", "error"}]
  BY <1>1 DEF Init
<1>6. QED
  BY <1>2, <1>3, <1>4, <1>5 DEF TypeOK

\* No action gives a variable a value of another type.
LEMMA TypeStep == TypeOK /\ [Next]_vars => TypeOK'
<1> SUFFICES ASSUME TypeOK, [Next]_vars
             PROVE  TypeOK'
  OBVIOUS
<1> USE DEF TypeOK, Goto, Fail, file, state, local
<1>1. ASSUME NEW p \in Procs, SelectByKey(p) PROVE TypeOK'
  BY <1>1, ZeroIsId DEF SelectByKey
<1>2. ASSUME NEW p \in Procs, LoadState(p) PROVE TypeOK'
  <2>1. PICK max_id \in FileIds \cup {0} :
             max_id # IntMax /\ next_id' = [next_id EXCEPT ![p] = max_id + 1]
    BY <1>2 DEF LoadState
  <2>2. max_id + 1 \in Ids
    BY <2>1, FileIdsAreIds, ZeroIsId, NextIsId
  <2>3. next_id' \in [Procs -> Ids]
    BY <2>1, <2>2
  <2>4. {<<lines[i].id, i>> : i \in RowLines} \subseteq Ids \X Nat
    BY LineIds DEF RowLines
  <2>5. index' \in [Procs -> SUBSET (Ids \X Nat)]
    BY <1>2, <2>4 DEF LoadState
  <2>6. QED
    BY <1>2, <2>3, <2>5 DEF LoadState
<1>3. ASSUME NEW p \in Procs, LoadStateFails(p) PROVE TypeOK'
  BY <1>3, ZeroIsId DEF LoadStateFails
<1>4. ASSUME NEW p \in Procs, NEW k \in ExplicitIds, InsertExplicit(p, k) PROVE TypeOK'
  BY <1>4, ExplicitIdsAssumption DEF InsertExplicit
<1>5. ASSUME NEW p \in Procs, InsertAuto(p) PROVE TypeOK'
  BY <1>5, ZeroIsId DEF InsertAuto
<1>6. ASSUME NEW p \in Procs, Allocate(p) PROVE TypeOK'
  <2>1. next_id[p] + 1 \in Ids
    BY <1>6, NextIsId DEF Allocate
  <2>2. next_id' \in [Procs -> Ids]
    BY <1>6, <2>1 DEF Allocate
  <2>3. QED
    BY <1>6, <2>2, ZeroIsId DEF Allocate
<1>7. ASSUME NEW p \in Procs, AllocateThenReject(p) PROVE TypeOK'
  <2>1. next_id[p] + 1 \in Ids
    BY <1>7, NextIsId DEF AllocateThenReject
  <2>2. next_id' \in [Procs -> Ids]
    BY <1>7, <2>1 DEF AllocateThenReject
  <2>3. QED
    BY <1>7, <2>2, ZeroIsId DEF AllocateThenReject
<1>8. ASSUME NEW p \in Procs, AllocateFails(p) PROVE TypeOK'
  BY <1>8, ZeroIsId DEF AllocateFails
<1>9. ASSUME NEW p \in Procs, CheckUnique(p) PROVE TypeOK'
  BY <1>9, ZeroIsId DEF CheckUnique
<1>10. ASSUME NEW p \in Procs, RefuseDuplicate(p) PROVE TypeOK'
  BY <1>10, ZeroIsId DEF RefuseDuplicate
<1>11. ASSUME NEW p \in Procs, EnsureExisting(p) PROVE TypeOK'
  BY <1>11, ZeroIsId DEF EnsureExisting
<1>12. ASSUME NEW p \in Procs, EnsureBadHeader(p) PROVE TypeOK'
  BY <1>12, ZeroIsId DEF EnsureBadHeader
<1>13. ASSUME NEW p \in Procs, EnsureAbsent(p) PROVE TypeOK'
  BY <1>13, ZeroIsId DEF EnsureAbsent
<1>14. ASSUME NEW p \in Procs, Create(p) PROVE TypeOK'
  <2>1. lines' \in Seq(Lines)
    BY <1>14 DEF Create
  <2>2. QED
    BY <1>14, <2>1 DEF Create
<1>15. ASSUME NEW p \in Procs, CreateFails(p) PROVE TypeOK'
  BY <1>15, ZeroIsId DEF CreateFails
<1>16. ASSUME NEW p \in Procs, WriteHeader(p) PROVE TypeOK'
  <2>1. lines' \in Seq(Lines)
    BY <1>16, KnownLines, ReplacedIsSeq DEF WriteHeader
  <2>2. open_end' \in BOOLEAN
    BY <1>16 DEF WriteHeader
  <2>3. QED
    BY <1>16, <2>1, <2>2 DEF WriteHeader
<1>17. ASSUME NEW p \in Procs, HeaderLost(p) PROVE TypeOK'
  BY <1>17, ZeroIsId DEF HeaderLost
<1>18. ASSUME NEW p \in Procs, OpenAppend(p) PROVE TypeOK'
  <2>1. AppendOffset \in Nat
    BY DEF AppendOffset
  <2>2. QED
    BY <1>18, <2>1 DEF OpenAppend
<1>19. ASSUME NEW p \in Procs, OpenAppendFails(p) PROVE TypeOK'
  BY <1>19, ZeroIsId DEF OpenAppendFails
<1>20. ASSUME NEW p \in Procs, Flush(p) PROVE TypeOK'
  <2>1. Row(id[p]) \in Lines
    BY KnownLines
  <2>2. lines' \in Seq(Lines)
    BY <1>20, <2>1, AppendedType DEF Flush
  <2>3. QED
    BY <1>20, <2>2 DEF Flush
<1>21. ASSUME NEW p \in Procs, FlushShort(p) PROVE TypeOK'
  <2>1. Row(id[p]) \in Lines /\ Bad \in Lines
    BY KnownLines
  <2>2. lines' \in Seq(Lines)
    BY <1>21, <2>1, AppendedType DEF FlushShort
  <2>3. open_end' \in BOOLEAN
    BY <1>21 DEF FlushShort
  <2>4. QED
    BY <1>21, <2>2, <2>3 DEF FlushShort
<1>22. ASSUME NEW p \in Procs, IndexInsert(p) PROVE TypeOK'
  <2>1. NextIdAfter(id[p], next_id[p]) \in Ids
    BY NextIdAfterType
  <2>2. next_id' \in [Procs -> Ids]
    BY <1>22, <2>1 DEF IndexInsert
  <2>3. index' \in [Procs -> SUBSET (Ids \X Nat)]
    BY <1>22 DEF IndexInsert
  <2>4. QED
    BY <1>22, <2>2, <2>3 DEF IndexInsert
<1>23. ASSUME NEW p \in Procs, IndexInsertFails(p) PROVE TypeOK'
  BY <1>23, ZeroIsId DEF IndexInsertFails
<1>24. ASSUME NEW p \in Procs, Exit(p) PROVE TypeOK'
  <2>1. 1 \in Ids
    BY IntAssumption DEF Ids
  <2>2. QED
    BY <1>24, <2>1, ZeroIsId DEF Exit
<1>25. CASE UNCHANGED vars
  BY <1>25 DEF vars
<1>26. QED
  BY <1>1, <1>2, <1>3, <1>4, <1>5, <1>6, <1>7, <1>8, <1>9, <1>10, <1>11, <1>12, <1>13, <1>14, <1>15, <1>16, <1>17, <1>18, <1>19, <1>20, <1>21, <1>22, <1>23, <1>24, <1>25 DEF Next

(* Type correctness: every variable keeps its shape and next_id stays an int,  *)
(* because create_table_state, allocate_next_primary_key and                   *)
(* remember_explicit_primary_key each stop before INT_MAX + 1.                 *)
THEOREM TypeCorrect == Spec => []TypeOK
BY TypeInit, TypeStep, PTL DEF Spec

-----------------------------------------------------------------------------
(* Fresh ids. *)

\* What is known of one process: next_id is above its index, and an id that it
\* allocated but did not yet check came from a loaded state and is not indexed.
IdsOf(p) ==
    /\ \A entry \in index[p] : entry[1] < next_id[p] \/ entry[1] = IntMax
    /\ auto[p] /\ pc[p] = "unique" => loaded[p] /\ ~KnownDuplicate(p)

\* The invariant that the actions preserve.
IdsInv == TypeOK /\ \A p \in Procs : IdsOf(p)

\* A process nobody touched keeps what is known of it.
LEMMA IdsUntouched ==
    ASSUME NEW p, IdsOf(p),
           UNCHANGED <<loaded[p], next_id[p], index[p], pc[p], id[p], auto[p]>>
    PROVE  IdsOf(p)'
BY DEF IdsOf, KnownDuplicate, IndexedIds

\* remember_explicit_primary_key moves next_id above the id and never down.
LEMMA NextIdAfterAbove ==
    ASSUME NEW k \in Ids, NEW n \in Ids
    PROVE  /\ k < NextIdAfter(k, n) \/ k = IntMax
           /\ n <= NextIdAfter(k, n)
BY IntAssumption DEF Ids, NextIdAfter

\* Loading the state puts next_id above every row of the file.
LEMMA LoadedIds ==
    ASSUME TypeOK, NEW p \in Procs, LoadState(p), IdsOf(p)
    PROVE  IdsOf(p)'
<1>1. PICK m \in FileIds \cup {0} :
           IsMaxId(m) /\ next_id' = [next_id EXCEPT ![p] = m + 1]
  BY DEF LoadState
<1>2. next_id'[p] = m + 1
  BY <1>1 DEF TypeOK
<1>3. index'[p] = {<<lines[i].id, i>> : i \in RowLines}
  BY DEF LoadState, TypeOK
<1>4. FileIds \cup {0} \subseteq Int
  BY FileIdsAreIds, IntAssumption DEF Ids
<1>5. ASSUME NEW entry \in index'[p] PROVE entry[1] < next_id'[p]
  <2>1. entry[1] \in FileIds
    BY <1>3 DEF FileIds
  <2>2. entry[1] <= m
    BY <1>1, <2>1 DEF IsMaxId
  <2>3. QED
    BY <1>2, <1>4, <2>1, <2>2
<1>6. ~(auto'[p] /\ pc'[p] = "unique")
  BY DEF LoadState, NeedsState, IdsOf, TypeOK, Goto, local
<1>7. QED
  BY <1>5, <1>6 DEF IdsOf

\* No step of any process breaks IdsInv.
LEMMA IdsStep == IdsInv /\ [Next]_vars => IdsInv'
<1> SUFFICES ASSUME IdsInv, [Next]_vars, NEW q \in Procs
             PROVE  IdsOf(q)'
  BY TypeStep DEF IdsInv
<1> USE DEF IdsInv, Goto, Fail, file, state, local
<1>1. ASSUME NEW p \in Procs, SelectByKey(p) PROVE IdsOf(q)'
  BY <1>1 DEF SelectByKey, IdsOf, KnownDuplicate, IndexedIds, TypeOK
<1>2. ASSUME NEW p \in Procs, LoadState(p) PROVE IdsOf(q)'
  <2>1. CASE p = q
    BY <1>2, <2>1, LoadedIds
  <2>2. CASE p # q
    BY <1>2, <2>2, IdsUntouched DEF LoadState, TypeOK
  <2>3. QED
    BY <2>1, <2>2
<1>3. ASSUME NEW p \in Procs, LoadStateFails(p) PROVE IdsOf(q)'
  BY <1>3 DEF LoadStateFails, IdsOf, KnownDuplicate, IndexedIds, TypeOK
<1>4. ASSUME NEW p \in Procs, NEW k \in ExplicitIds, InsertExplicit(p, k) PROVE IdsOf(q)'
  BY <1>4 DEF InsertExplicit, IdsOf, KnownDuplicate, IndexedIds, TypeOK
<1>5. ASSUME NEW p \in Procs, InsertAuto(p) PROVE IdsOf(q)'
  BY <1>5 DEF InsertAuto, IdsOf, KnownDuplicate, IndexedIds, TypeOK
<1>6. ASSUME NEW p \in Procs, Allocate(p) PROVE IdsOf(q)'
  <2>1. CASE p = q
    <3>1. /\ next_id'[q] = next_id[q] + 1 /\ index'[q] = index[q] /\ loaded'[q]
          /\ id'[q] = next_id[q] /\ id'[q] # IntMax
      BY <1>6, <2>1 DEF Allocate, TypeOK
    <3>2. next_id[q] \in Int /\ \A entry \in index[q] : entry[1] \in Int
      BY IntAssumption DEF TypeOK, Ids
    <3>3. ASSUME NEW entry \in index[q]
          PROVE  entry[1] # id'[q] /\ (entry[1] < next_id'[q] \/ entry[1] = IntMax)
      BY <3>1, <3>2 DEF IdsOf
    <3>4. QED
      BY <3>1, <3>3 DEF IdsOf, KnownDuplicate, IndexedIds
  <2>2. CASE p # q
    BY <1>6, <2>2, IdsUntouched DEF Allocate, TypeOK
  <2>3. QED
    BY <2>1, <2>2
<1>7. ASSUME NEW p \in Procs, AllocateThenReject(p) PROVE IdsOf(q)'
  <2>1. CASE p = q
    <3>1. next_id'[q] = next_id[q] + 1 /\ index'[q] = index[q] /\ ~auto'[q]
      BY <1>7, <2>1 DEF AllocateThenReject, TypeOK
    <3>2. next_id[q] \in Int /\ \A entry \in index[q] : entry[1] \in Int
      BY IntAssumption DEF TypeOK, Ids
    <3>3. QED
      BY <3>1, <3>2 DEF IdsOf
  <2>2. CASE p # q
    BY <1>7, <2>2, IdsUntouched DEF AllocateThenReject, TypeOK
  <2>3. QED
    BY <2>1, <2>2
<1>8. ASSUME NEW p \in Procs, AllocateFails(p) PROVE IdsOf(q)'
  BY <1>8 DEF AllocateFails, IdsOf, KnownDuplicate, IndexedIds, TypeOK
<1>9. ASSUME NEW p \in Procs, CheckUnique(p) PROVE IdsOf(q)'
  BY <1>9 DEF CheckUnique, IdsOf, KnownDuplicate, IndexedIds, TypeOK
<1>10. ASSUME NEW p \in Procs, RefuseDuplicate(p) PROVE IdsOf(q)'
  BY <1>10 DEF RefuseDuplicate, IdsOf, KnownDuplicate, IndexedIds, TypeOK
<1>11. ASSUME NEW p \in Procs, EnsureExisting(p) PROVE IdsOf(q)'
  BY <1>11 DEF EnsureExisting, IdsOf, KnownDuplicate, IndexedIds, TypeOK
<1>12. ASSUME NEW p \in Procs, EnsureBadHeader(p) PROVE IdsOf(q)'
  BY <1>12 DEF EnsureBadHeader, IdsOf, KnownDuplicate, IndexedIds, TypeOK
<1>13. ASSUME NEW p \in Procs, EnsureAbsent(p) PROVE IdsOf(q)'
  BY <1>13 DEF EnsureAbsent, IdsOf, KnownDuplicate, IndexedIds, TypeOK
<1>14. ASSUME NEW p \in Procs, Create(p) PROVE IdsOf(q)'
  BY <1>14 DEF Create, IdsOf, KnownDuplicate, IndexedIds, TypeOK
<1>15. ASSUME NEW p \in Procs, CreateFails(p) PROVE IdsOf(q)'
  BY <1>15 DEF CreateFails, IdsOf, KnownDuplicate, IndexedIds, TypeOK
<1>16. ASSUME NEW p \in Procs, WriteHeader(p) PROVE IdsOf(q)'
  BY <1>16 DEF WriteHeader, IdsOf, KnownDuplicate, IndexedIds, TypeOK
<1>17. ASSUME NEW p \in Procs, HeaderLost(p) PROVE IdsOf(q)'
  BY <1>17 DEF HeaderLost, IdsOf, KnownDuplicate, IndexedIds, TypeOK
<1>18. ASSUME NEW p \in Procs, OpenAppend(p) PROVE IdsOf(q)'
  BY <1>18 DEF OpenAppend, IdsOf, KnownDuplicate, IndexedIds, TypeOK
<1>19. ASSUME NEW p \in Procs, OpenAppendFails(p) PROVE IdsOf(q)'
  BY <1>19 DEF OpenAppendFails, IdsOf, KnownDuplicate, IndexedIds, TypeOK
<1>20. ASSUME NEW p \in Procs, Flush(p) PROVE IdsOf(q)'
  BY <1>20 DEF Flush, IdsOf, KnownDuplicate, IndexedIds, TypeOK
<1>21. ASSUME NEW p \in Procs, FlushShort(p) PROVE IdsOf(q)'
  BY <1>21 DEF FlushShort, IdsOf, KnownDuplicate, IndexedIds, TypeOK
<1>22. ASSUME NEW p \in Procs, IndexInsert(p) PROVE IdsOf(q)'
  <2>1. CASE p = q
    <3>1. /\ next_id'[q] = NextIdAfter(id[q], next_id[q])
          /\ index'[q] = index[q] \cup {<<id[q], row_offset[q]>>} /\ ~auto'[q]
      BY <1>22, <2>1 DEF IndexInsert, TypeOK
    <3>2. /\ id[q] \in Ids /\ next_id[q] \in Ids
          /\ \A entry \in index[q] : entry[1] \in Int
      BY IntAssumption DEF TypeOK, Ids
    <3>3. /\ id[q] < next_id'[q] \/ id[q] = IntMax
          /\ next_id[q] <= next_id'[q]
      BY <3>1, <3>2, NextIdAfterAbove
    <3>4. next_id[q] \in Int /\ next_id'[q] \in Int
      <4>1. next_id'[q] \in Ids
        BY <3>1, <3>2, NextIdAfterType
      <4>2. QED
        BY <3>2, <4>1, IntAssumption DEF Ids
    <3>5. ASSUME NEW entry \in index'[q]
          PROVE  entry[1] < next_id'[q] \/ entry[1] = IntMax
      BY <3>1, <3>2, <3>3, <3>4 DEF IdsOf
    <3>6. QED
      BY <3>1, <3>5 DEF IdsOf
  <2>2. CASE p # q
    BY <1>22, <2>2, IdsUntouched DEF IndexInsert, TypeOK
  <2>3. QED
    BY <2>1, <2>2
<1>23. ASSUME NEW p \in Procs, IndexInsertFails(p) PROVE IdsOf(q)'
  BY <1>23 DEF IndexInsertFails, IdsOf, KnownDuplicate, IndexedIds, TypeOK
<1>24. ASSUME NEW p \in Procs, Exit(p) PROVE IdsOf(q)'
  BY <1>24 DEF Exit, IdsOf, KnownDuplicate, IndexedIds, TypeOK
<1>25. CASE UNCHANGED vars
  BY <1>25, IdsUntouched DEF vars
<1>26. QED
  BY <1>1, <1>2, <1>3, <1>4, <1>5, <1>6, <1>7, <1>8, <1>9, <1>10, <1>11, <1>12, <1>13, <1>14, <1>15, <1>16, <1>17, <1>18, <1>19, <1>20, <1>21, <1>22, <1>23, <1>24, <1>25 DEF Next

\* With an empty index there is nothing to be above.
LEMMA IdsInit == Init => IdsInv
<1>1. ASSUME Init, NEW p \in Procs PROVE IdsOf(p)
  BY <1>1 DEF Init, IdsOf
<1>2. QED
  BY <1>1, TypeInit DEF IdsInv

(* In every process, next_id is above every indexed id except INT_MAX, for any  *)
(* order of loads, explicit and automatic ids, failures and crashes             *)
(* (executor.c:170, 207-213, 228-230).                                          *)
THEOREM IdsStayFresh == Spec => []NextIdFresh
<1>1. IdsInv => NextIdFresh
  BY DEF IdsInv, IdsOf, NextIdFresh
<1>2. QED
  BY IdsInit, IdsStep, <1>1, PTL DEF Spec

(* The uniqueness check after allocate_next_primary_key never refuses the id    *)
(* that was just allocated (executor.c:390-396 against 440).                    *)
THEOREM AutoIdsAccepted == Spec => []AutoIdFree
<1>1. IdsInv => AutoIdFree
  BY DEF IdsInv, IdsOf, AutoIdFree
<1>2. QED
  BY IdsInit, IdsStep, <1>1, PTL DEF Spec

-----------------------------------------------------------------------------
(* Rows that stay. *)

\* Nothing is lost where the file does not change.
LEMMA UnchangedKeepsRows == lines \in Seq(Lines) /\ UNCHANGED lines => CompleteRowsKept
BY DEF CompleteRowsKept, RowLines

\* An append touches no line but a last one without newline.
LEMMA AppendKeepsRows ==
    ASSUME lines \in Seq(Lines), NEW p, NEW line, lines' = Appended(p, line)
    PROVE  CompleteRowsKept
<1> SUFFICES ASSUME NEW i \in RowLines, i < Len(lines) \/ ~open_end
             PROVE  i \in DOMAIN lines' /\ lines'[i] = lines[i]
  BY DEF CompleteRowsKept
<1>1. i \in 1 .. Len(lines)
  BY DEF RowLines
<1>2. CASE open_end /\ ~newline[p]
  BY <1>1, <1>2 DEF Appended
<1>3. CASE newline[p] /\ ~open_end
  BY <1>1, <1>3 DEF Appended
<1>4. CASE ~(open_end /\ ~newline[p]) /\ ~(newline[p] /\ ~open_end)
  BY <1>1, <1>4 DEF Appended
<1>5. QED
  BY <1>2, <1>3, <1>4

\* Of all actions, only the two that create the file can touch a complete row.
LEMMA StepKeepsRows ==
    TypeOK /\ [Next]_vars =>
        \/ CompleteRowsKept
        \/ \E p \in Procs : Create(p) \/ WriteHeader(p)
<1> SUFFICES ASSUME TypeOK, [Next]_vars, ~\E p \in Procs : Create(p) \/ WriteHeader(p)
             PROVE  CompleteRowsKept
  OBVIOUS
<1>1. lines \in Seq(Lines)
  BY DEF TypeOK
<1>2. ASSUME NEW p \in Procs, Flush(p) PROVE CompleteRowsKept
  BY <1>1, <1>2, AppendKeepsRows DEF Flush
<1>3. ASSUME NEW p \in Procs, FlushShort(p) PROVE CompleteRowsKept
  BY <1>1, <1>3, AppendKeepsRows, UnchangedKeepsRows DEF FlushShort
<1>4. UNCHANGED lines \/ \E p \in Procs : Flush(p) \/ FlushShort(p)
  <2>1. CASE UNCHANGED vars
    BY <2>1 DEF vars
  <2>2. CASE Next
    BY <2>2 DEF Next, file, SelectByKey, LoadState, LoadStateFails, InsertExplicit,
          InsertAuto, Allocate, AllocateThenReject, AllocateFails, CheckUnique,
          RefuseDuplicate, EnsureExisting, EnsureBadHeader, EnsureAbsent, CreateFails,
          HeaderLost, OpenAppend, OpenAppendFails, IndexInsert, IndexInsertFails, Exit
  <2>3. QED
    BY <2>1, <2>2
<1>5. QED
  BY <1>1, <1>2, <1>3, <1>4, UnchangedKeepsRows

(* Whoever runs and whatever fails, only the creation of the file touches a     *)
(* complete row: appends, torn writes, the repair of a torn last line and       *)
(* crashes do not (storage.c:178-218, 347-394).                                 *)
THEOREM AppendsKeepRows == Spec => OnlyCreationDropsRows
<1> DEFINE A == (\A p \in Procs : pc[p] \in {"create", "header"} => pc'[p] = pc[p])
                    => CompleteRowsKept
<1>1. TypeOK /\ [Next]_vars => [A]_vars
  <2> SUFFICES ASSUME TypeOK, [Next]_vars,
                      \A p \in Procs : pc[p] \in {"create", "header"} => pc'[p] = pc[p]
               PROVE  CompleteRowsKept
    OBVIOUS
  <2>1. ASSUME NEW p \in Procs, Create(p) PROVE FALSE
    BY <2>1 DEF Create, Goto, TypeOK
  <2>2. ASSUME NEW p \in Procs, WriteHeader(p) PROVE FALSE
    BY <2>2 DEF WriteHeader, Goto, TypeOK
  <2>3. QED
    BY <2>1, <2>2, StepKeepsRows
<1>2. QED
  BY TypeCorrect, <1>1, PTL DEF Spec, OnlyCreationDropsRows

-----------------------------------------------------------------------------
(* A table whose file exists. *)

\* No process thinks that it has to create the file, and none could damage the
\* header: a line without newline is never the first one.
FileInPlace ==
    /\ exists /\ HasHeader
    /\ open_end => Len(lines) > 1
    /\ \A p \in Procs : pc[p] \notin {"create", "header"}

\* An append leaves the header and, without a newline at its end, two lines.
LEMMA AppendKeepsHeader ==
    ASSUME TypeOK, FileInPlace, NEW p, NEW line, lines' = Appended(p, line)
    PROVE  HasHeader' /\ Len(lines') > 1
<1>1. lines \in Seq(Lines) /\ Len(lines) > 0 /\ lines[1] = Header
  BY DEF TypeOK, FileInPlace, HasHeader
<1>2. CASE open_end /\ ~newline[p]
  <2>1. lines' = [lines EXCEPT ![Len(lines)] = Bad] /\ Len(lines) > 1
    BY <1>2 DEF Appended, FileInPlace
  <2>2. Len(lines') = Len(lines) /\ lines'[1] = lines[1]
    BY <1>1, <2>1
  <2>3. QED
    BY <1>1, <2>1, <2>2 DEF HasHeader
<1>3. CASE newline[p] /\ ~open_end
  BY <1>1, <1>3 DEF Appended, HasHeader
<1>4. CASE ~(open_end /\ ~newline[p]) /\ ~(newline[p] /\ ~open_end)
  BY <1>1, <1>4 DEF Appended, HasHeader
<1>5. QED
  BY <1>2, <1>3, <1>4

\* No step takes the file away, and none touches a complete row.
LEMMA InPlaceStep ==
    "open fails" \notin Faults =>
        (TypeOK /\ FileInPlace /\ [Next]_vars => FileInPlace' /\ CompleteRowsKept)
<1> SUFFICES ASSUME "open fails" \notin Faults, TypeOK, FileInPlace, [Next]_vars
             PROVE  FileInPlace' /\ CompleteRowsKept
  OBVIOUS
<1>1. exists' /\ HasHeader' /\ (open_end' => Len(lines') > 1)
  <2>1. ASSUME UNCHANGED lines PROVE HasHeader' /\ Len(lines') = Len(lines)
    BY <2>1 DEF FileInPlace, HasHeader
  <2>2. ASSUME UNCHANGED file
        PROVE  exists' /\ HasHeader' /\ (open_end' => Len(lines') > 1)
    BY <2>1, <2>2 DEF FileInPlace, file
  <2>3. ASSUME NEW p \in Procs, Flush(p)
        PROVE  exists' /\ HasHeader' /\ (open_end' => Len(lines') > 1)
    BY <2>3, AppendKeepsHeader DEF Flush, FileInPlace
  <2>4. ASSUME NEW p \in Procs, FlushShort(p)
        PROVE  exists' /\ HasHeader' /\ (open_end' => Len(lines') > 1)
    <3>1. CASE UNCHANGED <<lines, open_end>>
      BY <2>2, <2>4, <3>1 DEF FlushShort, file
    <3>2. CASE open_end' = FALSE /\ UNCHANGED lines
      BY <2>1, <2>4, <3>2 DEF FlushShort, FileInPlace
    <3>3. CASE \E line \in {Bad, Row(id[p])} : lines' = Appended(p, line)
      BY <2>4, <3>3, AppendKeepsHeader DEF FlushShort, FileInPlace
    <3>4. QED
      BY <2>4, <3>1, <3>2, <3>3 DEF FlushShort
  <2>5. UNCHANGED file \/ \E p \in Procs : Flush(p) \/ FlushShort(p)
    <3>1. CASE UNCHANGED vars
      BY <3>1 DEF vars, file
    <3>2. CASE Next
      BY <3>2 DEF Next, FileInPlace, file, SelectByKey, LoadState, LoadStateFails,
            InsertExplicit, InsertAuto, Allocate, AllocateThenReject, AllocateFails,
            CheckUnique, RefuseDuplicate, EnsureExisting, EnsureBadHeader, EnsureAbsent,
            Create, CreateFails, WriteHeader, HeaderLost, OpenAppend, OpenAppendFails,
            IndexInsert, IndexInsertFails, Exit
    <3>3. QED
      BY <3>1, <3>2
  <2>6. QED
    BY <2>2, <2>3, <2>4, <2>5
<1>2. \A p \in Procs : pc'[p] \notin {"create", "header"}
  <2>1. CASE UNCHANGED vars
    BY <2>1 DEF vars, FileInPlace
  <2> USE DEF FileInPlace, TypeOK, Goto, Fail, local
  <2>2. ASSUME NEW p \in Procs,
               \/ SelectByKey(p) \/ LoadState(p) \/ LoadStateFails(p)
               \/ \E k \in ExplicitIds : InsertExplicit(p, k)
               \/ InsertAuto(p)
        PROVE  \A q \in Procs : pc'[q] \notin {"create", "header"}
    BY <2>2 DEF SelectByKey, LoadState, LoadStateFails, InsertExplicit, InsertAuto
  <2>3. ASSUME NEW p \in Procs,
               \/ Allocate(p) \/ AllocateThenReject(p) \/ AllocateFails(p)
               \/ CheckUnique(p) \/ RefuseDuplicate(p)
        PROVE  \A q \in Procs : pc'[q] \notin {"create", "header"}
    BY <2>3 DEF Allocate, AllocateThenReject, AllocateFails, CheckUnique, RefuseDuplicate
  <2>4. ASSUME NEW p \in Procs,
               \/ EnsureExisting(p) \/ EnsureBadHeader(p) \/ EnsureAbsent(p)
               \/ Create(p) \/ CreateFails(p) \/ WriteHeader(p) \/ HeaderLost(p)
        PROVE  \A q \in Procs : pc'[q] \notin {"create", "header"}
    BY <2>4 DEF EnsureExisting, EnsureBadHeader, EnsureAbsent, Create, CreateFails,
          WriteHeader, HeaderLost
  <2>5. ASSUME NEW p \in Procs,
               \/ OpenAppend(p) \/ OpenAppendFails(p) \/ Flush(p) \/ FlushShort(p)
               \/ IndexInsert(p) \/ IndexInsertFails(p) \/ Exit(p)
        PROVE  \A q \in Procs : pc'[q] \notin {"create", "header"}
    BY <2>5 DEF OpenAppend, OpenAppendFails, Flush, FlushShort, IndexInsert,
          IndexInsertFails, Exit
  <2>6. QED
    BY <2>1, <2>2, <2>3, <2>4, <2>5 DEF Next
<1>3. CompleteRowsKept
  BY StepKeepsRows DEF FileInPlace, Create, WriteHeader
<1>4. QED
  BY <1>1, <1>2, <1>3 DEF FileInPlace

(* Once the file is there, and as long as opening it does not fail, no process  *)
(* ever alters or removes a complete row, whatever else fails: the race that    *)
(* loses rows needs the creation of the file, or an fopen that fails for        *)
(* another reason than ENOENT (storage.c:260-327).                              *)
THEOREM RowsStayInPlace ==
    Preloaded # <<>> /\ "open fails" \notin Faults => (Spec => RowsStay)
<1> SUFFICES ASSUME Preloaded # <<>>, "open fails" \notin Faults
             PROVE  Spec => RowsStay
  OBVIOUS
<1>1. Init => FileInPlace
  BY PreloadedAssumption DEF Init, FileInPlace, HasHeader
<1>2. TypeOK /\ FileInPlace /\ [Next]_vars => FileInPlace' /\ [CompleteRowsKept]_vars
  BY InPlaceStep
<1>3. QED
  BY TypeCorrect, <1>1, <1>2, PTL DEF Spec, RowsStay

-----------------------------------------------------------------------------
(* One process, which may be killed at any step but whose calls do not fail, for *)
(* any range of ids, any statements and any length of the data file.             *)

\* What storage_rebuild_pk_index would put into the index.
FileEntries == {<<lines[i].id, i>> : i \in RowLines}

\* The one process q: the file is readable and holds exactly what q's index says,
\* but for the row between Flush and IndexInsert; what the statement learned on
\* its way (a file without header, a free id, the offset) is still so.
AloneInv(q) ==
    /\ Readable
    /\ ~open_end /\ ~newline[q]
    /\ ~exists => lines = <<>>
    /\ pc[q] = "create" => ~exists
    /\ pc[q] = "header" => exists /\ lines = <<>>
    /\ pc[q] \in {"append", "flush"} => HasHeader
    /\ pc[q] \in {"ensure", "create", "header", "append", "flush", "index"} => loaded[q]
    /\ loaded[q] /\ pc[q] # "index" => index[q] = FileEntries
    /\ pc[q] = "index" => FileEntries = index[q] \cup {<<id[q], row_offset[q]>>}
    /\ pc[q] \in {"ensure", "create", "header", "append", "flush"} => id[q] \notin FileIds
    /\ pc[q] = "flush" => row_offset[q] = Len(lines) + 1
    /\ result[q] = "ok" => pc[q] \in {"idle", "select"}
    /\ pc[q] = "index" \/ result[q] = "ok" =>
          row_offset[q] \in DOMAIN lines /\ lines[row_offset[q]] = Row(id[q])

\* A new row under a free id keeps the file readable and adds its entry.
LEMMA AppendRow ==
    ASSUME TypeOK, Readable, HasHeader, NEW k \in Ids, k \notin FileIds,
           lines' = Append(lines, Row(k))
    PROVE  /\ Readable'
           /\ FileEntries' = FileEntries \cup {<<k, Len(lines) + 1>>}
           /\ Len(lines) + 1 \in DOMAIN lines' /\ lines'[Len(lines) + 1] = Row(k)
<1> DEFINE n == Len(lines) + 1
<1>1. /\ lines \in Seq(Lines) /\ lines # <<>> /\ lines[1] = Header
      /\ n \in Nat /\ n > 1 /\ DOMAIN lines = 1 .. Len(lines)
  BY DEF TypeOK, HasHeader
<1>2. /\ lines' # <<>> /\ DOMAIN lines' = 1 .. n /\ lines'[n] = Row(k)
      /\ \A i \in DOMAIN lines : i \in DOMAIN lines' /\ i # n /\ lines'[i] = lines[i]
      /\ \A i \in DOMAIN lines' : i \in DOMAIN lines \/ i = n
  BY <1>1
<1>3. Row(k).kind = "row" /\ Row(k).id = k
  BY DEF Row
<1>4. RowLines' = RowLines \cup {n}
  BY <1>2, <1>3 DEF RowLines
<1>5. \A i \in RowLines : i # n /\ lines'[i] = lines[i] /\ lines'[i].id # k
  BY <1>2 DEF RowLines, FileIds
<1>6. Readable'
  <2>1. lines'[1] = Header
    BY <1>1, <1>2
  <2>2. \A i \in DOMAIN lines' : i > 1 => lines'[i].kind = "row"
    BY <1>1, <1>2, <1>3 DEF Readable
  <2>3. ASSUME NEW i \in RowLines', NEW j \in RowLines', lines'[i].id = lines'[j].id
        PROVE  i = j
    <3>1. lines'[n].id = k
      BY <1>2, <1>3
    <3>2. \A a, b \in RowLines : lines[a].id = lines[b].id => a = b
      BY <1>1 DEF Readable
    <3>3. QED
      BY <1>4, <1>5, <2>3, <3>1, <3>2
  <2>4. QED
    BY <2>1, <2>2, <2>3 DEF Readable
<1>7. FileEntries' = FileEntries \cup {<<k, n>>}
  BY <1>2, <1>3, <1>4, <1>5 DEF FileEntries
<1>8. QED
  BY <1>2, <1>6, <1>7

\* The ids of the entries are the ids of the rows.
LEMMA EntryIds == {e[1] : e \in FileEntries} = FileIds
<1>1. ASSUME NEW e \in FileEntries PROVE e[1] \in FileIds
  BY DEF FileEntries, FileIds
<1>2. ASSUME NEW k \in FileIds PROVE \E e \in FileEntries : k = e[1]
  <2>1. PICK i \in RowLines : k = lines[i].id
    BY DEF FileIds
  <2>2. <<lines[i].id, i>> \in FileEntries /\ <<lines[i].id, i>>[1] = k
    BY <2>1 DEF FileEntries
  <2>3. QED
    BY <2>2
<1>3. QED
  BY <1>1, <1>2

\* An empty file has no rows.
LEMMA NoRows == lines = <<>> => Readable /\ FileIds = {} /\ FileEntries = {}
BY DEF Readable, RowLines, FileIds, FileEntries

\* Where the lines stay, so does all that depends on them.
LEMMA SameFile ==
    UNCHANGED lines => /\ Readable' = Readable /\ HasHeader' = HasHeader
                       /\ FileIds' = FileIds /\ FileEntries' = FileEntries
BY DEF Readable, HasHeader, FileIds, FileEntries, RowLines

\* A statement that fails before it wrote anything leaves no trace.
LEMMA AloneFail ==
    ASSUME NEW q \in Procs, TypeOK, AloneInv(q),
           pc[q] # "index", Fail(q), UNCHANGED <<exists, lines, open_end, loaded, index>>
    PROVE  AloneInv(q)'
<1>1. pc'[q] = "idle" /\ result'[q] = "error" /\ ~newline'[q]
  BY DEF TypeOK, Fail
<1>2. QED
  BY <1>1, SameFile DEF AloneInv

\* No step of the process breaks the invariant.
LEMMA AloneStep ==
    ASSUME NEW q, Procs = {q}, Faults \subseteq {"crash"},
           TypeOK, AloneInv(q), [Next]_vars
    PROVE  AloneInv(q)'
<1> USE DEF TypeOK, AloneInv, Goto, Fail, file, state, local
<1> q \in Procs
  OBVIOUS
<1>0. "open fails" \notin Faults /\ "disk full" \notin Faults /\ "no memory" \notin Faults
  OBVIOUS
<1>1. ASSUME SelectByKey(q) PROVE AloneInv(q)'
  BY <1>1, SameFile DEF SelectByKey
<1>2. ASSUME LoadState(q) PROVE AloneInv(q)'
  <2>1. /\ loaded'[q] /\ index'[q] = FileEntries /\ pc'[q] \in {"idle", "allocate", "unique"}
        /\ UNCHANGED <<exists, lines, open_end, id, newline, row_offset, result>>
    BY <1>2 DEF LoadState, NeedsState, FileEntries
  <2>2. result[q] = "ok" => pc'[q] = "idle"
    BY <1>2 DEF LoadState, NeedsState
  <2>3. QED
    BY <2>1, <2>2, SameFile
<1>3. ASSUME LoadStateFails(q) PROVE AloneInv(q)'
  BY <1>3, AloneFail DEF LoadStateFails, NeedsState
<1>4. ASSUME NEW k \in ExplicitIds, InsertExplicit(q, k) PROVE AloneInv(q)'
  BY <1>4, ExplicitIdsAssumption, SameFile DEF InsertExplicit
<1>5. ASSUME InsertAuto(q) PROVE AloneInv(q)'
  BY <1>5, SameFile DEF InsertAuto
<1>6. ASSUME Allocate(q) PROVE AloneInv(q)'
  BY <1>6, SameFile DEF Allocate
<1>7. ASSUME AllocateThenReject(q) PROVE AloneInv(q)'
  BY <1>7, AloneFail DEF AllocateThenReject
<1>8. ASSUME AllocateFails(q) PROVE AloneInv(q)'
  BY <1>8, AloneFail DEF AllocateFails
<1>9. ASSUME CheckUnique(q) PROVE AloneInv(q)'
  <2>1. id[q] \notin FileIds
    <3>1. IndexedIds(q) = {e[1] : e \in FileEntries}
      BY <1>9 DEF CheckUnique, IndexedIds
    <3>2. QED
      BY <1>9, <3>1, EntryIds DEF CheckUnique, KnownDuplicate
  <2>2. QED
    BY <1>9, <2>1, SameFile DEF CheckUnique
<1>10. ASSUME RefuseDuplicate(q) PROVE AloneInv(q)'
  BY <1>10, AloneFail DEF RefuseDuplicate
<1>11. ASSUME EnsureExisting(q) PROVE AloneInv(q)'
  BY <1>11, SameFile DEF EnsureExisting
<1>12. ASSUME EnsureBadHeader(q) PROVE AloneInv(q)'
  BY <1>12, AloneFail DEF EnsureBadHeader
<1>13. ASSUME EnsureAbsent(q) PROVE AloneInv(q)'
  BY <1>0, <1>13, SameFile DEF EnsureAbsent
<1>14. ASSUME Create(q) PROVE AloneInv(q)'
  BY <1>14, NoRows, SameFile DEF Create
<1>15. ASSUME CreateFails(q) PROVE FALSE
  BY <1>0, <1>15 DEF CreateFails
<1>16. ASSUME WriteHeader(q) PROVE AloneInv(q)'
  <2>1. lines = <<>> /\ lines' = <<Header>> /\ HasHeader'
    BY <1>16 DEF WriteHeader, HasHeader
  <2>2. RowLines' = {}
    BY <2>1 DEF RowLines, Header
  <2>3. Readable'
    BY <2>1, <2>2 DEF Readable
  <2>4. FileIds' = {} /\ FileEntries' = {} /\ FileEntries = {}
    BY <2>1, <2>2, NoRows DEF FileIds, FileEntries
  <2>5. QED
    BY <1>16, <2>1, <2>3, <2>4 DEF WriteHeader
<1>17. ASSUME HeaderLost(q) PROVE FALSE
  BY <1>0, <1>17 DEF HeaderLost
<1>18. ASSUME OpenAppend(q) PROVE AloneInv(q)'
  BY <1>18, SameFile DEF OpenAppend, AppendOffset
<1>19. ASSUME OpenAppendFails(q) PROVE FALSE
  BY <1>0, <1>19 DEF OpenAppendFails
<1>20. ASSUME Flush(q) PROVE AloneInv(q)'
  <2>1. lines' = Append(lines, Row(id[q])) /\ id[q] \in Ids /\ row_offset[q] = Len(lines) + 1
    BY <1>20 DEF Flush, Appended
  <2>2. /\ Readable'
        /\ FileEntries' = index[q] \cup {<<id[q], row_offset[q]>>}
        /\ row_offset[q] \in DOMAIN lines' /\ lines'[row_offset[q]] = Row(id[q])
    BY <1>20, <2>1, AppendRow DEF Flush
  <2>3. QED
    BY <1>20, <2>2 DEF Flush, HasHeader
<1>21. ASSUME FlushShort(q) PROVE FALSE
  BY <1>0, <1>21 DEF FlushShort
<1>22. ASSUME IndexInsert(q) PROVE AloneInv(q)'
  BY <1>22, SameFile DEF IndexInsert
<1>23. ASSUME IndexInsertFails(q) PROVE FALSE
  BY <1>0, <1>23 DEF IndexInsertFails
<1>24. ASSUME Exit(q) PROVE AloneInv(q)'
  BY <1>24, SameFile DEF Exit
<1>25. CASE UNCHANGED vars
  BY <1>25, SameFile DEF vars
<1>26. QED
  BY <1>1, <1>2, <1>3, <1>4, <1>5, <1>6, <1>7, <1>8, <1>9, <1>10, <1>11, <1>12, <1>13, <1>14, <1>15, <1>16, <1>17, <1>18, <1>19, <1>20, <1>21, <1>22, <1>23, <1>24, <1>25 DEF Next

\* The process starts with nothing loaded and no statement.
LEMMA AloneInit ==
    ASSUME NEW q \in Procs, Init, Readable
    PROVE  AloneInv(q)
BY DEF Init, AloneInv

\* What a SELECT through the index prints at the offsets of rows.
LEMMA PrintedRows ==
    ASSUME TypeOK, Readable, NEW O, O \subseteq RowLines
    PROVE  PrintAtOffsets(O) = Answer(TRUE, {lines[i] : i \in O})
<1>1. CASE O = {}
  BY <1>1 DEF PrintAtOffsets
<1>2. CASE O # {}
  <2>1. HasHeader
    BY <1>2 DEF RowLines, Readable, HasHeader
  <2>2. \A i \in O : i \in DOMAIN lines /\ lines[i] # Bad
    BY DEF RowLines, Bad
  <2>3. QED
    BY <1>2, <2>1, <2>2 DEF PrintAtOffsets
<1>3. QED
  BY <1>1, <1>2

\* The offsets of the entries with an id in K are those of the rows with one.
LEMMA EntryOffsets ==
    ASSUME NEW K
    PROVE  {e[2] : e \in {d \in FileEntries : d[1] \in K}} = {j \in RowLines : lines[j].id \in K}
<1>1. ASSUME NEW e \in FileEntries, e[1] \in K
      PROVE  e[2] \in RowLines /\ lines[e[2]].id \in K
  BY <1>1 DEF FileEntries
<1>2. ASSUME NEW j \in RowLines, lines[j].id \in K
      PROVE  \E e \in FileEntries : e[1] \in K /\ e[2] = j
  <2>1. <<lines[j].id, j>> \in FileEntries
    BY DEF FileEntries
  <2>2. QED
    BY <1>2, <2>1
<1>3. QED
  BY <1>1, <1>2

\* The rows with an id in K.
RowsWith(K) == {lines[i] : i \in {j \in RowLines : lines[j].id \in K}}

\* Through the index ...
LEMMA IndexFinds ==
    ASSUME TypeOK, Readable, NEW K, NEW D, D = {d \in FileEntries : d[1] \in K}
    PROVE  PrintAtOffsets({e[2] : e \in D}) = Answer(TRUE, RowsWith(K))
<1> DEFINE O == {j \in RowLines : lines[j].id \in K}
<1>1. {e[2] : e \in D} = O
  BY EntryOffsets
<1>2. PrintAtOffsets(O) = Answer(TRUE, {lines[i] : i \in O})
  BY PrintedRows
<1>3. QED
  BY <1>1, <1>2 DEF RowsWith

\* ... and by a scan.
LEMMA ScanFinds ==
    ASSUME Readable, NEW K
    PROVE  select_with_scan(K) = Answer(TRUE, RowsWith(K))
<1>1. CASE lines = <<>>
  <2>1. RowLines = {}
    BY <1>1 DEF RowLines
  <2>2. RowsWith(K) = {}
    BY <2>1 DEF RowsWith
  <2>3. QED
    BY <1>1, <2>2 DEF select_with_scan
<1>2. CASE lines # <<>>
  BY <1>2 DEF Readable, HasHeader, RowsWith, select_with_scan
<1>3. QED
  BY <1>1, <1>2

-----------------------------------------------------------------------------
(* The theorems. *)

\* The invariant holds from the start, and always.

LEMMA AloneAlways ==
    ASSUME NEW q, Procs = {q}, Faults \subseteq {"crash"}
    PROVE  Spec /\ Readable => [](TypeOK /\ AloneInv(q))
<1>1. Init /\ Readable => AloneInv(q)
  BY AloneInit
<1>2. TypeOK /\ AloneInv(q) /\ [Next]_vars => AloneInv(q)'
  BY AloneStep
<1>3. QED
  BY TypeCorrect, <1>1, <1>2, PTL DEF Spec

(* A process that has a readable data file to itself never makes it one that    *)
(* the next start refuses (a repeated id, a broken line, a missing header),     *)
(* wherever it is killed (storage.c:1214-1252).                                 *)
THEOREM AloneFileReadable ==
    ASSUME NEW q, Procs = {q}, Faults \subseteq {"crash"}
    PROVE  Spec /\ Readable => []FileStaysReadable
<1>1. AloneInv(q) => FileStaysReadable
  BY DEF AloneInv, FileStaysReadable
<1>2. QED
  BY AloneAlways, <1>1, PTL

(* Its INSERTs that report success have stored their row, at the offset that    *)
(* the index hands out (executor.c:445-465).                                    *)
THEOREM AloneSuccessStored ==
    ASSUME NEW q, Procs = {q}, Faults \subseteq {"crash"}
    PROVE  Spec /\ Readable => []SuccessMeansStored
<1>1. AloneInv(q) => SuccessMeansStored
  BY DEF AloneInv, SuccessMeansStored
<1>2. QED
  BY AloneAlways, <1>1, PTL

(* And its SELECTs print the same rows through the index as by a scan of the    *)
(* file, for =, > and < (executor.c:562-707 against storage.c:675-789).         *)
THEOREM AloneSelectsAgree ==
    ASSUME NEW q, Procs = {q}, Faults \subseteq {"crash"}
    PROVE  Spec /\ Readable => []SelectsAgree
<1>1. TypeOK /\ AloneInv(q) => SelectsAgree
  <2> SUFFICES ASSUME TypeOK, AloneInv(q), pc[q] = "idle", loaded[q], NEW k \in Ids
               PROVE  /\ select_with_index(q, k) = select_with_scan({k})
                      /\ select_with_index_range(q, (k + 1) .. IntMax)
                              = select_with_scan((k + 1) .. IntMax)
                      /\ select_with_index_range(q, IntMin .. (k - 1))
                              = select_with_scan(IntMin .. (k - 1))
    BY DEF SelectsAgree
  <2>1. index[q] = FileEntries /\ Readable
    BY DEF AloneInv
  <2>2. ASSUME NEW K
        PROVE  select_with_index_range(q, K) = Answer(TRUE, RowsWith(K))
    BY <2>1, IndexFinds DEF select_with_index_range
  <2>3. select_with_index(q, k) = Answer(TRUE, RowsWith({k}))
    <3>1. {d \in index[q] : d[1] = k} = {d \in FileEntries : d[1] \in {k}}
      BY <2>1
    <3>2. QED
      BY <2>1, <3>1, IndexFinds DEF select_with_index
  <2>4. ASSUME NEW K
        PROVE  select_with_scan(K) = Answer(TRUE, RowsWith(K))
    BY <2>1, ScanFinds
  <2>5. QED
    BY <2>2, <2>3, <2>4
<1>2. QED
  BY AloneAlways, <1>1, PTL

-----------------------------------------------------------------------------
(* The refinement of KeyedTable.                                               *)

\* An INSERT is running from its first step to its last, and an id is allocated
\* only for one that named none.
RunningInv(q) ==
    /\ result[q] = "running" <=> pc[q] \notin {"idle", "select"}
    /\ pc[q] = "allocate" => auto[q]

LEMMA RunningStep ==
    ASSUME NEW q, Procs = {q}, TypeOK, RunningInv(q), [Next]_vars
    PROVE  RunningInv(q)'
<1> USE DEF TypeOK, RunningInv, file, state, local
<1> q \in Procs
  OBVIOUS
<1>1. CASE UNCHANGED local
  BY <1>1
<1>2. ASSUME Fail(q) PROVE RunningInv(q)'
  BY <1>2 DEF Fail
<1>3. ASSUME NEW k \in ExplicitIds, InsertExplicit(q, k) PROVE RunningInv(q)'
  BY <1>3 DEF InsertExplicit
<1>4. ASSUME InsertAuto(q) PROVE RunningInv(q)'
  BY <1>4 DEF InsertAuto
<1>5. ASSUME SelectByKey(q) \/ LoadState(q) PROVE RunningInv(q)'
  BY <1>5 DEF SelectByKey, LoadState, NeedsState, Goto
<1>6. ASSUME Allocate(q) \/ CheckUnique(q) PROVE RunningInv(q)'
  BY <1>6 DEF Allocate, CheckUnique, Goto
<1>7. ASSUME EnsureExisting(q) \/ EnsureAbsent(q) \/ Create(q) \/ WriteHeader(q) \/ HeaderLost(q)
      PROVE  RunningInv(q)'
  BY <1>7 DEF EnsureExisting, EnsureAbsent, Create, WriteHeader, HeaderLost, Goto
<1>8. ASSUME OpenAppend(q) \/ Flush(q) \/ FlushShort(q) PROVE RunningInv(q)'
  BY <1>8 DEF OpenAppend, Flush, FlushShort, Goto
<1>9. ASSUME IndexInsert(q) \/ Exit(q) PROVE RunningInv(q)'
  BY <1>9 DEF IndexInsert, Exit
<1>10. QED
  BY <1>1, <1>2, <1>3, <1>4, <1>5, <1>6, <1>7, <1>8, <1>9
     DEF Next, vars, LoadStateFails, AllocateThenReject, AllocateFails, RefuseDuplicate,
         EnsureBadHeader, CreateFails, OpenAppendFails, IndexInsertFails

\* A statement that fails stores nothing.
LEMMA FailRefuses ==
    ASSUME NEW q, Procs = {q}, Only = q, TypeOK, RunningInv(q),
           Fail(q), UNCHANGED lines, pc[q] # "index"
    PROVE  Contract!Refuse \/ Contract!SelectFails
<1>1. pc'[q] = "idle" /\ result'[q] = "error" /\ FileIds' = FileIds
  BY SameFile DEF Fail, TypeOK
<1>2. WantedIds' = Ids
  BY <1>1 DEF WantedIds
<1>3. QED
  BY <1>1, <1>2 DEF Contract!Refuse, Contract!SelectFails, Contract!End, RunningInv

\* Steps between the checks and the append are not seen.
LEMMA QuietStep ==
    ASSUME NEW q, Only = q, FileIds' = FileIds,
           result'[q] = result[q], auto'[q] = auto[q],
           result[q] = "running" /\ ~auto[q] => id'[q] = id[q],
           (pc'[q] = "index") = (pc[q] = "index")
    PROVE  UNCHANGED Contract!vars
BY DEF Contract!vars, WantedIds

\* The append is the abstract insertion.
LEMMA FlushStores ==
    ASSUME NEW q, Procs = {q}, Only = q, TypeOK, AloneInv(q), RunningInv(q), Flush(q)
    PROVE  Contract!Store
<1>1. lines' = Append(lines, Row(id[q])) /\ id[q] \in Ids /\ HasHeader /\ Readable
  BY DEF Flush, Appended, AloneInv, TypeOK
<1>2. id[q] \notin FileIds
  BY DEF AloneInv, Flush
<1>3. FileEntries' = FileEntries \cup {<<id[q], Len(lines) + 1>>} /\ Readable'
  BY <1>1, <1>2, AppendRow
<1>4. FileIds' = FileIds \cup {id[q]}
  <2>1. FileIds' = {e[1] : e \in FileEntries'}
    <3>1. ASSUME NEW e \in FileEntries' PROVE e[1] \in FileIds'
      BY DEF FileEntries, FileIds
    <3>2. ASSUME NEW k \in FileIds' PROVE \E e \in FileEntries' : k = e[1]
      <4>1. PICK i \in RowLines' : k = lines'[i].id
        BY DEF FileIds
      <4>2. <<lines'[i].id, i>> \in FileEntries' /\ <<lines'[i].id, i>>[1] = k
        BY <4>1 DEF FileEntries
      <4>3. QED
        BY <4>2
    <3>3. QED
      BY <3>1, <3>2
  <2>2. FileIds = {e[1] : e \in FileEntries}
    BY EntryIds
  <2>3. <<id[q], Len(lines) + 1>>[1] = id[q]
    OBVIOUS
  <2>4. {e[1] : e \in FileEntries'} = {e[1] : e \in FileEntries} \cup {id[q]}
    BY <1>3, <2>3, Zenon
  <2>5. QED
    BY <2>1, <2>2, <2>4
<1>5. /\ pc[q] = "flush" /\ pc'[q] = "index" /\ result[q] = "running"
      /\ UNCHANGED <<result, auto, id>>
  BY DEF Flush, Goto, RunningInv, TypeOK
<1>6. id[q] \in WantedIds /\ WantedIds' = WantedIds
  BY <1>1, <1>5 DEF WantedIds
<1>7. QED
  BY <1>2, <1>4, <1>5, <1>6 DEF Contract!Store

LEMMA ContractStep ==
    ASSUME NEW q, Procs = {q}, Faults \subseteq {"crash"},
           TypeOK, AloneInv(q), RunningInv(q), [Next]_vars
    PROVE  [Contract!Next]_(Contract!vars)
<1> q \in Procs /\ Only = q
  BY DEF Only
<1>0. "open fails" \notin Faults /\ "disk full" \notin Faults /\ "no memory" \notin Faults
  OBVIOUS
<1>1. ASSUME Fail(q), UNCHANGED lines, pc[q] # "index" PROVE Contract!Next
  BY <1>1, FailRefuses DEF Contract!Next
<1>2. ASSUME NEW k \in ExplicitIds, InsertExplicit(q, k) PROVE Contract!Next
  <2>1. FileIds' = FileIds /\ pc[q] = "idle" /\ pc'[q] = "unique" /\ result'[q] = "running"
        /\ ~auto'[q] /\ id'[q] = k /\ result[q] # "running"
    BY <1>2, SameFile DEF InsertExplicit, file, TypeOK, RunningInv
  <2>2. WantedIds = Ids /\ WantedIds' = {k} /\ k \in Ids
    BY <2>1, ExplicitIdsAssumption DEF WantedIds
  <2>3. Contract!Insert
    BY <2>1, <2>2 DEF Contract!Insert
  <2>4. QED
    BY <2>3 DEF Contract!Next
<1>3. ASSUME InsertAuto(q) PROVE Contract!Next
  <2>1. FileIds' = FileIds /\ pc[q] = "idle" /\ pc'[q] = "allocate" /\ result'[q] = "running"
        /\ auto'[q] /\ result[q] # "running"
    BY <1>3, SameFile DEF InsertAuto, file, TypeOK, RunningInv
  <2>2. WantedIds = Ids /\ WantedIds' = Ids
    BY <2>1 DEF WantedIds
  <2>3. Contract!Insert
    BY <2>1, <2>2 DEF Contract!Insert
  <2>4. QED
    BY <2>3 DEF Contract!Next
<1>4. ASSUME SelectByKey(q) \/ LoadState(q) PROVE UNCHANGED Contract!vars
  <2>1. /\ FileIds' = FileIds /\ pc[q] # "index" /\ pc'[q] # "index"
        /\ UNCHANGED <<result, auto, id>>
    BY <1>4, SameFile DEF SelectByKey, LoadState, NeedsState, Goto, file, local, TypeOK
  <2>2. QED
    BY <2>1, QuietStep
<1>5. ASSUME Allocate(q) PROVE UNCHANGED Contract!vars
  <2>1. /\ FileIds' = FileIds /\ pc[q] # "index" /\ pc'[q] # "index" /\ auto[q]
        /\ UNCHANGED <<result, auto>>
    BY <1>5, SameFile DEF Allocate, file, TypeOK, RunningInv
  <2>2. QED
    BY <2>1, QuietStep
<1>6. ASSUME CheckUnique(q) \/ EnsureExisting(q) \/ EnsureAbsent(q) PROVE UNCHANGED Contract!vars
  <2>1. /\ FileIds' = FileIds /\ pc[q] # "index" /\ pc'[q] # "index"
        /\ UNCHANGED <<result, auto, id>>
    BY <1>6, SameFile DEF CheckUnique, EnsureExisting, EnsureAbsent, Goto, file, TypeOK
  <2>2. QED
    BY <2>1, QuietStep
<1>7. ASSUME Create(q) \/ WriteHeader(q) PROVE UNCHANGED Contract!vars
  <2>1. lines = <<>> /\ (lines' = <<>> \/ lines' = <<Header>>)
    BY <1>7 DEF Create, WriteHeader, AloneInv
  <2>2. FileIds = {} /\ FileIds' = {}
    BY <2>1 DEF FileIds, RowLines, Header
  <2>3. /\ pc[q] # "index" /\ pc'[q] # "index" /\ UNCHANGED <<result, auto, id>>
    BY <1>7 DEF Create, WriteHeader, Goto, TypeOK
  <2>4. QED
    BY <2>2, <2>3, QuietStep
<1>8. ASSUME OpenAppend(q) PROVE UNCHANGED Contract!vars
  <2>1. /\ FileIds' = FileIds /\ pc[q] # "index" /\ pc'[q] # "index"
        /\ UNCHANGED <<result, auto, id>>
    BY <1>8, SameFile DEF OpenAppend, file, TypeOK
  <2>2. QED
    BY <2>1, QuietStep
<1>9. ASSUME Flush(q) PROVE Contract!Next
  BY <1>9, FlushStores DEF Contract!Next
<1>10. ASSUME IndexInsert(q) PROVE Contract!Next
  <2>1. FileIds' = FileIds /\ pc[q] = "index" /\ pc'[q] = "idle" /\ result'[q] = "ok"
    BY <1>10, SameFile DEF IndexInsert, file, TypeOK
  <2>2. WantedIds' = Ids
    BY <2>1 DEF WantedIds
  <2>3. QED
    BY <2>1, <2>2 DEF Contract!Next, Contract!Succeed, Contract!End
<1>11. ASSUME Exit(q) PROVE Contract!Next
  <2>1. FileIds' = FileIds /\ pc'[q] = "idle" /\ result'[q] = "none"
    BY <1>11, SameFile DEF Exit, file, TypeOK
  <2>2. WantedIds' = Ids
    BY <2>1 DEF WantedIds
  <2>3. QED
    BY <2>1, <2>2 DEF Contract!Next, Contract!Die, Contract!End
<1>12. CASE UNCHANGED vars
  BY <1>12, SameFile, QuietStep DEF vars
<1>13. ASSUME FlushShort(q) \/ HeaderLost(q) PROVE FALSE
  BY <1>0, <1>13 DEF FlushShort, HeaderLost
<1>14. ASSUME IndexInsertFails(q) PROVE FALSE
  BY <1>0, <1>14 DEF IndexInsertFails
<1>15. ASSUME \/ LoadStateFails(q) \/ AllocateThenReject(q) \/ AllocateFails(q)
             \/ RefuseDuplicate(q) \/ EnsureBadHeader(q) \/ CreateFails(q) \/ OpenAppendFails(q)
       PROVE Contract!Next
  BY <1>1, <1>15 DEF LoadStateFails, NeedsState, AllocateThenReject, AllocateFails,
     RefuseDuplicate, EnsureBadHeader, CreateFails, OpenAppendFails, file, TypeOK
<1>16. QED
  BY <1>2, <1>3, <1>4, <1>5, <1>6, <1>7, <1>8, <1>9, <1>10, <1>11, <1>12, <1>13, <1>14, <1>15
     DEF Next

LEMMA ContractInit ==
    ASSUME NEW q, Procs = {q}, Init
    PROVE  Contract!Init /\ RunningInv(q)
<1> q \in Procs /\ Only = q
  BY DEF Only
<1>1. FileIds = InitialIds
  BY DEF Init, FileIds, RowLines, InitialIds
<1>2. QED
  BY <1>1 DEF Init, Contract!Init, WantedIds, RunningInv

(* A process that has a readable data file to itself implements KeyedTable: its *)
(* INSERTs are atomic insertions under free ids, over all its steps and         *)
(* wherever it is killed (executor.c:387-469 with storage.c:347-394).           *)
THEOREM AloneImplementsKeyedTable ==
    ASSUME NEW q, Procs = {q}, Faults \subseteq {"crash"}
    PROVE  Spec /\ Readable => ImplementsKeyedTable
<1>1. Init => Contract!Init /\ RunningInv(q)
  BY ContractInit
<1>2. TypeOK /\ RunningInv(q) /\ [Next]_vars => RunningInv(q)'
  BY RunningStep
<1>3. TypeOK /\ AloneInv(q) /\ RunningInv(q) /\ [Next]_vars => [Contract!Next]_(Contract!vars)
  BY ContractStep
<1>4. QED
  BY AloneAlways, <1>1, <1>2, <1>3, PTL DEF Spec, ImplementsKeyedTable, Contract!Spec
=============================================================================
