------------------------------ MODULE PkIndex ------------------------------
(***************************************************************************)
(* What include/bptree.h promises to its callers: a map from primary keys  *)
(* (int id) to row offsets in the CSV file.  An insertion succeeds exactly *)
(* once per key; one that is refused, as a duplicate or for want of        *)
(* memory, changes nothing.  A search finds exactly the stored offset, and *)
(* the two range visits report the offsets of the keys above (below) a     *)
(* bound in ascending key order.  BPlusTree implements this specification. *)
(***************************************************************************)
EXTENDS Integers, FiniteSets

CONSTANTS
    Rows,            \* the <<key, offset>> pairs that callers may insert
    MayFail          \* whether calloc may return NULL

NoCall == [key |-> 0, offset |-> 0]

VARIABLES
    map,             \* the stored <<key, offset>> pairs, one per key
    call,            \* the arguments of the running insertion
    ret              \* "running", or the answer of the last insertion

vars == <<map, call, ret>>

KeysOf(m) == {entry[1] : entry \in m}

Init ==
    /\ map = {}
    /\ call = NoCall
    /\ ret = "none"

Insert(key, offset) ==
    /\ ret # "running"
    /\ call' = [key |-> key, offset |-> offset]
    /\ ret' = "running"
    /\ UNCHANGED map

Return(answer) ==
    /\ ret = "running"
    /\ call' = NoCall
    /\ ret' = answer

Stored ==
    /\ Return("ok")
    /\ call.key \notin KeysOf(map)
    /\ map' = map \cup {<<call.key, call.offset>>}

Duplicate ==
    /\ Return("refused")
    /\ call.key \in KeysOf(map)
    /\ UNCHANGED map

NoMemory ==
    /\ MayFail
    /\ Return("refused")
    /\ UNCHANGED map

Next ==
    \/ \E row \in Rows : Insert(row[1], row[2])
    \/ Stored \/ Duplicate \/ NoMemory

Spec == Init /\ [][Next]_vars

-----------------------------------------------------------------------------
(* The answers of the read operations on a stored map m, as the offsets they *)
(* hand out; the visits go through the keys in ascending order.              *)

InOrder(m) ==
    [i \in 1 .. Cardinality(m) |->
        (CHOOSE e \in m : Cardinality({d \in m : d[1] < e[1]}) = i - 1)[2]]

Search(m, key) == InOrder({e \in m : e[1] = key})
VisitGreaterThan(m, key) == InOrder({e \in m : e[1] > key})
VisitLessThan(m, key) == InOrder({e \in m : e[1] < key})
=============================================================================
