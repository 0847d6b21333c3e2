----------------------------- MODULE BPlusTree -----------------------------
(***************************************************************************)
(* The in-memory B+ tree of src/bptree.c.  Nodes live in a heap; a call of *)
(* bptree_insert runs as the steps of its C functions: the recursive       *)
(* descent, the insertion into a leaf or its split, the propagation of the *)
(* promoted key on the way back, and the growth of a new root.  Each       *)
(* calloc is a place where the call can fail with the tree half updated.   *)
(* Searches and range visits only read: they are operators.                *)
(***************************************************************************)
EXTENDS Integers, Sequences, FiniteSets, SequencesExt

CONSTANTS
    Rows,            \* the <<key, offset>> pairs that callers may insert
    ORDER,           \* BPTREE_ORDER: children of an internal node
    Nodes,           \* addresses calloc can return, a finite set of integers
    Nil,             \* the NULL pointer
    Failing          \* the allocation sites at which calloc may return NULL

Keys == {row[1] : row \in Rows}
Offsets == {row[2] : row \in Rows}
MAX_KEYS == ORDER - 1
Sites == {"empty root", "leaf split", "internal split", "new root"}

ASSUME RowsAssumption == Rows \subseteq Int \X Nat
ASSUME OrderAssumption == ORDER \in Nat /\ ORDER >= 3
ASSUME NodesAssumption == Nodes \subseteq Nat /\ IsFiniteSet(Nodes) /\ Nil \notin Nodes
ASSUME FailingAssumption == Failing \subseteq Sites

VARIABLES
    heap,            \* BPlusTreeNode records by address
    allocated,       \* the addresses in use (nothing is freed before destroy)
    root,            \* tree->root
    pc,              \* where the running bptree_insert call is
    call,            \* its key and offset arguments
    cur,             \* the node insert_recursive has reached
    path,            \* the stack of <<node, child_position>> above cur
    up,              \* InsertResult of the child: promoted_key and right_node
    ret              \* "running", or the answer of the last insertion

vars == <<heap, allocated, root, pc, call, cur, path, up, ret>>

Blank(is_leaf) ==
    [is_leaf |-> is_leaf, keys |-> <<>>, offsets |-> <<>>, next |-> Nil, children |-> <<>>]

NoCall == [key |-> 0, offset |-> 0]
NoSplit == [key |-> 0, right |-> Nil]

-----------------------------------------------------------------------------
(* Positions inside a node and walks over the heap; positions count from 1. *)

\* Where a scan of seq ends that stops at these positions.
FirstPosition(seq, stops) == IF stops = {} THEN Len(seq) + 1 ELSE Min(stops)

\* Slip: the child to the left of an equal separator.
find_child_position_left(keys, key) ==
    FirstPosition(keys, {i \in DOMAIN keys : keys[i] >= key})

find_leaf_position(keys, key) ==
    FirstPosition(keys, {i \in DOMAIN keys : keys[i] >= key})
find_child_position(keys, key) ==
    FirstPosition(keys, {i \in DOMAIN keys : keys[i] > key})

find_leaf(key) ==
    LET down[n \in allocated] ==
            IF heap[n].is_leaf THEN n
            ELSE down[heap[n].children[find_child_position(heap[n].keys, key)]]
    IN  down[root]

leftmost_leaf ==
    LET down[n \in allocated] ==
            IF heap[n].is_leaf THEN n ELSE down[heap[n].children[1]]
    IN  down[root]

\* The leaves from leaf n on, along the next pointers.
LeavesFrom(n) ==
    LET walk[m \in allocated \cup {Nil}] ==
            IF m = Nil THEN <<>> ELSE <<m>> \o walk[heap[m].next]
    IN  walk[n]

\* The <<key, offset>> entries of a sequence of leaves, in chain order.
Entries(leaves) ==
    FlattenSeq([j \in DOMAIN leaves |->
        [i \in DOMAIN heap[leaves[j]].keys |->
            <<heap[leaves[j]].keys[i], heap[leaves[j]].offsets[i]>>]])

Chain == IF root = Nil THEN <<>> ELSE Entries(LeavesFrom(leftmost_leaf))

-----------------------------------------------------------------------------
(* Searches and range visits, as the sequence of offsets they hand out. *)

bptree_search(key) ==
    IF root = Nil THEN <<>>
    ELSE LET leaf == heap[find_leaf(key)]
             position == find_leaf_position(leaf.keys, key)
         IN  IF position > Len(leaf.keys) \/ leaf.keys[position] # key
             THEN <<>>
             ELSE <<leaf.offsets[position]>>

OffsetsOf(entries) == [i \in DOMAIN entries |-> entries[i][2]]

\* Slip: the first leaf is reported from the position of key, key included.
bptree_visit_greater_than_or_equal(key) ==
    IF root = Nil THEN <<>>
    ELSE LET leaves == LeavesFrom(find_leaf(key))
             entries == Entries(leaves)
         IN  OffsetsOf(SubSeq(entries, find_leaf_position(heap[leaves[1]].keys, key),
                              Len(entries)))

\* Skips the entries up to key in the first leaf only, then takes whole leaves.
bptree_visit_greater_than(key) ==
    IF root = Nil THEN <<>>
    ELSE LET leaves == LeavesFrom(find_leaf(key))
             entries == Entries(leaves)
             keys == heap[leaves[1]].keys
             start == FirstPosition(keys, {i \in DOMAIN keys : keys[i] > key})
         IN  OffsetsOf(SubSeq(entries, start, Len(entries)))

\* Stops at the first entry that is not below key.
bptree_visit_less_than(key) ==
    LET entries == Chain
        stop == FirstPosition(entries, {i \in DOMAIN entries : entries[i][1] >= key})
    IN  OffsetsOf(SubSeq(entries, 1, stop - 1))

-----------------------------------------------------------------------------
(* bptree_insert. *)

Free == Nodes \ allocated
NewNode == Min(Free)
CreateNodeFails(site) == site \in Failing \/ Free = {}

Return(answer) ==
    /\ pc' = "idle"
    /\ ret' = answer
    /\ call' = NoCall /\ cur' = Nil /\ path' = <<>> /\ up' = NoSplit

InsertCall(key, offset) ==
    /\ pc = "idle"
    /\ pc' = "descend" /\ call' = [key |-> key, offset |-> offset] /\ cur' = root
    /\ ret' = "running"
    /\ UNCHANGED <<heap, allocated, root, path, up>>

\* bptree_insert gives an empty tree a root leaf.
CreateRoot ==
    /\ pc = "descend" /\ cur = Nil
    /\ Free # {}
    /\ heap' = [heap EXCEPT ![NewNode] = Blank(TRUE)]
    /\ allocated' = allocated \cup {NewNode}
    /\ root' = NewNode /\ cur' = NewNode
    /\ UNCHANGED <<pc, call, path, up, ret>>

CreateRootFails ==
    /\ pc = "descend" /\ cur = Nil
    /\ CreateNodeFails("empty root")
    /\ Return("refused")
    /\ UNCHANGED <<heap, allocated, root>>

\* insert_recursive goes down one level.
Descend ==
    /\ pc = "descend" /\ cur # Nil
    /\ ~heap[cur].is_leaf
    /\ LET position == find_child_position(heap[cur].keys, call.key)
       IN  /\ path' = <<[node |-> cur, position |-> position]>> \o path
           /\ cur' = heap[cur].children[position]
    /\ UNCHANGED <<heap, allocated, root, pc, call, up, ret>>

AtLeaf == pc = "descend" /\ cur # Nil /\ heap[cur].is_leaf
LeafPosition == find_leaf_position(heap[cur].keys, call.key)
IsDuplicate ==
    /\ LeafPosition <= Len(heap[cur].keys)
    /\ heap[cur].keys[LeafPosition] = call.key
NewLeafKeys == InsertAt(heap[cur].keys, LeafPosition, call.key)
NewLeafOffsets == InsertAt(heap[cur].offsets, LeafPosition, call.offset)

LeafDuplicate ==
    /\ AtLeaf
    /\ IsDuplicate
    /\ Return("refused")
    /\ UNCHANGED <<heap, allocated, root>>

LeafInsert ==
    /\ AtLeaf
    /\ ~IsDuplicate
    /\ Len(heap[cur].keys) < MAX_KEYS
    /\ heap' = [heap EXCEPT ![cur].keys = NewLeafKeys, ![cur].offsets = NewLeafOffsets]
    /\ Return("ok")
    /\ UNCHANGED <<allocated, root>>

\* A full node and the new entry are divided: SplitIndex entries stay.
TotalCount == MAX_KEYS + 1
SplitTooFar == TotalCount \div 2 + 1          \* slip: off by one
SplitIndex == TotalCount \div 2

\* Slip: the right half does not inherit the chain behind the leaf.
RightLeafUnlinked ==
    [is_leaf |-> TRUE, children |-> <<>>, next |-> Nil,
     keys |-> SubSeq(NewLeafKeys, SplitIndex + 1, TotalCount),
     offsets |-> SubSeq(NewLeafOffsets, SplitIndex + 1, TotalCount)]

\* Slip: the right half is filled from the leaf as it was before the insertion.
RightLeafStale ==
    [is_leaf |-> TRUE, children |-> <<>>, next |-> heap[cur].next,
     keys |-> SubSeq(NewLeafKeys, SplitIndex + 1, TotalCount),
     offsets |-> SubSeq(heap[cur].offsets, SplitIndex, MAX_KEYS)]

RightLeaf ==
    [is_leaf |-> TRUE, children |-> <<>>, next |-> heap[cur].next,
     keys |-> SubSeq(NewLeafKeys, SplitIndex + 1, TotalCount),
     offsets |-> SubSeq(NewLeafOffsets, SplitIndex + 1, TotalCount)]

\* split_leaf_and_insert: the right half becomes the leaf's new neighbour.
LeafSplit ==
    /\ AtLeaf
    /\ ~IsDuplicate
    /\ Len(heap[cur].keys) = MAX_KEYS
    /\ Free # {}
    /\ heap' = [heap EXCEPT ![cur].keys = SubSeq(NewLeafKeys, 1, SplitIndex),
                            ![cur].offsets = SubSeq(NewLeafOffsets, 1, SplitIndex),
                            ![cur].next = NewNode,
                            ![NewNode] = RightLeaf]
    /\ allocated' = allocated \cup {NewNode}
    /\ up' = [key |-> RightLeaf.keys[1], right |-> NewNode]
    /\ pc' = "ascend"
    /\ UNCHANGED <<root, call, cur, path, ret>>

LeafSplitFails ==
    /\ AtLeaf
    /\ ~IsDuplicate
    /\ Len(heap[cur].keys) = MAX_KEYS
    /\ CreateNodeFails("leaf split")
    /\ Return("refused")
    /\ UNCHANGED <<heap, allocated, root>>

\* Back in insert_recursive of the parent with a split child.
AtParent == pc = "ascend" /\ path # <<>>
Parent == path[1].node
NewParentKeys == InsertAt(heap[Parent].keys, path[1].position, up.key)
NewParentChildren == InsertAt(heap[Parent].children, path[1].position + 1, up.right)

InternalInsert ==
    /\ AtParent
    /\ Len(heap[Parent].keys) < MAX_KEYS
    /\ heap' = [heap EXCEPT ![Parent].keys = NewParentKeys,
                            ![Parent].children = NewParentChildren]
    /\ Return("ok")
    /\ UNCHANGED <<allocated, root>>

\* Slip: the middle key moves up and also stays, as a leaf's would.
RightInternalKeepsMiddle ==
    [Blank(FALSE) EXCEPT
        !.keys = SubSeq(NewParentKeys, SplitIndex + 1, TotalCount),
        !.children = SubSeq(NewParentChildren, SplitIndex + 2, TotalCount + 1)]

RightInternal ==
    [Blank(FALSE) EXCEPT
        !.keys = SubSeq(NewParentKeys, SplitIndex + 2, TotalCount),
        !.children = SubSeq(NewParentChildren, SplitIndex + 2, TotalCount + 1)]

\* split_internal_and_insert: the middle key moves up and stays in neither half.
InternalSplit ==
    /\ AtParent
    /\ Len(heap[Parent].keys) = MAX_KEYS
    /\ Free # {}
    /\ heap' = [heap EXCEPT ![Parent].keys = SubSeq(NewParentKeys, 1, SplitIndex),
                            ![Parent].children = SubSeq(NewParentChildren, 1, SplitIndex + 1),
                            ![NewNode] = RightInternal]
    /\ allocated' = allocated \cup {NewNode}
    /\ up' = [key |-> NewParentKeys[SplitIndex + 1], right |-> NewNode]
    /\ cur' = Parent
    /\ path' = Tail(path)
    /\ UNCHANGED <<root, pc, call, ret>>

InternalSplitFails ==
    /\ AtParent
    /\ Len(heap[Parent].keys) = MAX_KEYS
    /\ CreateNodeFails("internal split")
    /\ Return("refused")
    /\ UNCHANGED <<heap, allocated, root>>

\* Slip: the new root is not linked to the right half.
TopWithoutRight == [Blank(FALSE) EXCEPT !.keys = <<up.key>>, !.children = <<root, Nil>>]

\* Slip: tree->root is assigned before the new root takes it as its first child.
TopAboveItself == [Blank(FALSE) EXCEPT !.keys = <<up.key>>, !.children = <<NewNode, up.right>>]

Top == [Blank(FALSE) EXCEPT !.keys = <<up.key>>, !.children = <<root, up.right>>]

\* The old root was split: bptree_insert puts a new root above both halves.
NewRoot ==
    /\ pc = "ascend" /\ path = <<>>
    /\ Free # {}
    /\ heap' = [heap EXCEPT ![NewNode] = Top]
    /\ allocated' = allocated \cup {NewNode}
    /\ root' = NewNode
    /\ Return("ok")

NewRootFails ==
    /\ pc = "ascend" /\ path = <<>>
    /\ CreateNodeFails("new root")
    /\ Return("refused")
    /\ UNCHANGED <<heap, allocated, root>>

-----------------------------------------------------------------------------
\* bptree_create: calloc leaves the root pointer NULL.
Init ==
    /\ heap = [n \in Nodes |-> Blank(FALSE)]
    /\ allocated = {}
    /\ root = Nil
    /\ pc = "idle" /\ call = NoCall /\ cur = Nil /\ path = <<>> /\ up = NoSplit
    /\ ret = "none"

InsertStep ==
    \/ CreateRoot \/ CreateRootFails
    \/ Descend
    \/ LeafDuplicate \/ LeafInsert \/ LeafSplit \/ LeafSplitFails
    \/ InternalInsert \/ InternalSplit \/ InternalSplitFails
    \/ NewRoot \/ NewRootFails

Next ==
    \/ \E row \in Rows : InsertCall(row[1], row[2])
    \/ InsertStep

Spec == Init /\ [][Next]_vars

-----------------------------------------------------------------------------
(* Properties. *)

NodeRecords ==
    [is_leaf : BOOLEAN, keys : Seq(Keys), offsets : Seq(Offsets),
     next : Nodes \cup {Nil}, children : Seq(Nodes)]

\* Every variable keeps its shape; NULL is the only address outside the heap.
TypeOK ==
    /\ heap \in [Nodes -> NodeRecords]
    /\ allocated \subseteq Nodes
    /\ root \in allocated \cup {Nil}
    /\ pc \in {"idle", "descend", "ascend"}
    /\ call \in [key : Int, offset : Nat]
    /\ cur \in Nodes \cup {Nil}
    /\ path \in Seq([node : Nodes, position : Nat])
    /\ up \in [key : Int, right : Nodes \cup {Nil}]
    /\ ret \in {"none", "running", "ok", "refused"}

Children(n) == IF heap[n].is_leaf THEN {} ELSE ToSet(heap[n].children)

\* The nodes of the subtree under n.
Subtree(n) ==
    LET below[m \in allocated] == {m} \cup UNION {below[c] : c \in Children(m)}
    IN  below[n]

KeysUnder(n) == UNION {ToSet(heap[m].keys) : m \in Subtree(n)}

Height(n) ==
    LET above[m \in allocated] ==
            IF heap[m].is_leaf THEN 0 ELSE 1 + above[heap[m].children[1]]
    IN  above[n]

\* Each separator of an internal node divides the keys of its two neighbours.
SubtreesSeparated(n) ==
    /\ Len(heap[n].children) = Len(heap[n].keys) + 1
    /\ \A i \in DOMAIN heap[n].keys :
         /\ \A k \in KeysUnder(heap[n].children[i]) : k < heap[n].keys[i]
         /\ \A k \in KeysUnder(heap[n].children[i + 1]) : k >= heap[n].keys[i]

\* All leaves lie at one depth, so no search is longer than another.
LeavesLevel(n) == \A c \in Children(n) : Height(c) = Height(n) - 1

\* No node overflows its arrays, and no split leaves a node underfull.
NodeFilled(n) ==
    LET least == IF n = root THEN 0
                 ELSE IF heap[n].is_leaf THEN ORDER \div 2
                 ELSE ORDER - 1 - ORDER \div 2
    IN  Len(heap[n].keys) \in least .. MAX_KEYS

(* The nodes below the root are at all times a B+ tree: split after split, and *)
(* after any failed allocation (bptree.c:132-327 updates parents and children  *)
(* in separate steps, and stops between two of them when calloc fails).        *)
SearchTree ==
    root # Nil =>
        \A n \in Subtree(root) :
            /\ NodeFilled(n)
            /\ heap[n].is_leaf => Len(heap[n].offsets) = Len(heap[n].keys)
            /\ ~heap[n].is_leaf => SubtreesSeparated(n) /\ LeavesLevel(n)

(* No step loses an entry, or moves it to another offset: what once got into a *)
(* leaf stays in the chain, even when the allocation of a parent fails         *)
(* (bptree.c:147-150, 247-251, 351-354).                                       *)
EntriesStay == [][ToSet(Chain) \subseteq ToSet(Chain')]_vars

(* The recursion of insert_recursive is never deeper than the tree: it passes no *)
(* node twice, whatever earlier insertions and failed allocations left behind    *)
(* (bptree.c:296-327 recurses on children that 275-290 and 357-358 linked).      *)
NoNodePassedTwice ==
    /\ \A i, j \in DOMAIN path : i # j => path[i].node # path[j].node
    /\ pc = "descend" => \A i \in DOMAIN path : path[i].node # cur

(* A key is stored once: "삽입 시 duplicate를 실패로 처리합니다"                *)
(* (docs/bptree-easy-guide.md:246).                                            *)
NoKeyTwice ==
    LET entries == Chain
    IN  \A i, j \in DOMAIN entries : i # j => entries[i][1] # entries[j][1]

-----------------------------------------------------------------------------
(* Refinement of PkIndex.  The abstract map changes when the call returns: until *)
(* then the key that a split has already placed is not yet part of it.           *)

StoredMap ==
    IF pc = "ascend" THEN {e \in ToSet(Chain) : e[1] # call.key} ELSE ToSet(Chain)

Abstract == INSTANCE PkIndex WITH map <- StoredMap, MayFail <- Failing # {}

(* Insertions succeed once per key and otherwise change nothing that is stored. *)
ImplementsPkIndex == Abstract!Spec

(* Between two calls every way into the data gives the answer of the map: a    *)
(* search from the root finds exactly the entries of the leaf chain, with      *)
(* their offsets, and the visits along the chain report them in key order      *)
(* (bptree.c:182-183 links leaves, 313-358 link parents, in separate steps).   *)
ReadsAnswer ==
    pc = "idle" =>
        LET map == StoredMap
        IN  \A key \in Keys :
                /\ bptree_search(key) = Abstract!Search(map, key)
                /\ bptree_visit_greater_than(key) = Abstract!VisitGreaterThan(map, key)
                /\ bptree_visit_less_than(key) = Abstract!VisitLessThan(map, key)
=============================================================================
