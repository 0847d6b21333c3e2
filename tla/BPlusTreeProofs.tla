-------------------------- MODULE BPlusTreeProofs --------------------------
(***************************************************************************)
(* The nodes of the tree, for every order, every set of keys and every     *)
(* failure of calloc: no array of a node overflows, insert_recursive meets *)
(* no node twice, and the nodes below the root are a B+ tree.              *)
(*                                                                         *)
(* The second needs what the reads of BPlusTree compute by walking the     *)
(* heap: how high a node lies.  Instead of computing it, Leveled says that *)
(* there are levels at all: a number for each node, 0 for a leaf, one less *)
(* for each child, and the same for the two halves of a split node.        *)
(*                                                                         *)
(* SearchTree speaks of all keys under a child.  The invariant replaces    *)
(* them by a set of keys for each node, `under', that holds at least the   *)
(* keys under it: the sets of the children lie within that of their        *)
(* parent, between the separators.  The set of a node that bptree_insert   *)
(* reaches also holds the key that is being inserted, so that a leaf can   *)
(* take it; and while the two halves of a node wait for their parent, they *)
(* are divided by the promoted key.  A half that never gets a parent,      *)
(* because an allocation fails, keeps its place in no node at all.         *)
(***************************************************************************)
EXTENDS BPlusTree, SequenceTheorems, NaturalsRecursion, TLAPS

\* The arrays of an allocated node hold what the C arrays hold.
NodeShape(n) ==
    /\ Len(heap[n].keys) <= MAX_KEYS
    /\ heap[n].is_leaf => Len(heap[n].offsets) = Len(heap[n].keys)
    /\ ~heap[n].is_leaf => Len(heap[n].children) = Len(heap[n].keys) + 1
    /\ \A i \in DOMAIN heap[n].children : heap[n].children[i] \in allocated

Shapes == \A n \in allocated : NodeShape(n)

\* What is known of the running call at each place.
CallShape ==
    /\ pc # "idle" => call.key \in Keys /\ call.offset \in Offsets
    /\ pc = "idle" => path = <<>>
    /\ pc = "descend" =>
         IF cur = Nil THEN root = Nil /\ path = <<>> ELSE cur \in allocated
    /\ pc = "ascend" => cur \in allocated /\ up.right \in allocated /\ up.key \in Keys
    /\ pc # "idle" /\ path = <<>> => cur = root

\* A step on the way down: an internal node and one of its children.
OnPath(step) ==
    /\ step.node \in allocated
    /\ ~heap[step.node].is_leaf
    /\ step.position \in 1 .. Len(heap[step.node].keys) + 1

PathShape ==
    /\ \A i \in DOMAIN path : OnPath(path[i])
    /\ path # <<>> => path[Len(path)].node = root

LeavesAtBottom(level) == \A n \in allocated : heap[n].is_leaf => level[n] = 0

ChildrenBelow(level) ==
    \A n \in allocated : ~heap[n].is_leaf =>
        \A i \in DOMAIN heap[n].children : level[heap[n].children[i]] + 1 = level[n]

CallLeveled(level) ==
    /\ \A i \in DOMAIN path : level[path[i].node] = level[cur] + i
    /\ pc = "ascend" => level[up.right] = level[cur]

Leveled ==
    \E level \in [Nodes -> Nat] :
        LeavesAtBottom(level) /\ ChildrenBelow(level) /\ CallLeveled(level)

TreeInv == TypeOK /\ Shapes /\ CallShape /\ PathShape /\ Leveled

-----------------------------------------------------------------------------
(* Numbers, sequences and positions. *)

LEMMA RowTypes == Keys \subseteq Int /\ Offsets \subseteq Nat
BY RowsAssumption DEF Keys, Offsets

\* A nonempty set of naturals has its minimum in it.
LEMMA MinInSet ==
    ASSUME NEW S, S \subseteq Nat, S # {}
    PROVE  Min(S) \in S
<1>1. \E R : /\ \E x \in S : \A y \in S : ~(<<y, x>> \in R)
             /\ \A x, y \in Nat : y < x => <<y, x>> \in R
  <2>1. \E x \in S : \A y \in S : ~(<<y, x>> \in OpToRel(<, Nat))
    BY NatLessThanWellFounded, WFMin
  <2>2. \A x, y \in Nat : y < x => <<y, x>> \in OpToRel(<, Nat)
    BY DEF OpToRel
  <2> QED
    BY <2>1, <2>2
<1>2. PICK R : /\ \E x \in S : \A y \in S : ~(<<y, x>> \in R)
               /\ \A x, y \in Nat : y < x => <<y, x>> \in R
  BY <1>1
<1>3. PICK x \in S : \A y \in S : ~(<<y, x>> \in R)
  BY <1>2, Zenon
<1>4. \A y \in S : ~(y < x)
  BY <1>2, <1>3, Zenon
<1>5. \A y \in S : x <= y
  BY <1>4
<1> QED
  BY <1>5 DEF Min

LEMMA PositionBound ==
    ASSUME NEW S, NEW s \in Seq(S), NEW stops, stops \subseteq DOMAIN s
    PROVE  FirstPosition(s, stops) \in 1 .. Len(s) + 1
<1>1. Len(s) \in Nat /\ DOMAIN s = 1 .. Len(s)
  BY LenProperties
<1>2. CASE stops = {}
  BY <1>1, <1>2 DEF FirstPosition
<1>3. CASE stops # {}
  <2>1. Min(stops) \in stops
    BY <1>1, <1>3, MinInSet
  <2> QED
    BY <1>1, <1>3, <2>1 DEF FirstPosition
<1> QED
  BY <1>2, <1>3

\* A piece of a sequence.
LEMMA Slice ==
    ASSUME NEW S, NEW s \in Seq(S), NEW m \in 1 .. Len(s) + 1, NEW n \in m - 1 .. Len(s)
    PROVE  /\ SubSeq(s, m, n) \in Seq(S)
           /\ Len(SubSeq(s, m, n)) = n - m + 1
           /\ DOMAIN SubSeq(s, m, n) = 1 .. n - m + 1
           /\ \A i \in 1 .. n - m + 1 : SubSeq(s, m, n)[i] = s[m + i - 1]
<1>1. Len(s) \in Nat /\ m \in Int /\ n \in Int
  BY LenProperties
<1>2. \A i \in m .. n : s[i] \in S
  BY <1>1, ElementOfSeq
<1>3. /\ SubSeq(s, m, n) \in Seq(S)
      /\ Len(SubSeq(s, m, n)) = IF m <= n THEN n - m + 1 ELSE 0
      /\ \A i \in 1 .. n - m + 1 : SubSeq(s, m, n)[i] = s[m + i - 1]
  BY <1>1, <1>2, SubSeqProperties
<1>4. Len(SubSeq(s, m, n)) = n - m + 1
  BY <1>1, <1>3
<1> QED
  BY <1>3, <1>4, LenProperties

\* An insertion puts one element in place and moves those behind it.
LEMMA InsertedAt ==
    ASSUME NEW S, NEW s \in Seq(S), NEW i \in 1 .. Len(s) + 1, NEW e \in S
    PROVE  /\ InsertAt(s, i, e) \in Seq(S)
           /\ Len(InsertAt(s, i, e)) = Len(s) + 1
           /\ DOMAIN InsertAt(s, i, e) = 1 .. Len(s) + 1
           /\ \A j \in 1 .. Len(s) + 1 :
                InsertAt(s, i, e)[j] = IF j < i THEN s[j] ELSE IF j = i THEN e ELSE s[j - 1]
<1> DEFINE before == SubSeq(s, 1, i - 1)
           after == SubSeq(s, i, Len(s))
           left == before \o <<e>>
           all == left \o after
<1>1. Len(s) \in Nat /\ i \in Nat
  BY LenProperties
<1>2. /\ before \in Seq(S) /\ Len(before) = i - 1
      /\ \A j \in 1 .. i - 1 : before[j] = s[j]
  <2>1. 1 \in 1 .. Len(s) + 1 /\ i - 1 \in 1 - 1 .. Len(s)
    BY <1>1
  <2> QED
    BY <1>1, <2>1, Slice
<1>3. /\ after \in Seq(S) /\ Len(after) = Len(s) - i + 1
      /\ \A j \in 1 .. Len(s) - i + 1 : after[j] = s[i + j - 1]
  <2>1. Len(s) \in i - 1 .. Len(s)
    BY <1>1
  <2> QED
    BY <1>1, <2>1, Slice
<1>4. <<e>> \in Seq(S) /\ Len(<<e>>) = 1 /\ <<e>>[1] = e
  OBVIOUS
<1> HIDE DEF before, after
<1>5. /\ left \in Seq(S) /\ Len(left) = i
      /\ \A j \in 1 .. i : left[j] = IF j <= i - 1 THEN before[j] ELSE <<e>>[j - (i - 1)]
  BY <1>1, <1>2, <1>4, ConcatProperties
<1>6. \A j \in 1 .. i : left[j] = IF j <= i - 1 THEN s[j] ELSE e
  BY <1>1, <1>2, <1>4, <1>5
<1> HIDE DEF left
<1>7. /\ all \in Seq(S) /\ Len(all) = Len(s) + 1
      /\ \A j \in 1 .. Len(s) + 1 : all[j] = IF j <= i THEN left[j] ELSE after[j - i]
  <2>1. /\ all \in Seq(S) /\ Len(all) = Len(left) + Len(after)
        /\ \A j \in 1 .. Len(left) + Len(after) :
             all[j] = IF j <= Len(left) THEN left[j] ELSE after[j - Len(left)]
    BY <1>3, <1>5, ConcatProperties
  <2>2. Len(left) = i /\ Len(left) + Len(after) = Len(s) + 1
    BY <1>1, <1>3, <1>5
  <2> HIDE DEF all
  <2> QED
    BY <2>1, <2>2
<1> HIDE DEF all
<1>8. \A j \in 1 .. Len(s) + 1 :
        all[j] = IF j < i THEN s[j] ELSE IF j = i THEN e ELSE s[j - 1]
  <2> SUFFICES ASSUME NEW j \in 1 .. Len(s) + 1
               PROVE  all[j] = IF j < i THEN s[j] ELSE IF j = i THEN e ELSE s[j - 1]
    OBVIOUS
  <2>1. CASE j < i
    BY <1>1, <1>6, <1>7, <2>1
  <2>2. CASE j = i
    BY <1>1, <1>6, <1>7, <2>2
  <2>3. CASE j > i
    <3>1. all[j] = after[j - i] /\ j - i \in 1 .. Len(s) - i + 1
      BY <1>1, <1>7, <2>3
    <3>2. all[j] = s[i + (j - i) - 1] /\ i + (j - i) - 1 = j - 1
      BY <1>1, <1>3, <2>3, <3>1
    <3> QED
      BY <1>1, <2>3, <3>2
  <2> QED
    BY <1>1, <2>1, <2>2, <2>3
<1>9. all = InsertAt(s, i, e)
  BY DEF all, left, before, after, InsertAt
<1>10. DOMAIN all = 1 .. Len(s) + 1
  BY <1>7, LenProperties
<1> QED
  BY <1>7, <1>8, <1>9, <1>10

\* An insertion adds one element, and all others were there.
LEMMA Inserted ==
    ASSUME NEW S, NEW s \in Seq(S), NEW i \in 1 .. Len(s) + 1, NEW e \in S
    PROVE  /\ InsertAt(s, i, e) \in Seq(S)
           /\ Len(InsertAt(s, i, e)) = Len(s) + 1
           /\ DOMAIN InsertAt(s, i, e) = 1 .. Len(s) + 1
           /\ \A j \in 1 .. Len(s) + 1 :
                InsertAt(s, i, e)[j] = e \/ \E k \in 1 .. Len(s) : InsertAt(s, i, e)[j] = s[k]
<1>1. /\ InsertAt(s, i, e) \in Seq(S) /\ Len(InsertAt(s, i, e)) = Len(s) + 1
      /\ DOMAIN InsertAt(s, i, e) = 1 .. Len(s) + 1
  BY InsertedAt
<1>2. \A j \in 1 .. Len(s) + 1 :
        InsertAt(s, i, e)[j] = IF j < i THEN s[j] ELSE IF j = i THEN e ELSE s[j - 1]
  BY InsertedAt
<1>3. Len(s) \in Nat /\ i \in Nat
  BY LenProperties
<1>4. ASSUME NEW j \in 1 .. Len(s) + 1
      PROVE  InsertAt(s, i, e)[j] = e \/ \E k \in 1 .. Len(s) : InsertAt(s, i, e)[j] = s[k]
  <2>1. /\ j < i => j \in 1 .. Len(s) /\ InsertAt(s, i, e)[j] = s[j]
        /\ j > i => j - 1 \in 1 .. Len(s) /\ InsertAt(s, i, e)[j] = s[j - 1]
        /\ j = i => InsertAt(s, i, e)[j] = e
    BY <1>2, <1>3
  <2>2. j < i \/ j > i \/ j = i
    BY <1>3
  <2> QED
    BY <2>1, <2>2
<1> QED
  BY <1>1, <1>4

\* calloc returns an address that is not in use.
LEMMA NewNodeIsNew ==
    ASSUME Free # {}
    PROVE  NewNode \in Nodes /\ NewNode \notin allocated /\ NewNode # Nil
<1>1. Free \subseteq Nat
  BY NodesAssumption DEF Free
<1>2. NewNode \in Free
  BY <1>1, MinInSet DEF NewNode
<1> QED
  BY <1>2, NodesAssumption DEF Free

LEMMA Sizes == MAX_KEYS \in Nat /\ MAX_KEYS >= 2 /\ TotalCount = ORDER
               /\ SplitIndex \in 1 .. MAX_KEYS - 1
BY OrderAssumption DEF MAX_KEYS, TotalCount, SplitIndex

-----------------------------------------------------------------------------
(* The steps. *)

\* A finished call leaves nothing but the heap to be true of.
LEMMA ReturnKeeps ==
    ASSUME NEW answer \in {"ok", "refused"}, Return(answer),
           heap' \in [Nodes -> NodeRecords], allocated' \subseteq Nodes, root' \in allocated' \cup {Nil}
    PROVE  /\ TypeOK' /\ CallShape' /\ PathShape'
           /\ \A level : CallLeveled(level)'
<1>1. pc' = "idle" /\ path' = <<>> /\ ret' = answer /\ call' = NoCall /\ cur' = Nil /\ up' = NoSplit
  BY DEF Return
<1>2. DOMAIN path' = {} /\ path' \in Seq([node : Nodes, position : Nat])
  BY <1>1
<1>3. TypeOK'
  BY <1>1, <1>2 DEF TypeOK, NoCall, NoSplit
<1>4. CallShape'
  BY <1>1 DEF CallShape
<1>5. PathShape'
  BY <1>1, <1>2 DEF PathShape
<1>6. \A level : CallLeveled(level)'
  BY <1>1, <1>2 DEF CallLeveled
<1> QED
  BY <1>3, <1>4, <1>5, <1>6

\* A refused call leaves the tree as it is.
LEMMA RefusedKeeps ==
    ASSUME TreeInv, Return("refused"), UNCHANGED <<heap, allocated, root>>
    PROVE  TreeInv'
<1>1. heap' \in [Nodes -> NodeRecords] /\ allocated' \subseteq Nodes /\ root' \in allocated' \cup {Nil}
  BY DEF TreeInv, TypeOK
<1>2. TypeOK' /\ CallShape' /\ PathShape' /\ \A level : CallLeveled(level)'
  BY <1>1, ReturnKeeps
<1>3. Shapes'
  BY DEF TreeInv, Shapes, NodeShape
<1>4. PICK level \in [Nodes -> Nat] : LeavesAtBottom(level) /\ ChildrenBelow(level)
  BY DEF TreeInv, Leveled
<1>5. LeavesAtBottom(level)' /\ ChildrenBelow(level)'
  BY <1>4 DEF LeavesAtBottom, ChildrenBelow
<1> QED
  BY <1>2, <1>3, <1>4, <1>5 DEF TreeInv, Leveled

\* A node that a step leaves alone keeps its shape.
LEMMA SameNodeKeepsShape ==
    ASSUME NEW n \in allocated, NodeShape(n), heap'[n] = heap[n], allocated \subseteq allocated'
    PROVE  NodeShape(n)'
BY DEF NodeShape

LEMMA CallKeeps ==
    ASSUME TreeInv, NEW row \in Rows, InsertCall(row[1], row[2])
    PROVE  TreeInv'
<1> USE DEF TreeInv
<1>1. /\ pc = "idle" /\ pc' = "descend" /\ call' = [key |-> row[1], offset |-> row[2]]
      /\ cur' = root /\ ret' = "running" /\ UNCHANGED <<heap, allocated, root, path, up>>
  BY DEF InsertCall
<1>2. path = <<>> /\ DOMAIN path = {}
  BY <1>1 DEF CallShape
<1>3. row[1] \in Keys /\ row[2] \in Offsets
  BY DEF Keys, Offsets
<1>4. TypeOK'
  BY <1>1, <1>3, RowTypes DEF TypeOK
<1>5. Shapes'
  BY <1>1 DEF Shapes, NodeShape
<1>6. CallShape'
  BY <1>1, <1>2, <1>3 DEF CallShape, TypeOK
<1>7. PathShape'
  BY <1>1, <1>2 DEF PathShape
<1>8. PICK level \in [Nodes -> Nat] : LeavesAtBottom(level) /\ ChildrenBelow(level)
  BY DEF Leveled
<1>9. LeavesAtBottom(level)' /\ ChildrenBelow(level)' /\ CallLeveled(level)'
  BY <1>1, <1>2, <1>8 DEF LeavesAtBottom, ChildrenBelow, CallLeveled
<1> QED
  BY <1>4, <1>5, <1>6, <1>7, <1>8, <1>9 DEF Leveled

LEMMA CreateRootKeeps ==
    ASSUME TreeInv, CreateRoot
    PROVE  TreeInv'
<1> USE DEF TreeInv
<1>1. /\ pc = "descend" /\ cur = Nil
      /\ heap' = [heap EXCEPT ![NewNode] = Blank(TRUE)]
      /\ allocated' = allocated \cup {NewNode} /\ root' = NewNode /\ cur' = NewNode
      /\ UNCHANGED <<pc, call, path, up, ret>>
      /\ Free # {}
  BY DEF CreateRoot
<1>2. NewNode \in Nodes /\ NewNode \notin allocated /\ NewNode # Nil
  BY <1>1, NewNodeIsNew
<1>3. root = Nil /\ path = <<>> /\ DOMAIN path = {}
  BY <1>1 DEF CallShape
<1>4. /\ Blank(TRUE) \in NodeRecords /\ Blank(TRUE).is_leaf
      /\ Len(Blank(TRUE).keys) = 0 /\ Len(Blank(TRUE).offsets) = 0 /\ DOMAIN Blank(TRUE).children = {}
  BY DEF Blank, NodeRecords
<1>5. heap \in [Nodes -> NodeRecords]
  BY DEF TypeOK
<1>6. heap'[NewNode] = Blank(TRUE) /\ \A n \in allocated : heap'[n] = heap[n]
  BY <1>1, <1>2, <1>5 DEF TypeOK
<1>7. TypeOK'
  BY <1>1, <1>2, <1>4, <1>5 DEF TypeOK
<1>8. Shapes'
  <2> SUFFICES ASSUME NEW n \in allocated' PROVE NodeShape(n)'
    BY DEF Shapes
  <2>1. CASE n \in allocated
    BY <1>1, <1>6, <2>1, SameNodeKeepsShape DEF Shapes
  <2>2. CASE n = NewNode
    <3>1. heap'[n] = Blank(TRUE)
      BY <1>6, <2>2
    <3>2. /\ heap'[n].is_leaf /\ heap'[n].keys = <<>> /\ heap'[n].offsets = <<>>
          /\ heap'[n].children = <<>>
      BY <3>1 DEF Blank
    <3> QED
      BY <3>2, Sizes DEF NodeShape
  <2> QED
    BY <1>1, <2>1, <2>2
<1>9. CallShape'
  BY <1>1, <1>2, <1>3 DEF CallShape
<1>10. PathShape'
  BY <1>1, <1>3 DEF PathShape
<1>11. PICK level \in [Nodes -> Nat] : LeavesAtBottom(level) /\ ChildrenBelow(level)
  BY DEF Leveled
<1>12. PICK grown \in [Nodes -> Nat] :
          grown[NewNode] = 0 /\ \A n \in allocated : grown[n] = level[n]
  <2> DEFINE same == [level EXCEPT ![NewNode] = 0]
  <2>1. same \in [Nodes -> Nat] /\ same[NewNode] = 0 /\ \A n \in allocated : same[n] = level[n]
    BY <1>2, <1>5, <1>11 DEF TypeOK
  <2> QED
    BY <2>1
<1>13. ChildrenBelow(grown)'
  <2> SUFFICES ASSUME NEW n \in allocated', ~heap'[n].is_leaf
               PROVE  \A i \in DOMAIN heap'[n].children : grown[heap'[n].children[i]] + 1 = grown[n]
    BY DEF ChildrenBelow
  <2>1. n # NewNode
    BY <1>4, <1>6
  <2>2. n \in allocated /\ heap'[n] = heap[n]
    BY <1>1, <1>6, <2>1
  <2>3. \A i \in DOMAIN heap[n].children : heap[n].children[i] \in allocated
    BY <2>2 DEF Shapes, NodeShape
  <2> QED
    BY <1>11, <1>12, <2>2, <2>3 DEF ChildrenBelow
<1>14. LeavesAtBottom(grown)' /\ CallLeveled(grown)'
  BY <1>1, <1>3, <1>6, <1>11, <1>12 DEF LeavesAtBottom, CallLeveled
<1> QED
  BY <1>7, <1>8, <1>9, <1>10, <1>12, <1>13, <1>14 DEF Leveled

LEMMA DescendKeeps ==
    ASSUME TreeInv, Descend
    PROVE  TreeInv'
<1> USE DEF TreeInv
<1> DEFINE position == find_child_position(heap[cur].keys, call.key)
           step == [node |-> cur, position |-> position]
<1>1. /\ pc = "descend" /\ cur # Nil /\ ~heap[cur].is_leaf
      /\ path' = <<step>> \o path /\ cur' = heap[cur].children[position]
      /\ UNCHANGED <<heap, allocated, root, pc, call, up, ret>>
  BY DEF Descend
<1>2. cur \in allocated /\ cur \in Nodes /\ heap[cur] \in NodeRecords
  BY <1>1 DEF CallShape, TypeOK
<1>3. heap[cur].keys \in Seq(Keys) /\ heap[cur].children \in Seq(Nodes)
  BY <1>2 DEF NodeRecords
<1>4. position \in 1 .. Len(heap[cur].keys) + 1
  BY <1>3, PositionBound DEF find_child_position
<1> HIDE DEF position
<1>5. Len(heap[cur].keys) \in Nat /\ Len(heap[cur].children) \in Nat
      /\ DOMAIN heap[cur].children = 1 .. Len(heap[cur].children)
  BY <1>3, LenProperties
<1>6. position \in DOMAIN heap[cur].children /\ position \in Nat
  BY <1>1, <1>2, <1>4, <1>5 DEF Shapes, NodeShape
<1>7. cur' \in allocated
  BY <1>1, <1>2, <1>6 DEF Shapes, NodeShape
<1>8. step \in [node : Nodes, position : Nat]
  BY <1>2, <1>6
<1>9. path \in Seq([node : Nodes, position : Nat]) /\ Len(path) \in Nat
  BY LenProperties DEF TypeOK
<1>10. /\ path' \in Seq([node : Nodes, position : Nat]) /\ Len(path') = Len(path) + 1
       /\ path'[1] = step /\ \A i \in 1 .. Len(path) : path'[i + 1] = path[i]
  <2>1. <<step>> \in Seq([node : Nodes, position : Nat]) /\ Len(<<step>>) = 1 /\ <<step>>[1] = step
    BY <1>8
  <2> HIDE DEF step
  <2>2. /\ <<step>> \o path \in Seq([node : Nodes, position : Nat])
        /\ Len(<<step>> \o path) = Len(<<step>>) + Len(path)
        /\ \A i \in 1 .. Len(<<step>>) + Len(path) :
             (<<step>> \o path)[i] = IF i <= Len(<<step>>) THEN <<step>>[i] ELSE path[i - Len(<<step>>)]
    BY <1>9, <2>1, ConcatProperties
  <2> QED
    BY <1>1, <1>9, <2>1, <2>2
<1>11. DOMAIN path' = 1 .. Len(path) + 1 /\ DOMAIN path = 1 .. Len(path)
  BY <1>9, <1>10, LenProperties
<1>12. TypeOK'
  BY <1>1, <1>7, <1>10 DEF TypeOK
<1>13. Shapes'
  BY <1>1 DEF Shapes, NodeShape
<1>14. path' # <<>>
  BY <1>9, <1>10, EmptySeq
<1>15. CallShape'
  BY <1>1, <1>7, <1>14, NodesAssumption DEF CallShape, TypeOK
<1>16. \A s : s = step \/ OnPath(s) => OnPath(s)'
  BY <1>1, <1>2, <1>4 DEF OnPath
<1>17. \A i \in DOMAIN path' : path'[i] = step \/ \E j \in DOMAIN path : i = j + 1 /\ path'[i] = path[j]
  <2> SUFFICES ASSUME NEW i \in DOMAIN path', i # 1
               PROVE  \E j \in DOMAIN path : i = j + 1 /\ path'[i] = path[j]
    BY <1>10
  <2>1. i - 1 \in DOMAIN path /\ i = (i - 1) + 1
    BY <1>9, <1>11
  <2> QED
    BY <1>10, <1>11, <2>1
<1>18. (\A i \in DOMAIN path : OnPath(path[i]))'
  BY <1>16, <1>17 DEF PathShape
<1>19. path'[Len(path')].node = root
  <2>1. CASE path = <<>>
    BY <1>1, <1>10, <2>1 DEF CallShape
  <2>2. CASE path # <<>>
    <3>1. Len(path) \in 1 .. Len(path) /\ path'[Len(path) + 1] = path[Len(path)]
      BY <1>9, <1>10, <2>2, EmptySeq
    <3> QED
      BY <1>10, <2>2, <3>1 DEF PathShape
  <2> QED
    BY <2>1, <2>2
<1>20. PathShape'
  BY <1>1, <1>18, <1>19 DEF PathShape
<1>21. PICK level \in [Nodes -> Nat] : LeavesAtBottom(level) /\ ChildrenBelow(level) /\ CallLeveled(level)
  BY DEF Leveled
<1>22. LeavesAtBottom(level)' /\ ChildrenBelow(level)'
  BY <1>1, <1>21 DEF LeavesAtBottom, ChildrenBelow
<1>23. level[cur'] + 1 = level[cur] /\ cur' \in Nodes
  BY <1>1, <1>2, <1>6, <1>7, <1>21 DEF ChildrenBelow, TypeOK
<1>24. \A i \in DOMAIN path' : level[path'[i].node] = level[cur'] + i
  <2> SUFFICES ASSUME NEW i \in DOMAIN path'
               PROVE  level[path'[i].node] = level[cur'] + i
    OBVIOUS
  <2>1. CASE i = 1
    BY <1>10, <1>23, <2>1
  <2>2. CASE i # 1
    <3>1. i - 1 \in DOMAIN path /\ path'[i] = path[i - 1] /\ i \in Int
      <4>1. i \in Int /\ i - 1 \in 1 .. Len(path) /\ (i - 1) + 1 = i
        BY <1>9, <1>11, <2>2
      <4> QED
        BY <1>10, <1>11, <4>1
    <3>2. level[path[i - 1].node] = level[cur] + (i - 1)
      BY <1>21, <3>1 DEF CallLeveled
    <3>3. level[cur] \in Int /\ level[cur'] \in Int
      BY <1>2, <1>21, <1>23
    <3> QED
      BY <1>23, <3>1, <3>2, <3>3
  <2> QED
    BY <2>1, <2>2
<1>25. CallLeveled(level)'
  BY <1>1, <1>24 DEF CallLeveled
<1> QED
  BY <1>12, <1>13, <1>15, <1>20, <1>21, <1>22, <1>25 DEF Leveled

\* The leaf with its new entry, before it is divided or not.
LEMMA LeafEntry ==
    ASSUME TreeInv, AtLeaf
    PROVE  /\ cur \in allocated /\ cur \in Nodes /\ heap[cur] \in NodeRecords
           /\ Len(heap[cur].keys) \in Nat
           /\ NewLeafKeys \in Seq(Keys) /\ Len(NewLeafKeys) = Len(heap[cur].keys) + 1
           /\ NewLeafOffsets \in Seq(Offsets) /\ Len(NewLeafOffsets) = Len(heap[cur].keys) + 1
           /\ \A i \in DOMAIN heap[cur].children : heap[cur].children[i] \in allocated
<1> USE DEF TreeInv
<1>1. pc = "descend" /\ cur # Nil /\ heap[cur].is_leaf
  BY DEF AtLeaf
<1>2. cur \in allocated /\ cur \in Nodes /\ heap[cur] \in NodeRecords
  BY <1>1 DEF CallShape, TypeOK
<1>3. NodeShape(cur)
  BY <1>2 DEF Shapes
<1>4. heap[cur].keys \in Seq(Keys) /\ heap[cur].offsets \in Seq(Offsets)
  BY <1>2 DEF NodeRecords
<1>5. call.key \in Keys /\ call.offset \in Offsets
  BY <1>1 DEF CallShape
<1>6. LeafPosition \in 1 .. Len(heap[cur].keys) + 1
  BY <1>4, PositionBound DEF LeafPosition, find_leaf_position
<1>7. Len(heap[cur].offsets) = Len(heap[cur].keys)
  BY <1>1, <1>3 DEF NodeShape
<1>8. NewLeafKeys \in Seq(Keys) /\ Len(NewLeafKeys) = Len(heap[cur].keys) + 1
  BY <1>4, <1>5, <1>6, Inserted DEF NewLeafKeys
<1>9. NewLeafOffsets \in Seq(Offsets) /\ Len(NewLeafOffsets) = Len(heap[cur].keys) + 1
  <2>1. LeafPosition \in 1 .. Len(heap[cur].offsets) + 1
    BY <1>6, <1>7
  <2> HIDE DEF LeafPosition
  <2>2. /\ InsertAt(heap[cur].offsets, LeafPosition, call.offset) \in Seq(Offsets)
        /\ Len(InsertAt(heap[cur].offsets, LeafPosition, call.offset)) = Len(heap[cur].offsets) + 1
    BY <1>4, <1>5, <2>1, Inserted
  <2> QED
    BY <1>7, <2>2 DEF NewLeafOffsets
<1> QED
  BY <1>2, <1>3, <1>4, <1>8, <1>9, LenProperties DEF NodeShape

LEMMA LeafInsertKeeps ==
    ASSUME TreeInv, LeafInsert
    PROVE  TreeInv'
<1> USE DEF TreeInv
<1>1. /\ AtLeaf /\ Len(heap[cur].keys) < MAX_KEYS
      /\ heap' = [heap EXCEPT ![cur].keys = NewLeafKeys, ![cur].offsets = NewLeafOffsets]
      /\ Return("ok") /\ UNCHANGED <<allocated, root>>
  BY DEF LeafInsert
<1>2. /\ cur \in allocated /\ cur \in Nodes /\ heap[cur] \in NodeRecords
      /\ Len(heap[cur].keys) \in Nat
      /\ NewLeafKeys \in Seq(Keys) /\ Len(NewLeafKeys) = Len(heap[cur].keys) + 1
      /\ NewLeafOffsets \in Seq(Offsets) /\ Len(NewLeafOffsets) = Len(heap[cur].keys) + 1
  BY <1>1, LeafEntry
<1>3. heap \in [Nodes -> NodeRecords] /\ allocated \subseteq Nodes
  BY DEF TypeOK
<1> DEFINE node == [heap[cur] EXCEPT !.keys = NewLeafKeys, !.offsets = NewLeafOffsets]
<1>4. /\ heap'[cur] = node
      /\ \A n \in allocated : n # cur => heap'[n] = heap[n]
  BY <1>1, <1>2, <1>3
<1>5. /\ node \in NodeRecords /\ node.is_leaf
      /\ node.keys = NewLeafKeys /\ node.offsets = NewLeafOffsets /\ node.children = heap[cur].children
  BY <1>1, <1>2 DEF NodeRecords, AtLeaf
<1>6. heap' = [heap EXCEPT ![cur] = node]
  BY <1>1, <1>2, <1>3
<1> HIDE DEF node
<1>7. heap' \in [Nodes -> NodeRecords] /\ root' \in allocated' \cup {Nil}
  BY <1>1, <1>3, <1>5, <1>6 DEF TypeOK
<1>8. TypeOK' /\ CallShape' /\ PathShape' /\ \A level : CallLeveled(level)'
  BY <1>1, <1>3, <1>7, ReturnKeeps
<1>9. Shapes'
  <2> SUFFICES ASSUME NEW n \in allocated' PROVE NodeShape(n)'
    BY DEF Shapes
  <2>1. CASE n # cur
    BY <1>1, <1>4, <2>1, SameNodeKeepsShape DEF Shapes
  <2>2. CASE n = cur
    <3>1. heap'[n] = node /\ NodeShape(n)
      BY <1>2, <1>4, <2>2 DEF Shapes
    <3>2. Len(node.keys) <= MAX_KEYS /\ Len(node.offsets) = Len(node.keys)
      BY <1>1, <1>2, <1>5, Sizes
    <3>3. \A i \in DOMAIN node.children : node.children[i] \in allocated
      BY <1>5, <2>2, <3>1 DEF NodeShape
    <3>4. node.is_leaf /\ allocated' = allocated
      BY <1>1, <1>5
    <3> QED
      BY <3>1, <3>2, <3>3, <3>4 DEF NodeShape
  <2> QED
    BY <2>1, <2>2
<1>10. PICK level \in [Nodes -> Nat] : LeavesAtBottom(level) /\ ChildrenBelow(level)
  BY DEF Leveled
<1>11. ChildrenBelow(level)'
  <2> SUFFICES ASSUME NEW n \in allocated', ~heap'[n].is_leaf
               PROVE  \A i \in DOMAIN heap'[n].children : level[heap'[n].children[i]] + 1 = level[n]
    BY DEF ChildrenBelow
  <2>1. n \in allocated /\ heap'[n] = heap[n]
    BY <1>1, <1>4, <1>5
  <2> QED
    BY <1>10, <2>1 DEF ChildrenBelow
<1>12. LeavesAtBottom(level)'
  BY <1>1, <1>2, <1>4, <1>10 DEF LeavesAtBottom, AtLeaf
<1> QED
  BY <1>8, <1>9, <1>10, <1>11, <1>12 DEF Leveled

LEMMA LeafSplitKeeps ==
    ASSUME TreeInv, LeafSplit
    PROVE  TreeInv'
<1> USE DEF TreeInv
<1>1. /\ AtLeaf /\ Len(heap[cur].keys) = MAX_KEYS /\ Free # {}
      /\ allocated' = allocated \cup {NewNode}
      /\ up' = [key |-> RightLeaf.keys[1], right |-> NewNode]
      /\ pc' = "ascend"
      /\ UNCHANGED <<root, call, cur, path, ret>>
  BY DEF LeafSplit
<1>2. /\ cur \in allocated /\ cur \in Nodes /\ heap[cur] \in NodeRecords
      /\ NewLeafKeys \in Seq(Keys) /\ Len(NewLeafKeys) = MAX_KEYS + 1
      /\ NewLeafOffsets \in Seq(Offsets) /\ Len(NewLeafOffsets) = MAX_KEYS + 1
      /\ \A i \in DOMAIN heap[cur].children : heap[cur].children[i] \in allocated
  BY <1>1, LeafEntry
<1>3. heap \in [Nodes -> NodeRecords] /\ allocated \subseteq Nodes
  BY DEF TypeOK
<1>4. NewNode \in Nodes /\ NewNode \notin allocated /\ NewNode # Nil /\ NewNode # cur
  BY <1>1, <1>2, NewNodeIsNew
<1> DEFINE left == [heap[cur] EXCEPT !.keys = SubSeq(NewLeafKeys, 1, SplitIndex),
                                     !.offsets = SubSeq(NewLeafOffsets, 1, SplitIndex),
                                     !.next = NewNode]
<1>5. heap' = [[heap EXCEPT ![cur] = left] EXCEPT ![NewNode] = RightLeaf]
  BY <1>2, <1>3, <1>4 DEF LeafSplit
<1>6. /\ left.is_leaf /\ left.children = heap[cur].children
      /\ left.keys = SubSeq(NewLeafKeys, 1, SplitIndex)
      /\ left.offsets = SubSeq(NewLeafOffsets, 1, SplitIndex)
      /\ left.keys \in Seq(Keys) /\ left.offsets \in Seq(Offsets) => left \in NodeRecords
  BY <1>1, <1>2, <1>4 DEF NodeRecords, AtLeaf
<1>7. /\ RightLeaf.is_leaf /\ RightLeaf.children = <<>>
      /\ RightLeaf.keys = SubSeq(NewLeafKeys, SplitIndex + 1, TotalCount)
      /\ RightLeaf.offsets = SubSeq(NewLeafOffsets, SplitIndex + 1, TotalCount)
      /\ RightLeaf.keys \in Seq(Keys) /\ RightLeaf.offsets \in Seq(Offsets) => RightLeaf \in NodeRecords
  <2>1. heap[cur].next \in Nodes \cup {Nil} /\ <<>> \in Seq(Nodes)
    BY <1>2 DEF NodeRecords
  <2> DEFINE keys == SubSeq(NewLeafKeys, SplitIndex + 1, TotalCount)
             offsets == SubSeq(NewLeafOffsets, SplitIndex + 1, TotalCount)
  <2>2. RightLeaf = [is_leaf |-> TRUE, children |-> <<>>, next |-> heap[cur].next,
                     keys |-> keys, offsets |-> offsets]
    BY DEF RightLeaf
  <2> HIDE DEF keys, offsets
  <2>3. /\ RightLeaf.is_leaf /\ RightLeaf.children = <<>>
        /\ RightLeaf.keys = keys /\ RightLeaf.offsets = offsets
        /\ keys \in Seq(Keys) /\ offsets \in Seq(Offsets) => RightLeaf \in NodeRecords
    BY <2>1, <2>2 DEF NodeRecords
  <2> QED
    BY <2>3 DEF keys, offsets
<1> HIDE DEF left
<1>8. /\ left.keys \in Seq(Keys) /\ Len(left.keys) = SplitIndex
      /\ left.offsets \in Seq(Offsets) /\ Len(left.offsets) = SplitIndex
  <2>1. 1 \in 1 .. MAX_KEYS + 2 /\ SplitIndex \in 1 - 1 .. MAX_KEYS + 1 /\ SplitIndex - 1 + 1 = SplitIndex
    BY Sizes
  <2> QED
    BY <1>2, <1>6, <2>1, Slice
<1>9. /\ RightLeaf.keys \in Seq(Keys) /\ Len(RightLeaf.keys) = TotalCount - SplitIndex
      /\ RightLeaf.offsets \in Seq(Offsets) /\ Len(RightLeaf.offsets) = TotalCount - SplitIndex
  <2>1. /\ SplitIndex + 1 \in 1 .. MAX_KEYS + 2
        /\ TotalCount \in (SplitIndex + 1) - 1 .. MAX_KEYS + 1
        /\ TotalCount - (SplitIndex + 1) + 1 = TotalCount - SplitIndex
    BY Sizes DEF TotalCount
  <2> QED
    BY <1>2, <1>7, <2>1, Slice
<1>10. left \in NodeRecords
  BY <1>6, <1>8
<1>11. RightLeaf \in NodeRecords
  BY <1>7, <1>9
<1>12. RightLeaf.keys[1] \in Keys
  <2>1. 1 \in 1 .. Len(RightLeaf.keys)
    BY <1>9, Sizes DEF TotalCount
  <2> QED
    BY <1>9, <2>1, ElementOfSeq
<1>13. /\ heap'[cur] = left /\ heap'[NewNode] = RightLeaf
       /\ \A n \in allocated : n # cur => heap'[n] = heap[n]
  BY <1>2, <1>3, <1>4, <1>5
<1>14. TypeOK'
  BY <1>1, <1>3, <1>4, <1>5, <1>10, <1>11, <1>12, RowTypes DEF TypeOK
<1>15. Shapes'
  <2> SUFFICES ASSUME NEW n \in allocated' PROVE NodeShape(n)'
    BY DEF Shapes
  <2>1. CASE n \in allocated /\ n # cur
    BY <1>1, <1>13, <2>1, SameNodeKeepsShape DEF Shapes
  <2>2. CASE n = cur
    <3>1. heap'[n] = left
      BY <1>13, <2>2
    <3>2. Len(left.keys) <= MAX_KEYS /\ Len(left.offsets) = Len(left.keys)
      BY <1>8, Sizes
    <3> QED
      BY <1>1, <1>2, <1>6, <3>1, <3>2 DEF NodeShape
  <2>3. CASE n = NewNode
    <3>1. heap'[n] = RightLeaf
      BY <1>13, <2>3
    <3>2. Len(RightLeaf.keys) <= MAX_KEYS /\ Len(RightLeaf.offsets) = Len(RightLeaf.keys)
      BY <1>9, Sizes DEF TotalCount
    <3>3. DOMAIN RightLeaf.children = {}
      BY <1>7
    <3> QED
      BY <1>7, <3>1, <3>2, <3>3 DEF NodeShape
  <2> QED
    BY <1>1, <2>1, <2>2, <2>3
<1>16. pc = "descend" /\ heap[cur].is_leaf
  BY <1>1 DEF AtLeaf
<1>17. CallShape'
  BY <1>1, <1>2, <1>12, <1>16 DEF CallShape
<1>18. PathShape'
  <2>1. \A s : OnPath(s) => OnPath(s)'
    BY <1>1, <1>13, <1>16 DEF OnPath
  <2> QED
    BY <1>1, <2>1 DEF PathShape
<1>19. PICK level \in [Nodes -> Nat] : LeavesAtBottom(level) /\ ChildrenBelow(level) /\ CallLeveled(level)
  BY DEF Leveled
<1>20. PICK grown \in [Nodes -> Nat] :
          grown[NewNode] = level[cur] /\ \A n \in allocated : grown[n] = level[n]
  <2> DEFINE same == [level EXCEPT ![NewNode] = level[cur]]
  <2>1. same \in [Nodes -> Nat] /\ same[NewNode] = level[cur] /\ \A n \in allocated : same[n] = level[n]
    BY <1>2, <1>3, <1>4, <1>19
  <2> QED
    BY <2>1
<1>21. ChildrenBelow(grown)'
  <2> SUFFICES ASSUME NEW n \in allocated', ~heap'[n].is_leaf
               PROVE  \A i \in DOMAIN heap'[n].children : grown[heap'[n].children[i]] + 1 = grown[n]
    BY DEF ChildrenBelow
  <2>1. n \in allocated /\ heap'[n] = heap[n]
    BY <1>1, <1>6, <1>7, <1>13
  <2>2. \A i \in DOMAIN heap[n].children : heap[n].children[i] \in allocated
    BY <2>1 DEF Shapes, NodeShape
  <2> QED
    BY <1>19, <1>20, <2>1, <2>2 DEF ChildrenBelow
<1>22. CallLeveled(grown)'
  BY <1>1, <1>2, <1>19, <1>20 DEF CallLeveled, PathShape, OnPath
<1>23. LeavesAtBottom(grown)'
  BY <1>1, <1>2, <1>13, <1>16, <1>19, <1>20 DEF LeavesAtBottom
<1> QED
  BY <1>14, <1>15, <1>17, <1>18, <1>20, <1>21, <1>22, <1>23 DEF Leveled

\* The parent with the right half of its child, before it is divided or not.
LEMMA ParentEntry ==
    ASSUME TreeInv, AtParent
    PROVE  /\ Parent \in allocated /\ Parent \in Nodes /\ heap[Parent] \in NodeRecords
           /\ ~heap[Parent].is_leaf
           /\ path \in Seq([node : Nodes, position : Nat]) /\ 1 \in DOMAIN path
           /\ Len(heap[Parent].keys) \in Nat
           /\ NewParentKeys \in Seq(Keys) /\ Len(NewParentKeys) = Len(heap[Parent].keys) + 1
           /\ NewParentChildren \in Seq(Nodes)
           /\ Len(NewParentChildren) = Len(heap[Parent].keys) + 2
           /\ DOMAIN NewParentChildren = 1 .. Len(heap[Parent].keys) + 2
           /\ \A i \in DOMAIN NewParentChildren : NewParentChildren[i] \in allocated
           /\ \A level : ChildrenBelow(level) /\ CallLeveled(level) /\ level \in [Nodes -> Nat] =>
                /\ level[Parent] = level[cur] + 1
                /\ \A i \in DOMAIN NewParentChildren : level[NewParentChildren[i]] + 1 = level[Parent]
<1> USE DEF TreeInv
<1>1. pc = "ascend" /\ path # <<>>
  BY DEF AtParent
<1>2. path \in Seq([node : Nodes, position : Nat]) /\ 1 \in DOMAIN path
  <2>1. path \in Seq([node : Nodes, position : Nat])
    BY DEF TypeOK
  <2>2. Len(path) \in Nat \ {0} /\ DOMAIN path = 1 .. Len(path)
    BY <1>1, <2>1, EmptySeq, LenProperties
  <2> QED
    BY <2>1, <2>2
<1>3. OnPath(path[1])
  BY <1>2 DEF PathShape
<1>4. Parent \in allocated /\ ~heap[Parent].is_leaf
  BY <1>3 DEF OnPath, Parent
<1>5. Parent \in Nodes /\ heap[Parent] \in NodeRecords
  BY <1>4 DEF TypeOK
<1>6. heap[Parent].keys \in Seq(Keys) /\ heap[Parent].children \in Seq(Nodes)
  BY <1>5 DEF NodeRecords
<1>7. Len(heap[Parent].keys) \in Nat /\ DOMAIN heap[Parent].children = 1 .. Len(heap[Parent].children)
  BY <1>6, LenProperties
<1>8. /\ Len(heap[Parent].children) = Len(heap[Parent].keys) + 1
      /\ \A i \in DOMAIN heap[Parent].children : heap[Parent].children[i] \in allocated
  BY <1>4 DEF Shapes, NodeShape
<1>9. up.key \in Keys /\ up.right \in allocated /\ up.right \in Nodes /\ cur \in Nodes
  BY <1>1 DEF CallShape, TypeOK
<1>10. path[1].position \in 1 .. Len(heap[Parent].keys) + 1
  BY <1>3 DEF OnPath, Parent
<1>11. path[1].position + 1 \in 1 .. Len(heap[Parent].children) + 1
  BY <1>7, <1>8, <1>10
<1>12. NewParentKeys \in Seq(Keys) /\ Len(NewParentKeys) = Len(heap[Parent].keys) + 1
  <2> DEFINE keys == heap[Parent].keys
             place == path[1].position
             key == up.key
  <2>1. keys \in Seq(Keys) /\ place \in 1 .. Len(keys) + 1 /\ key \in Keys
    BY <1>6, <1>9, <1>10
  <2> HIDE DEF keys, place, key
  <2>2. InsertAt(keys, place, key) \in Seq(Keys) /\ Len(InsertAt(keys, place, key)) = Len(keys) + 1
    BY <2>1, Inserted
  <2> QED
    BY <2>2 DEF NewParentKeys, keys, place, key
<1>13. /\ NewParentChildren \in Seq(Nodes)
       /\ Len(NewParentChildren) = Len(heap[Parent].children) + 1
       /\ DOMAIN NewParentChildren = 1 .. Len(heap[Parent].children) + 1
       /\ \A j \in 1 .. Len(heap[Parent].children) + 1 :
            \/ NewParentChildren[j] = up.right
            \/ \E k \in 1 .. Len(heap[Parent].children) : NewParentChildren[j] = heap[Parent].children[k]
  <2> DEFINE children == heap[Parent].children
             place == path[1].position + 1
             right == up.right
  <2>1. children \in Seq(Nodes) /\ place \in 1 .. Len(children) + 1 /\ right \in Nodes
    BY <1>6, <1>9, <1>11
  <2> HIDE DEF children, place, right
  <2> DEFINE longer == InsertAt(children, place, right)
  <2>2. /\ longer \in Seq(Nodes) /\ Len(longer) = Len(children) + 1
        /\ DOMAIN longer = 1 .. Len(children) + 1
    BY <2>1, Inserted
  <2>3. \A s \in Seq(Nodes), e \in Nodes : \A i \in 1 .. Len(s) + 1 : \A j \in 1 .. Len(s) + 1 :
          InsertAt(s, i, e)[j] = e \/ \E k \in 1 .. Len(s) : InsertAt(s, i, e)[j] = s[k]
    BY Inserted
  <2>4. \A j \in 1 .. Len(children) + 1 :
          longer[j] = right \/ \E k \in 1 .. Len(children) : longer[j] = children[k]
    BY <2>1, <2>3
  <2> QED
    BY <2>2, <2>4 DEF NewParentChildren, children, place, right
<1>14. Len(heap[Parent].children) + 1 = Len(heap[Parent].keys) + 2
  BY <1>7, <1>8
<1>15. \A i \in DOMAIN NewParentChildren : NewParentChildren[i] \in allocated
  BY <1>7, <1>8, <1>9, <1>13
<1>16. ASSUME NEW level, ChildrenBelow(level), CallLeveled(level), level \in [Nodes -> Nat]
       PROVE  /\ level[Parent] = level[cur] + 1
              /\ \A i \in DOMAIN NewParentChildren : level[NewParentChildren[i]] + 1 = level[Parent]
  <2>1. level[Parent] = level[cur] + 1
    BY <1>2, <1>16 DEF CallLeveled, Parent
  <2>2. level[up.right] + 1 = level[Parent]
    BY <1>1, <1>16, <2>1 DEF CallLeveled
  <2>3. \A k \in 1 .. Len(heap[Parent].children) : level[heap[Parent].children[k]] + 1 = level[Parent]
    BY <1>4, <1>7, <1>16 DEF ChildrenBelow
  <2> QED
    BY <1>13, <2>1, <2>2, <2>3
<1> QED
  BY <1>2, <1>4, <1>5, <1>7, <1>12, <1>13, <1>14, <1>15, <1>16

LEMMA InternalInsertKeeps ==
    ASSUME TreeInv, InternalInsert
    PROVE  TreeInv'
<1> USE DEF TreeInv
<1>1. /\ AtParent /\ Len(heap[Parent].keys) < MAX_KEYS
      /\ heap' = [heap EXCEPT ![Parent].keys = NewParentKeys, ![Parent].children = NewParentChildren]
      /\ Return("ok") /\ UNCHANGED <<allocated, root>>
  BY DEF InternalInsert
<1>2. /\ Parent \in allocated /\ Parent \in Nodes /\ heap[Parent] \in NodeRecords
      /\ ~heap[Parent].is_leaf
      /\ Len(heap[Parent].keys) \in Nat
      /\ NewParentKeys \in Seq(Keys) /\ Len(NewParentKeys) = Len(heap[Parent].keys) + 1
      /\ NewParentChildren \in Seq(Nodes)
      /\ Len(NewParentChildren) = Len(heap[Parent].keys) + 2
      /\ \A i \in DOMAIN NewParentChildren : NewParentChildren[i] \in allocated
  BY <1>1, ParentEntry
<1>3. heap \in [Nodes -> NodeRecords] /\ allocated \subseteq Nodes /\ root \in allocated \cup {Nil}
  BY DEF TypeOK
<1> DEFINE node == [heap[Parent] EXCEPT !.keys = NewParentKeys, !.children = NewParentChildren]
<1>4. heap' = [heap EXCEPT ![Parent] = node]
  BY <1>1, <1>2, <1>3
<1>5. /\ node \in NodeRecords /\ ~node.is_leaf
      /\ node.keys = NewParentKeys /\ node.children = NewParentChildren
  BY <1>2 DEF NodeRecords
<1> HIDE DEF node
<1>6. heap'[Parent] = node /\ \A n \in allocated : n # Parent => heap'[n] = heap[n]
  BY <1>2, <1>3, <1>4
<1>7. heap' \in [Nodes -> NodeRecords]
  BY <1>3, <1>4, <1>5
<1>8. TypeOK' /\ CallShape' /\ PathShape' /\ \A level : CallLeveled(level)'
  BY <1>1, <1>3, <1>7, ReturnKeeps
<1>9. Shapes'
  <2> SUFFICES ASSUME NEW n \in allocated' PROVE NodeShape(n)'
    BY DEF Shapes
  <2>1. CASE n # Parent
    BY <1>1, <1>6, <2>1, SameNodeKeepsShape DEF Shapes
  <2>2. CASE n = Parent
    <3>1. heap'[n] = node /\ ~node.is_leaf /\ allocated' = allocated
      BY <1>1, <1>5, <1>6, <2>2
    <3>2. Len(node.keys) <= MAX_KEYS /\ Len(node.children) = Len(node.keys) + 1
      BY <1>1, <1>2, <1>5, Sizes
    <3>3. \A i \in DOMAIN node.children : node.children[i] \in allocated
      BY <1>2, <1>5
    <3> QED
      BY <3>1, <3>2, <3>3 DEF NodeShape
  <2> QED
    BY <2>1, <2>2
<1>10. PICK level \in [Nodes -> Nat] : LeavesAtBottom(level) /\ ChildrenBelow(level) /\ CallLeveled(level)
  BY DEF Leveled
<1>11. \A i \in DOMAIN NewParentChildren : level[NewParentChildren[i]] + 1 = level[Parent]
  BY <1>1, <1>10, ParentEntry
<1>12. ChildrenBelow(level)'
  <2> SUFFICES ASSUME NEW n \in allocated', ~heap'[n].is_leaf
               PROVE  \A i \in DOMAIN heap'[n].children : level[heap'[n].children[i]] + 1 = level[n]
    BY DEF ChildrenBelow
  <2>1. CASE n # Parent
    <3>1. n \in allocated /\ heap'[n] = heap[n]
      BY <1>1, <1>6, <2>1
    <3> QED
      BY <1>10, <3>1 DEF ChildrenBelow
  <2>2. CASE n = Parent
    <3>1. heap'[n].children = NewParentChildren
      BY <1>5, <1>6, <2>2
    <3> QED
      BY <1>11, <2>2, <3>1
  <2> QED
    BY <2>1, <2>2
<1>13. LeavesAtBottom(level)'
  BY <1>1, <1>2, <1>5, <1>6, <1>10 DEF LeavesAtBottom
<1> QED
  BY <1>8, <1>9, <1>10, <1>12, <1>13 DEF Leveled

LEMMA NewRootKeeps ==
    ASSUME TreeInv, NewRoot
    PROVE  TreeInv'
<1> USE DEF TreeInv
<1>1. /\ pc = "ascend" /\ path = <<>> /\ Free # {}
      /\ heap' = [heap EXCEPT ![NewNode] = Top]
      /\ allocated' = allocated \cup {NewNode} /\ root' = NewNode
      /\ Return("ok")
  BY DEF NewRoot
<1>2. NewNode \in Nodes /\ NewNode \notin allocated /\ NewNode # Nil
  BY <1>1, NewNodeIsNew
<1>3. heap \in [Nodes -> NodeRecords] /\ allocated \subseteq Nodes
  BY DEF TypeOK
<1>4. cur = root /\ root \in allocated /\ up.right \in allocated /\ up.key \in Keys
  BY <1>1 DEF CallShape
<1>5. /\ <<up.key>> \in Seq(Keys) /\ <<root, up.right>> \in Seq(Nodes) /\ <<>> \in Seq(Offsets)
      /\ Len(<<up.key>>) = 1 /\ Len(<<root, up.right>>) = 2 /\ DOMAIN <<root, up.right>> = 1 .. 2
      /\ <<root, up.right>>[1] = root /\ <<root, up.right>>[2] = up.right
  BY <1>3, <1>4
<1>6. Blank(FALSE) \in NodeRecords /\ ~Blank(FALSE).is_leaf
  BY DEF Blank, NodeRecords
<1>7. /\ Top \in NodeRecords
      /\ ~Top.is_leaf /\ Top.keys = <<up.key>> /\ Top.children = <<root, up.right>>
  BY <1>5, <1>6 DEF Top, NodeRecords
<1>8. heap'[NewNode] = Top /\ \A n \in allocated : heap'[n] = heap[n]
  BY <1>1, <1>2, <1>3
<1>9. /\ heap' \in [Nodes -> NodeRecords] /\ allocated' \subseteq Nodes
      /\ root' \in allocated' \cup {Nil}
  BY <1>1, <1>2, <1>3, <1>7
<1>10. TypeOK' /\ CallShape' /\ PathShape' /\ \A level : CallLeveled(level)'
  BY <1>1, <1>9, ReturnKeeps
<1>11. Shapes'
  <2> SUFFICES ASSUME NEW n \in allocated' PROVE NodeShape(n)'
    BY DEF Shapes
  <2>1. CASE n \in allocated
    BY <1>1, <1>8, <2>1, SameNodeKeepsShape DEF Shapes
  <2>2. CASE n = NewNode
    <3>1. /\ ~heap'[n].is_leaf /\ heap'[n].keys = <<up.key>>
          /\ heap'[n].children = <<root, up.right>>
      BY <1>7, <1>8, <2>2
    <3>2. \A i \in 1 .. 2 : <<root, up.right>>[i] \in allocated'
      BY <1>1, <1>4, <1>5
    <3> QED
      BY <1>5, <3>1, <3>2, Sizes DEF NodeShape
  <2> QED
    BY <1>1, <2>1, <2>2
<1>12. PICK level \in [Nodes -> Nat] : LeavesAtBottom(level) /\ ChildrenBelow(level) /\ CallLeveled(level)
  BY DEF Leveled
<1>13. level[up.right] = level[root] /\ level[root] \in Nat
  BY <1>1, <1>3, <1>4, <1>12 DEF CallLeveled
<1>14. PICK grown \in [Nodes -> Nat] :
          grown[NewNode] = level[root] + 1 /\ \A n \in allocated : grown[n] = level[n]
  <2> DEFINE higher == [level EXCEPT ![NewNode] = level[root] + 1]
  <2>1. /\ higher \in [Nodes -> Nat] /\ higher[NewNode] = level[root] + 1
        /\ \A n \in allocated : higher[n] = level[n]
    BY <1>2, <1>3, <1>12, <1>13
  <2> QED
    BY <2>1
<1>15. ChildrenBelow(grown)'
  <2> SUFFICES ASSUME NEW n \in allocated', ~heap'[n].is_leaf
               PROVE  \A i \in DOMAIN heap'[n].children : grown[heap'[n].children[i]] + 1 = grown[n]
    BY DEF ChildrenBelow
  <2>1. CASE n \in allocated
    <3>1. heap'[n] = heap[n]
      BY <1>8, <2>1
    <3>2. \A i \in DOMAIN heap[n].children : heap[n].children[i] \in allocated
      BY <2>1 DEF Shapes, NodeShape
    <3> QED
      BY <1>12, <1>14, <2>1, <3>1, <3>2 DEF ChildrenBelow
  <2>2. CASE n = NewNode
    <3>1. heap'[n].children = <<root, up.right>>
      BY <1>7, <1>8, <2>2
    <3>2. grown[root] + 1 = grown[NewNode] /\ grown[up.right] + 1 = grown[NewNode]
      BY <1>4, <1>13, <1>14
    <3> QED
      BY <1>5, <2>2, <3>1, <3>2
  <2> QED
    BY <1>1, <2>1, <2>2
<1>16. LeavesAtBottom(grown)'
  BY <1>1, <1>7, <1>8, <1>12, <1>14 DEF LeavesAtBottom
<1> QED
  BY <1>10, <1>11, <1>14, <1>15, <1>16 DEF Leveled

LEMMA InternalSplitKeeps ==
    ASSUME TreeInv, InternalSplit
    PROVE  TreeInv'
<1> USE DEF TreeInv
<1>1. /\ AtParent /\ Len(heap[Parent].keys) = MAX_KEYS /\ Free # {}
      /\ allocated' = allocated \cup {NewNode}
      /\ up' = [key |-> NewParentKeys[SplitIndex + 1], right |-> NewNode]
      /\ cur' = Parent /\ path' = Tail(path)
      /\ UNCHANGED <<root, pc, call, ret>>
  BY DEF InternalSplit
<1>2. /\ Parent \in allocated /\ Parent \in Nodes /\ heap[Parent] \in NodeRecords
      /\ ~heap[Parent].is_leaf
      /\ path \in Seq([node : Nodes, position : Nat]) /\ 1 \in DOMAIN path
      /\ NewParentKeys \in Seq(Keys) /\ Len(NewParentKeys) = MAX_KEYS + 1
      /\ NewParentChildren \in Seq(Nodes)
      /\ Len(NewParentChildren) = MAX_KEYS + 2
      /\ DOMAIN NewParentChildren = 1 .. MAX_KEYS + 2
      /\ \A i \in DOMAIN NewParentChildren : NewParentChildren[i] \in allocated
  BY <1>1, ParentEntry
<1>3. heap \in [Nodes -> NodeRecords] /\ allocated \subseteq Nodes /\ pc = "ascend"
  BY <1>1 DEF TypeOK, AtParent
<1>4. NewNode \in Nodes /\ NewNode \notin allocated /\ NewNode # Nil /\ NewNode # Parent
  BY <1>1, <1>2, NewNodeIsNew
<1> DEFINE left == [heap[Parent] EXCEPT !.keys = SubSeq(NewParentKeys, 1, SplitIndex),
                                        !.children = SubSeq(NewParentChildren, 1, SplitIndex + 1)]
<1>5. heap' = [[heap EXCEPT ![Parent] = left] EXCEPT ![NewNode] = RightInternal]
  BY <1>2, <1>3, <1>4 DEF InternalSplit
<1>6. /\ ~left.is_leaf
      /\ left.keys = SubSeq(NewParentKeys, 1, SplitIndex)
      /\ left.children = SubSeq(NewParentChildren, 1, SplitIndex + 1)
      /\ left.keys \in Seq(Keys) /\ left.children \in Seq(Nodes) => left \in NodeRecords
  BY <1>2 DEF NodeRecords
<1> HIDE DEF left
<1>7. Blank(FALSE) \in NodeRecords /\ ~Blank(FALSE).is_leaf
  BY DEF Blank, NodeRecords
<1>8. /\ ~RightInternal.is_leaf
      /\ RightInternal.keys = SubSeq(NewParentKeys, SplitIndex + 2, TotalCount)
      /\ RightInternal.children = SubSeq(NewParentChildren, SplitIndex + 2, TotalCount + 1)
      /\ RightInternal.keys \in Seq(Keys) /\ RightInternal.children \in Seq(Nodes) =>
           RightInternal \in NodeRecords
  BY <1>7 DEF RightInternal, NodeRecords
<1>9. left.keys \in Seq(Keys) /\ Len(left.keys) = SplitIndex
  <2>1. 1 \in 1 .. MAX_KEYS + 2 /\ SplitIndex \in 1 - 1 .. MAX_KEYS + 1 /\ SplitIndex - 1 + 1 = SplitIndex
    BY Sizes
  <2> QED
    BY <1>2, <1>6, <2>1, Slice
<1>10. /\ left.children \in Seq(Nodes) /\ Len(left.children) = SplitIndex + 1
       /\ \A i \in DOMAIN left.children :
            \E k \in DOMAIN NewParentChildren : left.children[i] = NewParentChildren[k]
  <2> DEFINE to == SplitIndex + 1
             number == to - 1 + 1
  <2>1. /\ 1 \in 1 .. MAX_KEYS + 3 /\ to \in 1 - 1 .. MAX_KEYS + 2
        /\ number = SplitIndex + 1
        /\ \A i \in 1 .. number : 1 + i - 1 \in 1 .. MAX_KEYS + 2
    BY Sizes
  <2>2. /\ SubSeq(NewParentChildren, 1, to) \in Seq(Nodes)
        /\ Len(SubSeq(NewParentChildren, 1, to)) = number
        /\ DOMAIN SubSeq(NewParentChildren, 1, to) = 1 .. number
        /\ \A i \in 1 .. number : SubSeq(NewParentChildren, 1, to)[i] = NewParentChildren[1 + i - 1]
    <3> HIDE DEF to
    <3> QED
      BY <1>2, <2>1, Slice
  <2>3. left.children = SubSeq(NewParentChildren, 1, to)
    BY <1>6
  <2> HIDE DEF to, number
  <2> QED
    BY <1>2, <2>1, <2>2, <2>3
<1>11. RightInternal.keys \in Seq(Keys) /\ Len(RightInternal.keys) = TotalCount - SplitIndex - 1
  <2> DEFINE from == SplitIndex + 2
             to == TotalCount
             number == to - from + 1
  <2>1. /\ from \in 1 .. MAX_KEYS + 2 /\ to \in from - 1 .. MAX_KEYS + 1
        /\ number = TotalCount - SplitIndex - 1
    BY Sizes DEF TotalCount
  <2>2. /\ SubSeq(NewParentKeys, from, to) \in Seq(Keys)
        /\ Len(SubSeq(NewParentKeys, from, to)) = number
    <3> HIDE DEF from, to
    <3> QED
      BY <1>2, <2>1, Slice
  <2>3. RightInternal.keys = SubSeq(NewParentKeys, from, to)
    BY <1>8
  <2> HIDE DEF from, to, number
  <2> QED
    BY <2>1, <2>2, <2>3
<1>12. /\ RightInternal.children \in Seq(Nodes)
       /\ Len(RightInternal.children) = TotalCount - SplitIndex
       /\ \A i \in DOMAIN RightInternal.children :
            \E k \in DOMAIN NewParentChildren : RightInternal.children[i] = NewParentChildren[k]
  <2> DEFINE from == SplitIndex + 2
             to == TotalCount + 1
             number == to - from + 1
  <2>1. /\ from \in 1 .. MAX_KEYS + 3 /\ to \in from - 1 .. MAX_KEYS + 2
        /\ number = TotalCount - SplitIndex /\ from \in Nat
        /\ \A i \in 1 .. number : from + i - 1 \in 1 .. MAX_KEYS + 2
    BY Sizes DEF TotalCount
  <2>2. /\ SubSeq(NewParentChildren, from, to) \in Seq(Nodes)
        /\ Len(SubSeq(NewParentChildren, from, to)) = number
        /\ DOMAIN SubSeq(NewParentChildren, from, to) = 1 .. number
        /\ \A i \in 1 .. number : SubSeq(NewParentChildren, from, to)[i] = NewParentChildren[from + i - 1]
    <3> HIDE DEF from, to
    <3> QED
      BY <1>2, <2>1, Slice
  <2>3. RightInternal.children = SubSeq(NewParentChildren, from, to)
    BY <1>8
  <2> HIDE DEF from, to, number
  <2> QED
    BY <1>2, <2>1, <2>2, <2>3
<1>13. left \in NodeRecords /\ RightInternal \in NodeRecords
  BY <1>6, <1>8, <1>9, <1>10, <1>11, <1>12
<1>14. /\ heap'[Parent] = left /\ heap'[NewNode] = RightInternal
       /\ \A n \in allocated : n # Parent => heap'[n] = heap[n]
  BY <1>2, <1>3, <1>4, <1>5
<1>15. NewParentKeys[SplitIndex + 1] \in Keys
  <2>1. SplitIndex + 1 \in 1 .. Len(NewParentKeys)
    BY <1>2, Sizes
  <2> QED
    BY <1>2, <2>1, ElementOfSeq
<1>16. /\ path # <<>> /\ Len(path) \in Nat \ {0} /\ DOMAIN path = 1 .. Len(path)
       /\ path' \in Seq([node : Nodes, position : Nat]) /\ Len(path') = Len(path) - 1
       /\ DOMAIN path' = 1 .. Len(path) - 1
       /\ \A i \in 1 .. Len(path) - 1 : path'[i] = path[i + 1]
  <2>1. path # <<>>
    BY <1>1 DEF AtParent
  <2>2. Len(path) \in Nat \ {0} /\ DOMAIN path = 1 .. Len(path)
    BY <1>2, <2>1, EmptySeq, LenProperties
  <2>3. /\ Tail(path) \in Seq([node : Nodes, position : Nat]) /\ Len(Tail(path)) = Len(path) - 1
        /\ \A i \in 1 .. Len(Tail(path)) : Tail(path)[i] = path[i + 1]
    BY <1>2, <2>1, HeadTailProperties
  <2> QED
    BY <1>1, <2>1, <2>2, <2>3, LenProperties
<1>17. TypeOK'
  BY <1>1, <1>2, <1>3, <1>4, <1>5, <1>13, <1>15, <1>16, RowTypes DEF TypeOK
<1>18. Shapes'
  <2> SUFFICES ASSUME NEW n \in allocated' PROVE NodeShape(n)'
    BY DEF Shapes
  <2>1. CASE n \in allocated /\ n # Parent
    BY <1>1, <1>14, <2>1, SameNodeKeepsShape DEF Shapes
  <2>2. CASE n = Parent
    <3>1. heap'[n] = left
      BY <1>14, <2>2
    <3>2. Len(left.keys) <= MAX_KEYS /\ Len(left.children) = Len(left.keys) + 1
      BY <1>9, <1>10, Sizes
    <3>3. \A i \in DOMAIN left.children : left.children[i] \in allocated'
      BY <1>1, <1>2, <1>10
    <3> QED
      BY <1>6, <3>1, <3>2, <3>3 DEF NodeShape
  <2>3. CASE n = NewNode
    <3>1. heap'[n] = RightInternal
      BY <1>14, <2>3
    <3>2. /\ Len(RightInternal.keys) <= MAX_KEYS
          /\ Len(RightInternal.children) = Len(RightInternal.keys) + 1
      BY <1>11, <1>12, Sizes DEF TotalCount
    <3>3. \A i \in DOMAIN RightInternal.children : RightInternal.children[i] \in allocated'
      BY <1>1, <1>2, <1>12
    <3> QED
      BY <1>8, <3>1, <3>2, <3>3 DEF NodeShape
  <2> QED
    BY <1>1, <2>1, <2>2, <2>3
<1>19. path[Len(path)].node = root
  BY <1>16 DEF PathShape
<1>20. CallShape'
  <2>1. path' = <<>> => Len(path) = 1
    BY <1>16
  <2>2. path' = <<>> => Parent = root
    BY <1>19, <2>1 DEF Parent
  <2> QED
    BY <1>1, <1>2, <1>3, <1>15, <2>2 DEF CallShape
<1>21. PICK level \in [Nodes -> Nat] : LeavesAtBottom(level) /\ ChildrenBelow(level) /\ CallLeveled(level)
  BY DEF Leveled
<1>22. /\ level[Parent] = level[cur] + 1
       /\ \A i \in DOMAIN NewParentChildren : level[NewParentChildren[i]] + 1 = level[Parent]
  BY <1>1, <1>21, ParentEntry
<1>23. cur \in Nodes /\ level[cur] \in Int
  BY <1>3, <1>21 DEF CallShape
<1>24. \A i \in DOMAIN path' : level[path'[i].node] = level[Parent] + i
  <2> SUFFICES ASSUME NEW i \in DOMAIN path' PROVE level[path'[i].node] = level[Parent] + i
    OBVIOUS
  <2>1. i \in Int /\ i + 1 \in DOMAIN path /\ path'[i] = path[i + 1]
    BY <1>16
  <2>2. level[path[i + 1].node] = level[cur] + (i + 1)
    BY <1>21, <2>1 DEF CallLeveled
  <2> QED
    BY <1>22, <1>23, <2>1, <2>2
<1>25. PathShape'
  <2>2. ASSUME NEW i \in DOMAIN path'
        PROVE  OnPath(path[i + 1]) /\ path'[i] = path[i + 1]
    <3>1. i + 1 \in DOMAIN path /\ path'[i] = path[i + 1]
      BY <1>16
    <3> QED
      BY <3>1 DEF PathShape
  <2>3. \A i \in DOMAIN path' : path'[i].node # Parent
    <3> SUFFICES ASSUME NEW i \in DOMAIN path', path'[i].node = Parent PROVE FALSE
      OBVIOUS
    <3>1. level[Parent] = level[Parent] + i /\ i \in Nat \ {0}
      BY <1>16, <1>24
    <3> QED
      BY <1>22, <1>23, <3>1
  <2>4. path' # <<>> => path'[Len(path')].node = root
    <3> SUFFICES ASSUME path' # <<>> PROVE path'[Len(path')].node = root
      OBVIOUS
    <3>1. Len(path') # 0
      BY <1>16, EmptySeq
    <3>2. Len(path') \in 1 .. Len(path) - 1 /\ Len(path') + 1 = Len(path)
      BY <1>16, <3>1
    <3> QED
      BY <1>16, <1>19, <3>2
  <2>5. ASSUME NEW i \in DOMAIN path'
        PROVE  /\ path'[i].node \in allocated'
               /\ ~heap'[path'[i].node].is_leaf
               /\ path'[i].position \in 1 .. Len(heap'[path'[i].node].keys) + 1
    <3>1. OnPath(path[i + 1]) /\ path'[i] = path[i + 1] /\ path[i + 1].node # Parent
      BY <2>2, <2>3
    <3>2. /\ path[i + 1].node \in allocated /\ ~heap[path[i + 1].node].is_leaf
          /\ path[i + 1].position \in 1 .. Len(heap[path[i + 1].node].keys) + 1
      BY <3>1 DEF OnPath
    <3>3. heap'[path[i + 1].node] = heap[path[i + 1].node]
      BY <1>14, <3>1, <3>2
    <3> QED
      BY <1>1, <3>1, <3>2, <3>3
  <2>6. (\A i \in DOMAIN path : OnPath(path[i]))'
    BY <2>5, Zenon DEF OnPath
  <2>7. root' = root
    BY <1>1
  <2> QED
    BY <2>4, <2>6, <2>7, Zenon DEF PathShape
<1>26. PICK grown \in [Nodes -> Nat] :
          grown[NewNode] = level[Parent] /\ \A n \in allocated : grown[n] = level[n]
  <2> DEFINE same == [level EXCEPT ![NewNode] = level[Parent]]
  <2>1. /\ same \in [Nodes -> Nat] /\ same[NewNode] = level[Parent]
        /\ \A n \in allocated : same[n] = level[n]
    BY <1>2, <1>3, <1>4, <1>21
  <2> QED
    BY <2>1
<1>27. ChildrenBelow(grown)'
  <2> SUFFICES ASSUME NEW n \in allocated', ~heap'[n].is_leaf
               PROVE  \A i \in DOMAIN heap'[n].children : grown[heap'[n].children[i]] + 1 = grown[n]
    BY DEF ChildrenBelow
  <2>1. \A i \in DOMAIN NewParentChildren : grown[NewParentChildren[i]] + 1 = level[Parent]
    BY <1>2, <1>22, <1>26
  <2>2. CASE n \in allocated /\ n # Parent
    <3>1. heap'[n] = heap[n]
      BY <1>14, <2>2
    <3>2. \A i \in DOMAIN heap[n].children : heap[n].children[i] \in allocated
      BY <2>2 DEF Shapes, NodeShape
    <3> QED
      BY <1>21, <1>26, <2>2, <3>1, <3>2 DEF ChildrenBelow
  <2>3. CASE n = Parent
    <3>1. heap'[n].children = left.children /\ grown[n] = level[Parent]
      BY <1>2, <1>14, <1>26, <2>3
    <3> QED
      BY <1>10, <2>1, <3>1
  <2>4. CASE n = NewNode
    <3>1. heap'[n].children = RightInternal.children /\ grown[n] = level[Parent]
      BY <1>14, <1>26, <2>4
    <3> QED
      BY <1>12, <2>1, <3>1
  <2> QED
    BY <1>1, <2>2, <2>3, <2>4
<1>28. CallLeveled(grown)'
  <2>1. ASSUME NEW i \in DOMAIN path' PROVE path'[i].node \in allocated
    <3>1. i + 1 \in DOMAIN path /\ path'[i] = path[i + 1]
      BY <1>16
    <3> QED
      BY <3>1 DEF PathShape, OnPath
  <2>2. \A i \in DOMAIN path' : grown[path'[i].node] = grown[Parent] + i
    BY <1>2, <1>24, <1>26, <2>1
  <2>3. grown[NewNode] = grown[Parent]
    BY <1>2, <1>26
  <2> QED
    BY <1>1, <2>2, <2>3 DEF CallLeveled
<1>29. LeavesAtBottom(grown)'
  BY <1>1, <1>2, <1>6, <1>8, <1>14, <1>21, <1>26 DEF LeavesAtBottom
<1> QED
  BY <1>17, <1>18, <1>20, <1>25, <1>26, <1>27, <1>28, <1>29 DEF Leveled

\* The levels along the stack differ, so its nodes do.
LEMMA NodesOnPathDiffer == TreeInv => NoNodePassedTwice
<1> SUFFICES ASSUME TreeInv PROVE NoNodePassedTwice
  OBVIOUS
<1> USE DEF TreeInv
<1>1. PICK level \in [Nodes -> Nat] : CallLeveled(level)
  BY DEF Leveled
<1>2. path \in Seq([node : Nodes, position : Nat]) /\ DOMAIN path = 1 .. Len(path) /\ Len(path) \in Nat
  BY LenProperties DEF TypeOK
<1>3. ASSUME NEW i \in DOMAIN path
      PROVE  cur \in Nodes /\ level[cur] \in Int /\ path[i].node # cur
  <2>1. i \in Nat \ {0} /\ path # <<>>
    BY <1>2
  <2>2. cur \in Nodes
    BY <2>1 DEF CallShape, TypeOK
  <2> QED
    BY <1>1, <2>1, <2>2 DEF CallLeveled
<1>4. ASSUME NEW i \in DOMAIN path, NEW j \in DOMAIN path, i # j
      PROVE  path[i].node # path[j].node
  <2>1. level[path[i].node] = level[cur] + i /\ level[path[j].node] = level[cur] + j
    BY <1>1 DEF CallLeveled
  <2>2. level[cur] \in Int /\ i \in Int /\ j \in Int
    BY <1>2, <1>3
  <2>3. \A a, b, c \in Int : b # c => a + b # a + c
    OBVIOUS
  <2>4. level[cur] + i # level[cur] + j
    BY <1>4, <2>2, <2>3, Zenon
  <2> QED
    BY <2>1, <2>4
<1> QED
  BY <1>3, <1>4 DEF NoNodePassedTwice

-----------------------------------------------------------------------------
(* The theorems. *)

LEMMA InitTreeInv == Init => TreeInv
<1> SUFFICES ASSUME Init PROVE TreeInv
  OBVIOUS
<1>1. Blank(FALSE) \in NodeRecords
  BY DEF Blank, NodeRecords
<1>2. path = <<>> /\ DOMAIN path = {} /\ <<>> \in Seq([node : Nodes, position : Nat])
  BY DEF Init
<1>3. TypeOK
  <2>1. heap \in [Nodes -> NodeRecords]
    BY <1>1 DEF Init
  <2>2. allocated \subseteq Nodes /\ root \in allocated \cup {Nil} /\ cur \in Nodes \cup {Nil}
    BY DEF Init
  <2>3. call \in [key : Int, offset : Nat] /\ up \in [key : Int, right : Nodes \cup {Nil}]
    BY DEF Init, NoCall, NoSplit
  <2>4. pc \in {"idle", "descend", "ascend"} /\ ret \in {"none", "running", "ok", "refused"}
    BY DEF Init
  <2> QED
    BY <1>2, <2>1, <2>2, <2>3, <2>4 DEF TypeOK
<1>4. Shapes /\ CallShape /\ PathShape
  BY <1>2 DEF Init, Shapes, CallShape, PathShape
<1>5. [n \in Nodes |-> 0] \in [Nodes -> Nat]
  OBVIOUS
<1>6. /\ LeavesAtBottom([n \in Nodes |-> 0]) /\ ChildrenBelow([n \in Nodes |-> 0])
      /\ CallLeveled([n \in Nodes |-> 0])
  BY <1>2 DEF Init, LeavesAtBottom, ChildrenBelow, CallLeveled
<1> QED
  BY <1>3, <1>4, <1>5, <1>6 DEF TreeInv, Leveled

LEMMA NextTreeInv == TreeInv /\ [Next]_vars => TreeInv'
<1> SUFFICES ASSUME TreeInv, [Next]_vars PROVE TreeInv'
  OBVIOUS
<1>1. CASE UNCHANGED vars
  <2> USE <1>1 DEF vars, TreeInv
  <2>1. TypeOK'
    BY DEF TypeOK
  <2>2. Shapes'
    BY DEF Shapes, NodeShape
  <2>3. CallShape'
    BY DEF CallShape
  <2>4. PathShape'
    BY DEF PathShape, OnPath
  <2>5. Leveled'
    <3>1. PICK level \in [Nodes -> Nat] : LeavesAtBottom(level) /\ ChildrenBelow(level) /\ CallLeveled(level)
      BY DEF Leveled
    <3>2. LeavesAtBottom(level)' /\ ChildrenBelow(level)'
      BY <3>1 DEF LeavesAtBottom, ChildrenBelow
    <3>3. CallLeveled(level)'
      BY <3>1 DEF CallLeveled
    <3> QED
      BY <3>2, <3>3 DEF Leveled
  <2> QED
    BY <2>1, <2>2, <2>3, <2>4, <2>5
<1>2. CASE \E row \in Rows : InsertCall(row[1], row[2])
  BY <1>2, CallKeeps
<1>3. CASE CreateRootFails \/ LeafDuplicate \/ LeafSplitFails \/ InternalSplitFails \/ NewRootFails
  BY <1>3, RefusedKeeps DEF CreateRootFails, LeafDuplicate, LeafSplitFails, InternalSplitFails, NewRootFails
<1>4. CASE CreateRoot \/ Descend \/ LeafInsert \/ LeafSplit \/ InternalInsert \/ InternalSplit \/ NewRoot
  BY <1>4, CreateRootKeeps, DescendKeeps, LeafInsertKeeps, LeafSplitKeeps, InternalInsertKeeps,
     InternalSplitKeeps, NewRootKeeps
<1> QED
  BY <1>1, <1>2, <1>3, <1>4 DEF Next, InsertStep

LEMMA TreeInvHolds == Spec => []TreeInv
BY InitTreeInv, NextTreeInv, PTL DEF Spec

\* For every order, every set of keys and every failure of calloc the variables
\* keep their shapes: a child is never NULL, and the root is an allocated node
\* (bptree.c:115-360).
THEOREM TreeTypeOK == Spec => []TypeOK
<1>1. TreeInv => TypeOK
  BY DEF TreeInv
<1> QED
  BY <1>1, TreeInvHolds, PTL

\* No node holds more keys than its array, every leaf has an offset for each key and
\* every internal node a child on both sides of each key, also between the steps of
\* an insertion and after any failed one (bptree.c:115-294).
THEOREM NodeArraysFit == Spec => []Shapes
<1>1. TreeInv => Shapes
  BY DEF TreeInv
<1> QED
  BY <1>1, TreeInvHolds, PTL

\* The recursion of insert_recursive passes no node twice, whatever earlier
\* insertions and failed allocations left behind, so it ends (bptree.c:296-327).
THEOREM TreePassesNoNodeTwice == Spec => []NoNodePassedTwice
BY NodesOnPathDiffer, TreeInvHolds, PTL

-----------------------------------------------------------------------------
(* The search tree. *)

Ascending(s) == \A i, j \in DOMAIN s : i < j => s[i] < s[j]

\* The keys of every node are in order (bptree.c:122-136, 152-167, 222-230).
KeysAscend == \A n \in allocated : Ascending(heap[n].keys)

\* A split leaves enough keys in both halves; the root may have fewer.
LeastInLeaf == ORDER \div 2
LeastInternal == ORDER - 1 - ORDER \div 2
KeysEnough(n) == Len(heap[n].keys) >= IF heap[n].is_leaf THEN LeastInLeaf ELSE LeastInternal
Filled ==
    /\ \A n \in allocated : n # root => KeysEnough(n)
    /\ pc = "ascend" => KeysEnough(cur)

ChildAt(n, i, c) ==
    /\ n \in allocated
    /\ ~heap[n].is_leaf
    /\ i \in DOMAIN heap[n].children
    /\ heap[n].children[i] = c
NoParent(c) == \A n, i : ~ChildAt(n, i, c)

\* The nodes are linked to a forest: the tree, and the halves without a parent.
OneParent ==
    /\ \A n, m, i, j, c : ChildAt(n, i, c) /\ ChildAt(m, j, c) => n = m /\ i = j
    /\ NoParent(root)
    /\ pc = "ascend" => NoParent(up.right) /\ up.right # root

\* The stack of the running call is a branch of the tree.
PathLinked ==
    \A i \in DOMAIN path :
        ChildAt(path[i].node, path[i].position, IF i = 1 THEN cur ELSE path[i - 1].node)

\* A key that lies between the separators beside child i.
InSlot(keys, i, k) ==
    /\ i <= Len(keys) => k < keys[i]
    /\ i > 1 => keys[i - 1] <= k

HoldsKeys(under, n) == \A i \in DOMAIN heap[n].keys : heap[n].keys[i] \in under[n]
DividesKeys(under, n) ==
    \A i, c : ChildAt(n, i, c) =>
        \A k \in under[c] : k \in under[n] /\ InSlot(heap[n].keys, i, k)
Divided(under) == \A n \in allocated : HoldsKeys(under, n) /\ DividesKeys(under, n)

\* What the running call knows of the keys that it moves.
CallDivided(under) ==
    /\ pc = "descend" /\ cur # Nil => call.key \in under[cur]
    /\ pc = "ascend" =>
         /\ \A k \in under[cur] : k < up.key
         /\ \A k \in under[up.right] : up.key <= k
         /\ path # <<>> =>
              \A k \in under[up.right] \cup {up.key} :
                  k \in under[Parent] /\ InSlot(heap[Parent].keys, path[1].position, k)

KeysDivided ==
    \E under \in [Nodes -> SUBSET Int] : Divided(under) /\ CallDivided(under)

SearchInv == TreeInv /\ KeysAscend /\ Filled /\ OneParent /\ PathLinked /\ KeysDivided

-----------------------------------------------------------------------------
(* Positions and ordered sequences. *)

\* The first position at which a scan stops, and none before it.
LEMMA PositionIsFirst ==
    ASSUME NEW S, NEW s \in Seq(S), NEW stops, stops \subseteq DOMAIN s
    PROVE  /\ \A j \in stops : FirstPosition(s, stops) <= j
           /\ FirstPosition(s, stops) <= Len(s) => FirstPosition(s, stops) \in stops
<1>1. Len(s) \in Nat /\ DOMAIN s = 1 .. Len(s)
  BY LenProperties
<1>2. CASE stops = {}
  BY <1>1, <1>2 DEF FirstPosition
<1>3. CASE stops # {}
  <2>1. stops \subseteq Nat
    BY <1>1
  <2>2. \E x \in stops : \A y \in stops : x <= y
    BY <1>3, <2>1, Smallest
  <2>3. Min(stops) \in stops /\ \A y \in stops : Min(stops) <= y
    BY <2>2 DEF Min
  <2> QED
    BY <1>3, <2>3 DEF FirstPosition
<1> QED
  BY <1>2, <1>3

\* An element put between smaller and larger ones keeps the order.
LEMMA InsertAscends ==
    ASSUME NEW S, S \subseteq Int, NEW s \in Seq(S), NEW i \in 1 .. Len(s) + 1, NEW e \in S, Ascending(s),
           \A j \in 1 .. Len(s) : IF j < i THEN s[j] < e ELSE e < s[j]
    PROVE  Ascending(InsertAt(s, i, e))
<1> DEFINE all == InsertAt(s, i, e)
<1>1. Len(s) \in Nat /\ i \in Nat /\ DOMAIN s = 1 .. Len(s)
  BY LenProperties
<1>2. DOMAIN all = 1 .. Len(s) + 1
  BY InsertedAt
<1>3. \A j \in 1 .. Len(s) + 1 : all[j] = IF j < i THEN s[j] ELSE IF j = i THEN e ELSE s[j - 1]
  BY InsertedAt
<1> HIDE DEF all
<1>4. \A j \in 1 .. Len(s) : s[j] \in Int
  BY ElementOfSeq
<1>5. \A j, k \in 1 .. Len(s) : j < k => s[j] < s[k]
  BY <1>1 DEF Ascending
<1>6. SUFFICES ASSUME NEW j \in 1 .. Len(s) + 1, NEW k \in 1 .. Len(s) + 1, j < k
               PROVE  all[j] < all[k]
  BY <1>2 DEF Ascending, all
<1>7. j \in Int /\ k \in Int /\ e \in Int
  OBVIOUS
<1>8. CASE k < i
  <2>1. j < i /\ j \in 1 .. Len(s) /\ k \in 1 .. Len(s)
    BY <1>1, <1>6, <1>7, <1>8
  <2> QED
    BY <1>3, <1>5, <1>6, <1>8, <2>1
<1>9. CASE k = i
  <2>1. j < i /\ j \in 1 .. Len(s)
    BY <1>1, <1>6, <1>7, <1>9
  <2> QED
    BY <1>1, <1>3, <1>7, <1>9, <2>1
<1>10. CASE k > i
  <2>1. k - 1 \in 1 .. Len(s) /\ ~(k < i) /\ k # i /\ ~(k - 1 < i)
    BY <1>1, <1>7, <1>10
  <2>2. all[k] = s[k - 1] /\ e < s[k - 1]
    BY <1>3, <2>1
  <2>3. CASE j < i
    <3>1. j \in 1 .. Len(s) /\ j < k - 1
      BY <1>1, <1>7, <1>10, <2>3
    <3> QED
      BY <1>3, <1>5, <2>1, <2>2, <2>3, <3>1
  <2>4. CASE j = i
    BY <1>1, <1>3, <2>2, <2>4
  <2>5. CASE j > i
    <3>1. j - 1 \in 1 .. Len(s) /\ j - 1 < k - 1 /\ ~(j < i) /\ j # i
      BY <1>1, <1>6, <1>7, <2>5
    <3> QED
      BY <1>3, <1>5, <2>1, <2>2, <3>1
  <2> QED
    BY <1>1, <1>7, <2>3, <2>4, <2>5
<1> QED
  BY <1>1, <1>7, <1>8, <1>9, <1>10

LEMMA SliceAscends ==
    ASSUME NEW S, NEW s \in Seq(S), NEW m \in 1 .. Len(s) + 1, NEW n \in m - 1 .. Len(s), Ascending(s)
    PROVE  Ascending(SubSeq(s, m, n))
<1> DEFINE piece == SubSeq(s, m, n)
<1>1. Len(s) \in Nat /\ DOMAIN s = 1 .. Len(s) /\ m \in Int /\ n \in Int
  BY LenProperties
<1>2. DOMAIN piece = 1 .. n - m + 1 /\ \A i \in 1 .. n - m + 1 : piece[i] = s[m + i - 1]
  BY Slice
<1> HIDE DEF piece
<1>3. ASSUME NEW i \in 1 .. n - m + 1, NEW j \in 1 .. n - m + 1, i < j
      PROVE  piece[i] < piece[j]
  <2>1. m + i - 1 \in 1 .. Len(s) /\ m + j - 1 \in 1 .. Len(s) /\ m + i - 1 < m + j - 1
    BY <1>1, <1>3
  <2> QED
    BY <1>1, <1>2, <2>1 DEF Ascending
<1> QED
  BY <1>2, <1>3 DEF Ascending, piece

LEMMA LeastSizes ==
    /\ LeastInLeaf \in 1 .. SplitIndex /\ LeastInternal \in 1 .. SplitIndex
    /\ LeastInLeaf <= TotalCount - SplitIndex /\ LeastInternal <= TotalCount - SplitIndex - 1
    /\ LeastInLeaf \in Nat /\ LeastInternal \in Nat
BY OrderAssumption, Sizes DEF LeastInLeaf, LeastInternal, MAX_KEYS, TotalCount, SplitIndex

-----------------------------------------------------------------------------
(* The nodes before and after a step. *)

LEMMA NodeFacts ==
    ASSUME TreeInv, NEW n \in allocated
    PROVE  /\ n \in Nodes /\ heap[n] \in NodeRecords
           /\ heap[n].keys \in Seq(Keys) /\ Len(heap[n].keys) \in Nat
           /\ DOMAIN heap[n].keys = 1 .. Len(heap[n].keys)
           /\ \A i \in DOMAIN heap[n].keys : heap[n].keys[i] \in Int
           /\ heap[n].children \in Seq(Nodes) /\ Len(heap[n].children) \in Nat
           /\ DOMAIN heap[n].children = 1 .. Len(heap[n].children)
           /\ \A i \in DOMAIN heap[n].children : heap[n].children[i] \in allocated
           /\ ~heap[n].is_leaf => Len(heap[n].children) = Len(heap[n].keys) + 1
<1>1. n \in Nodes /\ heap[n] \in NodeRecords
  BY DEF TreeInv, TypeOK
<1>2. heap[n].keys \in Seq(Keys) /\ heap[n].children \in Seq(Nodes)
  BY <1>1 DEF NodeRecords
<1>3. \A i \in 1 .. Len(heap[n].keys) : heap[n].keys[i] \in Int
  BY <1>2, ElementOfSeq, RowTypes
<1>4. NodeShape(n)
  BY DEF TreeInv, Shapes
<1> QED
  BY <1>1, <1>2, <1>3, <1>4, LenProperties DEF NodeShape

LEMMA ChildFacts ==
    ASSUME TreeInv, NEW n, NEW i, NEW c, ChildAt(n, i, c)
    PROVE  n \in allocated /\ c \in allocated /\ i \in 1 .. Len(heap[n].keys) + 1 /\ i \in Nat
<1>1. n \in allocated /\ ~heap[n].is_leaf /\ i \in DOMAIN heap[n].children /\ heap[n].children[i] = c
  BY DEF ChildAt
<1>2. heap[n].children[i] \in allocated /\ DOMAIN heap[n].children = 1 .. Len(heap[n].keys) + 1
  BY <1>1, NodeFacts
<1> QED
  BY <1>1, <1>2

LEMMA CreateRootNodes ==
    ASSUME TreeInv, CreateRoot
    PROVE  /\ NewNode \notin allocated /\ NewNode \in Nodes
           /\ heap'[NewNode].is_leaf /\ heap'[NewNode].keys = <<>>
           /\ \A n \in allocated : heap'[n] = heap[n]
<1>1. NewNode \in Nodes /\ NewNode \notin allocated
  BY NewNodeIsNew DEF CreateRoot
<1>2. heap \in [Nodes -> NodeRecords] /\ allocated \subseteq Nodes
  BY DEF TreeInv, TypeOK
<1>3. heap'[NewNode] = Blank(TRUE) /\ \A n \in allocated : heap'[n] = heap[n]
  BY <1>1, <1>2 DEF CreateRoot
<1> QED
  BY <1>1, <1>3 DEF Blank

LEMMA LeafInsertNodes ==
    ASSUME TreeInv, LeafInsert
    PROVE  /\ heap'[cur].is_leaf /\ heap'[cur].keys = NewLeafKeys
           /\ \A n \in allocated : n # cur => heap'[n] = heap[n]
<1>1. AtLeaf /\ heap' = [heap EXCEPT ![cur].keys = NewLeafKeys, ![cur].offsets = NewLeafOffsets]
  BY DEF LeafInsert
<1>2. heap \in [Nodes -> NodeRecords] /\ allocated \subseteq Nodes
  BY DEF TreeInv, TypeOK
<1>3. cur \in Nodes /\ heap[cur] \in NodeRecords /\ heap[cur].is_leaf
  BY <1>1, LeafEntry DEF AtLeaf
<1>4. heap'[cur] = [heap[cur] EXCEPT !.keys = NewLeafKeys, !.offsets = NewLeafOffsets]
  BY <1>1, <1>2, <1>3
<1>5. \A n \in allocated : n # cur => heap'[n] = heap[n]
  BY <1>1, <1>2, <1>3
<1> QED
  BY <1>3, <1>4, <1>5 DEF NodeRecords

LEMMA LeafSplitNodes ==
    ASSUME TreeInv, LeafSplit
    PROVE  /\ NewNode \notin allocated /\ NewNode \in Nodes
           /\ heap'[cur].is_leaf /\ heap'[cur].keys = SubSeq(NewLeafKeys, 1, SplitIndex)
           /\ heap'[NewNode].is_leaf
           /\ heap'[NewNode].keys = SubSeq(NewLeafKeys, SplitIndex + 1, TotalCount)
           /\ \A n \in allocated : n # cur => heap'[n] = heap[n]
<1>1. AtLeaf
  BY DEF LeafSplit
<1>2. NewNode \in Nodes /\ NewNode \notin allocated
  BY NewNodeIsNew DEF LeafSplit
<1>3. heap \in [Nodes -> NodeRecords] /\ allocated \subseteq Nodes
  BY DEF TreeInv, TypeOK
<1>4. cur \in allocated /\ cur \in Nodes /\ heap[cur] \in NodeRecords /\ heap[cur].is_leaf
  BY <1>1, LeafEntry DEF AtLeaf
<1> DEFINE left == [heap[cur] EXCEPT !.keys = SubSeq(NewLeafKeys, 1, SplitIndex),
                                     !.offsets = SubSeq(NewLeafOffsets, 1, SplitIndex),
                                     !.next = NewNode]
<1>5. heap' = [[heap EXCEPT ![cur] = left] EXCEPT ![NewNode] = RightLeaf]
  BY <1>2, <1>3, <1>4 DEF LeafSplit
<1>6. left.is_leaf /\ left.keys = SubSeq(NewLeafKeys, 1, SplitIndex)
  BY <1>4 DEF NodeRecords
<1>7. RightLeaf.is_leaf /\ RightLeaf.keys = SubSeq(NewLeafKeys, SplitIndex + 1, TotalCount)
  BY DEF RightLeaf
<1> HIDE DEF left
<1>8. /\ heap'[cur] = left /\ heap'[NewNode] = RightLeaf
      /\ \A n \in allocated : n # cur => heap'[n] = heap[n]
  BY <1>2, <1>3, <1>4, <1>5
<1> QED
  BY <1>2, <1>6, <1>7, <1>8

LEMMA InternalInsertNodes ==
    ASSUME TreeInv, InternalInsert
    PROVE  /\ ~heap'[Parent].is_leaf
           /\ heap'[Parent].keys = NewParentKeys /\ heap'[Parent].children = NewParentChildren
           /\ \A n \in allocated : n # Parent => heap'[n] = heap[n]
<1>1. /\ AtParent
      /\ heap' = [heap EXCEPT ![Parent].keys = NewParentKeys, ![Parent].children = NewParentChildren]
  BY DEF InternalInsert
<1>2. heap \in [Nodes -> NodeRecords] /\ allocated \subseteq Nodes
  BY DEF TreeInv, TypeOK
<1>3. Parent \in Nodes /\ heap[Parent] \in NodeRecords /\ ~heap[Parent].is_leaf
  BY <1>1, ParentEntry
<1>4. heap'[Parent] = [heap[Parent] EXCEPT !.keys = NewParentKeys, !.children = NewParentChildren]
  BY <1>1, <1>2, <1>3
<1>5. \A n \in allocated : n # Parent => heap'[n] = heap[n]
  BY <1>1, <1>2, <1>3
<1> QED
  BY <1>3, <1>4, <1>5 DEF NodeRecords

LEMMA InternalSplitNodes ==
    ASSUME TreeInv, InternalSplit
    PROVE  /\ NewNode \notin allocated /\ NewNode \in Nodes
           /\ ~heap'[Parent].is_leaf
           /\ heap'[Parent].keys = SubSeq(NewParentKeys, 1, SplitIndex)
           /\ heap'[Parent].children = SubSeq(NewParentChildren, 1, SplitIndex + 1)
           /\ ~heap'[NewNode].is_leaf
           /\ heap'[NewNode].keys = SubSeq(NewParentKeys, SplitIndex + 2, TotalCount)
           /\ heap'[NewNode].children = SubSeq(NewParentChildren, SplitIndex + 2, TotalCount + 1)
           /\ \A n \in allocated : n # Parent => heap'[n] = heap[n]
<1>1. AtParent
  BY DEF InternalSplit
<1>2. NewNode \in Nodes /\ NewNode \notin allocated
  BY NewNodeIsNew DEF InternalSplit
<1>3. heap \in [Nodes -> NodeRecords] /\ allocated \subseteq Nodes
  BY DEF TreeInv, TypeOK
<1>4. Parent \in allocated /\ Parent \in Nodes /\ heap[Parent] \in NodeRecords /\ ~heap[Parent].is_leaf
  BY <1>1, ParentEntry
<1> DEFINE left == [heap[Parent] EXCEPT !.keys = SubSeq(NewParentKeys, 1, SplitIndex),
                                        !.children = SubSeq(NewParentChildren, 1, SplitIndex + 1)]
<1>5. heap' = [[heap EXCEPT ![Parent] = left] EXCEPT ![NewNode] = RightInternal]
  BY <1>2, <1>3, <1>4 DEF InternalSplit
<1>6. /\ ~left.is_leaf /\ left.keys = SubSeq(NewParentKeys, 1, SplitIndex)
      /\ left.children = SubSeq(NewParentChildren, 1, SplitIndex + 1)
  BY <1>4 DEF NodeRecords
<1>7. Blank(FALSE) \in NodeRecords /\ ~Blank(FALSE).is_leaf
  BY DEF Blank, NodeRecords
<1>8. /\ ~RightInternal.is_leaf
      /\ RightInternal.keys = SubSeq(NewParentKeys, SplitIndex + 2, TotalCount)
      /\ RightInternal.children = SubSeq(NewParentChildren, SplitIndex + 2, TotalCount + 1)
  BY <1>7 DEF RightInternal, NodeRecords
<1> HIDE DEF left
<1>9. /\ heap'[Parent] = left /\ heap'[NewNode] = RightInternal
      /\ \A n \in allocated : n # Parent => heap'[n] = heap[n]
  BY <1>2, <1>3, <1>4, <1>5
<1> QED
  BY <1>2, <1>6, <1>8, <1>9

LEMMA NewRootNodes ==
    ASSUME TreeInv, NewRoot
    PROVE  /\ NewNode \notin allocated /\ NewNode \in Nodes
           /\ ~heap'[NewNode].is_leaf
           /\ heap'[NewNode].keys = <<up.key>> /\ heap'[NewNode].children = <<root, up.right>>
           /\ \A n \in allocated : heap'[n] = heap[n]
<1>1. NewNode \in Nodes /\ NewNode \notin allocated
  BY NewNodeIsNew DEF NewRoot
<1>2. heap \in [Nodes -> NodeRecords] /\ allocated \subseteq Nodes
  BY DEF TreeInv, TypeOK
<1>3. heap'[NewNode] = Top /\ \A n \in allocated : heap'[n] = heap[n]
  BY <1>1, <1>2 DEF NewRoot
<1>4. Blank(FALSE) \in NodeRecords /\ ~Blank(FALSE).is_leaf
  BY DEF Blank, NodeRecords
<1>5. ~Top.is_leaf /\ Top.keys = <<up.key>> /\ Top.children = <<root, up.right>>
  BY <1>4 DEF Top, NodeRecords
<1> QED
  BY <1>1, <1>3, <1>5

\* The keys and children that the divided nodes are cut from.
LEMMA LeafKeysGrow ==
    ASSUME TreeInv, KeysAscend, AtLeaf, ~IsDuplicate
    PROVE  /\ Ascending(NewLeafKeys)
           /\ \A i \in DOMAIN NewLeafKeys :
                NewLeafKeys[i] = call.key \/ \E j \in DOMAIN heap[cur].keys : NewLeafKeys[i] = heap[cur].keys[j]
           /\ DOMAIN NewLeafKeys = 1 .. Len(heap[cur].keys) + 1
<1> DEFINE keys == heap[cur].keys
           key == call.key
           stops == {i \in DOMAIN keys : keys[i] >= key}
<1>1. pc = "descend" /\ cur \in allocated
  BY LeafEntry DEF AtLeaf
<1>2. /\ keys \in Seq(Keys) /\ Len(keys) \in Nat /\ DOMAIN keys = 1 .. Len(keys)
      /\ \A i \in DOMAIN keys : keys[i] \in Int
  BY <1>1, NodeFacts
<1>3. key \in Keys /\ key \in Int
  BY <1>1, RowTypes DEF TreeInv, CallShape
<1>4. Ascending(keys)
  BY <1>1 DEF KeysAscend
<1>5. LeafPosition = FirstPosition(keys, stops)
  BY DEF LeafPosition, find_leaf_position
<1>6. ~(LeafPosition <= Len(keys) /\ keys[LeafPosition] = key)
  BY DEF IsDuplicate
<1>7. NewLeafKeys = InsertAt(keys, LeafPosition, key)
  BY DEF NewLeafKeys
<1>8. \A i \in stops : i \in DOMAIN keys /\ keys[i] >= key
  OBVIOUS
<1>9. \A i \in DOMAIN keys : i \notin stops => keys[i] < key
  BY <1>2, <1>3
<1> HIDE DEF keys, key, stops
<1>10. LeafPosition \in 1 .. Len(keys) + 1
  BY <1>2, <1>5, <1>8, PositionBound
<1>11. /\ \A j \in stops : LeafPosition <= j
       /\ LeafPosition <= Len(keys) => LeafPosition \in stops
  BY <1>2, <1>5, <1>8, PositionIsFirst
<1>12. ASSUME NEW j \in 1 .. Len(keys)
       PROVE  IF j < LeafPosition THEN keys[j] < key ELSE key < keys[j]
  <2>1. CASE j < LeafPosition
    BY <1>2, <1>9, <1>10, <1>11, <2>1
  <2>2. CASE j >= LeafPosition
    <3>1. LeafPosition \in stops /\ LeafPosition \in 1 .. Len(keys)
      BY <1>2, <1>10, <1>11, <2>2
    <3>2. keys[LeafPosition] > key
      BY <1>2, <1>3, <1>6, <1>8, <3>1
    <3>3. j = LeafPosition \/ keys[LeafPosition] < keys[j]
      BY <1>2, <1>4, <2>2, <3>1 DEF Ascending
    <3> QED
      BY <1>2, <1>3, <2>2, <3>1, <3>2, <3>3
  <2> QED
    BY <1>10, <2>1, <2>2
<1>13. Ascending(NewLeafKeys)
  BY <1>2, <1>3, <1>4, <1>7, <1>10, <1>12, RowTypes, InsertAscends
<1>14. DOMAIN NewLeafKeys = 1 .. Len(keys) + 1
  BY <1>2, <1>3, <1>7, <1>10, Inserted
<1>15. \A j \in 1 .. Len(keys) + 1 :
         NewLeafKeys[j] = key \/ \E k \in 1 .. Len(keys) : NewLeafKeys[j] = keys[k]
  BY <1>2, <1>3, <1>7, <1>10, Inserted
<1> QED
  BY <1>2, <1>13, <1>14, <1>15 DEF keys, key

\* Where the promoted key and the right half stand in the parent.
LEMMA ParentPlaces ==
    ASSUME TreeInv, PathLinked, AtParent
    PROVE  LET keys == heap[Parent].keys
               children == heap[Parent].children
               place == path[1].position
           IN  /\ pc = "ascend" /\ path # <<>> /\ up.key \in Int /\ cur \in allocated /\ up.right \in allocated
               /\ place \in 1 .. Len(keys) + 1
               /\ ChildAt(Parent, place, cur) /\ children[place] = cur
               /\ Len(NewParentKeys) = Len(keys) + 1 /\ DOMAIN NewParentKeys = 1 .. Len(keys) + 1
               /\ DOMAIN NewParentChildren = 1 .. Len(keys) + 2
               /\ \A j \in 1 .. Len(keys) + 1 :
                    NewParentKeys[j] = IF j < place THEN keys[j]
                                       ELSE IF j = place THEN up.key ELSE keys[j - 1]
               /\ \A j \in 1 .. Len(keys) + 2 :
                    NewParentChildren[j] = IF j < place + 1 THEN children[j]
                                           ELSE IF j = place + 1 THEN up.right ELSE children[j - 1]
<1> DEFINE keys == heap[Parent].keys
           children == heap[Parent].children
           place == path[1].position
           key == up.key
           right == up.right
<1>1. pc = "ascend" /\ path # <<>>
  BY DEF AtParent
<1>2. Parent \in allocated /\ ~heap[Parent].is_leaf /\ 1 \in DOMAIN path
  BY ParentEntry
<1>3. /\ keys \in Seq(Keys) /\ Len(keys) \in Nat
      /\ children \in Seq(Nodes) /\ Len(children) = Len(keys) + 1
  BY <1>2, NodeFacts
<1>4. place \in 1 .. Len(keys) + 1
  BY <1>2 DEF TreeInv, PathShape, OnPath, Parent
<1>5. ChildAt(Parent, place, cur) /\ children[place] = cur
  BY <1>2 DEF PathLinked, Parent, ChildAt
<1>6. key \in Keys /\ right \in allocated /\ right \in Nodes /\ cur \in allocated
  BY <1>1 DEF TreeInv, CallShape, TypeOK
<1>7. NewParentKeys = InsertAt(keys, place, key) /\ NewParentChildren = InsertAt(children, place + 1, right)
  BY DEF NewParentKeys, NewParentChildren
<1> HIDE DEF keys, children, place, key, right
<1>8. place + 1 \in 1 .. Len(children) + 1 /\ Len(children) + 1 = Len(keys) + 2
  BY <1>3, <1>4
<1>9. Len(NewParentKeys) = Len(keys) + 1 /\ DOMAIN NewParentKeys = 1 .. Len(keys) + 1
  <2>1. /\ Len(InsertAt(keys, place, key)) = Len(keys) + 1
        /\ DOMAIN InsertAt(keys, place, key) = 1 .. Len(keys) + 1
    BY <1>3, <1>4, <1>6, InsertedAt
  <2> QED
    BY <1>7, <2>1
<1>10. \A j \in 1 .. Len(keys) + 1 :
         NewParentKeys[j] = IF j < place THEN keys[j] ELSE IF j = place THEN key ELSE keys[j - 1]
  <2>1. \A j \in 1 .. Len(keys) + 1 :
          InsertAt(keys, place, key)[j] =
            IF j < place THEN keys[j] ELSE IF j = place THEN key ELSE keys[j - 1]
    BY <1>3, <1>4, <1>6, InsertedAt
  <2> QED
    BY <1>7, <2>1
<1>11. DOMAIN NewParentChildren = 1 .. Len(children) + 1
  BY <1>3, <1>6, <1>7, <1>8, InsertedAt
<1>12. \A j \in 1 .. Len(children) + 1 :
         NewParentChildren[j] =
            IF j < place + 1 THEN children[j] ELSE IF j = place + 1 THEN right ELSE children[j - 1]
  <2> DEFINE next == place + 1
  <2>1. next \in 1 .. Len(children) + 1 /\ NewParentChildren = InsertAt(children, next, right)
    BY <1>7, <1>8
  <2> HIDE DEF next
  <2>2. \A j \in 1 .. Len(children) + 1 :
          InsertAt(children, next, right)[j] =
             IF j < next THEN children[j] ELSE IF j = next THEN right ELSE children[j - 1]
    <3>1. children \in Seq(Nodes) /\ right \in Nodes
      BY <1>3, <1>6
    <3>2. \A s \in Seq(Nodes), e \in Nodes : \A i \in 1 .. Len(s) + 1 : \A j \in 1 .. Len(s) + 1 :
            InsertAt(s, i, e)[j] = IF j < i THEN s[j] ELSE IF j = i THEN e ELSE s[j - 1]
      BY InsertedAt
    <3> QED
      BY <2>1, <3>1, <3>2
  <2> QED
    BY <2>1, <2>2 DEF next
<1>13. key \in Int
  BY <1>6, RowTypes
<1> QED
  BY <1>1, <1>4, <1>5, <1>6, <1>8, <1>9, <1>10, <1>11, <1>12, <1>13 DEF keys, children, place, key, right

\* No child of the longer parent stands there twice, or elsewhere.
LEMMA ParentLinks ==
    ASSUME TreeInv, OneParent, PathLinked, AtParent
    PROVE  /\ \A i, j \in DOMAIN NewParentChildren : NewParentChildren[i] = NewParentChildren[j] => i = j
           /\ \A i \in DOMAIN NewParentChildren : NewParentChildren[i] # root
           /\ \A i \in DOMAIN NewParentChildren : \A n, j :
                n # Parent => ~ChildAt(n, j, NewParentChildren[i])
<1> DEFINE children == heap[Parent].children
           place == path[1].position
           size == Len(heap[Parent].keys)
           right == up.right
<1>1. /\ pc = "ascend" /\ place \in 1 .. size + 1
      /\ DOMAIN NewParentChildren = 1 .. size + 2
      /\ \A j \in 1 .. size + 2 :
           NewParentChildren[j] = IF j < place + 1 THEN children[j]
                                  ELSE IF j = place + 1 THEN right ELSE children[j - 1]
  BY ParentPlaces
<1>2. Parent \in allocated /\ ~heap[Parent].is_leaf
  BY ParentEntry
<1>3. size \in Nat /\ DOMAIN children = 1 .. size + 1
  BY <1>2, NodeFacts
<1>4. \A j \in 1 .. size + 1 : ChildAt(Parent, j, children[j])
  BY <1>2, <1>3 DEF ChildAt
<1>5. NoParent(right) /\ right # root /\ NoParent(root)
  BY <1>1 DEF OneParent
<1> HIDE DEF children, place, size, right
<1>6. \A j \in 1 .. size + 1 : children[j] # right /\ children[j] # root
  BY <1>4, <1>5 DEF NoParent
<1>7. \A i, j \in 1 .. size + 1 : children[i] = children[j] => i = j
  BY <1>4 DEF OneParent
<1>8. \A j \in 1 .. size + 1 : \A n, i : n # Parent => ~ChildAt(n, i, children[j])
  BY <1>4 DEF OneParent
<1>9. ASSUME NEW j \in 1 .. size + 2
      PROVE  \/ j < place + 1 /\ j \in 1 .. size + 1 /\ NewParentChildren[j] = children[j]
             \/ j = place + 1 /\ NewParentChildren[j] = right
             \/ j > place + 1 /\ j - 1 \in 1 .. size + 1 /\ NewParentChildren[j] = children[j - 1]
  BY <1>1, <1>3
<1>10. ASSUME NEW i \in 1 .. size + 2, NEW j \in 1 .. size + 2, NewParentChildren[i] = NewParentChildren[j]
       PROVE  i = j
  <2>1. place \in Int /\ i \in Int /\ j \in Int
    BY <1>1, <1>3
  <2>2. CASE i < place + 1
    <3>1. i \in 1 .. size + 1 /\ NewParentChildren[i] = children[i]
      BY <1>9, <2>1, <2>2
    <3>2. j # place + 1
      <4>1. j = place + 1 => NewParentChildren[j] = right
        BY <1>9, <2>1
      <4> QED
        BY <1>6, <1>10, <3>1, <4>1
    <3>3. j < place + 1 => j \in 1 .. size + 1 /\ NewParentChildren[j] = children[j]
      BY <1>9, <2>1
    <3>4. ~(j > place + 1)
      <4> SUFFICES ASSUME j > place + 1 PROVE FALSE
        OBVIOUS
      <4>1. j - 1 \in 1 .. size + 1 /\ NewParentChildren[j] = children[j - 1]
        BY <1>9, <2>1
      <4>2. i = j - 1
        BY <1>7, <1>10, <3>1, <4>1
      <4> QED
        BY <2>1, <2>2, <4>2
    <3> QED
      BY <1>7, <1>10, <2>1, <3>1, <3>2, <3>3, <3>4
  <2>3. CASE i = place + 1
    <3>1. NewParentChildren[j] = right
      BY <1>9, <1>10, <2>1, <2>3
    <3> QED
      BY <1>6, <1>9, <2>1, <2>3, <3>1
  <2>4. CASE i > place + 1
    <3>1. i - 1 \in 1 .. size + 1 /\ NewParentChildren[i] = children[i - 1]
      BY <1>9, <2>1, <2>4
    <3>2. j # place + 1
      <4>1. j = place + 1 => NewParentChildren[j] = right
        BY <1>9, <2>1
      <4> QED
        BY <1>6, <1>10, <3>1, <4>1
    <3>3. ~(j < place + 1)
      <4> SUFFICES ASSUME j < place + 1 PROVE FALSE
        OBVIOUS
      <4>1. j \in 1 .. size + 1 /\ NewParentChildren[j] = children[j]
        BY <1>9, <2>1
      <4>2. j = i - 1
        BY <1>7, <1>10, <3>1, <4>1
      <4> QED
        BY <2>1, <2>4, <4>2
    <3>4. j - 1 \in 1 .. size + 1 /\ NewParentChildren[j] = children[j - 1]
      BY <1>9, <2>1, <3>2, <3>3
    <3>5. i - 1 = j - 1
      BY <1>7, <1>10, <3>1, <3>4
    <3> QED
      BY <2>1, <3>5
  <2> QED
    BY <2>1, <2>2, <2>3, <2>4
<1>11. ASSUME NEW i \in 1 .. size + 2
       PROVE  NewParentChildren[i] # root /\ \A n, j : n # Parent => ~ChildAt(n, j, NewParentChildren[i])
  <2>1. NewParentChildren[i] = right \/ \E j \in 1 .. size + 1 : NewParentChildren[i] = children[j]
    BY <1>9
  <2> QED
    BY <1>5, <1>6, <1>8, <2>1 DEF NoParent
<1> QED
  BY <1>1, <1>10, <1>11

\* The promoted key lies between its neighbours in the parent.
LEMMA ParentKeysGrow ==
    ASSUME SearchInv, AtParent
    PROVE  Ascending(NewParentKeys)
<1> DEFINE keys == heap[Parent].keys
           place == path[1].position
           key == up.key
<1>1. /\ pc = "ascend" /\ path # <<>> /\ key \in Int /\ cur \in allocated
      /\ place \in 1 .. Len(keys) + 1 /\ ChildAt(Parent, place, cur)
  BY ParentPlaces DEF SearchInv
<1>2. Parent \in allocated
  BY ParentEntry DEF SearchInv
<1>3. /\ keys \in Seq(Keys) /\ Len(keys) \in Nat /\ DOMAIN keys = 1 .. Len(keys)
      /\ \A j \in DOMAIN keys : keys[j] \in Int
  BY <1>2, NodeFacts DEF SearchInv
<1>4. Ascending(keys)
  BY <1>2 DEF SearchInv, KeysAscend
<1>5. key \in Keys
  BY <1>1 DEF SearchInv, TreeInv, CallShape
<1>6. PICK under \in [Nodes -> SUBSET Int] : Divided(under) /\ CallDivided(under)
  BY DEF SearchInv, KeysDivided
<1>7. InSlot(keys, place, key)
  BY <1>1, <1>6 DEF CallDivided
<1> DEFINE first == heap[cur].keys[1]
<1>8. first \in under[cur] /\ first \in Int
  <2>1. Len(heap[cur].keys) >= LeastInLeaf \/ Len(heap[cur].keys) >= LeastInternal
    BY <1>1 DEF SearchInv, Filled, KeysEnough
  <2>2. LeastInLeaf >= 1 /\ LeastInternal >= 1 /\ LeastInLeaf \in Nat /\ LeastInternal \in Nat
    BY LeastSizes, Sizes
  <2>3. 1 \in DOMAIN heap[cur].keys
    BY <1>1, <2>1, <2>2, NodeFacts DEF SearchInv
  <2> QED
    BY <1>1, <1>6, <2>3, NodeFacts DEF SearchInv, Divided, HoldsKeys
<1>9. first < key
  BY <1>1, <1>6, <1>8 DEF CallDivided
<1>10. InSlot(keys, place, first)
  BY <1>1, <1>2, <1>6, <1>8 DEF Divided, DividesKeys
<1> HIDE DEF first, keys, place, key
<1>11. ASSUME NEW j \in 1 .. Len(keys)
       PROVE  IF j < place THEN keys[j] < key ELSE key < keys[j]
  <2>1. CASE j < place
    <3>1. place - 1 \in 1 .. Len(keys) /\ place > 1 /\ j <= place - 1 /\ place \in Int
      BY <1>1, <1>3, <2>1
    <3>2. keys[place - 1] <= first
      BY <1>10, <3>1 DEF InSlot
    <3>3. j = place - 1 \/ keys[j] < keys[place - 1]
      BY <1>3, <1>4, <3>1 DEF Ascending
    <3>4. keys[j] \in Int /\ keys[place - 1] \in Int
      BY <1>3, <3>1
    <3>5. keys[j] < key
      BY <1>1, <1>8, <1>9, <3>2, <3>3, <3>4
    <3> QED
      BY <2>1, <3>5
  <2>2. CASE j >= place
    <3>1. place \in 1 .. Len(keys)
      BY <1>1, <1>3, <2>2
    <3>2. key < keys[place]
      BY <1>3, <1>7, <3>1 DEF InSlot
    <3>3. j = place \/ keys[place] < keys[j]
      BY <1>3, <1>4, <2>2, <3>1 DEF Ascending
    <3>4. keys[j] \in Int /\ keys[place] \in Int
      BY <1>3, <3>1
    <3>5. key < keys[j]
      BY <1>1, <3>2, <3>3, <3>4
    <3> QED
      BY <1>1, <2>2, <3>5
  <2> QED
    BY <1>1, <2>1, <2>2
<1>12. Ascending(InsertAt(keys, place, key))
  BY <1>1, <1>3, <1>4, <1>5, <1>11, RowTypes, InsertAscends
<1> QED
  BY <1>12 DEF NewParentKeys, keys, place, key

\* The longer parent divides the keys of its children as the shorter one did.
LEMMA ParentDivides ==
    ASSUME SearchInv, AtParent, NEW under \in [Nodes -> SUBSET Int], Divided(under), CallDivided(under)
    PROVE  /\ \A j \in DOMAIN NewParentKeys : NewParentKeys[j] \in under[Parent]
           /\ \A j \in DOMAIN NewParentChildren :
                \A k \in under[NewParentChildren[j]] : k \in under[Parent] /\ InSlot(NewParentKeys, j, k)
<1> DEFINE keys == heap[Parent].keys
           children == heap[Parent].children
           place == path[1].position
           size == Len(keys)
           right == up.right
           key == up.key
<1>1. /\ pc = "ascend" /\ path # <<>> /\ place \in 1 .. size + 1 /\ key \in Int
      /\ ChildAt(Parent, place, cur) /\ children[place] = cur
      /\ Len(NewParentKeys) = size + 1 /\ DOMAIN NewParentKeys = 1 .. size + 1
      /\ DOMAIN NewParentChildren = 1 .. size + 2
  BY ParentPlaces DEF SearchInv
<1>2. \A j \in 1 .. size + 1 :
        NewParentKeys[j] = IF j < place THEN keys[j] ELSE IF j = place THEN key ELSE keys[j - 1]
  BY ParentPlaces DEF SearchInv
<1>3. \A j \in 1 .. size + 2 :
        NewParentChildren[j] = IF j < place + 1 THEN children[j]
                               ELSE IF j = place + 1 THEN right ELSE children[j - 1]
  BY ParentPlaces DEF SearchInv
<1>4. Parent \in allocated /\ ~heap[Parent].is_leaf
  BY ParentEntry DEF SearchInv
<1>5. size \in Nat /\ DOMAIN keys = 1 .. size /\ DOMAIN children = 1 .. size + 1
  BY <1>4, NodeFacts DEF SearchInv
<1>6. \A j \in 1 .. size : keys[j] \in under[Parent]
  BY <1>4, <1>5 DEF Divided, HoldsKeys
<1>7. ASSUME NEW j \in 1 .. size + 1, NEW k \in under[children[j]]
      PROVE  k \in under[Parent] /\ InSlot(keys, j, k)
  <2>1. ChildAt(Parent, j, children[j])
    BY <1>4, <1>5 DEF ChildAt
  <2> QED
    BY <1>4, <1>7, <2>1 DEF Divided, DividesKeys
<1>8. /\ \A k \in under[cur] : k < key
      /\ \A k \in under[right] : key <= k
      /\ \A k \in under[right] \cup {key} : k \in under[Parent] /\ InSlot(keys, place, k)
  BY <1>1 DEF CallDivided
<1> HIDE DEF keys, children, place, size, right, key
<1>9. ASSUME NEW j \in 1 .. size + 1 PROVE NewParentKeys[j] \in under[Parent]
  <2>1. \/ j \in 1 .. size /\ NewParentKeys[j] = keys[j]
        \/ NewParentKeys[j] = key
        \/ j - 1 \in 1 .. size /\ NewParentKeys[j] = keys[j - 1]
    BY <1>1, <1>2, <1>5
  <2> QED
    BY <1>6, <1>8, <2>1
<1>10. ASSUME NEW j \in 1 .. size + 2, NEW k \in under[NewParentChildren[j]]
       PROVE  k \in under[Parent] /\ InSlot(NewParentKeys, j, k)
  <2>1. place \in Int /\ j \in Int
    BY <1>1, <1>5
  <2>2. CASE j < place
    <3>1. j \in 1 .. size + 1 /\ NewParentChildren[j] = children[j] /\ j <= size
      BY <1>1, <1>3, <1>5, <2>1, <2>2
    <3>2. k \in under[Parent] /\ InSlot(keys, j, k)
      BY <1>7, <1>10, <3>1
    <3>3. NewParentKeys[j] = keys[j]
      BY <1>2, <2>2, <3>1
    <3>4. j > 1 => NewParentKeys[j - 1] = keys[j - 1]
      <4> SUFFICES ASSUME j > 1 PROVE NewParentKeys[j - 1] = keys[j - 1]
        OBVIOUS
      <4>1. j - 1 \in 1 .. size + 1 /\ j - 1 < place
        BY <1>5, <2>1, <2>2, <3>1
      <4> QED
        BY <1>2, <4>1
    <3> QED
      BY <1>1, <3>1, <3>2, <3>3, <3>4 DEF InSlot, size
  <2>3. CASE j = place
    <3>1. NewParentChildren[j] = cur /\ j \in 1 .. size + 1 /\ children[j] = cur
      BY <1>1, <1>3, <2>1, <2>3
    <3>2. k \in under[Parent] /\ InSlot(keys, j, k) /\ k < key
      BY <1>7, <1>8, <1>10, <3>1
    <3>3. NewParentKeys[j] = key
      BY <1>2, <2>1, <2>3, <3>1
    <3>4. j > 1 => NewParentKeys[j - 1] = keys[j - 1]
      <4> SUFFICES ASSUME j > 1 PROVE NewParentKeys[j - 1] = keys[j - 1]
        OBVIOUS
      <4>1. j - 1 \in 1 .. size + 1 /\ j - 1 < place
        BY <1>5, <2>1, <2>3, <3>1
      <4> QED
        BY <1>2, <4>1
    <3> QED
      BY <3>2, <3>3, <3>4 DEF InSlot
  <2>4. CASE j = place + 1
    <3>1. NewParentChildren[j] = right
      BY <1>3, <2>1, <2>4
    <3>2. k \in under[Parent] /\ InSlot(keys, place, k) /\ key <= k
      BY <1>8, <1>10, <3>1
    <3>3. j - 1 \in 1 .. size + 1 /\ j - 1 = place
      BY <1>1, <2>1, <2>4
    <3>4. NewParentKeys[j - 1] = key
      BY <1>2, <2>1, <3>3
    <3>5. j <= size + 1 => NewParentKeys[j] = keys[place] /\ place <= size
      <4> SUFFICES ASSUME j <= size + 1 PROVE NewParentKeys[j] = keys[place] /\ place <= size
        OBVIOUS
      <4>1. j \in 1 .. size + 1 /\ ~(j < place) /\ j # place
        BY <1>5, <2>1, <2>4
      <4> QED
        BY <1>2, <1>5, <2>1, <2>4, <3>3, <4>1
    <3>6. NewParentKeys[j - 1] <= k
      BY <3>2, <3>4
    <3>7. j <= size + 1 => k < NewParentKeys[j]
      BY <3>2, <3>5 DEF InSlot, size
    <3>8. j <= Len(NewParentKeys) => k < NewParentKeys[j]
      BY <1>1, <3>7, Zenon
    <3>9. InSlot(NewParentKeys, j, k)
      BY <3>6, <3>8, Zenon DEF InSlot
    <3> QED
      BY <3>2, <3>9, Zenon
  <2>5. CASE j > place + 1
    <3>1. j - 1 \in 1 .. size + 1 /\ NewParentChildren[j] = children[j - 1]
      <4>1. place \in 1 .. size + 1
        BY <1>1
      <4>2. j - 1 \in 1 .. size + 1 /\ ~(j < place + 1) /\ j # place + 1
        BY <1>5, <2>1, <2>5, <4>1
      <4> QED
        BY <1>3, <4>2, Zenon
    <3>2. k \in under[Parent] /\ InSlot(keys, j - 1, k)
      BY <1>7, <1>10, <3>1
    <3>3. j <= size + 1 => NewParentKeys[j] = keys[j - 1] /\ j - 1 <= size
      <4> SUFFICES ASSUME j <= size + 1 PROVE NewParentKeys[j] = keys[j - 1] /\ j - 1 <= size
        OBVIOUS
      <4>1. j \in 1 .. size + 1 /\ ~(j < place) /\ j # place
        BY <1>5, <2>1, <2>5
      <4> QED
        BY <1>2, <1>5, <2>1, <4>1
    <3>4. NewParentKeys[j - 1] = keys[(j - 1) - 1] /\ j - 1 > 1
      <4>1. ~(j - 1 < place) /\ j - 1 # place /\ j - 1 > 1
        BY <1>1, <2>1, <2>5
      <4> QED
        BY <1>2, <3>1, <4>1
    <3> QED
      BY <1>1, <3>2, <3>3, <3>4 DEF InSlot, size
  <2> QED
    BY <2>1, <2>2, <2>3, <2>4, <2>5
<1> QED
  BY <1>1, <1>9, <1>10

-----------------------------------------------------------------------------
(* The steps that change no node, or only the keys of a leaf. *)

SearchParts == KeysAscend /\ Filled /\ OneParent /\ PathLinked /\ KeysDivided

LEMMA ReturnKeepsSearch ==
    ASSUME NEW answer \in {"ok", "refused"}, Return(answer)
    PROVE  PathLinked' /\ pc' = "idle" /\ \A under : CallDivided(under)'
<1>1. pc' = "idle" /\ path' = <<>> /\ DOMAIN path' = {}
  BY DEF Return
<1> QED
  BY <1>1 DEF PathLinked, CallDivided

\* What no step disturbs that keeps the nodes and does not split one.
LEMMA SameNodesKeepSearch ==
    ASSUME SearchInv, UNCHANGED <<heap, allocated, root>>, pc' # "ascend"
    PROVE  /\ \A n, i, c : ChildAt(n, i, c)' <=> ChildAt(n, i, c)
           /\ KeysAscend' /\ Filled' /\ OneParent'
           /\ \A under : Divided(under) => Divided(under)'
<1>1. \A n, i, c : ChildAt(n, i, c)' <=> ChildAt(n, i, c)
  BY DEF ChildAt
<1>2. KeysAscend' /\ Filled'
  BY DEF SearchInv, KeysAscend, Filled, KeysEnough
<1>3. OneParent'
  BY <1>1 DEF SearchInv, OneParent, NoParent
<1>4. \A under : Divided(under) => Divided(under)'
  BY <1>1 DEF Divided, HoldsKeys, DividesKeys
<1> QED
  BY <1>1, <1>2, <1>3, <1>4

LEMMA RefusedKeepsSearch ==
    ASSUME SearchInv, Return("refused"), UNCHANGED <<heap, allocated, root>>
    PROVE  SearchParts'
<1>1. PathLinked' /\ pc' = "idle" /\ \A under : CallDivided(under)'
  BY ReturnKeepsSearch
<1>2. /\ KeysAscend' /\ Filled' /\ OneParent'
      /\ \A under : Divided(under) => Divided(under)'
  BY <1>1, SameNodesKeepSearch
<1>3. KeysDivided'
  BY <1>1, <1>2 DEF SearchInv, KeysDivided
<1> QED
  BY <1>1, <1>2, <1>3 DEF SearchParts

\* A node without a parent can be given more keys, and a child those that its parent
\* sends there.
LEMMA MoreKeysUnder ==
    ASSUME TreeInv, NEW under \in [Nodes -> SUBSET Int], Divided(under),
           NEW c \in allocated, NEW key \in Int,
           \A n, i : ChildAt(n, i, c) => key \in under[n] /\ InSlot(heap[n].keys, i, key)
    PROVE  \E more \in [Nodes -> SUBSET Int] : Divided(more) /\ key \in more[c]
<1> DEFINE more == [under EXCEPT ![c] = under[c] \cup {key}]
<1>1. /\ more \in [Nodes -> SUBSET Int] /\ key \in more[c]
      /\ \A n \in allocated : under[n] \subseteq more[n]
      /\ \A n \in allocated : \A k \in more[n] : k \in under[n] \/ (n = c /\ k = key)
  BY DEF TreeInv, TypeOK
<1> HIDE DEF more
<1>2. \A n \in allocated : HoldsKeys(more, n)
  BY <1>1 DEF Divided, HoldsKeys
<1>3. ASSUME NEW n \in allocated, NEW i, NEW d, ChildAt(n, i, d), d \in allocated, NEW k \in more[d]
      PROVE  k \in more[n] /\ InSlot(heap[n].keys, i, k)
  <2>1. CASE k \in under[d]
    BY <1>1, <1>3, <2>1 DEF Divided, DividesKeys
  <2>2. CASE d = c /\ k = key
    BY <1>1, <1>3, <2>2
  <2> QED
    BY <1>1, <1>3, <2>1, <2>2
<1>4. Divided(more)
  BY <1>2, <1>3, ChildFacts DEF Divided, DividesKeys
<1> QED
  BY <1>1, <1>4

LEMMA CallKeepsSearch ==
    ASSUME SearchInv, NEW row \in Rows, InsertCall(row[1], row[2])
    PROVE  SearchParts'
<1>1. /\ pc = "idle" /\ pc' = "descend" /\ call' = [key |-> row[1], offset |-> row[2]]
      /\ cur' = root /\ UNCHANGED <<heap, allocated, root, path, up>>
  BY DEF InsertCall
<1>2. /\ KeysAscend' /\ Filled' /\ OneParent'
      /\ \A under : Divided(under) => Divided(under)'
  BY <1>1, SameNodesKeepSearch
<1>3. path' = <<>> /\ DOMAIN path' = {}
  BY <1>1 DEF SearchInv, TreeInv, CallShape
<1>4. PathLinked'
  BY <1>3 DEF PathLinked
<1>5. call'.key \in Int
  BY <1>1, RowTypes DEF Keys
<1>6. PICK under \in [Nodes -> SUBSET Int] : Divided(under)
  BY DEF SearchInv, KeysDivided
<1>7. KeysDivided'
  <2>1. CASE root = Nil
    <3>1. CallDivided(under)'
      BY <1>1, <2>1 DEF CallDivided
    <3> QED
      BY <1>2, <1>6, <3>1 DEF KeysDivided
  <2>2. CASE root # Nil
    <3>1. root \in allocated /\ \A n, i : ~ChildAt(n, i, root)
      BY <2>2 DEF SearchInv, TreeInv, TypeOK, OneParent, NoParent
    <3>2. PICK more \in [Nodes -> SUBSET Int] : Divided(more) /\ call'.key \in more[root]
      BY <1>5, <1>6, <3>1, MoreKeysUnder DEF SearchInv
    <3>3. CallDivided(more)'
      BY <1>1, <3>2 DEF CallDivided
    <3> QED
      BY <1>2, <3>2, <3>3 DEF KeysDivided
  <2> QED
    BY <2>1, <2>2
<1> QED
  BY <1>2, <1>4, <1>7 DEF SearchParts

\* The child that find_child_position picks is the one whose slot holds the key.
LEMMA DescendKeepsSearch ==
    ASSUME SearchInv, Descend
    PROVE  SearchParts'
<1> DEFINE keys == heap[cur].keys
           key == call.key
           stops == {i \in DOMAIN keys : keys[i] > key}
           position == find_child_position(keys, key)
           step == [node |-> cur, position |-> position]
<1>1. /\ pc = "descend" /\ cur # Nil /\ ~heap[cur].is_leaf
      /\ path' = <<step>> \o path /\ cur' = heap[cur].children[position]
      /\ UNCHANGED <<heap, allocated, root, pc, call, up, ret>>
  BY DEF Descend
<1>2. /\ \A n, i, c : ChildAt(n, i, c)' <=> ChildAt(n, i, c)
      /\ KeysAscend' /\ Filled' /\ OneParent'
      /\ \A under : Divided(under) => Divided(under)'
  BY <1>1, SameNodesKeepSearch
<1>3. cur \in allocated /\ key \in Int
  BY <1>1, RowTypes DEF SearchInv, TreeInv, CallShape
<1>4. /\ keys \in Seq(Keys) /\ Len(keys) \in Nat /\ DOMAIN keys = 1 .. Len(keys)
      /\ \A i \in DOMAIN keys : keys[i] \in Int
      /\ DOMAIN heap[cur].children = 1 .. Len(keys) + 1
  BY <1>1, <1>3, NodeFacts DEF SearchInv
<1>5. position = FirstPosition(keys, stops)
  BY DEF find_child_position
<1>6. /\ \A i \in stops : i \in DOMAIN keys /\ keys[i] > key
      /\ \A i \in DOMAIN keys : i \notin stops => keys[i] <= key
  BY <1>3, <1>4
<1> HIDE DEF keys, key, stops, position
<1>7. position \in 1 .. Len(keys) + 1
  BY <1>4, <1>5, <1>6, PositionBound
<1>8. /\ \A j \in stops : position <= j
      /\ position <= Len(keys) => position \in stops
  BY <1>4, <1>5, <1>6, PositionIsFirst
<1>9. InSlot(keys, position, key)
  <2>1. position <= Len(keys) => key < keys[position]
    BY <1>3, <1>4, <1>6, <1>8
  <2>2. position > 1 => keys[position - 1] <= key
    <3> SUFFICES ASSUME position > 1 PROVE keys[position - 1] <= key
      OBVIOUS
    <3>1. position - 1 \in DOMAIN keys /\ ~(position <= position - 1)
      BY <1>4, <1>7
    <3> QED
      BY <1>6, <1>8, <3>1
  <2> QED
    BY <2>1, <2>2 DEF InSlot
<1>10. ChildAt(cur, position, cur')
  BY <1>1, <1>3, <1>4, <1>7 DEF ChildAt
<1>11. cur' \in allocated
  BY <1>10, ChildFacts DEF SearchInv
<1>12. PathLinked'
  <2>1. path \in Seq([node : Nodes, position : Nat]) /\ Len(path) \in Nat /\ DOMAIN path = 1 .. Len(path)
    BY LenProperties DEF SearchInv, TreeInv, TypeOK
  <2>2. step \in [node : Nodes, position : Nat] /\ step.node = cur /\ step.position = position
    <3>1. cur \in Nodes /\ position \in Nat
      BY <1>3, <1>4, <1>7, NodeFacts DEF SearchInv
    <3> QED
      BY <3>1
  <2> HIDE DEF step
  <2>3. /\ Len(path') = Len(path) + 1 /\ DOMAIN path' = 1 .. Len(path) + 1
        /\ path'[1] = step /\ \A i \in 2 .. Len(path) + 1 : path'[i] = path[i - 1]
    <3>1. <<step>> \in Seq([node : Nodes, position : Nat]) /\ Len(<<step>>) = 1 /\ <<step>>[1] = step
      BY <2>2
    <3>2. /\ <<step>> \o path \in Seq([node : Nodes, position : Nat])
          /\ Len(<<step>> \o path) = Len(<<step>>) + Len(path)
          /\ \A i \in 1 .. Len(<<step>>) + Len(path) :
               (<<step>> \o path)[i] = IF i <= Len(<<step>>) THEN <<step>>[i] ELSE path[i - Len(<<step>>)]
      BY <2>1, <3>1, ConcatProperties
    <3>3. Len(path') = Len(path) + 1 /\ DOMAIN path' = 1 .. Len(path) + 1
      BY <1>1, <2>1, <3>1, <3>2, LenProperties
    <3> QED
      BY <1>1, <2>1, <3>1, <3>2, <3>3
  <2>4. ASSUME NEW i \in DOMAIN path'
        PROVE  ChildAt(path'[i].node, path'[i].position, IF i = 1 THEN cur' ELSE path'[i - 1].node)
    <3>1. CASE i = 1
      BY <1>10, <2>2, <2>3, <3>1
    <3>2. CASE i = 2
      <4>1. 1 \in DOMAIN path /\ path'[2] = path[1] /\ i # 1 /\ i - 1 = 1
        BY <2>1, <2>3, <3>2
      <4>2. ChildAt(path[1].node, path[1].position, cur)
        BY <4>1 DEF SearchInv, PathLinked
      <4> QED
        BY <2>2, <2>3, <3>2, <4>1, <4>2
    <3>3. CASE i > 2
      <4>1. /\ i - 1 \in DOMAIN path /\ i - 1 # 1 /\ i # 1
            /\ path'[i] = path[i - 1] /\ path'[i - 1] = path[(i - 1) - 1]
        BY <2>1, <2>3, <3>3
      <4>2. ChildAt(path[i - 1].node, path[i - 1].position, path[(i - 1) - 1].node)
        BY <4>1 DEF SearchInv, PathLinked
      <4> QED
        BY <4>1, <4>2
    <3> QED
      BY <2>1, <2>3, <3>1, <3>2, <3>3
  <2> QED
    BY <1>2, <2>4 DEF PathLinked
<1>13. PICK under \in [Nodes -> SUBSET Int] : Divided(under) /\ CallDivided(under)
  BY DEF SearchInv, KeysDivided
<1>14. key \in under[cur]
  BY <1>1, <1>13 DEF CallDivided, key
<1>15. \A n, i : ChildAt(n, i, cur') => n = cur /\ i = position
  BY <1>10 DEF SearchInv, OneParent
<1>16. \A n, i : ChildAt(n, i, cur') => key \in under[n] /\ InSlot(heap[n].keys, i, key)
  BY <1>9, <1>14, <1>15 DEF keys
<1>17. PICK more \in [Nodes -> SUBSET Int] : Divided(more) /\ key \in more[cur']
  BY <1>3, <1>11, <1>13, <1>16, MoreKeysUnder DEF SearchInv
<1>18. CallDivided(more)'
  BY <1>1, <1>17 DEF CallDivided, key
<1> QED
  BY <1>2, <1>12, <1>17, <1>18 DEF SearchParts, KeysDivided

LEMMA CreateRootKeepsSearch ==
    ASSUME SearchInv, CreateRoot
    PROVE  SearchParts'
<1>1. /\ pc = "descend" /\ cur = Nil /\ pc' = pc /\ UNCHANGED <<call, path>>
      /\ allocated' = allocated \cup {NewNode} /\ root' = NewNode /\ cur' = NewNode
  BY DEF CreateRoot
<1>2. /\ NewNode \notin allocated /\ NewNode \in Nodes
      /\ heap'[NewNode].is_leaf /\ heap'[NewNode].keys = <<>>
      /\ \A n \in allocated : heap'[n] = heap[n]
  BY CreateRootNodes DEF SearchInv
<1>3. path = <<>> /\ DOMAIN path = {} /\ root = Nil /\ DOMAIN <<>> = {}
  BY <1>1 DEF SearchInv, TreeInv, CallShape
<1>4. \A n, i, c : ChildAt(n, i, c)' <=> ChildAt(n, i, c)
  BY <1>1, <1>2 DEF ChildAt
<1>5. KeysAscend'
  BY <1>1, <1>2, <1>3 DEF SearchInv, KeysAscend, Ascending
<1>6. Filled'
  <2>1. \A n \in allocated : n # root
    BY <1>3, NodesAssumption DEF SearchInv, TreeInv, TypeOK
  <2>2. \A n \in allocated' : n # root' => n \in allocated /\ heap'[n] = heap[n]
    BY <1>1, <1>2
  <2> QED
    BY <1>1, <2>1, <2>2 DEF SearchInv, Filled, KeysEnough
<1>7. OneParent'
  <2>1. \A n, i : ~ChildAt(n, i, NewNode)
    BY <1>2, ChildFacts DEF SearchInv
  <2> QED
    BY <1>1, <1>4, <2>1 DEF SearchInv, OneParent, NoParent
<1>8. PathLinked'
  BY <1>1, <1>3 DEF PathLinked
<1>9. PICK under \in [Nodes -> SUBSET Int] : Divided(under)
  BY DEF SearchInv, KeysDivided
<1>10. call.key \in Int
  BY <1>1, RowTypes DEF SearchInv, TreeInv, CallShape
<1>11. PICK more \in [Nodes -> SUBSET Int] :
         call.key \in more[NewNode] /\ \A n \in allocated : more[n] = under[n]
  <2> DEFINE more == [under EXCEPT ![NewNode] = {call.key}]
  <2>1. /\ more \in [Nodes -> SUBSET Int]
        /\ call.key \in more[NewNode] /\ \A n \in allocated : more[n] = under[n]
    BY <1>2, <1>10 DEF SearchInv, TreeInv, TypeOK
  <2> QED
    BY <2>1
<1>12. Divided(more)'
  <2>1. ASSUME NEW n \in allocated' PROVE HoldsKeys(more, n)'
    <3>1. CASE n = NewNode
      BY <1>2, <1>3, <3>1 DEF HoldsKeys
    <3>2. CASE n \in allocated
      BY <1>2, <1>9, <1>11, <3>2 DEF Divided, HoldsKeys
    <3> QED
      BY <1>1, <3>1, <3>2
  <2>2. ASSUME NEW n \in allocated', NEW i, NEW c, ChildAt(n, i, c)', NEW k \in more[c]
        PROVE  k \in more[n] /\ InSlot(heap'[n].keys, i, k)
    <3>1. ChildAt(n, i, c) /\ n \in allocated /\ c \in allocated
      BY <1>4, <2>2, ChildFacts DEF SearchInv
    <3>2. k \in under[n] /\ InSlot(heap[n].keys, i, k)
      BY <1>9, <1>11, <2>2, <3>1 DEF Divided, DividesKeys
    <3> QED
      BY <1>2, <1>11, <3>1, <3>2
  <2>3. \A n \in allocated' : HoldsKeys(more, n)' /\ DividesKeys(more, n)'
    BY <2>1, <2>2 DEF DividesKeys
  <2> QED
    BY <2>3 DEF Divided
<1>13. CallDivided(more)'
  BY <1>1, <1>11 DEF CallDivided
<1> QED
  BY <1>5, <1>6, <1>7, <1>8, <1>11, <1>12, <1>13 DEF SearchParts, KeysDivided

\* The keys of the leaf and the new one, among the keys under it.
LEMMA LeafKeysUnder ==
    ASSUME SearchInv, AtLeaf, ~IsDuplicate, NEW under \in [Nodes -> SUBSET Int],
           Divided(under), CallDivided(under)
    PROVE  \A i \in DOMAIN NewLeafKeys : NewLeafKeys[i] \in under[cur]
<1>1. pc = "descend" /\ cur # Nil /\ cur \in allocated
  BY LeafEntry DEF AtLeaf, SearchInv
<1>2. call.key \in under[cur] /\ \A i \in DOMAIN heap[cur].keys : heap[cur].keys[i] \in under[cur]
  BY <1>1 DEF CallDivided, Divided, HoldsKeys
<1>3. \A i \in DOMAIN NewLeafKeys :
        NewLeafKeys[i] = call.key \/ \E j \in DOMAIN heap[cur].keys : NewLeafKeys[i] = heap[cur].keys[j]
  BY LeafKeysGrow DEF SearchInv
<1> QED
  BY <1>2, <1>3

LEMMA LeafInsertKeepsSearch ==
    ASSUME SearchInv, LeafInsert
    PROVE  SearchParts'
<1>1. AtLeaf /\ ~IsDuplicate /\ Return("ok") /\ UNCHANGED <<allocated, root>>
  BY DEF LeafInsert
<1>2. /\ heap'[cur].is_leaf /\ heap'[cur].keys = NewLeafKeys
      /\ \A n \in allocated : n # cur => heap'[n] = heap[n]
  BY LeafInsertNodes DEF SearchInv
<1>3. /\ cur \in allocated /\ heap[cur].is_leaf /\ Len(heap[cur].keys) \in Nat
      /\ Len(NewLeafKeys) = Len(heap[cur].keys) + 1
  BY <1>1, LeafEntry DEF SearchInv, AtLeaf
<1>4. PathLinked' /\ pc' = "idle" /\ \A under : CallDivided(under)'
  BY <1>1, ReturnKeepsSearch
<1>5. \A n, i, c : ChildAt(n, i, c)' <=> ChildAt(n, i, c)
  BY <1>1, <1>2, <1>3 DEF ChildAt
<1>6. KeysAscend'
  BY <1>1, <1>2, LeafKeysGrow DEF SearchInv, KeysAscend
<1>7. Filled'
  <2>1. LeastInLeaf \in Nat
    BY LeastSizes
  <2>2. \A n : n = cur /\ n # root => KeysEnough(n)'
    BY <1>2, <1>3, <2>1 DEF SearchInv, Filled, KeysEnough
  <2>3. \A n \in allocated : n # root /\ n # cur => KeysEnough(n)'
    BY <1>2 DEF SearchInv, Filled, KeysEnough
  <2> QED
    BY <1>1, <1>4, <2>2, <2>3 DEF Filled
<1>8. OneParent'
  BY <1>1, <1>4, <1>5 DEF SearchInv, OneParent, NoParent
<1>9. PICK under \in [Nodes -> SUBSET Int] : Divided(under) /\ CallDivided(under)
  BY DEF SearchInv, KeysDivided
<1>10. \A n : n = cur => HoldsKeys(under, n)'
  BY <1>1, <1>2, <1>9, LeafKeysUnder DEF HoldsKeys
<1>11. \A n \in allocated : n # cur => HoldsKeys(under, n)'
  BY <1>2, <1>9 DEF Divided, HoldsKeys
<1>12. \A n \in allocated : DividesKeys(under, n)'
  <2> SUFFICES ASSUME NEW n \in allocated, NEW i, NEW c, ChildAt(n, i, c), NEW k \in under[c]
               PROVE  k \in under[n] /\ InSlot(heap'[n].keys, i, k)
    BY <1>5 DEF DividesKeys
  <2>1. n # cur
    BY <1>3 DEF ChildAt
  <2> QED
    BY <1>2, <1>9, <2>1 DEF Divided, DividesKeys
<1>13. Divided(under)'
  BY <1>1, <1>10, <1>11, <1>12 DEF Divided
<1> QED
  BY <1>4, <1>6, <1>7, <1>8, <1>9, <1>13 DEF SearchParts, KeysDivided

-----------------------------------------------------------------------------
(* The splits. *)

\* The two halves of an ascending sequence: the first m elements, and those from a later
\* place on; element m + 1 divides them.
HalvesOf(S, s, m, from) ==
    /\ Len(SubSeq(s, 1, m)) = m /\ DOMAIN SubSeq(s, 1, m) = 1 .. m
    /\ Len(SubSeq(s, from, Len(s))) = Len(s) - from + 1
    /\ DOMAIN SubSeq(s, from, Len(s)) = 1 .. Len(s) - from + 1
    /\ Ascending(SubSeq(s, 1, m)) /\ Ascending(SubSeq(s, from, Len(s)))
    /\ \A i \in 1 .. m : SubSeq(s, 1, m)[i] = s[i] /\ s[i] < s[m + 1]
    /\ \A i \in 1 .. Len(s) - from + 1 :
         SubSeq(s, from, Len(s))[i] = s[from + i - 1] /\ s[m + 1] <= s[from + i - 1]
    /\ s[m + 1] \in S /\ m + 1 \in DOMAIN s

LEMMA Halves ==
    ASSUME NEW S, S \subseteq Int, NEW s \in Seq(S), Ascending(s), NEW m \in 1 .. Len(s) - 1,
           NEW from \in m + 1 .. Len(s)
    PROVE  HalvesOf(S, s, m, from)
<1>1. Len(s) \in Nat /\ DOMAIN s = 1 .. Len(s) /\ m \in Int /\ from \in Int /\ m + 1 \in 1 .. Len(s)
  BY LenProperties
<1>2. /\ 1 \in 1 .. Len(s) + 1 /\ m \in 1 - 1 .. Len(s) /\ m - 1 + 1 = m
      /\ from \in 1 .. Len(s) + 1 /\ Len(s) \in from - 1 .. Len(s)
  BY <1>1
<1>3. /\ Len(SubSeq(s, 1, m)) = m /\ DOMAIN SubSeq(s, 1, m) = 1 .. m
      /\ \A i \in 1 .. m : SubSeq(s, 1, m)[i] = s[i]
  <2>1. \A i \in 1 .. m : 1 + i - 1 = i
    BY <1>1
  <2>2. /\ Len(SubSeq(s, 1, m)) = m - 1 + 1 /\ DOMAIN SubSeq(s, 1, m) = 1 .. m - 1 + 1
        /\ \A i \in 1 .. m - 1 + 1 : SubSeq(s, 1, m)[i] = s[1 + i - 1]
    BY <1>2, Slice
  <2> QED
    BY <1>2, <2>1, <2>2
<1>4. /\ Len(SubSeq(s, from, Len(s))) = Len(s) - from + 1
      /\ DOMAIN SubSeq(s, from, Len(s)) = 1 .. Len(s) - from + 1
      /\ \A i \in 1 .. Len(s) - from + 1 : SubSeq(s, from, Len(s))[i] = s[from + i - 1]
  BY <1>2, Slice
<1>5. Ascending(SubSeq(s, 1, m)) /\ Ascending(SubSeq(s, from, Len(s)))
  BY <1>2, SliceAscends
<1>6. \A i \in 1 .. Len(s) : s[i] \in S /\ s[i] \in Int
  BY ElementOfSeq
<1>7. \A i \in 1 .. m : s[i] < s[m + 1]
  BY <1>1 DEF Ascending
<1>8. ASSUME NEW i \in 1 .. Len(s) - from + 1 PROVE s[m + 1] <= s[from + i - 1]
  <2>1. from + i - 1 \in 1 .. Len(s) /\ m + 1 <= from + i - 1
    BY <1>1
  <2>2. m + 1 = from + i - 1 \/ s[m + 1] < s[from + i - 1]
    BY <1>1, <2>1 DEF Ascending
  <2> QED
    BY <1>1, <1>6, <2>1, <2>2
<1> QED
  BY <1>1, <1>3, <1>4, <1>5, <1>6, <1>7, <1>8 DEF HalvesOf

\* The keys under a node, divided between its two halves.
Halved(halves, under, n, new, mid) ==
    /\ halves[n] = {k \in under[n] : k < mid}
    /\ halves[new] = {k \in under[n] : mid <= k}
    /\ \A m \in allocated : m # n => halves[m] = under[m]
    /\ \A m \in allocated : halves[m] \subseteq under[m]

LEMMA UnderHalves ==
    ASSUME TreeInv, NEW under \in [Nodes -> SUBSET Int], NEW n \in Nodes, NEW new \in Nodes,
           n # new, new \notin allocated, NEW mid \in Int
    PROVE  \E halves \in [Nodes -> SUBSET Int] : Halved(halves, under, n, new, mid)
<1> DEFINE halves == [under EXCEPT ![n] = {k \in under[n] : k < mid},
                                   ![new] = {k \in under[n] : mid <= k}]
<1>1. /\ halves \in [Nodes -> SUBSET Int]
      /\ halves[n] = {k \in under[n] : k < mid}
      /\ halves[new] = {k \in under[n] : mid <= k}
      /\ \A m \in Nodes : m # n /\ m # new => halves[m] = under[m]
  OBVIOUS
<1>2. allocated \subseteq Nodes
  BY DEF TreeInv, TypeOK
<1> HIDE DEF halves
<1>3. \A m \in allocated : m # n => halves[m] = under[m]
  BY <1>1, <1>2
<1>4. halves[n] \subseteq under[n]
  BY <1>1
<1>5. \A m \in allocated : halves[m] \subseteq under[m]
  BY <1>3, <1>4
<1> QED
  BY <1>1, <1>3, <1>5 DEF Halved

\* The two halves of the leaf, as cut from the longer one.
LEMMA LeafHalves ==
    ASSUME SearchInv, LeafSplit
    PROVE  LET left == SubSeq(NewLeafKeys, 1, SplitIndex)
               right == SubSeq(NewLeafKeys, SplitIndex + 1, TotalCount)
               mid == NewLeafKeys[SplitIndex + 1]
           IN  /\ Len(left) = SplitIndex /\ DOMAIN left = 1 .. SplitIndex
               /\ Len(right) = TotalCount - SplitIndex /\ DOMAIN right = 1 .. TotalCount - SplitIndex
               /\ Ascending(left) /\ Ascending(right)
               /\ \A i \in 1 .. SplitIndex : left[i] = NewLeafKeys[i] /\ NewLeafKeys[i] < mid
               /\ \A i \in 1 .. TotalCount - SplitIndex :
                    right[i] = NewLeafKeys[SplitIndex + i] /\ mid <= NewLeafKeys[SplitIndex + i]
               /\ mid \in Keys /\ SplitIndex + 1 \in DOMAIN NewLeafKeys
               /\ DOMAIN NewLeafKeys = 1 .. TotalCount
               /\ up'.key = mid /\ up'.right = NewNode /\ mid \in Int
<1> DEFINE left == SubSeq(NewLeafKeys, 1, SplitIndex)
           right == SubSeq(NewLeafKeys, SplitIndex + 1, TotalCount)
           mid == NewLeafKeys[SplitIndex + 1]
<1>1. /\ AtLeaf /\ ~IsDuplicate /\ Len(heap[cur].keys) = MAX_KEYS
      /\ allocated' = allocated \cup {NewNode}
      /\ up' = [key |-> RightLeaf.keys[1], right |-> NewNode]
      /\ pc' = "ascend" /\ UNCHANGED <<root, call, cur, path, ret>>
  BY DEF LeafSplit
<1>2. /\ NewNode \notin allocated /\ NewNode \in Nodes
      /\ heap'[cur].is_leaf /\ heap'[cur].keys = left
      /\ heap'[NewNode].is_leaf /\ heap'[NewNode].keys = right
      /\ \A n \in allocated : n # cur => heap'[n] = heap[n]
  BY LeafSplitNodes DEF SearchInv
<1>3. /\ cur \in allocated /\ cur \in Nodes /\ heap[cur].is_leaf /\ cur # NewNode
      /\ NewLeafKeys \in Seq(Keys) /\ Len(NewLeafKeys) = TotalCount /\ pc = "descend" /\ cur # Nil
  <2>1. Len(NewLeafKeys) = Len(heap[cur].keys) + 1 /\ NewLeafKeys \in Seq(Keys) /\ cur \in allocated /\ cur \in Nodes
    BY <1>1, LeafEntry DEF SearchInv
  <2> QED
    BY <1>1, <1>2, <2>1 DEF AtLeaf, TotalCount
<1>4. /\ SplitIndex \in 1 .. Len(NewLeafKeys) - 1 /\ SplitIndex + 1 \in SplitIndex + 1 .. Len(NewLeafKeys)
      /\ TotalCount \in Nat /\ SplitIndex \in Nat
  BY <1>3, Sizes, OrderAssumption DEF TotalCount
<1>5. Ascending(NewLeafKeys)
  BY <1>1, LeafKeysGrow DEF SearchInv
<1>6. /\ Len(left) = SplitIndex /\ DOMAIN left = 1 .. SplitIndex
      /\ Len(right) = TotalCount - SplitIndex /\ DOMAIN right = 1 .. TotalCount - SplitIndex
      /\ Ascending(left) /\ Ascending(right)
      /\ \A i \in 1 .. SplitIndex : left[i] = NewLeafKeys[i] /\ NewLeafKeys[i] < mid
      /\ \A i \in 1 .. TotalCount - SplitIndex :
           right[i] = NewLeafKeys[SplitIndex + i] /\ mid <= NewLeafKeys[SplitIndex + i]
      /\ mid \in Keys /\ SplitIndex + 1 \in DOMAIN NewLeafKeys
      /\ DOMAIN NewLeafKeys = 1 .. TotalCount
  <2> DEFINE from == SplitIndex + 1
  <2>1. /\ from \in SplitIndex + 1 .. Len(NewLeafKeys) /\ TotalCount - from + 1 = TotalCount - SplitIndex
        /\ \A i \in 1 .. TotalCount - SplitIndex : from + i - 1 = SplitIndex + i
    BY <1>4
  <2> HIDE DEF from
  <2>2. HalvesOf(Keys, NewLeafKeys, SplitIndex, from)
    BY <1>3, <1>4, <1>5, <2>1, RowTypes, Halves
  <2>3. right = SubSeq(NewLeafKeys, from, Len(NewLeafKeys))
    BY <1>3 DEF from
  <2>4. DOMAIN NewLeafKeys = 1 .. TotalCount
    BY <1>3, LenProperties
  <2> QED
    BY <1>3, <2>1, <2>2, <2>3, <2>4 DEF HalvesOf
<1>7. up'.key = mid /\ up'.right = NewNode /\ mid \in Int
  <2>1. RightLeaf.keys = right
    BY DEF RightLeaf
  <2>2. 1 \in 1 .. TotalCount - SplitIndex
    BY <1>4, Sizes, OrderAssumption DEF TotalCount
  <2>3. right[1] = mid
    BY <1>6, <2>2
  <2> HIDE DEF right, mid
  <2> QED
    BY <1>1, <1>6, <2>1, <2>3, RowTypes
<1> QED
  BY <1>6, <1>7

LEMMA LeafSplitKeepsSearch ==
    ASSUME SearchInv, LeafSplit
    PROVE  SearchParts'
<1> DEFINE left == SubSeq(NewLeafKeys, 1, SplitIndex)
           right == SubSeq(NewLeafKeys, SplitIndex + 1, TotalCount)
           mid == NewLeafKeys[SplitIndex + 1]
<1>1. /\ AtLeaf /\ ~IsDuplicate /\ Len(heap[cur].keys) = MAX_KEYS
      /\ allocated' = allocated \cup {NewNode}
      /\ up' = [key |-> RightLeaf.keys[1], right |-> NewNode]
      /\ pc' = "ascend" /\ UNCHANGED <<root, call, cur, path, ret>>
  BY DEF LeafSplit
<1>2. /\ NewNode \notin allocated /\ NewNode \in Nodes
      /\ heap'[cur].is_leaf /\ heap'[cur].keys = left
      /\ heap'[NewNode].is_leaf /\ heap'[NewNode].keys = right
      /\ \A n \in allocated : n # cur => heap'[n] = heap[n]
  BY LeafSplitNodes DEF SearchInv
<1>3. /\ cur \in allocated /\ cur \in Nodes /\ heap[cur].is_leaf /\ cur # NewNode
      /\ NewLeafKeys \in Seq(Keys) /\ Len(NewLeafKeys) = TotalCount /\ pc = "descend" /\ cur # Nil
  <2>1. Len(NewLeafKeys) = Len(heap[cur].keys) + 1 /\ NewLeafKeys \in Seq(Keys) /\ cur \in allocated /\ cur \in Nodes
    BY <1>1, LeafEntry DEF SearchInv
  <2> QED
    BY <1>1, <1>2, <2>1 DEF AtLeaf, TotalCount
<1>4. /\ SplitIndex \in 1 .. Len(NewLeafKeys) - 1 /\ SplitIndex + 1 \in SplitIndex + 1 .. Len(NewLeafKeys)
      /\ TotalCount \in Nat /\ SplitIndex \in Nat
  BY <1>3, Sizes, OrderAssumption DEF TotalCount
<1>5. /\ Len(left) = SplitIndex /\ DOMAIN left = 1 .. SplitIndex
      /\ Len(right) = TotalCount - SplitIndex /\ DOMAIN right = 1 .. TotalCount - SplitIndex
      /\ Ascending(left) /\ Ascending(right)
      /\ \A i \in 1 .. SplitIndex : left[i] = NewLeafKeys[i] /\ NewLeafKeys[i] < mid
      /\ \A i \in 1 .. TotalCount - SplitIndex :
           right[i] = NewLeafKeys[SplitIndex + i] /\ mid <= NewLeafKeys[SplitIndex + i]
      /\ mid \in Keys /\ SplitIndex + 1 \in DOMAIN NewLeafKeys
      /\ DOMAIN NewLeafKeys = 1 .. TotalCount
  BY LeafHalves
<1>6. up'.key = mid /\ up'.right = NewNode /\ mid \in Int
  BY LeafHalves
<1> HIDE DEF left, right, mid
<1>7. \A n, i, c : ChildAt(n, i, c)' <=> ChildAt(n, i, c)
  BY <1>1, <1>2, <1>3 DEF ChildAt
<1>8. KeysAscend'
  BY <1>1, <1>2, <1>5 DEF SearchInv, KeysAscend
<1>9. Filled'
  <2>1. \A n : n = cur \/ n = NewNode => KeysEnough(n)'
    BY <1>2, <1>4, <1>5, LeastSizes DEF KeysEnough
  <2>2. \A n \in allocated : n # root /\ n # cur => KeysEnough(n)'
    BY <1>2 DEF SearchInv, Filled, KeysEnough
  <2>3. \A n \in allocated' : n # root' => KeysEnough(n)'
    BY <1>1, <2>1, <2>2
  <2>4. cur' = cur
    BY <1>1
  <2>5. KeysEnough(cur)'
    BY <2>1, <2>4 DEF KeysEnough
  <2> QED
    BY <2>3, <2>5 DEF Filled
<1>10. OneParent'
  <2>1. \A n, i : ~ChildAt(n, i, NewNode)
    BY <1>2, ChildFacts DEF SearchInv
  <2>2. NewNode # root
    BY <1>2, NodesAssumption DEF SearchInv, TreeInv, TypeOK
  <2> QED
    BY <1>1, <1>6, <1>7, <2>1, <2>2 DEF SearchInv, OneParent, NoParent
<1>11. PathLinked'
  BY <1>1, <1>7 DEF SearchInv, PathLinked
<1>12. PICK under \in [Nodes -> SUBSET Int] : Divided(under) /\ CallDivided(under)
  BY DEF SearchInv, KeysDivided
<1>13. \A i \in 1 .. TotalCount : NewLeafKeys[i] \in under[cur]
  BY <1>1, <1>5, <1>12, LeafKeysUnder
<1>14. PICK halves \in [Nodes -> SUBSET Int] : Halved(halves, under, cur, NewNode, mid)
  BY <1>2, <1>3, <1>6, UnderHalves DEF SearchInv
<1>15. /\ halves[cur] = {k \in under[cur] : k < mid}
       /\ halves[NewNode] = {k \in under[cur] : mid <= k}
       /\ \A n \in allocated : n # cur => halves[n] = under[n]
       /\ \A n \in allocated : halves[n] \subseteq under[n]
  BY <1>14 DEF Halved
<1>16. Divided(halves)'
  <2>1. \A n : n = cur => HoldsKeys(halves, n)'
    <3>1. \A i \in 1 .. SplitIndex : left[i] \in halves[cur]
      <4>1. \A i \in 1 .. SplitIndex : i \in 1 .. TotalCount
        BY <1>4, <1>5
      <4> QED
        BY <1>5, <1>13, <1>15, <4>1
    <3> QED
      BY <1>2, <1>5, <3>1 DEF HoldsKeys
  <2>2. \A n : n = NewNode => HoldsKeys(halves, n)'
    <3>1. \A i \in 1 .. TotalCount - SplitIndex : right[i] \in halves[NewNode]
      <4>1. \A i \in 1 .. TotalCount - SplitIndex : SplitIndex + i \in 1 .. TotalCount
        BY <1>4
      <4> QED
        BY <1>5, <1>13, <1>15, <4>1
    <3> QED
      BY <1>2, <1>5, <3>1 DEF HoldsKeys
  <2>3. \A n \in allocated : n # cur => HoldsKeys(halves, n)'
    BY <1>2, <1>12, <1>15 DEF Divided, HoldsKeys
  <2>4. ASSUME NEW n \in allocated', NEW i, NEW c, ChildAt(n, i, c), NEW k \in halves[c]
        PROVE  k \in halves[n] /\ InSlot(heap'[n].keys, i, k)
    <3>1. n \in allocated /\ c \in allocated /\ n # cur
      BY <1>3, <2>4, ChildFacts DEF SearchInv, ChildAt
    <3>2. k \in under[c]
      BY <1>15, <2>4, <3>1
    <3>3. k \in under[n] /\ InSlot(heap[n].keys, i, k)
      BY <1>12, <2>4, <3>1, <3>2 DEF Divided, DividesKeys
    <3> QED
      BY <1>2, <1>15, <3>1, <3>3
  <2>5. \A n \in allocated' : HoldsKeys(halves, n)' /\ DividesKeys(halves, n)'
    BY <1>1, <1>7, <2>1, <2>2, <2>3, <2>4 DEF DividesKeys
  <2> QED
    BY <2>5 DEF Divided
<1>17. CallDivided(halves)'
  <2>1. (\A k \in halves[cur] : k < mid) /\ (\A k \in halves[NewNode] : mid <= k)
    BY <1>15
  <2>2. ASSUME path # <<>>, NEW k \in halves[NewNode] \cup {mid}
        PROVE  k \in halves[Parent] /\ InSlot(heap'[Parent].keys, path[1].position, k)
    <3>1. k \in under[cur]
      BY <1>5, <1>13, <1>15, <2>2 DEF mid
    <3>2. 1 \in DOMAIN path
      <4>1. path \in Seq([node : Nodes, position : Nat])
        BY DEF SearchInv, TreeInv, TypeOK
      <4>2. Len(path) \in Nat \ {0} /\ DOMAIN path = 1 .. Len(path)
        BY <2>2, <4>1, EmptySeq, LenProperties
      <4> QED
        BY <4>2
    <3>3. ChildAt(Parent, path[1].position, cur)
      BY <3>2 DEF SearchInv, PathLinked, Parent
    <3>4. Parent \in allocated /\ Parent # cur
      BY <1>3, <3>3 DEF ChildAt
    <3>5. k \in under[Parent] /\ InSlot(heap[Parent].keys, path[1].position, k)
      BY <1>12, <3>1, <3>3, <3>4 DEF Divided, DividesKeys
    <3> QED
      BY <1>2, <1>15, <3>4, <3>5
  <2>3. cur' = cur /\ path' = path /\ Parent' = Parent
    BY <1>1 DEF Parent
  <2> QED
    BY <1>1, <1>6, <2>1, <2>2, <2>3 DEF CallDivided
<1> QED
  BY <1>8, <1>9, <1>10, <1>11, <1>14, <1>16, <1>17 DEF SearchParts, KeysDivided

-----------------------------------------------------------------------------
(* The steps on the way back. *)

LEMMA InternalInsertKeepsSearch ==
    ASSUME SearchInv, InternalInsert
    PROVE  SearchParts'
<1>1. AtParent /\ Return("ok") /\ UNCHANGED <<allocated, root>>
  BY DEF InternalInsert
<1>2. /\ ~heap'[Parent].is_leaf
      /\ heap'[Parent].keys = NewParentKeys /\ heap'[Parent].children = NewParentChildren
      /\ \A n \in allocated : n # Parent => heap'[n] = heap[n]
  BY InternalInsertNodes DEF SearchInv
<1>3. /\ Parent \in allocated /\ ~heap[Parent].is_leaf /\ Len(heap[Parent].keys) \in Nat
      /\ Len(NewParentKeys) = Len(heap[Parent].keys) + 1
      /\ \A i \in DOMAIN NewParentChildren : NewParentChildren[i] \in allocated
  BY <1>1, ParentEntry DEF SearchInv
<1>4. PathLinked' /\ pc' = "idle" /\ \A under : CallDivided(under)'
  BY <1>1, ReturnKeepsSearch
<1>5. \A n, i, c : ChildAt(n, i, c)' <=>
         \/ n # Parent /\ ChildAt(n, i, c)
         \/ n = Parent /\ i \in DOMAIN NewParentChildren /\ NewParentChildren[i] = c
  BY <1>1, <1>2, <1>3 DEF ChildAt
<1>6. KeysAscend'
  BY <1>1, <1>2, ParentKeysGrow DEF SearchInv, KeysAscend
<1>7. Filled'
  <2>1. LeastInternal \in Nat
    BY LeastSizes
  <2>2. \A n : n = Parent /\ n # root => KeysEnough(n)'
    BY <1>2, <1>3, <2>1 DEF SearchInv, Filled, KeysEnough
  <2>3. \A n \in allocated : n # root /\ n # Parent => KeysEnough(n)'
    BY <1>2 DEF SearchInv, Filled, KeysEnough
  <2> QED
    BY <1>1, <1>4, <2>2, <2>3 DEF Filled
<1>8. OneParent'
  <2>1. /\ \A i, j \in DOMAIN NewParentChildren : NewParentChildren[i] = NewParentChildren[j] => i = j
        /\ \A i \in DOMAIN NewParentChildren : NewParentChildren[i] # root
        /\ \A i \in DOMAIN NewParentChildren : \A n, j :
             n # Parent => ~ChildAt(n, j, NewParentChildren[i])
    BY <1>1, ParentLinks DEF SearchInv
  <2>2. ASSUME NEW n, NEW m, NEW i, NEW j, NEW c, ChildAt(n, i, c)', ChildAt(m, j, c)'
        PROVE  n = m /\ i = j
    <3>1. CASE n # Parent /\ m # Parent
      <4>1. ChildAt(n, i, c) /\ ChildAt(m, j, c)
        BY <1>5, <2>2, <3>1
      <4> QED
        BY <4>1 DEF SearchInv, OneParent
    <3>2. CASE n = Parent /\ m # Parent
      BY <1>5, <2>1, <2>2, <3>2
    <3>3. CASE n # Parent /\ m = Parent
      BY <1>5, <2>1, <2>2, <3>3
    <3>4. CASE n = Parent /\ m = Parent
      BY <1>5, <2>1, <2>2, <3>4
    <3> QED
      BY <3>1, <3>2, <3>3, <3>4
  <2>3. \A n, i : ~ChildAt(n, i, root)'
    <3>1. \A n, i : ~ChildAt(n, i, root)
      BY DEF SearchInv, OneParent, NoParent
    <3>2. \A n, i, c : c = root => ~ChildAt(n, i, c)'
      BY <1>5, <2>1, <3>1
    <3> QED
      BY <1>1, <3>2
  <2> QED
    BY <1>1, <1>4, <2>2, <2>3 DEF OneParent, NoParent
<1>9. PICK under \in [Nodes -> SUBSET Int] : Divided(under) /\ CallDivided(under)
  BY DEF SearchInv, KeysDivided
<1>10. /\ \A j \in DOMAIN NewParentKeys : NewParentKeys[j] \in under[Parent]
       /\ \A j \in DOMAIN NewParentChildren :
            \A k \in under[NewParentChildren[j]] : k \in under[Parent] /\ InSlot(NewParentKeys, j, k)
  BY <1>1, <1>9, ParentDivides
<1>11. \A n \in allocated : HoldsKeys(under, n)'
  <2>1. \A n : n = Parent => HoldsKeys(under, n)'
    BY <1>2, <1>10 DEF HoldsKeys
  <2>2. \A n \in allocated : n # Parent => HoldsKeys(under, n)'
    BY <1>2, <1>9 DEF Divided, HoldsKeys
  <2> QED
    BY <2>1, <2>2
<1>12. ASSUME NEW n \in allocated, NEW i, NEW c, ChildAt(n, i, c)', NEW k \in under[c]
       PROVE  k \in under[n] /\ InSlot(heap'[n].keys, i, k)
  <2>1. CASE n # Parent
    <3>1. ChildAt(n, i, c)
      BY <1>5, <1>12, <2>1
    <3> QED
      BY <1>2, <1>9, <1>12, <2>1, <3>1 DEF Divided, DividesKeys
  <2>2. CASE n = Parent
    BY <1>2, <1>5, <1>10, <1>12, <2>2
  <2> QED
    BY <2>1, <2>2
<1>13. Divided(under)'
  BY <1>1, <1>11, <1>12 DEF Divided, DividesKeys
<1> QED
  BY <1>4, <1>6, <1>7, <1>8, <1>9, <1>13 DEF SearchParts, KeysDivided

LEMMA NewRootKeepsSearch ==
    ASSUME SearchInv, NewRoot
    PROVE  SearchParts'
<1>1. /\ pc = "ascend" /\ path = <<>> /\ Return("ok")
      /\ allocated' = allocated \cup {NewNode} /\ root' = NewNode
  BY DEF NewRoot
<1>2. /\ NewNode \notin allocated /\ NewNode \in Nodes
      /\ ~heap'[NewNode].is_leaf
      /\ heap'[NewNode].keys = <<up.key>> /\ heap'[NewNode].children = <<root, up.right>>
      /\ \A n \in allocated : heap'[n] = heap[n]
  BY NewRootNodes DEF SearchInv
<1>3. cur = root /\ root \in allocated /\ up.right \in allocated /\ up.key \in Int
  BY <1>1, RowTypes DEF SearchInv, TreeInv, CallShape
<1>4. PathLinked' /\ pc' = "idle" /\ \A under : CallDivided(under)'
  BY <1>1, ReturnKeepsSearch
<1>5. /\ DOMAIN <<root, up.right>> = 1 .. 2 /\ <<root, up.right>>[1] = root /\ <<root, up.right>>[2] = up.right
      /\ DOMAIN <<up.key>> = 1 .. 1 /\ <<up.key>>[1] = up.key /\ Len(<<up.key>>) = 1
  OBVIOUS
<1>6. \A n, i, c : ChildAt(n, i, c)' <=>
         \/ n \in allocated /\ ChildAt(n, i, c)
         \/ n = NewNode /\ i = 1 /\ c = root
         \/ n = NewNode /\ i = 2 /\ c = up.right
  <2>1. \A n : n \in allocated => (\A i, c : ChildAt(n, i, c)' <=> ChildAt(n, i, c))
    BY <1>1, <1>2 DEF ChildAt
  <2>2. \A n : n = NewNode => \A i, c :
           ChildAt(n, i, c)' <=> i \in 1 .. 2 /\ <<root, up.right>>[i] = c
    BY <1>1, <1>2, <1>5 DEF ChildAt
  <2>3. \A i : i \in 1 .. 2 <=> i = 1 \/ i = 2
    OBVIOUS
  <2>4. \A n, i, c : ChildAt(n, i, c)' => n \in allocated \/ n = NewNode
    BY <1>1 DEF ChildAt
  <2> QED
    BY <1>2, <1>5, <2>1, <2>2, <2>3, <2>4
<1>7. KeysAscend'
  <2>1. \A n : n = NewNode => Ascending(heap'[n].keys)
    BY <1>2, <1>5 DEF Ascending
  <2> QED
    BY <1>1, <1>2, <2>1 DEF SearchInv, KeysAscend
<1>8. Filled'
  <2>1. \A n \in allocated : KeysEnough(n)'
    BY <1>1, <1>2, <1>3 DEF SearchInv, Filled, KeysEnough
  <2> QED
    BY <1>1, <1>4, <2>1 DEF Filled
<1>9. OneParent'
  <2>1. /\ \A n, i : ~ChildAt(n, i, root) /\ ~ChildAt(n, i, up.right)
        /\ up.right # root
    BY <1>1 DEF SearchInv, OneParent, NoParent
  <2>2. \A n, i : ~ChildAt(n, i, NewNode)
    BY <1>2, ChildFacts DEF SearchInv
  <2>3. ASSUME NEW n, NEW m, NEW i, NEW j, NEW c, ChildAt(n, i, c)', ChildAt(m, j, c)'
        PROVE  n = m /\ i = j
    <3>1. CASE c = root
      BY <1>6, <2>1, <2>3, <3>1
    <3>2. CASE c = up.right
      BY <1>6, <2>1, <2>3, <3>2
    <3>3. CASE c # root /\ c # up.right
      <4>1. ChildAt(n, i, c) /\ ChildAt(m, j, c)
        BY <1>6, <2>3, <3>3
      <4> QED
        BY <4>1 DEF SearchInv, OneParent
    <3> QED
      BY <3>1, <3>2, <3>3
  <2>4. \A n, i, c : c = NewNode => ~ChildAt(n, i, c)'
    BY <1>2, <1>3, <1>6, <2>2
  <2>5. \A n, i : ~ChildAt(n, i, root)'
    BY <1>1, <2>4
  <2> QED
    BY <1>4, <2>3, <2>5 DEF OneParent, NoParent
<1>10. PICK under \in [Nodes -> SUBSET Int] : Divided(under) /\ CallDivided(under)
  BY DEF SearchInv, KeysDivided
<1>11. PICK top \in [Nodes -> SUBSET Int] :
         /\ top[NewNode] = under[root] \cup under[up.right] \cup {up.key}
         /\ \A n \in allocated : top[n] = under[n]
  <2> DEFINE top == [under EXCEPT ![NewNode] = under[root] \cup under[up.right] \cup {up.key}]
  <2>1. under[root] \subseteq Int /\ under[up.right] \subseteq Int
    BY <1>3 DEF SearchInv, TreeInv, TypeOK
  <2>2. /\ top \in [Nodes -> SUBSET Int]
        /\ top[NewNode] = under[root] \cup under[up.right] \cup {up.key}
        /\ \A n \in allocated : top[n] = under[n]
    BY <1>2, <1>3, <2>1 DEF SearchInv, TreeInv, TypeOK
  <2> QED
    BY <2>2
<1>12. Divided(top)'
  <2>1. \A n : n = NewNode => HoldsKeys(top, n)'
    BY <1>2, <1>5, <1>11 DEF HoldsKeys
  <2>2. \A n \in allocated : HoldsKeys(top, n)'
    BY <1>2, <1>10, <1>11 DEF Divided, HoldsKeys
  <2>3. ASSUME NEW n \in allocated', NEW i, NEW c, ChildAt(n, i, c)', NEW k \in top[c]
        PROVE  k \in top[n] /\ InSlot(heap'[n].keys, i, k)
    <3>1. CASE n \in allocated
      <4>1. ChildAt(n, i, c)
        BY <1>2, <1>6, <2>3, <3>1
      <4>2. c \in allocated
        BY <4>1, ChildFacts DEF SearchInv
      <4> QED
        BY <1>2, <1>10, <1>11, <2>3, <3>1, <4>1, <4>2 DEF Divided, DividesKeys
    <3>2. CASE n = NewNode /\ i = 1 /\ c = root
      <4>1. k \in under[root] /\ k < up.key
        BY <1>1, <1>3, <1>10, <1>11, <2>3, <3>2 DEF CallDivided
      <4> QED
        BY <1>2, <1>5, <1>11, <3>2, <4>1 DEF InSlot
    <3>3. CASE n = NewNode /\ i = 2 /\ c = up.right
      <4>1. k \in under[up.right] /\ up.key <= k
        BY <1>1, <1>3, <1>10, <1>11, <2>3, <3>3 DEF CallDivided
      <4>2. ~(2 <= Len(<<up.key>>)) /\ 2 - 1 = 1
        BY <1>5
      <4> QED
        BY <1>2, <1>5, <1>11, <3>3, <4>1, <4>2 DEF InSlot
    <3> QED
      BY <1>6, <2>3, <3>1, <3>2, <3>3
  <2>4. \A n \in allocated' : HoldsKeys(top, n)' /\ DividesKeys(top, n)'
    BY <1>1, <2>1, <2>2, <2>3 DEF DividesKeys
  <2> QED
    BY <2>4 DEF Divided
<1> QED
  BY <1>4, <1>7, <1>8, <1>9, <1>11, <1>12 DEF SearchParts, KeysDivided

\* The two halves of the parent, as cut from the longer one.
LEMMA InternalHalves ==
    ASSUME SearchInv, InternalSplit
    PROVE  LET left == SubSeq(NewParentKeys, 1, SplitIndex)
               right == SubSeq(NewParentKeys, SplitIndex + 2, TotalCount)
               mid == NewParentKeys[SplitIndex + 1]
           IN  /\ Len(left) = SplitIndex /\ DOMAIN left = 1 .. SplitIndex
               /\ Len(right) = TotalCount - SplitIndex - 1 /\ DOMAIN right = 1 .. TotalCount - SplitIndex - 1
               /\ Ascending(left) /\ Ascending(right)
               /\ \A i \in 1 .. SplitIndex : left[i] = NewParentKeys[i] /\ NewParentKeys[i] < mid
               /\ \A i \in 1 .. TotalCount - SplitIndex - 1 :
                    /\ right[i] = NewParentKeys[SplitIndex + 1 + i]
                    /\ mid <= NewParentKeys[SplitIndex + 1 + i]
               /\ mid \in Int
               /\ Len(NewParentKeys) = TotalCount /\ DOMAIN NewParentKeys = 1 .. TotalCount
<1> DEFINE left == SubSeq(NewParentKeys, 1, SplitIndex)
           right == SubSeq(NewParentKeys, SplitIndex + 2, TotalCount)
           mid == NewParentKeys[SplitIndex + 1]
           from == SplitIndex + 2
<1>1. AtParent /\ Len(heap[Parent].keys) = MAX_KEYS
  BY DEF InternalSplit
<1>2. NewParentKeys \in Seq(Keys) /\ Len(NewParentKeys) = TotalCount /\ DOMAIN NewParentKeys = 1 .. TotalCount
  <2>1. NewParentKeys \in Seq(Keys) /\ Len(NewParentKeys) = Len(heap[Parent].keys) + 1
    BY <1>1, ParentEntry DEF SearchInv
  <2> QED
    BY <1>1, <2>1, LenProperties DEF TotalCount
<1>3. /\ SplitIndex \in 1 .. Len(NewParentKeys) - 1 /\ from \in SplitIndex + 1 .. Len(NewParentKeys)
      /\ TotalCount - from + 1 = TotalCount - SplitIndex - 1
      /\ \A i \in 1 .. TotalCount - SplitIndex - 1 : from + i - 1 = SplitIndex + 1 + i
  BY <1>2, Sizes, OrderAssumption DEF TotalCount
<1>4. Ascending(NewParentKeys)
  BY <1>1, ParentKeysGrow
<1>5. right = SubSeq(NewParentKeys, from, Len(NewParentKeys))
  BY <1>2
<1> HIDE DEF from
<1>6. HalvesOf(Keys, NewParentKeys, SplitIndex, from)
  BY <1>2, <1>3, <1>4, RowTypes, Halves
<1>7. mid \in Int
  BY <1>6, RowTypes DEF HalvesOf
<1> QED
  BY <1>2, <1>3, <1>5, <1>6, <1>7 DEF HalvesOf

LEMMA InternalHalvesChildren ==
    ASSUME SearchInv, InternalSplit
    PROVE  /\ DOMAIN SubSeq(NewParentChildren, 1, SplitIndex + 1) = 1 .. SplitIndex + 1
           /\ \A i \in 1 .. SplitIndex + 1 :
                /\ SubSeq(NewParentChildren, 1, SplitIndex + 1)[i] = NewParentChildren[i]
                /\ i \in DOMAIN NewParentChildren
           /\ DOMAIN SubSeq(NewParentChildren, SplitIndex + 2, TotalCount + 1) = 1 .. TotalCount - SplitIndex
           /\ \A i \in 1 .. TotalCount - SplitIndex :
                /\ SubSeq(NewParentChildren, SplitIndex + 2, TotalCount + 1)[i] = NewParentChildren[SplitIndex + 1 + i]
                /\ SplitIndex + 1 + i \in DOMAIN NewParentChildren
<1> DEFINE to == SplitIndex + 1
           from == SplitIndex + 2
           end == TotalCount + 1
<1>1. AtParent /\ Len(heap[Parent].keys) = MAX_KEYS
  BY DEF InternalSplit
<1>2. /\ NewParentChildren \in Seq(Nodes) /\ Len(NewParentChildren) = end
      /\ DOMAIN NewParentChildren = 1 .. end
  <2>1. /\ NewParentChildren \in Seq(Nodes) /\ Len(NewParentChildren) = Len(heap[Parent].keys) + 2
        /\ DOMAIN NewParentChildren = 1 .. Len(heap[Parent].keys) + 2
    BY <1>1, ParentEntry DEF SearchInv
  <2>2. MAX_KEYS + 2 = TotalCount + 1
    BY Sizes DEF TotalCount
  <2> QED
    BY <1>1, <2>1, <2>2
<1>3. /\ 1 \in 1 .. end + 1 /\ to \in 1 - 1 .. end /\ to - 1 + 1 = SplitIndex + 1
      /\ from \in 1 .. end + 1 /\ end \in from - 1 .. end /\ end - from + 1 = TotalCount - SplitIndex
      /\ \A i \in 1 .. SplitIndex + 1 : 1 + i - 1 = i /\ i \in 1 .. end
      /\ \A i \in 1 .. TotalCount - SplitIndex : from + i - 1 = SplitIndex + 1 + i /\ SplitIndex + 1 + i \in 1 .. end
  BY Sizes, OrderAssumption DEF TotalCount
<1> HIDE DEF to, from, end
<1>4. /\ DOMAIN SubSeq(NewParentChildren, 1, to) = 1 .. to - 1 + 1
      /\ \A i \in 1 .. to - 1 + 1 : SubSeq(NewParentChildren, 1, to)[i] = NewParentChildren[1 + i - 1]
  BY <1>2, <1>3, Slice
<1>5. /\ DOMAIN SubSeq(NewParentChildren, from, end) = 1 .. end - from + 1
      /\ \A i \in 1 .. end - from + 1 :
           SubSeq(NewParentChildren, from, end)[i] = NewParentChildren[from + i - 1]
  BY <1>2, <1>3, Slice
<1>6. /\ DOMAIN SubSeq(NewParentChildren, 1, to) = 1 .. SplitIndex + 1
      /\ \A i \in 1 .. SplitIndex + 1 : SubSeq(NewParentChildren, 1, to)[i] = NewParentChildren[i]
  BY <1>3, <1>4
<1>7. /\ DOMAIN SubSeq(NewParentChildren, from, end) = 1 .. TotalCount - SplitIndex
      /\ \A i \in 1 .. TotalCount - SplitIndex :
           SubSeq(NewParentChildren, from, end)[i] = NewParentChildren[SplitIndex + 1 + i]
  BY <1>3, <1>5
<1> QED
  BY <1>2, <1>3, <1>6, <1>7 DEF to, from, end

LEMMA InternalSplitKeepsSearch ==
    ASSUME SearchInv, InternalSplit
    PROVE  SearchParts'
<1> DEFINE left == SubSeq(NewParentKeys, 1, SplitIndex)
           right == SubSeq(NewParentKeys, SplitIndex + 2, TotalCount)
           mid == NewParentKeys[SplitIndex + 1]
           leftChildren == SubSeq(NewParentChildren, 1, SplitIndex + 1)
           rightChildren == SubSeq(NewParentChildren, SplitIndex + 2, TotalCount + 1)
<1>1. /\ AtParent /\ pc = "ascend" /\ path # <<>>
      /\ allocated' = allocated \cup {NewNode}
      /\ up' = [key |-> mid, right |-> NewNode]
      /\ cur' = Parent /\ path' = Tail(path) /\ UNCHANGED <<root, pc, call, ret>>
  BY DEF InternalSplit, AtParent
<1>2. /\ NewNode \notin allocated /\ NewNode \in Nodes
      /\ ~heap'[Parent].is_leaf /\ heap'[Parent].keys = left /\ heap'[Parent].children = leftChildren
      /\ ~heap'[NewNode].is_leaf /\ heap'[NewNode].keys = right /\ heap'[NewNode].children = rightChildren
      /\ \A n \in allocated : n # Parent => heap'[n] = heap[n]
  BY InternalSplitNodes DEF SearchInv
<1>3. /\ Parent \in allocated /\ Parent \in Nodes /\ ~heap[Parent].is_leaf /\ Parent # NewNode
      /\ \A i \in DOMAIN NewParentChildren : NewParentChildren[i] \in allocated
  BY <1>1, <1>2, ParentEntry DEF SearchInv
<1>4. SplitIndex \in Nat /\ TotalCount \in Nat /\ SplitIndex < TotalCount
  BY Sizes, OrderAssumption DEF MAX_KEYS
<1>5. /\ Len(left) = SplitIndex /\ DOMAIN left = 1 .. SplitIndex
      /\ Len(right) = TotalCount - SplitIndex - 1 /\ DOMAIN right = 1 .. TotalCount - SplitIndex - 1
      /\ Ascending(left) /\ Ascending(right)
      /\ \A i \in 1 .. SplitIndex : left[i] = NewParentKeys[i] /\ NewParentKeys[i] < mid
      /\ \A i \in 1 .. TotalCount - SplitIndex - 1 :
           /\ right[i] = NewParentKeys[SplitIndex + 1 + i]
           /\ mid <= NewParentKeys[SplitIndex + 1 + i]
      /\ mid \in Int
      /\ Len(NewParentKeys) = TotalCount /\ DOMAIN NewParentKeys = 1 .. TotalCount
  BY InternalHalves
<1>6. /\ DOMAIN leftChildren = 1 .. SplitIndex + 1
      /\ \A i \in 1 .. SplitIndex + 1 :
           leftChildren[i] = NewParentChildren[i] /\ i \in DOMAIN NewParentChildren
      /\ DOMAIN rightChildren = 1 .. TotalCount - SplitIndex
      /\ \A i \in 1 .. TotalCount - SplitIndex :
           /\ rightChildren[i] = NewParentChildren[SplitIndex + 1 + i]
           /\ SplitIndex + 1 + i \in DOMAIN NewParentChildren
  BY InternalHalvesChildren
<1>7. up'.key = mid /\ up'.right = NewNode
  <2> HIDE DEF mid
  <2> QED
    BY <1>1
<1> HIDE DEF left, right, leftChildren, rightChildren
<1>8. \A n, i, c : ChildAt(n, i, c)' <=>
         \/ n # Parent /\ ChildAt(n, i, c)
         \/ n = Parent /\ i \in 1 .. SplitIndex + 1 /\ NewParentChildren[i] = c
         \/ n = NewNode /\ i \in 1 .. TotalCount - SplitIndex /\ NewParentChildren[SplitIndex + 1 + i] = c
  <2>1. \A n : n \in allocated /\ n # Parent => \A i, c : ChildAt(n, i, c)' <=> ChildAt(n, i, c)
    BY <1>1, <1>2 DEF ChildAt
  <2>2. \A n : n = Parent => \A i, c :
          ChildAt(n, i, c)' <=> i \in 1 .. SplitIndex + 1 /\ NewParentChildren[i] = c
    BY <1>1, <1>2, <1>3, <1>6 DEF ChildAt
  <2>3. \A n : n = NewNode => \A i, c :
          ChildAt(n, i, c)' <=> i \in 1 .. TotalCount - SplitIndex /\ NewParentChildren[SplitIndex + 1 + i] = c
    BY <1>1, <1>2, <1>3, <1>6 DEF ChildAt
  <2>4. \A n, i, c : ChildAt(n, i, c)' => n \in allocated \/ n = NewNode
    BY <1>1 DEF ChildAt
  <2>5. \A n, i, c : ChildAt(n, i, c) => n \in allocated
    BY DEF ChildAt
  <2> QED
    BY <1>2, <1>3, <2>1, <2>2, <2>3, <2>4, <2>5
<1>9. KeysAscend'
  BY <1>1, <1>2, <1>5 DEF SearchInv, KeysAscend
<1>10. Filled'
  <2>1. \A n : n = Parent \/ n = NewNode => KeysEnough(n)'
    BY <1>2, <1>4, <1>5, LeastSizes DEF KeysEnough
  <2>2. \A n \in allocated : n # root /\ n # Parent => KeysEnough(n)'
    BY <1>2 DEF SearchInv, Filled, KeysEnough
  <2>3. \A n \in allocated' : n # root' => KeysEnough(n)'
    BY <1>1, <2>1, <2>2
  <2>4. KeysEnough(cur)'
    BY <1>1, <2>1 DEF KeysEnough
  <2> QED
    BY <2>3, <2>4 DEF Filled
<1>11. OneParent'
  <2>1. /\ \A i, j \in DOMAIN NewParentChildren : NewParentChildren[i] = NewParentChildren[j] => i = j
        /\ \A i \in DOMAIN NewParentChildren : NewParentChildren[i] # root
        /\ \A i \in DOMAIN NewParentChildren : \A n, j :
             n # Parent => ~ChildAt(n, j, NewParentChildren[i])
    BY <1>1, ParentLinks DEF SearchInv
  <2>2. \A n, i, c : ChildAt(n, i, c)' =>
          \/ n # Parent /\ ChildAt(n, i, c)
          \/ \E j \in DOMAIN NewParentChildren :
               /\ NewParentChildren[j] = c
               /\ \/ n = Parent /\ i \in 1 .. SplitIndex + 1 /\ j = i
                  \/ n = NewNode /\ i \in 1 .. TotalCount - SplitIndex /\ j = SplitIndex + 1 + i
    BY <1>6, <1>8
  <2>3. \A i \in 1 .. SplitIndex + 1, j \in 1 .. TotalCount - SplitIndex : i # SplitIndex + 1 + j
    BY <1>4
  <2>4. \A i, j \in 1 .. TotalCount - SplitIndex : SplitIndex + 1 + i = SplitIndex + 1 + j => i = j
    BY <1>4
  <2>5. ASSUME NEW n, NEW m, NEW i, NEW j, NEW c, ChildAt(n, i, c)', ChildAt(m, j, c)'
        PROVE  n = m /\ i = j
    <3>1. CASE n # Parent /\ m # Parent /\ ChildAt(n, i, c) /\ ChildAt(m, j, c)
      BY <3>1 DEF SearchInv, OneParent
    <3>2. CASE \E a \in DOMAIN NewParentChildren :
                 /\ NewParentChildren[a] = c
                 /\ \/ n = Parent /\ i \in 1 .. SplitIndex + 1 /\ a = i
                    \/ n = NewNode /\ i \in 1 .. TotalCount - SplitIndex /\ a = SplitIndex + 1 + i
      <4>1. PICK a \in DOMAIN NewParentChildren :
                 /\ NewParentChildren[a] = c
                 /\ \/ n = Parent /\ i \in 1 .. SplitIndex + 1 /\ a = i
                    \/ n = NewNode /\ i \in 1 .. TotalCount - SplitIndex /\ a = SplitIndex + 1 + i
        BY <3>2
      <4>2. ~(m # Parent /\ ChildAt(m, j, c))
        BY <2>1, <4>1
      <4>3. PICK b \in DOMAIN NewParentChildren :
                 /\ NewParentChildren[b] = c
                 /\ \/ m = Parent /\ j \in 1 .. SplitIndex + 1 /\ b = j
                    \/ m = NewNode /\ j \in 1 .. TotalCount - SplitIndex /\ b = SplitIndex + 1 + j
        BY <2>2, <2>5, <4>2
      <4>4. a = b
        BY <2>1, <4>1, <4>3
      <4> QED
        BY <2>3, <2>4, <4>1, <4>3, <4>4
    <3>3. CASE \E b \in DOMAIN NewParentChildren :
                 /\ NewParentChildren[b] = c
                 /\ \/ m = Parent /\ j \in 1 .. SplitIndex + 1 /\ b = j
                    \/ m = NewNode /\ j \in 1 .. TotalCount - SplitIndex /\ b = SplitIndex + 1 + j
      <4>1. PICK b \in DOMAIN NewParentChildren :
                 /\ NewParentChildren[b] = c
                 /\ \/ m = Parent /\ j \in 1 .. SplitIndex + 1 /\ b = j
                    \/ m = NewNode /\ j \in 1 .. TotalCount - SplitIndex /\ b = SplitIndex + 1 + j
        BY <3>3
      <4>2. ~(n # Parent /\ ChildAt(n, i, c))
        BY <2>1, <4>1
      <4>3. PICK a \in DOMAIN NewParentChildren :
                 /\ NewParentChildren[a] = c
                 /\ \/ n = Parent /\ i \in 1 .. SplitIndex + 1 /\ a = i
                    \/ n = NewNode /\ i \in 1 .. TotalCount - SplitIndex /\ a = SplitIndex + 1 + i
        BY <2>2, <2>5, <4>2
      <4>4. a = b
        BY <2>1, <4>1, <4>3
      <4> QED
        BY <2>3, <2>4, <4>1, <4>3, <4>4
    <3> QED
      BY <2>2, <2>5, <3>1, <3>2, <3>3
  <2>6. NoParent(root) /\ NewNode # root
    BY <1>2, NodesAssumption DEF SearchInv, OneParent, TreeInv, TypeOK
  <2>7. \A n, i, c : c = root => ~ChildAt(n, i, c)'
    BY <2>1, <2>2, <2>6 DEF NoParent
  <2>8. \A n, i, c : c = NewNode => ~ChildAt(n, i, c)'
    <3>1. \A n, i : ~ChildAt(n, i, NewNode)
      BY <1>2, ChildFacts DEF SearchInv
    <3> QED
      BY <1>2, <1>3, <2>2, <3>1
  <2>9. \A n, i : ~ChildAt(n, i, root)' /\ ~ChildAt(n, i, up.right)'
    BY <1>1, <1>7, <2>7, <2>8
  <2> QED
    BY <1>1, <1>7, <2>5, <2>6, <2>9 DEF OneParent, NoParent
<1>12. /\ path \in Seq([node : Nodes, position : Nat])
       /\ Len(path) \in Nat \ {0} /\ DOMAIN path = 1 .. Len(path)
       /\ DOMAIN path' = 1 .. Len(path) - 1 /\ Len(path') = Len(path) - 1
       /\ \A i \in 1 .. Len(path) - 1 : path'[i] = path[i + 1]
       /\ path' \in Seq([node : Nodes, position : Nat])
  <2>1. path \in Seq([node : Nodes, position : Nat])
    BY DEF SearchInv, TreeInv, TypeOK
  <2>2. Len(path) \in Nat \ {0} /\ DOMAIN path = 1 .. Len(path)
    BY <1>1, <2>1, EmptySeq, LenProperties
  <2>3. /\ Tail(path) \in Seq([node : Nodes, position : Nat]) /\ Len(Tail(path)) = Len(path) - 1
        /\ \A i \in 1 .. Len(Tail(path)) : Tail(path)[i] = path[i + 1]
    BY <1>1, <2>1, HeadTailProperties
  <2> QED
    BY <1>1, <2>1, <2>2, <2>3, LenProperties
<1>13. \A i \in DOMAIN path : i # 1 => path[i].node # Parent
  <2>1. 1 \in DOMAIN path
    BY <1>12
  <2>2. NoNodePassedTwice
    BY NodesOnPathDiffer DEF SearchInv
  <2> QED
    BY <2>1, <2>2, Zenon DEF NoNodePassedTwice, Parent
<1>14. PathLinked'
  <2>1. ASSUME NEW i \in DOMAIN path'
        PROVE  \A n, p, c : /\ n = path'[i].node /\ p = path'[i].position
                            /\ c = IF i = 1 THEN cur' ELSE path'[i - 1].node
                            => ChildAt(n, p, c)'
    <3>1. /\ i + 1 \in DOMAIN path /\ i + 1 # 1 /\ (i + 1) - 1 = i /\ i \in Int
          /\ path'[i] = path[i + 1]
      <4>1. i \in 1 .. Len(path) - 1 /\ Len(path) \in Nat
        BY <1>12
      <4>2. path'[i] = path[i + 1]
        BY <1>12, <4>1
      <4>3. i + 1 \in 1 .. Len(path) /\ i + 1 # 1 /\ (i + 1) - 1 = i /\ i \in Int
        BY <4>1
      <4> QED
        BY <1>12, <4>2, <4>3
    <3>2. ChildAt(path[i + 1].node, path[i + 1].position, path[i].node)
      BY <3>1 DEF SearchInv, PathLinked
    <3>3. path[i].node = IF i = 1 THEN cur' ELSE path'[i - 1].node
      <4>1. CASE i = 1
        BY <1>1, <4>1 DEF Parent
      <4>2. CASE i # 1
        <5>1. i \in 1 .. Len(path) - 1 /\ Len(path) \in Nat
          BY <1>12
        <5>2. i - 1 \in 1 .. Len(path) - 1 /\ (i - 1) + 1 = i
          BY <4>2, <5>1
        <5>3. path'[i - 1] = path[i]
          BY <1>12, <5>2
        <5> QED
          BY <4>2, <5>3
      <4> QED
        BY <4>1, <4>2
    <3>4. path[i + 1].node # Parent
      BY <1>13, <3>1
    <3> QED
      BY <1>8, <3>1, <3>2, <3>3, <3>4
  <2> QED
    BY <2>1 DEF PathLinked
<1>15. PICK under \in [Nodes -> SUBSET Int] : Divided(under) /\ CallDivided(under)
  BY DEF SearchInv, KeysDivided
<1>16. /\ \A j \in DOMAIN NewParentKeys : NewParentKeys[j] \in under[Parent]
       /\ \A j \in DOMAIN NewParentChildren :
            \A k \in under[NewParentChildren[j]] : k \in under[Parent] /\ InSlot(NewParentKeys, j, k)
  BY <1>1, <1>15, ParentDivides
<1>17. PICK halves \in [Nodes -> SUBSET Int] : Halved(halves, under, Parent, NewNode, mid)
  BY <1>2, <1>3, <1>5, UnderHalves DEF SearchInv
<1>18. /\ halves[Parent] = {k \in under[Parent] : k < mid}
       /\ halves[NewNode] = {k \in under[Parent] : mid <= k}
       /\ \A n \in allocated : n # Parent => halves[n] = under[n]
       /\ \A n \in allocated : halves[n] \subseteq under[n]
  BY <1>17 DEF Halved
<1>19. \A n \in allocated' : HoldsKeys(halves, n)'
  <2>1. \A n : n = Parent => HoldsKeys(halves, n)'
    <3>1. \A i \in 1 .. SplitIndex : left[i] \in halves[Parent]
      <4>1. \A i \in 1 .. SplitIndex : i \in 1 .. TotalCount
        BY <1>4
      <4> QED
        BY <1>5, <1>16, <1>18, <4>1
    <3> QED
      BY <1>2, <1>5, <3>1 DEF HoldsKeys
  <2>2. \A n : n = NewNode => HoldsKeys(halves, n)'
    <3>1. \A i \in 1 .. TotalCount - SplitIndex - 1 : right[i] \in halves[NewNode]
      <4>1. \A i \in 1 .. TotalCount - SplitIndex - 1 : SplitIndex + 1 + i \in 1 .. TotalCount
        BY <1>4
      <4> QED
        BY <1>5, <1>16, <1>18, <4>1
    <3> QED
      BY <1>2, <1>5, <3>1 DEF HoldsKeys
  <2>3. \A n \in allocated : n # Parent => HoldsKeys(halves, n)'
    BY <1>2, <1>15, <1>18 DEF Divided, HoldsKeys
  <2> QED
    BY <1>1, <2>1, <2>2, <2>3
<1>20. ASSUME NEW n \in allocated', NEW i, NEW c, ChildAt(n, i, c)', NEW k \in halves[c]
       PROVE  k \in halves[n] /\ InSlot(heap'[n].keys, i, k)
  <2>1. CASE n # Parent /\ ChildAt(n, i, c)
    <3>1. n \in allocated /\ c \in allocated
      BY <2>1, ChildFacts DEF SearchInv
    <3>2. k \in under[n] /\ InSlot(heap[n].keys, i, k)
      BY <1>15, <1>18, <1>20, <2>1, <3>1 DEF Divided, DividesKeys
    <3> QED
      BY <1>2, <1>18, <2>1, <3>1, <3>2
  <2>2. CASE n = Parent /\ i \in 1 .. SplitIndex + 1 /\ NewParentChildren[i] = c
    <3>1. i \in DOMAIN NewParentChildren /\ c \in allocated /\ i \in Int
      BY <1>3, <1>4, <1>6, <2>2
    <3>2. k \in under[Parent] /\ InSlot(NewParentKeys, i, k) /\ k \in Int
      BY <1>3, <1>16, <1>18, <1>20, <2>2, <3>1
    <3>3. i \in 1 .. TotalCount /\ k < NewParentKeys[i] /\ (i > 1 => NewParentKeys[i - 1] <= k)
      <4>1. i \in 1 .. TotalCount
        BY <1>4, <2>2
      <4> QED
        BY <1>5, <3>2, <4>1 DEF InSlot
    <3>4. k < mid
      <4>1. CASE i \in 1 .. SplitIndex
        <5>1. NewParentKeys[i] < mid /\ NewParentKeys[i] \in Int
          <6>1. NewParentKeys[i] \in under[Parent]
            BY <1>5, <1>16, <3>3
          <6> QED
            BY <1>3, <1>5, <4>1, <6>1
        <5> QED
          BY <1>5, <3>2, <3>3, <5>1
      <4>2. CASE i = SplitIndex + 1
        BY <3>3, <4>2 DEF mid
      <4> QED
        BY <1>4, <2>2, <4>1, <4>2
    <3>5. InSlot(left, i, k)
      <4>1. i <= SplitIndex => left[i] = NewParentKeys[i]
        BY <1>4, <1>5, <2>2
      <4>2. i > 1 => left[i - 1] = NewParentKeys[i - 1]
        <5>1. i > 1 => i - 1 \in 1 .. SplitIndex
          BY <1>4, <2>2
        <5> QED
          BY <1>5, <5>1
      <4> QED
        BY <1>5, <3>3, <4>1, <4>2 DEF InSlot
    <3> QED
      BY <1>2, <1>18, <2>2, <3>2, <3>4, <3>5
  <2>3. CASE n = NewNode /\ i \in 1 .. TotalCount - SplitIndex /\ NewParentChildren[SplitIndex + 1 + i] = c
    <3> DEFINE j == SplitIndex + 1 + i
    <3>1. j \in DOMAIN NewParentChildren /\ c \in allocated /\ i \in Int /\ j \in Int
      BY <1>3, <1>4, <1>6, <2>3
    <3>2. k \in under[Parent] /\ InSlot(NewParentKeys, j, k) /\ k \in Int
      <4> HIDE DEF j
      <4>1. NewParentChildren[j] = c
        BY <2>3 DEF j
      <4> QED
        BY <1>3, <1>16, <1>18, <1>20, <3>1, <4>1
    <3>3. /\ j > 1 /\ j - 1 = SplitIndex + i /\ SplitIndex + i \in 1 .. TotalCount
          /\ NewParentKeys[SplitIndex + i] <= k
      BY <1>4, <2>3, <3>1, <3>2 DEF InSlot
    <3>4. j <= TotalCount => k < NewParentKeys[j]
      BY <1>5, <3>2 DEF InSlot
    <3>5. mid <= k
      <4>1. mid <= NewParentKeys[SplitIndex + i] /\ NewParentKeys[SplitIndex + i] \in Int
        <5>1. NewParentKeys[SplitIndex + i] \in Int
          <6>1. NewParentKeys[SplitIndex + i] \in under[Parent]
            BY <1>5, <1>16, <3>3
          <6> QED
            BY <1>3, <6>1
        <5>2. CASE i = 1
          BY <1>5, <5>1, <5>2 DEF mid
        <5>3. CASE i # 1
          <6>1. i - 1 \in 1 .. TotalCount - SplitIndex - 1 /\ SplitIndex + 1 + (i - 1) = SplitIndex + i
            BY <1>4, <2>3, <5>3
          <6> QED
            BY <1>5, <5>1, <6>1
        <5> QED
          BY <5>2, <5>3
      <4> QED
        BY <1>5, <3>2, <3>3, <4>1
    <3>6. InSlot(right, i, k)
      <4>1. i <= TotalCount - SplitIndex - 1 => right[i] = NewParentKeys[j] /\ j <= TotalCount
        BY <1>4, <1>5, <2>3
      <4>2. i > 1 => right[i - 1] = NewParentKeys[SplitIndex + i]
        <5>1. i > 1 => i - 1 \in 1 .. TotalCount - SplitIndex - 1 /\ SplitIndex + 1 + (i - 1) = SplitIndex + i
          BY <1>4, <2>3
        <5> QED
          BY <1>5, <5>1
      <4> HIDE DEF j
      <4> QED
        BY <1>5, <3>3, <3>4, <4>1, <4>2 DEF InSlot
    <3> QED
      BY <1>2, <1>18, <2>3, <3>2, <3>5, <3>6
  <2> QED
    BY <1>8, <1>20, <2>1, <2>2, <2>3
<1>21. Divided(halves)'
  BY <1>19, <1>20 DEF Divided, DividesKeys
<1>22. CallDivided(halves)'
  <2>1. (\A k \in halves[Parent] : k < mid) /\ (\A k \in halves[NewNode] : mid <= k)
    BY <1>18
  <2>2. ASSUME path' # <<>>, NEW k \in halves[NewNode] \cup {mid}
        PROVE  k \in halves[path'[1].node] /\ InSlot(heap'[path'[1].node].keys, path'[1].position, k)
    <3>1. k \in under[Parent]
      <4>1. SplitIndex + 1 \in DOMAIN NewParentKeys
        BY <1>4, <1>5
      <4> QED
        BY <1>16, <1>18, <2>2, <4>1 DEF mid
    <3>2. 1 \in 1 .. Len(path) - 1 /\ 1 + 1 = 2 /\ 2 \in DOMAIN path /\ 2 # 1
      <4>1. Len(path') # 0
        BY <1>12, <2>2, EmptySeq
      <4> QED
        BY <1>12, <4>1
    <3>3. path'[1] = path[2] /\ path[2].node # Parent
      BY <1>12, <1>13, <3>2
    <3>4. ChildAt(path[2].node, path[2].position, Parent)
      <4>1. ChildAt(path[2].node, path[2].position, IF 2 = 1 THEN cur ELSE path[2 - 1].node)
        BY <3>2 DEF SearchInv, PathLinked
      <4>2. 2 - 1 = 1
        OBVIOUS
      <4> QED
        BY <3>2, <4>1, <4>2 DEF Parent
    <3>5. path[2].node \in allocated
      BY <3>4 DEF ChildAt
    <3>6. k \in under[path[2].node] /\ InSlot(heap[path[2].node].keys, path[2].position, k)
      BY <1>15, <3>1, <3>4, <3>5 DEF Divided, DividesKeys
    <3> QED
      BY <1>2, <1>18, <3>3, <3>5, <3>6
  <2>3. cur' = Parent /\ pc' = "ascend"
    BY <1>1
  <2> QED
    BY <1>7, <2>1, <2>2, <2>3 DEF CallDivided, Parent
<1> QED
  BY <1>9, <1>10, <1>11, <1>14, <1>17, <1>21, <1>22 DEF SearchParts, KeysDivided

-----------------------------------------------------------------------------
(* The invariant. *)

LEMMA InitSearchInv == Init => SearchInv
<1> SUFFICES ASSUME Init PROVE SearchInv
  OBVIOUS
<1>1. allocated = {} /\ path = <<>> /\ DOMAIN path = {} /\ pc = "idle"
  BY DEF Init
<1>2. TreeInv
  BY InitTreeInv
<1>3. KeysAscend /\ Filled /\ OneParent /\ PathLinked
  BY <1>1 DEF KeysAscend, Filled, OneParent, NoParent, ChildAt, PathLinked
<1>4. [n \in Nodes |-> {}] \in [Nodes -> SUBSET Int]
  OBVIOUS
<1>5. Divided([n \in Nodes |-> {}]) /\ CallDivided([n \in Nodes |-> {}])
  BY <1>1 DEF Divided, CallDivided
<1> QED
  BY <1>2, <1>3, <1>4, <1>5 DEF SearchInv, KeysDivided

LEMMA NextSearchInv == SearchInv /\ [Next]_vars => SearchInv'
<1> SUFFICES ASSUME SearchInv, [Next]_vars PROVE SearchInv'
  OBVIOUS
<1>1. TreeInv'
  BY NextTreeInv DEF SearchInv
<1>2. SearchParts'
  <2>1. CASE UNCHANGED vars
    <3> USE <2>1 DEF vars, SearchInv
    <3>1. \A n, i, c : ChildAt(n, i, c)' <=> ChildAt(n, i, c)
      BY DEF ChildAt
    <3>2. KeysAscend' /\ Filled'
      BY DEF KeysAscend, Filled, KeysEnough
    <3>3. OneParent'
      BY <3>1 DEF OneParent, NoParent
    <3>4. PathLinked'
      BY <3>1 DEF PathLinked
    <3>5. PICK under \in [Nodes -> SUBSET Int] : Divided(under) /\ CallDivided(under)
      BY DEF KeysDivided
    <3>6. Divided(under)'
      BY <3>1, <3>5 DEF Divided, HoldsKeys, DividesKeys
    <3>7. CallDivided(under)'
      BY <3>5 DEF CallDivided, Parent
    <3> QED
      BY <3>2, <3>3, <3>4, <3>6, <3>7 DEF SearchParts, KeysDivided
  <2>2. CASE \E row \in Rows : InsertCall(row[1], row[2])
    BY <2>2, CallKeepsSearch
  <2>3. CASE CreateRootFails \/ LeafDuplicate \/ LeafSplitFails \/ InternalSplitFails \/ NewRootFails
    BY <2>3, RefusedKeepsSearch
       DEF CreateRootFails, LeafDuplicate, LeafSplitFails, InternalSplitFails, NewRootFails
  <2>4. CASE CreateRoot \/ Descend \/ LeafInsert \/ LeafSplit \/ InternalInsert \/ InternalSplit \/ NewRoot
    BY <2>4, CreateRootKeepsSearch, DescendKeepsSearch, LeafInsertKeepsSearch, LeafSplitKeepsSearch,
       InternalInsertKeepsSearch, InternalSplitKeepsSearch, NewRootKeepsSearch
  <2> QED
    BY <2>1, <2>2, <2>3, <2>4 DEF Next, InsertStep
<1> QED
  BY <1>1, <1>2 DEF SearchInv, SearchParts

LEMMA SearchInvHolds == Spec => []SearchInv
BY InitSearchInv, NextSearchInv, PTL DEF Spec

-----------------------------------------------------------------------------
(* What the recursive functions of BPlusTree compute. *)

\* The nodes that every set with n and the children of its nodes contains.
Closed(T) == T \subseteq allocated /\ \A m \in T : Children(m) \subseteq T
Reached(n) == {m \in allocated : \A T : Closed(T) /\ n \in T => m \in T}

Below(f) == f = [m \in allocated |-> {m} \cup UNION {f[c] : c \in Children(m)}]
Above(f) == f = [m \in allocated |-> IF heap[m].is_leaf THEN 0 ELSE 1 + f[heap[m].children[1]]]

LEMMA ChildrenFacts ==
    ASSUME TreeInv, NEW n \in allocated
    PROVE  /\ Children(n) \subseteq allocated
           /\ \A c : c \in Children(n) <=> \E i : ChildAt(n, i, c)
<1>1. CASE heap[n].is_leaf
  BY <1>1 DEF Children, ChildAt
<1>2. CASE ~heap[n].is_leaf
  <2>1. Children(n) = {heap[n].children[i] : i \in DOMAIN heap[n].children}
    BY <1>2 DEF Children, ToSet
  <2>2. \A i \in DOMAIN heap[n].children : heap[n].children[i] \in allocated
    BY NodeFacts
  <2> QED
    BY <1>2, <2>1, <2>2 DEF ChildAt
<1> QED
  BY <1>1, <1>2

LEMMA BelowExists ==
    ASSUME TreeInv
    PROVE  \E f : Below(f)
<1> DEFINE f == [m \in allocated |-> Reached(m)]
<1>1. \A m \in allocated : Children(m) \subseteq allocated
  BY ChildrenFacts
<1>2. \A m \in allocated : m \in Reached(m)
  BY DEF Reached
<1>3. \A m \in allocated : Closed(Reached(m))
  BY <1>1 DEF Closed, Reached
<1>4. ASSUME NEW m \in allocated
      PROVE  Reached(m) = {m} \cup UNION {f[c] : c \in Children(m)}
  <2> DEFINE U == {m} \cup UNION {f[c] : c \in Children(m)}
  <2>1. \A x : x \in U <=> x = m \/ \E c \in Children(m) : x \in Reached(c)
    BY <1>1
  <2> HIDE DEF U
  <2>2. Closed(U)
    <3>1. U \subseteq allocated
      BY <1>1, <2>1 DEF Reached
    <3>2. ASSUME NEW x \in U, NEW y \in Children(x) PROVE y \in U
      <4>1. CASE x = m
        BY <1>1, <1>2, <2>1, <3>2, <4>1
      <4>2. CASE \E c \in Children(m) : x \in Reached(c)
        BY <1>1, <1>3, <2>1, <3>2, <4>2 DEF Closed
      <4> QED
        BY <2>1, <4>1, <4>2
    <3> QED
      BY <3>1, <3>2 DEF Closed
  <2>3. Reached(m) \subseteq U
    BY <2>1, <2>2 DEF Reached
  <2>4. U \subseteq Reached(m)
    <3>1. ASSUME NEW c \in Children(m), NEW x \in Reached(c), NEW T, Closed(T), m \in T
          PROVE  x \in T
      BY <3>1 DEF Closed, Reached
    <3> QED
      BY <1>1, <1>2, <2>1, <3>1 DEF Reached
  <2> QED
    BY <2>3, <2>4 DEF U
<1>5. f = [m \in allocated |-> {m} \cup UNION {f[c] : c \in Children(m)}]
  BY <1>4
<1> QED
  BY <1>5 DEF Below

LEMMA AboveExists ==
    ASSUME TreeInv
    PROVE  \E f : Above(f)
<1>1. PICK level \in [Nodes -> Nat] : LeavesAtBottom(level) /\ ChildrenBelow(level)
  BY DEF TreeInv, Leveled
<1> DEFINE f == [m \in allocated |-> level[m]]
<1>2. ASSUME NEW m \in allocated
      PROVE  level[m] = IF heap[m].is_leaf THEN 0 ELSE 1 + f[heap[m].children[1]]
  <2>1. CASE heap[m].is_leaf
    BY <1>1, <2>1 DEF LeavesAtBottom
  <2>2. CASE ~heap[m].is_leaf
    <3>1. 1 \in DOMAIN heap[m].children /\ heap[m].children[1] \in allocated
      BY <2>2, NodeFacts
    <3>2. level[heap[m].children[1]] + 1 = level[m]
      BY <1>1, <2>2, <3>1 DEF ChildrenBelow
    <3>3. level[heap[m].children[1]] \in Nat /\ level[m] \in Nat
      BY <1>1, <3>1 DEF TreeInv, TypeOK
    <3>4. f[heap[m].children[1]] = level[heap[m].children[1]]
      BY <3>1
    <3> QED
      BY <2>2, <3>2, <3>3, <3>4
  <2> QED
    BY <2>1, <2>2
<1>3. f = [m \in allocated |-> IF heap[m].is_leaf THEN 0 ELSE 1 + f[heap[m].children[1]]]
  BY <1>2
<1> QED
  BY <1>3 DEF Above

BelowFunction == CHOOSE f : Below(f)
AboveFunction == CHOOSE f : Above(f)

LEMMA SubtreeComputed ==
    ASSUME TreeInv
    PROVE  /\ \A n : Subtree(n) = BelowFunction[n]
           /\ \A m \in allocated :
                BelowFunction[m] = {m} \cup UNION {BelowFunction[c] : c \in Children(m)}
<1>1. \A n : Subtree(n) = BelowFunction[n]
  BY DEF Subtree, BelowFunction, Below
<1>2. Below(BelowFunction)
  BY BelowExists DEF BelowFunction
<1> QED
  BY <1>1, <1>2 DEF Below

LEMMA HeightComputed ==
    ASSUME TreeInv
    PROVE  /\ \A n : Height(n) = AboveFunction[n]
           /\ \A m \in allocated :
                AboveFunction[m] = IF heap[m].is_leaf THEN 0
                                   ELSE 1 + AboveFunction[heap[m].children[1]]
<1>1. \A n : Height(n) = AboveFunction[n]
  BY DEF Height, AboveFunction, Above
<1>2. Above(AboveFunction)
  BY AboveExists DEF AboveFunction
<1> QED
  BY <1>1, <1>2 DEF Above

\* What holds of every node when it holds of the nodes at a lower level.
LEMMA ByLevel ==
    ASSUME TreeInv, NEW level \in [Nodes -> Nat], NEW Good,
           \A n \in allocated :
              (\A m \in allocated : level[m] < level[n] => m \in Good) => n \in Good
    PROVE  allocated \subseteq Good
<1> DEFINE Wrong == allocated \ Good
           T == {level[n] : n \in Wrong}
<1> SUFFICES ASSUME Wrong # {} PROVE FALSE
  OBVIOUS
<1>1. \A n \in allocated : level[n] \in Nat
  BY DEF TreeInv, TypeOK
<1>2. T \subseteq Nat /\ T # {}
  BY <1>1
<1>3. PICK l \in T : \A k \in T : l <= k
  <2> HIDE DEF T
  <2> QED
    BY <1>2, Smallest
<1>4. PICK n \in Wrong : level[n] = l
  BY <1>3
<1>5. \A m \in allocated : level[m] < level[n] => m \in Good
  <2> SUFFICES ASSUME NEW m \in allocated, level[m] < level[n], m \notin Good PROVE FALSE
    OBVIOUS
  <2>1. level[m] \in T
    OBVIOUS
  <2>2. l <= level[m]
    BY <1>3, <2>1
  <2> QED
    BY <1>1, <1>4, <2>2
<1> QED
  BY <1>4, <1>5

LEMMA HeightIsLevel ==
    ASSUME TreeInv, NEW level \in [Nodes -> Nat], LeavesAtBottom(level), ChildrenBelow(level)
    PROVE  \A n \in allocated : Height(n) = level[n]
<1> DEFINE Good == {n \in allocated : Height(n) = level[n]}
<1>1. ASSUME NEW n \in allocated, \A m \in allocated : level[m] < level[n] => m \in Good
      PROVE  Height(n) = level[n]
  <2>1. Height(n) = IF heap[n].is_leaf THEN 0 ELSE 1 + Height(heap[n].children[1])
    BY HeightComputed
  <2>2. CASE heap[n].is_leaf
    BY <2>1, <2>2 DEF LeavesAtBottom
  <2>3. CASE ~heap[n].is_leaf
    <3> DEFINE c == heap[n].children[1]
    <3>1. 1 \in DOMAIN heap[n].children /\ c \in allocated
      BY <2>3, NodeFacts
    <3>2. level[c] + 1 = level[n]
      BY <2>3, <3>1 DEF ChildrenBelow
    <3>3. level[c] \in Nat /\ level[n] \in Nat
      BY <3>1 DEF TreeInv, TypeOK
    <3>4. Height(c) = level[c]
      BY <1>1, <3>1, <3>2, <3>3
    <3> QED
      BY <2>1, <2>3, <3>2, <3>3, <3>4
  <2> QED
    BY <2>2, <2>3
<1>2. \A n \in allocated :
         (\A m \in allocated : level[m] < level[n] => m \in Good) => n \in Good
  BY <1>1
<1> HIDE DEF Good
<1>3. allocated \subseteq Good
  BY <1>2, ByLevel
<1> QED
  BY <1>3 DEF Good

\* The keys under a node are among those that the invariant names for it.
LEMMA SubtreeHolds ==
    ASSUME TreeInv, NEW under \in [Nodes -> SUBSET Int], Divided(under)
    PROVE  \A n \in allocated : \A x \in Subtree(n) :
              x \in allocated /\ \A i \in DOMAIN heap[x].keys : heap[x].keys[i] \in under[n]
<1> DEFINE Held(n) == \A x \in Subtree(n) :
                        x \in allocated /\ \A i \in DOMAIN heap[x].keys : heap[x].keys[i] \in under[n]
           Good == {n \in allocated : Held(n)}
<1>1. PICK level \in [Nodes -> Nat] : ChildrenBelow(level)
  BY DEF TreeInv, Leveled
<1>2. ASSUME NEW n \in allocated, \A m \in allocated : level[m] < level[n] => m \in Good,
             NEW x \in Subtree(n)
      PROVE  x \in allocated /\ \A i \in DOMAIN heap[x].keys : heap[x].keys[i] \in under[n]
  <2>1. x = n \/ \E c \in Children(n) : x \in Subtree(c)
    BY SubtreeComputed
  <2>2. CASE x = n
    BY <2>2 DEF Divided, HoldsKeys
  <2>3. CASE \E c \in Children(n) : x \in Subtree(c)
    <3>1. PICK c \in Children(n) : x \in Subtree(c)
      BY <2>3
    <3>2. PICK j : ChildAt(n, j, c)
      BY ChildrenFacts
    <3>3. c \in allocated
      BY <3>2, ChildFacts
    <3>4. level[c] + 1 = level[n]
      BY <1>1, <3>2 DEF ChildrenBelow, ChildAt
    <3>5. level[c] \in Nat /\ level[n] \in Nat
      BY <3>3 DEF TreeInv, TypeOK
    <3>6. Held(c)
      BY <1>2, <3>3, <3>4, <3>5
    <3>7. \A k \in under[c] : k \in under[n]
      BY <3>2 DEF Divided, DividesKeys
    <3> QED
      BY <3>1, <3>6, <3>7
  <2> QED
    BY <2>1, <2>2, <2>3
<1>3. \A n \in allocated :
         (\A m \in allocated : level[m] < level[n] => m \in Good) => n \in Good
  BY <1>2
<1>4. allocated \subseteq Good
  <2> HIDE DEF Good
  <2> QED
    BY <1>3, ByLevel
<1> QED
  BY <1>4

LEMMA KeysUnderHeld ==
    ASSUME TreeInv, NEW under \in [Nodes -> SUBSET Int], Divided(under), NEW n \in allocated
    PROVE  KeysUnder(n) \subseteq under[n]
BY SubtreeHolds DEF KeysUnder, ToSet

-----------------------------------------------------------------------------
(* The nodes below the root are a B+ tree. *)

LEMMA SearchInvSeparates ==
    ASSUME SearchInv, NEW n \in allocated, ~heap[n].is_leaf
    PROVE  SubtreesSeparated(n)
<1>1. TreeInv
  BY DEF SearchInv
<1>2. PICK under \in [Nodes -> SUBSET Int] : Divided(under)
  BY DEF SearchInv, KeysDivided
<1>3. /\ Len(heap[n].children) = Len(heap[n].keys) + 1 /\ Len(heap[n].keys) \in Nat
      /\ DOMAIN heap[n].keys = 1 .. Len(heap[n].keys)
      /\ DOMAIN heap[n].children = 1 .. Len(heap[n].keys) + 1
  BY <1>1, NodeFacts
<1>4. ASSUME NEW i \in DOMAIN heap[n].children, NEW k \in KeysUnder(heap[n].children[i])
      PROVE  InSlot(heap[n].keys, i, k)
  <2>1. ChildAt(n, i, heap[n].children[i])
    BY DEF ChildAt
  <2>2. heap[n].children[i] \in allocated
    BY <1>1, <2>1, ChildFacts
  <2>3. k \in under[heap[n].children[i]]
    BY <1>1, <1>2, <2>2, KeysUnderHeld
  <2> QED
    BY <1>2, <2>1, <2>3 DEF Divided, DividesKeys
<1>5. ASSUME NEW i \in DOMAIN heap[n].keys
      PROVE  /\ \A k \in KeysUnder(heap[n].children[i]) : k < heap[n].keys[i]
             /\ \A k \in KeysUnder(heap[n].children[i + 1]) : k >= heap[n].keys[i]
  <2>1. /\ i \in DOMAIN heap[n].children /\ i + 1 \in DOMAIN heap[n].children
        /\ i <= Len(heap[n].keys) /\ i + 1 > 1 /\ (i + 1) - 1 = i
    BY <1>3
  <2>2. \A k \in KeysUnder(heap[n].children[i]) : k < heap[n].keys[i]
    BY <1>4, <2>1 DEF InSlot
  <2>3. \A k \in KeysUnder(heap[n].children[i + 1]) : heap[n].keys[i] <= k
    BY <1>4, <2>1 DEF InSlot
  <2>4. KeysUnder(heap[n].children[i + 1]) \subseteq Int /\ heap[n].keys[i] \in Int
    BY <1>1, <1>2, <1>3, <2>1, KeysUnderHeld, NodeFacts DEF TreeInv, TypeOK
  <2> QED
    BY <2>2, <2>3, <2>4
<1> QED
  BY <1>3, <1>5 DEF SubtreesSeparated

LEMMA SearchInvLevels ==
    ASSUME SearchInv, NEW n \in allocated
    PROVE  LeavesLevel(n)
<1>1. TreeInv
  BY DEF SearchInv
<1>2. PICK level \in [Nodes -> Nat] : LeavesAtBottom(level) /\ ChildrenBelow(level)
  BY <1>1 DEF TreeInv, Leveled
<1>3. ASSUME NEW c \in Children(n)
      PROVE  Height(c) = Height(n) - 1
  <2>1. PICK j : ChildAt(n, j, c)
    BY <1>1, ChildrenFacts
  <2>2. c \in allocated
    BY <1>1, <2>1, ChildFacts
  <2>3. level[c] + 1 = level[n]
    BY <1>2, <2>1 DEF ChildrenBelow, ChildAt
  <2>4. Height(c) = level[c] /\ Height(n) = level[n]
    BY <1>1, <1>2, <2>2, HeightIsLevel
  <2>5. level[c] \in Nat /\ level[n] \in Nat
    BY <1>1, <2>2 DEF TreeInv, TypeOK
  <2> QED
    BY <2>3, <2>4, <2>5
<1> QED
  BY <1>3 DEF LeavesLevel

LEMMA SearchInvFills ==
    ASSUME SearchInv, NEW n \in allocated
    PROVE  NodeFilled(n)
<1>1. TreeInv /\ Filled
  BY DEF SearchInv
<1>2. Len(heap[n].keys) <= MAX_KEYS /\ Len(heap[n].keys) \in Nat
  BY <1>1, NodeFacts DEF TreeInv, Shapes, NodeShape
<1>3. n # root => Len(heap[n].keys) >= IF heap[n].is_leaf THEN LeastInLeaf ELSE LeastInternal
  BY <1>1 DEF Filled, KeysEnough
<1> DEFINE least == IF n = root THEN 0 ELSE IF heap[n].is_leaf THEN LeastInLeaf ELSE LeastInternal
<1>4. least \in Nat /\ least <= Len(heap[n].keys)
  BY <1>2, <1>3, LeastSizes
<1>5. MAX_KEYS \in Int
  BY OrderAssumption DEF MAX_KEYS
<1>6. Len(heap[n].keys) \in least .. MAX_KEYS
  BY <1>2, <1>4, <1>5
<1> QED
  BY <1>6 DEF NodeFilled, LeastInLeaf, LeastInternal

(* SearchTree, for every order, every set of rows and every allocation that fails: *)
(* at every step of bptree_insert the nodes below the root are neither over- nor   *)
(* underfull, each separator divides the keys of its two subtrees, and all leaves  *)
(* lie at one depth (bptree.c:132-327).                                            *)
THEOREM TreeIsSearchTree == Spec => []SearchTree
<1>1. SearchInv => SearchTree
  <2> SUFFICES ASSUME SearchInv, root # Nil, NEW n \in Subtree(root)
               PROVE  /\ NodeFilled(n)
                      /\ heap[n].is_leaf => Len(heap[n].offsets) = Len(heap[n].keys)
                      /\ ~heap[n].is_leaf => SubtreesSeparated(n) /\ LeavesLevel(n)
    BY DEF SearchTree
  <2>1. TreeInv
    BY DEF SearchInv
  <2>2. root \in allocated
    BY <2>1 DEF TreeInv, TypeOK
  <2>3. n \in allocated
    BY <2>1, <2>2, SubtreeHolds DEF SearchInv, KeysDivided
  <2>4. heap[n].is_leaf => Len(heap[n].offsets) = Len(heap[n].keys)
    BY <2>1, <2>3 DEF TreeInv, Shapes, NodeShape
  <2> QED
    BY <2>3, <2>4, SearchInvFills, SearchInvSeparates, SearchInvLevels
<1> QED
  BY <1>1, SearchInvHolds, PTL
============================================================================
