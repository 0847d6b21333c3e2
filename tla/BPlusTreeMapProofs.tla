--------------------------- MODULE BPlusTreeMapProofs ---------------------------
(***************************************************************************)
(* The tree as the map of PkIndex.  Three parts, each on the one before:   *)
(*                                                                         *)
(* The chain.  The leaf chain and the leaves hold the same data, and no    *)
(* step loses an entry of it, for any order, any rows and any failure of   *)
(* an allocation.  Chain is a walk along next pointers that starts where   *)
(* first children lead to, so what it holds after a step is a matter of    *)
(* the whole heap.  The invariant names a sequence that holds every leaf   *)
(* once in the order of the next pointers, and gives each node the leaf it *)
(* leads to; then an entry is in Chain when it is in some leaf             *)
(* (ChainStores), and each step is looked at for what it does to the       *)
(* leaves.                                                                 *)
(*                                                                         *)
(* The map.  That an insertion meets its key in the leaf it reaches if the *)
(* key is anywhere in the tree needs more than the search tree: no leaf    *)
(* may hold a key that a search looks for elsewhere.  The invariant gives  *)
(* each node the set of keys that a search brings there, its `range': the  *)
(* whole of the integers for the root, and for a child what the separators *)
(* send there.  The ranges of the leaves follow one another along the      *)
(* chain, and a leaf holds only keys of its range.  A half that stays      *)
(* without a parent is on the chain and in no range of the root's: there a *)
(* key is stored and not found, and enters again.  So this part assumes    *)
(* that the parents of a split get their memory.                           *)
(*                                                                         *)
(* The answers.  Between two calls the search and the visits give what the *)
(* map would, under the same assumption.                                   *)
(***************************************************************************)
EXTENDS BPlusTreeProofs, FiniteSetTheorems

Leaf(n) == n \in allocated /\ heap[n].is_leaf

\* The leaves, each once, in the order of their next pointers (bptree.c:182-183).
Linked(chain) ==
    /\ \A n : Leaf(n) <=> \E i \in DOMAIN chain : chain[i] = n
    /\ \A i, j \in DOMAIN chain : chain[i] = chain[j] => i = j
    /\ \A i \in DOMAIN chain : heap[chain[i]].next = IF i = Len(chain) THEN Nil ELSE chain[i + 1]
    /\ \A n \in allocated : ~heap[n].is_leaf => heap[n].next = Nil

\* The leaf that first children lead to, from every node, and from the root the first
\* of the chain.
LeftDown(left) ==
    \A n \in allocated : left[n] = IF heap[n].is_leaf THEN n ELSE left[heap[n].children[1]]
StartsLeft(chain, left) ==
    IF root = Nil THEN allocated = {} ELSE chain # <<>> /\ chain[1] = left[root]

Chained(chain) ==
    /\ Linked(chain)
    /\ \E left \in [Nodes -> Nodes] : LeftDown(left) /\ StartsLeft(chain, left)

ChainInv == \E chain \in Seq(Nodes) : Chained(chain)

-----------------------------------------------------------------------------
(* The chain after a step. *)

\* What a node that is not split keeps.
KeepsLinks(n) ==
    /\ heap'[n].is_leaf <=> heap[n].is_leaf
    /\ heap'[n].next = heap[n].next
    /\ ~heap[n].is_leaf => heap'[n].children[1] = heap[n].children[1]

LEMMA SameLinks ==
    ASSUME TreeInv, NEW chain \in Seq(Nodes), Chained(chain),
           allocated' = allocated, root' = root, \A n \in allocated : KeepsLinks(n)
    PROVE  Chained(chain)'
<1>1. \A n : Leaf(n)' <=> Leaf(n)
  BY DEF Leaf, KeepsLinks
<1>2. \A i \in DOMAIN chain : Leaf(chain[i])
  BY DEF Chained, Linked
<1>3. Linked(chain)'
  BY <1>1, <1>2 DEF Chained, Linked, KeepsLinks, Leaf
<1>4. PICK left \in [Nodes -> Nodes] : LeftDown(left) /\ StartsLeft(chain, left)
  BY DEF Chained
<1>5. LeftDown(left)' /\ StartsLeft(chain, left)'
  BY <1>4 DEF LeftDown, StartsLeft, KeepsLinks
<1> QED
  BY <1>3, <1>5 DEF Chained

\* A new internal node is not on the chain, and the way left goes on below it.
LEMMA NewInternalLinks ==
    ASSUME TreeInv, NEW chain \in Seq(Nodes), Chained(chain), NEW new \in Nodes,
           new \notin allocated, allocated' = allocated \cup {new}, new # Nil,
           \A n \in allocated : KeepsLinks(n),
           ~heap'[new].is_leaf, heap'[new].next = Nil, heap'[new].children[1] \in allocated,
           root # Nil, root \in allocated, root' = root \/ (root' = new /\ heap'[new].children[1] = root)
    PROVE  Chained(chain)'
<1>1. \A n : Leaf(n)' <=> Leaf(n)
  BY DEF Leaf, KeepsLinks
<1>2. \A i \in DOMAIN chain : Leaf(chain[i])
  BY DEF Chained, Linked
<1>3. Linked(chain)'
  BY <1>1, <1>2 DEF Chained, Linked, KeepsLinks, Leaf
<1>4. PICK left \in [Nodes -> Nodes] : LeftDown(left) /\ StartsLeft(chain, left)
  BY DEF Chained
<1>5. PICK longer \in [Nodes -> Nodes] :
        longer[new] = left[heap'[new].children[1]] /\ \A n \in allocated : longer[n] = left[n]
  <2> DEFINE longer == [left EXCEPT ![new] = left[heap'[new].children[1]]]
  <2>1. /\ longer \in [Nodes -> Nodes] /\ longer[new] = left[heap'[new].children[1]]
        /\ \A n \in allocated : longer[n] = left[n]
    BY DEF TreeInv, TypeOK
  <2> QED
    BY <2>1
<1>6. \A n \in allocated : ~heap[n].is_leaf => heap[n].children[1] \in allocated
  BY NodeFacts
<1>7. LeftDown(longer)'
  <2>1. \A n \in allocated :
          longer[n] = IF heap'[n].is_leaf THEN n ELSE longer[heap'[n].children[1]]
    BY <1>4, <1>5, <1>6 DEF LeftDown, KeepsLinks
  <2>2. longer[new] = longer[heap'[new].children[1]]
    BY <1>5
  <2> QED
    BY <2>1, <2>2 DEF LeftDown
<1>8. StartsLeft(chain, longer)'
  BY <1>4, <1>5 DEF StartsLeft
<1> QED
  BY <1>3, <1>7, <1>8 DEF Chained

\* all is s with e at place q.
Widened(all, s, q, e, S) ==
    /\ all \in Seq(S) /\ Len(all) = Len(s) + 1 /\ DOMAIN all = 1 .. Len(s) + 1
    /\ \A j \in 1 .. Len(s) + 1 :
         all[j] = IF j < q THEN s[j] ELSE IF j = q THEN e ELSE s[j - 1]

LEMMA InsertWidens ==
    ASSUME NEW S, NEW s \in Seq(S), NEW q \in 1 .. Len(s) + 1, NEW e \in S
    PROVE  Widened(InsertAt(s, q, e), s, q, e, S)
<1>1. /\ InsertAt(s, q, e) \in Seq(S) /\ Len(InsertAt(s, q, e)) = Len(s) + 1
      /\ DOMAIN InsertAt(s, q, e) = 1 .. Len(s) + 1
  BY InsertedAt
<1>2. \A j \in 1 .. Len(s) + 1 :
        InsertAt(s, q, e)[j] = IF j < q THEN s[j] ELSE IF j = q THEN e ELSE s[j - 1]
  BY InsertedAt
<1> QED
  BY <1>1, <1>2 DEF Widened

\* The right half of a split leaf comes after the left one.
LEMMA SplitLeafLinks ==
    ASSUME TreeInv, NEW chain \in Seq(Nodes), Chained(chain), LeafSplit,
           NEW p \in DOMAIN chain, chain[p] = cur
    PROVE  \A longer : longer = InsertAt(chain, p + 1, NewNode) => longer \in Seq(Nodes) /\ Chained(longer)'
<1> DEFINE L == Len(chain)
<1>1. /\ allocated' = allocated \cup {NewNode} /\ root' = root
      /\ NewNode \notin allocated /\ NewNode \in Nodes /\ NewNode # Nil
      /\ cur \in allocated /\ heap[cur].is_leaf
  BY NewNodeIsNew, LeafEntry DEF LeafSplit, AtLeaf
<1>2. /\ heap'[cur].is_leaf /\ heap'[NewNode].is_leaf
      /\ heap'[cur].next = NewNode /\ heap'[NewNode].next = heap[cur].next
      /\ \A n \in allocated : n # cur => heap'[n] = heap[n]
  <2>1. heap \in [Nodes -> NodeRecords] /\ heap[cur] \in NodeRecords /\ allocated \subseteq Nodes
    BY <1>1 DEF TreeInv, TypeOK
  <2> DEFINE left == [heap[cur] EXCEPT !.keys = SubSeq(NewLeafKeys, 1, SplitIndex),
                                       !.offsets = SubSeq(NewLeafOffsets, 1, SplitIndex),
                                       !.next = NewNode]
  <2>2. heap' = [[heap EXCEPT ![cur] = left] EXCEPT ![NewNode] = RightLeaf]
    BY <1>1, <2>1 DEF LeafSplit
  <2>3. left.next = NewNode /\ RightLeaf.next = heap[cur].next
    BY <2>1 DEF NodeRecords, RightLeaf
  <2> HIDE DEF left
  <2>4. heap'[cur] = left /\ heap'[NewNode] = RightLeaf
    BY <1>1, <2>1, <2>2
  <2> QED
    BY <2>3, <2>4, LeafSplitNodes
<1> SUFFICES ASSUME NEW longer, longer = InsertAt(chain, p + 1, NewNode)
             PROVE  longer \in Seq(Nodes) /\ Chained(longer)'
  OBVIOUS
<1>3. L \in Nat /\ DOMAIN chain = 1 .. L /\ p \in 1 .. L /\ p + 1 \in 1 .. L + 1
  BY LenProperties
<1>4. /\ longer \in Seq(Nodes) /\ Len(longer) = L + 1 /\ DOMAIN longer = 1 .. L + 1
      /\ \A j \in 1 .. L + 1 :
           longer[j] = IF j < p + 1 THEN chain[j] ELSE IF j = p + 1 THEN NewNode ELSE chain[j - 1]
  <2>1. p + 1 \in 1 .. Len(chain) + 1
    BY <1>3
  <2>2. Widened(InsertAt(chain, p + 1, NewNode), chain, p + 1, NewNode, Nodes)
    BY <1>1, <2>1, InsertWidens
  <2>3. Widened(longer, chain, p + 1, NewNode, Nodes)
    BY <2>2
  <2> QED
    BY <2>3 DEF Widened
<1> HIDE DEF L
<1>5. /\ \A i \in 1 .. L : i <= p => longer[i] = chain[i] /\ i \in 1 .. L + 1
      /\ \A i \in 1 .. L : i > p => longer[i + 1] = chain[i] /\ i + 1 \in 1 .. L + 1
      /\ longer[p + 1] = NewNode
  <2>1. ASSUME NEW i \in 1 .. L, i <= p PROVE longer[i] = chain[i] /\ i \in 1 .. L + 1
    BY <1>3, <1>4, <2>1
  <2>2. ASSUME NEW i \in 1 .. L, i > p PROVE longer[i + 1] = chain[i] /\ i + 1 \in 1 .. L + 1
    <3>1. i + 1 \in 1 .. L + 1 /\ ~(i + 1 < p + 1) /\ i + 1 # p + 1 /\ (i + 1) - 1 = i
      BY <1>3, <2>2
    <3> QED
      BY <1>4, <3>1
  <2>3. longer[p + 1] = NewNode
    <3>1. ~(p + 1 < p + 1)
      BY <1>3
    <3> QED
      BY <1>3, <1>4, <3>1
  <2> QED
    BY <2>1, <2>2, <2>3
<1>6. \A j \in 1 .. L + 1 :
        \/ j \in 1 .. L /\ j <= p
        \/ j = p + 1
        \/ \E i \in 1 .. L : i > p /\ j = i + 1
  <2> SUFFICES ASSUME NEW j \in 1 .. L + 1, ~(j \in 1 .. L /\ j <= p), j # p + 1
               PROVE  \E i \in 1 .. L : i > p /\ j = i + 1
    OBVIOUS
  <2>1. j - 1 \in 1 .. L /\ j - 1 > p /\ j = (j - 1) + 1
    BY <1>3
  <2> QED
    BY <2>1
<1>7. \A i \in 1 .. L : Leaf(chain[i]) /\ chain[i] # NewNode
  BY <1>1, <1>3 DEF Chained, Linked, Leaf
<1>8. \A n : Leaf(n)' <=> Leaf(n) \/ n = NewNode
  BY <1>1, <1>2 DEF Leaf
<1>9. \A n : Leaf(n)' <=> \E i \in DOMAIN longer : longer[i] = n
  <2>1. \A n : Leaf(n) <=> \E i \in 1 .. L : chain[i] = n
    BY <1>3 DEF Chained, Linked
  <2>2. ASSUME NEW i \in 1 .. L PROVE \E j \in 1 .. L + 1 : longer[j] = chain[i]
    <3>1. i <= p \/ i > p
      BY <1>3
    <3> QED
      BY <1>5, <3>1
  <2>3. p + 1 \in 1 .. L + 1
    BY <1>3
  <2>4. \A j \in 1 .. L + 1 : longer[j] = NewNode \/ \E i \in 1 .. L : longer[j] = chain[i]
    BY <1>5, <1>6
  <2>5. ASSUME NEW n, Leaf(n)' PROVE \E i \in 1 .. L + 1 : longer[i] = n
    BY <1>5, <1>8, <2>1, <2>2, <2>3, <2>5, Zenon
  <2>6. ASSUME NEW n, NEW i \in 1 .. L + 1, longer[i] = n PROVE Leaf(n)'
    BY <1>8, <2>1, <2>4, <2>6, Zenon
  <2> QED
    BY <1>4, <2>5, <2>6, Zenon
<1>10. \A i, j \in 1 .. L : chain[i] = chain[j] => i = j
  BY <1>3 DEF Chained, Linked
<1>11. \A i, j \in DOMAIN longer : longer[i] = longer[j] => i = j
  <2> SUFFICES ASSUME NEW i \in 1 .. L + 1, NEW j \in 1 .. L + 1, longer[i] = longer[j] PROVE i = j
    BY <1>4
  <2>1. \A a, b \in 1 .. L : a <= p /\ b > p => a # b
    BY <1>3
  <2> QED
    BY <1>5, <1>6, <1>7, <1>10, <2>1
<1>12. \A i \in 1 .. L : heap[chain[i]].next = IF i = L THEN Nil ELSE chain[i + 1]
  BY <1>3 DEF Chained, Linked, L
<1>13. \A i \in 1 .. L + 1 : heap'[longer[i]].next = IF i = L + 1 THEN Nil ELSE longer[i + 1]
  <2> SUFFICES ASSUME NEW i \in 1 .. L + 1
               PROVE  heap'[longer[i]].next = IF i = L + 1 THEN Nil ELSE longer[i + 1]
    OBVIOUS
  <2>1. ASSUME i \in 1 .. L, i < p
        PROVE  heap'[longer[i]].next = IF i = L + 1 THEN Nil ELSE longer[i + 1]
    <3>1. i + 1 \in 1 .. L /\ i + 1 <= p /\ i # L /\ i # L + 1 /\ i # p /\ i <= p
      BY <1>3, <2>1
    <3>2. longer[i] = chain[i] /\ longer[i + 1] = chain[i + 1]
      BY <1>5, <2>1, <3>1
    <3>3. heap'[chain[i]] = heap[chain[i]]
      BY <1>2, <1>3, <1>7, <1>10, <2>1, <3>1 DEF Leaf
    <3> QED
      BY <1>12, <2>1, <3>1, <3>2, <3>3
  <2>2. ASSUME i = p
        PROVE  heap'[longer[i]].next = IF i = L + 1 THEN Nil ELSE longer[i + 1]
    <3>1. longer[p] = cur /\ p # L + 1
      BY <1>3, <1>5
    <3> QED
      BY <1>2, <1>5, <2>2, <3>1
  <2>3. ASSUME i = p + 1
        PROVE  heap'[longer[i]].next = IF i = L + 1 THEN Nil ELSE longer[i + 1]
    <3>1. heap'[longer[i]].next = IF p = L THEN Nil ELSE chain[p + 1]
      BY <1>2, <1>3, <1>5, <1>12, <2>3
    <3>2. p # L => longer[i + 1] = chain[p + 1]
      <4> SUFFICES ASSUME p # L PROVE longer[i + 1] = chain[p + 1]
        OBVIOUS
      <4>1. p + 1 \in 1 .. L /\ p + 1 > p
        BY <1>3
      <4> QED
        BY <1>5, <2>3, <4>1
    <3>3. p = L <=> i = L + 1
      BY <1>3, <2>3
    <3> QED
      BY <3>1, <3>2, <3>3
  <2>4. ASSUME NEW a \in 1 .. L, a > p, i = a + 1
        PROVE  heap'[longer[i]].next = IF i = L + 1 THEN Nil ELSE longer[i + 1]
    <3>1. longer[i] = chain[a] /\ a # p
      BY <1>3, <1>5, <2>4
    <3>2. heap'[chain[a]] = heap[chain[a]]
      BY <1>2, <1>3, <1>7, <1>10, <3>1 DEF Leaf
    <3>3. heap'[longer[i]].next = IF a = L THEN Nil ELSE chain[a + 1]
      BY <1>12, <3>1, <3>2
    <3>4. a # L => longer[i + 1] = chain[a + 1]
      <4> SUFFICES ASSUME a # L PROVE longer[i + 1] = chain[a + 1]
        OBVIOUS
      <4>1. a + 1 \in 1 .. L /\ a + 1 > p
        BY <1>3, <2>4
      <4> QED
        BY <1>5, <2>4, <4>1
    <3>5. a = L <=> i = L + 1
      BY <1>3, <2>4
    <3> QED
      BY <3>3, <3>4, <3>5
  <2>5. i < p \/ i >= p
    BY <1>3
  <2>6. i \in 1 .. L /\ i <= p => i < p \/ i = p
    BY <1>3
  <2> QED
    BY <1>6, <2>1, <2>2, <2>3, <2>4, <2>6
<1>14. \A n \in allocated' : ~heap'[n].is_leaf => heap'[n].next = Nil
  BY <1>1, <1>2 DEF Chained, Linked
<1>15. Linked(longer)'
  BY <1>4, <1>9, <1>11, <1>13, <1>14 DEF Linked
<1>16. PICK left \in [Nodes -> Nodes] : LeftDown(left) /\ StartsLeft(chain, left)
  BY DEF Chained
<1>17. PICK more \in [Nodes -> Nodes] : more[NewNode] = NewNode /\ \A n \in allocated : more[n] = left[n]
  <2> DEFINE more == [left EXCEPT ![NewNode] = NewNode]
  <2>1. /\ more \in [Nodes -> Nodes] /\ more[NewNode] = NewNode
        /\ \A n \in allocated : more[n] = left[n]
    BY <1>1 DEF TreeInv, TypeOK
  <2> QED
    BY <2>1
<1>18. LeftDown(more)'
  <2>1. \A n \in allocated : ~heap[n].is_leaf => heap[n].children[1] \in allocated
    BY NodeFacts
  <2>2. \A n \in allocated :
          more[n] = IF heap'[n].is_leaf THEN n ELSE more[heap'[n].children[1]]
    BY <1>1, <1>2, <1>16, <1>17, <2>1 DEF LeftDown
  <2>3. \A n \in allocated' : more[n] = IF heap'[n].is_leaf THEN n ELSE more[heap'[n].children[1]]
    BY <1>1, <1>2, <1>17, <2>2
  <2> QED
    BY <2>3 DEF LeftDown
<1>19. StartsLeft(longer, more)'
  <2>1. root # Nil /\ root \in allocated
    BY <1>1, <1>16 DEF TreeInv, TypeOK, StartsLeft
  <2>2. longer # <<>> /\ longer[1] = chain[1]
    <3>1. 1 \in 1 .. L /\ 1 <= p /\ Len(longer) # 0
      BY <1>3, <1>4
    <3> QED
      BY <1>4, <1>5, <3>1, EmptySeq
  <2> QED
    BY <1>1, <1>16, <1>17, <2>1, <2>2 DEF StartsLeft
<1> QED
  BY <1>4, <1>15, <1>17, <1>18, <1>19 DEF Chained

\* The first child of a parent stays the first when it takes another.
LEMMA FirstChildStays ==
    ASSUME SearchInv, AtParent
    PROVE  NewParentChildren[1] = heap[Parent].children[1]
<1>1. /\ path[1].position \in 1 .. Len(heap[Parent].keys) + 1
      /\ \A j \in 1 .. Len(heap[Parent].keys) + 2 :
           NewParentChildren[j] = IF j < path[1].position + 1 THEN heap[Parent].children[j]
                                  ELSE IF j = path[1].position + 1 THEN up.right
                                  ELSE heap[Parent].children[j - 1]
  BY ParentPlaces DEF SearchInv
<1>2. Len(heap[Parent].keys) \in Nat
  BY ParentEntry DEF SearchInv
<1>3. 1 \in 1 .. Len(heap[Parent].keys) + 2 /\ 1 < path[1].position + 1
  BY <1>1, <1>2
<1> QED
  BY <1>1, <1>3

LEMMA UnchangedLinks ==
    ASSUME TreeInv, NEW chain \in Seq(Nodes), Chained(chain), UNCHANGED <<heap, allocated, root>>
    PROVE  Chained(chain)'
BY SameLinks DEF KeepsLinks

LEMMA LeafInsertLinks ==
    ASSUME TreeInv, NEW chain \in Seq(Nodes), Chained(chain), LeafInsert
    PROVE  Chained(chain)'
<1>1. /\ heap' = [heap EXCEPT ![cur].keys = NewLeafKeys, ![cur].offsets = NewLeafOffsets]
      /\ allocated' = allocated /\ root' = root
      /\ cur \in allocated /\ heap[cur] \in NodeRecords /\ heap[cur].is_leaf
  BY LeafEntry DEF LeafInsert, AtLeaf
<1>2. heap \in [Nodes -> NodeRecords] /\ allocated \subseteq Nodes
  BY DEF TreeInv, TypeOK
<1>3. heap'[cur] = [heap[cur] EXCEPT !.keys = NewLeafKeys, !.offsets = NewLeafOffsets]
  BY <1>1, <1>2
<1>4. heap'[cur].is_leaf /\ heap'[cur].next = heap[cur].next
  <2>1. heap'[cur].next = heap[cur].next
    <3>1. heap[cur] \in NodeRecords
      BY <1>1
    <3> QED
      BY <1>3, <3>1 DEF NodeRecords
  <2>2. heap'[cur].is_leaf
    BY LeafInsertNodes
  <2> QED
    BY <2>1, <2>2
<1>5. \A n \in allocated : n # cur => heap'[n] = heap[n]
  BY LeafInsertNodes
<1> QED
  BY <1>1, <1>4, <1>5, SameLinks DEF KeepsLinks

LEMMA InternalInsertLinks ==
    ASSUME SearchInv, NEW chain \in Seq(Nodes), Chained(chain), InternalInsert
    PROVE  Chained(chain)'
<1>1. /\ AtParent /\ allocated' = allocated /\ root' = root
      /\ heap' = [heap EXCEPT ![Parent].keys = NewParentKeys, ![Parent].children = NewParentChildren]
  BY DEF InternalInsert
<1>2. /\ Parent \in allocated /\ heap[Parent] \in NodeRecords /\ ~heap[Parent].is_leaf
      /\ heap \in [Nodes -> NodeRecords] /\ allocated \subseteq Nodes
  BY <1>1, ParentEntry DEF SearchInv, TreeInv, TypeOK
<1>3. heap'[Parent] = [heap[Parent] EXCEPT !.keys = NewParentKeys, !.children = NewParentChildren]
  BY <1>1, <1>2
<1>4. /\ ~heap'[Parent].is_leaf /\ heap'[Parent].next = heap[Parent].next
      /\ heap'[Parent].children = NewParentChildren
  BY <1>2, <1>3 DEF NodeRecords
<1>5. NewParentChildren[1] = heap[Parent].children[1]
  BY <1>1, FirstChildStays
<1>6. \A n \in allocated : n # Parent => heap'[n] = heap[n]
  BY InternalInsertNodes DEF SearchInv
<1>7. KeepsLinks(Parent)
  BY <1>2, <1>4, <1>5 DEF KeepsLinks
<1>8. \A n \in allocated : n # Parent => KeepsLinks(n)
  BY <1>6 DEF KeepsLinks
<1>9. \A n \in allocated : KeepsLinks(n)
  BY <1>7, <1>8
<1> QED
  BY <1>1, <1>9, SameLinks DEF SearchInv

LEMMA InternalSplitLinks ==
    ASSUME SearchInv, NEW chain \in Seq(Nodes), Chained(chain), InternalSplit
    PROVE  Chained(chain)'
<1>1. AtParent /\ allocated' = allocated \cup {NewNode} /\ root' = root
  BY DEF InternalSplit
<1>2. /\ Parent \in allocated /\ heap[Parent] \in NodeRecords /\ ~heap[Parent].is_leaf
      /\ heap \in [Nodes -> NodeRecords] /\ allocated \subseteq Nodes
      /\ \A i \in DOMAIN NewParentChildren : NewParentChildren[i] \in allocated
  BY <1>1, ParentEntry DEF SearchInv, TreeInv, TypeOK
<1>3. NewNode \in Nodes /\ NewNode \notin allocated /\ NewNode # Nil
  BY NewNodeIsNew DEF InternalSplit
<1>4. /\ ~heap'[Parent].is_leaf /\ heap'[Parent].children = SubSeq(NewParentChildren, 1, SplitIndex + 1)
      /\ ~heap'[NewNode].is_leaf
      /\ heap'[NewNode].children = SubSeq(NewParentChildren, SplitIndex + 2, TotalCount + 1)
      /\ \A n \in allocated : n # Parent => heap'[n] = heap[n]
  BY InternalSplitNodes DEF SearchInv
<1>5. heap'[Parent].next = heap[Parent].next /\ heap'[NewNode].next = Nil
  <2> DEFINE left == [heap[Parent] EXCEPT !.keys = SubSeq(NewParentKeys, 1, SplitIndex),
                                          !.children = SubSeq(NewParentChildren, 1, SplitIndex + 1)]
  <2>1. heap' = [[heap EXCEPT ![Parent] = left] EXCEPT ![NewNode] = RightInternal]
    BY <1>2, <1>3 DEF InternalSplit
  <2>2. left.next = heap[Parent].next
    BY <1>2 DEF NodeRecords
  <2>3. RightInternal.next = Nil
    BY DEF RightInternal, Blank
  <2> HIDE DEF left
  <2>4. heap'[Parent] = left /\ heap'[NewNode] = RightInternal
    BY <1>2, <1>3, <2>1
  <2> QED
    BY <2>2, <2>3, <2>4
<1>6. heap'[Parent].children[1] = heap[Parent].children[1]
  <2>1. 1 \in 1 .. SplitIndex + 1
    BY Sizes, OrderAssumption DEF MAX_KEYS
  <2>2. SubSeq(NewParentChildren, 1, SplitIndex + 1)[1] = NewParentChildren[1]
    BY <2>1, InternalHalvesChildren
  <2> QED
    BY <1>1, <1>4, <2>2, FirstChildStays
<1>7. heap'[NewNode].children[1] \in allocated
  <2>1. 1 \in 1 .. TotalCount - SplitIndex
    BY Sizes, OrderAssumption DEF MAX_KEYS
  <2>2. /\ SubSeq(NewParentChildren, SplitIndex + 2, TotalCount + 1)[1] = NewParentChildren[SplitIndex + 1 + 1]
        /\ SplitIndex + 1 + 1 \in DOMAIN NewParentChildren
    BY <2>1, InternalHalvesChildren
  <2> QED
    BY <1>2, <1>4, <2>2
<1>8. \A n \in allocated : KeepsLinks(n)
  <2>1. KeepsLinks(Parent)
    BY <1>2, <1>4, <1>5, <1>6 DEF KeepsLinks
  <2>2. \A n \in allocated : n # Parent => KeepsLinks(n)
    BY <1>4 DEF KeepsLinks
  <2> QED
    BY <2>1, <2>2
<1>9. root # Nil /\ root \in allocated
  BY <1>2 DEF SearchInv, TreeInv, TypeOK, Chained, StartsLeft
<1> QED
  BY <1>1, <1>3, <1>4, <1>5, <1>7, <1>8, <1>9, NewInternalLinks DEF SearchInv

LEMMA NewRootLinks ==
    ASSUME SearchInv, NEW chain \in Seq(Nodes), Chained(chain), NewRoot
    PROVE  Chained(chain)'
<1>1. /\ pc = "ascend" /\ path = <<>> /\ allocated' = allocated \cup {NewNode} /\ root' = NewNode
      /\ heap' = [heap EXCEPT ![NewNode] = Top]
  BY DEF NewRoot
<1>2. NewNode \in Nodes /\ NewNode \notin allocated /\ NewNode # Nil
  BY NewNodeIsNew DEF NewRoot
<1>3. root \in allocated /\ root # Nil
  BY <1>1, NodesAssumption DEF SearchInv, TreeInv, TypeOK, CallShape
<1>4. /\ ~heap'[NewNode].is_leaf /\ heap'[NewNode].children = <<root, up.right>>
      /\ \A n \in allocated : heap'[n] = heap[n]
  BY NewRootNodes DEF SearchInv
<1>5. heap'[NewNode].next = Nil
  <2>1. heap'[NewNode] = Top
    BY <1>1, <1>2 DEF SearchInv, TreeInv, TypeOK
  <2> QED
    BY <2>1 DEF Top, Blank
<1>6. heap'[NewNode].children[1] = root
  BY <1>4
<1>7. \A n \in allocated : KeepsLinks(n)
  BY <1>4 DEF KeepsLinks
<1> QED
  BY <1>1, <1>2, <1>3, <1>4, <1>5, <1>6, <1>7, NewInternalLinks DEF SearchInv

\* The first leaf begins the chain.
LEMMA CreateRootLinks ==
    ASSUME TreeInv, NEW chain \in Seq(Nodes), Chained(chain), CreateRoot
    PROVE  /\ chain = <<>>
           /\ \A first : first = <<NewNode>> => first \in Seq(Nodes) /\ Chained(first)'
<1>1. /\ pc = "descend" /\ cur = Nil /\ allocated' = allocated \cup {NewNode} /\ root' = NewNode
      /\ heap' = [heap EXCEPT ![NewNode] = Blank(TRUE)]
  BY DEF CreateRoot
<1>2. NewNode \in Nodes /\ NewNode \notin allocated /\ NewNode # Nil
  BY NewNodeIsNew DEF CreateRoot
<1>3. root = Nil /\ allocated = {}
  BY <1>1 DEF TreeInv, CallShape, Chained, StartsLeft
<1>4. chain = <<>>
  <2>1. \A i \in DOMAIN chain : Leaf(chain[i])
    BY DEF Chained, Linked
  <2>2. \A i \in DOMAIN chain : FALSE
    BY <1>3, <2>1 DEF Leaf
  <2>3. Len(chain) \in Nat /\ DOMAIN chain = 1 .. Len(chain)
    BY LenProperties
  <2>4. Len(chain) = 0
    <3> SUFFICES ASSUME Len(chain) # 0 PROVE FALSE
      OBVIOUS
    <3>1. 1 \in DOMAIN chain
      BY <2>3
    <3> QED
      BY <2>2, <3>1
  <2> QED
    BY <2>4, EmptySeq
<1>5. heap'[NewNode].is_leaf /\ heap'[NewNode].next = Nil
  <2>1. heap'[NewNode] = Blank(TRUE)
    BY <1>1, <1>2 DEF TreeInv, TypeOK
  <2> QED
    BY <2>1 DEF Blank
<1>6. \A n \in allocated' : n = NewNode
  BY <1>1, <1>3
<1> SUFFICES ASSUME NEW first, first = <<NewNode>> PROVE first \in Seq(Nodes) /\ Chained(first)'
  BY <1>4
<1>7. first \in Seq(Nodes) /\ DOMAIN first = {1} /\ Len(first) = 1 /\ first[1] = NewNode /\ first # <<>>
  BY <1>2
<1>8. Linked(first)'
  <2>1. \A n : Leaf(n)' <=> n = NewNode
    BY <1>1, <1>5, <1>6 DEF Leaf
  <2>2. \A n : Leaf(n)' <=> \E i \in DOMAIN first : first[i] = n
    BY <1>7, <2>1
  <2>3. \A i, j \in DOMAIN first : first[i] = first[j] => i = j
    BY <1>7
  <2>4. \A i \in DOMAIN first :
          heap'[first[i]].next = IF i = Len(first) THEN Nil ELSE first[i + 1]
    BY <1>5, <1>7
  <2>5. \A n \in allocated' : ~heap'[n].is_leaf => heap'[n].next = Nil
    BY <1>5, <1>6
  <2> QED
    BY <2>2, <2>3, <2>4, <2>5 DEF Linked
<1>9. LeftDown([n \in Nodes |-> n])'
  BY <1>2, <1>5, <1>6 DEF LeftDown
<1>10. StartsLeft(first, [n \in Nodes |-> n])'
  BY <1>1, <1>2, <1>7 DEF StartsLeft
<1>11. [n \in Nodes |-> n] \in [Nodes -> Nodes]
  OBVIOUS
<1> QED
  BY <1>7, <1>8, <1>9, <1>10, <1>11 DEF Chained

-----------------------------------------------------------------------------
(* The chain at all times. *)

LEMMA InitChainInv == Init => ChainInv
<1> SUFFICES ASSUME Init PROVE ChainInv
  OBVIOUS
<1> DEFINE chain == <<>>
           left == [n \in Nodes |-> n]
<1>1. allocated = {} /\ root = Nil /\ chain \in Seq(Nodes) /\ DOMAIN chain = {} /\ left \in [Nodes -> Nodes]
  BY DEF Init
<1>2. Linked(chain)
  BY <1>1 DEF Linked, Leaf
<1>3. LeftDown(left) /\ StartsLeft(chain, left)
  BY <1>1 DEF LeftDown, StartsLeft
<1> HIDE DEF chain, left
<1>4. Chained(chain)
  BY <1>1, <1>2, <1>3 DEF Chained
<1> QED
  BY <1>1, <1>4 DEF ChainInv

\* A leaf is somewhere on the chain.
LEMMA LeafOnChain ==
    ASSUME TreeInv, NEW chain \in Seq(Nodes), Chained(chain), AtLeaf
    PROVE  \E p \in DOMAIN chain : chain[p] = cur
BY LeafEntry DEF AtLeaf, Leaf, Chained, Linked

LEMMA NextChainInv == SearchInv /\ ChainInv /\ [Next]_vars => ChainInv'
<1> SUFFICES ASSUME SearchInv, ChainInv, [Next]_vars PROVE ChainInv'
  OBVIOUS
<1>1. TreeInv
  BY DEF SearchInv
<1>2. PICK chain \in Seq(Nodes) : Chained(chain)
  BY DEF ChainInv
<1>3. CASE UNCHANGED <<heap, allocated, root>>
  BY <1>1, <1>2, <1>3, UnchangedLinks DEF ChainInv
<1>4. CASE LeafInsert \/ InternalInsert \/ InternalSplit \/ NewRoot
  BY <1>1, <1>2, <1>4, LeafInsertLinks, InternalInsertLinks, InternalSplitLinks, NewRootLinks DEF ChainInv
<1>5. CASE CreateRoot
  BY <1>1, <1>2, <1>5, CreateRootLinks DEF ChainInv
<1>6. CASE LeafSplit
  <2>1. AtLeaf
    BY <1>6 DEF LeafSplit
  <2>2. PICK p \in DOMAIN chain : chain[p] = cur
    BY <1>1, <1>2, <2>1, LeafOnChain
  <2> QED
    BY <1>1, <1>2, <1>6, <2>2, SplitLeafLinks DEF ChainInv
<1> QED
  BY <1>3, <1>4, <1>5, <1>6
     DEF Next, InsertStep, vars, InsertCall, CreateRootFails, Descend, LeafDuplicate, LeafSplitFails,
         InternalSplitFails, NewRootFails

LEMMA ChainInvHolds == Spec => [](SearchInv /\ ChainInv)
BY InitSearchInv, NextSearchInv, InitChainInv, NextChainInv, PTL DEF Spec

-----------------------------------------------------------------------------
(* The walks over the chain. *)

Lefts(f) == f = [n \in allocated |-> IF heap[n].is_leaf THEN n ELSE f[heap[n].children[1]]]
LeftFunction == CHOOSE f : Lefts(f)

\* The search for the leftmost leaf finds the first of the chain.
LEMMA ChainFirst ==
    ASSUME TreeInv, NEW chain \in Seq(Nodes), Chained(chain), root # Nil
    PROVE  chain # <<>> /\ chain[1] = leftmost_leaf
<1>1. PICK left \in [Nodes -> Nodes] : LeftDown(left) /\ StartsLeft(chain, left)
  BY DEF Chained
<1>2. \A n \in allocated : ~heap[n].is_leaf => heap[n].children[1] \in allocated
  BY NodeFacts
<1>3. Lefts(LeftFunction)
  <2> DEFINE f == [n \in allocated |-> left[n]]
  <2>1. f = [n \in allocated |-> IF heap[n].is_leaf THEN n ELSE f[heap[n].children[1]]]
    BY <1>1, <1>2 DEF LeftDown
  <2>2. Lefts(f)
    BY <2>1 DEF Lefts
  <2> QED
    BY <2>2 DEF LeftFunction
<1>4. \A n \in allocated :
        LeftFunction[n] = IF heap[n].is_leaf THEN n ELSE LeftFunction[heap[n].children[1]]
  BY <1>3 DEF Lefts
<1>5. PICK level \in [Nodes -> Nat] : ChildrenBelow(level)
  BY DEF TreeInv, Leveled
<1> DEFINE Good == {n \in allocated : LeftFunction[n] = left[n]}
<1>6. ASSUME NEW n \in allocated, \A m \in allocated : level[m] < level[n] => m \in Good
      PROVE  n \in Good
  <2>1. CASE heap[n].is_leaf
    BY <1>1, <1>4, <2>1 DEF LeftDown
  <2>2. CASE ~heap[n].is_leaf
    <3> DEFINE c == heap[n].children[1]
    <3>1. 1 \in DOMAIN heap[n].children /\ c \in allocated
      BY <2>2, NodeFacts
    <3>2. level[c] + 1 = level[n]
      BY <1>5, <2>2, <3>1 DEF ChildrenBelow
    <3>3. level[c] \in Nat /\ level[n] \in Nat
      BY <3>1 DEF TreeInv, TypeOK
    <3>4. c \in Good
      BY <1>6, <3>1, <3>2, <3>3
    <3> QED
      BY <1>1, <1>4, <2>2, <3>4 DEF LeftDown
  <2> QED
    BY <2>1, <2>2
<1>7. allocated \subseteq Good
  <2> HIDE DEF Good
  <2> QED
    BY <1>6, ByLevel
<1>8. leftmost_leaf = LeftFunction[root]
  BY DEF leftmost_leaf, LeftFunction, Lefts
<1>9. root \in allocated
  BY DEF TreeInv, TypeOK
<1> QED
  BY <1>1, <1>7, <1>8, <1>9 DEF StartsLeft

Rest(s, i) == SubSeq(s, i, Len(s))

LEMMA RestFacts ==
    ASSUME NEW S, NEW s \in Seq(S)
    PROVE  /\ Rest(s, 1) = s /\ Rest(s, Len(s) + 1) = <<>>
           /\ \A i \in 1 .. Len(s) : Rest(s, i) = <<s[i]>> \o Rest(s, i + 1)
<1>1. Len(s) \in Nat /\ DOMAIN s = 1 .. Len(s)
  BY LenProperties
<1>2. ASSUME NEW i \in 1 .. Len(s) + 1
      PROVE  /\ Rest(s, i) \in Seq(S) /\ Len(Rest(s, i)) = Len(s) - i + 1
             /\ \A j \in 1 .. Len(s) - i + 1 : Rest(s, i)[j] = s[i + j - 1]
  <2>1. Len(s) \in i - 1 .. Len(s)
    BY <1>1
  <2> QED
    BY <2>1, Slice DEF Rest
<1>3. Rest(s, 1) = s
  <2>1. 1 \in 1 .. Len(s) + 1 /\ Len(s) - 1 + 1 = Len(s) /\ \A j \in 1 .. Len(s) : 1 + j - 1 = j
    BY <1>1
  <2>2. Rest(s, 1) \in Seq(S) /\ Len(Rest(s, 1)) = Len(s) /\ \A j \in 1 .. Len(s) : Rest(s, 1)[j] = s[j]
    BY <1>2, <2>1
  <2> QED
    BY <2>2, SeqEqual
<1>4. Rest(s, Len(s) + 1) = <<>>
  <2>1. Len(s) + 1 \in 1 .. Len(s) + 1 /\ Len(s) - (Len(s) + 1) + 1 = 0
    BY <1>1
  <2> QED
    BY <1>2, <2>1, EmptySeq
<1>5. ASSUME NEW i \in 1 .. Len(s)
      PROVE  Rest(s, i) = <<s[i]>> \o Rest(s, i + 1)
  <2> DEFINE more == Rest(s, i + 1)
             all == <<s[i]>> \o more
  <2>1. i \in 1 .. Len(s) + 1 /\ i + 1 \in 1 .. Len(s) + 1 /\ Len(s) - (i + 1) + 1 = Len(s) - i
    BY <1>1
  <2>2. s[i] \in S
    BY <1>1, ElementOfSeq
  <2>3. /\ more \in Seq(S) /\ Len(more) = Len(s) - i
        /\ \A j \in 1 .. Len(s) - i : more[j] = s[(i + 1) + j - 1]
    BY <1>2, <2>1
  <2> HIDE DEF more
  <2>4. <<s[i]>> \in Seq(S) /\ Len(<<s[i]>>) = 1 /\ <<s[i]>>[1] = s[i]
    BY <2>2
  <2>5. /\ all \in Seq(S) /\ Len(all) = 1 + Len(more)
        /\ \A j \in 1 .. 1 + Len(more) : all[j] = IF j <= 1 THEN <<s[i]>>[j] ELSE more[j - 1]
    BY <2>3, <2>4, ConcatProperties
  <2> HIDE DEF all
  <2>6. Len(all) = Len(s) - i + 1
    BY <1>1, <2>3, <2>5
  <2>7. ASSUME NEW j \in 1 .. Len(s) - i + 1 PROVE all[j] = s[i + j - 1]
    <3>1. CASE j = 1
      <4>1. j <= 1 /\ i + j - 1 = i /\ j \in 1 .. 1 + Len(more)
        BY <1>1, <2>3, <3>1
      <4> QED
        BY <2>4, <2>5, <3>1, <4>1
    <3>2. CASE j # 1
      <4>1. ~(j <= 1) /\ j - 1 \in 1 .. Len(s) - i /\ (i + 1) + (j - 1) - 1 = i + j - 1 /\ j \in 1 .. 1 + Len(more)
        BY <1>1, <2>3, <3>2
      <4>2. all[j] = more[j - 1] /\ more[j - 1] = s[(i + 1) + (j - 1) - 1]
        BY <2>3, <2>5, <4>1
      <4> QED
        BY <4>1, <4>2
    <3> QED
      BY <3>1, <3>2
  <2>8. Rest(s, i) = all
    <3>1. /\ Rest(s, i) \in Seq(S) /\ Len(Rest(s, i)) = Len(s) - i + 1
          /\ \A j \in 1 .. Len(s) - i + 1 : Rest(s, i)[j] = s[i + j - 1]
      BY <1>2, <2>1
    <3> QED
      BY <2>5, <2>6, <2>7, <3>1, SeqEqual
  <2> QED
    BY <2>8 DEF all, more
<1> QED
  BY <1>3, <1>4, <1>5

Walks(f) == f = [m \in allocated \cup {Nil} |-> IF m = Nil THEN <<>> ELSE <<m>> \o f[heap[m].next]]
WalkFunction == CHOOSE f : Walks(f)

\* The walk from a leaf visits the rest of the chain.
LEMMA LeavesComputed ==
    ASSUME TreeInv, NEW chain \in Seq(Nodes), Chained(chain)
    PROVE  \A i \in DOMAIN chain : LeavesFrom(chain[i]) = Rest(chain, i)
<1> DEFINE L == Len(chain)
           f == [m \in allocated \cup {Nil} |->
                   IF m = Nil THEN <<>>
                   ELSE IF heap[m].is_leaf THEN Rest(chain, CHOOSE i \in DOMAIN chain : chain[i] = m)
                   ELSE <<m>>]
<1>1. /\ \A n : Leaf(n) <=> \E i \in DOMAIN chain : chain[i] = n
      /\ \A i, j \in DOMAIN chain : chain[i] = chain[j] => i = j
      /\ \A i \in DOMAIN chain : heap[chain[i]].next = IF i = L THEN Nil ELSE chain[i + 1]
      /\ \A n \in allocated : ~heap[n].is_leaf => heap[n].next = Nil
  BY DEF Chained, Linked
<1>2. L \in Nat /\ DOMAIN chain = 1 .. L
  BY LenProperties
<1> HIDE DEF L
<1>3. Nil \notin allocated
  BY NodesAssumption DEF TreeInv, TypeOK
<1>4. /\ Rest(chain, L + 1) = <<>>
      /\ \A i \in 1 .. L : Rest(chain, i) = <<chain[i]>> \o Rest(chain, i + 1)
  BY RestFacts DEF L
<1>5. f[Nil] = <<>> /\ \A i \in 1 .. L : f[chain[i]] = Rest(chain, i)
  <2>1. ASSUME NEW i \in 1 .. L PROVE f[chain[i]] = Rest(chain, i)
    <3>1. Leaf(chain[i])
      BY <1>1, <1>2
    <3>2. (CHOOSE j \in DOMAIN chain : chain[j] = chain[i]) = i
      BY <1>1, <1>2
    <3> QED
      BY <1>3, <3>1, <3>2 DEF Leaf
  <2> QED
    BY <2>1
<1>6. ASSUME NEW m \in allocated PROVE f[m] = <<m>> \o f[heap[m].next]
  <2>1. CASE heap[m].is_leaf
    <3>1. PICK i \in 1 .. L : chain[i] = m
      BY <1>1, <1>2, <2>1 DEF Leaf
    <3>2. heap[m].next = IF i = L THEN Nil ELSE chain[i + 1]
      BY <1>1, <1>2, <3>1
    <3>3. f[heap[m].next] = Rest(chain, i + 1)
      <4>1. CASE i = L
        BY <1>4, <1>5, <3>2, <4>1
      <4>2. CASE i # L
        <5>1. i + 1 \in 1 .. L
          BY <1>2, <4>2
        <5> QED
          BY <1>5, <3>2, <4>2, <5>1
      <4> QED
        BY <4>1, <4>2
    <3>4. f[m] = Rest(chain, i)
      BY <1>5, <3>1
    <3> HIDE DEF f
    <3> QED
      BY <1>4, <3>1, <3>3, <3>4
  <2>2. CASE ~heap[m].is_leaf
    <3>1. f[m] = <<m>> /\ heap[m].next = Nil
      BY <1>1, <1>3, <2>2
    <3>2. f[heap[m].next] = <<>>
      BY <1>5, <3>1
    <3>3. <<m>> \o <<>> = <<m>>
      OBVIOUS
    <3> HIDE DEF f
    <3> QED
      BY <3>1, <3>2, <3>3
  <2> QED
    BY <2>1, <2>2
<1>7. Walks(WalkFunction)
  <2>1. f = [m \in allocated \cup {Nil} |-> IF m = Nil THEN <<>> ELSE <<m>> \o f[heap[m].next]]
    <3>1. f = [m \in allocated \cup {Nil} |-> f[m]]
      OBVIOUS
    <3> HIDE DEF f
    <3>2. \A m \in allocated \cup {Nil} : f[m] = IF m = Nil THEN <<>> ELSE <<m>> \o f[heap[m].next]
      BY <1>3, <1>5, <1>6
    <3> QED
      BY <3>1, <3>2
  <2> HIDE DEF f
  <2>2. Walks(f)
    BY <2>1 DEF Walks
  <2> QED
    BY <2>2 DEF WalkFunction
<1> HIDE DEF f
<1>8. \A m \in allocated \cup {Nil} :
        WalkFunction[m] = IF m = Nil THEN <<>> ELSE <<m>> \o WalkFunction[heap[m].next]
  BY <1>7 DEF Walks
<1> DEFINE at(i) == IF i = L + 1 THEN Nil ELSE chain[i]
           T == {k \in 0 .. L : WalkFunction[at(L + 1 - k)] = Rest(chain, L + 1 - k)}
<1>9. 0 \in T
  <2>1. 0 \in 0 .. L /\ L + 1 - 0 = L + 1
    BY <1>2
  <2> QED
    BY <1>4, <1>8, <2>1
<1>10. ASSUME NEW k \in 1 .. L, k - 1 \in T PROVE k \in T
  <2> DEFINE i == L + 1 - k
  <2>1. i \in 1 .. L /\ i # L + 1 /\ L + 1 - (k - 1) = i + 1 /\ k \in 0 .. L
    BY <1>2
  <2>2. WalkFunction[at(i + 1)] = Rest(chain, i + 1)
    BY <1>10, <2>1
  <2>3. chain[i] \in allocated /\ heap[chain[i]].next = at(i + 1)
    <3>1. Leaf(chain[i])
      BY <1>1, <1>2, <2>1
    <3>2. i = L <=> i + 1 = L + 1
      BY <1>2, <2>1
    <3> QED
      BY <1>1, <1>2, <2>1, <3>1, <3>2 DEF Leaf
  <2>4. WalkFunction[chain[i]] = <<chain[i]>> \o WalkFunction[at(i + 1)]
    BY <1>3, <1>8, <2>3
  <2>5. WalkFunction[chain[i]] = Rest(chain, i)
    BY <1>4, <2>1, <2>2, <2>4
  <2>6. WalkFunction[at(L + 1 - k)] = Rest(chain, L + 1 - k)
    BY <2>1, <2>5
  <2> QED
    BY <2>1, <2>6
<1>11. 0 .. L \subseteq T
  <2> HIDE DEF T
  <2> QED
    BY <1>2, <1>9, <1>10, UpTo
<1>12. ASSUME NEW i \in 1 .. L PROVE WalkFunction[chain[i]] = Rest(chain, i)
  <2>1. L + 1 - i \in 0 .. L /\ L + 1 - (L + 1 - i) = i /\ i # L + 1
    BY <1>2
  <2>2. L + 1 - i \in T
    BY <1>11, <2>1
  <2> QED
    BY <2>1, <2>2
<1>13. \A n : LeavesFrom(n) = WalkFunction[n]
  BY DEF LeavesFrom, WalkFunction, Walks
<1> QED
  BY <1>2, <1>12, <1>13

-----------------------------------------------------------------------------
(* Sequences put one after another. *)

\* The number of elements of the first j sequences of ss.
Starts(start, ss) ==
    /\ start \in [0 .. Len(ss) -> Nat] /\ start[0] = 0
    /\ \A j \in 1 .. Len(ss) : start[j] = start[j - 1] + Len(ss[j])

\* flat holds the first n sequences of ss, one after another.
Flat(flat, ss, start, n, S) ==
    /\ flat \in Seq(S) /\ Len(flat) = start[n]
    /\ \A j \in 1 .. n : \A i \in 1 .. Len(ss[j]) :
         start[j - 1] + i \in 1 .. start[n] /\ flat[start[j - 1] + i] = ss[j][i]
    /\ \A k \in 1 .. start[n] : \E j \in 1 .. n : \E i \in 1 .. Len(ss[j]) : k = start[j - 1] + i

LEMMA FlatStep ==
    ASSUME NEW S, NEW ss \in Seq(Seq(S)), NEW start, Starts(start, ss), NEW n \in 1 .. Len(ss),
           NEW flat, Flat(flat, ss, start, n - 1, S)
    PROVE  Flat(flat \o ss[n], ss, start, n, S)
<1> DEFINE last == ss[n]
           all == flat \o last
<1>1. Len(ss) \in Nat /\ DOMAIN ss = 1 .. Len(ss) /\ n \in Nat
  BY LenProperties
<1>2. last \in Seq(S) /\ Len(last) \in Nat
  BY <1>1, ElementOfSeq, LenProperties
<1>3. /\ flat \in Seq(S) /\ Len(flat) = start[n - 1]
      /\ \A j \in 1 .. n - 1 : \A i \in 1 .. Len(ss[j]) :
           start[j - 1] + i \in 1 .. start[n - 1] /\ flat[start[j - 1] + i] = ss[j][i]
      /\ \A k \in 1 .. start[n - 1] : \E j \in 1 .. n - 1 : \E i \in 1 .. Len(ss[j]) : k = start[j - 1] + i
  BY DEF Flat
<1>4. start[n - 1] \in Nat /\ start[n] = start[n - 1] + Len(last)
  <2>1. n - 1 \in 0 .. Len(ss)
    BY <1>1
  <2> QED
    BY <2>1 DEF Starts
<1>5. /\ all \in Seq(S) /\ Len(all) = start[n]
      /\ \A k \in 1 .. start[n] : all[k] = IF k <= start[n - 1] THEN flat[k] ELSE last[k - start[n - 1]]
  <2> HIDE DEF last
  <2>1. /\ all \in Seq(S) /\ Len(all) = Len(flat) + Len(last)
        /\ \A k \in 1 .. Len(flat) + Len(last) :
             all[k] = IF k <= Len(flat) THEN flat[k] ELSE last[k - Len(flat)]
    BY <1>2, <1>3, ConcatProperties
  <2> HIDE DEF all
  <2>2. Len(flat) = start[n - 1] /\ Len(flat) + Len(last) = start[n]
    BY <1>3, <1>4
  <2> QED
    BY <2>1, <2>2
<1> HIDE DEF all
<1>6. ASSUME NEW j \in 1 .. n, NEW i \in 1 .. Len(ss[j])
      PROVE  start[j - 1] + i \in 1 .. start[n] /\ all[start[j - 1] + i] = ss[j][i]
  <2>1. CASE j = n
    <3>1. i \in 1 .. Len(last)
      BY <2>1
    <3>2. \A a, b \in Nat : i \in 1 .. b =>
            a + i \in 1 .. a + b /\ ~(a + i <= a) /\ (a + i) - a = i
      OBVIOUS
    <3>3. /\ start[n - 1] + i \in 1 .. start[n] /\ ~(start[n - 1] + i <= start[n - 1])
          /\ (start[n - 1] + i) - start[n - 1] = i
      <4>1. start[n - 1] \in Nat /\ Len(last) \in Nat /\ start[n] = start[n - 1] + Len(last)
        BY <1>2, <1>4
      <4> HIDE DEF last
      <4> QED
        BY <3>1, <3>2, <4>1
    <3>4. all[start[n - 1] + i] = last[i]
      BY <1>5, <3>3
    <3> QED
      BY <2>1, <3>3, <3>4
  <2>2. CASE j # n
    <3>1. j \in 1 .. n - 1
      BY <1>1, <2>2
    <3>2. start[j - 1] + i \in 1 .. start[n - 1] /\ flat[start[j - 1] + i] = ss[j][i]
      BY <1>3, <3>1
    <3>3. start[j - 1] + i \in 1 .. start[n] /\ start[j - 1] + i <= start[n - 1]
      <4>1. start[n - 1] \in Nat /\ Len(last) \in Nat /\ start[n] = start[n - 1] + Len(last)
        BY <1>2, <1>4
      <4>2. \A a, b \in Nat : \A k \in 1 .. a : k \in 1 .. a + b /\ k <= a
        OBVIOUS
      <4> HIDE DEF last
      <4> QED
        BY <3>2, <4>1, <4>2
    <3> QED
      BY <1>5, <3>2, <3>3
  <2> QED
    BY <2>1, <2>2
<1>7. ASSUME NEW k \in 1 .. start[n]
      PROVE  \E j \in 1 .. n : \E i \in 1 .. Len(ss[j]) : k = start[j - 1] + i
  <2>1. CASE k <= start[n - 1]
    <3>1. k \in 1 .. start[n - 1]
      BY <1>4, <2>1
    <3>2. PICK j \in 1 .. n - 1 : \E i \in 1 .. Len(ss[j]) : k = start[j - 1] + i
      BY <1>3, <3>1
    <3>3. j \in 1 .. n
      BY <1>1
    <3> QED
      BY <3>2, <3>3
  <2>2. CASE ~(k <= start[n - 1])
    <3>1. k - start[n - 1] \in 1 .. Len(last) /\ k = start[n - 1] + (k - start[n - 1]) /\ n \in 1 .. n
      BY <1>1, <1>2, <1>4, <2>2
    <3> QED
      BY <3>1
  <2> QED
    BY <2>1, <2>2
<1>8. Flat(all, ss, start, n, S)
  BY <1>5, <1>6, <1>7 DEF Flat
<1> QED
  BY <1>8 DEF all, last

StartsExist(ss) == \E start : Starts(start, ss)

LEMMA StartsFound ==
    ASSUME NEW S, NEW ss \in Seq(Seq(S))
    PROVE  StartsExist(ss)
<1> DEFINE N == Len(ss)
           step == [j \in 1 .. N |-> [x \in Nat |-> x + Len(ss[j])]]
<1>1. N \in Nat /\ \A j \in 1 .. N : Len(ss[j]) \in Nat
  BY LenProperties, ElementOfSeq
<1>2. step \in StepsOn(N, Nat)
  BY <1>1 DEF StepsOn
<1>3. \A j \in 1 .. N : \A x \in Nat : step[j][x] = x + Len(ss[j])
  OBVIOUS
<1> HIDE DEF step
<1>4. PICK start : Computes(start, N, Nat, 0, step)
  <2> HIDE DEF N
  <2> QED
    BY <1>1, <1>2, StepByStep
<1>5. /\ start \in [0 .. N -> Nat] /\ start[0] = 0
      /\ \A j \in 1 .. N : start[j] = step[j][start[j - 1]]
  BY <1>4 DEF Computes
<1>6. \A j \in 1 .. N : start[j - 1] \in Nat
  <2>1. \A j \in 1 .. N : j - 1 \in 0 .. N
    BY <1>1
  <2> HIDE DEF N
  <2> QED
    BY <1>5, <2>1
<1>7. \A j \in 1 .. N : start[j] = start[j - 1] + Len(ss[j])
  BY <1>3, <1>5, <1>6
<1>8. Starts(start, ss)
  BY <1>5, <1>7 DEF Starts
<1> QED
  BY <1>8 DEF StartsExist

Flattens(f, ss) == f = [i \in 1 .. Len(ss) |-> IF i = 1 THEN ss[i] ELSE f[i - 1] \o ss[i]]
FlattenFunction(ss) == CHOOSE f : Flattens(f, ss)

LEMMA FlattenFound ==
    ASSUME NEW S, NEW ss \in Seq(Seq(S))
    PROVE  Flattens(FlattenFunction(ss), ss)
<1> DEFINE N == Len(ss)
           step == [j \in 1 .. N |-> [x \in Seq(S) |-> x \o ss[j]]]
<1>1. N \in Nat /\ \A j \in 1 .. N : ss[j] \in Seq(S)
  BY LenProperties, ElementOfSeq
<1>2. step \in StepsOn(N, Seq(S)) /\ <<>> \in Seq(S)
  BY <1>1, ConcatProperties DEF StepsOn
<1>3. \A j \in 1 .. N : \A x \in Seq(S) : step[j][x] = x \o ss[j]
  OBVIOUS
<1> HIDE DEF step
<1>4. PICK g : Computes(g, N, Seq(S), <<>>, step)
  <2> HIDE DEF N
  <2> QED
    BY <1>1, <1>2, StepByStep
<1>5. /\ g \in [0 .. N -> Seq(S)] /\ g[0] = <<>>
      /\ \A j \in 1 .. N : g[j] = step[j][g[j - 1]]
  BY <1>4 DEF Computes
<1>6. \A j \in 1 .. N : g[j - 1] \in Seq(S)
  <2>1. \A j \in 1 .. N : j - 1 \in 0 .. N
    BY <1>1
  <2> HIDE DEF N
  <2> QED
    BY <1>5, <2>1
<1>7. \A j \in 1 .. N : g[j] = g[j - 1] \o ss[j]
  BY <1>3, <1>5, <1>6
<1> DEFINE f == [i \in 1 .. N |-> g[i]]
<1>8. \A i \in 1 .. N : f[i] = IF i = 1 THEN ss[i] ELSE f[i - 1] \o ss[i]
  <2>1. \A s \in Seq(S) : <<>> \o s = s
    BY ConcatEmptySeq
  <2>2. ASSUME NEW i \in 1 .. N, i = 1 PROVE g[i] = ss[i]
    <3>1. i - 1 = 0
      BY <2>2
    <3> QED
      BY <1>1, <1>5, <1>7, <2>1, <3>1
  <2>3. ASSUME NEW i \in 1 .. N, i # 1 PROVE i - 1 \in 1 .. N
    BY <1>1, <2>3
  <2> QED
    BY <1>7, <2>2, <2>3
<1>9. f = [i \in 1 .. N |-> f[i]]
  OBVIOUS
<1> HIDE DEF f
<1>10. f = [i \in 1 .. N |-> IF i = 1 THEN ss[i] ELSE f[i - 1] \o ss[i]]
  BY <1>8, <1>9
<1>11. Flattens(f, ss)
  BY <1>10 DEF Flattens
<1> QED
  BY <1>11 DEF FlattenFunction

LEMMA Flattened ==
    ASSUME NEW S, NEW ss \in Seq(Seq(S))
    PROVE  \E start : Starts(start, ss) /\ Flat(FlattenSeq(ss), ss, start, Len(ss), S)
<1> DEFINE N == Len(ss)
           f == FlattenFunction(ss)
<1>1. N \in Nat /\ \A j \in 1 .. N : ss[j] \in Seq(S)
  BY LenProperties, ElementOfSeq
<1>2. PICK start : Starts(start, ss)
  BY StartsFound DEF StartsExist
<1>3. \A i \in 1 .. N : f[i] = IF i = 1 THEN ss[i] ELSE f[i - 1] \o ss[i]
  <2>1. Flattens(f, ss)
    BY FlattenFound
  <2> HIDE DEF f
  <2> QED
    BY <2>1 DEF Flattens
<1>4. FlattenSeq(ss) = IF N = 0 THEN ss ELSE f[N]
  BY DEF FlattenSeq, FlattenFunction, Flattens
<1> HIDE DEF f
<1>5. Flat(<<>>, ss, start, 0, S)
  BY <1>2 DEF Flat, Starts
<1> DEFINE T == {n \in 0 .. N : IF n = 0 THEN TRUE ELSE Flat(f[n], ss, start, n, S)}
<1>6. ASSUME NEW n \in 1 .. N, n - 1 \in T PROVE n \in T
  <2>1. CASE n = 1
    <3>1. Flat(<<>> \o ss[n], ss, start, n, S)
      <4>1. n - 1 = 0 /\ n \in 1 .. Len(ss)
        BY <2>1
      <4>2. Flat(<<>>, ss, start, n - 1, S)
        BY <1>5, <4>1
      <4> QED
        BY <1>2, <4>1, <4>2, FlatStep
    <3>2. <<>> \o ss[n] = f[n]
      BY <1>1, <1>3, <2>1, ConcatEmptySeq
    <3> QED
      BY <2>1, <3>1, <3>2
  <2>2. CASE n # 1
    <3>1. n - 1 # 0 /\ n \in 1 .. Len(ss) /\ n # 0 /\ n \in 0 .. N
      BY <2>2
    <3>2. Flat(f[n - 1], ss, start, n - 1, S)
      BY <1>6, <3>1
    <3>3. Flat(f[n - 1] \o ss[n], ss, start, n, S)
      BY <1>2, <3>1, <3>2, FlatStep
    <3> QED
      BY <1>3, <2>2, <3>1, <3>3
  <2> QED
    BY <2>1, <2>2
<1>7. 0 .. N \subseteq T
  <2>1. 0 \in T
    BY <1>1
  <2> HIDE DEF T, N
  <2> QED
    BY <1>1, <1>6, <2>1, UpTo
<1>8. Flat(FlattenSeq(ss), ss, start, N, S)
  <2>1. CASE N = 0
    BY <1>4, <1>5, <2>1, EmptySeq
  <2>2. CASE N # 0
    <3>1. N \in T
      BY <1>1, <1>7
    <3> QED
      BY <1>4, <2>2, <3>1
  <2> QED
    BY <2>1, <2>2
<1> QED
  BY <1>2, <1>8

-----------------------------------------------------------------------------
(* The entries of the chain. *)

EntryAt(n, i) == <<heap[n].keys[i], heap[n].offsets[i]>>

\* Where the entries of each leaf are when they are put one after another.
Placed(flat, leaves, start) ==
    /\ start \in [0 .. Len(leaves) -> Nat] /\ start[0] = 0
    /\ \A j \in 1 .. Len(leaves) : start[j] = start[j - 1] + Len(heap[leaves[j]].keys)
    /\ flat \in Seq(Keys \X Offsets) /\ Len(flat) = start[Len(leaves)]
    /\ \A j \in 1 .. Len(leaves) : \A i \in DOMAIN heap[leaves[j]].keys :
         /\ start[j - 1] + i \in DOMAIN flat
         /\ flat[start[j - 1] + i] = EntryAt(leaves[j], i)
    /\ \A k \in DOMAIN flat :
         \E j \in 1 .. Len(leaves) : \E i \in DOMAIN heap[leaves[j]].keys : k = start[j - 1] + i

LeafEntries(n) == [i \in DOMAIN heap[n].keys |-> EntryAt(n, i)]

LEMMA LeafFacts ==
    ASSUME TreeInv, NEW n, Leaf(n)
    PROVE  /\ heap[n].keys \in Seq(Keys) /\ heap[n].offsets \in Seq(Offsets)
           /\ Len(heap[n].keys) \in Nat /\ Len(heap[n].offsets) = Len(heap[n].keys)
           /\ DOMAIN heap[n].keys = 1 .. Len(heap[n].keys)
           /\ \A i \in DOMAIN heap[n].keys : EntryAt(n, i) \in Keys \X Offsets
           /\ LeafEntries(n) \in Seq(Keys \X Offsets) /\ Len(LeafEntries(n)) = Len(heap[n].keys)
<1>1. n \in allocated /\ heap[n].is_leaf
  BY DEF Leaf
<1>2. heap[n] \in NodeRecords /\ heap[n].keys \in Seq(Keys)
  BY <1>1, NodeFacts
<1>3. heap[n].offsets \in Seq(Offsets)
  BY <1>2 DEF NodeRecords
<1>4. Len(heap[n].offsets) = Len(heap[n].keys)
  BY <1>1 DEF TreeInv, Shapes, NodeShape
<1>5. Len(heap[n].keys) \in Nat /\ DOMAIN heap[n].keys = 1 .. Len(heap[n].keys)
  BY <1>2, LenProperties
<1>6. \A i \in DOMAIN heap[n].keys : heap[n].keys[i] \in Keys /\ heap[n].offsets[i] \in Offsets
  BY <1>2, <1>3, <1>4, <1>5, ElementOfSeq
<1>7. \A i \in DOMAIN heap[n].keys : EntryAt(n, i) \in Keys \X Offsets
  BY <1>6 DEF EntryAt
<1>8. LeafEntries(n) \in Seq(Keys \X Offsets) /\ Len(LeafEntries(n)) = Len(heap[n].keys)
  BY <1>5, <1>7 DEF LeafEntries
<1> QED
  BY <1>2, <1>3, <1>4, <1>5, <1>7, <1>8

LEMMA EntriesPlaced ==
    ASSUME TreeInv, NEW leaves \in Seq(Nodes), \A j \in DOMAIN leaves : Leaf(leaves[j])
    PROVE  \E start : Placed(Entries(leaves), leaves, start)
<1> DEFINE ss == [j \in DOMAIN leaves |-> LeafEntries(leaves[j])]
           S == Keys \X Offsets
<1>1. Len(leaves) \in Nat /\ DOMAIN leaves = 1 .. Len(leaves)
  BY LenProperties
<1>2. \A j \in 1 .. Len(leaves) :
        /\ LeafEntries(leaves[j]) \in Seq(S) /\ Len(LeafEntries(leaves[j])) = Len(heap[leaves[j]].keys)
        /\ DOMAIN heap[leaves[j]].keys = 1 .. Len(heap[leaves[j]].keys)
  BY <1>1, LeafFacts
<1> HIDE DEF S
<1>3. ss \in Seq(Seq(S)) /\ Len(ss) = Len(leaves)
  BY <1>1, <1>2
<1>4. \A j \in 1 .. Len(leaves) : ss[j] = LeafEntries(leaves[j])
  BY <1>1
<1>5. Entries(leaves) = FlattenSeq(ss)
  BY DEF Entries, LeafEntries, EntryAt
<1> HIDE DEF ss
<1>6. PICK start : Starts(start, ss) /\ Flat(FlattenSeq(ss), ss, start, Len(ss), S)
  BY <1>3, Flattened
<1> DEFINE flat == Entries(leaves)
<1>7. Flat(flat, ss, start, Len(leaves), S)
  BY <1>3, <1>5, <1>6
<1> HIDE DEF flat
<1>8. /\ start \in [0 .. Len(leaves) -> Nat] /\ start[0] = 0
      /\ \A j \in 1 .. Len(leaves) : start[j] = start[j - 1] + Len(heap[leaves[j]].keys)
  BY <1>2, <1>3, <1>4, <1>6 DEF Starts
<1>9. flat \in Seq(S) /\ Len(flat) = start[Len(leaves)] /\ DOMAIN flat = 1 .. start[Len(leaves)]
  BY <1>7, LenProperties DEF Flat
<1>10. ASSUME NEW j \in 1 .. Len(leaves), NEW i \in DOMAIN heap[leaves[j]].keys
       PROVE  start[j - 1] + i \in DOMAIN flat /\ flat[start[j - 1] + i] = EntryAt(leaves[j], i)
  <2>1. i \in 1 .. Len(ss[j]) /\ ss[j][i] = EntryAt(leaves[j], i)
    BY <1>2, <1>4 DEF LeafEntries
  <2> QED
    BY <1>7, <1>9, <2>1 DEF Flat
<1>11. ASSUME NEW k \in DOMAIN flat
       PROVE  \E j \in 1 .. Len(leaves) : \E i \in DOMAIN heap[leaves[j]].keys : k = start[j - 1] + i
  <2>1. PICK j \in 1 .. Len(leaves) : \E i \in 1 .. Len(ss[j]) : k = start[j - 1] + i
    BY <1>7, <1>9 DEF Flat
  <2>2. Len(ss[j]) = Len(heap[leaves[j]].keys)
    BY <1>2, <1>4
  <2> QED
    BY <1>2, <2>1, <2>2
<1>12. Placed(flat, leaves, start)
  BY <1>8, <1>9, <1>10, <1>11 DEF Placed, S
<1> QED
  BY <1>12 DEF flat

\* A leaf holds this entry.
StoredEntry(e) == \E n : Leaf(n) /\ \E i \in DOMAIN heap[n].keys : e = EntryAt(n, i)

\* The entries of the whole chain are those of the leaves.
LEMMA ChainPlaced ==
    ASSUME TreeInv, NEW chain \in Seq(Nodes), Chained(chain), root # Nil
    PROVE  \E start : Placed(Chain, chain, start)
<1>1. Len(chain) \in Nat /\ DOMAIN chain = 1 .. Len(chain)
  BY LenProperties
<1>2. chain # <<>> /\ chain[1] = leftmost_leaf
  BY ChainFirst
<1>3. 1 \in DOMAIN chain
  BY <1>1, <1>2, EmptySeq
<1>4. LeavesFrom(leftmost_leaf) = chain
  BY <1>2, <1>3, LeavesComputed, RestFacts
<1>5. \A j \in DOMAIN chain : Leaf(chain[j])
  BY DEF Chained, Linked
<1>6. Chain = Entries(chain)
  BY <1>4 DEF Chain
<1> QED
  BY <1>5, <1>6, EntriesPlaced

LEMMA ChainStores ==
    ASSUME TreeInv, ChainInv
    PROVE  \A e : e \in ToSet(Chain) <=> StoredEntry(e)
<1>1. PICK chain \in Seq(Nodes) : Chained(chain)
  BY DEF ChainInv
<1>2. CASE root = Nil
  <2>1. allocated = {}
    BY <1>1, <1>2 DEF Chained, StartsLeft
  <2>2. ToSet(Chain) = {}
    BY <1>2 DEF Chain, ToSet
  <2> QED
    BY <2>1, <2>2 DEF StoredEntry, Leaf
<1>3. CASE root # Nil
  <2>1. PICK start : Placed(Chain, chain, start)
    BY <1>1, <1>3, ChainPlaced
  <2>2. DOMAIN chain = 1 .. Len(chain)
    BY LenProperties
  <2>3. \A n : Leaf(n) <=> \E j \in 1 .. Len(chain) : chain[j] = n
    BY <1>1, <2>2 DEF Chained, Linked
  <2>4. \A e : e \in ToSet(Chain) <=> \E k \in DOMAIN Chain : e = Chain[k]
    BY DEF ToSet
  <2>5. ASSUME NEW e, e \in ToSet(Chain) PROVE StoredEntry(e)
    <3>1. PICK k \in DOMAIN Chain : e = Chain[k]
      BY <2>4, <2>5
    <3>2. PICK j \in 1 .. Len(chain) : \E i \in DOMAIN heap[chain[j]].keys : k = start[j - 1] + i
      BY <2>1 DEF Placed
    <3>3. PICK i \in DOMAIN heap[chain[j]].keys : k = start[j - 1] + i
      BY <3>2
    <3>4. e = EntryAt(chain[j], i)
      BY <2>1, <3>1, <3>3 DEF Placed
    <3> QED
      BY <2>3, <3>4 DEF StoredEntry
  <2>6. ASSUME NEW e, StoredEntry(e) PROVE e \in ToSet(Chain)
    <3>1. PICK j \in 1 .. Len(chain) : \E i \in DOMAIN heap[chain[j]].keys : e = EntryAt(chain[j], i)
      BY <2>3, <2>6 DEF StoredEntry
    <3>2. PICK i \in DOMAIN heap[chain[j]].keys : e = EntryAt(chain[j], i)
      BY <3>1
    <3>3. start[j - 1] + i \in DOMAIN Chain /\ Chain[start[j - 1] + i] = EntryAt(chain[j], i)
      BY <2>1 DEF Placed
    <3> QED
      BY <2>4, <3>2, <3>3
  <2> QED
    BY <2>5, <2>6
<1> QED
  BY <1>2, <1>3

-----------------------------------------------------------------------------
(* The entries after a step. *)

NewEntry == <<call.key, call.offset>>

\* The leaf with its new entry, as entries.
LEMMA LeafGrows ==
    ASSUME TreeInv, AtLeaf
    PROVE  \A e : (\E j \in 1 .. Len(heap[cur].keys) + 1 : e = <<NewLeafKeys[j], NewLeafOffsets[j]>>)
                  <=> e = NewEntry \/ \E i \in DOMAIN heap[cur].keys : e = EntryAt(cur, i)
<1> DEFINE L == Len(heap[cur].keys)
           p == LeafPosition
<1>1. Leaf(cur)
  BY LeafEntry DEF AtLeaf, Leaf
<1>2. /\ heap[cur].keys \in Seq(Keys) /\ heap[cur].offsets \in Seq(Offsets)
      /\ L \in Nat /\ Len(heap[cur].offsets) = L /\ DOMAIN heap[cur].keys = 1 .. L
  BY <1>1, LeafFacts
<1>3. call.key \in Keys /\ call.offset \in Offsets
  BY DEF TreeInv, CallShape, AtLeaf
<1>4. p \in 1 .. L + 1
  BY <1>2, PositionBound DEF LeafPosition, find_leaf_position
<1> HIDE DEF p
<1>5. \A j \in 1 .. L + 1 :
        NewLeafKeys[j] = IF j < p THEN heap[cur].keys[j] ELSE IF j = p THEN call.key ELSE heap[cur].keys[j - 1]
  <2>1. NewLeafKeys = InsertAt(heap[cur].keys, p, call.key)
    BY DEF NewLeafKeys, p
  <2>2. Widened(InsertAt(heap[cur].keys, p, call.key), heap[cur].keys, p, call.key, Keys)
    BY <1>2, <1>3, <1>4, InsertWidens
  <2> QED
    BY <2>1, <2>2 DEF Widened
<1>6. \A j \in 1 .. L + 1 :
        NewLeafOffsets[j] = IF j < p THEN heap[cur].offsets[j] ELSE IF j = p THEN call.offset ELSE heap[cur].offsets[j - 1]
  <2>1. NewLeafOffsets = InsertAt(heap[cur].offsets, p, call.offset)
    BY DEF NewLeafOffsets, p
  <2>2. p \in 1 .. Len(heap[cur].offsets) + 1
    BY <1>2, <1>4
  <2>3. Widened(InsertAt(heap[cur].offsets, p, call.offset), heap[cur].offsets, p, call.offset, Offsets)
    BY <1>2, <1>3, <2>2, InsertWidens
  <2>4. \A j \in 1 .. Len(heap[cur].offsets) + 1 :
          InsertAt(heap[cur].offsets, p, call.offset)[j] =
            IF j < p THEN heap[cur].offsets[j] ELSE IF j = p THEN call.offset ELSE heap[cur].offsets[j - 1]
    BY <2>3 DEF Widened
  <2> QED
    BY <1>2, <2>1, <2>4
<1> HIDE DEF L
<1> DEFINE New(j) == <<NewLeafKeys[j], NewLeafOffsets[j]>>
<1>7. \A j \in 1 .. L + 1 :
        New(j) = IF j < p THEN EntryAt(cur, j) ELSE IF j = p THEN NewEntry ELSE EntryAt(cur, j - 1)
  BY <1>5, <1>6 DEF EntryAt, NewEntry
<1> HIDE DEF New
<1>8. ASSUME NEW j \in 1 .. L + 1 PROVE New(j) = NewEntry \/ \E i \in 1 .. L : New(j) = EntryAt(cur, i)
  <2>1. CASE j < p
    <3>1. j \in 1 .. L
      BY <1>2, <1>4, <2>1
    <3> QED
      BY <1>7, <2>1, <3>1
  <2>2. CASE j = p
    <3>1. ~(j < p)
      BY <1>2, <1>4, <2>2
    <3> QED
      BY <1>7, <2>2, <3>1
  <2>3. CASE j > p
    <3>1. j - 1 \in 1 .. L /\ ~(j < p) /\ j # p
      BY <1>2, <1>4, <2>3
    <3> QED
      BY <1>7, <3>1
  <2> QED
    BY <1>4, <2>1, <2>2, <2>3
<1>9. \E j \in 1 .. L + 1 : New(j) = NewEntry
  <2>1. ~(p < p)
    BY <1>2, <1>4
  <2> QED
    BY <1>4, <1>7, <2>1
<1>10. ASSUME NEW i \in 1 .. L PROVE \E j \in 1 .. L + 1 : New(j) = EntryAt(cur, i)
  <2>1. CASE i < p
    <3>1. i \in 1 .. L + 1
      BY <1>2
    <3> QED
      BY <1>7, <2>1, <3>1
  <2>2. CASE ~(i < p)
    <3>1. i + 1 \in 1 .. L + 1 /\ ~(i + 1 < p) /\ i + 1 # p /\ (i + 1) - 1 = i
      BY <1>2, <1>4, <2>2
    <3>2. New(i + 1) = EntryAt(cur, (i + 1) - 1)
      BY <1>7, <3>1
    <3> QED
      BY <3>1, <3>2
  <2> QED
    BY <2>1, <2>2
<1>11. \A e : (\E j \in 1 .. L + 1 : e = New(j)) <=> e = NewEntry \/ \E i \in 1 .. L : e = EntryAt(cur, i)
  BY <1>8, <1>9, <1>10
<1> QED
  BY <1>2, <1>11 DEF New, L

LEMMA LeafInsertStores ==
    ASSUME TreeInv, LeafInsert
    PROVE  \A e : StoredEntry(e)' <=> StoredEntry(e) \/ e = NewEntry
<1>1. /\ AtLeaf /\ allocated' = allocated
      /\ heap' = [heap EXCEPT ![cur].keys = NewLeafKeys, ![cur].offsets = NewLeafOffsets]
  BY DEF LeafInsert
<1>2. cur \in allocated /\ heap[cur] \in NodeRecords /\ heap[cur].is_leaf /\ heap \in [Nodes -> NodeRecords]
  BY <1>1, LeafEntry DEF AtLeaf, TreeInv, TypeOK
<1>3. cur \in Nodes /\ allocated \subseteq Nodes
  BY <1>1, LeafEntry DEF TreeInv, TypeOK
<1>4. heap'[cur] = [heap[cur] EXCEPT !.keys = NewLeafKeys, !.offsets = NewLeafOffsets]
  BY <1>1, <1>2, <1>3
<1>5. heap'[cur].is_leaf /\ heap'[cur].keys = NewLeafKeys /\ heap'[cur].offsets = NewLeafOffsets
  BY <1>2, <1>4 DEF NodeRecords
<1>6. \A n \in allocated : n # cur => heap'[n] = heap[n]
  BY LeafInsertNodes
<1>7. DOMAIN NewLeafKeys = 1 .. Len(heap[cur].keys) + 1
  BY <1>1, LeafEntry, LenProperties
<1>8. \A e : (\E j \in DOMAIN heap'[cur].keys : e = <<heap'[cur].keys[j], heap'[cur].offsets[j]>>)
             <=> e = NewEntry \/ \E i \in DOMAIN heap[cur].keys : e = EntryAt(cur, i)
  <2>1. \A e : (\E j \in 1 .. Len(heap[cur].keys) + 1 : e = <<NewLeafKeys[j], NewLeafOffsets[j]>>)
               <=> e = NewEntry \/ \E i \in DOMAIN heap[cur].keys : e = EntryAt(cur, i)
    BY <1>1, LeafGrows
  <2>2. \A e : (\E j \in DOMAIN heap'[cur].keys : e = <<heap'[cur].keys[j], heap'[cur].offsets[j]>>)
               <=> \E j \in 1 .. Len(heap[cur].keys) + 1 : e = <<NewLeafKeys[j], NewLeafOffsets[j]>>
    BY <1>5, <1>7
  <2> QED
    BY <2>1, <2>2
<1>9. \A n : Leaf(n)' <=> Leaf(n)
  BY <1>1, <1>2, <1>5, <1>6 DEF Leaf
<1>10. \A n, e : Leaf(n) /\ n # cur =>
         ((\E j \in DOMAIN heap'[n].keys : e = <<heap'[n].keys[j], heap'[n].offsets[j]>>)
          <=> \E i \in DOMAIN heap[n].keys : e = EntryAt(n, i))
  BY <1>6 DEF Leaf, EntryAt
<1>11. Leaf(cur)
  BY <1>2 DEF Leaf
<1>12. \A e : StoredEntry(e)' <=>
         \E n : Leaf(n)' /\ \E j \in DOMAIN heap'[n].keys : e = <<heap'[n].keys[j], heap'[n].offsets[j]>>
  BY DEF StoredEntry, EntryAt
<1> DEFINE Now(n, e) == \E j \in DOMAIN heap'[n].keys : e = <<heap'[n].keys[j], heap'[n].offsets[j]>>
           Then(n, e) == \E i \in DOMAIN heap[n].keys : e = EntryAt(n, i)
<1>13. \A e : StoredEntry(e) <=> \E n : Leaf(n) /\ Then(n, e)
  BY DEF StoredEntry
<1>14. \A e : Now(cur, e) <=> e = NewEntry \/ Then(cur, e)
  BY <1>8
<1>15. \A n, e : Leaf(n) /\ n # cur => (Now(n, e) <=> Then(n, e))
  BY <1>10
<1>16. \A e : StoredEntry(e)' <=> \E n : Leaf(n)' /\ Now(n, e)
  BY <1>12
<1> HIDE DEF Now, Then
<1> QED
  BY <1>9, <1>11, <1>13, <1>14, <1>15, <1>16

\* A split distributes the entries to two leaves.
LEMMA LeafSplitStores ==
    ASSUME TreeInv, LeafSplit
    PROVE  \A e : StoredEntry(e)' <=> StoredEntry(e) \/ e = NewEntry
<1>1. AtLeaf /\ allocated' = allocated \cup {NewNode} /\ Len(heap[cur].keys) = MAX_KEYS
  BY DEF LeafSplit
<1>2. /\ cur \in allocated /\ cur \in Nodes /\ heap[cur] \in NodeRecords /\ heap[cur].is_leaf
      /\ heap \in [Nodes -> NodeRecords] /\ allocated \subseteq Nodes
  BY <1>1, LeafEntry DEF AtLeaf, TreeInv, TypeOK
<1>3. NewNode \in Nodes /\ NewNode \notin allocated
  BY NewNodeIsNew DEF LeafSplit
<1>4. /\ NewLeafKeys \in Seq(Keys) /\ Len(NewLeafKeys) = TotalCount
      /\ NewLeafOffsets \in Seq(Offsets) /\ Len(NewLeafOffsets) = TotalCount
  BY <1>1, LeafEntry DEF TotalCount
<1> DEFINE left == [heap[cur] EXCEPT !.keys = SubSeq(NewLeafKeys, 1, SplitIndex),
                                     !.offsets = SubSeq(NewLeafOffsets, 1, SplitIndex),
                                     !.next = NewNode]
<1>5. heap' = [[heap EXCEPT ![cur] = left] EXCEPT ![NewNode] = RightLeaf]
  BY <1>2, <1>3 DEF LeafSplit
<1>6. /\ left.is_leaf /\ left.keys = SubSeq(NewLeafKeys, 1, SplitIndex)
      /\ left.offsets = SubSeq(NewLeafOffsets, 1, SplitIndex)
  BY <1>2 DEF NodeRecords
<1>7. /\ RightLeaf.is_leaf /\ RightLeaf.keys = SubSeq(NewLeafKeys, SplitIndex + 1, TotalCount)
      /\ RightLeaf.offsets = SubSeq(NewLeafOffsets, SplitIndex + 1, TotalCount)
  BY DEF RightLeaf
<1> HIDE DEF left
<1>8. heap'[cur] = left /\ heap'[NewNode] = RightLeaf /\ \A n \in allocated : n # cur => heap'[n] = heap[n]
  BY <1>2, <1>3, <1>5
<1> DEFINE N == TotalCount
           m == SplitIndex
           New(j) == <<NewLeafKeys[j], NewLeafOffsets[j]>>
<1>9. N \in Nat /\ m \in 1 .. N - 1
  BY Sizes, OrderAssumption DEF MAX_KEYS
<1> HIDE DEF N, m
<1>10. /\ DOMAIN left.keys = 1 .. m /\ \A j \in 1 .. m : <<left.keys[j], left.offsets[j]>> = New(j)
  <2>1. 1 \in 1 .. N + 1 /\ m \in 1 - 1 .. N /\ m - 1 + 1 = m /\ \A j \in 1 .. m : 1 + j - 1 = j
    BY <1>9
  <2>2. \A S : \A s \in Seq(S) : Len(s) = N =>
          DOMAIN SubSeq(s, 1, m) = 1 .. m /\ \A j \in 1 .. m : SubSeq(s, 1, m)[j] = s[j]
    <3> SUFFICES ASSUME NEW S, NEW s \in Seq(S), Len(s) = N
                 PROVE  DOMAIN SubSeq(s, 1, m) = 1 .. m /\ \A j \in 1 .. m : SubSeq(s, 1, m)[j] = s[j]
      OBVIOUS
    <3>1. /\ DOMAIN SubSeq(s, 1, m) = 1 .. m - 1 + 1
          /\ \A j \in 1 .. m - 1 + 1 : SubSeq(s, 1, m)[j] = s[1 + j - 1]
      BY <2>1, Slice
    <3> QED
      BY <2>1, <3>1
  <2>3. /\ DOMAIN left.keys = 1 .. m /\ \A j \in 1 .. m : left.keys[j] = NewLeafKeys[j]
        /\ \A j \in 1 .. m : left.offsets[j] = NewLeafOffsets[j]
    <3>1. Len(NewLeafKeys) = N /\ Len(NewLeafOffsets) = N
      BY <1>4 DEF N
    <3>2. left.keys = SubSeq(NewLeafKeys, 1, m) /\ left.offsets = SubSeq(NewLeafOffsets, 1, m)
      BY <1>6 DEF m
    <3>3. /\ DOMAIN SubSeq(NewLeafKeys, 1, m) = 1 .. m
          /\ \A j \in 1 .. m : SubSeq(NewLeafKeys, 1, m)[j] = NewLeafKeys[j]
      BY <1>4, <2>2, <3>1
    <3>4. \A j \in 1 .. m : SubSeq(NewLeafOffsets, 1, m)[j] = NewLeafOffsets[j]
      BY <1>4, <2>2, <3>1
    <3> QED
      BY <3>2, <3>3, <3>4
  <2> QED
    BY <2>3
<1>11. /\ DOMAIN RightLeaf.keys = 1 .. N - m
       /\ \A j \in 1 .. N - m : <<RightLeaf.keys[j], RightLeaf.offsets[j]>> = New(m + j)
  <2>1. m + 1 \in 1 .. N + 1 /\ N \in (m + 1) - 1 .. N /\ N - (m + 1) + 1 = N - m
        /\ \A j \in 1 .. N - m : (m + 1) + j - 1 = m + j
    BY <1>9
  <2>2. \A S : \A s \in Seq(S) : Len(s) = N =>
          DOMAIN SubSeq(s, m + 1, N) = 1 .. N - m /\ \A j \in 1 .. N - m : SubSeq(s, m + 1, N)[j] = s[m + j]
    <3> SUFFICES ASSUME NEW S, NEW s \in Seq(S), Len(s) = N
                 PROVE  /\ DOMAIN SubSeq(s, m + 1, N) = 1 .. N - m
                        /\ \A j \in 1 .. N - m : SubSeq(s, m + 1, N)[j] = s[m + j]
      OBVIOUS
    <3>1. /\ DOMAIN SubSeq(s, m + 1, N) = 1 .. N - (m + 1) + 1
          /\ \A j \in 1 .. N - (m + 1) + 1 : SubSeq(s, m + 1, N)[j] = s[(m + 1) + j - 1]
      BY <2>1, Slice
    <3> QED
      BY <2>1, <3>1
  <2>3. /\ DOMAIN RightLeaf.keys = 1 .. N - m /\ \A j \in 1 .. N - m : RightLeaf.keys[j] = NewLeafKeys[m + j]
        /\ \A j \in 1 .. N - m : RightLeaf.offsets[j] = NewLeafOffsets[m + j]
    BY <1>4, <1>7, <2>2 DEF N, m
  <2> QED
    BY <2>3
<1> HIDE DEF New
<1> DEFINE InLeft(e) == \E j \in DOMAIN heap'[cur].keys : e = <<heap'[cur].keys[j], heap'[cur].offsets[j]>>
           InRight(e) == \E j \in DOMAIN heap'[NewNode].keys :
                           e = <<heap'[NewNode].keys[j], heap'[NewNode].offsets[j]>>
<1>12. \A e : InLeft(e) <=> \E j \in 1 .. m : e = New(j)
  BY <1>8, <1>10
<1>13. \A e : InRight(e) <=> \E j \in 1 .. N - m : e = New(m + j)
  BY <1>8, <1>11
<1> HIDE DEF InLeft, InRight
<1>14. \A e : (\E j \in 1 .. N : e = New(j)) <=> InLeft(e) \/ InRight(e)
  <2>1. ASSUME NEW j \in 1 .. N PROVE j \in 1 .. m \/ \E i \in 1 .. N - m : j = m + i
    <3>1. CASE j <= m
      BY <1>9, <3>1
    <3>2. CASE j > m
      <4>1. j - m \in 1 .. N - m /\ j = m + (j - m)
        BY <1>9, <3>2
      <4> QED
        BY <4>1
    <3> QED
      BY <1>9, <3>1, <3>2
  <2>2. (\A j \in 1 .. m : j \in 1 .. N) /\ \A i \in 1 .. N - m : m + i \in 1 .. N
    BY <1>9
  <2> QED
    BY <1>12, <1>13, <2>1, <2>2
<1>15. \A e : (\E j \in 1 .. N : e = New(j)) <=> e = NewEntry \/ \E i \in DOMAIN heap[cur].keys : e = EntryAt(cur, i)
  <2>1. N = Len(heap[cur].keys) + 1
    BY <1>1 DEF N, TotalCount
  <2> QED
    BY <1>1, <2>1, LeafGrows DEF New
<1>16. \A n : Leaf(n)' <=> Leaf(n) \/ n = NewNode
  BY <1>1, <1>2, <1>3, <1>6, <1>7, <1>8 DEF Leaf
<1>17. \A n, e : Leaf(n) /\ n # cur =>
         ((\E j \in DOMAIN heap'[n].keys : e = <<heap'[n].keys[j], heap'[n].offsets[j]>>)
          <=> \E i \in DOMAIN heap[n].keys : e = EntryAt(n, i))
  BY <1>8 DEF Leaf, EntryAt
<1>18. Leaf(cur)
  BY <1>2 DEF Leaf
<1>19. \A e : StoredEntry(e)' <=>
         \E n : Leaf(n)' /\ \E j \in DOMAIN heap'[n].keys : e = <<heap'[n].keys[j], heap'[n].offsets[j]>>
  BY DEF StoredEntry, EntryAt
<1>20. \A e : StoredEntry(e)' <=> InLeft(e) \/ InRight(e) \/ \E n : Leaf(n) /\ n # cur /\ \E i \in DOMAIN heap[n].keys : e = EntryAt(n, i)
  <2>1. \A n, e : n = cur => ((\E j \in DOMAIN heap'[n].keys : e = <<heap'[n].keys[j], heap'[n].offsets[j]>>) <=> InLeft(e))
    BY DEF InLeft
  <2>2. \A n, e : n = NewNode => ((\E j \in DOMAIN heap'[n].keys : e = <<heap'[n].keys[j], heap'[n].offsets[j]>>) <=> InRight(e))
    BY DEF InRight
  <2> QED
    BY <1>16, <1>17, <1>18, <1>19, <2>1, <2>2
<1>21. \A e : StoredEntry(e) <=> (\E i \in DOMAIN heap[cur].keys : e = EntryAt(cur, i))
                                 \/ \E n : Leaf(n) /\ n # cur /\ \E i \in DOMAIN heap[n].keys : e = EntryAt(n, i)
  BY <1>18 DEF StoredEntry
<1> QED
  BY <1>14, <1>15, <1>20, <1>21

\* Steps on internal nodes leave the entries alone.
LEMMA SameLeavesStore ==
    ASSUME \A n : Leaf(n)' <=> Leaf(n), \A n : Leaf(n) => heap'[n] = heap[n]
    PROVE  \A e : StoredEntry(e)' <=> StoredEntry(e)
<1>1. \A n, e : Leaf(n) => ((\E i \in DOMAIN heap'[n].keys : e = <<heap'[n].keys[i], heap'[n].offsets[i]>>)
                            <=> \E i \in DOMAIN heap[n].keys : e = EntryAt(n, i))
  BY DEF EntryAt
<1>2. \A e : StoredEntry(e)' <=>
        \E n : Leaf(n)' /\ \E j \in DOMAIN heap'[n].keys : e = <<heap'[n].keys[j], heap'[n].offsets[j]>>
  BY DEF StoredEntry, EntryAt
<1> DEFINE Now(n, e) == \E j \in DOMAIN heap'[n].keys : e = <<heap'[n].keys[j], heap'[n].offsets[j]>>
           Then(n, e) == \E i \in DOMAIN heap[n].keys : e = EntryAt(n, i)
<1>3. \A e : StoredEntry(e)' <=> \E n : Leaf(n)' /\ Now(n, e)
  BY <1>2
<1>4. \A e : StoredEntry(e) <=> \E n : Leaf(n) /\ Then(n, e)
  BY DEF StoredEntry
<1>5. \A n, e : Leaf(n) => (Now(n, e) <=> Then(n, e))
  BY <1>1
<1> HIDE DEF Now, Then
<1> QED
  BY <1>3, <1>4, <1>5

LEMMA InternalStores ==
    ASSUME SearchInv, InternalInsert \/ InternalSplit \/ NewRoot
    PROVE  \A e : StoredEntry(e)' <=> StoredEntry(e)
<1>1. TreeInv
  BY DEF SearchInv
<1>2. CASE InternalInsert
  <2>1. /\ AtParent /\ allocated' = allocated /\ ~heap'[Parent].is_leaf
        /\ \A n \in allocated : n # Parent => heap'[n] = heap[n]
    BY <1>1, <1>2, InternalInsertNodes DEF InternalInsert
  <2>2. ~heap[Parent].is_leaf
    BY <1>1, <2>1, ParentEntry
  <2> QED
    BY <2>1, <2>2, SameLeavesStore DEF Leaf
<1>3. CASE InternalSplit
  <2>1. /\ AtParent /\ allocated' = allocated \cup {NewNode} /\ ~heap'[Parent].is_leaf /\ ~heap'[NewNode].is_leaf
        /\ NewNode \notin allocated
        /\ \A n \in allocated : n # Parent => heap'[n] = heap[n]
    BY <1>1, <1>3, InternalSplitNodes DEF InternalSplit
  <2>2. ~heap[Parent].is_leaf
    BY <1>1, <2>1, ParentEntry
  <2> QED
    BY <2>1, <2>2, SameLeavesStore DEF Leaf
<1>4. CASE NewRoot
  <2>1. /\ allocated' = allocated \cup {NewNode} /\ ~heap'[NewNode].is_leaf /\ NewNode \notin allocated
        /\ \A n \in allocated : heap'[n] = heap[n]
    BY <1>1, <1>4, NewRootNodes, NewNodeIsNew DEF NewRoot
  <2> QED
    BY <2>1, SameLeavesStore DEF Leaf
<1> QED
  BY <1>2, <1>3, <1>4

LEMMA CreateRootStores ==
    ASSUME TreeInv, ChainInv, CreateRoot
    PROVE  \A e : ~StoredEntry(e) /\ ~StoredEntry(e)'
<1>1. PICK chain \in Seq(Nodes) : Chained(chain)
  BY DEF ChainInv
<1>2. /\ cur = Nil /\ pc = "descend" /\ allocated' = allocated \cup {NewNode}
      /\ heap'[NewNode].keys = <<>>
  BY CreateRootNodes DEF CreateRoot
<1>3. allocated = {}
  BY <1>1, <1>2 DEF TreeInv, CallShape, Chained, StartsLeft
<1>4. \A n : Leaf(n)' => n = NewNode
  BY <1>2, <1>3 DEF Leaf
<1>5. \A e : ~StoredEntry(e)
  BY <1>3 DEF StoredEntry, Leaf
<1>6. \A n : n = NewNode => DOMAIN heap'[n].keys = {}
  BY <1>2
<1>7. \A e : ~StoredEntry(e)'
  BY <1>4, <1>6 DEF StoredEntry
<1> QED
  BY <1>5, <1>7

LEMMA SameStores ==
    ASSUME UNCHANGED <<heap, allocated>>
    PROVE  \A e : StoredEntry(e)' <=> StoredEntry(e)
BY SameLeavesStore DEF Leaf

(* EntriesStay, for every order, every set of rows and every allocation that fails: *)
(* what once got into a leaf is found along the chain ever after, with its offset   *)
(* (bptree.c:133-187, 247-251, 351-354).                                            *)
THEOREM TreeEntriesStay == Spec => EntriesStay
<1> DEFINE Stay == ToSet(Chain) \subseteq ToSet(Chain')
           Stores == \A e : e \in ToSet(Chain) <=> StoredEntry(e)
<1>1. TreeInv /\ ChainInv => Stores
  BY ChainStores
<1>2. TreeInv' /\ ChainInv' => Stores'
  BY <1>1, PTL
<1>3. SearchInv /\ ChainInv /\ [Next]_vars => Stay \/ UNCHANGED vars
  <2> SUFFICES ASSUME SearchInv, ChainInv, [Next]_vars PROVE Stay \/ UNCHANGED vars
    OBVIOUS
  <2>1. TreeInv /\ TreeInv' /\ ChainInv'
    BY NextSearchInv, NextChainInv DEF SearchInv
  <2>2. \A e : e \in ToSet(Chain) <=> StoredEntry(e)
    BY <1>1, <2>1
  <2>3. \A e : e \in ToSet(Chain') <=> StoredEntry(e)'
    BY <1>2, <2>1
  <2>4. \A e : StoredEntry(e) => StoredEntry(e)'
    <3>1. CASE UNCHANGED <<heap, allocated>>
      BY <3>1, SameStores
    <3>2. CASE LeafInsert \/ LeafSplit
      BY <2>1, <3>2, LeafInsertStores, LeafSplitStores
    <3>3. CASE InternalInsert \/ InternalSplit \/ NewRoot
      BY <3>3, InternalStores
    <3>4. CASE CreateRoot
      BY <2>1, <3>4, CreateRootStores
    <3> QED
      BY <3>1, <3>2, <3>3, <3>4
         DEF Next, InsertStep, vars, InsertCall, CreateRootFails, Descend, LeafDuplicate, LeafSplitFails,
             InternalSplitFails, NewRootFails
  <2> QED
    BY <2>2, <2>3, <2>4
<1>4. SearchInv /\ ChainInv /\ [Next]_vars => [Stay]_vars
  BY <1>3
<1> HIDE DEF Stay
<1> QED
  BY <1>4, ChainInvHolds, PTL DEF Spec, EntriesStay, Stay

-----------------------------------------------------------------------------
(* The map: the keys that a search brings to each node. *)

\* Each leaf's range lies before those of the leaves behind it.
Apart(chain, range) ==
    \A i, j \in DOMAIN chain : i < j =>
        \A a \in range[chain[i]], b \in range[chain[j]] : a < b

LeavesHold(range) == \A n : Leaf(n) => HoldsKeys(range, n)

\* Until its parent knows of it, a split node stands for both halves.
Waits(n, i) == pc = "ascend" /\ path # <<>> /\ n = Parent /\ i = path[1].position
InHalves(range, k) == IF k < up.key THEN k \in range[cur] ELSE k \in range[up.right]

Routes(range) ==
    \A n, i, c : ChildAt(n, i, c) =>
        \A k \in range[n] : InSlot(heap[n].keys, i, k) =>
            IF Waits(n, i) THEN InHalves(range, k) ELSE k \in range[c]

RootTakesAll(range) ==
    root # Nil => \A k \in Int :
        IF pc = "ascend" /\ path = <<>> THEN InHalves(range, k) ELSE k \in range[root]

CallInRange(range) == pc = "descend" /\ cur # Nil => call.key \in range[cur]

Ranged(chain, range) ==
    Apart(chain, range) /\ LeavesHold(range) /\ Routes(range) /\ RootTakesAll(range) /\ CallInRange(range)

RangeInv ==
    \E chain \in Seq(Nodes), range \in [Nodes -> SUBSET Int] : Chained(chain) /\ Ranged(chain, range)

-----------------------------------------------------------------------------
(* The ranges after a step. *)

\* Steps on the way down that change no node.
LEMMA StillRanged ==
    ASSUME NEW chain, NEW range, Ranged(chain, range), UNCHANGED <<heap, allocated, root>>,
           pc # "ascend", pc' # "ascend", CallInRange(range)'
    PROVE  Ranged(chain, range)'
<1>1. \A n, i, c : ChildAt(n, i, c)' <=> ChildAt(n, i, c)
  BY DEF ChildAt
<1>2. Apart(chain, range)'
  BY DEF Ranged, Apart
<1>3. LeavesHold(range)'
  BY DEF Ranged, LeavesHold, Leaf, HoldsKeys
<1>4. Routes(range)'
  BY <1>1 DEF Ranged, Routes, Waits
<1>5. RootTakesAll(range)'
  BY DEF Ranged, RootTakesAll
<1> QED
  BY <1>2, <1>3, <1>4, <1>5 DEF Ranged

LEMMA RefusedKeepsRange ==
    ASSUME TreeInv, RangeInv, pc = "descend", Return("refused"), UNCHANGED <<heap, allocated, root>>
    PROVE  RangeInv'
<1>1. PICK chain \in Seq(Nodes), range \in [Nodes -> SUBSET Int] : Chained(chain) /\ Ranged(chain, range)
  BY DEF RangeInv
<1>2. pc' = "idle"
  BY DEF Return
<1>3. CallInRange(range)'
  BY <1>2 DEF CallInRange
<1>4. Ranged(chain, range)'
  BY <1>1, <1>2, <1>3, StillRanged
<1>5. Chained(chain)'
  BY <1>1, UnchangedLinks
<1> QED
  BY <1>4, <1>5 DEF RangeInv

LEMMA CallKeepsRange ==
    ASSUME TreeInv, RangeInv, NEW row \in Rows, InsertCall(row[1], row[2])
    PROVE  RangeInv'
<1>1. /\ pc = "idle" /\ pc' = "descend" /\ call' = [key |-> row[1], offset |-> row[2]]
      /\ cur' = root /\ UNCHANGED <<heap, allocated, root>>
  BY DEF InsertCall
<1>2. PICK chain \in Seq(Nodes), range \in [Nodes -> SUBSET Int] : Chained(chain) /\ Ranged(chain, range)
  BY DEF RangeInv
<1>3. call'.key \in Int
  BY <1>1, RowTypes DEF Keys
<1>4. CallInRange(range)'
  BY <1>1, <1>2, <1>3 DEF CallInRange, Ranged, RootTakesAll
<1>5. Ranged(chain, range)'
  BY <1>1, <1>2, <1>4, StillRanged
<1>6. Chained(chain)'
  BY <1>1, <1>2, UnchangedLinks
<1> QED
  BY <1>5, <1>6 DEF RangeInv

\* find_child_position takes a key to the child whose slot it lies in.
LEMMA SlotOfKey ==
    ASSUME TreeInv, NEW n \in allocated, ~heap[n].is_leaf, NEW key \in Int
    PROVE  LET position == find_child_position(heap[n].keys, key)
           IN  InSlot(heap[n].keys, position, key) /\ ChildAt(n, position, heap[n].children[position])
<1> DEFINE keys == heap[n].keys
           stops == {i \in DOMAIN keys : keys[i] > key}
           position == find_child_position(keys, key)
<1>1. /\ keys \in Seq(Keys) /\ Len(keys) \in Nat /\ DOMAIN keys = 1 .. Len(keys)
      /\ \A i \in DOMAIN keys : keys[i] \in Int
      /\ DOMAIN heap[n].children = 1 .. Len(keys) + 1
  BY NodeFacts
<1>2. position = FirstPosition(keys, stops)
  BY DEF find_child_position
<1>3. /\ \A i \in stops : i \in DOMAIN keys /\ keys[i] > key
      /\ \A i \in DOMAIN keys : i \notin stops => keys[i] <= key
  BY <1>1
<1> HIDE DEF keys, stops, position
<1>4. position \in 1 .. Len(keys) + 1
  BY <1>1, <1>2, <1>3, PositionBound
<1>5. /\ \A j \in stops : position <= j
      /\ position <= Len(keys) => position \in stops
  BY <1>1, <1>2, <1>3, PositionIsFirst
<1>6. position <= Len(keys) => key < keys[position]
  BY <1>1, <1>3, <1>5
<1>7. position > 1 => keys[position - 1] <= key
  <2> SUFFICES ASSUME position > 1 PROVE keys[position - 1] <= key
    OBVIOUS
  <2>1. position - 1 \in DOMAIN keys /\ ~(position <= position - 1)
    BY <1>1, <1>4
  <2> QED
    BY <1>3, <1>5, <2>1
<1>8. InSlot(keys, position, key)
  BY <1>6, <1>7 DEF InSlot
<1>9. ChildAt(n, position, heap[n].children[position])
  BY <1>1, <1>4 DEF ChildAt
<1> QED
  BY <1>8, <1>9 DEF keys, position

LEMMA DescendKeepsRange ==
    ASSUME TreeInv, RangeInv, Descend
    PROVE  RangeInv'
<1>1. /\ pc = "descend" /\ pc' = pc /\ cur # Nil /\ ~heap[cur].is_leaf
      /\ cur' = heap[cur].children[find_child_position(heap[cur].keys, call.key)]
      /\ UNCHANGED <<heap, allocated, root, call>>
  BY DEF Descend
<1>2. PICK chain \in Seq(Nodes), range \in [Nodes -> SUBSET Int] : Chained(chain) /\ Ranged(chain, range)
  BY DEF RangeInv
<1>3. cur \in allocated /\ call.key \in Int
  BY <1>1, RowTypes DEF TreeInv, CallShape
<1>4. PICK i : InSlot(heap[cur].keys, i, call.key) /\ ChildAt(cur, i, cur')
  BY <1>1, <1>3, SlotOfKey
<1>5. call.key \in range[cur']
  BY <1>1, <1>2, <1>4 DEF Ranged, Routes, Waits, CallInRange
<1>6. CallInRange(range)'
  BY <1>1, <1>5 DEF CallInRange
<1>7. Ranged(chain, range)'
  BY <1>1, <1>2, <1>6, StillRanged
<1>8. Chained(chain)'
  BY <1>1, <1>2, UnchangedLinks
<1> QED
  BY <1>7, <1>8 DEF RangeInv

LEMMA CreateRootKeepsRange ==
    ASSUME TreeInv, RangeInv, CreateRoot
    PROVE  RangeInv'
<1> DEFINE range == [n \in Nodes |-> Int]
<1>1. /\ pc = "descend" /\ cur = Nil /\ pc' = pc /\ UNCHANGED <<call, path>>
      /\ allocated' = allocated \cup {NewNode} /\ root' = NewNode /\ cur' = NewNode
  BY DEF CreateRoot
<1>2. /\ NewNode \notin allocated /\ NewNode \in Nodes /\ heap'[NewNode].is_leaf /\ heap'[NewNode].keys = <<>>
  BY CreateRootNodes
<1>3. PICK chain \in Seq(Nodes) : Chained(chain)
  BY DEF RangeInv
<1>4. allocated = {} /\ root = Nil
  BY <1>1, <1>3 DEF TreeInv, CallShape, Chained, StartsLeft
<1>5. \A first : first = <<NewNode>> => first \in Seq(Nodes) /\ Chained(first)'
  BY <1>3, CreateRootLinks
<1>6. PICK first : first = <<NewNode>>
  OBVIOUS
<1>7. first \in Seq(Nodes) /\ Chained(first)'
  BY <1>5, <1>6
<1>8. range \in [Nodes -> SUBSET Int] /\ \A k \in Int : \A n \in Nodes : k \in range[n]
  OBVIOUS
<1> HIDE DEF range
<1>9. \A n \in allocated' : n = NewNode
  BY <1>1, <1>4
<1>10. Apart(first, range)'
  <2>1. \A i, j \in DOMAIN first : ~(i < j)
    BY <1>6
  <2> QED
    BY <2>1 DEF Apart
<1>11. LeavesHold(range)'
  <2>1. \A n : n = NewNode => DOMAIN heap'[n].keys = {}
    BY <1>2
  <2> QED
    BY <1>9, <2>1 DEF LeavesHold, Leaf, HoldsKeys
<1>12. Routes(range)'
  BY <1>2, <1>9 DEF Routes, ChildAt
<1>13. RootTakesAll(range)'
  BY <1>1, <1>2, <1>8 DEF RootTakesAll
<1>14. CallInRange(range)'
  <2>1. call.key \in Int
    BY <1>1, RowTypes DEF TreeInv, CallShape
  <2> QED
    BY <1>1, <1>2, <1>8, <2>1 DEF CallInRange
<1>15. Ranged(first, range)'
  BY <1>10, <1>11, <1>12, <1>13, <1>14 DEF Ranged
<1> QED
  BY <1>7, <1>8, <1>15 DEF RangeInv

LEMMA LeafInsertKeepsRange ==
    ASSUME SearchInv, RangeInv, LeafInsert
    PROVE  RangeInv'
<1>1. AtLeaf /\ ~IsDuplicate /\ Return("ok") /\ UNCHANGED <<allocated, root>>
  BY DEF LeafInsert
<1>2. /\ heap'[cur].is_leaf /\ heap'[cur].keys = NewLeafKeys
      /\ \A n \in allocated : n # cur => heap'[n] = heap[n]
  BY LeafInsertNodes DEF SearchInv
<1>3. cur \in allocated /\ heap[cur].is_leaf /\ pc = "descend" /\ pc' = "idle" /\ cur # Nil
  BY <1>1, LeafEntry DEF SearchInv, AtLeaf, Return
<1>4. PICK chain \in Seq(Nodes), range \in [Nodes -> SUBSET Int] : Chained(chain) /\ Ranged(chain, range)
  BY DEF RangeInv
<1>5. \A n, i, c : ChildAt(n, i, c)' <=> ChildAt(n, i, c)
  BY <1>1, <1>2, <1>3 DEF ChildAt
<1>6. \A n, i, c : ChildAt(n, i, c) => heap'[n] = heap[n]
  BY <1>2, <1>3 DEF ChildAt
<1>7. \A n : Leaf(n)' <=> Leaf(n)
  BY <1>1, <1>2, <1>3 DEF Leaf
<1>8. LeavesHold(range)'
  <2>1. \A n : n = cur => HoldsKeys(range, n)'
    <3>1. call.key \in range[cur] /\ \A i \in DOMAIN heap[cur].keys : heap[cur].keys[i] \in range[cur]
      BY <1>3, <1>4 DEF Ranged, CallInRange, LeavesHold, Leaf, HoldsKeys
    <3>2. \A i \in DOMAIN NewLeafKeys :
            NewLeafKeys[i] = call.key \/ \E j \in DOMAIN heap[cur].keys : NewLeafKeys[i] = heap[cur].keys[j]
      BY <1>1, LeafKeysGrow DEF SearchInv
    <3>3. \A i \in DOMAIN NewLeafKeys : NewLeafKeys[i] \in range[cur]
      BY <3>1, <3>2
    <3> QED
      BY <1>2, <3>3 DEF HoldsKeys
  <2>2. \A n : Leaf(n) /\ n # cur => HoldsKeys(range, n)'
    BY <1>2, <1>4 DEF Ranged, LeavesHold, Leaf, HoldsKeys
  <2> QED
    BY <1>7, <2>1, <2>2 DEF LeavesHold
<1>9. Routes(range)'
  BY <1>3, <1>4, <1>5, <1>6 DEF Ranged, Routes, Waits
<1>10. RootTakesAll(range)'
  BY <1>1, <1>3, <1>4 DEF Ranged, RootTakesAll
<1>11. CallInRange(range)' /\ Apart(chain, range)'
  BY <1>3, <1>4 DEF CallInRange, Ranged, Apart
<1>12. Ranged(chain, range)'
  BY <1>8, <1>9, <1>10, <1>11 DEF Ranged
<1>13. Chained(chain)'
  BY <1>4, LeafInsertLinks DEF SearchInv
<1> QED
  BY <1>12, <1>13 DEF RangeInv

\* The keys of a split leaf lie in the halves of its range.
LEMMA SplitLeafHolds ==
    ASSUME SearchInv, LeafSplit, NEW range \in [Nodes -> SUBSET Int],
           LeavesHold(range), CallInRange(range),
           NEW halves, Halved(halves, range, cur, NewNode, up'.key)
    PROVE  LeavesHold(halves)'
<1> DEFINE left == SubSeq(NewLeafKeys, 1, SplitIndex)
           right == SubSeq(NewLeafKeys, SplitIndex + 1, TotalCount)
           mid == NewLeafKeys[SplitIndex + 1]
<1>1. AtLeaf /\ ~IsDuplicate /\ allocated' = allocated \cup {NewNode}
  BY DEF LeafSplit
<1>2. /\ NewNode \notin allocated /\ NewNode \in Nodes
      /\ heap'[cur].is_leaf /\ heap'[cur].keys = left
      /\ heap'[NewNode].is_leaf /\ heap'[NewNode].keys = right
      /\ \A n \in allocated : n # cur => heap'[n] = heap[n]
  BY LeafSplitNodes DEF SearchInv
<1>3. /\ DOMAIN left = 1 .. SplitIndex /\ DOMAIN right = 1 .. TotalCount - SplitIndex
      /\ \A i \in 1 .. SplitIndex : left[i] = NewLeafKeys[i] /\ NewLeafKeys[i] < mid
      /\ \A i \in 1 .. TotalCount - SplitIndex :
           right[i] = NewLeafKeys[SplitIndex + i] /\ mid <= NewLeafKeys[SplitIndex + i]
      /\ DOMAIN NewLeafKeys = 1 .. TotalCount /\ up'.key = mid
  BY LeafHalves
<1> HIDE DEF left, right, mid
<1>4. \A i \in DOMAIN NewLeafKeys : NewLeafKeys[i] \in range[cur]
  <2>1. cur \in allocated /\ heap[cur].is_leaf /\ pc = "descend" /\ cur # Nil
    BY <1>1, LeafEntry DEF SearchInv, AtLeaf
  <2>2. call.key \in range[cur] /\ \A i \in DOMAIN heap[cur].keys : heap[cur].keys[i] \in range[cur]
    BY <2>1 DEF CallInRange, LeavesHold, Leaf, HoldsKeys
  <2>3. \A i \in DOMAIN NewLeafKeys :
          NewLeafKeys[i] = call.key \/ \E j \in DOMAIN heap[cur].keys : NewLeafKeys[i] = heap[cur].keys[j]
    BY <1>1, LeafKeysGrow DEF SearchInv
  <2> QED
    BY <2>2, <2>3
<1>5. /\ SplitIndex \in Nat /\ TotalCount \in Nat /\ SplitIndex < TotalCount
  BY Sizes, OrderAssumption DEF MAX_KEYS
<1>6. /\ halves[cur] = {k \in range[cur] : k < mid}
      /\ halves[NewNode] = {k \in range[cur] : mid <= k}
      /\ \A n \in allocated : n # cur => halves[n] = range[n]
  BY <1>3 DEF Halved
<1>7. \A n : n = cur => HoldsKeys(halves, n)'
  <2>1. \A i \in 1 .. SplitIndex : i \in 1 .. TotalCount
    BY <1>5
  <2>2. \A i \in 1 .. SplitIndex : left[i] \in halves[cur]
    BY <1>3, <1>4, <1>6, <2>1
  <2> QED
    BY <1>2, <1>3, <2>2 DEF HoldsKeys
<1>8. \A n : n = NewNode => HoldsKeys(halves, n)'
  <2>1. \A i \in 1 .. TotalCount - SplitIndex : SplitIndex + i \in 1 .. TotalCount
    BY <1>5
  <2>2. \A i \in 1 .. TotalCount - SplitIndex : right[i] \in halves[NewNode]
    BY <1>3, <1>4, <1>6, <2>1
  <2> QED
    BY <1>2, <1>3, <2>2 DEF HoldsKeys
<1>9. \A n : n \in allocated /\ n # cur /\ heap'[n].is_leaf => HoldsKeys(halves, n)'
  BY <1>2, <1>6 DEF LeavesHold, Leaf, HoldsKeys
<1> QED
  BY <1>1, <1>7, <1>8, <1>9 DEF LeavesHold, Leaf

\* Both halves keep to the left of what the leaf kept to the left of, and to the right.
LEMMA SplitLeafApart ==
    ASSUME TreeInv, NEW chain \in Seq(Nodes), Linked(chain), NEW range \in [Nodes -> SUBSET Int],
           Apart(chain, range), NEW new \in Nodes, new \notin allocated, NEW p \in DOMAIN chain, NEW mid \in Int,
           NEW halves, Halved(halves, range, chain[p], new, mid),
           NEW longer, longer = InsertAt(chain, p + 1, new)
    PROVE  Apart(longer, halves)
<1> DEFINE L == Len(chain)
           Old(j) == IF j <= p THEN j ELSE j - 1
<1>1. L \in Nat /\ DOMAIN chain = 1 .. L /\ p \in 1 .. L
  BY LenProperties
<1>2. p + 1 \in 1 .. L + 1
  BY <1>1
<1>3. /\ DOMAIN longer = 1 .. L + 1
      /\ \A j \in 1 .. L + 1 :
           longer[j] = IF j < p + 1 THEN chain[j] ELSE IF j = p + 1 THEN new ELSE chain[j - 1]
  <2>1. \A q \in 1 .. L + 1 : Widened(InsertAt(chain, q, new), chain, q, new, Nodes)
    BY InsertWidens
  <2>2. Widened(longer, chain, p + 1, new, Nodes)
    BY <1>2, <2>1
  <2> QED
    BY <2>2 DEF Widened
<1> HIDE DEF L
<1>4. /\ halves[chain[p]] = {k \in range[chain[p]] : k < mid}
      /\ halves[new] = {k \in range[chain[p]] : mid <= k}
      /\ \A m \in allocated : halves[m] \subseteq range[m]
  BY DEF Halved
<1>5. \A j \in 1 .. L : chain[j] \in allocated /\ range[chain[j]] \subseteq Int
  BY <1>1 DEF Linked, Leaf, TreeInv, TypeOK
<1>6. ASSUME NEW j \in 1 .. L + 1
      PROVE  Old(j) \in 1 .. L /\ halves[longer[j]] \subseteq range[chain[Old(j)]]
  <2>1. CASE j < p + 1
    <3>1. j \in 1 .. L /\ j <= p
      BY <1>1, <2>1
    <3> QED
      BY <1>3, <1>4, <1>5, <2>1, <3>1
  <2>2. CASE j = p + 1
    <3>1. ~(j < p + 1) /\ ~(j <= p) /\ j - 1 = p
      BY <1>1, <2>2
    <3> QED
      BY <1>1, <1>3, <1>4, <2>2, <3>1
  <2>3. CASE j > p + 1
    <3>1. ~(j < p + 1) /\ ~(j <= p) /\ j # p + 1 /\ j - 1 \in 1 .. L
      BY <1>1, <2>3
    <3> QED
      BY <1>3, <1>4, <1>5, <3>1
  <2> QED
    BY <1>1, <2>1, <2>2, <2>3
<1>7. ASSUME NEW i \in 1 .. L + 1, NEW j \in 1 .. L + 1, i < j,
             NEW a \in halves[longer[i]], NEW b \in halves[longer[j]]
      PROVE  a < b
  <2>1. \/ Old(i) < Old(j)
        \/ i = p /\ j = p + 1
    BY <1>1, <1>7
  <2>2. CASE Old(i) < Old(j)
    <3>1. Old(i) \in DOMAIN chain /\ Old(j) \in DOMAIN chain
      BY <1>1, <1>6
    <3>2. a \in range[chain[Old(i)]] /\ b \in range[chain[Old(j)]]
      BY <1>6, <1>7
    <3> HIDE DEF Old
    <3> QED
      BY <2>2, <3>1, <3>2 DEF Apart
  <2>3. CASE i = p /\ j = p + 1
    <3>1. longer[i] = chain[p] /\ longer[j] = new
      BY <1>1, <1>3, <2>3
    <3>2. a \in range[chain[p]] /\ b \in range[chain[p]] /\ a < mid /\ mid <= b
      BY <1>4, <1>7, <3>1
    <3> QED
      BY <1>1, <1>5, <3>2
  <2> QED
    BY <2>1, <2>2, <2>3
<1> QED
  BY <1>3, <1>7 DEF Apart

\* The node that the call has reached is the child that the path came through.
LEMMA PathEndsHere ==
    ASSUME TreeInv, PathLinked, path # <<>>
    PROVE  ChildAt(Parent, path[1].position, cur)
<1>1. path \in Seq([node : Nodes, position : Nat])
  BY DEF TreeInv, TypeOK
<1>2. Len(path) \in Nat \ {0} /\ DOMAIN path = 1 .. Len(path)
  BY <1>1, EmptySeq, LenProperties
<1>3. 1 \in DOMAIN path
  BY <1>2
<1> QED
  BY <1>3 DEF PathLinked, Parent

LEMMA LeafSplitKeepsRange ==
    ASSUME SearchInv, RangeInv, LeafSplit
    PROVE  RangeInv'
<1>1. /\ AtLeaf /\ ~IsDuplicate /\ allocated' = allocated \cup {NewNode}
      /\ pc' = "ascend" /\ UNCHANGED <<root, call, cur, path>>
  BY DEF LeafSplit
<1>2. /\ NewNode \notin allocated /\ NewNode \in Nodes
      /\ heap'[cur].is_leaf /\ heap'[NewNode].is_leaf
      /\ \A n \in allocated : n # cur => heap'[n] = heap[n]
  BY LeafSplitNodes DEF SearchInv
<1>3. /\ cur \in allocated /\ cur \in Nodes /\ heap[cur].is_leaf /\ pc = "descend" /\ cur # Nil
      /\ cur # NewNode
  BY <1>1, <1>2, LeafEntry DEF SearchInv, AtLeaf
<1>4. up'.key \in Int /\ up'.right = NewNode
  BY LeafHalves
<1>5. PICK chain \in Seq(Nodes), range \in [Nodes -> SUBSET Int] : Chained(chain) /\ Ranged(chain, range)
  BY DEF RangeInv
<1>6. PICK halves \in [Nodes -> SUBSET Int] : Halved(halves, range, cur, NewNode, up'.key)
  BY <1>2, <1>3, <1>4, UnderHalves DEF SearchInv
<1>7. /\ \A k \in range[cur] : IF k < up'.key THEN k \in halves[cur] ELSE k \in halves[NewNode]
      /\ \A n \in allocated : n # cur => halves[n] = range[n]
  <2>1. \A k \in range[cur] : k \in Int /\ (k < up'.key \/ up'.key <= k)
    BY <1>3, <1>4
  <2> QED
    BY <1>6, <2>1 DEF Halved
<1>8. PICK p \in DOMAIN chain : chain[p] = cur
  BY <1>1, <1>5, LeafOnChain DEF SearchInv
<1>9. PICK longer : longer = InsertAt(chain, p + 1, NewNode)
  OBVIOUS
<1>10. longer \in Seq(Nodes) /\ Chained(longer)'
  BY <1>5, <1>8, <1>9, SplitLeafLinks DEF SearchInv
<1>11. Apart(longer, halves)
  BY <1>2, <1>4, <1>5, <1>6, <1>8, <1>9, SplitLeafApart DEF SearchInv, Chained, Ranged
<1>12. LeavesHold(halves)'
  BY <1>5, <1>6, SplitLeafHolds DEF Ranged
<1>13. \A k \in range[cur] : InHalves(halves, k)'
  BY <1>1, <1>4, <1>7 DEF InHalves
<1>14. \A n, i, c : ChildAt(n, i, c)' <=> ChildAt(n, i, c)
  BY <1>1, <1>2, <1>3 DEF ChildAt
<1>15. path # <<>> => ChildAt(Parent, path[1].position, cur)
  BY PathEndsHere DEF SearchInv
<1>16. path = <<>> => cur = root
  BY <1>3 DEF SearchInv, TreeInv, CallShape
<1>17. Routes(halves)'
  <2> SUFFICES ASSUME NEW n, NEW i, NEW c, ChildAt(n, i, c),
                      NEW k \in halves[n], InSlot(heap'[n].keys, i, k)
               PROVE  IF Waits(n, i)' THEN InHalves(halves, k)' ELSE k \in halves[c]
    BY <1>14 DEF Routes
  <2>1. n \in allocated /\ n # cur /\ c \in allocated
    BY <1>3, ChildFacts DEF SearchInv, ChildAt
  <2>2. k \in range[c]
    BY <1>2, <1>3, <1>5, <1>7, <2>1 DEF Ranged, Routes, Waits
  <2>3. Waits(n, i)' <=> path # <<>> /\ n = Parent /\ i = path[1].position
    BY <1>1 DEF Waits, Parent
  <2>4. Waits(n, i)' <=> c = cur
    <3>1. ASSUME c = cur PROVE path # <<>> /\ n = Parent /\ i = path[1].position
      <4>1. path # <<>>
        BY <1>16, <3>1 DEF SearchInv, OneParent, NoParent
      <4>2. ChildAt(Parent, path[1].position, cur) /\ ChildAt(n, i, cur)
        BY <1>15, <3>1, <4>1
      <4> QED
        BY <4>1, <4>2 DEF SearchInv, OneParent
    <3>2. ASSUME path # <<>>, n = Parent, i = path[1].position PROVE c = cur
      BY <1>15, <3>2 DEF ChildAt
    <3> QED
      BY <2>3, <3>1, <3>2
  <2> QED
    BY <1>7, <1>13, <2>1, <2>2, <2>4
<1>18. RootTakesAll(halves)'
  <2>1. root # Nil => root \in allocated
    BY DEF SearchInv, TreeInv, TypeOK
  <2>2. root # Nil => \A k \in Int : k \in range[root]
    BY <1>3, <1>5 DEF Ranged, RootTakesAll
  <2>3. path = <<>> <=> cur = root
    BY <1>15, <1>16 DEF SearchInv, OneParent, NoParent
  <2> QED
    BY <1>1, <1>7, <1>13, <2>1, <2>2, <2>3 DEF RootTakesAll
<1>19. CallInRange(halves)'
  BY <1>1 DEF CallInRange
<1>20. Ranged(longer, halves)'
  BY <1>11, <1>12, <1>17, <1>18, <1>19 DEF Ranged, Apart
<1> QED
  BY <1>6, <1>10, <1>20 DEF RangeInv

-----------------------------------------------------------------------------
(* The steps on the way back. *)

\* The longer parent sends a key where the two halves belong.
LEMMA ParentRoutes ==
    ASSUME SearchInv, AtParent, NEW range \in [Nodes -> SUBSET Int], Routes(range)
    PROVE  \A j \in DOMAIN NewParentChildren : \A k \in range[Parent] :
             InSlot(NewParentKeys, j, k) => k \in range[NewParentChildren[j]]
<1> DEFINE keys == heap[Parent].keys
           children == heap[Parent].children
           place == path[1].position
           size == Len(keys)
           right == up.right
           key == up.key
<1>1. /\ pc = "ascend" /\ path # <<>> /\ place \in 1 .. size + 1 /\ key \in Int
      /\ children[place] = cur
      /\ Len(NewParentKeys) = size + 1 /\ DOMAIN NewParentKeys = 1 .. size + 1
      /\ DOMAIN NewParentChildren = 1 .. size + 2
  BY ParentPlaces DEF SearchInv
<1>2. \A j \in 1 .. size + 1 :
        NewParentKeys[j] = IF j < place THEN keys[j] ELSE IF j = place THEN key ELSE keys[j - 1]
  BY ParentPlaces DEF SearchInv
<1>3. \A j \in 1 .. size + 2 :
        NewParentChildren[j] = IF j < place + 1 THEN children[j]
                               ELSE IF j = place + 1 THEN right ELSE children[j - 1]
  BY ParentPlaces DEF SearchInv
<1>4. Parent \in allocated /\ Parent \in Nodes /\ ~heap[Parent].is_leaf
  BY ParentEntry DEF SearchInv
<1>5. /\ size \in Nat /\ DOMAIN keys = 1 .. size /\ DOMAIN children = 1 .. size + 1
      /\ \A i \in 1 .. size : keys[i] \in Int
  BY <1>4, NodeFacts DEF SearchInv
<1>6. ASSUME NEW j \in 1 .. size + 1, j # place, NEW k \in range[Parent], InSlot(keys, j, k)
      PROVE  k \in range[children[j]]
  <2>1. ChildAt(Parent, j, children[j]) /\ ~Waits(Parent, j)
    BY <1>4, <1>5, <1>6 DEF ChildAt, Waits
  <2> QED
    BY <1>6, <2>1 DEF Routes
<1>7. ASSUME NEW k \in range[Parent], InSlot(keys, place, k)
      PROVE  IF k < key THEN k \in range[cur] ELSE k \in range[right]
  <2>1. ChildAt(Parent, place, cur) /\ Waits(Parent, place)
    BY <1>1, <1>4, <1>5 DEF ChildAt, Waits
  <2> QED
    BY <1>7, <2>1 DEF Routes, InHalves
<1>8. Ascending(NewParentKeys)
  BY ParentKeysGrow
<1>9. range[Parent] \subseteq Int
  BY <1>4
<1> HIDE DEF keys, children, place, size, right, key
<1>10. place <= size => key < keys[place]
  <2> SUFFICES ASSUME place <= size PROVE key < keys[place]
    OBVIOUS
  <2>1. place \in 1 .. size + 1 /\ place + 1 \in 1 .. size + 1 /\ place < place + 1 /\ (place + 1) - 1 = place
        /\ ~(place + 1 < place) /\ place + 1 # place /\ ~(place < place)
    BY <1>1, <1>5
  <2>2. NewParentKeys[place] = key /\ NewParentKeys[place + 1] = keys[place]
    BY <1>2, <2>1
  <2> QED
    BY <1>1, <1>8, <2>1, <2>2 DEF Ascending
<1>11. place > 1 => keys[place - 1] < key
  <2> SUFFICES ASSUME place > 1 PROVE keys[place - 1] < key
    OBVIOUS
  <2>1. place \in 1 .. size + 1 /\ place - 1 \in 1 .. size + 1 /\ place - 1 < place /\ ~(place < place)
    BY <1>1, <1>5
  <2>2. NewParentKeys[place] = key /\ NewParentKeys[place - 1] = keys[place - 1]
    BY <1>2, <2>1
  <2> QED
    BY <1>1, <1>8, <2>1, <2>2 DEF Ascending
<1>12. ASSUME NEW j \in 1 .. size + 2, NEW k \in range[Parent], InSlot(NewParentKeys, j, k)
       PROVE  k \in range[NewParentChildren[j]]
  <2>1. place \in Int /\ j \in Int /\ k \in Int
    BY <1>1, <1>5, <1>9
  <2>2. /\ j <= size + 1 => k < NewParentKeys[j]
        /\ j > 1 => NewParentKeys[j - 1] <= k
    BY <1>1, <1>12 DEF InSlot
  <2>3. CASE j < place
    <3>1. j \in 1 .. size + 1 /\ j <= size /\ NewParentChildren[j] = children[j] /\ j # place
      BY <1>1, <1>3, <1>5, <2>1, <2>3
    <3>2. NewParentKeys[j] = keys[j]
      BY <1>2, <2>3, <3>1
    <3>3. j > 1 => NewParentKeys[j - 1] = keys[j - 1]
      <4> SUFFICES ASSUME j > 1 PROVE NewParentKeys[j - 1] = keys[j - 1]
        OBVIOUS
      <4>1. j - 1 \in 1 .. size + 1 /\ j - 1 < place
        BY <1>5, <2>1, <2>3, <3>1
      <4> QED
        BY <1>2, <4>1
    <3>4. InSlot(keys, j, k)
      BY <1>5, <2>1, <2>2, <3>1, <3>2, <3>3 DEF InSlot
    <3> QED
      BY <1>6, <3>1, <3>4
  <2>4. CASE j = place \/ j = place + 1
    <3>1. /\ j = place => NewParentChildren[j] = cur
          /\ j = place + 1 => NewParentChildren[j] = right
      BY <1>1, <1>3, <1>5, <2>1
    <3>2. /\ NewParentKeys[place] = key
          /\ place > 1 => NewParentKeys[place - 1] = keys[place - 1]
          /\ place <= size => NewParentKeys[place + 1] = keys[place]
      <4>1. place \in 1 .. size + 1 /\ ~(place < place)
        BY <1>1, <2>1
      <4>2. place > 1 => place - 1 \in 1 .. size + 1 /\ place - 1 < place
        BY <1>1, <1>5
      <4>3. place <= size =>
              /\ place + 1 \in 1 .. size + 1 /\ ~(place + 1 < place)
              /\ place + 1 # place /\ (place + 1) - 1 = place
        BY <1>1, <1>5
      <4> QED
        BY <1>2, <4>1, <4>2, <4>3
    <3>3. CASE j = place
      <4>1. k < key
        BY <1>1, <1>5, <2>2, <3>2, <3>3
      <4>2. place <= size => k < keys[place]
        <5>1. place <= size => keys[place] \in Int
          BY <1>1, <1>5
        <5> QED
          BY <1>1, <1>10, <2>1, <4>1, <5>1
      <4>3. place > 1 => keys[place - 1] <= k
        BY <2>2, <3>2, <3>3
      <4>4. InSlot(keys, place, k)
        BY <4>2, <4>3 DEF InSlot, size
      <4> QED
        BY <1>7, <3>1, <3>3, <4>1, <4>4
    <3>4. CASE j = place + 1
      <4>1. key <= k
        <5>1. j > 1 /\ j - 1 = place
          BY <1>1, <1>5, <3>4
        <5> QED
          BY <2>2, <3>2, <5>1
      <4>2. place <= size => k < keys[place]
        <5>1. place <= size => j <= size + 1
          BY <1>1, <1>5, <3>4
        <5> QED
          BY <2>2, <3>2, <3>4, <5>1
      <4>3. place > 1 => keys[place - 1] <= k
        <5>1. place > 1 => keys[place - 1] \in Int
          BY <1>1, <1>5
        <5> QED
          BY <1>1, <1>11, <2>1, <4>1, <5>1
      <4>4. InSlot(keys, place, k) /\ ~(k < key)
        BY <1>1, <2>1, <4>1, <4>2, <4>3 DEF InSlot, size
      <4> QED
        BY <1>7, <3>1, <3>4, <4>4
    <3> QED
      BY <2>4, <3>3, <3>4
  <2>5. CASE j > place + 1
    <3>1. j - 1 \in 1 .. size + 1 /\ j - 1 # place /\ NewParentChildren[j] = children[j - 1]
      <4>1. j - 1 \in 1 .. size + 1 /\ ~(j < place + 1) /\ j # place + 1 /\ j - 1 # place
        BY <1>1, <1>5, <2>1, <2>5
      <4> QED
        BY <1>3, <4>1, Zenon
    <3>2. j - 1 <= size => k < keys[j - 1]
      <4> SUFFICES ASSUME j - 1 <= size PROVE k < keys[j - 1]
        OBVIOUS
      <4>1. j \in 1 .. size + 1 /\ j <= size + 1 /\ ~(j < place) /\ j # place
        BY <1>1, <1>5, <2>1, <2>5
      <4> QED
        BY <1>2, <2>2, <4>1
    <3>3. keys[(j - 1) - 1] <= k
      <4>1. j > 1 /\ ~(j - 1 < place) /\ j - 1 # place
        BY <1>1, <2>1, <2>5
      <4>2. NewParentKeys[j - 1] = keys[(j - 1) - 1]
        BY <1>2, <3>1, <4>1
      <4> QED
        BY <2>2, <4>1, <4>2
    <3>4. InSlot(keys, j - 1, k)
      BY <3>2, <3>3 DEF InSlot, size
    <3> QED
      BY <1>6, <3>1, <3>4
  <2> QED
    BY <2>1, <2>3, <2>4, <2>5
<1> QED
  BY <1>1, <1>12

LEMMA InternalInsertKeepsRange ==
    ASSUME SearchInv, RangeInv, InternalInsert
    PROVE  RangeInv'
<1>1. AtParent /\ Return("ok") /\ UNCHANGED <<allocated, root>>
  BY DEF InternalInsert
<1>2. /\ ~heap'[Parent].is_leaf
      /\ heap'[Parent].keys = NewParentKeys /\ heap'[Parent].children = NewParentChildren
      /\ \A n \in allocated : n # Parent => heap'[n] = heap[n]
  BY InternalInsertNodes DEF SearchInv
<1>3. Parent \in allocated /\ ~heap[Parent].is_leaf /\ pc = "ascend" /\ path # <<>> /\ pc' = "idle"
  BY <1>1, ParentEntry DEF SearchInv, AtParent, Return
<1>4. PICK chain \in Seq(Nodes), range \in [Nodes -> SUBSET Int] : Chained(chain) /\ Ranged(chain, range)
  BY DEF RangeInv
<1>5. \A n, i, c : ChildAt(n, i, c)' <=>
         \/ n # Parent /\ ChildAt(n, i, c)
         \/ n = Parent /\ i \in DOMAIN NewParentChildren /\ NewParentChildren[i] = c
  BY <1>1, <1>2, <1>3 DEF ChildAt
<1>6. \A j \in DOMAIN NewParentChildren : \A k \in range[Parent] :
        InSlot(NewParentKeys, j, k) => k \in range[NewParentChildren[j]]
  BY <1>1, <1>4, ParentRoutes DEF Ranged
<1>7. Routes(range)'
  <2> SUFFICES ASSUME NEW n, NEW i, NEW c, ChildAt(n, i, c)', NEW k \in range[n], InSlot(heap'[n].keys, i, k)
               PROVE  k \in range[c]
    BY <1>3 DEF Routes, Waits
  <2>1. CASE n # Parent /\ ChildAt(n, i, c)
    <3>1. n \in allocated /\ ~Waits(n, i)
      BY <2>1 DEF ChildAt, Waits
    <3> QED
      BY <1>2, <1>4, <2>1, <3>1 DEF Ranged, Routes
  <2>2. CASE n = Parent /\ i \in DOMAIN NewParentChildren /\ NewParentChildren[i] = c
    BY <1>2, <1>6, <2>2
  <2> QED
    BY <1>5, <2>1, <2>2
<1>8. LeavesHold(range)'
  <2>1. \A n : Leaf(n)' => Leaf(n) /\ heap'[n] = heap[n]
    BY <1>1, <1>2, <1>3 DEF Leaf
  <2> QED
    BY <1>4, <2>1 DEF Ranged, LeavesHold, HoldsKeys
<1>9. RootTakesAll(range)' /\ CallInRange(range)' /\ Apart(chain, range)'
  BY <1>1, <1>3, <1>4 DEF Ranged, RootTakesAll, CallInRange, Apart
<1>10. Ranged(chain, range)'
  BY <1>7, <1>8, <1>9 DEF Ranged
<1>11. Chained(chain)'
  BY <1>4, InternalInsertLinks
<1> QED
  BY <1>10, <1>11 DEF RangeInv

\* The child link that waits is the one to the node that was split.
WaitsForCur ==
    /\ \A n, i, c : ChildAt(n, i, c) => (Waits(n, i) <=> c = cur)
    /\ path = <<>> <=> cur = root

LEMMA CurWaits == SearchInv /\ pc = "ascend" => WaitsForCur
<1> SUFFICES ASSUME SearchInv, pc = "ascend"
             PROVE  WaitsForCur
  OBVIOUS
<1>1. path # <<>> => ChildAt(Parent, path[1].position, cur)
  BY PathEndsHere DEF SearchInv
<1>2. path = <<>> <=> cur = root
  BY <1>1 DEF SearchInv, TreeInv, CallShape, OneParent, NoParent
<1>3. ASSUME NEW n, NEW i, ChildAt(n, i, cur)
      PROVE  Waits(n, i)
  <2>1. path # <<>>
    BY <1>2, <1>3 DEF SearchInv, OneParent, NoParent
  <2>2. n = Parent /\ i = path[1].position
    BY <1>1, <1>3, <2>1 DEF SearchInv, OneParent
  <2> QED
    BY <2>1, <2>2 DEF Waits
<1>4. ASSUME NEW n, NEW i, NEW c, ChildAt(n, i, c), Waits(n, i)
      PROVE  c = cur
  BY <1>1, <1>4 DEF Waits, ChildAt
<1> QED
  BY <1>2, <1>3, <1>4 DEF WaitsForCur

LEMMA CurWaitsNext == (SearchInv /\ pc = "ascend" => WaitsForCur)'
  BY CurWaits, PTL

LEMMA InternalSplitKeepsRange ==
    ASSUME SearchInv, SearchInv', RangeInv, InternalSplit
    PROVE  RangeInv'
<1> DEFINE left == SubSeq(NewParentKeys, 1, SplitIndex)
           right == SubSeq(NewParentKeys, SplitIndex + 2, TotalCount)
           mid == NewParentKeys[SplitIndex + 1]
           leftChildren == SubSeq(NewParentChildren, 1, SplitIndex + 1)
           rightChildren == SubSeq(NewParentChildren, SplitIndex + 2, TotalCount + 1)
<1>1. /\ AtParent /\ pc = "ascend" /\ path # <<>> /\ pc' = "ascend"
      /\ allocated' = allocated \cup {NewNode}
      /\ up' = [key |-> mid, right |-> NewNode]
      /\ cur' = Parent /\ UNCHANGED root
  BY DEF InternalSplit, AtParent
<1>2. /\ NewNode \notin allocated /\ NewNode \in Nodes
      /\ ~heap'[Parent].is_leaf /\ heap'[Parent].keys = left /\ heap'[Parent].children = leftChildren
      /\ ~heap'[NewNode].is_leaf /\ heap'[NewNode].keys = right /\ heap'[NewNode].children = rightChildren
      /\ \A n \in allocated : n # Parent => heap'[n] = heap[n]
  BY InternalSplitNodes DEF SearchInv
<1>3. /\ Parent \in allocated /\ Parent \in Nodes /\ ~heap[Parent].is_leaf /\ Parent # NewNode
      /\ \A i \in DOMAIN NewParentChildren : NewParentChildren[i] \in allocated
  BY <1>1, <1>2, ParentEntry DEF SearchInv
<1>4. SplitIndex \in Nat /\ TotalCount \in Nat /\ SplitIndex < TotalCount
  BY Sizes, OrderAssumption DEF MAX_KEYS
<1>5. /\ Len(left) = SplitIndex /\ DOMAIN left = 1 .. SplitIndex
      /\ Len(right) = TotalCount - SplitIndex - 1 /\ DOMAIN right = 1 .. TotalCount - SplitIndex - 1
      /\ \A i \in 1 .. SplitIndex : left[i] = NewParentKeys[i]
      /\ \A i \in 1 .. TotalCount - SplitIndex - 1 : right[i] = NewParentKeys[SplitIndex + 1 + i]
      /\ mid \in Int
      /\ Len(NewParentKeys) = TotalCount
  BY InternalHalves
<1>6. /\ DOMAIN leftChildren = 1 .. SplitIndex + 1
      /\ \A i \in 1 .. SplitIndex + 1 :
           leftChildren[i] = NewParentChildren[i] /\ i \in DOMAIN NewParentChildren
      /\ DOMAIN rightChildren = 1 .. TotalCount - SplitIndex
      /\ \A i \in 1 .. TotalCount - SplitIndex :
           /\ rightChildren[i] = NewParentChildren[SplitIndex + 1 + i]
           /\ SplitIndex + 1 + i \in DOMAIN NewParentChildren
  BY InternalHalvesChildren
<1>7. up'.key = mid /\ up'.right = NewNode
  <2> HIDE DEF mid
  <2> QED
    BY <1>1
<1>8. mid = NewParentKeys[SplitIndex + 1]
  OBVIOUS
<1> HIDE DEF left, right, mid, leftChildren, rightChildren
<1>9. \A n, i, c : ChildAt(n, i, c)' =>
         \/ n # Parent /\ ChildAt(n, i, c)
         \/ n = Parent /\ i \in 1 .. SplitIndex + 1 /\ NewParentChildren[i] = c
         \/ n = NewNode /\ i \in 1 .. TotalCount - SplitIndex /\ NewParentChildren[SplitIndex + 1 + i] = c
  <2> SUFFICES ASSUME NEW n, NEW i, NEW c, ChildAt(n, i, c)'
               PROVE  \/ n # Parent /\ ChildAt(n, i, c)
                      \/ n = Parent /\ i \in 1 .. SplitIndex + 1 /\ NewParentChildren[i] = c
                      \/ /\ n = NewNode /\ i \in 1 .. TotalCount - SplitIndex
                         /\ NewParentChildren[SplitIndex + 1 + i] = c
    OBVIOUS
  <2>1. n \in allocated' /\ ~heap'[n].is_leaf /\ i \in DOMAIN heap'[n].children /\ heap'[n].children[i] = c
    BY DEF ChildAt
  <2>2. CASE n = Parent
    BY <1>2, <1>6, <2>1, <2>2
  <2>3. CASE n = NewNode
    BY <1>2, <1>6, <2>1, <2>3
  <2>4. CASE n # Parent /\ n # NewNode
    BY <1>1, <1>2, <2>1, <2>4 DEF ChildAt
  <2> QED
    BY <2>2, <2>3, <2>4
<1>10. PICK chain \in Seq(Nodes), range \in [Nodes -> SUBSET Int] : Chained(chain) /\ Ranged(chain, range)
  BY DEF RangeInv
<1>11. PICK halves \in [Nodes -> SUBSET Int] : Halved(halves, range, Parent, NewNode, mid)
  BY <1>2, <1>3, <1>5, UnderHalves DEF SearchInv
<1>12. /\ halves[Parent] = {k \in range[Parent] : k < mid}
       /\ halves[NewNode] = {k \in range[Parent] : mid <= k}
       /\ \A n \in allocated : n # Parent => halves[n] = range[n]
  BY <1>11 DEF Halved
<1>13. range[Parent] \subseteq Int
  BY <1>3
<1>14. \A k \in range[Parent] : InHalves(halves, k)'
  <2>1. \A k \in range[Parent] : IF k < mid THEN k \in halves[Parent] ELSE k \in halves[NewNode]
    <3>1. \A k \in range[Parent] : k < mid \/ mid <= k
      BY <1>5, <1>13
    <3> QED
      BY <1>12, <3>1
  <2> QED
    BY <1>1, <1>7, <2>1 DEF InHalves
<1>15. \A j \in DOMAIN NewParentChildren : \A k \in range[Parent] :
         InSlot(NewParentKeys, j, k) => k \in range[NewParentChildren[j]]
  BY <1>1, <1>10, ParentRoutes DEF Ranged
<1>16. /\ \A n, i, c : ChildAt(n, i, c)' => (Waits(n, i)' <=> c = Parent)
       /\ path' = <<>> <=> Parent = root
  <2>1. WaitsForCur'
    BY <1>1, CurWaitsNext
  <2> QED
    BY <1>1, <2>1 DEF WaitsForCur
<1>17. ASSUME NEW n, NEW i, NEW c, ChildAt(n, i, c)', NEW k \in halves[n], InSlot(heap'[n].keys, i, k)
       PROVE  k \in range[c] /\ c \in allocated
  <2>1. CASE n # Parent /\ ChildAt(n, i, c)
    <3>1. n \in allocated /\ c \in allocated /\ ~Waits(n, i)
      BY <2>1, ChildFacts DEF Waits, SearchInv
    <3>2. k \in range[n] /\ InSlot(heap[n].keys, i, k)
      BY <1>2, <1>12, <1>17, <2>1, <3>1
    <3> QED
      BY <1>10, <2>1, <3>1, <3>2 DEF Ranged, Routes
  <2>2. CASE n = Parent /\ i \in 1 .. SplitIndex + 1 /\ NewParentChildren[i] = c
    <3>1. k \in range[Parent] /\ k < mid /\ InSlot(left, i, k) /\ i \in DOMAIN NewParentChildren
      BY <1>2, <1>6, <1>12, <1>17, <2>2
    <3>2. k < NewParentKeys[i]
      <4>1. i = SplitIndex + 1 \/ (i \in 1 .. SplitIndex /\ i <= SplitIndex)
        BY <1>4, <2>2
      <4> QED
        BY <1>5, <1>8, <3>1, <4>1 DEF InSlot
    <3>3. i > 1 => NewParentKeys[i - 1] <= k
      <4> SUFFICES ASSUME i > 1 PROVE NewParentKeys[i - 1] <= k
        OBVIOUS
      <4>1. i - 1 \in 1 .. SplitIndex
        BY <1>4, <2>2
      <4> QED
        BY <1>5, <3>1, <4>1 DEF InSlot
    <3>4. InSlot(NewParentKeys, i, k)
      BY <3>2, <3>3 DEF InSlot
    <3> QED
      BY <1>3, <1>15, <2>2, <3>1, <3>4
  <2>3. CASE n = NewNode /\ i \in 1 .. TotalCount - SplitIndex /\ NewParentChildren[SplitIndex + 1 + i] = c
    <3> DEFINE j == SplitIndex + 1 + i
    <3>1. k \in range[Parent] /\ mid <= k /\ InSlot(right, i, k) /\ j \in DOMAIN NewParentChildren
      BY <1>2, <1>6, <1>12, <1>17, <2>3
    <3>2. j <= TotalCount => k < NewParentKeys[j]
      <4> SUFFICES ASSUME j <= TotalCount PROVE k < NewParentKeys[j]
        OBVIOUS
      <4>1. i \in 1 .. TotalCount - SplitIndex - 1 /\ i <= TotalCount - SplitIndex - 1
        BY <1>4, <2>3
      <4> QED
        BY <1>5, <3>1, <4>1 DEF InSlot
    <3>3. NewParentKeys[j - 1] <= k
      <4>1. CASE i = 1
        <5>1. j - 1 = SplitIndex + 1
          BY <1>4, <4>1
        <5> QED
          BY <1>8, <3>1, <5>1
      <4>2. CASE i # 1
        <5>1. i - 1 \in 1 .. TotalCount - SplitIndex - 1 /\ i > 1 /\ SplitIndex + 1 + (i - 1) = j - 1
          BY <1>4, <2>3, <4>2
        <5> QED
          BY <1>5, <3>1, <5>1 DEF InSlot
      <4> QED
        BY <4>1, <4>2
    <3>4. InSlot(NewParentKeys, j, k)
      BY <1>5, <3>2, <3>3 DEF InSlot
    <3> QED
      BY <1>3, <1>15, <2>3, <3>1, <3>4
  <2> QED
    BY <1>9, <1>17, <2>1, <2>2, <2>3
<1>18. Routes(halves)'
  <2> SUFFICES ASSUME NEW n, NEW i, NEW c, ChildAt(n, i, c)', NEW k \in halves[n], InSlot(heap'[n].keys, i, k)
               PROVE  IF Waits(n, i)' THEN InHalves(halves, k)' ELSE k \in halves[c]
    BY DEF Routes
  <2>1. k \in range[c] /\ c \in allocated
    BY <1>17
  <2> QED
    BY <1>12, <1>14, <1>16, <2>1
<1>19. RootTakesAll(halves)'
  <2>1. root # Nil => root \in allocated
    BY DEF SearchInv, TreeInv, TypeOK
  <2>2. root # Nil => \A k \in Int : k \in range[root]
    BY <1>1, <1>10 DEF Ranged, RootTakesAll
  <2> QED
    BY <1>1, <1>12, <1>14, <1>16, <2>1, <2>2 DEF RootTakesAll
<1>20. \A n : Leaf(n)' => Leaf(n) /\ n # Parent /\ heap'[n] = heap[n] /\ halves[n] = range[n]
  BY <1>1, <1>2, <1>3, <1>12 DEF Leaf
<1>21. LeavesHold(halves)'
  BY <1>10, <1>20 DEF Ranged, LeavesHold, HoldsKeys
<1>22. Chained(chain)'
  BY <1>10, InternalSplitLinks
<1>23. Apart(chain, halves)'
  <2>1. \A i \in DOMAIN chain : halves[chain[i]] = range[chain[i]]
    BY <1>20, <1>22 DEF Chained, Linked
  <2> QED
    BY <1>10, <2>1 DEF Ranged, Apart
<1>24. CallInRange(halves)'
  BY <1>1 DEF CallInRange
<1>25. Ranged(chain, halves)'
  BY <1>18, <1>19, <1>21, <1>23, <1>24 DEF Ranged
<1> QED
  BY <1>11, <1>22, <1>25 DEF RangeInv

LEMMA NewRootKeepsRange ==
    ASSUME SearchInv, RangeInv, NewRoot
    PROVE  RangeInv'
<1>1. /\ pc = "ascend" /\ path = <<>> /\ pc' = "idle"
      /\ allocated' = allocated \cup {NewNode} /\ root' = NewNode
  BY DEF NewRoot, Return
<1>2. /\ NewNode \notin allocated /\ NewNode \in Nodes
      /\ ~heap'[NewNode].is_leaf
      /\ heap'[NewNode].keys = <<up.key>> /\ heap'[NewNode].children = <<root, up.right>>
      /\ \A n \in allocated : heap'[n] = heap[n]
  BY NewRootNodes DEF SearchInv
<1>3. /\ cur = root /\ root \in allocated /\ up.right \in allocated /\ up.key \in Int /\ root # Nil
      /\ allocated \subseteq Nodes
  BY <1>1, RowTypes, NodesAssumption DEF SearchInv, TreeInv, CallShape, TypeOK
<1>4. PICK chain \in Seq(Nodes), range \in [Nodes -> SUBSET Int] : Chained(chain) /\ Ranged(chain, range)
  BY DEF RangeInv
<1>5. PICK top \in [Nodes -> SUBSET Int] : top[NewNode] = Int /\ \A n \in allocated : top[n] = range[n]
  <2> DEFINE top == [range EXCEPT ![NewNode] = Int]
  <2>1. top \in [Nodes -> SUBSET Int] /\ top[NewNode] = Int /\ \A n \in allocated : top[n] = range[n]
    BY <1>2, <1>3
  <2> QED
    BY <2>1
<1>6. /\ DOMAIN <<root, up.right>> = 1 .. 2 /\ <<root, up.right>>[1] = root /\ <<root, up.right>>[2] = up.right
      /\ <<up.key>>[1] = up.key /\ Len(<<up.key>>) = 1
  OBVIOUS
<1>7. \A n, i, c : ChildAt(n, i, c)' =>
         \/ n \in allocated /\ ChildAt(n, i, c)
         \/ n = NewNode /\ i = 1 /\ c = root
         \/ n = NewNode /\ i = 2 /\ c = up.right
  <2> SUFFICES ASSUME NEW n, NEW i, NEW c, ChildAt(n, i, c)'
               PROVE  \/ n \in allocated /\ ChildAt(n, i, c)
                      \/ n = NewNode /\ i = 1 /\ c = root
                      \/ n = NewNode /\ i = 2 /\ c = up.right
    OBVIOUS
  <2>1. n \in allocated' /\ ~heap'[n].is_leaf /\ i \in DOMAIN heap'[n].children /\ heap'[n].children[i] = c
    BY DEF ChildAt
  <2>2. CASE n \in allocated
    BY <1>2, <2>1, <2>2 DEF ChildAt
  <2>3. CASE n = NewNode
    <3>1. i \in 1 .. 2 /\ <<root, up.right>>[i] = c
      BY <1>2, <1>6, <2>1, <2>3
    <3>2. i = 1 \/ i = 2
      BY <3>1
    <3> QED
      BY <1>6, <2>3, <3>1, <3>2
  <2> QED
    BY <1>1, <2>1, <2>2, <2>3
<1>8. \A k \in Int : IF k < up.key THEN k \in range[root] ELSE k \in range[up.right]
  BY <1>1, <1>3, <1>4 DEF Ranged, RootTakesAll, InHalves
<1>9. Routes(top)'
  <2> SUFFICES ASSUME NEW n, NEW i, NEW c, ChildAt(n, i, c)', NEW k \in top[n], InSlot(heap'[n].keys, i, k)
               PROVE  k \in top[c]
    BY <1>1 DEF Routes, Waits
  <2>1. CASE n \in allocated /\ ChildAt(n, i, c)
    <3>1. c \in allocated /\ ~Waits(n, i) /\ k \in range[n] /\ InSlot(heap[n].keys, i, k)
      BY <1>1, <1>2, <1>5, <2>1, ChildFacts DEF Waits, SearchInv
    <3>2. k \in range[c]
      BY <1>4, <2>1, <3>1 DEF Ranged, Routes
    <3> QED
      BY <1>5, <3>1, <3>2
  <2>2. CASE n = NewNode /\ i = 1 /\ c = root
    <3>1. k \in Int /\ heap'[n].keys = <<up.key>>
      BY <1>2, <1>5, <2>2
    <3>2. k < up.key
      BY <1>6, <2>2, <3>1 DEF InSlot
    <3> QED
      BY <1>3, <1>5, <1>8, <2>2, <3>1, <3>2
  <2>3. CASE n = NewNode /\ i = 2 /\ c = up.right
    <3>1. k \in Int /\ up.key <= k
      <4>1. 2 > 1 /\ 2 - 1 = 1
        OBVIOUS
      <4> QED
        BY <1>2, <1>5, <1>6, <2>3, <4>1 DEF InSlot
    <3>2. ~(k < up.key)
      BY <1>3, <3>1
    <3> QED
      BY <1>3, <1>5, <1>8, <2>3, <3>1, <3>2
  <2> QED
    BY <1>7, <2>1, <2>2, <2>3
<1>10. RootTakesAll(top)' /\ CallInRange(top)'
  BY <1>1, <1>5 DEF RootTakesAll, CallInRange
<1>11. \A n : Leaf(n)' => Leaf(n) /\ heap'[n] = heap[n] /\ top[n] = range[n]
  BY <1>1, <1>2, <1>5 DEF Leaf
<1>12. LeavesHold(top)'
  BY <1>4, <1>11 DEF Ranged, LeavesHold, HoldsKeys
<1>13. Chained(chain)'
  BY <1>4, NewRootLinks
<1>14. Apart(chain, top)'
  <2>1. \A i \in DOMAIN chain : top[chain[i]] = range[chain[i]]
    BY <1>11, <1>13 DEF Chained, Linked
  <2> QED
    BY <1>4, <2>1 DEF Ranged, Apart
<1>15. Ranged(chain, top)'
  BY <1>9, <1>10, <1>12, <1>14 DEF Ranged
<1> QED
  BY <1>5, <1>13, <1>15 DEF RangeInv

-----------------------------------------------------------------------------
(* The ranges at all times, as long as every half finds its parent. *)

(* The allocations that a split still needs once its leaf is divided succeed   *)
(* (bptree.c:247-251, 351-354): only the root of an empty tree and the half of *)
(* a leaf may be refused.  Where no failure is declared, memory does not end.  *)
ParentsGetMemory ==
    /\ Failing \subseteq {"empty root", "leaf split"}
    /\ pc = "ascend" \/ Failing = {} => Free # {}

LEMMA InitRangeInv == Init => RangeInv
<1> SUFFICES ASSUME Init PROVE RangeInv
  OBVIOUS
<1> DEFINE range == [n \in Nodes |-> Int]
<1>1. allocated = {} /\ root = Nil /\ pc = "idle" /\ range \in [Nodes -> SUBSET Int]
  BY DEF Init
<1>2. ChainInv
  BY InitChainInv
<1>3. PICK chain \in Seq(Nodes) : Chained(chain)
  BY <1>2 DEF ChainInv
<1>4. \A i \in DOMAIN chain : chain[i] \in allocated
  BY <1>3 DEF Chained, Linked, Leaf
<1> HIDE DEF range
<1>5. Apart(chain, range)
  BY <1>1, <1>4 DEF Apart
<1>6. LeavesHold(range) /\ Routes(range) /\ RootTakesAll(range) /\ CallInRange(range)
  BY <1>1 DEF LeavesHold, Leaf, Routes, ChildAt, RootTakesAll, CallInRange
<1>7. Ranged(chain, range)
  BY <1>5, <1>6 DEF Ranged
<1> QED
  BY <1>1, <1>3, <1>7 DEF RangeInv

LEMMA NoParentFails ==
    ASSUME ParentsGetMemory
    PROVE  ~InternalSplitFails /\ ~NewRootFails
BY DEF ParentsGetMemory, InternalSplitFails, NewRootFails, CreateNodeFails, AtParent

LEMMA NextRangeInv ==
    SearchInv /\ SearchInv' /\ ParentsGetMemory /\ RangeInv /\ [Next]_vars => RangeInv'
<1> SUFFICES ASSUME SearchInv, SearchInv', ParentsGetMemory, RangeInv, [Next]_vars PROVE RangeInv'
  OBVIOUS
<1>1. TreeInv
  BY DEF SearchInv
<1>2. ASSUME NEW row \in Rows, InsertCall(row[1], row[2]) PROVE RangeInv'
  BY <1>1, <1>2, CallKeepsRange
<1>3. CASE CreateRootFails \/ LeafDuplicate \/ LeafSplitFails
  BY <1>1, <1>3, RefusedKeepsRange DEF CreateRootFails, LeafDuplicate, LeafSplitFails, AtLeaf
<1>4. CASE CreateRoot \/ Descend
  BY <1>1, <1>4, CreateRootKeepsRange, DescendKeepsRange
<1>5. CASE LeafInsert \/ LeafSplit
  BY <1>5, LeafInsertKeepsRange, LeafSplitKeepsRange
<1>6. CASE InternalInsert \/ InternalSplit \/ NewRoot
  BY <1>6, InternalInsertKeepsRange, InternalSplitKeepsRange, NewRootKeepsRange
<1>7. CASE UNCHANGED vars
  <2>1. UNCHANGED <<heap, allocated, root, pc, call, cur, path, up>>
    BY <1>7 DEF vars
  <2>2. PICK chain \in Seq(Nodes), range \in [Nodes -> SUBSET Int] : Chained(chain) /\ Ranged(chain, range)
    BY DEF RangeInv
  <2>3. Chained(chain)'
    BY <1>1, <2>1, <2>2, UnchangedLinks
  <2>4. Ranged(chain, range)'
    BY <2>1, <2>2 DEF Ranged, Apart, LeavesHold, Leaf, HoldsKeys, Routes, ChildAt, Waits, Parent, InHalves,
       RootTakesAll, CallInRange
  <2> QED
    BY <2>3, <2>4 DEF RangeInv
<1> QED
  BY <1>2, <1>3, <1>4, <1>5, <1>6, <1>7, NoParentFails DEF Next, InsertStep

LEMMA RangeInvHolds == Spec /\ []ParentsGetMemory => [](SearchInv /\ ChainInv /\ RangeInv)
<1>1. Init => SearchInv /\ RangeInv
  BY InitSearchInv, InitRangeInv
<1>2. SearchInv /\ RangeInv /\ ParentsGetMemory /\ [Next]_vars => (SearchInv /\ RangeInv)'
  BY NextSearchInv, NextRangeInv
<1> QED
  BY <1>1, <1>2, ChainInvHolds, PTL DEF Spec

-----------------------------------------------------------------------------
(* What an insertion knows when it is at a leaf. *)

\* Where find_leaf_position stops in an ascending node: behind all smaller keys.
PlaceOf(n, key, p) ==
    /\ p \in 1 .. Len(heap[n].keys) + 1
    /\ \A j \in DOMAIN heap[n].keys : IF j < p THEN heap[n].keys[j] < key ELSE key <= heap[n].keys[j]
    /\ (p <= Len(heap[n].keys) /\ heap[n].keys[p] = key) <=>
       \E j \in DOMAIN heap[n].keys : heap[n].keys[j] = key

LEMMA PositionOfKey ==
    ASSUME TreeInv, KeysAscend, NEW n \in allocated, NEW key \in Int
    PROVE  PlaceOf(n, key, find_leaf_position(heap[n].keys, key))
<1> DEFINE keys == heap[n].keys
           p == find_leaf_position(keys, key)
           stops == {i \in DOMAIN keys : keys[i] >= key}
<1>1. /\ keys \in Seq(Keys) /\ Len(keys) \in Nat /\ DOMAIN keys = 1 .. Len(keys)
      /\ \A i \in DOMAIN keys : keys[i] \in Int
  BY NodeFacts
<1>2. Ascending(keys)
  BY DEF KeysAscend
<1>3. p = FirstPosition(keys, stops)
  BY DEF find_leaf_position
<1>4. \A i : i \in stops <=> i \in DOMAIN keys /\ keys[i] >= key
  OBVIOUS
<1> HIDE DEF keys, stops, p
<1>5. p \in 1 .. Len(keys) + 1
  BY <1>1, <1>3, <1>4, PositionBound
<1>6. /\ \A j \in stops : p <= j
      /\ p <= Len(keys) => p \in stops
  BY <1>1, <1>3, <1>4, PositionIsFirst
<1>7. ASSUME NEW j \in DOMAIN keys
      PROVE  IF j < p THEN keys[j] < key ELSE key <= keys[j]
  <2>1. CASE j < p
    BY <1>1, <1>4, <1>5, <1>6, <2>1
  <2>2. CASE j >= p
    <3>1. p \in DOMAIN keys /\ keys[p] >= key
      BY <1>1, <1>4, <1>5, <1>6, <2>2
    <3>2. j = p \/ keys[p] < keys[j]
      BY <1>1, <1>2, <1>5, <2>2, <3>1 DEF Ascending
    <3> QED
      BY <1>1, <1>5, <2>2, <3>1, <3>2
  <2> QED
    BY <1>1, <1>5, <2>1, <2>2
<1>8. ASSUME NEW j \in DOMAIN keys, keys[j] = key
      PROVE  p <= Len(keys) /\ keys[p] = key
  <2>1. j \in stops /\ p <= j
    BY <1>1, <1>4, <1>6, <1>8
  <2>2. p \in DOMAIN keys /\ keys[p] >= key
    BY <1>1, <1>4, <1>5, <1>6, <2>1
  <2>3. j = p \/ keys[p] < keys[j]
    BY <1>1, <1>2, <1>5, <2>1, <2>2 DEF Ascending
  <2> QED
    BY <1>1, <1>5, <1>8, <2>1, <2>2, <2>3
<1>9. p <= Len(keys) => p \in DOMAIN keys
  BY <1>1, <1>5
<1> QED
  BY <1>5, <1>7, <1>8, <1>9 DEF PlaceOf, keys, p

KeyStored(key) == \E e : StoredEntry(e) /\ e[1] = key

\* In a leaf of one's own range a key is found if it is anywhere in the tree.
LEMMA KeyInItsLeaf ==
    ASSUME TreeInv, NEW chain \in Seq(Nodes), NEW range \in [Nodes -> SUBSET Int],
           Chained(chain), Apart(chain, range), LeavesHold(range),
           NEW n, Leaf(n), NEW key, key \in range[n]
    PROVE  /\ KeyStored(key) <=> \E j \in DOMAIN heap[n].keys : heap[n].keys[j] = key
           /\ \A e : StoredEntry(e) /\ e[1] = key => \E j \in DOMAIN heap[n].keys : e = EntryAt(n, j)
<1>1. ASSUME NEW m, Leaf(m), NEW j \in DOMAIN heap[m].keys, heap[m].keys[j] = key
      PROVE  m = n
  <2>1. key \in range[m]
    BY <1>1 DEF LeavesHold, HoldsKeys
  <2>2. PICK a \in DOMAIN chain : chain[a] = n
    BY DEF Chained, Linked
  <2>3. PICK b \in DOMAIN chain : chain[b] = m
    BY <1>1 DEF Chained, Linked
  <2>4. n \in Nodes /\ key \in Int
    BY DEF Leaf, TreeInv, TypeOK
  <2>5. ~(key < key)
    BY <2>4
  <2>6. ~(a < b) /\ ~(b < a)
    BY <2>1, <2>2, <2>3, <2>5 DEF Apart
  <2>7. a \in Nat /\ b \in Nat
    BY LenProperties
  <2>8. a = b
    BY <2>6, <2>7
  <2> QED
    BY <2>2, <2>3, <2>8
<1>2. \A e, m, j : e = EntryAt(m, j) => e[1] = heap[m].keys[j]
  BY DEF EntryAt
<1>3. ASSUME NEW e, StoredEntry(e), e[1] = key
      PROVE  \E j \in DOMAIN heap[n].keys : e = EntryAt(n, j)
  BY <1>1, <1>2, <1>3 DEF StoredEntry
<1>4. ASSUME NEW j \in DOMAIN heap[n].keys, heap[n].keys[j] = key
      PROVE  KeyStored(key)
  <2>1. StoredEntry(EntryAt(n, j)) /\ EntryAt(n, j)[1] = key
    BY <1>2, <1>4 DEF StoredEntry
  <2> QED
    BY <2>1 DEF KeyStored
<1> QED
  BY <1>2, <1>3, <1>4 DEF KeyStored

LEMMA DuplicateKnown ==
    ASSUME SearchInv, RangeInv, AtLeaf
    PROVE  IsDuplicate <=> KeyStored(call.key)
<1>1. TreeInv /\ KeysAscend /\ Leaf(cur) /\ pc = "descend" /\ cur # Nil
  BY LeafEntry DEF SearchInv, AtLeaf, Leaf
<1>2. PICK chain \in Seq(Nodes), range \in [Nodes -> SUBSET Int] : Chained(chain) /\ Ranged(chain, range)
  BY DEF RangeInv
<1>3. call.key \in range[cur]
  BY <1>1, <1>2 DEF Ranged, CallInRange
<1>4. KeyStored(call.key) <=> \E j \in DOMAIN heap[cur].keys : heap[cur].keys[j] = call.key
  BY <1>1, <1>2, <1>3, KeyInItsLeaf DEF Ranged
<1>5. cur \in allocated /\ call.key \in Int
  BY <1>1 DEF Leaf, TreeInv, TypeOK
<1>6. IsDuplicate <=> \E j \in DOMAIN heap[cur].keys : heap[cur].keys[j] = call.key
  <2>1. PlaceOf(cur, call.key, LeafPosition)
    BY <1>1, <1>5, PositionOfKey DEF LeafPosition
  <2> QED
    BY <2>1 DEF PlaceOf, IsDuplicate
<1> QED
  BY <1>4, <1>6

\* What the caller is told, and the entry that a split has already stored.
CallKnown ==
    /\ pc = "idle" <=> ret # "running"
    /\ pc = "ascend" => \A e : StoredEntry(e) /\ e[1] = call.key <=> e = NewEntry

LEMMA InitCallKnown == Init => CallKnown
BY DEF Init, CallKnown

LEMMA NextCallKnown ==
    SearchInv /\ RangeInv /\ CallKnown /\ [Next]_vars => CallKnown'
<1> SUFFICES ASSUME SearchInv, RangeInv, CallKnown, [Next]_vars PROVE CallKnown'
  OBVIOUS
<1>1. ASSUME NEW answer \in {"ok", "refused"}, Return(answer) PROVE CallKnown'
  BY <1>1 DEF Return, CallKnown
<1>2. CASE \E row \in Rows : InsertCall(row[1], row[2])
  BY <1>2 DEF InsertCall, CallKnown
<1>3. CASE CreateRoot \/ Descend
  BY <1>3 DEF CreateRoot, Descend, CallKnown
<1>4. CASE LeafSplit
  <2>1. /\ AtLeaf /\ ~IsDuplicate /\ pc = "descend" /\ pc' = "ascend" /\ UNCHANGED <<call, ret>>
    BY <1>4 DEF LeafSplit, AtLeaf
  <2>2. \A e : StoredEntry(e) => e[1] # call.key
    BY <2>1, DuplicateKnown DEF KeyStored
  <2>3. \A e : StoredEntry(e)' <=> StoredEntry(e) \/ e = NewEntry
    BY <1>4, LeafSplitStores DEF SearchInv
  <2>4. NewEntry' = NewEntry /\ NewEntry[1] = call.key
    BY <2>1 DEF NewEntry
  <2>5. \A e : StoredEntry(e)' /\ e[1] = call'.key <=> e = NewEntry'
    BY <2>1, <2>2, <2>3, <2>4
  <2> QED
    BY <2>1, <2>5 DEF CallKnown
<1>5. CASE InternalSplit
  <2>1. pc = "ascend" /\ UNCHANGED <<pc, call, ret>>
    BY <1>5 DEF InternalSplit, AtParent
  <2>2. \A e : StoredEntry(e)' <=> StoredEntry(e)
    BY <1>5, InternalStores
  <2> QED
    BY <2>1, <2>2 DEF CallKnown, NewEntry
<1>6. CASE UNCHANGED vars
  <2>1. UNCHANGED <<heap, allocated, pc, call, ret>>
    BY <1>6 DEF vars
  <2>2. \A e : StoredEntry(e)' <=> StoredEntry(e)
    BY <2>1, SameStores
  <2> QED
    BY <2>1, <2>2 DEF CallKnown, NewEntry
<1> QED
  BY <1>1, <1>2, <1>3, <1>4, <1>5, <1>6
     DEF Next, InsertStep, CreateRootFails, LeafDuplicate, LeafInsert, LeafSplitFails, InternalInsert,
         InternalSplitFails, NewRoot, NewRootFails

-----------------------------------------------------------------------------
(* The map that the tree holds, step by step. *)

MapHolds == \A e : e \in StoredMap <=> StoredEntry(e) /\ (pc = "ascend" => e[1] # call.key)

LEMMA MapIsStored == TreeInv /\ ChainInv => MapHolds
<1> SUFFICES ASSUME TreeInv, ChainInv PROVE MapHolds
  OBVIOUS
<1>1. \A e : e \in ToSet(Chain) <=> StoredEntry(e)
  BY ChainStores
<1> QED
  BY <1>1 DEF MapHolds, StoredMap

LEMMA MapIsStoredNext == (TreeInv /\ ChainInv => MapHolds)'
BY MapIsStored, PTL

KnownInv == SearchInv /\ ChainInv /\ RangeInv /\ CallKnown

LEMMA KnownInvHolds == Spec /\ []ParentsGetMemory => []KnownInv
<1>1. SearchInv /\ RangeInv /\ CallKnown /\ [Next]_vars => CallKnown'
  BY NextCallKnown
<1> QED
  BY <1>1, InitCallKnown, RangeInvHolds, PTL DEF Spec, KnownInv

LEMMA InitImplements == Init => Abstract!Init
<1> SUFFICES ASSUME Init PROVE Abstract!Init
  OBVIOUS
<1>1. root = Nil /\ pc = "idle" /\ call = NoCall /\ ret = "none"
  BY DEF Init
<1>2. StoredMap = {}
  BY <1>1 DEF StoredMap, Chain, ToSet
<1> QED
  BY <1>1, <1>2 DEF Abstract!Init, Abstract!NoCall, NoCall

\* A call that is refused before anything is stored leaves the map alone.
LEMMA RefusedKeepsMap ==
    ASSUME MapHolds, MapHolds', CallKnown, pc = "descend", Return("refused"), UNCHANGED <<heap, allocated, root>>
    PROVE  Abstract!Return("refused") /\ UNCHANGED StoredMap
<1>1. ret = "running" /\ pc' = "idle" /\ call' = NoCall /\ ret' = "refused"
  BY DEF Return, CallKnown
<1>2. \A e : StoredEntry(e)' <=> StoredEntry(e)
  BY SameStores
<1>3. \A e : e \in StoredMap' <=> e \in StoredMap
  BY <1>1, <1>2 DEF MapHolds
<1> QED
  BY <1>1, <1>3 DEF Abstract!Return, Abstract!NoCall, NoCall

\* Each step is a step of the map, or none.
LEMMA StepImplements ==
    KnownInv /\ KnownInv' /\ ParentsGetMemory /\ [Next]_vars => [Abstract!Next]_(Abstract!vars)
<1> SUFFICES ASSUME KnownInv, KnownInv', ParentsGetMemory, [Next]_vars
             PROVE  Abstract!Next \/ UNCHANGED Abstract!vars
  OBVIOUS
<1> USE DEF KnownInv
<1>1. TreeInv /\ TreeInv'
  BY DEF SearchInv
<1>2. MapHolds /\ MapHolds'
  BY <1>1, MapIsStored, MapIsStoredNext
<1>3. \A e, S : e \in {x[1] : x \in S} <=> \E x \in S : x[1] = e
  OBVIOUS
<1>4. \A k : k \in Abstract!KeysOf(StoredMap) <=> \E e \in StoredMap : e[1] = k
  BY <1>3 DEF Abstract!KeysOf
<1>5. ASSUME NEW row \in Rows, InsertCall(row[1], row[2]) PROVE Abstract!Insert(row[1], row[2])
  <2>1. /\ pc = "idle" /\ pc' = "descend" /\ UNCHANGED <<heap, allocated>>
        /\ call' = [key |-> row[1], offset |-> row[2]] /\ ret' = "running"
    BY <1>5 DEF InsertCall
  <2>2. \A e : StoredEntry(e)' <=> StoredEntry(e)
    BY <2>1, SameStores
  <2>3. \A e : e \in StoredMap' <=> e \in StoredMap
    BY <1>2, <2>1, <2>2 DEF MapHolds
  <2> QED
    BY <2>1, <2>3 DEF Abstract!Insert, CallKnown
<1>6. CASE LeafDuplicate
  <2>1. AtLeaf /\ IsDuplicate /\ pc = "descend" /\ Return("refused") /\ UNCHANGED <<heap, allocated, root>>
    BY <1>6 DEF LeafDuplicate, AtLeaf
  <2>2. Abstract!Return("refused") /\ UNCHANGED StoredMap
    BY <1>2, <2>1, RefusedKeepsMap
  <2>3. PICK e : StoredEntry(e) /\ e[1] = call.key
    BY <2>1, DuplicateKnown DEF KeyStored
  <2>4. e \in StoredMap
    BY <1>2, <2>1, <2>3 DEF MapHolds
  <2> QED
    BY <1>4, <2>2, <2>3, <2>4 DEF Abstract!Next, Abstract!Duplicate
<1>7. CASE CreateRootFails \/ LeafSplitFails
  <2>1. pc = "descend" /\ Return("refused") /\ UNCHANGED <<heap, allocated, root>>
    BY <1>7 DEF CreateRootFails, LeafSplitFails, AtLeaf
  <2>2. Abstract!Return("refused") /\ UNCHANGED StoredMap
    BY <1>2, <2>1, RefusedKeepsMap
  <2>3. Failing # {}
    BY <1>7 DEF ParentsGetMemory, CreateRootFails, LeafSplitFails, CreateNodeFails
  <2> QED
    BY <2>2, <2>3 DEF Abstract!Next, Abstract!NoMemory
<1>8. CASE LeafInsert
  <2>1. AtLeaf /\ ~IsDuplicate /\ pc = "descend" /\ Return("ok")
    BY <1>8 DEF LeafInsert, AtLeaf
  <2>2. ret = "running" /\ ret' = "ok" /\ call' = NoCall /\ pc' = "idle"
    BY <2>1 DEF Return, CallKnown
  <2>3. \A e : StoredEntry(e)' <=> StoredEntry(e) \/ e = NewEntry
    BY <1>1, <1>8, LeafInsertStores
  <2>4. \A e : e \in StoredMap' <=> e \in StoredMap \/ e = NewEntry
    BY <1>2, <2>1, <2>2, <2>3 DEF MapHolds
  <2>5. \A e : StoredEntry(e) => e[1] # call.key
    BY <2>1, DuplicateKnown DEF KeyStored
  <2>6. call.key \notin Abstract!KeysOf(StoredMap)
    BY <1>2, <1>4, <2>5 DEF MapHolds
  <2>7. StoredMap' = StoredMap \cup {NewEntry}
    BY <2>4
  <2> QED
    BY <2>2, <2>6, <2>7
       DEF Abstract!Next, Abstract!Stored, Abstract!Return, Abstract!NoCall, NoCall, NewEntry
<1>9. CASE InternalInsert \/ NewRoot
  <2>1. pc = "ascend" /\ Return("ok")
    BY <1>9 DEF InternalInsert, AtParent, NewRoot
  <2>2. ret = "running" /\ ret' = "ok" /\ call' = NoCall /\ pc' = "idle"
    BY <2>1 DEF Return, CallKnown
  <2>3. \A e : StoredEntry(e)' <=> StoredEntry(e)
    BY <1>9, InternalStores
  <2>4. \A e : StoredEntry(e) /\ e[1] = call.key <=> e = NewEntry
    BY <2>1 DEF CallKnown
  <2>5. \A e : e \in StoredMap <=> StoredEntry(e) /\ e[1] # call.key
    BY <1>2, <2>1 DEF MapHolds
  <2>6. \A e : e \in StoredMap' <=> StoredEntry(e)
    BY <1>2, <2>2, <2>3 DEF MapHolds
  <2>7. \A e : e \in StoredMap' <=> e \in StoredMap \/ e = NewEntry
    BY <2>4, <2>5, <2>6
  <2>8. call.key \notin Abstract!KeysOf(StoredMap)
    BY <1>4, <2>5
  <2>9. StoredMap' = StoredMap \cup {NewEntry}
    BY <2>7
  <2> QED
    BY <2>2, <2>8, <2>9
       DEF Abstract!Next, Abstract!Stored, Abstract!Return, Abstract!NoCall, NoCall, NewEntry
<1>10. CASE LeafSplit
  <2>1. /\ AtLeaf /\ ~IsDuplicate /\ pc = "descend" /\ pc' = "ascend" /\ UNCHANGED <<call, ret>>
    BY <1>10 DEF LeafSplit, AtLeaf
  <2>2. \A e : StoredEntry(e)' <=> StoredEntry(e) \/ e = NewEntry
    BY <1>1, <1>10, LeafSplitStores
  <2>3. \A e : StoredEntry(e) => e[1] # call.key
    BY <2>1, DuplicateKnown DEF KeyStored
  <2>4. NewEntry[1] = call.key
    BY DEF NewEntry
  <2>5. \A e : e \in StoredMap' <=> e \in StoredMap
    BY <1>2, <2>1, <2>2, <2>3, <2>4 DEF MapHolds
  <2> QED
    BY <2>1, <2>5 DEF Abstract!vars
<1>11. CASE Descend \/ InternalSplit
  <2>1. UNCHANGED <<pc, call, ret>>
    BY <1>11 DEF Descend, InternalSplit
  <2>2. \A e : StoredEntry(e)' <=> StoredEntry(e)
    BY <1>11, SameStores, InternalStores DEF Descend
  <2>3. \A e : e \in StoredMap' <=> e \in StoredMap
    BY <1>2, <2>1, <2>2 DEF MapHolds
  <2> QED
    BY <2>1, <2>3 DEF Abstract!vars
<1>12. CASE CreateRoot
  <2>1. UNCHANGED <<pc, call, ret>>
    BY <1>12 DEF CreateRoot
  <2>2. \A e : ~StoredEntry(e) /\ ~StoredEntry(e)'
    BY <1>1, <1>12, CreateRootStores
  <2>3. \A e : e \in StoredMap' <=> e \in StoredMap
    BY <1>2, <2>2 DEF MapHolds
  <2> QED
    BY <2>1, <2>3 DEF Abstract!vars
<1>13. CASE UNCHANGED vars
  <2>1. UNCHANGED <<heap, allocated, pc, call, ret>>
    BY <1>13 DEF vars
  <2>2. \A e : StoredEntry(e)' <=> StoredEntry(e)
    BY <2>1, SameStores
  <2>3. \A e : e \in StoredMap' <=> e \in StoredMap
    BY <1>2, <2>1, <2>2 DEF MapHolds
  <2> QED
    BY <2>1, <2>3 DEF Abstract!vars
<1> QED
  BY <1>5, <1>6, <1>7, <1>8, <1>9, <1>10, <1>11, <1>12, <1>13, NoParentFails
     DEF Next, InsertStep, Abstract!Next

(* ImplementsPkIndex, for every order, every set of rows and every pattern of the   *)
(* failures that come before a leaf is divided: as long as the parents of a split   *)
(* get their memory, an insertion is told "ok" exactly when its key is new, the map *)
(* then holds exactly one entry more, and a refused one leaves it as it was         *)
(* (bptree.c:191-209, 296-364).                                                     *)
THEOREM TreeImplementsPkIndex == Spec /\ []ParentsGetMemory => ImplementsPkIndex
<1> QED
  BY InitImplements, StepImplements, KnownInvHolds, PTL DEF Spec, ImplementsPkIndex, Abstract!Spec

-----------------------------------------------------------------------------
(* The answers: sets of entries and sequences of them in key order. *)

LEMMA SameCardinality == \A S : Abstract!Cardinality(S) = Cardinality(S)
BY DEF Abstract!Cardinality, Cardinality

\* f goes through S and meets each member once.
Counts(f, n, S) ==
    /\ n \in Nat
    /\ \A i \in 1 .. n : f[i] \in S
    /\ \A i, j \in 1 .. n : f[i] = f[j] => i = j
    /\ \A x \in S : \E i \in 1 .. n : f[i] = x

LEMMA Counted ==
    ASSUME NEW f, NEW n, NEW S, Counts(f, n, S)
    PROVE  Cardinality(S) = n
<1> USE DEF Counts
<1> DEFINE g == [i \in 1 .. n |-> f[i]]
<1>1. g \in [1 .. n -> S] /\ \A i \in 1 .. n : g[i] = f[i]
  OBVIOUS
<1> HIDE DEF g
<1>2. g \in Injection(1 .. n, S)
  BY <1>1 DEF Injection, IsInjective
<1>3. g \in Surjection(1 .. n, S)
  BY <1>1 DEF Surjection
<1>4. ExistsBijection(1 .. n, S)
  BY <1>2, <1>3 DEF ExistsBijection, Bijection
<1> QED
  BY <1>4, FS_CountingElements, Zenon

\* Entries in the order of their keys, no key twice.
InKeyOrder(s) ==
    /\ s \in Seq(Int \X Nat)
    /\ \A i, j \in DOMAIN s : i < j => s[i][1] < s[j][1]

\* What the map hands out for a set of entries is what a sequence of them in key order holds.
LEMMA OrderedAnswer ==
    ASSUME NEW s, InKeyOrder(s), NEW m, \A e : e \in m <=> \E i \in DOMAIN s : s[i] = e
    PROVE  Abstract!InOrder(m) = OffsetsOf(s)
<1>1. /\ Len(s) \in Nat /\ DOMAIN s = 1 .. Len(s)
      /\ \A i \in DOMAIN s : s[i] \in Int \X Nat
  BY LenProperties, ElementOfSeq DEF InKeyOrder
<1>2. \A i \in DOMAIN s : s[i][1] \in Int
  BY <1>1
<1>3. ASSUME NEW i \in 1 .. Len(s), NEW j \in 1 .. Len(s)
      PROVE  /\ s[i] = s[j] => i = j
             /\ s[i][1] < s[j][1] <=> i < j
  <2>1. i < j \/ i = j \/ j < i
    OBVIOUS
  <2>2. i < j => s[i][1] < s[j][1]
    BY <1>1 DEF InKeyOrder
  <2>3. j < i => s[j][1] < s[i][1]
    BY <1>1 DEF InKeyOrder
  <2>4. s[i][1] \in Int /\ s[j][1] \in Int
    BY <1>1, <1>2
  <2> QED
    BY <2>1, <2>2, <2>3, <2>4
<1>4. Cardinality(m) = Len(s)
  <2>1. Counts(s, Len(s), m)
    BY <1>1, <1>3 DEF Counts
  <2> QED
    BY <2>1, Counted
<1>5. ASSUME NEW i \in 1 .. Len(s)
      PROVE  Cardinality({d \in m : d[1] < s[i][1]}) = i - 1
  <2> DEFINE S == {d \in m : d[1] < s[i][1]}
  <2>1. i - 1 \in Nat /\ \A j : j \in 1 .. i - 1 <=> j \in 1 .. Len(s) /\ j < i
    BY <1>1
  <2>2. \A j \in 1 .. i - 1 : s[j] \in S
    BY <1>1, <1>3, <2>1
  <2>3. \A x \in S : \E j \in 1 .. i - 1 : s[j] = x
    <3> SUFFICES ASSUME NEW x \in S PROVE \E j \in 1 .. i - 1 : s[j] = x
      OBVIOUS
    <3>1. PICK j \in 1 .. Len(s) : s[j] = x
      BY <1>1
    <3>2. j < i
      BY <1>3, <3>1
    <3> QED
      BY <2>1, <3>1, <3>2
  <2>4. \A j, k \in 1 .. i - 1 : s[j] = s[k] => j = k
    BY <1>3, <2>1
  <2> HIDE DEF S
  <2>5. Counts(s, i - 1, S)
    BY <2>1, <2>2, <2>3, <2>4 DEF Counts
  <2>6. Cardinality(S) = i - 1
    BY <2>5, Counted
  <2> QED
    BY <2>6 DEF S
<1>6. ASSUME NEW i \in 1 .. Len(s)
      PROVE  (CHOOSE e \in m : Cardinality({d \in m : d[1] < e[1]}) = i - 1) = s[i]
  <2>1. s[i] \in m /\ Cardinality({d \in m : d[1] < s[i][1]}) = i - 1
    BY <1>1, <1>5
  <2>2. ASSUME NEW e \in m, Cardinality({d \in m : d[1] < e[1]}) = i - 1 PROVE e = s[i]
    <3>1. PICK j \in 1 .. Len(s) : s[j] = e
      BY <1>1
    <3>2. Cardinality({d \in m : d[1] < e[1]}) = j - 1
      BY <1>5, <3>1
    <3>3. j = i
      BY <2>2, <3>2
    <3> QED
      BY <3>1, <3>3
  <2> QED
    BY <2>1, <2>2
<1>7. Abstract!InOrder(m) =
        [i \in 1 .. Len(s) |-> (CHOOSE e \in m : Cardinality({d \in m : d[1] < e[1]}) = i - 1)[2]]
  <2>1. Abstract!InOrder(m) =
          [i \in 1 .. Cardinality(m) |-> (CHOOSE e \in m : Cardinality({d \in m : d[1] < e[1]}) = i - 1)[2]]
    BY DEF Abstract!InOrder, Abstract!Cardinality, Cardinality
  <2> QED
    BY <1>4, <2>1
<1>8. OffsetsOf(s) = [i \in 1 .. Len(s) |-> s[i][2]]
  BY <1>1 DEF OffsetsOf
<1> QED
  BY <1>6, <1>7, <1>8

-----------------------------------------------------------------------------
(* The search from the root. *)

ChildFor(key, n) == heap[n].children[find_child_position(heap[n].keys, key)]
Downs(key, f) == f = [n \in allocated |-> IF heap[n].is_leaf THEN n ELSE f[ChildFor(key, n)]]
DownFunction(key) == CHOOSE f : Downs(key, f)

\* The search for key leads from n to l: the least relation that leaves and children give.
DownClosed(key, T) ==
    \A n \in allocated :
        IF heap[n].is_leaf THEN <<n, n>> \in T
        ELSE \A l \in allocated : <<ChildFor(key, n), l>> \in T => <<n, l>> \in T
Leads(key, n, l) == \A T : DownClosed(key, T) => <<n, l>> \in T

LEMMA LeadsFromLeaf ==
    ASSUME NEW key, NEW n \in allocated, heap[n].is_leaf, NEW l \in allocated
    PROVE  Leads(key, n, l) <=> l = n
<1>1. Leads(key, n, n)
  BY DEF Leads, DownClosed
<1>2. ASSUME Leads(key, n, l) PROVE l = n
  <2> DEFINE T == {p \in allocated \X allocated : heap[p[1]].is_leaf => p[2] = p[1]}
  <2>1. \A a, b : <<a, b>> \in T <=> a \in allocated /\ b \in allocated /\ (heap[a].is_leaf => b = a)
    OBVIOUS
  <2> HIDE DEF T
  <2>2. DownClosed(key, T)
    BY <2>1 DEF DownClosed
  <2> QED
    BY <1>2, <2>1, <2>2 DEF Leads
<1> QED
  BY <1>1, <1>2

LEMMA LeadsThroughChild ==
    ASSUME NEW key, NEW n \in allocated, ~heap[n].is_leaf, NEW l \in allocated
    PROVE  Leads(key, n, l) <=> Leads(key, ChildFor(key, n), l)
<1>1. ASSUME Leads(key, ChildFor(key, n), l) PROVE Leads(key, n, l)
  BY <1>1 DEF Leads, DownClosed
<1>2. ASSUME Leads(key, n, l) PROVE Leads(key, ChildFor(key, n), l)
  <2> DEFINE Keep(a, b) == Leads(key, a, b) /\ (a = n => Leads(key, ChildFor(key, n), b))
             T == {p \in allocated \X allocated : Keep(p[1], p[2])}
  <2>1. \A a, b : <<a, b>> \in T <=> a \in allocated /\ b \in allocated /\ Keep(a, b)
    OBVIOUS
  <2> HIDE DEF T
  <2>2. ASSUME NEW m \in allocated, heap[m].is_leaf PROVE <<m, m>> \in T
    BY <2>1, <2>2, LeadsFromLeaf
  <2>3. ASSUME NEW m \in allocated, ~heap[m].is_leaf, NEW b \in allocated, <<ChildFor(key, m), b>> \in T
        PROVE  <<m, b>> \in T
    <3>1. Leads(key, ChildFor(key, m), b)
      BY <2>1, <2>3
    <3>2. Leads(key, m, b)
      BY <2>3, <3>1 DEF Leads, DownClosed
    <3> QED
      BY <2>1, <3>1, <3>2
  <2>4. DownClosed(key, T)
    BY <2>2, <2>3 DEF DownClosed
  <2> QED
    BY <1>2, <2>1, <2>4 DEF Leads
<1> QED
  BY <1>1, <1>2

LEMMA ChildForAllocated ==
    ASSUME TreeInv, NEW key \in Int, NEW n \in allocated, ~heap[n].is_leaf
    PROVE  ChildFor(key, n) \in allocated
<1>1. PICK i : ChildAt(n, i, ChildFor(key, n))
  BY SlotOfKey DEF ChildFor
<1> QED
  BY <1>1, ChildFacts

LEMMA DownsExists ==
    ASSUME TreeInv, NEW key \in Int
    PROVE  \E f : Downs(key, f)
<1> DEFINE f == [n \in allocated |-> CHOOSE l \in allocated : Leads(key, n, l)]
<1>1. ASSUME NEW n \in allocated PROVE f[n] = IF heap[n].is_leaf THEN n ELSE f[ChildFor(key, n)]
  <2>1. CASE heap[n].is_leaf
    <3>1. \A l \in allocated : Leads(key, n, l) <=> l = n
      BY <2>1, LeadsFromLeaf
    <3> QED
      BY <2>1, <3>1
  <2>2. CASE ~heap[n].is_leaf
    <3> DEFINE c == ChildFor(key, n)
    <3>1. c \in allocated
      BY <2>2, ChildForAllocated
    <3>2. \A l \in allocated : Leads(key, n, l) <=> Leads(key, c, l)
      BY <2>2, LeadsThroughChild
    <3> HIDE DEF c
    <3>3. (CHOOSE l \in allocated : Leads(key, n, l)) = (CHOOSE l \in allocated : Leads(key, c, l))
      BY <3>2
    <3>4. f[n] = f[c]
      BY <3>1, <3>3
    <3> QED
      BY <2>2, <3>4 DEF c
  <2> QED
    BY <2>1, <2>2
<1>2. f = [n \in allocated |-> IF heap[n].is_leaf THEN n ELSE f[ChildFor(key, n)]]
  BY <1>1
<1> QED
  BY <1>2 DEF Downs

\* Between two calls a search ends in the leaf that holds its key, if any does.
LEMMA LeafFound ==
    ASSUME TreeInv, pc = "idle", root # Nil, NEW range \in [Nodes -> SUBSET Int],
           Routes(range), RootTakesAll(range), NEW key \in Int
    PROVE  Leaf(find_leaf(key)) /\ key \in range[find_leaf(key)]
<1> DEFINE down == DownFunction(key)
<1>1. find_leaf(key) = down[root]
  BY DEF find_leaf, DownFunction, Downs, ChildFor
<1>2. \A n \in allocated : down[n] = IF heap[n].is_leaf THEN n ELSE down[ChildFor(key, n)]
  <2>1. Downs(key, down)
    BY DownsExists DEF DownFunction
  <2> HIDE DEF down
  <2> QED
    BY <2>1 DEF Downs
<1> HIDE DEF down
<1>3. PICK level \in [Nodes -> Nat] : ChildrenBelow(level)
  BY DEF TreeInv, Leveled
<1> DEFINE Good == {n \in allocated : key \in range[n] => Leaf(down[n]) /\ key \in range[down[n]]}
<1>4. ASSUME NEW n \in allocated, \A m \in allocated : level[m] < level[n] => m \in Good
      PROVE  n \in Good
  <2> SUFFICES ASSUME key \in range[n] PROVE Leaf(down[n]) /\ key \in range[down[n]]
    OBVIOUS
  <2>1. CASE heap[n].is_leaf
    BY <1>2, <2>1 DEF Leaf
  <2>2. CASE ~heap[n].is_leaf
    <3> DEFINE c == ChildFor(key, n)
    <3>1. PICK i : InSlot(heap[n].keys, i, key) /\ ChildAt(n, i, c)
      BY <2>2, SlotOfKey DEF ChildFor
    <3> HIDE DEF c
    <3>2. key \in range[c]
      BY <3>1 DEF Routes, Waits
    <3>3. /\ i \in DOMAIN heap[n].children /\ heap[n].children[i] = c /\ c \in allocated
      BY <3>1, ChildFacts DEF ChildAt
    <3>4. level[c] + 1 = level[n]
      BY <1>3, <2>2, <3>3 DEF ChildrenBelow
    <3>5. level[c] \in Nat /\ level[n] \in Nat
      BY <3>3 DEF TreeInv, TypeOK
    <3>6. c \in Good
      BY <1>4, <3>3, <3>4, <3>5
    <3>7. down[n] = down[c]
      BY <1>2, <2>2 DEF c
    <3> QED
      BY <3>2, <3>6, <3>7
  <2> QED
    BY <2>1, <2>2
<1>5. allocated \subseteq Good
  <2> HIDE DEF Good
  <2> QED
    BY <1>4, ByLevel
<1>6. root \in allocated /\ key \in range[root]
  BY DEF TreeInv, TypeOK, RootTakesAll
<1> QED
  BY <1>1, <1>5, <1>6

-----------------------------------------------------------------------------
(* The entries of leaves one behind the other. *)

LEMMA StartsGrow ==
    ASSUME NEW N \in Nat, NEW start \in [0 .. N -> Nat], \A j \in 1 .. N : start[j - 1] <= start[j]
    PROVE  \A j, k \in 0 .. N : j <= k => start[j] <= start[k]
<1> SUFFICES ASSUME NEW j \in 0 .. N PROVE \A k \in 0 .. N : j <= k => start[j] <= start[k]
  OBVIOUS
<1> DEFINE T == {k \in 0 .. N : j <= k => start[j] <= start[k]}
<1>1. 0 \in T
  OBVIOUS
<1>2. ASSUME NEW n \in 1 .. N, n - 1 \in T PROVE n \in T
  <2>1. j = n \/ j > n \/ j <= n - 1
    OBVIOUS
  <2>2. n - 1 \in 0 .. N /\ start[n - 1] <= start[n] /\ start[n - 1] \in Nat /\ start[n] \in Nat /\ start[j] \in Nat
    OBVIOUS
  <2>3. j <= n - 1 => start[j] <= start[n - 1]
    BY <1>2
  <2>4. j <= n => start[j] <= start[n]
    BY <2>1, <2>2, <2>3
  <2> QED
    BY <2>4
<1>3. 0 .. N \subseteq T
  <2> HIDE DEF T
  <2> QED
    BY <1>1, <1>2, UpTo
<1> QED
  BY <1>3

\* The key of an entry in a leaf is in the leaf's range.
LEMMA EntryInRange ==
    ASSUME TreeInv, NEW range \in [Nodes -> SUBSET Int], LeavesHold(range),
           NEW n, Leaf(n), NEW i \in DOMAIN heap[n].keys
    PROVE  EntryAt(n, i)[1] = heap[n].keys[i] /\ EntryAt(n, i)[1] \in range[n] /\ EntryAt(n, i)[1] \in Int
<1>1. heap[n].keys[i] \in range[n]
  BY DEF LeavesHold, HoldsKeys
<1>2. n \in Nodes
  BY DEF Leaf, TreeInv, TypeOK
<1> QED
  BY <1>1, <1>2 DEF EntryAt

LEMMA PlacedInOrder ==
    ASSUME TreeInv, KeysAscend, NEW range \in [Nodes -> SUBSET Int], LeavesHold(range),
           NEW leaves \in Seq(Nodes), \A j \in DOMAIN leaves : Leaf(leaves[j]), Apart(leaves, range),
           NEW flat, NEW start, Placed(flat, leaves, start)
    PROVE  InKeyOrder(flat)
<1> DEFINE N == Len(leaves)
           keys(j) == heap[leaves[j]].keys
<1>1. N \in Nat /\ DOMAIN leaves = 1 .. N
  BY LenProperties
<1>2. \A j \in 1 .. N :
        /\ Leaf(leaves[j]) /\ leaves[j] \in allocated
        /\ Len(keys(j)) \in Nat /\ DOMAIN keys(j) = 1 .. Len(keys(j))
  BY <1>1, LeafFacts DEF Leaf
<1>3. /\ start \in [0 .. N -> Nat] /\ start[0] = 0
      /\ \A j \in 1 .. N : start[j] = start[j - 1] + Len(keys(j))
  BY DEF Placed
<1>4. \A j \in 1 .. N : j - 1 \in 0 .. N /\ start[j - 1] \in Nat /\ start[j] \in Nat
  BY <1>1, <1>3
<1>5. \A j, k \in 0 .. N : j <= k => start[j] <= start[k]
  <2>1. ASSUME NEW j \in 1 .. N PROVE start[j - 1] <= start[j]
    <3>1. start[j] = start[j - 1] + Len(keys(j)) /\ Len(keys(j)) \in Nat /\ start[j - 1] \in Nat
      BY <1>2, <1>3, <1>4
    <3> HIDE DEF keys, N
    <3> QED
      BY <3>1
  <2> QED
    BY <1>1, <1>3, <2>1, StartsGrow
<1>6. ASSUME NEW a \in DOMAIN flat, NEW b \in DOMAIN flat, a < b
      PROVE  flat[a][1] < flat[b][1]
  <2>1. PICK j \in 1 .. N : \E i \in DOMAIN keys(j) : a = start[j - 1] + i
    BY DEF Placed
  <2>2. PICK i \in DOMAIN keys(j) : a = start[j - 1] + i
    BY <2>1
  <2>3. PICK k \in 1 .. N : \E h \in DOMAIN keys(k) : b = start[k - 1] + h
    BY DEF Placed
  <2>4. PICK h \in DOMAIN keys(k) : b = start[k - 1] + h
    BY <2>3
  <2>5. flat[a] = EntryAt(leaves[j], i) /\ flat[b] = EntryAt(leaves[k], h)
    BY <2>2, <2>4 DEF Placed
  <2>6. /\ i \in Nat /\ 1 <= i /\ i <= Len(keys(j)) /\ h \in Nat /\ 1 <= h /\ h <= Len(keys(k))
    <3>1. /\ DOMAIN keys(j) = 1 .. Len(keys(j)) /\ Len(keys(j)) \in Nat
          /\ DOMAIN keys(k) = 1 .. Len(keys(k)) /\ Len(keys(k)) \in Nat
      BY <1>2
    <3>2. i \in DOMAIN keys(j) /\ h \in DOMAIN keys(k)
      BY <2>2, <2>4
    <3> HIDE DEF keys, N
    <3> QED
      BY <3>1, <3>2
  <2>7. /\ flat[a][1] = keys(j)[i] /\ flat[a][1] \in range[leaves[j]] /\ flat[a][1] \in Int
        /\ flat[b][1] = keys(k)[h] /\ flat[b][1] \in range[leaves[k]] /\ flat[b][1] \in Int
    BY <1>2, <2>5, EntryInRange
  <2>8. CASE j = k
    <3>1. i < h
      BY <1>4, <1>6, <2>2, <2>4, <2>6, <2>8
    <3>2. Ascending(keys(j))
      BY <1>2 DEF KeysAscend
    <3> QED
      BY <2>7, <2>8, <3>1, <3>2 DEF Ascending
  <2>9. CASE j < k
    BY <1>1, <2>7, <2>9 DEF Apart
  <2>10. CASE k < j
    <3>1. k <= j - 1 /\ j - 1 \in 0 .. N /\ k \in 0 .. N
      BY <1>1, <2>10
    <3>2. start[k] <= start[j - 1]
      BY <1>5, <3>1
    <3>3. b <= start[k]
      <4>1. start[k] = start[k - 1] + Len(keys(k)) /\ Len(keys(k)) \in Nat /\ start[k - 1] \in Nat
        BY <1>2, <1>3, <1>4
      <4> HIDE DEF keys, N
      <4> QED
        BY <2>4, <2>6, <4>1
    <3> QED
      BY <1>1, <1>2, <1>3, <1>4, <1>6, <2>2, <2>4, <2>6, <3>2, <3>3
  <2> QED
    BY <1>1, <2>8, <2>9, <2>10
<1>7. flat \in Seq(Int \X Nat)
  BY RowTypes, SeqMonotonic DEF Placed
<1> QED
  BY <1>6, <1>7 DEF InKeyOrder

-----------------------------------------------------------------------------
(* The answers. *)

\* A slice of a sequence in key order answers for the entries in the slice.
LEMMA SliceAnswer ==
    ASSUME NEW s, InKeyOrder(s), NEW a \in 1 .. Len(s) + 1, NEW b \in a - 1 .. Len(s), NEW m,
           \A e : e \in m <=> \E k \in a .. b : s[k] = e
    PROVE  OffsetsOf(SubSeq(s, a, b)) = Abstract!InOrder(m)
<1> DEFINE t == SubSeq(s, a, b)
           S == Int \X Nat
<1>1. s \in Seq(S) /\ Len(s) \in Nat /\ DOMAIN s = 1 .. Len(s)
  BY LenProperties DEF InKeyOrder
<1> HIDE DEF S
<1>2. t \in Seq(S) /\ Len(t) = b - a + 1 /\ \A i \in 1 .. b - a + 1 : t[i] = s[a + i - 1]
  BY <1>1, Slice
<1> HIDE DEF t
<1>3. DOMAIN t = 1 .. b - a + 1
  BY <1>2, LenProperties
<1>4. \A i \in 1 .. b - a + 1 : a + i - 1 \in a .. b /\ a + i - 1 \in DOMAIN s
  BY <1>1
<1>5. ASSUME NEW i \in DOMAIN t, NEW j \in DOMAIN t, i < j PROVE t[i][1] < t[j][1]
  <2>1. \A p, q \in DOMAIN s : p < q => s[p][1] < s[q][1]
    BY DEF InKeyOrder
  <2>2. a + i - 1 < a + j - 1
    BY <1>1, <1>3, <1>5
  <2>3. a + i - 1 \in DOMAIN s /\ a + j - 1 \in DOMAIN s
    BY <1>3, <1>4
  <2>4. s[a + i - 1][1] < s[a + j - 1][1]
    BY <2>1, <2>2, <2>3
  <2> QED
    BY <1>2, <1>3, <2>4
<1>6. InKeyOrder(t)
  BY <1>2, <1>5 DEF InKeyOrder, S
<1>7. ASSUME NEW e PROVE e \in m <=> \E i \in DOMAIN t : t[i] = e
  <2>1. ASSUME NEW k \in a .. b, s[k] = e PROVE \E i \in DOMAIN t : t[i] = e
    <3>1. k - a + 1 \in 1 .. b - a + 1 /\ a + (k - a + 1) - 1 = k
      BY <1>1
    <3> QED
      BY <1>2, <1>3, <2>1, <3>1
  <2>2. ASSUME NEW i \in DOMAIN t, t[i] = e PROVE \E k \in a .. b : s[k] = e
    BY <1>2, <1>3, <1>4, <2>2
  <2> QED
    BY <2>1, <2>2
<1> QED
  BY <1>6, <1>7, OrderedAnswer DEF t

\* The entries of the map, in key order along the chain.
LEMMA ChainInOrder ==
    ASSUME TreeInv, KeysAscend, NEW chain \in Seq(Nodes), NEW range \in [Nodes -> SUBSET Int],
           Chained(chain), Apart(chain, range), LeavesHold(range)
    PROVE  InKeyOrder(Chain)
<1>1. CASE root = Nil
  BY <1>1 DEF Chain, InKeyOrder
<1>2. CASE root # Nil
  <2>1. PICK start : Placed(Chain, chain, start)
    BY <1>2, ChainPlaced
  <2>2. \A j \in DOMAIN chain : Leaf(chain[j])
    BY DEF Chained, Linked
  <2> QED
    BY <2>1, <2>2, PlacedInOrder
<1> QED
  BY <1>1, <1>2

\* The walk from the left stops at the first key that is not below the bound.
LEMMA LessThanAnswered ==
    ASSUME InKeyOrder(Chain), NEW key \in Int
    PROVE  bptree_visit_less_than(key) = Abstract!VisitLessThan(ToSet(Chain), key)
<1> DEFINE s == Chain
           stops == {i \in DOMAIN s : s[i][1] >= key}
           stop == FirstPosition(s, stops)
           m == {e \in ToSet(s) : e[1] < key}
<1>1. s \in Seq(Int \X Nat) /\ Len(s) \in Nat /\ DOMAIN s = 1 .. Len(s)
  BY LenProperties DEF InKeyOrder
<1>2. \A i \in DOMAIN s : s[i][1] \in Int
  BY <1>1, ElementOfSeq
<1>3. \A i : i \in stops <=> i \in DOMAIN s /\ s[i][1] >= key
  OBVIOUS
<1>4. \A e : e \in m <=> e[1] < key /\ \E k \in DOMAIN s : s[k] = e
  BY DEF ToSet
<1>5. bptree_visit_less_than(key) = OffsetsOf(SubSeq(s, 1, stop - 1))
  BY DEF bptree_visit_less_than
<1>6. Abstract!VisitLessThan(ToSet(Chain), key) = Abstract!InOrder(m)
  BY DEF Abstract!VisitLessThan
<1>7. InKeyOrder(s)
  OBVIOUS
<1> HIDE DEF s, stops, stop, m
<1>8. stop \in 1 .. Len(s) + 1
  BY <1>1, <1>3, PositionBound DEF stop
<1>9. /\ \A j \in stops : stop <= j
      /\ stop <= Len(s) => stop \in stops
  BY <1>1, <1>3, PositionIsFirst DEF stop
<1>10. ASSUME NEW k \in DOMAIN s PROVE s[k][1] < key <=> k < stop
  <2>1. CASE k < stop
    <3>1. k \notin stops
      BY <1>1, <1>8, <1>9, <2>1
    <3>2. s[k][1] \in Int /\ ~(s[k][1] >= key)
      BY <1>2, <1>3, <3>1
    <3> QED
      BY <2>1, <3>2
  <2>2. CASE k >= stop
    <3>1. stop \in DOMAIN s /\ s[stop][1] >= key
      BY <1>1, <1>3, <1>8, <1>9, <2>2
    <3>2. \A p, q \in DOMAIN s : p < q => s[p][1] < s[q][1]
      BY <1>7 DEF InKeyOrder
    <3>3. k = stop \/ stop < k
      BY <1>1, <1>8, <2>2
    <3>4. k = stop \/ s[stop][1] < s[k][1]
      BY <3>1, <3>2, <3>3
    <3>5. s[k][1] \in Int /\ s[stop][1] \in Int
      BY <1>2, <3>1
    <3>6. ~(s[k][1] < key) /\ ~(k < stop)
      BY <1>1, <1>8, <2>2, <3>1, <3>4, <3>5
    <3> QED
      BY <3>6
  <2> QED
    BY <1>1, <1>8, <2>1, <2>2
<1>11. 1 \in 1 .. Len(s) + 1 /\ stop - 1 \in 1 - 1 .. Len(s)
  BY <1>1, <1>8
<1>12. \A k : k \in 1 .. stop - 1 <=> k \in DOMAIN s /\ k < stop
  BY <1>1, <1>8
<1>13. \A e : e \in m <=> \E k \in 1 .. stop - 1 : s[k] = e
  BY <1>4, <1>10, <1>12
<1>14. OffsetsOf(SubSeq(s, 1, stop - 1)) = Abstract!InOrder(m)
  BY <1>7, <1>11, <1>13, SliceAnswer
<1> QED
  BY <1>5, <1>6, <1>14

LEMMA EmptyAnswer == Abstract!InOrder({}) = <<>>
<1>1. InKeyOrder(<<>>) /\ \A e : e \in {} <=> \E i \in DOMAIN <<>> : <<>>[i] = e
  BY DEF InKeyOrder
<1>2. Abstract!InOrder({}) = OffsetsOf(<<>>)
  BY <1>1, OrderedAnswer
<1> QED
  BY <1>2 DEF OffsetsOf

LEMMA OneAnswer ==
    ASSUME NEW e \in Int \X Nat
    PROVE  Abstract!InOrder({e}) = <<e[2]>>
<1>1. InKeyOrder(<<e>>) /\ \A d : d \in {e} <=> \E i \in DOMAIN <<e>> : <<e>>[i] = d
  BY DEF InKeyOrder
<1>2. Abstract!InOrder({e}) = OffsetsOf(<<e>>)
  BY <1>1, OrderedAnswer
<1> QED
  BY <1>2 DEF OffsetsOf

\* What the ranges say of a tree between two calls.
Settled(chain, range) ==
    /\ SearchInv /\ pc = "idle" /\ Chained(chain)
    /\ Apart(chain, range) /\ LeavesHold(range) /\ Routes(range) /\ RootTakesAll(range)

\* A search finds the one entry with its key, or that there is none.
LEMMA SearchAnswered ==
    ASSUME NEW chain \in Seq(Nodes), NEW range \in [Nodes -> SUBSET Int], Settled(chain, range),
           NEW key \in Int
    PROVE  bptree_search(key) = Abstract!Search(ToSet(Chain), key)
<1> DEFINE n == find_leaf(key)
           p == find_leaf_position(heap[n].keys, key)
           m == {e \in ToSet(Chain) : e[1] = key}
<1>1. TreeInv /\ KeysAscend /\ ChainInv /\ pc = "idle"
  BY DEF Settled, SearchInv, ChainInv
<1>2. \A e : e \in ToSet(Chain) <=> StoredEntry(e)
  BY <1>1, ChainStores
<1>3. Abstract!Search(ToSet(Chain), key) = Abstract!InOrder(m)
  BY DEF Abstract!Search
<1>4. CASE root = Nil
  <2>1. m = {} /\ bptree_search(key) = <<>>
    BY <1>4 DEF Chain, ToSet, bptree_search
  <2> QED
    BY <1>3, <2>1, EmptyAnswer
<1>5. CASE root # Nil
  <2>1. Leaf(n) /\ key \in range[n] /\ n \in allocated
    BY <1>1, <1>5, LeafFound DEF Settled, Leaf
  <2>2. bptree_search(key) =
          IF p > Len(heap[n].keys) \/ heap[n].keys[p] # key THEN <<>> ELSE <<heap[n].offsets[p]>>
    BY <1>5 DEF bptree_search
  <2>3. \A e : e \in m <=> StoredEntry(e) /\ e[1] = key
    BY <1>2
  <2> HIDE DEF n, m
  <2>4. PlaceOf(n, key, p)
    BY <1>1, <2>1, PositionOfKey
  <2> HIDE DEF p
  <2>5. /\ KeyStored(key) <=> \E j \in DOMAIN heap[n].keys : heap[n].keys[j] = key
        /\ \A e : StoredEntry(e) /\ e[1] = key => \E j \in DOMAIN heap[n].keys : e = EntryAt(n, j)
    BY <1>1, <2>1, KeyInItsLeaf DEF Settled
  <2>6. /\ Len(heap[n].keys) \in Nat /\ DOMAIN heap[n].keys = 1 .. Len(heap[n].keys)
        /\ \A i \in DOMAIN heap[n].keys : EntryAt(n, i) \in Keys \X Offsets
    BY <1>1, <2>1, LeafFacts
  <2>7. CASE \E j \in DOMAIN heap[n].keys : heap[n].keys[j] = key
    <3>1. p <= Len(heap[n].keys) /\ heap[n].keys[p] = key /\ p \in DOMAIN heap[n].keys
      BY <2>4, <2>6, <2>7 DEF PlaceOf
    <3>2. \A j \in DOMAIN heap[n].keys : heap[n].keys[j] = key => j = p
      <4>1. \A j \in DOMAIN heap[n].keys : (j < p => heap[n].keys[j] < heap[n].keys[p])
                                          /\ (p < j => heap[n].keys[p] < heap[n].keys[j])
        BY <1>1, <2>1, <3>1 DEF KeysAscend, Ascending
      <4>2. \A j \in DOMAIN heap[n].keys : j < p \/ p < j \/ j = p
        BY <2>6, <3>1
      <4> QED
        BY <3>1, <4>1, <4>2
    <3>3. \A j : EntryAt(n, j)[1] = heap[n].keys[j] /\ EntryAt(n, j)[2] = heap[n].offsets[j]
      BY DEF EntryAt
    <3>4. StoredEntry(EntryAt(n, p)) /\ EntryAt(n, p)[1] = key
      BY <2>1, <3>1, <3>3 DEF StoredEntry
    <3>5. \A e : e \in m <=> e = EntryAt(n, p)
      BY <2>3, <2>5, <3>2, <3>3, <3>4
    <3>6. m = {EntryAt(n, p)}
      BY <3>5
    <3>7. EntryAt(n, p) \in Int \X Nat
      BY <2>6, <3>1, RowTypes
    <3>8. Abstract!InOrder(m) = <<heap[n].offsets[p]>>
      BY <3>3, <3>6, <3>7, OneAnswer
    <3>9. ~(p > Len(heap[n].keys))
      BY <2>6, <3>1
    <3> QED
      BY <1>3, <2>2, <3>1, <3>8, <3>9
  <2>8. CASE ~\E j \in DOMAIN heap[n].keys : heap[n].keys[j] = key
    <3>1. ~KeyStored(key)
      BY <2>5, <2>8
    <3>2. m = {}
      BY <2>3, <3>1 DEF KeyStored
    <3>3. ~(p <= Len(heap[n].keys) /\ heap[n].keys[p] = key)
      BY <2>4, <2>8 DEF PlaceOf
    <3>4. p > Len(heap[n].keys) \/ heap[n].keys[p] # key
      <4>1. p \in Int /\ Len(heap[n].keys) \in Nat
        BY <2>4, <2>6 DEF PlaceOf
      <4> QED
        BY <3>3, <4>1
    <3> QED
      BY <1>3, <2>2, <3>2, <3>4, EmptyAnswer
  <2> QED
    BY <2>7, <2>8
<1> QED
  BY <1>4, <1>5

\* Where the keys of an ascending node get larger than a bound.
LargerFrom(n, key, first) ==
    /\ first \in 1 .. Len(heap[n].keys) + 1
    /\ \A i \in DOMAIN heap[n].keys : heap[n].keys[i] > key <=> i >= first

LEMMA FirstLarger ==
    ASSUME TreeInv, KeysAscend, NEW n \in allocated, NEW key \in Int
    PROVE  LargerFrom(n, key, FirstPosition(heap[n].keys, {i \in DOMAIN heap[n].keys : heap[n].keys[i] > key}))
<1> DEFINE keys == heap[n].keys
           stops == {i \in DOMAIN keys : keys[i] > key}
           first == FirstPosition(keys, stops)
<1>1. /\ keys \in Seq(Keys) /\ Len(keys) \in Nat /\ DOMAIN keys = 1 .. Len(keys)
      /\ \A i \in DOMAIN keys : keys[i] \in Int
  BY NodeFacts
<1>2. \A i, j \in DOMAIN keys : i < j => keys[i] < keys[j]
  BY DEF KeysAscend, Ascending
<1>3. \A i : i \in stops <=> i \in DOMAIN keys /\ keys[i] > key
  OBVIOUS
<1> HIDE DEF keys, stops
<1>4. first \in 1 .. Len(keys) + 1
  BY <1>1, <1>3, PositionBound
<1>5. /\ \A j \in stops : first <= j
      /\ first <= Len(keys) => first \in stops
  BY <1>1, <1>3, PositionIsFirst
<1> HIDE DEF first
<1>6. ASSUME NEW i \in DOMAIN keys PROVE keys[i] > key <=> i >= first
  <2>1. CASE i < first
    <3>1. i \notin stops
      BY <1>1, <1>4, <1>5, <2>1
    <3> QED
      BY <1>1, <1>3, <1>4, <2>1, <3>1
  <2>2. CASE i >= first
    <3>1. first \in DOMAIN keys /\ keys[first] > key
      BY <1>1, <1>3, <1>4, <1>5, <2>2
    <3>2. i = first \/ first < i
      BY <1>1, <1>4, <2>2
    <3>3. i = first \/ keys[first] < keys[i]
      BY <1>2, <3>1, <3>2
    <3> QED
      BY <1>1, <2>2, <3>1, <3>3
  <2> QED
    BY <1>1, <1>4, <2>1, <2>2
<1> QED
  BY <1>4, <1>6 DEF LargerFrom, keys, first, stops

\* The leaves of the walk, and the entries in them, from a leaf of the chain on.
LEMMA WalkFrom ==
    ASSUME NEW chain \in Seq(Nodes), NEW range \in [Nodes -> SUBSET Int], Settled(chain, range),
           NEW q \in DOMAIN chain, NEW leaves, leaves = LeavesFrom(chain[q])
    PROVE  /\ leaves \in Seq(Nodes) /\ Len(leaves) = Len(chain) - q + 1
           /\ \A j \in 1 .. Len(leaves) : leaves[j] = chain[q + j - 1] /\ q + j - 1 \in DOMAIN chain
           /\ \A j \in DOMAIN leaves : Leaf(leaves[j])
           /\ Apart(leaves, range)
<1>1. Len(chain) \in Nat /\ DOMAIN chain = 1 .. Len(chain)
  BY LenProperties
<1>2. leaves = Rest(chain, q)
  BY LeavesComputed DEF Settled, SearchInv
<1>3. q \in 1 .. Len(chain) + 1 /\ Len(chain) \in q - 1 .. Len(chain)
  BY <1>1
<1>4. /\ leaves \in Seq(Nodes) /\ Len(leaves) = Len(chain) - q + 1
      /\ \A j \in 1 .. Len(chain) - q + 1 : leaves[j] = chain[q + j - 1]
  BY <1>2, <1>3, Slice DEF Rest
<1>5. DOMAIN leaves = 1 .. Len(leaves)
  BY <1>4, LenProperties
<1>6. \A j \in 1 .. Len(leaves) : leaves[j] = chain[q + j - 1] /\ q + j - 1 \in DOMAIN chain
  BY <1>1, <1>4
<1>7. \A j \in DOMAIN leaves : Leaf(leaves[j])
  BY <1>5, <1>6 DEF Settled, Chained, Linked
<1>8. Apart(leaves, range)
  <2> SUFFICES ASSUME NEW i \in DOMAIN leaves, NEW j \in DOMAIN leaves, i < j
               PROVE  \A a \in range[leaves[i]], b \in range[leaves[j]] : a < b
    BY DEF Apart
  <2>1. q + i - 1 < q + j - 1
    BY <1>1, <1>5
  <2>2. /\ leaves[i] = chain[q + i - 1] /\ q + i - 1 \in DOMAIN chain
        /\ leaves[j] = chain[q + j - 1] /\ q + j - 1 \in DOMAIN chain
    BY <1>5, <1>6
  <2>3. \A x, y \in DOMAIN chain : x < y => \A a \in range[chain[x]], b \in range[chain[y]] : a < b
    BY DEF Settled, Apart
  <2>4. \A a \in range[chain[q + i - 1]], b \in range[chain[q + j - 1]] : a < b
    BY <2>1, <2>2, <2>3
  <2> QED
    BY <2>2, <2>4
<1> QED
  BY <1>4, <1>6, <1>7, <1>8

\* In the entries of the walk from the leaf of a key, those above the key come last.
LEMMA LargerInWalk ==
    ASSUME TreeInv, KeysAscend, NEW range \in [Nodes -> SUBSET Int], LeavesHold(range),
           NEW leaves \in Seq(Nodes), Len(leaves) >= 1, \A j \in DOMAIN leaves : Leaf(leaves[j]),
           Apart(leaves, range), NEW s, NEW start, Placed(s, leaves, start),
           NEW key \in range[leaves[1]], NEW first, LargerFrom(leaves[1], key, first)
    PROVE  /\ first \in 1 .. Len(s) + 1
           /\ \A k \in DOMAIN s : s[k][1] > key <=> k >= first
<1> DEFINE N == Len(leaves)
           L == Len(heap[leaves[1]].keys)
<1>1. N \in Nat /\ DOMAIN leaves = 1 .. N /\ N >= 1 /\ 1 \in 1 .. N
  BY LenProperties
<1>2. \A j \in 1 .. N :
        /\ Leaf(leaves[j]) /\ leaves[j] \in allocated
        /\ Len(heap[leaves[j]].keys) \in Nat
        /\ DOMAIN heap[leaves[j]].keys = 1 .. Len(heap[leaves[j]].keys)
  BY <1>1, LeafFacts DEF Leaf
<1>3. /\ start \in [0 .. N -> Nat] /\ start[0] = 0
      /\ \A j \in 1 .. N : start[j] = start[j - 1] + Len(heap[leaves[j]].keys)
      /\ s \in Seq(Keys \X Offsets) /\ Len(s) = start[N]
  BY DEF Placed
<1>4. \A j \in 1 .. N : j - 1 \in 0 .. N /\ start[j - 1] \in Nat /\ start[j] \in Nat
  <2>1. \A j \in 1 .. N : j - 1 \in 0 .. N /\ j \in 0 .. N
    BY <1>1
  <2>2. \A j \in 0 .. N : start[j] \in Nat
    BY <1>3
  <2> QED
    BY <2>1, <2>2
<1>5. \A j \in 1 .. N : start[j - 1] <= start[j]
  <2> SUFFICES ASSUME NEW j \in 1 .. N PROVE start[j - 1] <= start[j]
    OBVIOUS
  <2>1. /\ start[j] = start[j - 1] + Len(heap[leaves[j]].keys)
        /\ Len(heap[leaves[j]].keys) \in Nat /\ start[j - 1] \in Nat
    BY <1>2, <1>3, <1>4
  <2> QED
    BY <2>1
<1>6. \A j, k \in 0 .. N : j <= k => start[j] <= start[k]
  BY <1>1, <1>3, <1>5, StartsGrow
<1>7. start[1] = L /\ L \in Nat
  <2>1. start[1] = start[1 - 1] + L /\ 1 - 1 = 0
    BY <1>1, <1>3
  <2>2. L \in Nat
    BY <1>1, <1>2
  <2> QED
    BY <1>3, <2>1, <2>2
<1>8. first \in 1 .. L + 1 /\ \A i \in 1 .. L : heap[leaves[1]].keys[i] > key <=> i >= first
  BY <1>1, <1>2 DEF LargerFrom
<1>9. Len(s) \in Nat /\ DOMAIN s = 1 .. Len(s)
  BY <1>3, LenProperties
<1>10. L <= Len(s)
  <2>1. 1 \in 0 .. N /\ N \in 0 .. N /\ 1 <= N
    BY <1>1
  <2>2. start[1] <= start[N]
    BY <1>6, <2>1
  <2> QED
    BY <1>3, <1>7, <2>2
<1>11. first \in 1 .. Len(s) + 1
  BY <1>7, <1>8, <1>9, <1>10
<1>12. key \in Int
  <2>1. leaves[1] \in Nodes
    BY <1>1, ElementOfSeq
  <2> QED
    BY <2>1
<1>13. ASSUME NEW k \in DOMAIN s PROVE s[k][1] > key <=> k >= first
  <2>1. PICK j \in 1 .. N : \E i \in DOMAIN heap[leaves[j]].keys : k = start[j - 1] + i
    BY DEF Placed
  <2>2. PICK i \in DOMAIN heap[leaves[j]].keys : k = start[j - 1] + i
    BY <2>1
  <2>3. s[k] = EntryAt(leaves[j], i)
    BY <2>2 DEF Placed
  <2>4. /\ s[k][1] = heap[leaves[j]].keys[i] /\ s[k][1] \in range[leaves[j]] /\ s[k][1] \in Int
    BY <1>2, <2>3, EntryInRange
  <2>5. i \in 1 .. Len(heap[leaves[j]].keys) /\ i \in Nat /\ i >= 1
    BY <1>2
  <2>6. CASE j = 1
    <3>1. k = i /\ i \in 1 .. L
      BY <1>3, <2>2, <2>5, <2>6
    <3> QED
      BY <1>8, <2>4, <2>6, <3>1
  <2>7. CASE j # 1
    <3>1. 1 < j /\ 1 \in DOMAIN leaves /\ j \in DOMAIN leaves
      BY <1>1, <2>7
    <3>2. key < s[k][1]
      BY <2>4, <3>1 DEF Apart
    <3>3. 1 \in 0 .. N /\ j - 1 \in 0 .. N /\ 1 <= j - 1
      BY <1>1, <2>7
    <3>4. start[1] <= start[j - 1] /\ start[j - 1] \in Nat
      BY <1>4, <1>6, <3>3
    <3>5. first <= L + 1 /\ first \in Int
      BY <1>7, <1>8
    <3>6. k >= first
      <4>1. k = start[j - 1] + i
        BY <2>2
      <4>2. start[1] = L /\ L \in Int
        BY <1>7
      <4>3. i \in Nat /\ i >= 1
        BY <2>5
      <4> QED
        BY <3>4, <3>5, <4>1, <4>2, <4>3
    <3> QED
      BY <1>12, <2>4, <3>2, <3>6
  <2> QED
    BY <2>6, <2>7
<1> QED
  BY <1>11, <1>13

\* A visit above a key reports the entries of the map with larger keys, in key order.
LEMMA GreaterThanAnswered ==
    ASSUME NEW chain \in Seq(Nodes), NEW range \in [Nodes -> SUBSET Int], Settled(chain, range),
           NEW key \in Int
    PROVE  bptree_visit_greater_than(key) = Abstract!VisitGreaterThan(ToSet(Chain), key)
<1> DEFINE n == find_leaf(key)
           leaves == LeavesFrom(n)
           s == Entries(leaves)
           m == {e \in ToSet(Chain) : e[1] > key}
<1>1. TreeInv /\ KeysAscend /\ ChainInv /\ pc = "idle" /\ Chained(chain) /\ Apart(chain, range) /\ LeavesHold(range)
  BY DEF Settled, SearchInv, ChainInv
<1>2. \A e : e \in m <=> StoredEntry(e) /\ e[1] > key
  BY <1>1, ChainStores
<1>3. Abstract!VisitGreaterThan(ToSet(Chain), key) = Abstract!InOrder(m)
  BY DEF Abstract!VisitGreaterThan
<1>4. CASE root = Nil
  <2>1. m = {} /\ bptree_visit_greater_than(key) = <<>>
    BY <1>4 DEF Chain, ToSet, bptree_visit_greater_than
  <2> QED
    BY <1>3, <2>1, EmptyAnswer
<1>5. CASE root # Nil
  <2> DEFINE keys == heap[leaves[1]].keys
             first == FirstPosition(keys, {i \in DOMAIN keys : keys[i] > key})
  <2>1. Leaf(n) /\ key \in range[n] /\ n \in allocated
    BY <1>1, <1>5, LeafFound DEF Settled, Leaf
  <2>2. bptree_visit_greater_than(key) = OffsetsOf(SubSeq(s, first, Len(s)))
    BY <1>5 DEF bptree_visit_greater_than
  <2> HIDE DEF n, m
  <2>3. PICK q \in DOMAIN chain : chain[q] = n
    BY <1>1, <2>1 DEF Chained, Linked
  <2>4. q \in 1 .. Len(chain) /\ Len(chain) \in Nat /\ DOMAIN chain = 1 .. Len(chain)
    BY <2>3, LenProperties
  <2>5. leaves = LeavesFrom(chain[q])
    BY <2>3
  <2> HIDE DEF leaves
  <2>6. /\ leaves \in Seq(Nodes) /\ Len(leaves) = Len(chain) - q + 1
        /\ \A j \in 1 .. Len(leaves) : leaves[j] = chain[q + j - 1] /\ q + j - 1 \in DOMAIN chain
        /\ \A j \in DOMAIN leaves : Leaf(leaves[j])
        /\ Apart(leaves, range)
    BY <2>5, WalkFrom
  <2>7. Len(leaves) >= 1 /\ leaves[1] = n
    <3>1. Len(leaves) >= 1 /\ q + 1 - 1 = q /\ 1 \in 1 .. Len(leaves)
      BY <2>4, <2>6
    <3>2. leaves[1] = chain[q + 1 - 1]
      BY <2>6, <3>1
    <3> QED
      BY <2>3, <3>1, <3>2
  <2>8. PICK start : Placed(s, leaves, start)
    BY <1>1, <2>6, EntriesPlaced
  <2> HIDE DEF s
  <2>9. LargerFrom(leaves[1], key, first)
    BY <1>1, <2>1, <2>7, FirstLarger
  <2> HIDE DEF first
  <2>10. /\ first \in 1 .. Len(s) + 1
         /\ \A k \in DOMAIN s : s[k][1] > key <=> k >= first
    BY <1>1, <2>1, <2>6, <2>7, <2>8, <2>9, LargerInWalk
  <2>11. InKeyOrder(s)
    BY <1>1, <2>6, <2>8, PlacedInOrder
  <2>12. Len(s) \in Nat /\ DOMAIN s = 1 .. Len(s) /\ Len(s) \in first - 1 .. Len(s)
    <3>1. Len(s) \in Nat /\ DOMAIN s = 1 .. Len(s)
      BY <2>11, LenProperties DEF InKeyOrder
    <3> QED
      BY <2>10, <3>1
  <2>13. \A k : k \in first .. Len(s) <=> k \in DOMAIN s /\ k >= first
    BY <2>10, <2>12
  <2>14. DOMAIN leaves = 1 .. Len(leaves)
    BY <2>6, LenProperties
  <2>15. ASSUME NEW k \in DOMAIN s PROVE StoredEntry(s[k])
    <3>1. PICK j \in 1 .. Len(leaves) : \E i \in DOMAIN heap[leaves[j]].keys : k = start[j - 1] + i
      BY <2>8 DEF Placed
    <3>2. PICK i \in DOMAIN heap[leaves[j]].keys : k = start[j - 1] + i
      BY <3>1
    <3>3. s[k] = EntryAt(leaves[j], i)
      BY <2>8, <3>2 DEF Placed
    <3> QED
      BY <2>6, <2>14, <3>3 DEF StoredEntry
  <2>16. ASSUME NEW e, StoredEntry(e), e[1] > key PROVE \E k \in DOMAIN s : s[k] = e
    <3>1. PICK l : Leaf(l) /\ \E i \in DOMAIN heap[l].keys : e = EntryAt(l, i)
      BY <2>16 DEF StoredEntry
    <3>2. PICK i \in DOMAIN heap[l].keys : e = EntryAt(l, i)
      BY <3>1
    <3>3. PICK b \in DOMAIN chain : chain[b] = l
      BY <1>1, <3>1 DEF Chained, Linked
    <3>4. e[1] \in range[l] /\ e[1] \in Int
      BY <1>1, <3>1, <3>2, EntryInRange
    <3>5. ~(b < q)
      <4>1. b < q => e[1] < key
        BY <1>1, <2>1, <2>3, <3>3, <3>4 DEF Apart
      <4> QED
        BY <2>16, <3>4, <4>1
    <3>6. b - q + 1 \in 1 .. Len(leaves) /\ q + (b - q + 1) - 1 = b
      BY <2>4, <2>6, <3>5
    <3>7. leaves[b - q + 1] = l
      BY <2>6, <3>3, <3>6
    <3> DEFINE j == b - q + 1
    <3>8. start[j - 1] + i \in DOMAIN s /\ s[start[j - 1] + i] = EntryAt(l, i)
      BY <2>8, <3>6, <3>7 DEF Placed
    <3> QED
      BY <3>2, <3>8
  <2>17. \A e : e \in m <=> \E k \in first .. Len(s) : s[k] = e
    BY <1>2, <2>10, <2>13, <2>15, <2>16
  <2>18. OffsetsOf(SubSeq(s, first, Len(s))) = Abstract!InOrder(m)
    BY <2>10, <2>11, <2>12, <2>17, SliceAnswer
  <2> QED
    BY <1>3, <2>2, <2>18
<1> QED
  BY <1>4, <1>5

(* ReadsAnswer, for every order, every set of rows and every pattern of failures *)
(* that come before a leaf is divided: between two calls a search finds exactly  *)
(* the stored offset, and the visits report the offsets on their side of the     *)
(* bound in key order (bptree.c:366-492).                                *)
THEOREM TreeAnswersReads == Spec /\ []ParentsGetMemory => []ReadsAnswer
<1>1. KnownInv => ReadsAnswer
  <2> SUFFICES ASSUME KnownInv, pc = "idle", NEW key \in Keys
               PROVE  /\ bptree_search(key) = Abstract!Search(StoredMap, key)
                      /\ bptree_visit_greater_than(key) = Abstract!VisitGreaterThan(StoredMap, key)
                      /\ bptree_visit_less_than(key) = Abstract!VisitLessThan(StoredMap, key)
    BY DEF ReadsAnswer
  <2>1. PICK chain \in Seq(Nodes), range \in [Nodes -> SUBSET Int] : Chained(chain) /\ Ranged(chain, range)
    BY DEF KnownInv, RangeInv
  <2>2. Settled(chain, range)
    BY <2>1 DEF Settled, KnownInv, Ranged
  <2>3. InKeyOrder(Chain)
    BY <2>2, ChainInOrder DEF Settled, SearchInv
  <2>4. StoredMap = ToSet(Chain) /\ key \in Int
    BY RowTypes DEF StoredMap
  <2> QED
    BY <2>2, <2>3, <2>4, SearchAnswered, GreaterThanAnswered, LessThanAnswered
<1> QED
  BY <1>1, KnownInvHolds, PTL

(* NoKeyTwice under the same hypothesis, during a call too: the documented refusal *)
(* of duplicates (docs/bptree-easy-guide.md:246) holds exactly as far as every     *)
(* half of a divided leaf finds its parent (bptree.c:197-200, 247-251, 351-354).   *)
THEOREM TreeHoldsNoKeyTwice == Spec /\ []ParentsGetMemory => []NoKeyTwice
<1>1. KnownInv => NoKeyTwice
  <2> SUFFICES ASSUME KnownInv, NEW i \in DOMAIN Chain, NEW j \in DOMAIN Chain, i # j
               PROVE  Chain[i][1] # Chain[j][1]
    BY DEF NoKeyTwice
  <2>1. PICK chain \in Seq(Nodes), range \in [Nodes -> SUBSET Int] : Chained(chain) /\ Ranged(chain, range)
    BY DEF KnownInv, RangeInv
  <2>2. InKeyOrder(Chain)
    BY <2>1, ChainInOrder DEF KnownInv, SearchInv, Ranged
  <2>3. \A p, q \in DOMAIN Chain : p < q => Chain[p][1] < Chain[q][1]
    BY <2>2 DEF InKeyOrder
  <2>4. DOMAIN Chain = 1 .. Len(Chain) /\ Len(Chain) \in Nat
    BY <2>2, LenProperties DEF InKeyOrder
  <2>5. \A p \in DOMAIN Chain : Chain[p][1] \in Int
    <3>1. \A p \in 1 .. Len(Chain) : Chain[p] \in Int \X Nat
      BY <2>2, ElementOfSeq DEF InKeyOrder
    <3> QED
      BY <2>4, <3>1
  <2>6. i < j \/ j < i
    BY <2>4
  <2>7. Chain[i][1] < Chain[j][1] \/ Chain[j][1] < Chain[i][1]
    BY <2>3, <2>6
  <2> QED
    BY <2>5, <2>7
<1> QED
  BY <1>1, KnownInvHolds, PTL
=============================================================================
