---------------------------- MODULE MCBPlusTree ----------------------------
(***************************************************************************)
(* Small instances of BPlusTree for TLC.  The offset of a row is a         *)
(* function of its key that no two keys share, so a key that gets the      *)
(* offset of another one is seen; one key can also be inserted with a      *)
(* second offset, so a duplicate that overwrites is seen.                  *)
(***************************************************************************)
EXTENDS BPlusTree

CONSTANTS MaxKey, MaxNode

MCNodes == 1 .. MaxNode
MCRowsOnce == {<<k, 10 * k>> : k \in 1 .. MaxKey}
MCRows == MCRowsOnce \cup {<<2, 5>>}

(* Keys arrive from both ends, or leave one gap at the low end; with the       *)
(* source's ORDER this reaches the split of an internal node in a short run.   *)
FromBothEnds ==
    ret' = "running" /\ ret # "running" =>
        LET leaves == {n \in allocated : heap[n].is_leaf}
            absent == Keys \ UNION {ToSet(heap[n].keys) : n \in leaves}
        IN  call'.key \in absent =>
                \/ \A k \in absent : k <= call'.key
                \/ Cardinality({k \in absent : k < call'.key}) <= 1

(* After a failed allocation a key can enter the tree again and again, each    *)
(* time as a new entry: the exploration stops at the second repeated entry.    *)
FewRepeats ==
    LET leaves == {n \in allocated : heap[n].is_leaf}
    IN  Cardinality(UNION {{n} \X DOMAIN heap[n].keys : n \in leaves}) <= MaxKey + 1
=============================================================================
