---------------------------- MODULE MCSqlTable -----------------------------
(* Small instances of SqlTable for TLC. *)
EXTENDS SqlTable, TLC

MinusTwo == -2
MinusOne == -1
AllIds == Ids
NoFile == <<>>
HeaderOnly == <<Header>>
Symmetry == Permutations(Procs)
=============================================================================
