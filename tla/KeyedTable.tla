----------------------------- MODULE KeyedTable -----------------------------
(***************************************************************************)
(* What a program that has a table with a primary key to itself is         *)
(* promised: INSERT stores at most one row, under a key that had none (the *)
(* key it names, if it names one), before it reports success; a refused    *)
(* INSERT and a failed SELECT store nothing; a killed process may leave    *)
(* the row of its last INSERT behind, and no row is ever lost.  SqlTable   *)
(* implements this specification with one process.                         *)
(***************************************************************************)
CONSTANTS
    Keys,            \* the ids of the table
    Preloaded        \* the keys of the rows at the start

VARIABLES
    keys,            \* the keys of the stored rows
    wanted,          \* the keys under which the running INSERT may store a row
    stored,          \* it has stored one
    status           \* "running", or the outcome of the last statement

vars == <<keys, wanted, stored, status>>

Init ==
    /\ keys = Preloaded
    /\ wanted = Keys /\ stored = FALSE
    /\ status = "none"

\* An INSERT that names key k, or leaves the key out.
Insert ==
    /\ status # "running"
    /\ status' = "running"
    /\ wanted' \in {Keys} \cup {{k} : k \in Keys}
    /\ UNCHANGED <<keys, stored>>

Store ==
    /\ status = "running" /\ ~stored
    /\ \E k \in wanted \ keys : keys' = keys \cup {k}
    /\ stored' = TRUE
    /\ UNCHANGED <<wanted, status>>

End(outcome) ==
    /\ status' = outcome
    /\ wanted' = Keys /\ stored' = FALSE
    /\ UNCHANGED keys

Succeed == stored /\ End("ok")
Refuse == status = "running" /\ ~stored /\ End("error")
SelectFails == status # "running" /\ End("error")
Die == End("none")

Next == Insert \/ Store \/ Succeed \/ Refuse \/ SelectFails \/ Die

Spec == Init /\ [][Next]_vars
=============================================================================
