---------------------------- MODULE MCSqlProgram ----------------------------
(* Small inputs for SqlProgram: every short session over a few pieces, sessions *)
(* and files of statements on one line or on lines of their own, and answers to *)
(* the benchmark's prompt followed by a session.                                *)
EXTENDS SqlProgram, SequencesExt

MCTables == {"users", "log", "pets", "nosuch"}
MCSchemas == [users |-> "keyed", log |-> "plain", pets |-> "keyed"]
MCPreloaded ==
    [d \in Dirs |-> [table \in MCTables |->
        IF table = "users" THEN (IF d = "own" THEN <<4>> ELSE <<2>>) ELSE <<>>]]

Insert4 == Statement("insert", "users", 4)
InsertAuto == Statement("insert auto", "users", 0)
Samples == {
    Insert4, InsertAuto,
    Statement("insert", "users", IntMax),
    Statement("insert short", "users", 0),
    Statement("insert", "log", 4),
    Statement("insert auto", "log", 0),
    Statement("select key", "pets", 1),
    Statement("select", "nosuch", 1),
    Statement("refused", "users", 1)}

Upto(n, S) == UNION {[1 .. k -> S] : k \in 0 .. n}
Joined(s, separator) == FlattenSeq([i \in DOMAIN s |-> <<s[i], Semicolon>> \o separator])
Shorts == Upto(4, {Insert4, Semicolon, Newline, Symbol("exit"), Symbol("other")})
Sessions == {Joined(s, separator) : s \in Upto(3, Samples), separator \in {<<>>, <<Newline>>}}
Long == {Joined([i \in 1 .. n |-> InsertAuto], separator) : n \in 4 .. 6,
             separator \in {<<>>, <<Newline>>}}
Answers == {<<>>, <<Newline>>, <<Symbol("other"), Newline>>, <<Number(0), Newline>>,
            <<Number(1), Newline>>, <<Number(4), Newline>>, <<Number(IntMax + 1), Newline>>}

MCInputs ==
    [mode : {"file", "interactive"}, pieces : Shorts \cup Sessions \cup Long]
    \cup [mode : {"benchmark"},
          pieces : {a \o b \o c : a \in Answers, b \in Answers,
                     c \in {Joined(s, <<>>) : s \in Upto(2, Samples)}}]
=============================================================================
