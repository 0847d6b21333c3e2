--------------------------- MODULE NaturalsRecursion ---------------------------
(***************************************************************************)
(* Induction and recursion up to a bound, stated for sets and functions:   *)
(* what the proofs about recursive functions rest on.                      *)
(***************************************************************************)
EXTENDS Integers, WellFoundedInduction, TLAPS

\* A set of naturals has a smallest element.
LEMMA Smallest ==
    ASSUME NEW T, T \subseteq Nat, T # {}
    PROVE  \E n \in T : \A m \in T : n <= m
<1>1. \E R : /\ \E n \in T : \A m \in T : ~ (<<m, n>> \in R)
             /\ \A n, m \in Nat : m < n => <<m, n>> \in R
  <2>1. \E n \in T : \A m \in T : ~ (<<m, n>> \in OpToRel(<, Nat))
    BY NatLessThanWellFounded, WFMin
  <2>2. \A n, m \in Nat : m < n => <<m, n>> \in OpToRel(<, Nat)
    BY DEF OpToRel
  <2>3. QED
    BY <2>1, <2>2
<1>2. PICK R : /\ \E n \in T : \A m \in T : ~ (<<m, n>> \in R)
               /\ \A n, m \in Nat : m < n => <<m, n>> \in R
  BY <1>1
<1>3. PICK n \in T : \A m \in T : ~ (<<m, n>> \in R)
  BY <1>2, Zenon
<1>4. \A m \in T : ~ (m < n)
  BY <1>2, <1>3, Zenon
<1>5. \A m \in T : n <= m
  BY <1>4
<1>6. QED
  BY <1>5

LEMMA Largest ==
    ASSUME NEW b \in Nat, NEW T, T \subseteq 0 .. b, T # {}
    PROVE  \E n \in T : \A m \in T : m <= n
<1> DEFINE D == {k \in 0 .. b : b - k \in T}
<1>1. D \subseteq Nat /\ D # {}
  <2>1. PICK n \in T : n \in 0 .. b
    OBVIOUS
  <2>2. b - n \in 0 .. b /\ b - (b - n) = n
    BY <2>1
  <2>3. b - n \in D
    BY <2>2
  <2>4. D \subseteq Nat
    OBVIOUS
  <2> HIDE DEF D
  <2>5. QED
    BY <2>3, <2>4
<1>2. PICK k \in D : \A m \in D : k <= m
  <2> HIDE DEF D
  <2>1. QED
    BY <1>1, Smallest
<1>3. ASSUME NEW m \in T PROVE m <= b - k
  <2>1. m \in 0 .. b /\ b - m \in 0 .. b /\ b - (b - m) = m
    OBVIOUS
  <2>2. k <= b - m
    BY <1>2, <2>1
  <2>3. QED
    BY <1>2, <2>1, <2>2
<1>4. QED
  BY <1>2, <1>3

\* Induction up to a bound, for the set where something holds.
LEMMA UpTo ==
    ASSUME NEW N \in Nat, NEW T, 0 \in T, \A n \in 1 .. N : n - 1 \in T => n \in T
    PROVE  0 .. N \subseteq T
<1> DEFINE Missing == {n \in 0 .. N : n \notin T}
<1> SUFFICES ASSUME Missing # {} PROVE FALSE
  OBVIOUS
<1>1. Missing \subseteq Nat
  OBVIOUS
<1>2. PICK n \in Missing : \A m \in Missing : n <= m
  BY <1>1, Smallest
<1>3. n # 0 /\ n \in 1 .. N
  BY <1>2
<1>4. n - 1 \notin Missing
  BY <1>2, <1>3
<1>5. QED
  BY <1>2, <1>3, <1>4

StepsOn(N, S) == [1 .. N -> [S -> S]]
Computes(f, N, S, a, step) ==
    f \in [0 .. N -> S] /\ f[0] = a /\ \A n \in 1 .. N : f[n] = step[n][f[n - 1]]

\* A value computed step by step from the left exists.
LEMMA StepByStep ==
    ASSUME NEW N \in Nat, NEW S, NEW a \in S, NEW step \in StepsOn(N, S)
    PROVE  \E f : Computes(f, N, S, a, step)
<1> USE DEF StepsOn
<1> DEFINE Steps(n, f) == f \in [0 .. n -> S] /\ f[0] = a /\ \A m \in 1 .. n : f[m] = step[m][f[m - 1]]
           T == {n \in 0 .. N : \E f : Steps(n, f)}
<1>1. 0 \in T
  <2>1. Steps(0, [m \in 0 .. 0 |-> a])
    OBVIOUS
  <2> HIDE DEF Steps
  <2>2. QED
    BY <2>1
<1>2. ASSUME NEW n \in 1 .. N, n - 1 \in T PROVE n \in T
  <2>1. PICK f : Steps(n - 1, f)
    BY <1>2
  <2> DEFINE g == [m \in 0 .. n |-> IF m = n THEN step[n][f[n - 1]] ELSE f[m]]
  <2>2. n - 1 \in 0 .. n - 1 /\ f[n - 1] \in S /\ step[n][f[n - 1]] \in S
    BY <2>1
  <2>3. g \in [0 .. n -> S] /\ g[0] = a
    BY <2>1, <2>2
  <2>4. \A m \in 1 .. n : g[m] = step[m][g[m - 1]]
    BY <2>1, <2>2
  <2>5. Steps(n, g)
    BY <2>3, <2>4
  <2> HIDE DEF Steps, g
  <2>6. QED
    BY <2>5
<1>3. 0 .. N \subseteq T
  <2> HIDE DEF T
  <2>1. QED
    BY <1>1, <1>2, UpTo
<1>4. QED
  BY <1>3 DEF Computes
=============================================================================
