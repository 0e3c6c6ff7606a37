------------------------------- MODULE SetFacts -------------------------------
(***************************************************************************)
(* Facts about sets of numbers, induction on the numbers, and the rounds of *)
(* a loop that a model writes as a fold.                                    *)
(***************************************************************************)
EXTENDS Integers, FiniteSets, FiniteSetsExt, FiniteSetTheorems, TLAPS

\* The least of a set of numbers is one of them.
LEMMA MinOfSet ==
  ASSUME NEW S \in SUBSET Nat, S # {}
  PROVE  Min(S) \in S /\ \A y \in S : Min(S) <= y
  <1>1. PICK x \in S : \A y \in S : ~ (<<y, x>> \in OpToRel(<, Nat))
    BY WFMin, NatLessThanWellFounded, Zenon
  <1>2. \A y \in S : ~ (y < x)
    BY <1>1, Zenon DEF OpToRel
  <1>3. \E z \in S : \A y \in S : z =< y
    BY <1>2
  <1> QED
    BY <1>3 DEF Min

\* The least number of a set of one is that one.
LEMMA MinOfOne ==
  ASSUME NEW i \in Nat
  PROVE  Min({i}) = i
  BY MinOfSet

\* Of a finite set, one element means that it is that of one.
LEMMA OneElement ==
  ASSUME NEW S, IsFiniteSet(S), Cardinality(S) = 1
  PROVE  \E i : S = {i}
  BY FS_Singleton

\* The greatest of a set of numbers up to n is one of them.
LEMMA MaxOfSet ==
  ASSUME NEW n \in Nat, NEW S \in SUBSET (1..n), S # {}
  PROVE  Max(S) \in S /\ \A y \in S : Max(S) >= y
<1> DEFINE D == {n - y : y \in S}
<1>1. \A y \in S : n - y \in Nat /\ n - y \in D /\ y \in Nat
  OBVIOUS
<1>2. D \in SUBSET Nat /\ D # {}
  BY <1>1
<1> HIDE DEF D
<1>3. Min(D) \in D /\ \A d \in D : Min(D) <= d
  BY <1>2, MinOfSet
<1>4. PICK x \in S : Min(D) = n - x
  BY <1>3 DEF D
<1>5. \A y \in S : x >= y
  <2>1. \A y \in S : n - x <= n - y
    BY <1>1, <1>4, <1>3
  <2>2. QED
    BY <1>1, <2>1
<1>6. QED
  BY <1>5 DEF Max

\* Induction on the numbers. (As a fact about a set: a theorem about any
\* predicate is beyond the provers.)
LEMMA SetInduction ==
  ASSUME NEW S \in SUBSET Nat, 0 \in S, \A n \in S : n + 1 \in S
  PROVE  S = Nat
<1>1. SUFFICES ASSUME Nat \ S # {}
               PROVE  FALSE
  OBVIOUS
<1> DEFINE R == Nat \ S
           m == Min(R)
<1>2. m \in R /\ \A y \in R : m <= y
  BY <1>1, MinOfSet
<1> HIDE DEF m
<1>3. m # 0 /\ m \in Nat
  BY <1>2
<1>4. m - 1 \in S
  BY <1>2, <1>3
<1>5. (m - 1) + 1 \in S
  BY <1>4
<1>6. QED
  BY <1>2, <1>3, <1>5

\* The states a loop goes through, as the iterator of the fold operators has
\* them: one for every set of rounds, the last round last.
Steps(n, St) == [(1..n) \X St -> St]

Iterators(n, St, base, F) ==
  {it \in [SUBSET (1..n) -> St] :
     \A s \in SUBSET (1..n) :
       it[s] = IF s = {} THEN base ELSE F[<<Max(s), it[s \ {Max(s)}]>>]}

LEMMA FoldStates ==
  ASSUME NEW n \in Nat, NEW St, NEW base \in St, NEW F \in Steps(n, St)
  PROVE  \E it : it \in Iterators(n, St, base, F)
<1>1. F \in [(1..n) \X St -> St]
  BY DEF Steps
<1> DEFINE Good(m, it) ==
             \A s \in SUBSET (1..m) :
               it[s] = IF s = {} THEN base ELSE F[<<Max(s), it[s \ {Max(s)}]>>]
           Done == {m \in Nat : m <= n => \E it \in [SUBSET (1..m) -> St] : Good(m, it)}
<1>2. 0 \in Done
  <2> DEFINE it == [s \in SUBSET (1..0) |-> base]
  <2>1. 1..0 = {}
    OBVIOUS
  <2>2. it \in [SUBSET (1..0) -> St] /\ Good(0, it)
    BY <2>1
  <2>3. QED
    BY <2>2
<1> HIDE DEF Good
<1>3. ASSUME NEW m \in Done
      PROVE  m + 1 \in Done
  <2>1. SUFFICES ASSUME m + 1 <= n
                 PROVE  \E it \in [SUBSET (1..(m + 1)) -> St] : Good(m + 1, it)
    <3>1. m + 1 \in Nat
      OBVIOUS
    <3>2. QED
      BY <3>1, Zenon
  <2>2. m \in Nat /\ m <= n
    BY <2>1
  <2>3. \E it \in [SUBSET (1..m) -> St] : Good(m, it)
    BY <2>2, Zenon
  <2>4. PICK it \in [SUBSET (1..m) -> St] : Good(m, it)
    BY <2>3
  <2> DEFINE jt == [s \in SUBSET (1..(m + 1)) |->
                      IF m + 1 \in s THEN F[<<m + 1, it[s \ {m + 1}]>>] ELSE it[s]]
  <2>5. ASSUME NEW s \in SUBSET (1..(m + 1)), m + 1 \in s
        PROVE  /\ s \ {m + 1} \in SUBSET (1..m)
               /\ Max(s) = m + 1
               /\ jt[s] = F[<<m + 1, it[s \ {m + 1}]>>]
               /\ jt[s] \in St
               /\ jt[s \ {m + 1}] = it[s \ {m + 1}]
    <3>1. s \ {m + 1} \in SUBSET (1..m)
      OBVIOUS
    <3>2. Max(s) \in s /\ Max(s) >= m + 1
      <4>1. m + 1 \in Nat
        OBVIOUS
      <4>2. QED
        BY <2>5, <4>1, MaxOfSet
    <3>3. Max(s) = m + 1
      <4>1. Max(s) \in 1..(m + 1)
        BY <3>2
      <4>2. QED
        BY <3>2, <4>1
    <3>4. it[s \ {m + 1}] \in St
      BY <3>1
    <3>5. F[<<m + 1, it[s \ {m + 1}]>>] \in St
      BY <1>1, <2>1, <3>4
    <3>6. jt[s] = F[<<m + 1, it[s \ {m + 1}]>>]
      BY <2>5
    <3>7. jt[s \ {m + 1}] = it[s \ {m + 1}]
      OBVIOUS
    <3>8. QED
      BY <3>1, <3>3, <3>5, <3>6, <3>7
  <2>6. ASSUME NEW s \in SUBSET (1..(m + 1)), m + 1 \notin s
        PROVE  /\ s \in SUBSET (1..m)
               /\ jt[s] = it[s]
               /\ s # {} => jt[s \ {Max(s)}] = it[s \ {Max(s)}]
    <3>1. s \in SUBSET (1..m)
      BY <2>6
    <3>2. jt[s] = it[s] /\ jt[s \ {Max(s)}] = it[s \ {Max(s)}]
      BY <2>6
    <3>3. QED
      BY <3>1, <3>2
  <2>7. jt \in [SUBSET (1..(m + 1)) -> St]
    <3>1. \A s \in SUBSET (1..(m + 1)) : jt[s] \in St
      <4> HIDE DEF jt
      <4>1. QED BY <2>5, <2>6
    <3>2. QED
      BY <3>1
  <2> HIDE DEF jt
  <2>8. Good(m + 1, jt)
    <3> SUFFICES ASSUME NEW s \in SUBSET (1..(m + 1))
                 PROVE  jt[s] = IF s = {} THEN base ELSE F[<<Max(s), jt[s \ {Max(s)}]>>]
      BY DEF Good
    <3>1. CASE m + 1 \in s
      BY <2>5, <3>1
    <3>2. CASE m + 1 \notin s
      <4>1. it[s] = IF s = {} THEN base ELSE F[<<Max(s), it[s \ {Max(s)}]>>]
        BY <2>4, <2>6, <3>2 DEF Good
      <4>2. QED
        BY <2>6, <3>2, <4>1
    <3>3. QED
      BY <3>1, <3>2
  <2>9. QED
    BY <2>7, <2>8
<1> HIDE DEF Done
<1>4. Done = Nat
  <2>1. Done \in SUBSET Nat
    BY DEF Done
  <2>2. QED
    BY <1>2, <1>3, <2>1, SetInduction
<1>5. n \in Done
  BY <1>4
<1>6. \E it \in [SUBSET (1..n) -> St] : Good(n, it)
  <2>1. n <= n
    OBVIOUS
  <2>2. QED
    BY <1>5, <2>1, Zenon DEF Done
<1>7. QED
  BY <1>6 DEF Good, Iterators

\* The last of the first m rounds is round m.
LEMMA LastRound ==
  ASSUME NEW n \in Nat, NEW m \in 1..n
  PROVE  /\ 1..m \in SUBSET (1..n) /\ 1..m # {}
         /\ Max(1..m) = m
         /\ (1..m) \ {m} = 1..(m - 1)
<1>1. 1..m \in SUBSET (1..n) /\ m \in 1..m
  OBVIOUS
<1>2. Max(1..m) \in 1..m /\ Max(1..m) >= m
  BY <1>1, MaxOfSet
<1>3. QED
  BY <1>1, <1>2
===============================================================================
