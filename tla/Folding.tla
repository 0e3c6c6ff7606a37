------------------------------- MODULE Folding -------------------------------
(***************************************************************************)
(* The rounds of a loop over a list, which a model writes as FoldLeft. A    *)
(* proof about such a loop takes an instance of this module for its body,   *)
(* and the lemmas of that instance.                                         *)
(***************************************************************************)
EXTENDS SetFacts, SequencesExt

CONSTANT Op(_, _)  \* the body of the loop

\* With elements of E the loop stays in T.
Closed(T, E) == \A s \in T, e \in E : Op(s, e) \in T

\* r has what the loop has after each round.
IsRun(r, base, seq) ==
  /\ r[0] = base
  /\ \A m \in 1..Len(seq) : r[m] = Op(r[m - 1], seq[m])
  /\ FoldLeft(Op, base, seq) = r[Len(seq)]

\* A fold is what its last round leaves.
LEMMA FoldRounds ==
  ASSUME NEW E, NEW T, NEW base \in T, Closed(T, E), NEW seq \in Seq(E)
  PROVE  \E r : IsRun(r, base, seq)
<1> DEFINE n == Len(seq)
           F == [p \in (1..n) \X T |-> Op(p[2], seq[p[1]])]
           Loop(it) == it = [s \in SUBSET DOMAIN seq |->
                               IF s = {} THEN base
                               ELSE Op(it[s \ {Max(s)}], seq[Max(s)])]
           run == CHOOSE it : Loop(it)
           r == [m \in 0..n |-> run[1..m]]
<1>1. n \in Nat /\ DOMAIN seq = 1..n /\ \A m \in 1..n : seq[m] \in E
  OBVIOUS
<1>2. F \in Steps(n, T)
  BY <1>1 DEF Steps, Closed
<1>3. FoldLeft(Op, base, seq) = run[DOMAIN seq]
  BY DEF FoldLeft, MapThenFoldSet
<1>4. PICK it : it \in Iterators(n, T, base, F)
  <2> HIDE DEF F, n
  <2>1. QED
    BY <1>1, <1>2, FoldStates
<1>5. \A s \in SUBSET (1..n) :
        it[s] = IF s = {} THEN base ELSE Op(it[s \ {Max(s)}], seq[Max(s)])
  <2> SUFFICES ASSUME NEW s \in SUBSET (1..n), s # {}
               PROVE  it[s] = Op(it[s \ {Max(s)}], seq[Max(s)])
    BY <1>4 DEF Iterators
  <2>1. Max(s) \in 1..n /\ it[s \ {Max(s)}] \in T
    <3>1. Max(s) \in s
      <4> HIDE DEF n
      <4>1. QED BY <1>1, MaxOfSet
    <3>2. QED
      BY <1>4, <3>1 DEF Iterators
  <2>2. it[s] = F[<<Max(s), it[s \ {Max(s)}]>>]
    BY <1>4 DEF Iterators
  <2>3. QED
    BY <2>1, <2>2
<1>6. Loop(it)
  <2> HIDE DEF n
  <2>1. it = [s \in SUBSET (1..n) |-> it[s]]
    BY <1>4 DEF Iterators
  <2>2. QED
    BY <1>1, <1>5, <2>1
<1>7. Loop(run)
  <2> HIDE DEF Loop
  <2>1. QED BY <1>6, Zenon
<1> HIDE DEF run
<1>8. \A s \in SUBSET (1..n) :
        run[s] = IF s = {} THEN base ELSE Op(run[s \ {Max(s)}], seq[Max(s)])
  <2> HIDE DEF n
  <2>1. QED BY <1>1, <1>7
<1>9. r[0] = base
  <2>1. r[0] = run[1..0] /\ 1..0 = {}
    BY <1>1
  <2>2. QED
    BY <1>8, <2>1
<1>10. ASSUME NEW m \in 1..n
       PROVE  r[m] = Op(r[m - 1], seq[m])
  <2>1. /\ 1..m \in SUBSET (1..n) /\ 1..m # {}
        /\ Max(1..m) = m
        /\ (1..m) \ {m} = 1..(m - 1)
    BY <1>1, LastRound
  <2>2. run[1..m] = Op(run[(1..m) \ {Max(1..m)}], seq[Max(1..m)])
    BY <1>8, <2>1
  <2>3. run[1..m] = Op(run[1..(m - 1)], seq[m])
    BY <2>1, <2>2
  <2>4. r[m] = run[1..m] /\ r[m - 1] = run[1..(m - 1)]
    BY <1>1
  <2>5. QED
    BY <2>3, <2>4
<1>11. r[n] = run[1..n]
  BY <1>1
<1>12. IsRun(r, base, seq)
  <2> HIDE DEF r
  <2>1. QED BY <1>1, <1>3, <1>9, <1>10, <1>11 DEF IsRun
<1>13. QED
  BY <1>12

\* No rounds.
LEMMA FoldNothing ==
  ASSUME NEW E, NEW T, NEW base \in T, Closed(T, E)
  PROVE  FoldLeft(Op, base, <<>>) = base
<1>1. <<>> \in Seq(E) /\ Len(<<>>) = 0
  OBVIOUS
<1>2. PICK r : IsRun(r, base, <<>>)
  BY <1>1, FoldRounds
<1>3. QED
  BY <1>1, <1>2 DEF IsRun

\* A list with one more is folded by one round more.
RoundMore(base, seq, e) ==
  FoldLeft(Op, base, Append(seq, e)) = Op(FoldLeft(Op, base, seq), e)

\* One round more.
LEMMA FoldOneMore ==
  ASSUME NEW E, NEW T, NEW base \in T, Closed(T, E), NEW seq \in Seq(E), NEW e \in E
  PROVE  /\ FoldLeft(Op, base, seq) \in T
         /\ RoundMore(base, seq, e)
<1> DEFINE n == Len(seq)
           more == Append(seq, e)
<1>1. n \in Nat /\ more \in Seq(E) /\ Len(more) = n + 1 /\ more[n + 1] = e
  OBVIOUS
<1>2. \A m \in 1..n : more[m] = seq[m] /\ seq[m] \in E
  OBVIOUS
<1>3. PICK r : IsRun(r, base, seq)
  BY FoldRounds
<1> HIDE DEF more
<1>4. PICK q : IsRun(q, base, more)
  BY <1>1, FoldRounds
<1> DEFINE Same == {m \in Nat : m <= n => (q[m] = r[m] /\ r[m] \in T)}
<1>5. 0 \in Same
  BY <1>3, <1>4 DEF IsRun
<1>6. ASSUME NEW m \in Same
      PROVE  m + 1 \in Same
  <2>1. SUFFICES ASSUME m + 1 <= n
                 PROVE  q[m + 1] = r[m + 1] /\ r[m + 1] \in T
    OBVIOUS
  <2>2. m + 1 \in 1..n /\ m + 1 \in 1..(n + 1) /\ (m + 1) - 1 = m
    BY <1>1, <2>1
  <2>3. q[m] = r[m] /\ r[m] \in T
    BY <1>1, <2>1
  <2>4. r[m + 1] = Op(r[m], seq[m + 1]) /\ q[m + 1] = Op(q[m], more[m + 1])
    BY <1>1, <1>3, <1>4, <2>2 DEF IsRun
  <2>5. QED
    BY <1>2, <2>2, <2>3, <2>4 DEF Closed
<1>7. n \in Same
  <2>1. Same \in SUBSET Nat
    OBVIOUS
  <2> HIDE DEF Same
  <2>2. Same = Nat
    BY <1>5, <1>6, <2>1, SetInduction
  <2>3. QED
    BY <1>1, <2>2
<1>8. q[n] = r[n] /\ r[n] \in T
  BY <1>1, <1>7
<1>9. q[n + 1] = Op(q[n], e)
  <2>1. n + 1 \in 1..(n + 1) /\ (n + 1) - 1 = n
    BY <1>1
  <2>2. QED
    BY <1>1, <1>4, <2>1 DEF IsRun
<1>10. QED
  BY <1>1, <1>3, <1>4, <1>8, <1>9 DEF IsRun, RoundMore, more
===============================================================================
