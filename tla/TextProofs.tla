------------------------------ MODULE TextProofs ------------------------------
(***************************************************************************)
(* Proofs about the functions on texts and results, for arguments of any    *)
(* length. The scan of SqlText stays within its text; and what TextCalls    *)
(* says of a call of Report, ResultMerge, LikeMatch or Prepared holds for   *)
(* every log, answer, pattern and statement. Each of those goes over a list: *)
(* Folding says what the rounds of such a loop are, and SetInduction (of     *)
(* SetFacts) goes from one round to the next.                               *)
(***************************************************************************)
EXTENDS SqlText, TextCalls, SetFacts, SequenceTheorems, TLAPS

\* The numbers from 1 to n are n.
LEMMA IntervalSize ==
  ASSUME NEW n \in Nat
  PROVE  IsFiniteSet(1..n) /\ Cardinality(1..n) = n
<1>1. IsFiniteSet(1..n) /\ Cardinality(1..n) = IF 1 > n THEN 0 ELSE n - 1 + 1
  BY FS_Interval
<1>2. QED
  BY <1>1

\* A set of numbers up to n is finite and has at most n.
LEMMA PartSize ==
  ASSUME NEW n \in Nat, NEW Q \in SUBSET (1..n)
  PROVE  IsFiniteSet(Q) /\ Cardinality(Q) \in Nat /\ Cardinality(Q) <= n
<1>1. IsFiniteSet(1..n) /\ Cardinality(1..n) = n
  BY IntervalSize
<1>2. IsFiniteSet(Q) /\ Cardinality(Q) <= Cardinality(1..n)
  BY <1>1, FS_Subset
<1>3. QED
  BY <1>1, <1>2, FS_CardinalityType

\* Of a set of numbers, the first m have one more than the first m - 1 when m is one.
LEMMA OneMore ==
  ASSUME NEW Q, NEW m \in Nat \ {0}
  PROVE  /\ Cardinality(Q \cap (1..m)) \in Nat
         /\ Cardinality(Q \cap (1..(m - 1))) \in Nat
         /\ Cardinality(Q \cap (1..m)) =
              Cardinality(Q \cap (1..(m - 1))) + IF m \in Q THEN 1 ELSE 0
<1> DEFINE P == Q \cap (1..(m - 1))
           R == Q \cap (1..m)
<1>1. IsFiniteSet(P) /\ Cardinality(P) \in Nat /\ Cardinality(R) \in Nat
  <2>1. P \in SUBSET (1..(m - 1)) /\ R \in SUBSET (1..m) /\ m - 1 \in Nat /\ m \in Nat
    OBVIOUS
  <2> HIDE DEF P, R
  <2>2. QED
    BY <2>1, PartSize
<1>2. m \notin P /\ R = IF m \in Q THEN P \cup {m} ELSE P
  OBVIOUS
<1> HIDE DEF P, R
<1>3. Cardinality(P \cup {m}) = Cardinality(P) + 1
  BY <1>1, <1>2, FS_AddElement
<1>4. Cardinality(R) = Cardinality(P) + IF m \in Q THEN 1 ELSE 0
  BY <1>1, <1>2, <1>3
<1>5. QED
  BY <1>1, <1>4 DEF P, R

\* A function on the numbers from 1 to n is a sequence of that length.
LEMMA FunctionIsSequence ==
  ASSUME NEW T, NEW n \in Nat, NEW q \in [1..n -> T]
  PROVE  q \in Seq(T) /\ Len(q) = n
OBVIOUS

\* A function on the numbers up to n is a sequence of what it has for values.
LEMMA SequenceOfRange ==
  ASSUME NEW n \in Nat, NEW q, DOMAIN q = 1..n, q = [k \in 1..n |-> q[k]]
  PROVE  q \in Seq(Range(q)) /\ Len(q) = n
<1>1. q \in [1..n -> Range(q)]
  BY DEF Range
<1> DEFINE T == Range(q)
<1> HIDE DEF T
<1>2. q \in [1..n -> T]
  BY <1>1 DEF T
<1>3. q \in Seq(T) /\ Len(q) = n
  BY <1>2, FunctionIsSequence
<1>4. QED
  BY <1>3 DEF T

\* FlattenSeq puts the sequences one behind the other.
LEMMA FlattenRounds ==
  ASSUME NEW A, NEW seqs \in Seq(Seq(A))
  PROVE  \E f \in [0..Len(seqs) -> Seq(A)] :
           /\ f[0] = <<>>
           /\ \A m \in 1..Len(seqs) : f[m] = f[m - 1] \o seqs[m]
           /\ FlattenSeq(seqs) = f[Len(seqs)]
<1> DEFINE n == Len(seqs)
           Run(f, m) == /\ f[0] = <<>>
                        /\ \A j \in 1..m : f[j] = f[j - 1] \o seqs[j]
           Done == {m \in Nat : m <= n => \E f \in [0..m -> Seq(A)] : Run(f, m)}
<1>1. n \in Nat /\ DOMAIN seqs = 1..n /\ \A m \in 1..n : seqs[m] \in Seq(A)
  OBVIOUS
<1>2. 0 \in Done
  <2> DEFINE f == [m \in 0..0 |-> <<>>]
  <2>1. f \in [0..0 -> Seq(A)] /\ Run(f, 0)
    OBVIOUS
  <2>2. QED
    BY <2>1
<1> HIDE DEF Run
<1>3. ASSUME NEW m \in Done
      PROVE  m + 1 \in Done
  <2>1. SUFFICES ASSUME m + 1 <= n
                 PROVE  \E f \in [0..(m + 1) -> Seq(A)] : Run(f, m + 1)
    <3>1. m + 1 \in Nat
      OBVIOUS
    <3>2. QED
      BY <3>1, Zenon
  <2>2. m <= n
    BY <1>1, <2>1
  <2>3. PICK f \in [0..m -> Seq(A)] : Run(f, m)
    BY <2>2, Zenon
  <2> DEFINE g == [j \in 0..(m + 1) |-> IF j = m + 1 THEN f[m] \o seqs[m + 1] ELSE f[j]]
  <2>4. f[m] \o seqs[m + 1] \in Seq(A)
    BY <1>1, <2>1
  <2>5. g \in [0..(m + 1) -> Seq(A)]
    BY <2>4
  <2>6. g[0] = <<>>
    BY <2>3 DEF Run
  <2>7. ASSUME NEW j \in 1..(m + 1)
        PROVE  g[j] = g[j - 1] \o seqs[j]
    <3>1. CASE j = m + 1
      <4>1. g[j] = f[m] \o seqs[m + 1] /\ j - 1 = m /\ g[m] = f[m]
        BY <3>1
      <4>2. QED
        BY <3>1, <4>1
    <3>2. CASE j # m + 1
      <4>1. j \in 1..m
        BY <3>2
      <4>2. f[j] = f[j - 1] \o seqs[j]
        BY <2>3, <4>1 DEF Run
      <4>3. g[j] = f[j] /\ g[j - 1] = f[j - 1]
        BY <4>1
      <4>4. QED
        BY <4>2, <4>3
    <3>3. QED
      BY <3>1, <3>2
  <2>8. QED
    BY <2>5, <2>6, <2>7 DEF Run
<1>4. PICK f \in [0..n -> Seq(A)] : Run(f, n)
  <2>1. Done \in SUBSET Nat
    OBVIOUS
  <2>2. n \in Done
    <3> HIDE DEF Done
    <3>1. QED
      BY <1>1, <1>2, <1>3, <2>1, SetInduction
  <2>3. n <= n
    BY <1>1
  <2>4. QED
    BY <2>2, <2>3, Zenon
<1>5. CASE n = 0
  <2>1. FlattenSeq(seqs) = seqs /\ seqs = <<>>
    BY <1>5 DEF FlattenSeq
  <2>2. QED
    BY <1>4, <1>5, <2>1 DEF Run
<1>6. CASE n # 0
  <2> DEFINE Eq(h) == h = [w \in 1..n |-> IF w = 1 THEN seqs[w] ELSE h[w - 1] \o seqs[w]]
             h == CHOOSE q : Eq(q)
             g == [w \in 1..n |-> f[w]]
  <2>1. FlattenSeq(seqs) = h[n]
    BY <1>6 DEF FlattenSeq
  <2>2. Eq(g)
    <3>1. \A w \in 1..n : g[w] = IF w = 1 THEN seqs[w] ELSE g[w - 1] \o seqs[w]
      <4> TAKE w \in 1..n
      <4>1. CASE w = 1
        <5>1. 1 \in 1..n /\ 1 - 1 = 0
          BY <4>1
        <5>2. f[1] = <<>> \o seqs[1]
          BY <1>4, <5>1 DEF Run
        <5>3. f[1] = seqs[1]
          BY <1>1, <5>1, <5>2
        <5>4. QED
          BY <4>1, <5>3
      <4>2. CASE w # 1
        <5>1. f[w] = f[w - 1] \o seqs[w] /\ w - 1 \in 1..n
          BY <1>1, <1>4, <4>2 DEF Run
        <5>2. QED
          BY <4>2, <5>1
      <4>3. QED
        BY <4>1, <4>2
    <3> HIDE DEF n
    <3>2. QED
      BY <3>1
  <2>3. Eq(h)
    <3> HIDE DEF Eq
    <3>1. QED BY <2>2, Zenon
  <2> HIDE DEF h
  <2> DEFINE Same == {m \in Nat : m + 1 <= n => h[m + 1] = f[m + 1]}
  <2>4. 0 \in Same
    <3>1. 1 \in 1..n
      BY <1>1, <1>6
    <3>2. h[1] = seqs[1]
      BY <2>3, <3>1
    <3>3. g[1] = seqs[1] /\ g[1] = f[1]
      BY <2>2, <3>1
    <3>4. QED
      BY <3>2, <3>3
  <2>5. ASSUME NEW m \in Same
        PROVE  m + 1 \in Same
    <3>1. SUFFICES ASSUME m + 2 <= n
                   PROVE  h[m + 2] = f[m + 2]
      OBVIOUS
    <3>2. m + 2 \in 1..n /\ m + 1 \in 1..n /\ m + 2 # 1 /\ (m + 2) - 1 = m + 1
      BY <1>1, <3>1
    <3>3. h[m + 2] = h[m + 1] \o seqs[m + 2]
      BY <2>3, <3>2
    <3>4. f[m + 2] = f[m + 1] \o seqs[m + 2]
      BY <1>4, <3>2 DEF Run
    <3>5. h[m + 1] = f[m + 1]
      BY <1>1, <3>1
    <3>6. QED
      BY <3>3, <3>4, <3>5
  <2>6. n - 1 \in Same /\ n - 1 \in Nat
    <3>1. Same \in SUBSET Nat
      OBVIOUS
    <3> HIDE DEF Same
    <3>2. Same = Nat
      BY <2>4, <2>5, <3>1, SetInduction
    <3>3. QED
      BY <1>1, <1>6, <3>2
  <2>7. h[n] = f[n]
    BY <1>1, <1>6, <2>6
  <2>8. QED
    BY <1>4, <2>1, <2>7 DEF Run
<1>7. QED
  BY <1>5, <1>6

-----------------------------------------------------------------------------
(* SqlText: the scan of a statement.                                        *)

\* Texts of the alphabet, up to the bound.
LEMMA TextsAreSequences ==
  ASSUME NEW t
  PROVE  t \in Texts <=> t \in Seq(Alphabet) /\ Len(t) \in 0..MaxLen
<1>1. MaxLen \in Nat
  BY TextAssumption
<1>2. ASSUME t \in Texts
      PROVE  t \in Seq(Alphabet) /\ Len(t) \in 0..MaxLen
  <2>1. PICK n \in 0..MaxLen : t \in [1..n -> Alphabet]
    BY <1>2 DEF Texts
  <2>2. n \in Nat
    BY <1>1
  <2>3. t \in Seq(Alphabet) /\ Len(t) = n
    BY <2>1, <2>2, FunctionIsSequence
  <2>4. QED
    BY <2>3
<1>3. ASSUME t \in Seq(Alphabet), Len(t) \in 0..MaxLen
      PROVE  t \in Texts
  <2>1. t \in [1..Len(t) -> Alphabet]
    BY <1>3
  <2>2. QED
    BY <1>3, <2>1 DEF Texts
<1>4. QED
  BY <1>2, <1>3

\* Trimming leaves a part of a text.
LEMMA TrimIsPart ==
  ASSUME NEW A, NEW s \in Seq(A)
  PROVE  Trim(s) \in Seq(A) /\ Len(Trim(s)) <= Len(s)
<1> DEFINE n == Len(s)
           solid == {k \in 1..n : s[k] \notin Blank}
<1>1. n \in Nat /\ DOMAIN s = 1..n /\ \A k \in 1..n : s[k] \in A
  OBVIOUS
<1>2. Trim(s) = IF solid = {} THEN <<>> ELSE SubSeq(s, Min(solid), Max(solid))
  BY DEF Trim
<1>3. CASE solid = {}
  BY <1>1, <1>2, <1>3
<1>4. CASE solid # {}
  <2>1. solid \in SUBSET (1..n) /\ solid \in SUBSET Nat
    BY <1>1
  <2> HIDE DEF solid
  <2>2. Min(solid) \in solid /\ Max(solid) \in solid
    <3> HIDE DEF n
    <3>1. QED
      BY <1>1, <1>4, <2>1, MinOfSet, MaxOfSet
  <2> DEFINE a == Min(solid)
             b == Max(solid)
  <2>3. a \in 1..n /\ b \in 1..n
    BY <2>1, <2>2
  <2> HIDE DEF a, b
  <2>4. SubSeq(s, a, b) \in Seq(A) /\ Len(SubSeq(s, a, b)) <= n
    BY <1>1, <2>3
  <2>5. QED
    BY <1>2, <1>4, <2>4 DEF a, b
<1>5. QED
  BY <1>3, <1>4

\* The blank that ShrinkSQL owes counts as written.
Owed == IF pending THEN 1 ELSE 0

\* Only ShrinkSQL owes one.
OwedBy(f, owes) == owes \in BOOLEAN /\ (owes => f = "ShrinkSQL")

\* What can be written: the bytes of the text, and a blank.
Bytes == Alphabet \cup {" "}

\* Texts are made of the bytes that can be written.
LEMMA WritesText ==
  ASSUME NEW s \in Seq(Alphabet)
  PROVE  s \in Seq(Bytes)
<1>1. Alphabet \subseteq Bytes
  BY DEF Bytes
<1>2. QED
  BY <1>1, SeqMonotonic

\* What is written is made of the bytes of the text and, by ShrinkSQL, of
\* blanks: what stripComments hands on is a text again.
Scanned ==
  /\ fn \in {"stripComments", "ShrinkSQL"}
  /\ text \in Seq(Alphabet) /\ Len(text) \in 0..MaxLen
  /\ i \in 1..(Len(text) + 1)
  /\ mode \in {"code", "line", "block"} \cup Quotes
  /\ out \in Seq(Bytes)
  /\ fn = "stripComments" => out \in Seq(Alphabet)
  /\ Owed \in {0, 1} /\ Len(out) + Owed < i

\* The inductive invariant of the scan.
ScanInv == Scanned /\ OwedBy(fn, pending)

\* The invariant says what TypeOK says.
LEMMA ScanIsTyped == ScanInv => TypeOK
<1>1. ASSUME Scanned
      PROVE  text \in Texts
  BY <1>1, TextsAreSequences DEF Scanned
<1>2. QED
  BY <1>1, Zenon DEF ScanInv, Scanned, OwedBy, Owed, TypeOK

\* What writing some bytes of the text leaves.
Written(n) ==
  /\ out' \in Seq(Bytes)
  /\ fn = "stripComments" => out' \in Seq(Alphabet)
  /\ Owed' \in {0, 1} /\ Len(out') + Owed' <= Len(out) + Owed + n
  /\ OwedBy(fn, pending')

\* Nothing written.
LEMMA NothingWritten ==
  ASSUME ScanInv, UNCHANGED <<pending, out>>, NEW n \in Nat
  PROVE  Written(n)
<1>1. Owed' = Owed /\ out' = out
  BY DEF Owed
<1>2. /\ out \in Seq(Bytes) /\ (fn = "stripComments" => out \in Seq(Alphabet))
      /\ Owed \in {0, 1}
  BY DEF ScanInv, Scanned
<1>3. Len(out') + Owed' <= Len(out) + Owed + n
  BY <1>1, <1>2
<1>4. OwedBy(fn, pending')
  BY DEF ScanInv
<1>5. /\ out' \in Seq(Bytes) /\ (fn = "stripComments" => out' \in Seq(Alphabet))
      /\ Owed' \in {0, 1}
  BY <1>1, <1>2
<1>6. QED
  BY <1>3, <1>4, <1>5 DEF Written

\* Bytes written, behind the blank that is owed.
LEMMA WriteWrites ==
  ASSUME ScanInv, NEW bs \in Seq(Alphabet), Write(bs)
  PROVE  Written(Len(bs))
<1> DEFINE owed == IF pending THEN <<" ">> ELSE <<>>
<1>1. out' = out \o owed \o bs /\ pending' = FALSE
  BY DEF Write
<1>2. out \in Seq(Bytes) /\ (fn = "stripComments" => out \in Seq(Alphabet)) /\ Owed \in {0, 1}
  BY DEF ScanInv, Scanned
<1>3. fn = "stripComments" => owed = <<>>
  <2>1. fn = "stripComments" => ~pending
    BY DEF ScanInv, OwedBy
  <2>2. QED
    BY <2>1
<1>4. owed \in Seq(Bytes) /\ Len(owed) = Owed
  <2>1. <<" ">> \in Seq(Bytes) /\ Len(<<" ">>) = 1 /\ <<>> \in Seq(Bytes) /\ Len(<<>>) = 0
    BY DEF Bytes
  <2>2. (owed = <<" ">> /\ Owed = 1) \/ (owed = <<>> /\ Owed = 0)
    BY DEF Owed
  <2> HIDE DEF owed
  <2>3. QED
    BY <2>1, <2>2
<1>5. bs \in Seq(Bytes)
  BY WritesText
<1> HIDE DEF owed
<1>6. out' \in Seq(Bytes) /\ Len(out') = Len(out) + Owed + Len(bs)
  <2>1. out' = out \o owed \o bs
    BY <1>1
  <2>2. Len(out \o owed \o bs) = Len(out) + Len(owed) + Len(bs)
        /\ out \o owed \o bs \in Seq(Bytes)
    <3>1. out \o owed \in Seq(Bytes) /\ Len(out \o owed) = Len(out) + Len(owed)
      BY <1>2, <1>4
    <3>2. \A w \in Seq(Bytes) : w \o bs \in Seq(Bytes) /\ Len(w \o bs) = Len(w) + Len(bs)
      BY <1>5
    <3>3. QED
      BY <3>1, <3>2
  <2>3. QED
    BY <1>4, <2>1, <2>2
<1>7. fn = "stripComments" => out' \in Seq(Alphabet)
  <2> SUFFICES ASSUME fn = "stripComments"
               PROVE  out' \in Seq(Alphabet)
    OBVIOUS
  <2>1. owed = <<>> /\ out \in Seq(Alphabet) /\ out' = out \o owed \o bs
    BY <1>1, <1>2, <1>3
  <2>2. QED
    BY <2>1
<1>8. Owed' = 0
  BY <1>1 DEF Owed
<1>9. Owed' \in {0, 1} /\ Len(out') + Owed' <= Len(out) + Owed + Len(bs)
  BY <1>2, <1>6, <1>8
<1>10. OwedBy(fn, pending')
  <2>1. OwedBy(fn, FALSE)
    BY DEF OwedBy
  <2>2. QED
    BY <1>1, <2>1
<1>11. QED
  BY <1>6, <1>7, <1>9, <1>10 DEF Written

\* A blank counts for one byte more, although ShrinkSQL only notes it.
LEMMA WriteBlankWrites ==
  ASSUME ScanInv, NEW bs \in Seq(Alphabet), NEW n \in Nat \ {0}, Len(bs) <= n, WriteBlank(bs)
  PROVE  Written(n)
<1>1. /\ out \in Seq(Bytes) /\ (fn = "stripComments" => out \in Seq(Alphabet))
      /\ Owed \in {0, 1}
  BY DEF ScanInv, Scanned
<1>2. CASE fn = "ShrinkSQL"
  <2>1. pending' = TRUE /\ out' = out
    BY <1>2 DEF WriteBlank
  <2>2. Owed' = 1
    BY <2>1 DEF Owed
  <2>3. Owed' \in {0, 1} /\ Len(out') + Owed' <= Len(out) + Owed + n
    BY <1>1, <2>1, <2>2
  <2>4. OwedBy(fn, pending')
    <3>1. OwedBy(fn, TRUE)
      BY <1>2 DEF OwedBy
    <3>2. QED
      BY <2>1, <3>1
  <2>5. out' \in Seq(Bytes) /\ (fn = "stripComments" => out' \in Seq(Alphabet))
    BY <1>1, <2>1
  <2>6. QED
    BY <2>3, <2>4, <2>5 DEF Written
<1>3. CASE fn # "ShrinkSQL"
  <2>1. Write(bs)
    BY <1>3 DEF WriteBlank
  <2>2. Written(Len(bs))
    BY <2>1, WriteWrites
  <2>3. /\ out' \in Seq(Bytes) /\ Owed' \in {0, 1}
        /\ Len(out') + Owed' <= Len(out) + Owed + Len(bs)
    BY <2>2 DEF Written
  <2>4. Len(out') + Owed' <= Len(out) + Owed + n
    BY <1>1, <2>3
  <2>5. QED
    BY <2>2, <2>4 DEF Written
<1>4. QED
  BY <1>2, <1>3

\* A step that writes no more bytes than it goes on by, within the text.
LEMMA ScanGoesOn ==
  ASSUME ScanInv, NEW n \in Nat, i + n <= Len(text) + 1, Written(n), Advance(n),
         mode' \in {"code", "line", "block"} \cup Quotes
  PROVE  ScanInv'
<1>1. i' = i + n /\ fn' = fn /\ text' = text
  BY DEF Advance
<1>2. Scanned
  BY DEF ScanInv
<1>3. /\ out' \in Seq(Bytes) /\ (fn = "stripComments" => out' \in Seq(Alphabet))
      /\ Owed' \in {0, 1} /\ Len(out') + Owed' <= Len(out) + Owed + n
  BY Zenon DEF Written
<1>4. i' \in 1..(Len(text') + 1) /\ Len(out') + Owed' < i'
  BY <1>1, <1>2, <1>3 DEF Scanned
<1>5. Scanned'
  BY <1>1, <1>2, <1>3, <1>4 DEF Scanned
<1>6. OwedBy(fn', pending')
  BY <1>1 DEF Written
<1>7. QED
  BY <1>5, <1>6 DEF ScanInv

\* Every step of the scan keeps the invariant.
LEMMA ScanStep ==
  ASSUME ScanInv, [Next]_vars
  PROVE  ScanInv'
<1> DEFINE n == Len(text)
<1>1. /\ text \in Seq(Alphabet) /\ n \in Nat /\ i \in 1..(n + 1)
      /\ \A k \in 1..n : text[k] \in Alphabet
      /\ mode \in {"code", "line", "block"} \cup Quotes
  BY DEF ScanInv, Scanned
<1>2. ASSUME ~Ended
      PROVE  /\ i \in 1..n /\ i + 1 <= n + 1 /\ Here \in Alphabet /\ <<Here>> \in Seq(Alphabet)
             /\ Len(<<Here>>) = 1
             /\ Next1 # "end" => i + 2 <= n + 1 /\ Next1 \in Alphabet
  <2>1. i \in 1..n /\ i + 1 <= n + 1
    BY <1>1, <1>2 DEF Ended
  <2>2. Here \in Alphabet
    BY <1>1, <2>1 DEF Here
  <2>3. ASSUME Next1 # "end"
        PROVE  i + 2 <= n + 1 /\ Next1 \in Alphabet
    <3>1. i + 1 <= n
      BY <2>3 DEF Next1
    <3>2. i + 1 \in 1..n
      BY <2>1, <3>1
    <3>3. QED
      BY <1>1, <2>1, <3>1, <3>2 DEF Next1
  <2> HIDE DEF n
  <2>4. QED
    BY <2>1, <2>2, <2>3
<1>3. ASSUME UNCHANGED <<pending, out>>, NEW m \in Nat
      PROVE  Written(m)
  BY <1>3, NothingWritten
<1>4. CASE InLineComment
  <2>1. ~Ended /\ Advance(1) /\ mode = "line"
    BY <1>4 DEF InLineComment
  <2>2. CASE Here = "\n"
    <3>1. WriteBlank(<<"\n">>) /\ mode' = "code"
      BY <1>4, <2>2 DEF InLineComment
    <3>2. <<"\n">> \in Seq(Alphabet) /\ Len(<<"\n">>) <= 1 /\ 1 \in Nat \ {0}
      BY <1>2, <2>1, <2>2
    <3>3. Written(1)
      BY <3>1, <3>2, WriteBlankWrites, Zenon
    <3>4. QED
      BY <1>2, <2>1, <3>1, <3>3, ScanGoesOn
  <2>3. CASE Here # "\n"
    <3>1. UNCHANGED <<mode, pending, out>>
      BY <1>4, <2>3 DEF InLineComment
    <3>2. Written(1)
      BY <1>3, <3>1
    <3>3. QED
      BY <1>1, <1>2, <2>1, <3>1, <3>2, ScanGoesOn
  <2>4. QED
    BY <2>2, <2>3
<1>5. CASE BlockCommentEnds
  <2>1. ~Ended /\ Next1 # "end" /\ mode' = "code" /\ WriteBlank(<<>>) /\ Advance(2)
    BY <1>5 DEF BlockCommentEnds
  <2>2. <<>> \in Seq(Alphabet) /\ Len(<<>>) <= 2 /\ 2 \in Nat \ {0}
    OBVIOUS
  <2>3. Written(2)
    BY <2>1, <2>2, WriteBlankWrites, Zenon
  <2>4. QED
    BY <1>2, <2>1, <2>3, ScanGoesOn
<1>6. CASE InBlockComment
  <2>1. ~Ended /\ UNCHANGED <<mode, pending, out>> /\ Advance(1)
    BY <1>6 DEF InBlockComment
  <2>2. Written(1)
    BY <1>3, <2>1
  <2>3. QED
    BY <1>1, <1>2, <2>1, <2>2, ScanGoesOn
<1>7. CASE Escaped
  <2>1. ~Ended /\ Next1 # "end" /\ Write(<<Here, Next1>>) /\ mode' = mode /\ Advance(2)
    BY <1>7 DEF Escaped
  <2>2. <<Here, Next1>> \in Seq(Alphabet) /\ Len(<<Here, Next1>>) = 2
    BY <1>2, <2>1
  <2>3. Written(2)
    BY <2>1, <2>2, WriteWrites
  <2>4. QED
    BY <1>1, <1>2, <2>1, <2>3, ScanGoesOn
<1>8. CASE InLiteral
  <2>1. ~Ended /\ Write(<<Here>>) /\ mode' \in {"code", mode} /\ Advance(1)
    BY <1>8 DEF InLiteral
  <2>2. Written(1)
    BY <1>2, <2>1, WriteWrites
  <2>3. QED
    BY <1>1, <1>2, <2>1, <2>2, ScanGoesOn
<1>9. CASE CommentStarts
  <2>1. ~Ended /\ UNCHANGED <<pending, out>> /\ mode' \in {"line", "block"}
    BY <1>9 DEF CommentStarts
  <2>2. (Next1 # "end" /\ Advance(2)) \/ Advance(1)
    BY <1>9 DEF CommentStarts, Dashes
  <2>3. Written(1) /\ Written(2)
    BY <1>3, <2>1
  <2>4. CASE Next1 # "end" /\ Advance(2)
    BY <1>2, <2>1, <2>3, <2>4, ScanGoesOn
  <2>5. CASE Advance(1)
    BY <1>2, <2>1, <2>3, <2>5, ScanGoesOn
  <2>6. QED
    BY <2>2, <2>4, <2>5
<1>10. CASE LiteralStarts
  <2>1. ~Ended /\ Write(<<Here>>) /\ mode' \in Quotes /\ Advance(1)
    BY <1>10 DEF LiteralStarts
  <2>2. Written(1)
    BY <1>2, <2>1, WriteWrites
  <2>3. QED
    BY <1>2, <2>1, <2>2, ScanGoesOn
<1>11. CASE OtherByte
  <2>1. ~Ended /\ mode' = mode /\ Advance(1)
    BY <1>11 DEF OtherByte
  <2>2. WriteBlank(<<Here>>) \/ Write(<<Here>>)
    BY <1>11 DEF OtherByte
  <2>3. Written(1)
    <3>1. CASE WriteBlank(<<Here>>)
      <4>1. <<Here>> \in Seq(Alphabet) /\ Len(<<Here>>) <= 1 /\ 1 \in Nat \ {0}
        BY <1>2, <2>1
      <4>2. QED
        BY <3>1, <4>1, WriteBlankWrites, Zenon
    <3>2. CASE Write(<<Here>>)
      BY <1>2, <2>1, <3>2, WriteWrites
    <3>3. QED
      BY <2>2, <3>1, <3>2
  <2>4. QED
    BY <1>1, <1>2, <2>1, <2>3, ScanGoesOn
<1>12. CASE Shrink
  <2>1. /\ fn = "stripComments" /\ fn' = "ShrinkSQL" /\ text' = Trim(out)
        /\ i' = 1 /\ mode' = "code" /\ pending' = FALSE /\ out' = <<>>
    BY <1>12 DEF Shrink
  <2>2. out \in Seq(Alphabet) /\ Len(out) + Owed < i /\ Owed \in {0, 1} /\ n \in 0..MaxLen
    BY <2>1 DEF ScanInv, Scanned
  <2>3. Trim(out) \in Seq(Alphabet) /\ Len(Trim(out)) <= Len(out)
    BY <2>2, TrimIsPart
  <2>4. Len(Trim(out)) \in 0..MaxLen
    <3>1. Len(Trim(out)) \in Nat /\ Len(out) \in Nat /\ MaxLen \in Nat
      BY <2>2, <2>3, TextAssumption
    <3> HIDE DEF n
    <3>2. QED
      BY <1>1, <2>2, <2>3, <3>1
  <2>5. i' \in 1..(Len(text') + 1)
    BY <2>1, <2>3
  <2>6. out' \in Seq(Alphabet) /\ out' \in Seq(Bytes) /\ Len(out') = 0
    BY <2>1
  <2>7. Owed' = 0
    BY <2>1 DEF Owed
  <2>8. Scanned'
    BY <2>1, <2>3, <2>4, <2>5, <2>6, <2>7 DEF Scanned
  <2>9. OwedBy(fn', pending')
    <3>1. OwedBy(fn', FALSE)
      BY DEF OwedBy
    <3>2. QED
      BY <2>1, <3>1
  <2>10. QED
    BY <2>8, <2>9 DEF ScanInv
<1>13. CASE UNCHANGED vars
  <2>1. /\ fn' = fn /\ text' = text /\ i' = i /\ mode' = mode /\ out' = out /\ Owed' = Owed
    BY <1>13 DEF vars, Owed
  <2>2. Scanned'
    BY <2>1 DEF ScanInv, Scanned
  <2>3. OwedBy(fn', pending')
    <3>1. pending' = pending /\ fn' = fn
      BY <1>13 DEF vars
    <3>2. QED
      BY <3>1 DEF ScanInv
  <2>4. QED
    BY <2>2, <2>3 DEF ScanInv
<1>14. QED
  BY <1>4, <1>5, <1>6, <1>7, <1>8, <1>9, <1>10, <1>11, <1>12, <1>13 DEF Next

\* Neither function looks past the end of its argument, nor writes more bytes
\* than it has read, and what stripComments hands on is a text again, whatever
\* the statement and however long (stripComments, ShrinkSQL).
THEOREM ScanStaysInText == Spec => []TypeOK
<1>1. Init => ScanInv
  <2> SUFFICES ASSUME Init
               PROVE  ScanInv
    OBVIOUS
  <2>1. text \in Texts /\ i = 1 /\ mode = "code" /\ pending = FALSE /\ out = <<>>
        /\ fn \in {"stripComments", "ShrinkSQL"}
    BY DEF Init
  <2>2. text \in Seq(Alphabet) /\ Len(text) \in 0..MaxLen /\ 1 \in 1..(Len(text) + 1)
    <3>1. text \in Seq(Alphabet) /\ Len(text) \in 0..MaxLen
      BY <2>1, TextsAreSequences
    <3>2. Len(text) \in Nat
      BY <3>1
    <3>3. QED
      BY <3>1, <3>2
  <2>3. out \in Seq(Alphabet) /\ out \in Seq(Bytes) /\ Len(out) = 0
    BY <2>1
  <2>4. Owed = 0
    BY <2>1 DEF Owed
  <2>5. Scanned
    BY <2>1, <2>2, <2>3, <2>4 DEF Scanned
  <2>6. OwedBy(fn, pending)
    <3>1. OwedBy(fn, FALSE)
      BY DEF OwedBy
    <3>2. QED
      BY <2>1, <3>1
  <2>7. QED
    BY <2>5, <2>6 DEF ScanInv
<1>2. ScanInv /\ [Next]_vars => ScanInv'
  BY ScanStep
<1>3. QED
  BY <1>1, <1>2, ScanIsTyped, PTL DEF Spec

-----------------------------------------------------------------------------
(* Report.                                                                  *)

\* Every place in the order has a value of that rank.
LEMMA EveryRank ==
  ASSUME NEW vals \in Seq(Nat), NEW r \in DOMAIN vals
  PROVE  \E k \in DOMAIN vals : Rank(vals, k) = r
<1> DEFINE n == Len(vals)
           Upto(k) == {j \in 1..n : vals[j] < vals[k] \/ (vals[j] = vals[k] /\ j <= k)}
           rank == [k \in 1..n |-> Rank(vals, k)]
<1>1. n \in Nat /\ DOMAIN vals = 1..n /\ \A k \in 1..n : vals[k] \in Nat
  OBVIOUS
<1>2. ASSUME NEW k \in 1..n
      PROVE  /\ Rank(vals, k) = Cardinality(Upto(k))
             /\ Upto(k) \in SUBSET (1..n) /\ k \in Upto(k) /\ IsFiniteSet(Upto(k))
             /\ Cardinality(Upto(k)) \in 1..n
  <2>1. Rank(vals, k) = Cardinality(Upto(k))
    BY <1>1 DEF Rank
  <2>2. Upto(k) \in SUBSET (1..n) /\ k \in Upto(k)
    BY <1>1
  <2> HIDE DEF Upto, n
  <2>3. IsFiniteSet(Upto(k)) /\ Cardinality(Upto(k)) \in Nat /\ Cardinality(Upto(k)) <= n
    BY <1>1, <2>2, PartSize
  <2>4. Cardinality(Upto(k)) # 0
    BY <2>2, <2>3, FS_EmptySet
  <2>5. QED
    BY <1>1, <2>1, <2>2, <2>3, <2>4
<1>3. ASSUME NEW j \in 1..n, NEW k \in 1..n, j # k, j \in Upto(k)
      PROVE  Rank(vals, j) # Rank(vals, k)
  <2>1. Upto(j) \in SUBSET Upto(k)
    <3>1. ASSUME NEW x \in Upto(j)
          PROVE  x \in Upto(k)
      BY <1>1, <1>3, <3>1
    <3>2. QED
      BY <3>1
  <2>2. k \notin Upto(j)
    BY <1>1, <1>3
  <2> HIDE DEF Upto, n
  <2>3. Cardinality(Upto(j)) # Cardinality(Upto(k))
    BY <1>2, <2>1, <2>2, FS_Subset
  <2>4. QED
    BY <1>2, <2>3
<1>4. rank \in Injection(1..n, 1..n)
  <2>1. rank \in [1..n -> 1..n]
    BY <1>2
  <2>2. ASSUME NEW j \in 1..n, NEW k \in 1..n, rank[j] = rank[k]
        PROVE  j = k
    <3>1. j \in Upto(k) \/ k \in Upto(j)
      BY <1>1
    <3>2. Rank(vals, j) = Rank(vals, k)
      BY <2>2
    <3> HIDE DEF Upto
    <3>3. QED
      BY <1>3, <3>1, <3>2
  <2>3. QED
    BY <2>1, <2>2 DEF Injection, IsInjective
<1>5. rank \in Surjection(1..n, 1..n)
  BY <1>1, <1>4, IntervalSize, FS_Injection
<1>6. PICK k \in 1..n : rank[k] = r
  BY <1>1, <1>5 DEF Surjection
<1>7. QED
  BY <1>1, <1>6

Least(vals, v)  == {j \in DOMAIN vals : vals[j] <= v}
Below(vals, v) == {j \in DOMAIN vals : vals[j] < v}

\* At place r in the order stands a value that r values at least do not exceed,
\* and less than r are below.
LEMMA SortedAt ==
  ASSUME NEW vals \in Seq(Nat), NEW r \in DOMAIN vals
  PROVE  /\ Sorted(vals)[r] \in Nat
         /\ Cardinality(Least(vals, Sorted(vals)[r])) \in Nat
         /\ Cardinality(Below(vals, Sorted(vals)[r])) \in Nat
         /\ Cardinality(Least(vals, Sorted(vals)[r])) >= r
         /\ Cardinality(Below(vals, Sorted(vals)[r])) <= r - 1
<1> DEFINE n == Len(vals)
           k == CHOOSE c \in DOMAIN vals : Rank(vals, c) = r
           v == vals[k]
           U == {j \in DOMAIN vals : vals[j] < v \/ (vals[j] = v /\ j <= k)}
<1>1. k \in DOMAIN vals /\ Rank(vals, k) = r
  BY EveryRank
<1>2. Sorted(vals)[r] = v
  BY DEF Sorted
<1> HIDE DEF k
<1>3. n \in Nat /\ DOMAIN vals = 1..n /\ k \in 1..n /\ v \in Nat
  BY <1>1
<1>4. Cardinality(U) = r
  BY <1>1 DEF Rank
<1>5. /\ U \in SUBSET Least(vals, v) /\ Least(vals, v) \in SUBSET (1..n)
      /\ Below(vals, v) \in SUBSET (U \ {k}) /\ U \in SUBSET (1..n)
      /\ k \in U /\ Below(vals, v) \in SUBSET (1..n)
  BY <1>3 DEF Least, Below
<1> HIDE DEF U, v, n
<1>6. /\ IsFiniteSet(U) /\ IsFiniteSet(Least(vals, v))
      /\ Cardinality(Least(vals, v)) \in Nat /\ Cardinality(Below(vals, v)) \in Nat
  BY <1>3, <1>5, PartSize
<1>7. Cardinality(U) <= Cardinality(Least(vals, v))
  BY <1>5, <1>6, FS_Subset
<1>8. IsFiniteSet(U \ {k}) /\ Cardinality(U \ {k}) = r - 1
  BY <1>4, <1>5, <1>6, FS_RemoveElement
<1>9. Cardinality(Below(vals, v)) <= r - 1
  BY <1>5, <1>8, FS_Subset
<1>10. r \in Nat
  BY <1>3
<1>11. QED
  BY <1>2, <1>3, <1>4, <1>6, <1>7, <1>9, <1>10

\* v divides the values at p in 100: at least as many do not exceed it, and at
\* most as many are below it.
Divides(v, vals, p) ==
  /\ v \in Nat
  /\ 100 * Cardinality(Least(vals, v)) >= Len(vals) * p
  /\ 100 * Cardinality(Below(vals, v)) <= Len(vals) * p

\* The p-th percentile of some values divides them at p in 100 (percentile).
LEMMA PercentileAt ==
  ASSUME NEW vals \in Seq(Nat), vals # <<>>, NEW p \in {50, 95}
  PROVE  Divides(Percentile(vals, p), vals, p)
<1> DEFINE n == Len(vals)
           idx == (n * p) \div 100
<1>1. n \in Nat /\ n > 0 /\ DOMAIN vals = 1..n
  OBVIOUS
<1>2. idx \in Nat /\ idx < n /\ 100 * idx <= n * p /\ n * p <= 100 * (idx + 1)
  <2>1. CASE p = 50
    BY <1>1, <2>1
  <2>2. CASE p = 95
    BY <1>1, <2>2
  <2>3. QED
    BY <2>1, <2>2
<1>3. Percentile(vals, p) = Sorted(vals)[idx + 1]
  <2>1. ~(idx >= n)
    BY <1>1, <1>2
  <2>2. QED
    BY <2>1 DEF Percentile
<1> HIDE DEF idx
<1>4. idx + 1 \in DOMAIN vals
  BY <1>1, <1>2
<1> DEFINE v == Sorted(vals)[idx + 1]
           lo == Cardinality(Below(vals, v))
           hi == Cardinality(Least(vals, v))
<1>5. v \in Nat /\ lo \in Nat /\ hi \in Nat /\ hi >= idx + 1 /\ lo <= (idx + 1) - 1
  BY <1>4, SortedAt
<1> HIDE DEF v, lo, hi, n
<1>6. 100 * hi >= n * p /\ 100 * lo <= n * p
  <2>1. n * p \in Nat
    BY <1>1
  <2>2. QED
    BY <1>2, <1>5, <2>1
<1>7. QED
  BY <1>3, <1>5, <1>6 DEF v, lo, hi, n, Divides

-----------------------------------------------------------------------------
(* One pass over the events.                                                *)

\* The events of the audit log, with times of any length.
Events == [kind : Kinds, decision : Decisions, latency : Nat]

\* The maps of Aggregate.
Totals ==
  [ordered    : Nat,
   byDecision : [Kinds -> [Decisions -> Nat]],
   total      : [Kinds -> Nat],
   latencies  : [Kinds -> Seq(Nat)]]

\* The loop over the events.
Rounds == INSTANCE Folding WITH Op <- Count

\* A round of the loop leaves maps of that form.
LEMMA CountIsTyped ==
  NoCounts \in Totals /\ \A s \in Totals, e \in Events : Count(s, e) \in Totals
<1>1. NoCounts \in Totals
  BY DEF NoCounts, Totals
<1>2. ASSUME NEW s \in Totals, NEW e \in Events
      PROVE  Count(s, e) \in Totals
  <2>1. /\ e.kind \in Kinds /\ e.decision \in Decisions /\ e.latency \in Nat
    BY DEF Events
  <2>2. /\ s.ordered \in Nat /\ s.byDecision \in [Kinds -> [Decisions -> Nat]]
        /\ s.total \in [Kinds -> Nat] /\ s.latencies \in [Kinds -> Seq(Nat)]
    BY DEF Totals
  <2>3. [s.total EXCEPT ![e.kind] = @ + 1] \in [Kinds -> Nat]
    BY <2>1, <2>2
  <2>4. [s.byDecision EXCEPT ![e.kind][e.decision] = @ + 1] \in [Kinds -> [Decisions -> Nat]]
    BY <2>1, <2>2
  <2>5. [s.latencies EXCEPT ![e.kind] = Append(@, e.latency)] \in [Kinds -> Seq(Nat)]
    BY <2>1, <2>2
  <2>6. QED
    BY <2>2, <2>3, <2>4, <2>5 DEF Count, Totals
<1>3. QED
  BY <1>1, <1>2

\* What one round does to each number and list.
LEMMA CountFields ==
  ASSUME NEW s \in Totals, NEW e \in Events, NEW k \in Kinds, NEW d \in Decisions
  PROVE  /\ Count(s, e).ordered = s.ordered + IF e.decision = "forwarded_ordered" THEN 1 ELSE 0
         /\ Count(s, e).total[k] = s.total[k] + IF e.kind = k THEN 1 ELSE 0
         /\ Count(s, e).byDecision[k][d] =
              s.byDecision[k][d] + IF e.kind = k /\ e.decision = d THEN 1 ELSE 0
         /\ Count(s, e).latencies[k] =
              IF e.kind = k /\ e.decision \in Forwards THEN Append(s.latencies[k], e.latency)
              ELSE s.latencies[k]
<1>1. /\ s.ordered \in Nat /\ s.byDecision \in [Kinds -> [Decisions -> Nat]]
      /\ s.total \in [Kinds -> Nat] /\ s.latencies \in [Kinds -> Seq(Nat)]
  BY DEF Totals
<1>2. e.kind \in Kinds /\ e.decision \in Decisions
  BY DEF Events
<1>3. Count(s, e).ordered = s.ordered + IF e.decision = "forwarded_ordered" THEN 1 ELSE 0
  BY <1>1 DEF Count
<1>4. Count(s, e).total[k] = s.total[k] + IF e.kind = k THEN 1 ELSE 0
  BY <1>1, <1>2 DEF Count
<1>5. Count(s, e).byDecision[k][d] =
        s.byDecision[k][d] + IF e.kind = k /\ e.decision = d THEN 1 ELSE 0
  BY <1>1, <1>2 DEF Count
<1>6. Count(s, e).latencies[k] =
        IF e.kind = k /\ e.decision \in Forwards THEN Append(s.latencies[k], e.latency)
        ELSE s.latencies[k]
  BY <1>1, <1>2 DEF Count
<1>7. QED
  BY <1>3, <1>4, <1>5, <1>6

\* A time is added to those it does not exceed, and to those it is below.
LEMMA OneTimeMore ==
  ASSUME NEW vals \in Seq(Nat), NEW x \in Nat, NEW v \in Nat
  PROVE  /\ Cardinality(Least(vals, v)) \in Nat /\ Cardinality(Below(vals, v)) \in Nat
         /\ Cardinality(Least(Append(vals, x), v)) =
              Cardinality(Least(vals, v)) + IF x <= v THEN 1 ELSE 0
         /\ Cardinality(Below(Append(vals, x), v)) =
              Cardinality(Below(vals, v)) + IF x < v THEN 1 ELSE 0
<1> DEFINE n == Len(vals)
           more == Append(vals, x)
<1>1. n \in Nat /\ DOMAIN vals = 1..n
  OBVIOUS
<1>2. /\ DOMAIN more = 1..(n + 1) /\ more[n + 1] = x
      /\ \A j \in 1..n : more[j] = vals[j] /\ vals[j] \in Nat
  OBVIOUS
<1>3. /\ Least(vals, v) \in SUBSET (1..n) /\ Below(vals, v) \in SUBSET (1..n)
      /\ n + 1 \notin Least(vals, v) /\ n + 1 \notin Below(vals, v)
  BY <1>1 DEF Least, Below
<1>4. /\ Least(more, v) = IF x <= v THEN Least(vals, v) \cup {n + 1} ELSE Least(vals, v)
      /\ Below(more, v) = IF x < v THEN Below(vals, v) \cup {n + 1} ELSE Below(vals, v)
  <2> HIDE DEF more, n
  <2>1. QED BY <1>1, <1>2 DEF Least, Below
<1> HIDE DEF more, n
<1>5. /\ IsFiniteSet(Least(vals, v)) /\ IsFiniteSet(Below(vals, v))
      /\ Cardinality(Least(vals, v)) \in Nat /\ Cardinality(Below(vals, v)) \in Nat
  BY <1>1, <1>3, PartSize
<1>6. /\ Cardinality(Least(vals, v) \cup {n + 1}) = Cardinality(Least(vals, v)) + 1
      /\ Cardinality(Below(vals, v) \cup {n + 1}) = Cardinality(Below(vals, v)) + 1
  BY <1>3, <1>5, FS_AddElement
<1>7. QED
  BY <1>4, <1>5, <1>6 DEF more

\* The events of the log that count, by their places.
Ordered(events)       == {j \in DOMAIN events : events[j].decision = "forwarded_ordered"}
OfKind(events, k)     == {j \in DOMAIN events : events[j].kind = k}
WithEnd(events, k, d) == {j \in OfKind(events, k) : events[j].decision = d}
Sent(events, k)       == {j \in OfKind(events, k) : events[j].decision \in Forwards}
Within(events, k, v)  == {j \in Sent(events, k) : events[j].latency <= v}
Under(events, k, v)   == {j \in Sent(events, k) : events[j].latency < v}

\* How many of the first m places are in Q.
First(Q, m) == Cardinality(Q \cap (1..m))

\* After m rounds the totals are those of the first m events.
Counted(s, events, m) ==
  /\ s \in Totals
  /\ s.ordered = First(Ordered(events), m)
  /\ \A k \in Kinds :
       /\ s.total[k] = First(OfKind(events, k), m)
       /\ \A d \in Decisions : s.byDecision[k][d] = First(WithEnd(events, k, d), m)
       /\ Len(s.latencies[k]) = First(Sent(events, k), m)
       /\ \A v \in Nat :
            /\ Cardinality(Least(s.latencies[k], v)) = First(Within(events, k, v), m)
            /\ Cardinality(Below(s.latencies[k], v)) = First(Under(events, k, v), m)

\* Before the first round nothing is counted.
LEMMA CountedFirst ==
  ASSUME NEW events \in Seq(Events)
  PROVE  Counted(NoCounts, events, 0)
<1>1. \A Q : First(Q, 0) = 0
  <2>1. \A Q : Q \cap (1..0) = {}
    OBVIOUS
  <2>2. QED
    BY <2>1, FS_EmptySet DEF First
<1>2. NoCounts \in Totals
  BY CountIsTyped
<1>3. \A v \in Nat : Cardinality(Least(<<>>, v)) = 0 /\ Cardinality(Below(<<>>, v)) = 0
  <2>1. \A v \in Nat : Least(<<>>, v) = {} /\ Below(<<>>, v) = {}
    BY DEF Least, Below
  <2>2. QED
    BY <2>1, FS_EmptySet
<1>4. /\ NoCounts.ordered = 0
      /\ \A k \in Kinds :
           /\ NoCounts.total[k] = 0 /\ NoCounts.latencies[k] = <<>>
           /\ \A d \in Decisions : NoCounts.byDecision[k][d] = 0
  BY DEF NoCounts
<1>5. Len(<<>>) = 0
  OBVIOUS
<1>6. QED
  BY <1>1, <1>2, <1>3, <1>4, <1>5 DEF Counted

\* Each round counts its event, where it belongs and nowhere else.
LEMMA CountedNext ==
  ASSUME NEW events \in Seq(Events), NEW m \in 1..Len(events), NEW s,
         Counted(s, events, m - 1)
  PROVE  Counted(Count(s, events[m]), events, m)
<1> DEFINE e == events[m]
           t == Count(s, e)
<1>1. s \in Totals /\ e \in Events /\ m \in DOMAIN events /\ m \in Nat \ {0}
  BY DEF Counted
<1>2. t \in Totals
  BY <1>1, CountIsTyped
<1>3. ASSUME NEW Q
      PROVE  First(Q, m - 1) \in Nat /\ First(Q, m) = First(Q, m - 1) + IF m \in Q THEN 1 ELSE 0
  BY <1>1, OneMore DEF First
<1>4. t.ordered = First(Ordered(events), m)
  <2>1. m \in Ordered(events) <=> e.decision = "forwarded_ordered"
    BY <1>1 DEF Ordered
  <2>2. PICK k \in Kinds, d \in Decisions : TRUE
    BY DEF Kinds, Decisions
  <2> HIDE DEF e
  <2>3. t.ordered = s.ordered + IF e.decision = "forwarded_ordered" THEN 1 ELSE 0
    BY <1>1, CountFields
  <2>4. s.ordered = First(Ordered(events), m - 1)
    BY DEF Counted
  <2>5. QED
    BY <1>3, <2>1, <2>3, <2>4
<1>5. ASSUME NEW k \in Kinds
      PROVE  /\ t.total[k] = First(OfKind(events, k), m)
             /\ \A d \in Decisions : t.byDecision[k][d] = First(WithEnd(events, k, d), m)
             /\ Len(t.latencies[k]) = First(Sent(events, k), m)
             /\ \A v \in Nat :
                  /\ Cardinality(Least(t.latencies[k], v)) = First(Within(events, k, v), m)
                  /\ Cardinality(Below(t.latencies[k], v)) = First(Under(events, k, v), m)
  <2>1. /\ m \in OfKind(events, k) <=> e.kind = k
        /\ \A d \in Decisions : m \in WithEnd(events, k, d) <=> (e.kind = k /\ e.decision = d)
        /\ m \in Sent(events, k) <=> (e.kind = k /\ e.decision \in Forwards)
        /\ \A v \in Nat :
             /\ m \in Within(events, k, v) <=> (m \in Sent(events, k) /\ e.latency <= v)
             /\ m \in Under(events, k, v) <=> (m \in Sent(events, k) /\ e.latency < v)
    BY <1>1 DEF OfKind, WithEnd, Sent, Within, Under
  <2> HIDE DEF e
  <2>2. /\ s.total[k] = First(OfKind(events, k), m - 1)
        /\ \A d \in Decisions : s.byDecision[k][d] = First(WithEnd(events, k, d), m - 1)
        /\ Len(s.latencies[k]) = First(Sent(events, k), m - 1)
        /\ \A v \in Nat :
             /\ Cardinality(Least(s.latencies[k], v)) = First(Within(events, k, v), m - 1)
             /\ Cardinality(Below(s.latencies[k], v)) = First(Under(events, k, v), m - 1)
    BY DEF Counted
  <2>3. t.total[k] = First(OfKind(events, k), m)
    <3>1. PICK d \in Decisions : TRUE
      BY DEF Decisions
    <3>2. t.total[k] = s.total[k] + IF e.kind = k THEN 1 ELSE 0
      BY <1>1, CountFields
    <3>3. QED
      BY <1>3, <2>1, <2>2, <3>2
  <2>4. ASSUME NEW d \in Decisions
        PROVE  t.byDecision[k][d] = First(WithEnd(events, k, d), m)
    <3>1. t.byDecision[k][d] =
            s.byDecision[k][d] + IF e.kind = k /\ e.decision = d THEN 1 ELSE 0
      BY <1>1, CountFields
    <3>2. QED
      BY <1>3, <2>1, <2>2, <3>1
  <2>5. t.latencies[k] = IF m \in Sent(events, k) THEN Append(s.latencies[k], e.latency)
                         ELSE s.latencies[k]
    <3>1. PICK d \in Decisions : TRUE
      BY DEF Decisions
    <3>2. QED
      BY <1>1, <2>1, CountFields
  <2>6. s.latencies[k] \in Seq(Nat) /\ e.latency \in Nat
    BY <1>1 DEF Totals, Events
  <2>7. Len(t.latencies[k]) = First(Sent(events, k), m)
    <3>1. Len(Append(s.latencies[k], e.latency)) = Len(s.latencies[k]) + 1
      BY <2>6
    <3>2. CASE m \in Sent(events, k)
      BY <1>3, <2>2, <2>5, <3>1, <3>2
    <3>3. CASE m \notin Sent(events, k)
      <4>1. t.latencies[k] = s.latencies[k]
        BY <2>5, <3>3
      <4>2. First(Sent(events, k), m) = First(Sent(events, k), m - 1)
        BY <1>3, <3>3
      <4>3. QED
        BY <2>2, <4>1, <4>2
    <3>4. QED
      BY <3>2, <3>3
  <2>8. ASSUME NEW v \in Nat
        PROVE  /\ Cardinality(Least(t.latencies[k], v)) = First(Within(events, k, v), m)
               /\ Cardinality(Below(t.latencies[k], v)) = First(Under(events, k, v), m)
    <3>1. CASE m \in Sent(events, k)
      <4>1. t.latencies[k] = Append(s.latencies[k], e.latency)
        BY <2>5, <3>1
      <4>2. /\ Cardinality(Least(t.latencies[k], v)) =
                 First(Within(events, k, v), m - 1) + IF e.latency <= v THEN 1 ELSE 0
            /\ Cardinality(Below(t.latencies[k], v)) =
                 First(Under(events, k, v), m - 1) + IF e.latency < v THEN 1 ELSE 0
        <5> DEFINE vals == s.latencies[k]
                   x == e.latency
        <5>1. vals \in Seq(Nat) /\ x \in Nat /\ t.latencies[k] = Append(vals, x)
          BY <2>6, <4>1
        <5>2. /\ Cardinality(Least(vals, v)) = First(Within(events, k, v), m - 1)
              /\ Cardinality(Below(vals, v)) = First(Under(events, k, v), m - 1)
          BY <2>2
        <5> HIDE DEF vals, x, t
        <5>3. /\ Cardinality(Least(Append(vals, x), v)) =
                   Cardinality(Least(vals, v)) + IF x <= v THEN 1 ELSE 0
              /\ Cardinality(Below(Append(vals, x), v)) =
                   Cardinality(Below(vals, v)) + IF x < v THEN 1 ELSE 0
          BY <5>1, OneTimeMore
        <5>4. QED
          BY <5>1, <5>2, <5>3 DEF x
      <4>3. QED
        BY <1>3, <2>1, <3>1, <4>2
    <3>2. CASE m \notin Sent(events, k)
      <4>1. m \notin Within(events, k, v) /\ m \notin Under(events, k, v)
        BY <2>1, <3>2
      <4>2. /\ First(Within(events, k, v), m) = First(Within(events, k, v), m - 1)
            /\ First(Under(events, k, v), m) = First(Under(events, k, v), m - 1)
        BY <1>3, <4>1
      <4>3. t.latencies[k] = s.latencies[k]
        BY <2>5, <3>2
      <4>4. QED
        BY <2>2, <4>2, <4>3
    <3>3. QED
      BY <3>1, <3>2
  <2>9. QED
    BY <2>3, <2>4, <2>7, <2>8
<1>6. QED
  BY <1>2, <1>4, <1>5 DEF Counted

\* After the loop all events of the log are counted.
LEMMA AllCounted ==
  ASSUME NEW events \in Seq(Events)
  PROVE  Counted(FoldLeft(Count, NoCounts, events), events, Len(events))
<1>1. FoldLeft(Count, NoCounts, events) = Rounds!FoldLeft(Count, NoCounts, events)
  BY DEF FoldLeft, Rounds!FoldLeft, MapThenFoldSet, Rounds!MapThenFoldSet, Max, Rounds!Max
<1>2. Rounds!Closed(Totals, Events) /\ NoCounts \in Totals
  BY CountIsTyped DEF Rounds!Closed
<1>3. PICK r : Rounds!IsRun(r, NoCounts, events)
  BY <1>2, Rounds!FoldRounds
<1>4. /\ r[0] = NoCounts
      /\ \A m \in 1..Len(events) : r[m] = Count(r[m - 1], events[m])
      /\ FoldLeft(Count, NoCounts, events) = r[Len(events)]
  BY <1>1, <1>3 DEF Rounds!IsRun
<1> DEFINE n == Len(events)
           Done == {m \in Nat : m <= n => Counted(r[m], events, m)}
<1>5. n \in Nat
  OBVIOUS
<1>6. 0 \in Done
  BY <1>4, CountedFirst
<1>7. ASSUME NEW m \in Done
      PROVE  m + 1 \in Done
  <2>1. SUFFICES ASSUME m + 1 <= n
                 PROVE  Counted(r[m + 1], events, m + 1)
    OBVIOUS
  <2>2. m + 1 \in 1..n /\ (m + 1) - 1 = m /\ Counted(r[m], events, m)
    BY <1>5, <2>1
  <2>3. r[m + 1] = Count(r[m], events[m + 1])
    BY <1>4, <2>2
  <2>4. QED
    BY <2>2, <2>3, CountedNext
<1>8. n \in Done
  <2>1. Done \in SUBSET Nat
    OBVIOUS
  <2> HIDE DEF Done
  <2>2. QED
    BY <1>5, <1>6, <1>7, <2>1, SetInduction
<1>9. QED
  BY <1>4, <1>5, <1>8

\* The numbers a report is held against, as sizes of sets of places.
LEMMA HowManyOf ==
  ASSUME NEW events, NEW k, NEW d, NEW v
  PROVE  /\ HowMany(events, LAMBDA e : e.decision = "forwarded_ordered") =
              Cardinality(Ordered(events))
         /\ HowMany(events, LAMBDA e : e.kind = k) = Cardinality(OfKind(events, k))
         /\ HowMany(events, LAMBDA e : e.kind = k /\ e.decision = d) =
              Cardinality(WithEnd(events, k, d))
         /\ HowMany(events, LAMBDA e : e.kind = k /\ e.decision \in Forwards) =
              Cardinality(Sent(events, k))
         /\ HowMany(events, LAMBDA e : (e.kind = k /\ e.decision \in Forwards) /\ e.latency <= v) =
              Cardinality(Within(events, k, v))
         /\ HowMany(events, LAMBDA e : (e.kind = k /\ e.decision \in Forwards) /\ e.latency < v) =
              Cardinality(Under(events, k, v))
<1>1. /\ WithEnd(events, k, d) = {j \in DOMAIN events : events[j].kind = k /\ events[j].decision = d}
      /\ Sent(events, k) =
           {j \in DOMAIN events : events[j].kind = k /\ events[j].decision \in Forwards}
      /\ Within(events, k, v) =
           {j \in DOMAIN events : (events[j].kind = k /\ events[j].decision \in Forwards)
                                    /\ events[j].latency <= v}
      /\ Under(events, k, v) =
           {j \in DOMAIN events : (events[j].kind = k /\ events[j].decision \in Forwards)
                                    /\ events[j].latency < v}
  BY DEF WithEnd, Sent, Within, Under, OfKind
<1>2. QED
  BY <1>1 DEF HowMany, Ordered, OfKind

\* What a report says is true of any log.
LEMMA ReportIsTrue ==
  ASSUME NEW events \in Seq(Events)
  PROVE  ReportTrue(events)
<1> DEFINE s == FoldLeft(Count, NoCounts, events)
           n == Len(events)
<1>1. Counted(s, events, n)
  BY AllCounted
<1>2. ASSUME NEW Q \in SUBSET DOMAIN events
      PROVE  First(Q, n) = Cardinality(Q)
  <2>1. Q \cap (1..n) = Q
    OBVIOUS
  <2>2. QED
    BY <2>1 DEF First
<1> HIDE DEF s, n
<1>3. s.ordered = Cardinality(Ordered(events))
  BY <1>1, <1>2 DEF Counted, Ordered
<1>4. ASSUME NEW k \in Kinds
      PROVE  /\ s.total[k] = Cardinality(OfKind(events, k))
             /\ \A d \in Decisions : s.byDecision[k][d] = Cardinality(WithEnd(events, k, d))
             /\ Len(s.latencies[k]) = Cardinality(Sent(events, k))
             /\ \A v \in Nat :
                  /\ Cardinality(Least(s.latencies[k], v)) = Cardinality(Within(events, k, v))
                  /\ Cardinality(Below(s.latencies[k], v)) = Cardinality(Under(events, k, v))
  <2>1. /\ OfKind(events, k) \in SUBSET DOMAIN events /\ Sent(events, k) \in SUBSET DOMAIN events
        /\ \A d : WithEnd(events, k, d) \in SUBSET DOMAIN events
        /\ \A v : /\ Within(events, k, v) \in SUBSET DOMAIN events
                  /\ Under(events, k, v) \in SUBSET DOMAIN events
    BY DEF OfKind, WithEnd, Sent, Within, Under
  <2>2. QED
    BY <1>1, <1>2, <2>1 DEF Counted
<1>5. ASSUME NEW k \in Kinds, Cardinality(Sent(events, k)) > 0, NEW p \in {50, 95}
      PROVE  LET q == Percentile(s.latencies[k], p)
             IN  /\ 100 * Cardinality(Within(events, k, q)) >= Cardinality(Sent(events, k)) * p
                 /\ 100 * Cardinality(Under(events, k, q)) <= Cardinality(Sent(events, k)) * p
  <2>1. s.latencies[k] \in Seq(Nat)
    BY <1>1 DEF Counted, Totals
  <2>2. s.latencies[k] # <<>>
    BY <1>4, <1>5
  <2> DEFINE q == Percentile(s.latencies[k], p)
  <2>3. /\ q \in Nat
        /\ 100 * Cardinality(Least(s.latencies[k], q)) >= Len(s.latencies[k]) * p
        /\ 100 * Cardinality(Below(s.latencies[k], q)) <= Len(s.latencies[k]) * p
    <3> DEFINE vals == s.latencies[k]
    <3>1. vals \in Seq(Nat) /\ vals # <<>>
      BY <2>1, <2>2
    <3> HIDE DEF vals
    <3>2. Divides(Percentile(vals, p), vals, p)
      BY <3>1, PercentileAt
    <3>3. QED
      BY <3>2 DEF vals, Divides
  <2> HIDE DEF q
  <2>4. QED
    BY <1>4, <2>3 DEF q
<1> DEFINE r == Aggregate(events)
<1>6. /\ r.ordered = s.ordered
      /\ \A k \in Kinds :
           /\ r.kinds[k].total = s.total[k] /\ r.kinds[k].byDecision = s.byDecision[k]
           /\ r.kinds[k].fwd = Len(s.latencies[k])
           /\ r.kinds[k].p50 = Percentile(s.latencies[k], 50)
           /\ r.kinds[k].p95 = Percentile(s.latencies[k], 95)
  BY DEF Aggregate, s
<1> HIDE DEF r
<1>7. r.ordered = HowMany(events, LAMBDA e : e.decision = "forwarded_ordered")
  BY <1>3, <1>6, HowManyOf
<1>8. ASSUME NEW k \in Kinds
      PROVE  LET Fwd(e) == e.kind = k /\ e.decision \in Forwards
                 c      == HowMany(events, Fwd)
                 row    == r.kinds[k]
             IN  /\ row.fwd = c
                 /\ row.total = HowMany(events, LAMBDA e : e.kind = k)
                 /\ \A d \in Decisions :
                      row.byDecision[d] = HowMany(events, LAMBDA e : e.kind = k /\ e.decision = d)
                 /\ c > 0 => \A q \in {<<50, row.p50>>, <<95, row.p95>>} :
                      /\ 100 * HowMany(events, LAMBDA e : Fwd(e) /\ e.latency <= q[2]) >= c * q[1]
                      /\ 100 * HowMany(events, LAMBDA e : Fwd(e) /\ e.latency < q[2]) <= c * q[1]
  <2> DEFINE Fwd(e) == e.kind = k /\ e.decision \in Forwards
             c == HowMany(events, Fwd)
             row == r.kinds[k]
  <2>1. c = Cardinality(Sent(events, k))
    BY HowManyOf
  <2>2. row.fwd = c /\ row.total = HowMany(events, LAMBDA e : e.kind = k)
    <3>1. row.fwd = c
      BY <1>4, <1>6, <2>1
    <3>2. row.total = Cardinality(OfKind(events, k))
      BY <1>4, <1>6
    <3>3. QED
      BY <3>1, <3>2 DEF HowMany, OfKind
  <2>3. ASSUME NEW d \in Decisions
        PROVE  row.byDecision[d] = HowMany(events, LAMBDA e : e.kind = k /\ e.decision = d)
    <3>1. row.byDecision[d] = Cardinality(WithEnd(events, k, d))
      BY <1>4, <1>6
    <3>2. WithEnd(events, k, d) =
            {j \in DOMAIN events : events[j].kind = k /\ events[j].decision = d}
      BY DEF WithEnd, OfKind
    <3>3. QED
      BY <3>1, <3>2 DEF HowMany
  <2>4. row.p50 = Percentile(s.latencies[k], 50) /\ row.p95 = Percentile(s.latencies[k], 95)
    BY <1>6
  <2>5. ASSUME c > 0, NEW q \in {<<50, row.p50>>, <<95, row.p95>>}
        PROVE  /\ 100 * HowMany(events, LAMBDA e : Fwd(e) /\ e.latency <= q[2]) >= c * q[1]
               /\ 100 * HowMany(events, LAMBDA e : Fwd(e) /\ e.latency < q[2]) <= c * q[1]
    <3>1. q[1] \in {50, 95} /\ q[2] = Percentile(s.latencies[k], q[1])
      <4> HIDE DEF row
      <4>1. QED BY <2>4, <2>5
    <3>2. /\ HowMany(events, LAMBDA e : Fwd(e) /\ e.latency <= q[2]) =
               Cardinality(Within(events, k, q[2]))
          /\ HowMany(events, LAMBDA e : Fwd(e) /\ e.latency < q[2]) =
               Cardinality(Under(events, k, q[2]))
      BY HowManyOf
    <3>3. Cardinality(Sent(events, k)) > 0
      BY <2>1, <2>5
    <3>4. /\ 100 * Cardinality(Within(events, k, q[2])) >= Cardinality(Sent(events, k)) * q[1]
          /\ 100 * Cardinality(Under(events, k, q[2])) <= Cardinality(Sent(events, k)) * q[1]
      BY <1>5, <3>1, <3>3
    <3> HIDE DEF c
    <3>5. QED
      BY <2>1, <3>2, <3>4
  <2>6. QED
    BY <2>2, <2>3, <2>5
<1>9. QED
  BY <1>7, <1>8 DEF ReportTrue, r

\* Calls of Aggregate, with any log.
AggregateCalls == [of : {"Aggregate"}, events : Seq(Events)]

\* The report of any audit log adds up (Aggregate and percentile).
THEOREM ReportOfEveryLog ==
  ASSUME call \in AggregateCalls
  PROVE  ReportAddsUp
BY ReportIsTrue DEF AggregateCalls, ReportAddsUp

-----------------------------------------------------------------------------
(* ResultMerge: one source.                                                 *)

\* Columns with names in N and keys in K.
ColumnLists(N, K) == Seq([name : N, key : K])

\* The names and the keys are sequences as long as the columns.
LEMMA NamesAndKeys ==
  ASSUME NEW N, NEW K, NEW cols \in ColumnLists(N, K)
  PROVE  /\ Len(cols) \in Nat
         /\ DOMAIN cols = 1..Len(cols)
         /\ DOMAIN Names(cols) = 1..Len(cols)
         /\ DOMAIN Keys(cols) = 1..Len(cols)
         /\ \A k \in 1..Len(cols) :
              /\ Names(cols)[k] = cols[k].name
              /\ Keys(cols)[k] = cols[k].key
BY DEF ColumnLists, Names, Keys

\* What rowsOf takes from a row by a key.
ValueAt(row, key) == IF key \in DOMAIN row THEN row[key] ELSE Null

\* What a row says under the names, taken by the keys.
LEMMA RowByName ==
  ASSUME NEW rows, NEW r \in DOMAIN rows, NEW keys, NEW names, NEW p
  PROVE  p \in ByName(RowsOf(rows, keys)[r], names) <=>
           \E k \in DOMAIN keys :
             p = <<names[k], ValueAt(rows[r], keys[k])>>
<1> DEFINE row == [k \in DOMAIN keys |-> ValueAt(rows[r], keys[k])]
<1>1. RowsOf(rows, keys)[r] = row
  BY DEF RowsOf, ValueAt
<1>2. p \in ByName(row, names) <=>
        \E k \in DOMAIN keys : p = <<names[k], ValueAt(rows[r], keys[k])>>
  BY DEF ByName
<1>3. QED
  BY <1>1, <1>2

\* Under each wanted name an aligned source has a column of that name, and its
\* key is the one taken.
LEMMA AlignedKey ==
  ASSUME NEW N, NEW K, NEW cols \in ColumnLists(N, K), NEW want, Aligns(cols, want),
         NEW k \in DOMAIN want
  PROVE  \E j \in 1..Len(cols) :
           Names(cols)[j] = want[k] /\ AlignKeys(cols, want)[k] = Keys(cols)[j]
<1>1. want[k] \in Range(Names(cols))
  BY DEF Aligns, Range
<1>2. PICK j \in 1..Len(cols) : cols[j].name = want[k]
  BY <1>1, NamesAndKeys DEF Range
<1>3. cols[j] \in Range(cols)
  BY NamesAndKeys DEF Range
<1> DEFINE col == CHOOSE c \in Range(cols) : c.name = want[k]
<1>4. col \in Range(cols) /\ col.name = want[k]
  BY <1>2, <1>3
<1>5. AlignKeys(cols, want)[k] = col.key
  BY DEF AlignKeys
<1> HIDE DEF col
<1>6. PICK m \in 1..Len(cols) : col = cols[m]
  BY <1>4, NamesAndKeys DEF Range
<1>7. QED
  BY <1>4, <1>5, <1>6, NamesAndKeys

\* In a merged answer a row of a source says of a column name only what that
\* source says of it when it is asked alone, whatever the order of its columns
\* and however their keys repeat (alignKeys and rowsOf, of convertMerged).
THEOREM MergedRowsKeepNames ==
  ASSUME NEW N, NEW K, NEW cols \in ColumnLists(N, K), NEW want, Aligns(cols, want),
         NEW rows, NEW r \in DOMAIN rows
  PROVE  ByName(RowsOf(rows, AlignKeys(cols, want))[r], want) \subseteq
           ByName(RowsOf(rows, Keys(cols))[r], Names(cols))
<1>1. SUFFICES ASSUME NEW p \in ByName(RowsOf(rows, AlignKeys(cols, want))[r], want)
               PROVE  p \in ByName(RowsOf(rows, Keys(cols))[r], Names(cols))
  OBVIOUS
<1>2. PICK k \in DOMAIN AlignKeys(cols, want) :
        p = <<want[k], ValueAt(rows[r], AlignKeys(cols, want)[k])>>
  BY RowByName
<1>3. k \in DOMAIN want
  BY DEF AlignKeys
<1>4. PICK j \in 1..Len(cols) :
        Names(cols)[j] = want[k] /\ AlignKeys(cols, want)[k] = Keys(cols)[j]
  BY <1>3, AlignedKey
<1>5. p = <<Names(cols)[j], ValueAt(rows[r], Keys(cols)[j])>>
  BY <1>2, <1>4
<1>6. j \in DOMAIN Keys(cols)
  BY NamesAndKeys
<1>7. QED
  BY <1>5, <1>6, RowByName

\* A source that is merged has no column but the wanted ones, when no name is
\* wanted twice.
LEMMA NoOtherColumn ==
  ASSUME NEW N, NEW K, NEW cols \in ColumnLists(N, K), NEW W, NEW want \in Seq(W),
         Aligns(cols, want), IsInjective(want), NEW j \in 1..Len(cols)
  PROVE  \E k \in DOMAIN want : want[k] = Names(cols)[j]
<1> DEFINE n == Len(cols)
           own == Range(Names(cols))
           wanted == Range(want)
<1>1. n \in Nat /\ DOMAIN want = 1..n /\ DOMAIN Names(cols) = 1..n
  <2>1. n \in Nat /\ DOMAIN Names(cols) = 1..n
    BY NamesAndKeys
  <2>2. Len(want) = n
    BY DEF Aligns
  <2>3. QED
    BY <2>1, <2>2
<1>2. IsFiniteSet(1..n) /\ Cardinality(1..n) = n
  BY <1>1, IntervalSize
<1>3. IsFiniteSet(own) /\ Cardinality(own) <= n
  <2>1. Names(cols) \in Surjection(1..n, own)
    BY <1>1, NamesAndKeys DEF Surjection, Range, Names
  <2>2. QED
    BY <1>2, <2>1, FS_Surjection
<1>4. IsFiniteSet(wanted) /\ Cardinality(wanted) = n
  <2>1. want \in Bijection(1..n, wanted)
    BY <1>1 DEF Bijection, Injection, Surjection, IsInjective, Range
  <2>2. want \in Surjection(1..n, wanted) /\ want \in Injection(1..n, wanted)
    BY <2>1 DEF Bijection
  <2>3. QED
    BY <1>2, <2>2, FS_Surjection
<1>5. wanted \subseteq own
  BY DEF Aligns
<1>6. Cardinality(own) \in Nat /\ Cardinality(wanted) <= Cardinality(own)
  BY <1>3, <1>5, FS_Subset, FS_CardinalityType
<1>7. Cardinality(own) = Cardinality(wanted)
  BY <1>1, <1>3, <1>4, <1>6
<1>8. own = wanted
  BY <1>3, <1>5, <1>7, FS_Subset
<1>9. Names(cols)[j] \in own
  BY <1>1 DEF Range
<1>10. QED
  BY <1>8, <1>9 DEF Range

\* Nothing of a merged row is lost either: it says exactly what the source says
\* alone, when the columns of the first source have distinct names
\* (convertMerged).
THEOREM MergedRowsAreWhole ==
  ASSUME NEW N, NEW K, NEW cols \in ColumnLists(N, K), NEW W, NEW want \in Seq(W),
         Aligns(cols, want), IsInjective(want), NEW rows, NEW r \in DOMAIN rows
  PROVE  ByName(RowsOf(rows, AlignKeys(cols, want))[r], want) =
           ByName(RowsOf(rows, Keys(cols))[r], Names(cols))
<1>1. ASSUME NEW p \in ByName(RowsOf(rows, Keys(cols))[r], Names(cols))
      PROVE  p \in ByName(RowsOf(rows, AlignKeys(cols, want))[r], want)
  <2>1. PICK j \in DOMAIN Keys(cols) : p = <<Names(cols)[j], ValueAt(rows[r], Keys(cols)[j])>>
    BY <1>1, RowByName
  <2>2. j \in 1..Len(cols)
    BY NamesAndKeys
  <2>3. PICK k \in DOMAIN want : want[k] = Names(cols)[j]
    BY <2>2, NoOtherColumn
  <2>4. PICK m \in 1..Len(cols) :
          Names(cols)[m] = want[k] /\ AlignKeys(cols, want)[k] = Keys(cols)[m]
    BY AlignedKey
  <2>5. m = j
    BY <2>2, <2>3, <2>4, NamesAndKeys DEF Aligns, IsInjective
  <2>6. p = <<want[k], ValueAt(rows[r], AlignKeys(cols, want)[k])>>
    BY <2>1, <2>3, <2>4, <2>5
  <2>7. k \in DOMAIN AlignKeys(cols, want)
    BY DEF AlignKeys
  <2>8. QED
    BY <2>6, <2>7, RowByName
<1>2. QED
  BY <1>1, MergedRowsKeepNames

-----------------------------------------------------------------------------
(* From the fields of the sources to their columns.                         *)

\* Fields as Yearning sends them: a title and a dataIndex, either may be empty.
FieldLists(S) == Seq([title : S, dataIndex : S])

\* The columns of a list of fields are as many as the fields.
LEMMA ColumnsOfFields ==
  ASSUME NEW S, NEW fields \in FieldLists(S)
  PROVE  /\ Columns(fields) \in ColumnLists(Range(Names(Columns(fields))),
                                            Range(Keys(Columns(fields))))
         /\ Len(fields) \in Nat
         /\ DOMAIN fields = 1..Len(fields)
         /\ Len(Columns(fields)) = Len(fields)
         /\ \A k \in 1..Len(fields) : Columns(fields)[k].name = NameOf(fields, k)
<1> DEFINE cols == Columns(fields)
           C    == [name : Range(Names(cols)), key : Range(Keys(cols))]
<1>1. Len(fields) \in Nat /\ DOMAIN fields = 1..Len(fields)
  BY DEF FieldLists
<1>2. /\ DOMAIN cols = DOMAIN fields
      /\ cols = [k \in DOMAIN fields |-> cols[k]]
      /\ \A k \in DOMAIN fields :
           cols[k] = [name |-> NameOf(fields, k), key |-> KeyOf(fields, k)]
  BY DEF Columns
<1> HIDE DEF cols
<1>3. ASSUME NEW k \in DOMAIN fields
      PROVE  cols[k] \in C
  <2>1. Names(cols)[k] = NameOf(fields, k) /\ Keys(cols)[k] = KeyOf(fields, k)
    BY <1>2 DEF Names, Keys
  <2>2. NameOf(fields, k) \in Range(Names(cols)) /\ KeyOf(fields, k) \in Range(Keys(cols))
    BY <1>2, <2>1 DEF Range, Names, Keys
  <2>3. QED
    BY <1>2, <2>2
<1>4. cols \in [1..Len(fields) -> C]
  BY <1>1, <1>2, <1>3
<1> HIDE DEF C
<1>5. cols \in Seq(C) /\ Len(cols) = Len(fields)
  BY <1>1, <1>4, FunctionIsSequence
<1>6. QED
  BY <1>1, <1>2, <1>5 DEF ColumnLists, cols, C

\* A title that no other column has is the name of its column.
LEMMA DistinctTitlesAreNames ==
  ASSUME NEW S, NEW fields \in FieldLists(S), IsInjective(Titles(fields))
  PROVE  Names(Columns(fields)) = Titles(fields)
<1>1. ASSUME NEW k \in DOMAIN fields
      PROVE  NameOf(fields, k) = TitleOf(fields, k)
  <2>1. DOMAIN fields = 1..Len(fields) /\ Len(fields) \in Nat
    BY ColumnsOfFields
  <2>2. {j \in 1..k : TitleOf(fields, j) = TitleOf(fields, k)} = {k}
    <3>1. \A j \in 1..k : Titles(fields)[j] = TitleOf(fields, j)
      BY <2>1 DEF Titles
    <3>2. \A j \in 1..k : TitleOf(fields, j) = TitleOf(fields, k) => j = k
      BY <2>1, <3>1 DEF IsInjective, Titles
    <3>3. k \in 1..k
      BY <2>1
    <3>4. QED
      BY <3>2, <3>3
  <2>3. Cardinality({k}) = 1
    BY FS_Singleton
  <2>4. QED
    BY <2>2, <2>3 DEF NameOf
<1>2. DOMAIN Columns(fields) = DOMAIN fields
  BY DEF Columns
<1>3. \A k \in DOMAIN fields : Columns(fields)[k].name = NameOf(fields, k)
  BY DEF Columns
<1>4. Names(Columns(fields)) = [k \in DOMAIN fields |-> NameOf(fields, k)]
  BY <1>2, <1>3 DEF Names
<1>5. QED
  BY <1>1, <1>4 DEF Titles

\* Lists without repetitions that hold the same are as long as each other.
LEMMA SameLength ==
  ASSUME NEW m \in Nat, NEW n \in Nat, NEW f, NEW g, DOMAIN f = 1..m, DOMAIN g = 1..n,
         f = [k \in 1..m |-> f[k]], g = [k \in 1..n |-> g[k]],
         IsInjective(f), IsInjective(g), Range(f) = Range(g)
  PROVE  m = n
<1>1. ASSUME NEW l \in Nat, NEW h, DOMAIN h = 1..l, h = [k \in 1..l |-> h[k]], IsInjective(h)
      PROVE  Cardinality(Range(h)) = l
  <2>1. h \in Surjection(1..l, Range(h)) /\ h \in Injection(1..l, Range(h))
    BY <1>1 DEF Surjection, Injection, Range
  <2>2. IsFiniteSet(1..l) /\ Cardinality(1..l) = l
    BY <1>1, IntervalSize
  <2>3. QED
    BY <2>1, <2>2, FS_Surjection
<1>2. Cardinality(Range(f)) = m /\ Cardinality(Range(g)) = n
  BY <1>1
<1>3. QED
  BY <1>2

\* A source whose columns have the titles of the first one's, each once, in any
\* order and from any keys, is not left out, and its rows say exactly what they
\* say alone (convertMerged, Columns, alignKeys).
THEOREM SameTitlesMerge ==
  ASSUME NEW S, NEW first \in FieldLists(S), NEW set, set.fields \in FieldLists(S),
         IsInjective(Titles(first)), IsInjective(Titles(set.fields)),
         Range(Titles(first)) = Range(Titles(set.fields))
  PROVE  LET cols == Columns(set.fields)
             want == Names(Columns(first))
         IN  /\ Aligns(cols, want)
             /\ \A r \in DOMAIN set.rows :
                  ByName(RowsOf(set.rows, AlignKeys(cols, want))[r], want) =
                    ByName(Converted(set)[r], Names(cols))
<1> DEFINE cols == Columns(set.fields)
           want == Names(Columns(first))
<1>1. want = Titles(first) /\ Names(cols) = Titles(set.fields)
  BY DistinctTitlesAreNames
<1>2. /\ Len(first) \in Nat /\ DOMAIN first = 1..Len(first)
      /\ Len(set.fields) \in Nat /\ DOMAIN set.fields = 1..Len(set.fields)
      /\ Len(cols) = Len(set.fields)
  BY ColumnsOfFields
<1>3. want \in [1..Len(first) -> Range(want)]
  BY <1>1, <1>2 DEF Titles, Range
<1>4. want \in Seq(Range(want)) /\ Len(want) = Len(first)
  BY <1>2, <1>3
<1>5. Len(first) = Len(set.fields)
  BY <1>2, SameLength DEF Titles
<1>6. Aligns(cols, want)
  BY <1>1, <1>2, <1>4, <1>5 DEF Aligns
<1>7. cols \in ColumnLists(Range(Names(cols)), Range(Keys(cols)))
  BY ColumnsOfFields
<1>8. IsInjective(want)
  BY <1>1
<1> HIDE DEF cols, want
<1>9. ASSUME NEW r \in DOMAIN set.rows
      PROVE  ByName(RowsOf(set.rows, AlignKeys(cols, want))[r], want) =
               ByName(RowsOf(set.rows, Keys(cols))[r], Names(cols))
  BY <1>4, <1>6, <1>7, <1>8, MergedRowsAreWhole
<1>10. Converted(set) = RowsOf(set.rows, Keys(cols))
  BY DEF Converted, cols
<1>11. QED
  BY <1>6, <1>9, <1>10 DEF cols, want

\* What stands at a place of two sequences one behind the other, and at that
\* place of two others as long.
Beside(s, t, u, v) ==
  /\ Len(s \o t) = Len(u \o v)
  /\ \A r \in 1..Len(s \o t) :
       \/ r \in 1..Len(s) /\ (s \o t)[r] = s[r] /\ (u \o v)[r] = u[r]
       \/ \E x \in 1..Len(t) : (s \o t)[r] = t[x] /\ (u \o v)[r] = v[x]

\* Sequences that are as long as each other stay side by side when two others are
\* put behind them.
LEMMA BesideEachOther ==
  ASSUME NEW A, NEW s \in Seq(A), NEW t \in Seq(A), NEW B, NEW u \in Seq(B), NEW v \in Seq(B),
         Len(s) = Len(u), Len(t) = Len(v)
  PROVE  Beside(s, t, u, v)
<1>1. Len(s) \in Nat /\ Len(t) \in Nat
  OBVIOUS
<1>2. Len(s \o t) = Len(s) + Len(t) /\ Len(u \o v) = Len(s) + Len(t)
  OBVIOUS
<1>3. ASSUME NEW r \in 1..Len(s \o t), r <= Len(s)
      PROVE  r \in 1..Len(s) /\ (s \o t)[r] = s[r] /\ (u \o v)[r] = u[r]
  BY <1>1, <1>2, <1>3
<1>4. ASSUME NEW r \in 1..Len(s \o t), r > Len(s)
      PROVE  \E x \in 1..Len(t) : (s \o t)[r] = t[x] /\ (u \o v)[r] = v[x]
  <2>1. r - Len(s) \in 1..Len(t)
    BY <1>1, <1>2, <1>4
  <2>2. (s \o t)[r] = t[r - Len(s)] /\ (u \o v)[r] = v[r - Len(s)]
    BY <1>1, <1>2, <1>4
  <2>3. QED
    BY <2>1, <2>2
<1>5. ASSUME NEW r \in 1..Len(s \o t)
      PROVE  r <= Len(s) \/ r > Len(s)
  BY <1>1, <1>2
<1>6. QED
  BY <1>2, <1>3, <1>4, <1>5, Zenon DEF Beside

\* The sequences of two lists are pairwise as long as each other.
AsLong(a, b) == Len(a) = Len(b) /\ \A k \in 1..Len(a) : Len(a[k]) = Len(b[k])

\* What stands at one place of f and g stands at one place of the lists they are
\* made of.
SamePlaces(f, g, a, b) ==
  \A r \in 1..Len(f) : \E k \in 1..Len(a) : \E x \in 1..Len(a[k]) :
    f[r] = a[k][x] /\ g[r] = b[k][x]

\* Of two lists of sequences that are pairwise as long as each other, put one
\* behind the other, what stands at one place comes from one place.
LEMMA FlattenTogether ==
  ASSUME NEW A, NEW B, NEW a \in Seq(Seq(A)), NEW b \in Seq(Seq(B)), AsLong(a, b)
  PROVE  /\ FlattenSeq(a) \in Seq(A) /\ FlattenSeq(b) \in Seq(B)
         /\ Len(FlattenSeq(a)) = Len(FlattenSeq(b))
         /\ SamePlaces(FlattenSeq(a), FlattenSeq(b), a, b)
<1> DEFINE n == Len(a)
<1>1. n \in Nat /\ \A k \in 1..n : a[k] \in Seq(A) /\ b[k] \in Seq(B)
  BY DEF AsLong
<1>2. Len(b) = n /\ \A k \in 1..n : Len(a[k]) = Len(b[k])
  BY DEF AsLong
<1>3. PICK f \in [0..n -> Seq(A)] :
        /\ f[0] = <<>> /\ \A m \in 1..n : f[m] = f[m - 1] \o a[m]
        /\ FlattenSeq(a) = f[n]
  BY FlattenRounds
<1>4. PICK g \in [0..n -> Seq(B)] :
        /\ g[0] = <<>> /\ \A m \in 1..n : g[m] = g[m - 1] \o b[m]
        /\ FlattenSeq(b) = g[n]
  BY <1>2, FlattenRounds
<1> DEFINE Alike(m) ==
             /\ Len(f[m]) = Len(g[m])
             /\ \A r \in 1..Len(f[m]) : \E k \in 1..n : \E x \in 1..Len(a[k]) :
                  f[m][r] = a[k][x] /\ g[m][r] = b[k][x]
           Done == {m \in Nat : m <= n => Alike(m)}
<1>5. 0 \in Done
  <2>1. Alike(0)
    BY <1>3, <1>4
  <2>2. QED
    BY <2>1
<1> HIDE DEF n, Alike
<1>6. ASSUME NEW m \in Done
      PROVE  m + 1 \in Done
  <2>1. SUFFICES ASSUME m + 1 <= n
                 PROVE  Alike(m + 1)
    <3>1. m + 1 \in Nat
      OBVIOUS
    <3>2. QED
      BY <3>1, Zenon
  <2>2. /\ m + 1 \in 1..n /\ (m + 1) - 1 = m /\ m \in 0..n /\ Alike(m)
    <3>1. m \in Nat /\ m <= n /\ (m <= n => Alike(m))
      BY <1>1, <2>1
    <3>2. QED
      BY <1>1, <2>1, <3>1
  <2>3. f[m + 1] = f[m] \o a[m + 1] /\ g[m + 1] = g[m] \o b[m + 1]
    BY <1>3, <1>4, <2>2
  <2>4. /\ f[m] \in Seq(A) /\ g[m] \in Seq(B) /\ a[m + 1] \in Seq(A) /\ b[m + 1] \in Seq(B)
        /\ Len(a[m + 1]) = Len(b[m + 1]) /\ Len(f[m]) = Len(g[m])
    BY <1>2, <1>1, <2>2 DEF Alike
  <2> DEFINE s == f[m]
             t == a[m + 1]
             u == g[m]
             v == b[m + 1]
  <2>5. Beside(s, t, u, v)
    <3> HIDE DEF s, t, u, v
    <3>1. /\ s \in Seq(A) /\ t \in Seq(A) /\ u \in Seq(B) /\ v \in Seq(B)
          /\ Len(s) = Len(u) /\ Len(t) = Len(v)
      BY <2>4 DEF s, t, u, v
    <3>2. QED
      BY <3>1, BesideEachOther
  <2>6. ASSUME NEW r \in 1..Len(f[m + 1])
        PROVE  \E k \in 1..n : \E x \in 1..Len(a[k]) :
                 f[m + 1][r] = a[k][x] /\ g[m + 1][r] = b[k][x]
    <3>1. CASE r \in 1..Len(s) /\ (s \o t)[r] = s[r] /\ (u \o v)[r] = u[r]
      BY <2>2, <2>3, <3>1 DEF Alike
    <3>2. CASE \E x \in 1..Len(t) : (s \o t)[r] = t[x] /\ (u \o v)[r] = v[x]
      BY <2>2, <2>3, <3>2
    <3>3. QED
      BY <2>3, <2>5, <3>1, <3>2 DEF Beside
  <2>7. QED
    BY <2>3, <2>5, <2>6 DEF Alike, Beside
<1>7. Alike(n)
  <2>1. Done \in SUBSET Nat
    OBVIOUS
  <2>2. Done = Nat
    <3> HIDE DEF Done
    <3>1. QED
      BY <1>5, <1>6, <2>1, SetInduction
  <2>3. n \in Done
    <3> HIDE DEF Done
    <3>1. QED
      BY <1>1, <2>2
  <2>4. n <= n
    BY <1>1
  <2>5. QED
    BY <2>3, <2>4
<1>8. QED
  <2>1. n \in 0..n
    BY <1>1
  <2>2. FlattenSeq(a) \in Seq(A) /\ FlattenSeq(b) \in Seq(B)
    BY <1>3, <1>4, <2>1
  <2>3. QED
    BY <1>3, <1>4, <1>7, <2>2 DEF n, Alike, SamePlaces

-----------------------------------------------------------------------------
(* All the sources.                                                         *)

\* A result set of any number of columns and rows. A row is a function from keys
\* to values.
Sources(S, V) == [fields : FieldLists(S), rows : Seq(V)]

\* The rows a source adds, and what they say when it is asked alone.
Taken(set, want) ==
  LET cols == Columns(set.fields)
  IN  IF Aligns(cols, want) THEN RowsOf(set.rows, AlignKeys(cols, want)) ELSE <<>>

Said(set, want) ==
  LET names == Names(Columns(set.fields))
  IN  IF IsInjective(names) /\ Len(names) = Len(want) /\ Range(want) \subseteq Range(names)
      THEN [r \in DOMAIN set.rows |-> ByName(Converted(set)[r], names)]
      ELSE <<>>

\* The names of the columns are a sequence, of one name for each.
LEMMA NamesOfFields ==
  ASSUME NEW S, NEW fields \in FieldLists(S)
  PROVE  LET names == Names(Columns(fields))
         IN  names \in Seq(Range(names)) /\ Len(names) = Len(Columns(fields))
<1> DEFINE cols == Columns(fields)
<1>1. /\ cols \in ColumnLists(Range(Names(cols)), Range(Keys(cols)))
      /\ Len(cols) \in Nat
  BY ColumnsOfFields
<1> HIDE DEF cols
<1>2. DOMAIN Names(cols) = 1..Len(cols)
  BY <1>1, NamesAndKeys
<1>3. Names(cols) = [k \in 1..Len(cols) |-> Names(cols)[k]]
  BY <1>2 DEF Names
<1> DEFINE names == Names(cols)
<1> HIDE DEF names
<1>4. names \in Seq(Range(names)) /\ Len(names) = Len(cols)
  BY <1>1, <1>2, <1>3, SequenceOfRange DEF names
<1>5. QED
  BY <1>4 DEF names, cols

\* Rows say under the wanted names what they should.
Tell(rows, want, own) ==
  /\ Len(rows) = Len(own)
  /\ \A r \in 1..Len(rows) :
       /\ Len(rows[r]) = Len(want)
       /\ ByName(rows[r], want) \subseteq own[r]
       /\ IsInjective(want) => own[r] \subseteq ByName(rows[r], want)

\* What one source adds.
LEMMA TakenIsSaid ==
  ASSUME NEW S, NEW V, NEW first \in FieldLists(S), NEW set \in Sources(S, V), NEW want,
         want = Names(Columns(first))
  PROVE  /\ Taken(set, want) \in Seq(Range(Taken(set, want)))
         /\ Said(set, want) \in Seq(Range(Said(set, want)))
         /\ Tell(Taken(set, want), want, Said(set, want))
<1> DEFINE cols == Columns(set.fields)
           names == Names(cols)
           n == Len(set.rows)
<1>1. set.fields \in FieldLists(S) /\ n \in Nat /\ DOMAIN set.rows = 1..n
  BY DEF Sources
<1>2. /\ cols \in ColumnLists(Range(Names(cols)), Range(Keys(cols)))
      /\ Len(names) = Len(cols)
  BY <1>1, ColumnsOfFields, NamesOfFields
<1>3. want \in Seq(Range(want))
  BY NamesOfFields
<1>4. Aligns(cols, want) <=>
        /\ IsInjective(names) /\ Len(names) = Len(want) /\ Range(want) \subseteq Range(names)
  BY <1>2 DEF Aligns
<1> HIDE DEF cols, n
<1>5. CASE ~Aligns(cols, want)
  <2>1. Taken(set, want) = <<>> /\ Said(set, want) = <<>>
    BY <1>4, <1>5 DEF Taken, Said, cols
  <2>2. QED
    BY <2>1 DEF Tell
<1>6. CASE Aligns(cols, want)
  <2> DEFINE taken == Taken(set, want)
             said == Said(set, want)
             keys == AlignKeys(cols, want)
  <2>1. taken = RowsOf(set.rows, keys)
    BY <1>6 DEF Taken, cols
  <2>2. said = [r \in 1..n |-> ByName(Converted(set)[r], names)]
    BY <1>1, <1>4, <1>6 DEF Said, cols
  <2>3. DOMAIN taken = 1..n /\ taken = [r \in 1..n |-> taken[r]]
    <3> HIDE DEF taken
    <3>1. QED BY <1>1, <2>1 DEF RowsOf
  <2>4. DOMAIN said = 1..n /\ said = [r \in 1..n |-> said[r]]
    <3> HIDE DEF said
    <3>1. QED BY <2>2
  <2> HIDE DEF taken, said, names
  <2>5. /\ taken \in Seq(Range(taken)) /\ said \in Seq(Range(said))
        /\ Len(taken) = n /\ Len(said) = n
    BY <1>1, <2>3, <2>4, SequenceOfRange
  <2>6. ASSUME NEW r \in 1..n
        PROVE  /\ Len(taken[r]) = Len(want)
               /\ ByName(taken[r], want) \subseteq said[r]
               /\ IsInjective(want) => said[r] \subseteq ByName(taken[r], want)
    <3>1. said[r] = ByName(RowsOf(set.rows, Keys(cols))[r], Names(cols))
      BY <2>2 DEF Converted, cols, names
    <3>2. r \in DOMAIN set.rows
      BY <1>1
    <3>3. ByName(taken[r], want) \subseteq said[r]
      BY <1>2, <1>6, <2>1, <3>1, <3>2, MergedRowsKeepNames
    <3>4. IsInjective(want) => said[r] \subseteq ByName(taken[r], want)
      BY <1>2, <1>3, <1>6, <2>1, <3>1, <3>2, MergedRowsAreWhole
    <3>5. Len(taken[r]) = Len(want)
      <4>1. DOMAIN keys = DOMAIN want /\ DOMAIN want = 1..Len(want) /\ Len(want) \in Nat
        BY <1>3 DEF AlignKeys
      <4>2. taken[r] = [k \in DOMAIN keys |->
                          IF keys[k] \in DOMAIN set.rows[r] THEN set.rows[r][keys[k]] ELSE Null]
        BY <2>1, <3>2 DEF RowsOf
      <4> HIDE DEF keys
      <4>3. DOMAIN taken[r] = 1..Len(want)
        BY <4>1, <4>2
      <4>4. taken[r] = [k \in 1..Len(want) |-> taken[r][k]]
        BY <4>1, <4>2
      <4>5. QED
        BY <4>1, <4>3, <4>4, SequenceOfRange
    <3>6. QED
      BY <3>3, <3>4, <3>5
  <2>7. QED
    BY <2>5, <2>6 DEF taken, said, Tell
<1>7. QED
  BY <1>5, <1>6

\* What follows a sequence put in front.
LEMMA AfterFront ==
  ASSUME NEW A, NEW s \in Seq(A), NEW t \in Seq(A)
  PROVE  SubSeq(s \o t, Len(s) + 1, Len(s \o t)) = t
<1> DEFINE q == SubSeq(s \o t, Len(s) + 1, Len(s \o t))
<1>1. /\ Len(s) \in Nat /\ Len(t) \in Nat /\ s \o t \in Seq(A)
      /\ Len(s \o t) = Len(s) + Len(t)
  OBVIOUS
<1>2. q \in Seq(A) /\ Len(q) = Len(t)
  BY <1>1
<1>3. ASSUME NEW j \in 1..Len(t)
      PROVE  q[j] = t[j]
  BY <1>1
<1> HIDE DEF q
<1>4. q = t
  BY <1>2, <1>3, SeqEqual
<1>5. QED
  BY <1>4 DEF q

\* What follows the rows of the first source is what the sources taken say.
NamesAligned(sets) ==
  LET want == Names(Columns(sets[1].fields))
      rows == SubSeq(Merged(sets), Len(sets[1].rows) + 1, Len(Merged(sets)))
  IN  /\ DOMAIN rows = 1..Len(rows)
      /\ Tell(rows, want, FlattenSeq([k \in 1..(Len(sets) - 1) |-> Said(sets[k + 1], want)]))

\* The rows of all sources are aligned by name, however many there are.
LEMMA SourcesAreAligned ==
  ASSUME NEW S, NEW V, NEW sets \in Seq(Sources(S, V)), sets # <<>>
  PROVE  NamesAligned(sets)
<1> DEFINE want == Names(Columns(sets[1].fields))
           n == Len(sets) - 1
           a == [k \in 1..n |-> Taken(sets[k + 1], want)]
           b == [k \in 1..n |-> Said(sets[k + 1], want)]
           first == Converted(sets[1])
           A == (UNION {Range(a[k]) : k \in 1..n}) \cup Range(first)
           B == UNION {Range(b[k]) : k \in 1..n}
<1>1. n \in Nat /\ \A k \in 1..Len(sets) : sets[k] \in Sources(S, V)
  OBVIOUS
<1>2. sets[1] \in Sources(S, V) /\ \A k \in 1..n : sets[k + 1] \in Sources(S, V)
  BY <1>1
<1>3. sets[1].fields \in FieldLists(S) /\ sets[1].rows \in Seq(V)
  BY <1>2 DEF Sources
<1>4. ASSUME NEW k \in 1..n
      PROVE  /\ a[k] \in Seq(Range(a[k])) /\ b[k] \in Seq(Range(b[k]))
             /\ Tell(a[k], want, b[k])
  <2>1. a[k] = Taken(sets[k + 1], want) /\ b[k] = Said(sets[k + 1], want)
    OBVIOUS
  <2>2. want = Names(Columns(sets[1].fields))
    OBVIOUS
  <2> HIDE DEF a, b, want, n
  <2>3. sets[k + 1] \in Sources(S, V)
    BY <1>2
  <2> DEFINE set == sets[k + 1]
  <2> HIDE DEF set
  <2>4. /\ Taken(set, want) \in Seq(Range(Taken(set, want)))
        /\ Said(set, want) \in Seq(Range(Said(set, want)))
        /\ Tell(Taken(set, want), want, Said(set, want))
    BY <1>3, <2>2, <2>3, TakenIsSaid DEF set
  <2>5. QED
    BY <2>1, <2>4 DEF set
<1>5. first \in Seq(Range(first)) /\ Len(first) = Len(sets[1].rows)
  <2>1. DOMAIN sets[1].rows = 1..Len(sets[1].rows) /\ Len(sets[1].rows) \in Nat
    BY <1>3
  <2>2. DOMAIN first = 1..Len(sets[1].rows)
    BY <2>1 DEF Converted, RowsOf
  <2>3. first = [r \in 1..Len(sets[1].rows) |-> first[r]]
    BY <2>1 DEF Converted, RowsOf
  <2> HIDE DEF first
  <2>4. QED
    BY <2>1, <2>2, <2>3, SequenceOfRange
<1> DEFINE flatA == FlattenSeq(a)
           flatB == FlattenSeq(b)
<1>6. DOMAIN a = 1..n /\ DOMAIN b = 1..n
  OBVIOUS
<1>7. Merged(sets) = first \o flatA
  BY DEF Merged, Taken
<1> DEFINE rows == SubSeq(Merged(sets), Len(sets[1].rows) + 1, Len(Merged(sets)))
<1>8. (DOMAIN rows = 1..Len(rows) /\ Tell(rows, want, flatB)) => NamesAligned(sets)
  BY DEF NamesAligned
<1>9. a \in Seq(Seq(A)) /\ b \in Seq(Seq(B)) /\ Len(a) = n /\ Len(b) = n /\ first \in Seq(A)
  <2>1. \A k \in 1..n : Range(a[k]) \subseteq A /\ Range(b[k]) \subseteq B
    OBVIOUS
  <2>2. Range(first) \subseteq A
    OBVIOUS
  <2>3. a = [k \in 1..n |-> a[k]] /\ b = [k \in 1..n |-> b[k]]
    OBVIOUS
  <2> HIDE DEF a, b, A, B, n, first
  <2>4. \A k \in 1..n : a[k] \in Seq(A) /\ b[k] \in Seq(B)
    BY <1>4, <2>1, SeqMonotonic
  <2>5. a \in [1..n -> Seq(A)] /\ b \in [1..n -> Seq(B)]
    BY <2>3, <2>4
  <2>6. QED
    BY <1>1, <1>5, <2>2, <2>5, FunctionIsSequence, SeqMonotonic
<1> HIDE DEF a, b, A, B, n, first, want
<1>10. /\ flatA \in Seq(A) /\ flatB \in Seq(B) /\ Len(flatA) = Len(flatB)
      /\ SamePlaces(flatA, flatB, a, b)
  <2>1. AsLong(a, b)
    BY <1>4, <1>9 DEF AsLong, Tell
  <2>2. QED
    BY <1>9, <2>1, FlattenTogether
<1> HIDE DEF flatA, flatB
<1>11. rows = flatA
  BY <1>5, <1>7, <1>9, <1>10, AfterFront
<1> HIDE DEF rows
<1>12. Tell(flatA, want, flatB)
  <2>1. ASSUME NEW r \in 1..Len(flatA)
        PROVE  /\ Len(flatA[r]) = Len(want)
               /\ ByName(flatA[r], want) \subseteq flatB[r]
               /\ IsInjective(want) => flatB[r] \subseteq ByName(flatA[r], want)
    <3>1. PICK k \in 1..n : \E x \in 1..Len(a[k]) : flatA[r] = a[k][x] /\ flatB[r] = b[k][x]
      BY <1>9, <1>10 DEF SamePlaces
    <3>2. QED
      BY <1>4, <3>1 DEF Tell
  <2>2. QED
    BY <1>10, <2>1 DEF Tell
<1>13. QED
  BY <1>8, <1>10, <1>11, <1>12

\* Lists without repetitions, as long as each other, of which one holds what the
\* other does hold the same.
LEMMA SameRange ==
  ASSUME NEW n \in Nat, NEW f, NEW g, DOMAIN f = 1..n, DOMAIN g = 1..n,
         f = [k \in 1..n |-> f[k]], g = [k \in 1..n |-> g[k]],
         IsInjective(f), IsInjective(g), Range(f) \subseteq Range(g)
  PROVE  Range(f) = Range(g)
<1>1. ASSUME NEW h, DOMAIN h = 1..n, h = [k \in 1..n |-> h[k]], IsInjective(h)
      PROVE  IsFiniteSet(Range(h)) /\ Cardinality(Range(h)) = n
  <2>1. h \in Surjection(1..n, Range(h)) /\ h \in Injection(1..n, Range(h))
    BY <1>1 DEF Surjection, Injection, Range
  <2>2. IsFiniteSet(1..n) /\ Cardinality(1..n) = n
    BY <1>1, IntervalSize
  <2>3. QED
    BY <2>1, <2>2, FS_Surjection
<1>2. /\ IsFiniteSet(Range(g)) /\ Cardinality(Range(f)) = n /\ Cardinality(Range(g)) = n
  BY <1>1
<1>3. QED
  BY <1>2, FS_Subset

\* What a source says of its titles, when it has those of the first one.
SaidOfTitles(set, want) ==
  IF Range(Titles(set.fields)) = Range(want)
  THEN [r \in DOMAIN set.rows |-> ByName(Converted(set)[r], Titles(set.fields))]
  ELSE <<>>

\* Titles that do not repeat are the names, so it is what it says of its names.
LEMMA TitlesSay ==
  ASSUME NEW S, NEW first \in FieldLists(S), NEW set, set.fields \in FieldLists(S),
         IsInjective(Titles(first)), IsInjective(Titles(set.fields))
  PROVE  Said(set, Titles(first)) = SaidOfTitles(set, Titles(first))
<1> DEFINE names == Titles(set.fields)
           want == Titles(first)
<1>1. Names(Columns(set.fields)) = names
  BY DistinctTitlesAreNames
<1>2. /\ Len(first) \in Nat /\ DOMAIN first = 1..Len(first)
      /\ Len(set.fields) \in Nat /\ DOMAIN set.fields = 1..Len(set.fields)
  BY ColumnsOfFields
<1>3. /\ DOMAIN want = 1..Len(first) /\ want = [k \in 1..Len(first) |-> want[k]]
      /\ DOMAIN names = 1..Len(set.fields) /\ names = [k \in 1..Len(set.fields) |-> names[k]]
  BY <1>2 DEF Titles
<1>4. IsInjective(names) /\ IsInjective(want)
  OBVIOUS
<1> HIDE DEF names, want
<1>5. Len(want) = Len(first) /\ Len(names) = Len(set.fields)
  BY <1>2, <1>3, SequenceOfRange
<1>6. Len(names) = Len(want) /\ Range(want) \subseteq Range(names) => Range(names) = Range(want)
  BY <1>2, <1>3, <1>4, <1>5, SameRange
<1>7. Range(names) = Range(want) => Len(names) = Len(want)
  BY <1>2, <1>3, <1>4, <1>5, SameLength
<1>8. (IsInjective(names) /\ Len(names) = Len(want) /\ Range(want) \subseteq Range(names))
        <=> Range(names) = Range(want)
  BY <1>4, <1>6, <1>7
<1>9. QED
  BY <1>1, <1>8 DEF Said, SaidOfTitles, names, want

\* The rows of the sources are aligned by title, where none repeats one.
LEMMA TitlesAreAligned ==
  ASSUME NEW S, NEW V, NEW sets \in Seq(Sources(S, V))
  PROVE  RowsAligned(sets)
<1> SUFFICES ASSUME Convert(sets).ok, \A k \in DOMAIN sets : IsInjective(Titles(sets[k].fields))
             PROVE  RowsAligned(sets)
  BY DEF RowsAligned
<1>1. sets # <<>> /\ Convert(sets).rows = Merged(sets)
  BY DEF Convert, NoResult
<1> DEFINE n == Len(sets) - 1
           want == Titles(sets[1].fields)
           rows == SubSeq(Merged(sets), Len(sets[1].rows) + 1, Len(Merged(sets)))
           own == FlattenSeq([k \in 1..n |-> SaidOfTitles(sets[k + 1], want)])
<1>2. DOMAIN sets = 1..(n + 1) /\ n \in Nat /\ \A k \in 1..(n + 1) : sets[k] \in Sources(S, V)
  BY <1>1
<1>3. \A k \in 1..(n + 1) : /\ sets[k].fields \in FieldLists(S)
                           /\ IsInjective(Titles(sets[k].fields))
  BY <1>2 DEF Sources
<1>4. Names(Columns(sets[1].fields)) = want
  BY <1>2, <1>3, DistinctTitlesAreNames
<1>5. ASSUME NEW k \in 1..n
      PROVE  Said(sets[k + 1], want) = SaidOfTitles(sets[k + 1], want)
  <2>1. k + 1 \in 1..(n + 1) /\ 1 \in 1..(n + 1)
    BY <1>2
  <2> HIDE DEF n
  <2>2. /\ sets[1].fields \in FieldLists(S) /\ sets[k + 1].fields \in FieldLists(S)
        /\ IsInjective(Titles(sets[1].fields)) /\ IsInjective(Titles(sets[k + 1].fields))
    BY <1>3, <2>1
  <2>3. QED
    BY <2>2, TitlesSay
<1>6. [k \in 1..n |-> Said(sets[k + 1], want)] = [k \in 1..n |-> SaidOfTitles(sets[k + 1], want)]
  BY <1>5
<1>7. DOMAIN rows = 1..Len(rows) /\ Tell(rows, want, own)
  <2>1. NamesAligned(sets)
    BY <1>1, SourcesAreAligned
  <2>2. /\ DOMAIN rows = 1..Len(rows)
        /\ Tell(rows, want, FlattenSeq([k \in 1..n |-> Said(sets[k + 1], want)]))
    BY <1>4, <2>1, Zenon DEF NamesAligned
  <2>3. QED
    BY <1>6, <2>2, Zenon
<1>8. IsInjective(want)
  BY <1>2, <1>3
<1>9. RowsAligned(sets) <=>
        /\ Len(rows) = Len(own)
        /\ \A r \in DOMAIN rows :
             Len(rows[r]) = Len(want) /\ ByName(rows[r], want) = own[r]
  BY <1>1, Zenon DEF RowsAligned, SaidOfTitles
<1> HIDE DEF rows, want, own
<1>10. QED
  <2>1. Len(rows) = Len(own)
    BY <1>7 DEF Tell
  <2>2. ASSUME NEW r \in DOMAIN rows
        PROVE  Len(rows[r]) = Len(want) /\ ByName(rows[r], want) = own[r]
    <3>1. r \in 1..Len(rows)
      BY <1>7
    <3>2. QED
      BY <1>7, <1>8, <3>1 DEF Tell
  <2>3. QED
    BY <1>9, <2>1, <2>2

\* Calls of Convert with any result sets, none among them.
ConvertCalls(S, V) == [of : {"Convert"}, sets : Seq(Sources(S, V))]

\* In the merged answer of any number of sources, with any columns and rows, a
\* source that has the titles of the first keeps every value under its title,
\* and one that has not adds nothing (Convert); unless a source repeats a title.
THEOREM MergedAnswer ==
  ASSUME NEW S, NEW V, call \in ConvertCalls(S, V)
  PROVE  MergedRows
BY TitlesAreAligned DEF ConvertCalls, MergedRows

-----------------------------------------------------------------------------
(* LikeMatch.                                                               *)

\* What is left of a name after so many bytes.
LeftFrom(s, c) == SubSeq(s, c + 1, Len(s))

\* What can be left of a name.
Tails(s) == {LeftFrom(s, c) : c \in 0..Len(s)}

\* The loop of strings.Split and that of likeMatch.
Splitting == INSTANCE Folding WITH Op <- NextByte
Searching == INSTANCE Folding WITH Op <- After

\* What is left of a name is a name, never the mark of failure.
LEMMA TailOfName ==
  ASSUME NEW B, "failed" \notin B, NEW s \in Seq(B), NEW c \in 0..Len(s)
  PROVE  /\ LeftFrom(s, c) \in Seq(B) /\ LeftFrom(s, c) # Failed
         /\ Len(LeftFrom(s, c)) = Len(s) - c
         /\ \A w \in 1..(Len(s) - c) : LeftFrom(s, c)[w] = s[c + w]
<1> DEFINE t == LeftFrom(s, c)
<1>1. t \in Seq(B) /\ Len(t) = Len(s) - c /\ \A w \in 1..(Len(s) - c) : t[w] = s[c + w]
  BY DEF LeftFrom
<1>2. t # Failed
  <2>1. Failed[1] = "failed" /\ Len(Failed) = 1
    BY DEF Failed
  <2> HIDE DEF t
  <2>2. Len(t) = 1 => t[1] \in B
    <3>1. t \in Seq(B)
      BY <1>1
    <3>2. \A w \in 1..Len(t) : t[w] \in B
      BY <3>1, ElementOfSeq
    <3>3. QED
      BY <3>2
  <2>3. QED
    BY <2>1, <2>2
<1>3. QED
  BY <1>1, <1>2

\* The places of a name where a part fits.
Fits(s, part, c) == {w \in c..Len(s) : w + Len(part) <= Len(s) /\ FitsAt(s, part, w)}

\* One search: it fails where the part fits nowhere, and goes on after the first
\* place where it fits.
LEMMA SearchOnce ==
  ASSUME NEW B, "failed" \notin B, NEW s \in Seq(B), NEW part \in Seq(B), NEW c \in 0..Len(s)
  PROVE  /\ Fits(s, part, c) = {} => After(LeftFrom(s, c), part) = Failed
         /\ Fits(s, part, c) # {} =>
              \E w \in Fits(s, part, c) :
                /\ \A k \in Fits(s, part, c) : w <= k
                /\ After(LeftFrom(s, c), part) = LeftFrom(s, w + Len(part))
<1> DEFINE t == LeftFrom(s, c)
           m == Len(part)
           found == {w \in 0..(Len(t) - m) : FitsAt(t, part, w)}
<1>1. /\ t \in Seq(B) /\ t # Failed /\ Len(t) = Len(s) - c
      /\ \A w \in 1..(Len(s) - c) : t[w] = s[c + w]
  BY TailOfName
<1>2. m \in Nat /\ DOMAIN part = 1..m /\ Len(s) \in Nat /\ c \in Nat /\ c <= Len(s)
  OBVIOUS
<1> HIDE DEF t, m
<1>3. ASSUME NEW w \in Nat, w + m <= Len(t)
      PROVE  FitsAt(t, part, w) <=> FitsAt(s, part, c + w)
  <2>1. \A j \in 1..m : t[w + j] = s[(c + w) + j]
    <3>1. ASSUME NEW j \in 1..m
          PROVE  t[w + j] = s[(c + w) + j]
      <4>1. w + j \in 1..(Len(s) - c)
        BY <1>1, <1>2, <1>3
      <4>2. t[w + j] = s[c + (w + j)] /\ c + (w + j) = (c + w) + j
        BY <1>1, <1>2, <4>1
      <4>3. QED
        BY <4>2
    <3>2. QED
      BY <3>1
  <2>2. QED
    BY <1>2, <2>1 DEF FitsAt
<1>4. ASSUME NEW w \in found
      PROVE  c + w \in Fits(s, part, c) /\ w \in Nat
  <2>1. w \in Nat /\ w + m <= Len(t) /\ FitsAt(t, part, w)
    BY <1>1, <1>2
  <2>2. FitsAt(s, part, c + w)
    BY <1>3, <2>1
  <2>3. c + w \in c..Len(s) /\ (c + w) + m <= Len(s)
    BY <1>1, <1>2, <2>1
  <2>4. QED
    BY <2>1, <2>2, <2>3 DEF Fits, m
<1>5. ASSUME NEW k \in Fits(s, part, c)
      PROVE  k - c \in found
  <2>1. k \in c..Len(s) /\ k + m <= Len(s) /\ FitsAt(s, part, k)
    BY DEF Fits, m
  <2>2. k - c \in Nat /\ (k - c) + m <= Len(t) /\ c + (k - c) = k
    BY <1>1, <1>2, <2>1
  <2>3. FitsAt(t, part, k - c)
    BY <1>3, <2>1, <2>2
  <2>4. k - c \in 0..(Len(t) - m)
    BY <1>1, <1>2, <2>2
  <2>5. QED
    BY <2>3, <2>4
<1>6. IndexLike(t, part) = IF found = {} THEN NotFound ELSE Min(found)
  BY DEF IndexLike, m
<1>7. found \in SUBSET Nat
  BY <1>4
<1> HIDE DEF found
<1>8. ASSUME Fits(s, part, c) = {}
      PROVE  After(t, part) = Failed
  <2>1. found = {}
    BY <1>4, <1>8
  <2>2. QED
    BY <1>6, <2>1 DEF After
<1>9. ASSUME Fits(s, part, c) # {}
      PROVE  \E w \in Fits(s, part, c) :
                /\ \A k \in Fits(s, part, c) : w <= k
                /\ After(t, part) = LeftFrom(s, w + m)
  <2>1. found # {}
    BY <1>5, <1>9
  <2> DEFINE i0 == Min(found)
  <2>2. i0 \in found /\ \A y \in found : i0 <= y
    BY <1>7, <2>1, MinOfSet
  <2>3. IndexLike(t, part) = i0
    BY <1>6, <2>1
  <2> HIDE DEF i0
  <2>4. i0 \in Nat /\ c + i0 \in Fits(s, part, c)
    BY <1>4, <2>2
  <2>5. \A k \in Fits(s, part, c) : c + i0 <= k
    <3>1. ASSUME NEW k \in Fits(s, part, c)
          PROVE  c + i0 <= k
      <4>1. i0 <= k - c
        BY <1>5, <2>2
      <4>2. k \in Int
        BY <1>2 DEF Fits
      <4>3. QED
        BY <1>2, <2>4, <4>1, <4>2
    <3>2. QED
      BY <3>1
  <2>6. i0 # NotFound
    BY <2>4 DEF NotFound
  <2>7. After(t, part) = SubSeq(t, i0 + m + 1, Len(t))
    BY <1>1, <2>3, <2>6 DEF After, m
  <2>8. SubSeq(t, i0 + m + 1, Len(t)) = LeftFrom(s, c + i0 + m)
    <3> DEFINE u == SubSeq(t, i0 + m + 1, Len(t))
               v == LeftFrom(s, c + i0 + m)
    <3>1. c + i0 + m \in 0..Len(s)
      BY <1>2, <2>4 DEF Fits, m
    <3>2. /\ v \in Seq(B) /\ Len(v) = Len(s) - (c + i0 + m)
          /\ \A j \in 1..(Len(s) - (c + i0 + m)) : v[j] = s[c + i0 + m + j]
      BY <3>1, TailOfName
    <3>3. i0 + m <= Len(t)
      BY <1>1, <1>2, <2>4, <3>1
    <3>4. /\ u \in Seq(B) /\ Len(u) = Len(t) - (i0 + m)
          /\ \A j \in 1..(Len(t) - (i0 + m)) : u[j] = t[i0 + m + j]
      BY <1>1, <1>2, <2>4, <3>3
    <3>5. Len(u) = Len(v) /\ Len(u) = Len(s) - (c + i0 + m)
      BY <1>1, <1>2, <2>4, <3>2, <3>4
    <3>6. ASSUME NEW j \in 1..Len(u)
          PROVE  u[j] = v[j]
      <4>1. i0 + m + j \in 1..(Len(s) - c)
        <5> HIDE DEF u
        <5>1. j \in 1..(Len(s) - (c + i0 + m)) /\ m \in Nat
          BY <1>2, <3>5
        <5>2. QED
          BY <1>2, <2>4, <5>1
      <4>2. t[i0 + m + j] = s[c + (i0 + m + j)]
        BY <1>1, <4>1
      <4>3. c + (i0 + m + j) = c + i0 + m + j
        BY <1>2, <2>4
      <4>4. u[j] = t[i0 + m + j] /\ v[j] = s[c + i0 + m + j]
        BY <3>2, <3>4, <3>5
      <4>5. QED
        BY <4>2, <4>3, <4>4
    <3> HIDE DEF u, v
    <3>7. u = v
      BY <3>2, <3>4, <3>5, <3>6, SeqEqual
    <3>8. QED
      BY <3>7 DEF u, v
  <2>9. QED
    BY <2>4, <2>5, <2>7, <2>8
<1>10. QED
  BY <1>8, <1>9 DEF t, m

-----------------------------------------------------------------------------
\* The parts of a pattern, read up to some byte: one at least.
PartLists(B) == {parts \in Seq(Seq(B)) : parts # <<>>}

\* The part that is being read.
LastPart(parts) == parts[Len(parts)]

\* The parts are texts.
LEMMA PartsAreTexts ==
  ASSUME NEW B, NEW parts \in PartLists(B)
  PROVE  /\ Len(parts) \in Nat \ {0} /\ DOMAIN parts = 1..Len(parts)
         /\ \A k \in 1..Len(parts) : parts[k] \in Seq(B) /\ Len(parts[k]) \in Nat
         /\ LastPart(parts) \in Seq(B) /\ Len(LastPart(parts)) \in Nat
<1> DEFINE E == Seq(B)
<1>1. \A q \in E : Len(q) \in Nat
  OBVIOUS
<1> HIDE DEF E
<1>2. parts \in Seq(E) /\ parts # <<>>
  BY DEF PartLists, E
<1>3. Len(parts) \in Nat \ {0} /\ DOMAIN parts = 1..Len(parts) /\ \A k \in 1..Len(parts) : parts[k] \in E
  BY <1>2
<1>4. LastPart(parts) \in E
  BY <1>3 DEF LastPart
<1>5. QED
  BY <1>1, <1>3, <1>4 DEF E

\* What is left of a name after all parts but the last one.
Rest(s, parts) ==
  IF Len(parts[1]) <= Len(s) /\ FitsAt(s, parts[1], 0)
  THEN FoldLeft(After, LeftFrom(s, Len(parts[1])), SubSeq(parts, 2, Len(parts) - 1))
  ELSE Failed

\* Where the last part may start, and where it may end.
Starts(s, parts) ==
  IF Len(parts) = 1 THEN {0}
  ELSE IF Rest(s, parts) = Failed THEN {}
  ELSE (Len(s) - Len(Rest(s, parts)))..Len(s)

Reach(s, parts) ==
  {k \in 0..Len(s) : /\ k - Len(LastPart(parts)) \in Starts(s, parts)
                     /\ FitsAt(s, LastPart(parts), k - Len(LastPart(parts)))}

\* A search leaves something of the name, or fails.
LEMMA SearchesStay ==
  ASSUME NEW B, "failed" \notin B, NEW s \in Seq(B)
  PROVE  Searching!Closed(Tails(s) \cup {Failed}, Seq(B))
<1>1. ASSUME NEW rest \in Tails(s) \cup {Failed}, NEW part \in Seq(B)
      PROVE  After(rest, part) \in Tails(s) \cup {Failed}
  <2>1. CASE rest = Failed
    BY <2>1 DEF After
  <2>2. CASE rest \in Tails(s)
    <3>1. PICK c \in 0..Len(s) : rest = LeftFrom(s, c)
      BY <2>2 DEF Tails
    <3>2. CASE Fits(s, part, c) = {}
      BY <3>1, <3>2, SearchOnce
    <3>3. CASE Fits(s, part, c) # {}
      <4>1. PICK w \in Fits(s, part, c) : After(rest, part) = LeftFrom(s, w + Len(part))
        BY <3>1, <3>3, SearchOnce
      <4>2. w + Len(part) \in 0..Len(s)
        BY DEF Fits
      <4>3. QED
        BY <4>1, <4>2 DEF Tails
    <3>4. QED
      BY <3>2, <3>3
  <2>3. QED
    BY <2>1, <2>2
<1>2. QED
  BY <1>1 DEF Searching!Closed

\* Both loops are those of Folding.
LEMMA SameFold ==
  ASSUME NEW base, NEW seq
  PROVE  /\ FoldLeft(After, base, seq) = Searching!FoldLeft(After, base, seq)
         /\ FoldLeft(NextByte, base, seq) = Splitting!FoldLeft(NextByte, base, seq)
<1>1. FoldLeft(After, base, seq) = Searching!FoldLeft(After, base, seq)
  BY DEF FoldLeft, Searching!FoldLeft, MapThenFoldSet, Searching!MapThenFoldSet, Max, Searching!Max
<1>2. FoldLeft(NextByte, base, seq) = Splitting!FoldLeft(NextByte, base, seq)
  BY DEF FoldLeft, Splitting!FoldLeft, MapThenFoldSet, Splitting!MapThenFoldSet, Max, Splitting!Max
<1>3. QED
  BY <1>1, <1>2

\* After the first part: what is left behind it.
LEMMA RestOfFirst ==
  ASSUME NEW B, "failed" \notin B, NEW s \in Seq(B), NEW parts \in PartLists(B), Len(parts) = 2
  PROVE  Rest(s, parts) =
           IF Len(parts[1]) <= Len(s) /\ FitsAt(s, parts[1], 0) THEN LeftFrom(s, Len(parts[1]))
           ELSE Failed
<1> DEFINE t == LeftFrom(s, Len(parts[1]))
           T == Tails(s) \cup {Failed}
<1>1. SubSeq(parts, 2, Len(parts) - 1) = <<>>
  <2>1. SubSeq(parts, 2, 1) = <<>>
    OBVIOUS
  <2>2. QED
    BY <2>1
<1>2. ASSUME Len(parts[1]) <= Len(s)
      PROVE  FoldLeft(After, t, <<>>) = t
  <2>1. t \in T
    <3>1. Len(parts[1]) \in 0..Len(s)
      BY <1>2, PartsAreTexts
    <3>2. QED
      BY <3>1 DEF Tails
  <2>2. Searching!Closed(T, Seq(B))
    BY SearchesStay
  <2> HIDE DEF t, T
  <2>3. Searching!FoldLeft(After, t, <<>>) = t
    BY <2>1, <2>2, Searching!FoldNothing
  <2>4. QED
    BY <2>3, SameFold
<1>3. QED
  BY <1>1, <1>2 DEF Rest

\* After one part more: one search more.
LEMMA RestOfMore ==
  ASSUME NEW B, "failed" \notin B, NEW s \in Seq(B), NEW parts \in PartLists(B),
         Len(parts) > 1, NEW next \in Seq(B)
  PROVE  /\ Rest(s, parts) \in Tails(s) \cup {Failed}
         /\ Rest(s, Append(parts, next)) = After(Rest(s, parts), LastPart(parts))
<1> DEFINE t == LeftFrom(s, Len(parts[1]))
           T == Tails(s) \cup {Failed}
           m == Len(parts)
           mid == SubSeq(parts, 2, m - 1)
<1>1. /\ m \in Nat /\ m > 1 /\ parts[1] \in Seq(B) /\ LastPart(parts) \in Seq(B)
      /\ mid \in Seq(Seq(B))
      /\ Append(parts, next)[1] = parts[1] /\ Len(Append(parts, next)) = m + 1
  BY DEF PartLists, LastPart
<1>2. SubSeq(Append(parts, next), 2, (m + 1) - 1) = Append(mid, LastPart(parts))
  <2> DEFINE u == SubSeq(Append(parts, next), 2, m)
             v == Append(mid, LastPart(parts))
  <2>1. u \in Seq(Seq(B)) /\ Len(u) = m - 1 /\ \A j \in 1..(m - 1) : u[j] = parts[j + 1]
    BY <1>1 DEF PartLists
  <2>2. /\ Len(mid) = m - 2 /\ (m - 2) + 1 = m - 1
        /\ \A j \in 1..(m - 2) : mid[j] = parts[j + 1]
    <3>1. parts \in Seq(Seq(B)) /\ 2 \in 1..(m + 1) /\ m - 1 \in 1..m
      BY <1>1 DEF PartLists
    <3> DEFINE E == Seq(B)
    <3> HIDE DEF E
    <3>2. parts \in Seq(E)
      BY <3>1 DEF E
    <3>3. m - 1 \in Int /\ 2 \in Int /\ \A w \in 2..(m - 1) : parts[w] \in E
      BY <1>1, <3>1, <3>2
    <3>4. /\ Len(mid) = IF 2 <= m - 1 THEN (m - 1) - 2 + 1 ELSE 0
          /\ \A j \in 1..((m - 1) - 2 + 1) : mid[j] = parts[2 + j - 1]
      BY <3>3, SubSeqProperties
    <3> HIDE DEF m, mid
    <3>5. \A j \in 1..(m - 2) : j \in 1..((m - 1) - 2 + 1) /\ 2 + j - 1 = j + 1
      BY <1>1
    <3>6. QED
      BY <1>1, <3>4, <3>5
  <2>3. v \in Seq(Seq(B)) /\ Len(v) = m - 1 /\ \A j \in 1..(m - 1) : v[j] = parts[j + 1]
    <3> HIDE DEF mid
    <3>1. v \in Seq(Seq(B)) /\ Len(v) = m - 1
      BY <1>1, <2>2
    <3>2. ASSUME NEW j \in 1..(m - 1)
          PROVE  v[j] = parts[j + 1]
      <4>1. CASE j = m - 1
        BY <1>1, <2>2, <4>1 DEF LastPart
      <4>2. CASE j # m - 1
        BY <1>1, <2>2, <4>2
      <4>3. QED
        BY <4>1, <4>2
    <3>3. QED
      BY <3>1, <3>2
  <2>4. (m + 1) - 1 = m
    BY <1>1
  <2> HIDE DEF u, v
  <2>5. u = v
    BY <2>1, <2>3, SeqEqual
  <2>6. QED
    BY <2>4, <2>5 DEF u, v
<1>3. ASSUME Len(parts[1]) <= Len(s)
      PROVE  /\ FoldLeft(After, t, mid) \in T
             /\ FoldLeft(After, t, Append(mid, LastPart(parts))) =
                  After(FoldLeft(After, t, mid), LastPart(parts))
  <2>1. t \in T
    <3>1. Len(parts[1]) \in 0..Len(s)
      BY <1>1, <1>3
    <3>2. QED
      BY <3>1 DEF Tails
  <2>2. Searching!Closed(T, Seq(B))
    BY SearchesStay
  <2> DEFINE last == LastPart(parts)
  <2>3. last \in Seq(B)
    BY <1>1
  <2> HIDE DEF t, T, mid, last
  <2>4. /\ Searching!FoldLeft(After, t, mid) \in T
        /\ Searching!FoldLeft(After, t, Append(mid, last)) =
             After(Searching!FoldLeft(After, t, mid), last)
    <3>1. mid \in Seq(Seq(B))
      BY <1>1
    <3> DEFINE E == Seq(B)
    <3> HIDE DEF E
    <3>2. Searching!Closed(T, E) /\ mid \in Seq(E) /\ last \in E
      BY <2>2, <2>3, <3>1 DEF E
    <3>3. Searching!FoldLeft(After, t, mid) \in T /\ Searching!RoundMore(t, mid, last)
      BY <2>1, <3>2, Searching!FoldOneMore, Zenon
    <3>4. QED
      BY <3>3 DEF Searching!RoundMore
  <2>5. QED
    BY <2>4, SameFold DEF last
<1>4. Failed = After(Failed, LastPart(parts))
  BY DEF After
<1> HIDE DEF t, T
<1>5. QED
  BY <1>1, <1>2, <1>3, <1>4 DEF Rest, t, T

\* What is left is something of the name.
LEMMA RestIsTail ==
  ASSUME NEW B, "failed" \notin B, NEW s \in Seq(B), NEW parts \in PartLists(B),
         Len(parts) > 1, Rest(s, parts) # Failed
  PROVE  \E c \in 0..Len(s) : Rest(s, parts) = LeftFrom(s, c)
<1>1. <<>> \in Seq(B)
  OBVIOUS
<1>2. Rest(s, parts) \in Tails(s) \cup {Failed}
  BY <1>1, RestOfMore
<1>3. QED
  BY <1>2 DEF Tails

-----------------------------------------------------------------------------
\* The first part of a pattern can only start and end in one way.
LEMMA ReachOfFirst ==
  ASSUME NEW B, NEW s \in Seq(B), NEW parts \in PartLists(B), Len(parts) = 1
  PROVE  Reach(s, parts) =
           IF Len(parts[1]) <= Len(s) /\ FitsAt(s, parts[1], 0) THEN {Len(parts[1])} ELSE {}
<1> DEFINE q == parts[1]
<1>1. Len(s) \in Nat /\ Len(q) \in Nat
  BY PartsAreTexts
<1>2. Starts(s, parts) = {0} /\ LastPart(parts) = q
  BY DEF Starts, LastPart
<1> HIDE DEF q
<1>3. Reach(s, parts) = IF Len(q) <= Len(s) /\ FitsAt(s, q, 0) THEN {Len(q)} ELSE {}
  BY <1>1, <1>2 DEF Reach
<1>4. QED
  BY <1>3 DEF q

\* Of a later part: where it can end if what is left starts at c.
LEMMA ReachOfLater ==
  ASSUME NEW B, "failed" \notin B, NEW s \in Seq(B), NEW parts \in PartLists(B),
         Len(parts) > 1, NEW c \in 0..Len(s), Rest(s, parts) = LeftFrom(s, c)
  PROVE  /\ Starts(s, parts) = c..Len(s)
         /\ Reach(s, parts) = {w + Len(LastPart(parts)) : w \in Fits(s, LastPart(parts), c)}
<1> DEFINE q == LastPart(parts)
<1>1. q \in Seq(B) /\ Len(q) \in Nat /\ Len(s) \in Nat /\ Len(parts) # 1
  BY PartsAreTexts
<1>2. Starts(s, parts) = c..Len(s)
  <2>1. Rest(s, parts) # Failed /\ Len(Rest(s, parts)) = Len(s) - c
    BY TailOfName
  <2>2. Len(s) - (Len(s) - c) = c
    BY <1>1
  <2>3. QED
    BY <1>1, <2>1, <2>2 DEF Starts
<1> HIDE DEF q
<1>3. Reach(s, parts) = {k \in 0..Len(s) : k - Len(q) \in c..Len(s) /\ FitsAt(s, q, k - Len(q))}
  BY <1>2 DEF Reach, q
<1>4. Fits(s, q, c) = {w \in c..Len(s) : w + Len(q) <= Len(s) /\ FitsAt(s, q, w)}
  BY DEF Fits
<1>5. ASSUME NEW k \in Reach(s, parts)
      PROVE  k - Len(q) \in Fits(s, q, c) /\ k = (k - Len(q)) + Len(q)
  <2>1. k \in 0..Len(s) /\ k - Len(q) \in c..Len(s) /\ FitsAt(s, q, k - Len(q))
    BY <1>3
  <2>2. k = (k - Len(q)) + Len(q)
    BY <1>1, <2>1
  <2>3. QED
    BY <1>1, <1>4, <2>1, <2>2
<1>6. ASSUME NEW w \in Fits(s, q, c)
      PROVE  w + Len(q) \in Reach(s, parts)
  <2>1. w \in c..Len(s) /\ w + Len(q) <= Len(s) /\ FitsAt(s, q, w)
    BY <1>4
  <2>2. (w + Len(q)) - Len(q) = w /\ w + Len(q) \in 0..Len(s)
    BY <1>1, <2>1
  <2>3. QED
    BY <1>3, <2>1, <2>2
<1>7. Reach(s, parts) = {w + Len(q) : w \in Fits(s, q, c)}
  BY <1>5, <1>6
<1>8. QED
  BY <1>2, <1>7 DEF q

\* What SqlLike makes of the places up to a byte of the pattern.
Behind(s, S) == {k \in 0..Len(s) : \E l \in S : l <= k}

OneOn(s, S, b) == {k \in 1..Len(s) : k - 1 \in S /\ b \in {"_", s[k]}}

\* One byte more of the last part.
LEMMA ReachByByte ==
  ASSUME NEW B, "failed" \notin B, NEW s \in Seq(B), NEW parts \in PartLists(B), NEW b \in B,
         b # "%"
  PROVE  /\ NextByte(parts, b) \in PartLists(B)
         /\ Len(NextByte(parts, b)) = Len(parts)
         /\ LastPart(NextByte(parts, b)) = Append(LastPart(parts), b)
         /\ Reach(s, NextByte(parts, b)) = OneOn(s, Reach(s, parts), b)
<1> DEFINE m == Len(parts)
           q == LastPart(parts)
           more == NextByte(parts, b)
           n == Len(q)
<1>1. /\ m \in Nat \ {0} /\ parts \in Seq(Seq(B)) /\ q \in Seq(B) /\ n \in Nat /\ DOMAIN q = 1..n
      /\ Len(s) \in Nat
  BY PartsAreTexts DEF PartLists
<1>2. more = [parts EXCEPT ![m] = Append(q, b)]
  BY DEF NextByte, LastPart
<1>3. /\ more \in PartLists(B) /\ Len(more) = m /\ LastPart(more) = Append(q, b)
      /\ \A j \in 1..(m - 1) : more[j] = parts[j]
  <2> DEFINE E == Seq(B)
             z == Append(q, b)
  <2>1. z \in E
    BY <1>1
  <2> HIDE DEF q, more, n, m, E, z
  <2>2. parts \in Seq(E) /\ more = [parts EXCEPT ![m] = z] /\ Len(parts) = m
    BY <1>1, <1>2 DEF E, z, m
  <2>3. more \in Seq(E) /\ Len(more) = m
    BY <1>1, <2>1, <2>2
  <2>4. more[m] = z /\ \A j \in 1..(m - 1) : more[j] = parts[j]
    BY <1>1, <2>1, <2>2
  <2>5. more # <<>>
    BY <1>1, <2>3
  <2>6. QED
    BY <2>3, <2>4, <2>5 DEF PartLists, LastPart, E, z
<1>4. Starts(s, more) = Starts(s, parts)
  <2>1. CASE m = 1
    BY <1>3, <2>1 DEF Starts
  <2>2. CASE m # 1
    <3>1. more[1] = parts[1]
      BY <1>1, <1>3, <2>2
    <3>2. SubSeq(more, 2, m - 1) = SubSeq(parts, 2, m - 1)
      <4>1. \A j \in 2..(m - 1) : more[j] = parts[j]
        BY <1>1, <1>3
      <4>2. QED
        BY <1>1, <1>3, <2>2, <4>1 DEF PartLists
    <3>3. QED
      BY <1>3, <3>1, <3>2 DEF Starts, Rest
  <2>3. QED
    BY <2>1, <2>2
<1> DEFINE p == Append(q, b)
<1>5. p \in Seq(B) /\ Len(p) = n + 1 /\ p[n + 1] = b /\ \A j \in 1..n : p[j] = q[j]
  BY <1>1
<1>6. ASSUME NEW w \in Int
      PROVE  FitsAt(s, p, w) <=> (FitsAt(s, q, w) /\ b \in {"_", s[w + (n + 1)]})
  <2> HIDE DEF p, q, n
  <2>1. DOMAIN p = 1..(n + 1) /\ DOMAIN q = 1..n
    BY <1>1, <1>5
  <2>2. ASSUME FitsAt(s, p, w)
        PROVE  FitsAt(s, q, w) /\ b \in {"_", s[w + (n + 1)]}
    <3>1. \A j \in 1..(n + 1) : p[j] = "_" \/ s[w + j] = p[j]
      BY <2>1, <2>2 DEF FitsAt
    <3>2. p[n + 1] = "_" \/ s[w + (n + 1)] = p[n + 1]
      <4>1. n + 1 \in 1..(n + 1)
        BY <1>1
      <4>2. QED
        BY <3>1, <4>1, Zenon
    <3>3. \A j \in 1..n : q[j] = "_" \/ s[w + j] = q[j]
      <4>1. \A j \in 1..n : j \in 1..(n + 1)
        BY <1>1
      <4>2. QED
        BY <1>5, <3>1, <4>1
    <3>4. QED
      BY <1>5, <2>1, <3>2, <3>3 DEF FitsAt
  <2>3. ASSUME FitsAt(s, q, w), b \in {"_", s[w + (n + 1)]}
        PROVE  FitsAt(s, p, w)
    <3>1. ASSUME NEW j \in 1..(n + 1)
          PROVE  p[j] = "_" \/ s[w + j] = p[j]
      <4>1. CASE j = n + 1
        BY <1>5, <2>3, <4>1
      <4>2. CASE j # n + 1
        <5>1. j \in 1..n
          BY <1>1, <4>2
        <5>2. QED
          BY <1>5, <2>1, <2>3, <5>1 DEF FitsAt
      <4>3. QED
        BY <4>1, <4>2
    <3>2. QED
      BY <2>1, <3>1 DEF FitsAt
  <2>4. QED
    BY <2>2, <2>3
<1>7. Reach(s, more) = {k \in 0..Len(s) : k - (n + 1) \in Starts(s, parts) /\ FitsAt(s, p, k - (n + 1))}
  BY <1>3, <1>4, <1>5 DEF Reach
<1>8. Reach(s, parts) = {k \in 0..Len(s) : k - n \in Starts(s, parts) /\ FitsAt(s, q, k - n)}
  BY DEF Reach
<1>9. Starts(s, parts) \subseteq Nat
  <2>1. CASE m = 1
    BY <2>1 DEF Starts
  <2>2. CASE m # 1
    <3>1. m > 1
      <4>1. m \in Nat \ {0}
        BY <1>1
      <4> HIDE DEF m
      <4>2. QED
        BY <2>2, <4>1
    <3>2. CASE Rest(s, parts) = Failed
      BY <2>2, <3>2 DEF Starts
    <3>3. CASE Rest(s, parts) # Failed
      <4>1. PICK c \in 0..Len(s) : Rest(s, parts) = LeftFrom(s, c)
        BY <3>1, <3>3, RestIsTail
      <4>2. Starts(s, parts) = c..Len(s)
        BY <3>1, <4>1, ReachOfLater
      <4>3. QED
        BY <4>2
    <3>4. QED
      BY <3>2, <3>3
  <2>3. QED
    BY <2>1, <2>2
<1> HIDE DEF more, m, p, q, n
<1>10. ASSUME NEW k
       PROVE  k \in Reach(s, more) <=>
                (k \in 1..Len(s) /\ k - 1 \in Reach(s, parts) /\ b \in {"_", s[k]})
  <2>1. ASSUME k \in 1..Len(s)
        PROVE  /\ k - (n + 1) = (k - 1) - n /\ k - (n + 1) \in Int /\ k - 1 \in 0..Len(s)
               /\ (k - (n + 1)) + (n + 1) = k /\ k \in 0..Len(s)
    BY <1>1, <2>1
  <2>2. ASSUME k \in Reach(s, more)
        PROVE  k \in 1..Len(s)
    BY <1>1, <1>7, <1>9, <2>2
  <2>3. ASSUME k \in 1..Len(s)
        PROVE  FitsAt(s, p, k - (n + 1)) <=> (FitsAt(s, q, (k - 1) - n) /\ b \in {"_", s[k]})
    BY <1>6, <2>1, <2>3
  <2>4. QED
    BY <1>7, <1>8, <2>1, <2>2, <2>3
<1>11. QED
  BY <1>3, <1>10 DEF OneOn, more, m, q

\* A "%" more: what is left may be taken up anywhere behind a place where the
\* last part could end, and the search need only know the first of these.
LEMMA ReachByPercent ==
  ASSUME NEW B, "failed" \notin B, NEW s \in Seq(B), NEW parts \in PartLists(B)
  PROVE  /\ NextByte(parts, "%") \in PartLists(B)
         /\ Len(NextByte(parts, "%")) > 1
         /\ Reach(s, NextByte(parts, "%")) = Behind(s, Reach(s, parts))
<1> DEFINE m == Len(parts)
           q == LastPart(parts)
           more == Append(parts, <<>>)
           NoByteBefore == {k \in 0..Len(s) : \E l \in Reach(s, parts) : l <= k}
<1>1. /\ m \in Nat \ {0} /\ q \in Seq(B) /\ Len(q) \in Nat
      /\ Len(s) \in Nat /\ <<>> \in Seq(B) /\ Len(<<>>) = 0
  BY PartsAreTexts
<1>2. NextByte(parts, "%") = more
  BY DEF NextByte
<1>3. more \in PartLists(B) /\ Len(more) = m + 1 /\ LastPart(more) = <<>>
  <2> DEFINE E == Seq(B)
             e == <<>>
  <2> HIDE DEF E, e
  <2>1. parts \in Seq(E) /\ e \in E /\ more = Append(parts, e)
    BY <1>1 DEF PartLists, E, e
  <2> HIDE DEF more
  <2>2. more \in Seq(E) /\ Len(more) = m + 1 /\ more[m + 1] = e
    BY <1>1, <2>1
  <2> HIDE DEF m
  <2>3. more # <<>>
    BY <1>1, <2>2
  <2>4. QED
    BY <2>2, <2>3 DEF PartLists, LastPart, E, e
<1>4. ASSUME NEW c \in 0..Len(s), Rest(s, more) = LeftFrom(s, c)
      PROVE  Reach(s, more) = c..Len(s)
  <2>1. Len(more) > 1
    BY <1>1, <1>3
  <2>2. Reach(s, more) = {w + 0 : w \in Fits(s, <<>>, c)}
    <3> HIDE DEF more
    <3>1. Reach(s, more) = {w + Len(LastPart(more)) : w \in Fits(s, LastPart(more), c)}
      BY <1>3, <1>4, <2>1, ReachOfLater
    <3>2. QED
      BY <1>1, <1>3, <3>1
  <2>3. Fits(s, <<>>, c) = c..Len(s)
    BY <1>1 DEF Fits, FitsAt
  <2>4. \A w \in c..Len(s) : w + 0 = w
    OBVIOUS
  <2>5. QED
    BY <2>2, <2>3, <2>4
<1>5. ASSUME Rest(s, more) = Failed
      PROVE  Reach(s, more) = {}
  <2>1. Len(more) # 1
    BY <1>1, <1>3
  <2>2. QED
    BY <1>5, <2>1 DEF Reach, Starts
<1>6. Reach(s, more) = NoByteBefore
  <2>1. CASE m = 1
    <3>1. Len(parts) = 1 /\ Len(more) = 2 /\ parts[1] = q /\ more[1] = q
      <4>1. parts[1] = q
        BY <2>1 DEF LastPart
      <4>2. more[1] = parts[1]
        BY <1>1, <2>1 DEF PartLists
      <4>3. QED
        BY <1>3, <2>1, <4>1, <4>2
    <3>2. Reach(s, parts) = IF Len(q) <= Len(s) /\ FitsAt(s, q, 0) THEN {Len(q)} ELSE {}
      BY <3>1, ReachOfFirst
    <3>3. Rest(s, more) =
            IF Len(q) <= Len(s) /\ FitsAt(s, q, 0) THEN LeftFrom(s, Len(q)) ELSE Failed
      BY <1>3, <3>1, RestOfFirst
    <3> HIDE DEF q, more, m
    <3>4. CASE Len(q) <= Len(s) /\ FitsAt(s, q, 0)
      <4>1. Len(q) \in 0..Len(s)
        BY <1>1, <3>4
      <4>2. Reach(s, more) = Len(q)..Len(s)
        BY <1>4, <3>3, <3>4, <4>1
      <4>3. NoByteBefore = Len(q)..Len(s)
        BY <1>1, <3>2, <3>4
      <4>4. QED
        BY <4>2, <4>3
    <3>5. CASE ~(Len(q) <= Len(s) /\ FitsAt(s, q, 0))
      BY <1>5, <3>2, <3>3, <3>5
    <3>6. QED
      BY <3>4, <3>5
  <2>2. CASE m # 1
    <3>1. Len(parts) > 1
      <4>1. m \in Nat \ {0}
        BY <1>1
      <4> HIDE DEF m
      <4>2. m > 1
        BY <2>2, <4>1
      <4>3. QED
        BY <4>2 DEF m
    <3>2. Rest(s, more) = After(Rest(s, parts), q)
      <4> DEFINE e == <<>>
      <4>1. e \in Seq(B)
        BY <1>1
      <4> HIDE DEF e
      <4>2. Rest(s, Append(parts, e)) = After(Rest(s, parts), LastPart(parts))
        BY <3>1, <4>1, RestOfMore
      <4>3. QED
        BY <4>2 DEF e
    <3>3. CASE Rest(s, parts) = Failed
      <4>1. Reach(s, parts) = {}
        BY <2>2, <3>3 DEF Reach, Starts
      <4>2. Rest(s, more) = Failed
        BY <3>2, <3>3 DEF After
      <4>3. QED
        BY <1>5, <4>1, <4>2
    <3>4. CASE Rest(s, parts) # Failed
      <4>1. PICK c \in 0..Len(s) : Rest(s, parts) = LeftFrom(s, c)
        BY <3>1, <3>4, RestIsTail
      <4>2. Reach(s, parts) = {w + Len(q) : w \in Fits(s, q, c)}
        BY <3>1, <4>1, ReachOfLater
      <4> HIDE DEF q, more
      <4>3. CASE Fits(s, q, c) = {}
        <5>1. Rest(s, more) = Failed
          BY <1>1, <3>2, <4>1, <4>3, SearchOnce
        <5>2. QED
          BY <1>5, <4>2, <4>3, <5>1
      <4>4. CASE Fits(s, q, c) # {}
        <5>1. PICK w \in Fits(s, q, c) :
                /\ \A k \in Fits(s, q, c) : w <= k
                /\ After(LeftFrom(s, c), q) = LeftFrom(s, w + Len(q))
          BY <1>1, <4>4, SearchOnce
        <5>2. w \in Nat /\ w + Len(q) \in 0..Len(s)
          BY <1>1 DEF Fits
        <5>3. Reach(s, more) = (w + Len(q))..Len(s)
          BY <1>4, <3>2, <4>1, <5>1, <5>2
        <5>4. ASSUME NEW k \in 0..Len(s), NEW l \in Reach(s, parts), l <= k
              PROVE  w + Len(q) <= k
          <6>1. PICK f \in Fits(s, q, c) : l = f + Len(q)
            BY <4>2
          <6>2. w <= f /\ f \in Nat
            BY <5>1 DEF Fits
          <6>3. QED
            BY <1>1, <5>2, <5>4, <6>1, <6>2
        <5>5. w + Len(q) \in Reach(s, parts)
          BY <4>2
        <5>6. QED
          BY <1>1, <5>2, <5>3, <5>4, <5>5
      <4>5. QED
        BY <4>3, <4>4
    <3>5. QED
      BY <3>3, <3>4
  <2>3. QED
    BY <2>1, <2>2
<1>7. m + 1 > 1
  BY <1>1
<1>8. QED
  BY <1>2, <1>3, <1>6, <1>7 DEF Behind

-----------------------------------------------------------------------------
\* What strings.HasPrefix and HasSuffix compare.
BeginsWith(s, p) == Len(p) <= Len(s) /\ \A j \in 1..Len(p) : s[j] = p[j]

EndsWith(s, p) ==
  Len(p) <= Len(s) /\ \A j \in 1..Len(p) : s[Len(s) - Len(p) + j] = p[j]

\* What a prefix and a suffix are, byte by byte.
LEMMA PrefixByBytes ==
  ASSUME NEW B, NEW p \in Seq(B), NEW s \in Seq(B)
  PROVE  IsPrefix(p, s) <=> BeginsWith(s, p)
<1> DEFINE n == Len(p)
           u == SubSeq(p, 1, n)
           v == SubSeq(s, 1, n)
<1>1. n \in Nat /\ Len(s) \in Nat
  OBVIOUS
<1>2. SUFFICES ASSUME n <= Len(s)
               PROVE  u = v <=> \A j \in 1..n : s[j] = p[j]
  BY DEF IsPrefix, BeginsWith
<1>3. /\ u \in Seq(B) /\ v \in Seq(B) /\ Len(u) = n /\ Len(v) = n
      /\ \A j \in 1..n : u[j] = p[j] /\ v[j] = s[j]
  BY <1>1, <1>2
<1> HIDE DEF u, v, n
<1>4. ASSUME \A j \in 1..n : s[j] = p[j]
      PROVE  u = v
  <2>1. \A j \in 1..n : u[j] = v[j]
    BY <1>3, <1>4
  <2>2. QED
    BY <1>3, <2>1, SeqEqual
<1>5. ASSUME u = v
      PROVE  \A j \in 1..n : s[j] = p[j]
  <2>1. ASSUME NEW j \in 1..n
        PROVE  s[j] = p[j]
    BY <1>3, <1>5
  <2>2. QED
    BY <2>1
<1>6. QED
  BY <1>4, <1>5

LEMMA SuffixByBytes ==
  ASSUME NEW B, NEW q \in Seq(B), NEW t \in Seq(B)
  PROVE  IsSuffix(q, t) <=> EndsWith(t, q)
<1> DEFINE n == Len(q)
           m == Len(t)
           x == Reverse(q)
           y == Reverse(t)
<1>1. n \in Nat /\ m \in Nat
  OBVIOUS
<1>2. /\ x \in Seq(B) /\ Len(x) = n /\ \A w \in 1..n : x[w] = q[(n - w) + 1]
      /\ y \in Seq(B) /\ Len(y) = m /\ \A w \in 1..m : y[w] = t[(m - w) + 1]
  BY DEF Reverse
<1>3. IsSuffix(q, t) <=> (n <= m /\ \A w \in 1..n : y[w] = x[w])
  <2> HIDE DEF x, y, n, m
  <2>1. IsPrefix(x, y) <=> BeginsWith(y, x)
    BY <1>2, PrefixByBytes
  <2>2. QED
    BY <1>2, <2>1 DEF IsSuffix, BeginsWith, x, y
<1> HIDE DEF x, y, n, m
<1>4. SUFFICES ASSUME n <= m
               PROVE  (\A w \in 1..n : y[w] = x[w]) <=> (\A j \in 1..n : t[m - n + j] = q[j])
  BY <1>3 DEF n, m, EndsWith
<1>5. ASSUME NEW w \in 1..n
      PROVE  /\ (n - w) + 1 \in 1..n /\ (n - ((n - w) + 1)) + 1 = w
             /\ y[w] = t[m - n + ((n - w) + 1)]
             /\ x[w] = q[(n - w) + 1]
  <2>1. w \in 1..m /\ (n - w) + 1 \in 1..n /\ (n - ((n - w) + 1)) + 1 = w
    BY <1>1, <1>4
  <2>2. (m - w) + 1 = m - n + ((n - w) + 1)
    BY <1>1
  <2>3. y[w] = t[(m - w) + 1] /\ x[w] = q[(n - w) + 1]
    BY <1>2, <2>1
  <2>4. QED
    BY <2>1, <2>2, <2>3
<1>6. ASSUME \A w \in 1..n : y[w] = x[w], NEW j \in 1..n
      PROVE  t[m - n + j] = q[j]
  <2> DEFINE w == (n - j) + 1
  <2>1. w \in 1..n /\ (n - w) + 1 = j
    BY <1>5
  <2> HIDE DEF w
  <2>2. y[w] = t[m - n + j] /\ x[w] = q[j]
    BY <1>5, <2>1
  <2>3. QED
    BY <1>6, <2>1, <2>2
<1>7. ASSUME \A j \in 1..n : t[m - n + j] = q[j], NEW w \in 1..n
      PROVE  y[w] = x[w]
  BY <1>5, <1>7
<1>8. QED
  BY <1>6, <1>7

\* A pattern without "%" fits where it can end at the end of the name.
LEMMA OnePart ==
  ASSUME NEW B, NEW s \in Seq(B), NEW parts \in PartLists(B), Len(parts) = 1
  PROVE  SimpleLikeMatch(s, parts[1]) <=> Len(s) \in Reach(s, parts)
<1>1. Len(s) \in Nat /\ Len(parts[1]) \in Nat
  BY PartsAreTexts
<1>2. Reach(s, parts) =
        IF Len(parts[1]) <= Len(s) /\ FitsAt(s, parts[1], 0) THEN {Len(parts[1])} ELSE {}
  BY ReachOfFirst
<1>3. QED
  BY <1>1, <1>2 DEF SimpleLikeMatch

\* What likeMatch says of a pattern with "%" in it.
PartsMatch(s, parts) ==
  LET rest == FoldLeft(After, SubSeq(s, Len(parts[1]) + 1, Len(s)), SubSeq(parts, 2, Len(parts) - 1))
  IN  IsPrefix(parts[1], s) /\ rest # Failed /\ IsSuffix(LastPart(parts), rest)

\* Which it says only when the last part can end at the end of the name.
LEMMA MatchesReach ==
  ASSUME NEW B, "failed" \notin B, NEW s \in Seq(B), NEW parts \in PartLists(B),
         Len(parts) > 1, PartsMatch(s, parts)
  PROVE  Len(s) \in Reach(s, parts)
<1> DEFINE q == LastPart(parts)
           p == parts[1]
<1>1. p \in Seq(B) /\ Len(p) \in Nat /\ q \in Seq(B) /\ Len(q) \in Nat /\ Len(s) \in Nat
  BY PartsAreTexts
<1>2. IsPrefix(p, s) /\ BeginsWith(s, p)
  BY <1>1, PrefixByBytes DEF PartsMatch
<1>3. Len(p) <= Len(s) /\ FitsAt(s, p, 0)
  <2> HIDE DEF p
  <2>1. \A j \in 1..Len(p) : 0 + j = j
    OBVIOUS
  <2>2. DOMAIN p = 1..Len(p)
    BY <1>1
  <2>3. QED
    BY <1>2, <2>1, <2>2 DEF BeginsWith, FitsAt
<1>4. Rest(s, parts) # Failed /\ IsSuffix(q, Rest(s, parts))
  BY <1>3 DEF PartsMatch, Rest, LeftFrom
<1>5. PICK c \in 0..Len(s) : Rest(s, parts) = LeftFrom(s, c)
  BY <1>4, RestIsTail
<1> DEFINE t == LeftFrom(s, c)
           w == Len(s) - Len(q)
<1>6. /\ t \in Seq(B) /\ Len(t) = Len(s) - c
      /\ \A k \in 1..(Len(s) - c) : t[k] = s[c + k]
  BY TailOfName
<1> HIDE DEF t, q, p
<1>7. EndsWith(t, q)
  BY <1>1, <1>4, <1>5, <1>6, SuffixByBytes DEF t
<1>8. w \in c..Len(s) /\ w + Len(q) = Len(s) /\ w \in Nat
  BY <1>1, <1>6, <1>7 DEF EndsWith
<1>9. FitsAt(s, q, w)
  <2>1. ASSUME NEW j \in 1..Len(q)
        PROVE  s[w + j] = q[j]
    <3>1. Len(t) - Len(q) + j \in 1..(Len(s) - c)
      BY <1>1, <1>6, <1>8
    <3>2. c + (Len(t) - Len(q) + j) = w + j
      BY <1>1, <1>6
    <3>3. t[Len(t) - Len(q) + j] = s[w + j]
      BY <1>6, <3>1, <3>2
    <3>4. QED
      BY <1>7, <3>3 DEF EndsWith
  <2>2. DOMAIN q = 1..Len(q)
    BY <1>1
  <2>3. QED
    BY <2>1, <2>2 DEF FitsAt
<1>10. w \in Fits(s, q, c)
  BY <1>1, <1>8, <1>9 DEF Fits
<1>11. Reach(s, parts) = {k + Len(q) : k \in Fits(s, q, c)}
  BY <1>5, ReachOfLater DEF q
<1>12. QED
  BY <1>8, <1>10, <1>11

\* A "_" in the first or the last part, which likeMatch takes for a byte.
WildEdge(parts) ==
  \E k \in {1, Len(parts)} : \E j \in DOMAIN parts[k] : parts[k][j] = "_"

\* And always then, when neither the first nor the last part has a "_".
LEMMA ReachMatches ==
  ASSUME NEW B, "failed" \notin B, NEW s \in Seq(B), NEW parts \in PartLists(B),
         Len(parts) > 1, Len(s) \in Reach(s, parts),
         ~WildEdge(parts)
  PROVE  PartsMatch(s, parts)
<1> DEFINE q == LastPart(parts)
           p == parts[1]
<1>1. /\ p \in Seq(B) /\ Len(p) \in Nat /\ DOMAIN p = 1..Len(p)
      /\ q \in Seq(B) /\ Len(q) \in Nat /\ DOMAIN q = 1..Len(q)
      /\ Len(s) \in Nat /\ Len(parts) # 1
  <2>1. p \in Seq(B) /\ q \in Seq(B) /\ Len(parts) # 1
    <3>1. 1 \in 1..Len(parts)
      BY PartsAreTexts
    <3>2. Len(parts) \in Nat /\ q \in Seq(B) /\ p \in Seq(B)
      BY <3>1, PartsAreTexts, Zenon
    <3>3. Len(parts) # 1
      <4> DEFINE m == Len(parts)
      <4>1. m \in Nat /\ m > 1
        BY <3>2
      <4> HIDE DEF m
      <4>2. m # 1
        BY <4>1
      <4>3. QED
        BY <4>2 DEF m
    <3>4. QED
      BY <3>2, <3>3
  <2> HIDE DEF p, q
  <2>2. QED
    BY <2>1
<1>2. /\ \A j \in DOMAIN p : p[j] # "_"
      /\ \A j \in DOMAIN q : q[j] # "_"
  BY DEF LastPart, WildEdge
<1>3. Rest(s, parts) # Failed
  BY <1>1 DEF Reach, Starts
<1>4. Len(p) <= Len(s) /\ FitsAt(s, p, 0)
  BY <1>3 DEF Rest
<1>5. IsPrefix(p, s)
  <2> HIDE DEF p
  <2>1. \A j \in 1..Len(p) : 0 + j = j
    BY <1>1
  <2>2. BeginsWith(s, p)
    BY <1>1, <1>2, <1>4, <2>1 DEF BeginsWith, FitsAt
  <2>3. QED
    BY <1>1, <2>2, PrefixByBytes
<1>6. PICK c \in 0..Len(s) : Rest(s, parts) = LeftFrom(s, c)
  BY <1>3, RestIsTail
<1> DEFINE t == LeftFrom(s, c)
<1>7. /\ t \in Seq(B) /\ Len(t) = Len(s) - c
      /\ \A k \in 1..(Len(s) - c) : t[k] = s[c + k]
  BY TailOfName
<1>8. Reach(s, parts) = {k + Len(q) : k \in Fits(s, q, c)}
  BY <1>6, ReachOfLater
<1> HIDE DEF t, q
<1>9. PICK w \in Fits(s, q, c) : Len(s) = w + Len(q)
  BY <1>8
<1> HIDE DEF p
<1>10. w \in c..Len(s) /\ FitsAt(s, q, w) /\ w \in Nat
  BY <1>1 DEF Fits
<1>11. EndsWith(t, q)
  <2>1. Len(q) <= Len(t)
    BY <1>1, <1>7, <1>9, <1>10
  <2>2. ASSUME NEW j \in 1..Len(q)
        PROVE  t[Len(t) - Len(q) + j] = q[j]
    <3>1. Len(t) - Len(q) + j \in 1..(Len(s) - c) /\ c + (Len(t) - Len(q) + j) = w + j
      BY <1>1, <1>7, <1>9, <1>10
    <3>2. t[Len(t) - Len(q) + j] = s[w + j]
      BY <1>7, <3>1
    <3>3. s[w + j] = q[j]
      BY <1>1, <1>2, <1>10 DEF FitsAt
    <3>4. QED
      BY <3>2, <3>3
  <2>3. QED
    BY <2>1, <2>2 DEF EndsWith
<1>12. IsSuffix(q, Rest(s, parts))
  BY <1>1, <1>6, <1>7, <1>11, SuffixByBytes DEF t
<1>13. QED
  BY <1>3, <1>4, <1>5, <1>12 DEF PartsMatch, Rest, LeftFrom, p, q

\* The parts of what was read of a pattern.
LEMMA PartsSoFar ==
  ASSUME NEW B, "failed" \notin B, NEW pattern \in Seq(B)
  PROVE  \E r : /\ r[0] = << <<>> >> /\ r[Len(pattern)] = SplitAtPercent(pattern)
                /\ \A m \in 1..Len(pattern) : r[m] = NextByte(r[m - 1], pattern[m])
                /\ \A m \in 0..Len(pattern) :
                     /\ r[m] \in PartLists(B)
                     /\ Len(r[m]) = 1 => r[m][1] = SubSeq(pattern, 1, m)
<1> DEFINE base == << <<>> >>
           n == Len(pattern)
<1>1. base \in PartLists(B)
  BY DEF PartLists
<1>2. Splitting!Closed(PartLists(B), B)
  <2>1. ASSUME NEW parts \in PartLists(B), NEW b \in B
        PROVE  NextByte(parts, b) \in PartLists(B)
    <3>1. <<>> \in Seq(B)
      OBVIOUS
    <3>2. CASE b = "%"
      BY <3>1, <3>2, ReachByPercent
    <3>3. CASE b # "%"
      BY <3>1, <3>3, ReachByByte
    <3>4. QED
      BY <3>2, <3>3
  <2>2. QED
    BY <2>1 DEF Splitting!Closed
<1> HIDE DEF base
<1>3. PICK r : Splitting!IsRun(r, base, pattern)
  BY <1>1, <1>2, Splitting!FoldRounds
<1>4. /\ r[0] = base
      /\ \A m \in 1..n : r[m] = NextByte(r[m - 1], pattern[m])
      /\ r[n] = SplitAtPercent(pattern)
  BY <1>3, SameFold DEF Splitting!IsRun, SplitAtPercent, base
<1>5. n \in Nat /\ \A m \in 1..n : pattern[m] \in B
  OBVIOUS
<1> DEFINE Read(m) == /\ r[m] \in PartLists(B)
                      /\ Len(r[m]) = 1 => r[m][1] = SubSeq(pattern, 1, m)
           Done == {m \in Nat : m <= n => Read(m)}
<1>6. 0 \in Done
  <2>1. base[1] = SubSeq(pattern, 1, 0)
    BY DEF base
  <2>2. Read(0)
    BY <1>1, <1>4, <2>1
  <2>3. QED
    BY <2>2
<1>7. ASSUME NEW m \in Nat, m + 1 <= n, Read(m)
      PROVE  Read(m + 1)
  <2> DEFINE parts == r[m]
             b == pattern[m + 1]
             more == r[m + 1]
  <2>1. m + 1 \in 1..n /\ (m + 1) - 1 = m
    BY <1>5, <1>7
  <2>2. b \in B /\ more = NextByte(parts, b) /\ parts \in PartLists(B)
    BY <1>4, <1>5, <1>7, <2>1
  <2>3. more \in PartLists(B)
    BY <1>2, <2>2 DEF Splitting!Closed
  <2>4. ASSUME Len(more) = 1
        PROVE  more[1] = SubSeq(pattern, 1, m + 1)
    <3>1. pattern \in Seq(B)
      OBVIOUS
    <3>2. b # "%"
      <4> HIDE DEF parts, b, more
      <4>1. ASSUME b = "%"
            PROVE  Len(more) > 1
        BY <2>2, <3>1, <4>1, ReachByPercent, Zenon
      <4>2. QED
        BY <2>4, <4>1
    <3>3. Len(parts) = 1 /\ LastPart(more) = Append(LastPart(parts), b)
      <4> HIDE DEF parts, b, more
      <4>1. Len(more) = Len(parts) /\ LastPart(more) = Append(LastPart(parts), b)
        BY <2>2, <3>1, <3>2, ReachByByte, Zenon
      <4>2. QED
        BY <2>4, <4>1
    <3>4. more[1] = Append(SubSeq(pattern, 1, m), b)
      BY <1>7, <2>4, <3>3 DEF LastPart
    <3>5. Append(SubSeq(pattern, 1, m), pattern[m + 1]) = SubSeq(pattern, 1, m + 1)
      BY <2>1
    <3>6. QED
      BY <3>4, <3>5
  <2>5. QED
    BY <2>3, <2>4
<1>8. Done = Nat
  <2> HIDE DEF Read, n
  <2>1. ASSUME NEW m \in Done
        PROVE  m + 1 \in Done
    <3>1. m \in Nat /\ m + 1 \in Nat /\ (m + 1 <= n => m <= n)
      BY <1>5
    <3>2. m <= n => Read(m)
      BY <3>1
    <3>3. m + 1 <= n => Read(m + 1)
      BY <1>7, <3>1, <3>2, Zenon
    <3>4. QED
      BY <3>1, <3>3, Zenon
  <2>2. Done \in SUBSET Nat
    OBVIOUS
  <2> HIDE DEF Done
  <2>3. QED
    BY <1>6, <2>1, <2>2, SetInduction
<1>9. \A m \in 0..n : Read(m)
  <2> HIDE DEF Read, n
  <2>1. ASSUME NEW m \in 0..n
        PROVE  Read(m)
    <3>1. m \in Done /\ m <= n
      BY <1>5, <1>8
    <3>2. QED
      BY <3>1, Zenon
  <2>2. QED
    BY <2>1
<1>10. QED
  BY <1>4, <1>9 DEF base

\* A client that asks for some variables gets them and no others (likeMatch,
\* which answers SHOW VARIABLES LIKE): a pattern matches only the names that LIKE
\* has it match, and all of these unless a "_" before the first or after the
\* last "%" has to stand for another byte, for any names and patterns.
LEMMA LikeOfPattern ==
  ASSUME NEW B, "failed" \notin B, NEW s \in Seq(B), NEW pattern \in Seq(B)
  PROVE  LikeAgrees(s, pattern)
<1>1. PICK r : /\ r[0] = << <<>> >> /\ r[Len(pattern)] = SplitAtPercent(pattern)
               /\ \A m \in 1..Len(pattern) : r[m] = NextByte(r[m - 1], pattern[m])
               /\ \A m \in 0..Len(pattern) :
                    /\ r[m] \in PartLists(B)
                    /\ Len(r[m]) = 1 => r[m][1] = SubSeq(pattern, 1, m)
  BY PartsSoFar, Zenon
<1> DEFINE n == Len(pattern)
           parts == SplitAtPercent(pattern)
<1>2. /\ r[0] = << <<>> >> /\ r[n] = parts
      /\ \A m \in 1..n : r[m] = NextByte(r[m - 1], pattern[m])
      /\ \A m \in 0..n : /\ r[m] \in PartLists(B)
                         /\ Len(r[m]) = 1 => r[m][1] = SubSeq(pattern, 1, m)
  BY <1>1, Zenon
<1>3. n \in Nat /\ (\A m \in 1..n : pattern[m] \in B) /\ Len(s) \in Nat
  OBVIOUS
<1> DEFINE f == [j \in 0..n |-> Reach(s, r[j])]
           Round(g, j) ==
             IF j = 0 THEN {0}
             ELSE IF pattern[j] = "%" THEN Behind(s, g[j - 1])
             ELSE OneOn(s, g[j - 1], pattern[j])
           Loop(g) == g = [j \in 0..n |-> Round(g, j)]
           taken == CHOOSE g : Loop(g)
<1>4. SqlLike(s, pattern) <=> Len(s) \in taken[n]
  BY DEF SqlLike, Behind, OneOn
<1>5. Reach(s, r[0]) = {0}
  <2> DEFINE first == << <<>> >>
  <2>1. first \in PartLists(B) /\ Len(first) = 1 /\ first[1] = <<>> /\ Len(first[1]) = 0
    BY DEF PartLists
  <2>2. FitsAt(s, <<>>, 0)
    <3>1. DOMAIN <<>> = {}
      OBVIOUS
    <3>2. QED
      BY <3>1 DEF FitsAt
  <2> HIDE DEF first
  <2>3. Reach(s, first) = {0}
    BY <1>3, <2>1, <2>2, ReachOfFirst
  <2>4. QED
    BY <1>2, <2>3 DEF first
<1>6. ASSUME NEW j \in 1..n
      PROVE  Reach(s, r[j]) =
               IF pattern[j] = "%" THEN Behind(s, Reach(s, r[j - 1]))
               ELSE OneOn(s, Reach(s, r[j - 1]), pattern[j])
  <2> DEFINE p == r[j - 1]
             b == pattern[j]
  <2>1. b \in B /\ p \in PartLists(B) /\ r[j] = NextByte(p, b)
    BY <1>2, <1>3
  <2> HIDE DEF p, b
  <2>2. ASSUME b = "%"
        PROVE  Reach(s, r[j]) = Behind(s, Reach(s, p))
    BY <2>1, <2>2, ReachByPercent
  <2>3. ASSUME b # "%"
        PROVE  Reach(s, r[j]) = OneOn(s, Reach(s, p), b)
    <3>1. b \in B /\ p \in PartLists(B)
      BY <2>1
    <3>2. Reach(s, NextByte(p, b)) = OneOn(s, Reach(s, p), b)
      BY <2>3, <3>1, ReachByByte
    <3>3. QED
      BY <2>1, <3>2
  <2>4. QED
    BY <2>2, <2>3 DEF p, b
<1>7. Loop(f)
  <2>1. ASSUME NEW j \in 0..n
        PROVE  Reach(s, r[j]) = Round(f, j)
    <3>1. CASE j = 0
      BY <1>5, <3>1
    <3>2. CASE j # 0
      <4>1. j \in 1..n /\ f[j - 1] = Reach(s, r[j - 1])
        BY <1>3, <3>2
      <4> HIDE DEF f
      <4>2. QED
        BY <1>6, <3>2, <4>1
    <3>3. QED
      BY <3>1, <3>2
  <2> HIDE DEF Round
  <2>2. QED
    BY <2>1
<1>8. Loop(taken)
  <2> HIDE DEF Loop
  <2>1. QED
    BY <1>7, Zenon
<1> HIDE DEF taken, f
<1> DEFINE Done == {m \in Nat : m <= n => taken[m] = Reach(s, r[m])}
<1>9. \A j \in 0..n : taken[j] = Round(taken, j)
  <2> HIDE DEF Round
  <2>1. QED
    BY <1>8
<1>10. 0 \in Done
  <2>1. taken[0] = {0}
    BY <1>3, <1>9
  <2>2. QED
    BY <1>5, <2>1
<1>11. ASSUME NEW m \in Nat, m + 1 <= n, taken[m] = Reach(s, r[m])
       PROVE  taken[m + 1] = Reach(s, r[m + 1])
  <2>1. m + 1 \in 1..n /\ m + 1 \in 0..n /\ (m + 1) - 1 = m /\ m + 1 # 0
    BY <1>3, <1>11
  <2> DEFINE j == m + 1
  <2>2. taken[j] = IF pattern[j] = "%" THEN Behind(s, taken[m]) ELSE OneOn(s, taken[m], pattern[j])
    BY <1>9, <2>1
  <2> HIDE DEF j
  <2>3. Reach(s, r[j]) = IF pattern[j] = "%" THEN Behind(s, Reach(s, r[j - 1]))
                         ELSE OneOn(s, Reach(s, r[j - 1]), pattern[j])
    BY <1>6, <2>1 DEF j
  <2>4. j - 1 = m
    BY <2>1 DEF j
  <2>5. QED
    BY <1>11, <2>2, <2>3, <2>4 DEF j
<1>12. taken[n] = Reach(s, parts)
  <2> HIDE DEF Round, Loop, n, parts
  <2>1. ASSUME NEW m \in Done
        PROVE  m + 1 \in Done
    <3>1. m \in Nat /\ m + 1 \in Nat /\ (m + 1 <= n => m <= n)
      BY <1>3
    <3>2. m + 1 <= n => taken[m + 1] = Reach(s, r[m + 1])
      BY <1>11, <3>1
    <3>3. QED
      BY <3>1, <3>2
  <2>2. Done \in SUBSET Nat
    OBVIOUS
  <2>3. n <= n
    BY <1>3
  <2> HIDE DEF Done
  <2>4. Done = Nat
    BY <1>10, <2>1, <2>2, SetInduction
  <2>5. n \in Done
    BY <1>3, <2>4
  <2>6. QED
    BY <1>2, <2>3, <2>5 DEF Done
<1>13. SqlLike(s, pattern) <=> Len(s) \in Reach(s, parts)
  BY <1>4, <1>12
<1>14. /\ parts \in PartLists(B) /\ Len(parts) \in Nat \ {0}
       /\ Len(parts) = 1 => parts[1] = pattern
  <2>1. n \in 0..n /\ SubSeq(pattern, 1, n) = pattern
    BY <1>3
  <2> HIDE DEF parts, n
  <2>2. parts \in PartLists(B) /\ (Len(parts) = 1 => parts[1] = SubSeq(pattern, 1, n))
    BY <1>2, <2>1
  <2>3. QED
    BY <2>1, <2>2, PartsAreTexts
<1>15. Likes(s, pattern) <=>
         IF Len(parts) = 1 THEN SimpleLikeMatch(s, pattern) ELSE PartsMatch(s, parts)
  BY DEF Likes, PartsMatch, LastPart
<1>16. EdgeWildcard(pattern) <=> (Len(parts) > 1 /\ WildEdge(parts))
  BY DEF EdgeWildcard, WildEdge
<1> HIDE DEF parts
<1>17. CASE Len(parts) = 1
  BY <1>13, <1>14, <1>15, <1>17, OnePart DEF LikeAgrees
<1>18. CASE Len(parts) # 1
  <2>1. Len(parts) > 1
    <3> DEFINE m == Len(parts)
    <3>1. m \in Nat \ {0} /\ m # 1
      BY <1>14, <1>18
    <3> HIDE DEF m
    <3>2. m > 1
      BY <3>1
    <3>3. QED
      BY <3>2 DEF m
  <2>2. PartsMatch(s, parts) => Len(s) \in Reach(s, parts)
    BY <1>14, <2>1, MatchesReach
  <2>3. Len(s) \in Reach(s, parts) /\ ~WildEdge(parts) => PartsMatch(s, parts)
    BY <1>14, <2>1, ReachMatches
  <2>4. QED
    BY <1>13, <1>15, <1>16, <1>18, <2>1, <2>2, <2>3 DEF LikeAgrees
<1>19. QED
  BY <1>17, <1>18

\* Calls of likeMatch, with any name and pattern.
LikeCalls(B) == [of : {"likeMatch"}, name : Seq(B), pattern : Seq(B)]

\* Any pattern selects the variables LIKE selects (likeMatch).
THEOREM LikeOfEveryPattern ==
  ASSUME NEW B, "failed" \notin B, call \in LikeCalls(B)
  PROVE  FiltersAsLike
BY LikeOfPattern DEF LikeCalls, FiltersAsLike

-----------------------------------------------------------------------------
(* Prepared.                                                                *)

\* What is flattened, piece after piece.
FlatRun(f, A, seqs) ==
  /\ f[0] = <<>>
  /\ \A m \in 1..Len(seqs) : f[m] = f[m - 1] \o seqs[m]
  /\ \A m \in 0..Len(seqs) : f[m] \in Seq(A)
  /\ FlattenSeq(seqs) = f[Len(seqs)]

\* Flattening goes piece after piece.
LEMMA FlatRuns ==
  ASSUME NEW A, NEW seqs \in Seq(Seq(A))
  PROVE  \E f : FlatRun(f, A, seqs)
<1>1. PICK f \in [0..Len(seqs) -> Seq(A)] :
           /\ f[0] = <<>>
           /\ \A m \in 1..Len(seqs) : f[m] = f[m - 1] \o seqs[m]
           /\ FlattenSeq(seqs) = f[Len(seqs)]
  BY FlattenRounds
<1>2. QED
  BY <1>1 DEF FlatRun

\* Joining three texts from the left or from the right is the same.
Joined(s, t, u) == (s \o t) \o u = s \o (t \o u)

\* It does not matter which of three sequences are joined first.
LEMMA Joining ==
  ASSUME NEW A, NEW s \in Seq(A), NEW t \in Seq(A), NEW u \in Seq(A)
  PROVE  Joined(s, t, u)
BY ConcatAssociative DEF Joined

\* Two lists of pieces differ at p at most.
OthersAs(seqs, more, p) ==
  Len(more) = Len(seqs) /\ \A k \in 1..Len(seqs) : k # p => more[k] = seqs[k]

\* All pieces before p are made of good bytes.
BeforeIn(seqs, p, Good) == \A k \in 1..(p - 1) : seqs[k] \in Seq(Good)

\* Their texts differ in that piece, which stands behind good bytes only.
InPlace(seqs, more, p, Good, A) ==
  \E x \in Seq(Good), y \in Seq(A) :
     /\ FlattenSeq(seqs) = (x \o seqs[p]) \o y
     /\ FlattenSeq(more) = (x \o more[p]) \o y

\* Texts that differ in one piece differ in its place only, and before it stands
\* nothing but what is in a piece before it.
LEMMA OnePieceReplaced ==
  ASSUME NEW A, NEW seqs \in Seq(Seq(A)), NEW more \in Seq(Seq(A)),
         NEW p \in 1..Len(seqs), OthersAs(seqs, more, p),
         NEW Good \in SUBSET A, BeforeIn(seqs, p, Good)
  PROVE  InPlace(seqs, more, p, Good, A)
<1> DEFINE n == Len(seqs)
<1>1. n \in Nat /\ p \in Nat /\ 1 <= p /\ p <= n
  OBVIOUS
<1>2. Len(more) = n /\ \A k \in 1..n : k # p => more[k] = seqs[k]
  BY DEF OthersAs
<1>3. \A k \in 1..(p - 1) : seqs[k] \in Seq(Good)
  BY DEF BeforeIn
<1>4. \A k \in 1..n : seqs[k] \in Seq(A) /\ more[k] \in Seq(A)
  BY <1>2
<1>5. PICK f : FlatRun(f, A, seqs)
  BY FlatRuns
<1>6. PICK g : FlatRun(g, A, more)
  BY FlatRuns
<1> HIDE DEF n
<1>7. /\ f[0] = <<>> /\ g[0] = <<>>
      /\ \A m \in 1..n : f[m] = f[m - 1] \o seqs[m] /\ g[m] = g[m - 1] \o more[m]
      /\ FlattenSeq(seqs) = f[n] /\ FlattenSeq(more) = g[n]
  BY <1>5, <1>6, <1>2 DEF FlatRun, n
<1> DEFINE Ahead == {m \in Nat : m < p => f[m] = g[m] /\ f[m] \in Seq(Good)}
<1>8. f[p - 1] = g[p - 1] /\ f[p - 1] \in Seq(Good)
  <2>1. 0 \in Ahead
    <3>1. <<>> \in Seq(Good)
      OBVIOUS
    <3>2. f[0] = g[0] /\ f[0] \in Seq(Good)
      BY <1>7, <3>1
    <3>3. QED
      BY <3>2
  <2>2. ASSUME NEW m \in Ahead
        PROVE  m + 1 \in Ahead
    <3>1. SUFFICES ASSUME m + 1 < p
                   PROVE  f[m + 1] = g[m + 1] /\ f[m + 1] \in Seq(Good)
      OBVIOUS
    <3>2. m + 1 \in 1..n /\ (m + 1) - 1 = m /\ m + 1 \in 1..(p - 1) /\ m + 1 # p
      BY <1>1, <3>1
    <3>3. f[m] = g[m] /\ f[m] \in Seq(Good)
      BY <1>1, <3>1
    <3>4. f[m + 1] = f[m] \o seqs[m + 1] /\ g[m + 1] = g[m] \o more[m + 1]
      BY <1>7, <3>2
    <3>5. more[m + 1] = seqs[m + 1] /\ seqs[m + 1] \in Seq(Good)
      BY <1>2, <1>3, <3>2
    <3>6. QED
      BY <3>3, <3>4, <3>5
  <2>3. Ahead \in SUBSET Nat
    OBVIOUS
  <2> HIDE DEF Ahead
  <2>4. Ahead = Nat
    BY <2>1, <2>2, <2>3, SetInduction
  <2>5. p - 1 \in Nat /\ p - 1 < p
    BY <1>1
  <2>6. p - 1 \in Ahead
    BY <2>4, <2>5
  <2>7. QED
    BY <2>5, <2>6 DEF Ahead
<1> DEFINE x == f[p - 1]
<1>9. x \in Seq(A)
  BY <1>8, SeqMonotonic
<1>10. f[p] = x \o seqs[p] /\ g[p] = x \o more[p] /\ f[p] \in Seq(A) /\ g[p] \in Seq(A)
  <2>1. p \in 1..n
    BY <1>1
  <2>2. f[p] = x \o seqs[p] /\ g[p] = x \o more[p]
    BY <1>7, <1>8, <2>1
  <2> HIDE DEF x
  <2>3. seqs[p] \in Seq(A) /\ more[p] \in Seq(A)
    BY <1>4, <2>1
  <2>4. x \o seqs[p] \in Seq(A) /\ x \o more[p] \in Seq(A)
    BY <1>9, <2>3
  <2>5. QED
    BY <2>2, <2>4
<1> DEFINE Split(m) == \E y \in Seq(A) : f[m] = f[p] \o y /\ g[m] = g[p] \o y
           Onward == {m \in Nat : p + m <= n => Split(p + m)}
<1>11. 0 \in Onward
  <2>1. <<>> \in Seq(A) /\ f[p] = f[p] \o <<>> /\ g[p] = g[p] \o <<>> /\ p + 0 = p
    BY <1>1, <1>10
  <2>2. QED
    BY <2>1
<1>12. ASSUME NEW m \in Nat, p + (m + 1) <= n, Split(p + m)
       PROVE  Split(p + (m + 1))
  <2>1. p + (m + 1) \in 1..n /\ (p + (m + 1)) - 1 = p + m /\ p + (m + 1) # p
    BY <1>1, <1>12
  <2> DEFINE k == p + (m + 1)
             d == seqs[k]
  <2>2. PICK y \in Seq(A) : f[p + m] = f[p] \o y /\ g[p + m] = g[p] \o y
    BY <1>12
  <2>3. d \in Seq(A) /\ more[k] = d
    BY <1>4, <1>2, <2>1
  <2>4. f[k] = f[p + m] \o d /\ g[k] = g[p + m] \o d
    BY <1>7, <2>1, <2>3
  <2> HIDE DEF d
  <2>5. /\ (f[p] \o y) \o d = f[p] \o (y \o d)
        /\ (g[p] \o y) \o d = g[p] \o (y \o d)
        /\ y \o d \in Seq(A)
    <3>1. y \o d \in Seq(A)
      BY <2>3
    <3>2. f[p] \in Seq(A) /\ g[p] \in Seq(A) /\ d \in Seq(A)
      BY <1>10, <2>3
    <3>3. Joined(f[p], y, d) /\ Joined(g[p], y, d)
      BY <3>2, Joining, Zenon
    <3>4. QED
      BY <3>1, <3>3 DEF Joined
  <2> HIDE DEF k
  <2>6. f[k] = f[p] \o (y \o d) /\ g[k] = g[p] \o (y \o d)
    BY <2>2, <2>4, <2>5
  <2>7. Split(k)
    BY <2>5, <2>6
  <2>8. QED
    BY <2>7 DEF k
<1>13. Split(n)
  <2> HIDE DEF Split
  <2>1. ASSUME NEW m \in Onward
        PROVE  m + 1 \in Onward
    <3>1. m \in Nat /\ m + 1 \in Nat /\ (p + (m + 1) <= n => p + m <= n)
      BY <1>1
    <3>2. p + (m + 1) <= n => Split(p + (m + 1))
      BY <1>12, <3>1
    <3>3. QED
      BY <3>1, <3>2
  <2>2. Onward \in SUBSET Nat
    OBVIOUS
  <2> HIDE DEF Onward
  <2>3. Onward = Nat
    BY <1>11, <2>1, <2>2, SetInduction
  <2>4. n - p \in Nat /\ p + (n - p) = n /\ n <= n
    BY <1>1
  <2>5. n - p \in Onward
    BY <2>3, <2>4
  <2>6. QED
    BY <2>4, <2>5 DEF Onward
<1>14. PICK y \in Seq(A) : f[n] = f[p] \o y /\ g[n] = g[p] \o y
  BY <1>13
<1> HIDE DEF x
<1>15. QED
  BY <1>7, <1>8, <1>10, <1>14 DEF InPlace, x

\* A text is its bytes, one after the other.
LEMMA BytesFlattened ==
  ASSUME NEW A, NEW s \in Seq(A)
  PROVE  FlattenSeq([k \in DOMAIN s |-> <<s[k]>>]) = s
<1> DEFINE n == Len(s)
           seqs == [k \in DOMAIN s |-> <<s[k]>>]
<1>1. n \in Nat /\ DOMAIN s = 1..n /\ \A k \in 1..n : s[k] \in A
  OBVIOUS
<1>2. seqs \in Seq(Seq(A)) /\ Len(seqs) = n /\ \A k \in 1..n : seqs[k] = <<s[k]>>
  <2>1. \A k \in 1..n : <<s[k]>> \in Seq(A)
    BY <1>1
  <2>2. seqs \in [1..n -> Seq(A)]
    BY <1>1, <2>1
  <2>3. \A k \in 1..n : seqs[k] = <<s[k]>>
    BY <1>1
  <2> HIDE DEF seqs, n
  <2>4. QED
    BY <1>1, <2>2, <2>3, FunctionIsSequence
<1> HIDE DEF seqs
<1>3. PICK f : FlatRun(f, A, seqs)
  BY <1>2, FlatRuns
<1> DEFINE Done == {m \in Nat : m <= n => f[m] = SubSeq(s, 1, m)}
<1>4. 0 \in Done
  <2>1. SubSeq(s, 1, 0) = <<>>
    OBVIOUS
  <2>2. QED
    BY <1>3, <2>1 DEF FlatRun
<1>5. ASSUME NEW m \in Done
      PROVE  m + 1 \in Done
  <2>1. SUFFICES ASSUME m + 1 <= n
                 PROVE  f[m + 1] = SubSeq(s, 1, m + 1)
    OBVIOUS
  <2>2. m + 1 \in 1..n /\ (m + 1) - 1 = m /\ m <= n
    BY <1>1, <2>1
  <2>3. f[m + 1] = f[m] \o seqs[m + 1]
    BY <1>2, <1>3, <2>2 DEF FlatRun
  <2>4. f[m] = SubSeq(s, 1, m)
    BY <1>1, <2>2
  <2>5. SubSeq(s, 1, m) \o <<s[m + 1]>> = SubSeq(s, 1, m + 1)
    BY <1>1, <2>2
  <2>6. QED
    BY <1>2, <2>2, <2>3, <2>4, <2>5
<1>6. n \in Done
  <2>1. Done \in SUBSET Nat
    OBVIOUS
  <2> HIDE DEF Done
  <2>2. QED
    BY <1>1, <1>4, <1>5, <2>1, SetInduction
<1>7. f[n] = SubSeq(s, 1, n)
  BY <1>1, <1>6
<1>8. SubSeq(s, 1, n) = s
  OBVIOUS
<1>9. FlattenSeq(seqs) = s
  BY <1>2, <1>3, <1>7, <1>8 DEF FlatRun
<1>10. QED
  BY <1>9 DEF seqs

-----------------------------------------------------------------------------
\* The number of a placeholder.
Number(query, k) == Cardinality({j \in Marks(query) : j <= k})

\* The numbers count the placeholders up.
LEMMA NumberOneMore ==
  ASSUME NEW B, NEW query \in Seq(B), NEW k \in 1..Len(query)
  PROVE  /\ Number(query, k) \in Nat /\ Number(query, k - 1) \in Nat
         /\ Number(query, k) = Number(query, k - 1) + IF query[k] = "?" THEN 1 ELSE 0
<1> DEFINE Q == Marks(query)
<1>1. k \in Nat \ {0} /\ DOMAIN query = 1..Len(query) /\ Len(query) \in Nat
  OBVIOUS
<1>2. Q \in SUBSET (1..Len(query)) /\ (k \in Q <=> query[k] = "?")
  BY <1>1 DEF Marks
<1> HIDE DEF Q
<1>3. /\ {j \in Q : j <= k} = Q \cap (1..k)
      /\ {j \in Q : j <= k - 1} = Q \cap (1..(k - 1))
  <2>1. \A j \in Q : j \in Nat /\ 1 <= j
    BY <1>2
  <2>2. {j \in Q : j <= k} = Q \cap (1..k)
    BY <1>1, <2>1
  <2>3. {j \in Q : j <= k - 1} = Q \cap (1..(k - 1))
    BY <1>1, <2>1
  <2>4. QED
    BY <2>2, <2>3
<1>4. /\ Cardinality(Q \cap (1..k)) \in Nat /\ Cardinality(Q \cap (1..(k - 1))) \in Nat
      /\ Cardinality(Q \cap (1..k)) =
           Cardinality(Q \cap (1..(k - 1))) + IF k \in Q THEN 1 ELSE 0
  BY <1>1, OneMore
<1>5. QED
  BY <1>2, <1>3, <1>4 DEF Number, Q

\* They do not go down.
LEMMA NumbersGrow ==
  ASSUME NEW B, NEW query \in Seq(B), NEW k \in 0..Len(query), NEW l \in 0..Len(query), k <= l
  PROVE  Number(query, k) \in Nat /\ Number(query, l) \in Nat /\ Number(query, k) <= Number(query, l)
<1> DEFINE Q == Marks(query)
           K == {j \in Q : j <= k}
           L == {j \in Q : j <= l}
           n == Len(query)
<1>1. n \in Nat /\ Q \in SUBSET (1..n) /\ K \subseteq L /\ K \in SUBSET (1..n) /\ L \in SUBSET (1..n)
  BY DEF Marks
<1> HIDE DEF K, L, n
<1>2. IsFiniteSet(K) /\ IsFiniteSet(L) /\ Cardinality(K) \in Nat /\ Cardinality(L) \in Nat
  BY <1>1, PartSize
<1>3. Cardinality(K) <= Cardinality(L)
  BY <1>1, <1>2, FS_Subset
<1>4. QED
  BY <1>2, <1>3 DEF Number, K, L

\* No placeholder is before the first byte, and all are up to the last.
LEMMA NumbersAtEnds ==
  ASSUME NEW B, NEW query \in Seq(B)
  PROVE  Number(query, 0) = 0 /\ Number(query, Len(query)) = ParamCount(query)
<1>1. Marks(query) \in SUBSET (1..Len(query)) /\ Len(query) \in Nat
  BY DEF Marks
<1>2. {j \in Marks(query) : j <= 0} = {} /\ {j \in Marks(query) : j <= Len(query)} = Marks(query)
  BY <1>1
<1>3. QED
  BY <1>2, FS_EmptySet DEF Number, ParamCount

\* Every number up to the last is that of a placeholder.
LEMMA EveryNumber ==
  ASSUME NEW B, NEW query \in Seq(B), NEW m \in Nat, m < ParamCount(query)
  PROVE  \E p \in 1..Len(query) :
           /\ query[p] = "?" /\ Number(query, p) = m + 1 /\ Number(query, p - 1) = m
<1> DEFINE n == Len(query)
           K == {k \in 0..n : Number(query, k) > m}
           p == Min(K)
<1>1. n \in Nat /\ n \in 0..n /\ ParamCount(query) = Number(query, n)
  BY NumbersAtEnds
<1>2. n \in K /\ K \in SUBSET Nat
  BY <1>1
<1>3. p \in K /\ \A k \in K : p <= k
  <2> HIDE DEF K
  <2>1. K # {}
    BY <1>2
  <2>2. QED
    BY <1>2, <2>1, MinOfSet
<1> HIDE DEF p
<1>4. p \in 0..n /\ Number(query, p) > m
  BY <1>3
<1>5. p # 0
  BY <1>4, NumbersAtEnds
<1>6. p \in 1..n /\ p - 1 \in 0..n /\ ~(p <= p - 1)
  BY <1>1, <1>4, <1>5
<1>7. ~(Number(query, p - 1) > m)
  BY <1>3, <1>6
<1>8. /\ Number(query, p) \in Nat /\ Number(query, p - 1) \in Nat
      /\ Number(query, p) = Number(query, p - 1) + IF query[p] = "?" THEN 1 ELSE 0
  BY <1>6, NumberOneMore
<1>9. QED
  BY <1>4, <1>6, <1>7, <1>8

-----------------------------------------------------------------------------
\* Quoting adds nothing but quotes.
LEMMA QuoteIsText ==
  ASSUME NEW C, "'" \in C, NEW s \in Seq(C)
  PROVE  Quote(s) \in Seq(C)
<1> DEFINE n == Len(s)
           seqs == [k \in DOMAIN s |-> IF s[k] = "'" THEN <<"'", "'">> ELSE <<s[k]>>]
<1>1. n \in Nat /\ DOMAIN s = 1..n /\ \A k \in 1..n : s[k] \in C
  OBVIOUS
<1>2. seqs \in Seq(Seq(C))
  <2>1. \A k \in 1..n : <<"'", "'">> \in Seq(C) /\ <<s[k]>> \in Seq(C)
    BY <1>1
  <2>2. seqs \in [1..n -> Seq(C)]
    BY <1>1, <2>1
  <2> HIDE DEF seqs, n
  <2>3. QED
    BY <1>1, <2>2, FunctionIsSequence
<1> HIDE DEF seqs
<1>3. FlattenSeq(seqs) \in Seq(C)
  <2>1. PICK f : FlatRun(f, C, seqs)
    BY <1>2, FlatRuns
  <2>2. Len(seqs) \in 0..Len(seqs)
    BY <1>2
  <2>3. QED
    BY <2>1, <2>2 DEF FlatRun
<1>4. Quote(s) = <<"'">> \o FlattenSeq(seqs) \o <<"'">>
  BY DEF Quote, seqs
<1> DEFINE flat == FlattenSeq(seqs)
<1> HIDE DEF flat
<1>5. <<"'">> \o flat \o <<"'">> \in Seq(C)
  BY <1>3 DEF flat
<1>6. QED
  BY <1>4, <1>5 DEF flat

\* The arguments a client can send.
ArgumentsOf(B) == [quoted : BOOLEAN, text : Seq(B)]

\* A literal is a text, without a question mark if the argument has none.
LEMMA LiteralIsText ==
  ASSUME NEW B, "'" \in B, NEW arg \in ArgumentsOf(B)
  PROVE  /\ LiteralFor(arg) \in Seq(B)
         /\ ~Has(arg.text, "?") => LiteralFor(arg) \in Seq(B \ {"?"})
<1> DEFINE s == arg.text
           C == B \ {"?"}
<1>1. s \in Seq(B)
  BY DEF ArgumentsOf
<1> HIDE DEF s, C
<1>2. LiteralFor(arg) = IF arg.quoted THEN Quote(s) ELSE s
  BY DEF LiteralFor, s
<1>3. LiteralFor(arg) \in Seq(B)
  BY <1>1, <1>2, QuoteIsText
<1>4. ASSUME ~Has(s, "?")
      PROVE  LiteralFor(arg) \in Seq(C)
  <2>1. s \in Seq(C)
    <3>1. Len(s) \in Nat /\ DOMAIN s = 1..Len(s) /\ s = [k \in 1..Len(s) |-> s[k]]
      BY <1>1
    <3>2. \A k \in 1..Len(s) : s[k] \in C
      BY <1>1, <1>4, <3>1 DEF Has, C
    <3>3. s \in [1..Len(s) -> C]
      BY <3>1, <3>2
    <3>4. QED
      BY <3>1, <3>3, FunctionIsSequence
  <2>2. "'" \in C
    BY DEF C
  <2>3. QED
    BY <1>2, <2>1, <2>2, QuoteIsText
<1>5. QED
  BY <1>3, <1>4 DEF s, C

\* A literal is put where the first placeholder is.
LEMMA PutAtFirst ==
  ASSUME NEW B, NEW x \in Seq(B \ {"?"}), NEW y \in Seq(B), "?" \in B, NEW arg
  PROVE  PutFirst((x \o <<"?">>) \o y, arg) = (x \o LiteralFor(arg)) \o y
<1> DEFINE w == (x \o <<"?">>) \o y
           n == Len(x)
<1>1. n \in Nat /\ Len(y) \in Nat /\ x \in Seq(B) /\ \A k \in 1..n : x[k] # "?"
  <2>1. x \in Seq(B)
    BY SeqMonotonic
  <2>2. QED
    BY <2>1
<1>2. /\ w \in Seq(B) /\ Len(w) = n + 1 + Len(y) /\ w[n + 1] = "?"
      /\ \A k \in 1..n : w[k] = x[k]
      /\ \A k \in 1..Len(y) : w[n + 1 + k] = y[k]
  <2> DEFINE z == x \o <<"?">>
  <2>1. /\ z \in Seq(B) /\ Len(z) = n + 1 /\ z[n + 1] = "?"
        /\ \A k \in 1..n : z[k] = x[k]
    BY <1>1
  <2> HIDE DEF z, n
  <2>2. /\ w \in Seq(B) /\ Len(w) = n + 1 + Len(y)
        /\ \A k \in 1..(n + 1) : w[k] = z[k]
        /\ \A k \in 1..Len(y) : w[n + 1 + k] = y[k]
    BY <1>1, <2>1 DEF z
  <2> HIDE DEF w
  <2>3. n + 1 \in 1..(n + 1) /\ \A k \in 1..n : k \in 1..(n + 1)
    BY <1>1
  <2>4. QED
    BY <2>1, <2>2, <2>3
<1> HIDE DEF w, n
<1>3. n + 1 \in Marks(w) /\ Marks(w) \in SUBSET Nat
  BY <1>1, <1>2 DEF Marks
<1>4. \A k \in Marks(w) : n + 1 <= k
  BY <1>1, <1>2 DEF Marks
<1>5. Min(Marks(w)) = n + 1
  <2>1. Min(Marks(w)) \in Marks(w) /\ Min(Marks(w)) <= n + 1
    BY <1>3, MinOfSet
  <2>2. QED
    BY <1>1, <1>3, <1>4, <2>1
<1>6. SubSeq(w, 1, (n + 1) - 1) = x
  <2> DEFINE u == SubSeq(w, 1, n)
  <2>1. (n + 1) - 1 = n
    BY <1>1
  <2>2. u \in Seq(B) /\ Len(u) = n /\ \A k \in 1..n : u[k] = w[k]
    BY <1>1, <1>2
  <2> HIDE DEF u
  <2>3. \A k \in 1..n : u[k] = x[k]
    BY <1>2, <2>2
  <2>4. u = x
    BY <1>1, <2>2, <2>3, SeqEqual DEF n
  <2>5. QED
    BY <2>1, <2>4 DEF u
<1>7. SubSeq(w, (n + 1) + 1, Len(w)) = y
  <2> DEFINE u == SubSeq(w, (n + 1) + 1, Len(w))
  <2>1. u \in Seq(B) /\ Len(u) = Len(y) /\ \A k \in 1..Len(y) : u[k] = w[n + 1 + k]
    BY <1>1, <1>2
  <2> HIDE DEF u
  <2>2. \A k \in 1..Len(y) : u[k] = y[k]
    BY <1>2, <2>1
  <2>3. u = y
    BY <2>1, <2>2, SeqEqual
  <2>4. QED
    BY <2>3 DEF u
<1>8. PutFirst(w, arg) = x \o LiteralFor(arg) \o y
  BY <1>3, <1>5, <1>6, <1>7 DEF PutFirst
<1>9. QED
  BY <1>8 DEF w

\* Putting a literal in leaves a text.
LEMMA PutFirstIsText ==
  ASSUME NEW B, "'" \in B, NEW query \in Seq(B), NEW arg \in ArgumentsOf(B)
  PROVE  PutFirst(query, arg) \in Seq(B)
<1> DEFINE k == Min(Marks(query))
           lit == LiteralFor(arg)
<1>1. SUFFICES ASSUME Marks(query) # {}
               PROVE  SubSeq(query, 1, k - 1) \o lit \o SubSeq(query, k + 1, Len(query)) \in Seq(B)
  BY DEF PutFirst
<1>2. Marks(query) \in SUBSET (1..Len(query)) /\ Marks(query) \in SUBSET Nat
  BY DEF Marks
<1>3. k \in 1..Len(query)
  BY <1>1, <1>2, MinOfSet
<1>4. lit \in Seq(B)
  BY LiteralIsText
<1> HIDE DEF k, lit
<1>5. SubSeq(query, 1, k - 1) \in Seq(B) /\ SubSeq(query, k + 1, Len(query)) \in Seq(B)
  BY <1>3
<1>6. QED
  BY <1>4, <1>5

\* The statement with the first m placeholders replaced, in pieces.
Pieces(query, args, m) ==
  [k \in DOMAIN query |->
     IF query[k] = "?" /\ Number(query, k) <= m THEN LiteralFor(args[Number(query, k)])
     ELSE <<query[k]>>]

\* The pieces are texts, one for each byte of the statement.
LEMMA PiecesAreTexts ==
  ASSUME NEW B, "'" \in B, NEW query \in Seq(B), NEW args \in Seq(ArgumentsOf(B)),
         NEW m \in 0..Len(args)
  PROVE  /\ Pieces(query, args, m) \in Seq(Seq(B))
         /\ Len(Pieces(query, args, m)) = Len(query)
<1> DEFINE n == Len(query)
<1>1. n \in Nat /\ DOMAIN query = 1..n /\ \A k \in 1..n : query[k] \in B
  OBVIOUS
<1>2. ASSUME NEW k \in 1..n, query[k] = "?", Number(query, k) <= m
      PROVE  LiteralFor(args[Number(query, k)]) \in Seq(B)
  <2>1. Number(query, k) \in Nat /\ Number(query, k) # 0
    <3>1. Number(query, k) \in Nat /\ Number(query, k - 1) \in Nat
          /\ Number(query, k) = Number(query, k - 1) + 1
      BY <1>2, NumberOneMore
    <3>2. QED
      BY <3>1
  <2>2. Number(query, k) \in 1..Len(args)
    BY <1>2, <2>1
  <2> DEFINE arg == args[Number(query, k)]
  <2>3. arg \in ArgumentsOf(B)
    BY <2>2
  <2> HIDE DEF arg
  <2>4. LiteralFor(arg) \in Seq(B)
    BY <2>3, LiteralIsText
  <2>5. QED
    BY <2>4 DEF arg
<1>3. \A k \in 1..n : <<query[k]>> \in Seq(B)
  BY <1>1
<1>4. Pieces(query, args, m) \in [1..n -> Seq(B)]
  BY <1>1, <1>2, <1>3 DEF Pieces
<1> HIDE DEF n
<1>5. QED
  BY <1>1, <1>4, FunctionIsSequence DEF n

\* The search finds the placeholder the next argument is for, as none of those
\* put in before it has a question mark.
LEMMA PutNext ==
  ASSUME NEW B, "'" \in B, NEW query \in Seq(B), NEW args \in Seq(ArgumentsOf(B)),
         Len(args) = ParamCount(query),
         \A k \in 1..(Len(args) - 1) : ~Has(args[k].text, "?"),
         NEW m \in Nat, m < Len(args)
  PROVE  PutFirst(FlattenSeq(Pieces(query, args, m)), args[m + 1]) =
           FlattenSeq(Pieces(query, args, m + 1))
<1> DEFINE n == Len(query)
           seqs == Pieces(query, args, m)
           more == Pieces(query, args, m + 1)
           Good == B \ {"?"}
           lit == LiteralFor(args[m + 1])
<1>1. n \in Nat /\ DOMAIN query = 1..n /\ \A k \in 1..n : query[k] \in B
  OBVIOUS
<1>2. PICK p \in 1..n :
        query[p] = "?" /\ Number(query, p) = m + 1 /\ Number(query, p - 1) = m
  BY EveryNumber
<1>3. /\ seqs \in Seq(Seq(B)) /\ Len(seqs) = n
      /\ more \in Seq(Seq(B)) /\ Len(more) = n
  <2>1. m \in 0..Len(args) /\ m + 1 \in 0..Len(args)
    OBVIOUS
  <2>2. QED
    BY <2>1, PiecesAreTexts
<1>4. seqs[p] = <<"?">> /\ more[p] = lit
  <2>1. ~(Number(query, p) <= m) /\ Number(query, p) <= m + 1
    BY <1>2
  <2>2. QED
    BY <1>1, <1>2, <2>1 DEF Pieces
<1>5. ASSUME NEW k \in 1..n, k < p
      PROVE  more[k] = seqs[k] /\ seqs[k] \in Seq(Good)
  <2>1. Number(query, k) \in Nat /\ Number(query, k) <= m
    <3>1. k \in 0..n /\ p - 1 \in 0..n /\ k <= p - 1
      BY <1>1, <1>5
    <3>2. QED
      BY <1>2, <3>1, NumbersGrow
  <2>2. Number(query, k) <= m + 1
    BY <2>1
  <2>3. more[k] = seqs[k]
    BY <1>1, <2>1, <2>2 DEF Pieces
  <2>4. CASE query[k] = "?"
    <3> DEFINE j == Number(query, k)
    <3>1. j # 0
      <4>1. Number(query, k - 1) \in Nat /\ Number(query, k) = Number(query, k - 1) + 1
        BY <2>4, NumberOneMore
      <4>2. QED
        BY <4>1
    <3>2. seqs[k] = LiteralFor(args[j])
      BY <1>1, <2>1, <2>4 DEF Pieces
    <3> HIDE DEF j
    <3>3. j \in 1..(Len(args) - 1) /\ j \in 1..Len(args)
      BY <2>1, <3>1 DEF j
    <3>4. args[j] \in ArgumentsOf(B) /\ ~Has(args[j].text, "?")
      BY <3>3
    <3> DEFINE arg == args[j]
    <3> HIDE DEF arg
    <3>5. LiteralFor(arg) \in Seq(Good)
      BY <3>4, LiteralIsText DEF arg
    <3>6. QED
      BY <2>3, <3>2, <3>5 DEF arg
  <2>5. CASE query[k] # "?"
    <3>1. seqs[k] = <<query[k]>>
      BY <1>1, <2>5 DEF Pieces
    <3>2. query[k] \in Good
      BY <1>1, <2>5
    <3> HIDE DEF Good
    <3>3. QED
      BY <2>3, <3>1, <3>2
  <2>6. QED
    BY <2>3, <2>4, <2>5
<1>6. ASSUME NEW k \in 1..n, p < k
      PROVE  more[k] = seqs[k]
  <2>1. CASE query[k] = "?"
    <3>1. /\ Number(query, k) \in Nat /\ Number(query, k - 1) \in Nat
          /\ Number(query, k) = Number(query, k - 1) + 1
      BY <2>1, NumberOneMore
    <3>2. Number(query, p) <= Number(query, k - 1)
      <4>1. p \in 0..n /\ k - 1 \in 0..n /\ p <= k - 1
        BY <1>1, <1>6
      <4>2. QED
        BY <4>1, NumbersGrow
    <3>3. ~(Number(query, k) <= m) /\ ~(Number(query, k) <= m + 1)
      BY <1>2, <3>1, <3>2
    <3>4. QED
      BY <1>1, <3>3 DEF Pieces
  <2>2. CASE query[k] # "?"
    BY <1>1, <2>2 DEF Pieces
  <2>3. QED
    BY <2>1, <2>2
<1>7. \E x \in Seq(Good), y \in Seq(B) :
        /\ FlattenSeq(seqs) = (x \o seqs[p]) \o y
        /\ FlattenSeq(more) = (x \o more[p]) \o y
  <2> HIDE DEF seqs, more, n
  <2>1. OthersAs(seqs, more, p)
    BY <1>1, <1>3, <1>5, <1>6 DEF OthersAs
  <2>2. BeforeIn(seqs, p, Good)
    BY <1>1, <1>5 DEF BeforeIn
  <2>3. Good \in SUBSET B /\ p \in 1..Len(seqs)
    BY <1>3
  <2> HIDE DEF Good
  <2>4. InPlace(seqs, more, p, Good, B)
    BY <1>3, <2>1, <2>2, <2>3, OnePieceReplaced
  <2>5. QED
    BY <2>4 DEF InPlace
<1> HIDE DEF seqs, more, lit
<1>8. PICK x \in Seq(Good), y \in Seq(B) :
        /\ FlattenSeq(seqs) = (x \o <<"?">>) \o y
        /\ FlattenSeq(more) = (x \o lit) \o y
  BY <1>4, <1>7
<1>9. "?" \in B
  BY <1>1, <1>2
<1>10. PutFirst((x \o <<"?">>) \o y, args[m + 1]) = (x \o LiteralFor(args[m + 1])) \o y
  BY <1>9, PutAtFirst
<1>11. QED
  BY <1>8, <1>10 DEF seqs, more, lit

\* The loop of interpolate.
Putting == INSTANCE Folding WITH Op <- PutFirst

\* All arguments arrive where they belong.
LEMMA PutInOrder ==
  ASSUME NEW B, "'" \in B, NEW query \in Seq(B), NEW args \in Seq(ArgumentsOf(B)),
         Len(args) = ParamCount(query),
         \A k \in 1..(Len(args) - 1) : ~Has(args[k].text, "?")
  PROVE  Interpolate(query, args) = AllAtOnce(query, args)
<1> DEFINE n == Len(args)
           Text(m) == FlattenSeq(Pieces(query, args, m))
<1>1. n \in Nat /\ \A k \in 1..n : args[k] \in ArgumentsOf(B)
  OBVIOUS
<1>2. FoldLeft(PutFirst, query, args) = Putting!FoldLeft(PutFirst, query, args)
  BY DEF FoldLeft, Putting!FoldLeft, MapThenFoldSet, Putting!MapThenFoldSet, Max, Putting!Max
<1>3. Putting!Closed(Seq(B), ArgumentsOf(B))
  BY PutFirstIsText DEF Putting!Closed
<1>4. PICK r : Putting!IsRun(r, query, args)
  <2> DEFINE T == Seq(B)
             E == ArgumentsOf(B)
  <2>1. query \in T /\ args \in Seq(E) /\ Putting!Closed(T, E)
    BY <1>3
  <2> HIDE DEF T, E
  <2>2. QED
    BY <2>1, Putting!FoldRounds
<1>5. /\ r[0] = query
      /\ \A m \in 1..n : r[m] = PutFirst(r[m - 1], args[m])
      /\ FoldLeft(PutFirst, query, args) = r[n]
  BY <1>2, <1>4 DEF Putting!IsRun
<1>6. Text(0) = query
  <2>1. Pieces(query, args, 0) = [k \in DOMAIN query |-> <<query[k]>>]
    <3>1. ASSUME NEW k \in DOMAIN query, query[k] = "?"
          PROVE  ~(Number(query, k) <= 0)
      <4>1. k \in 1..Len(query)
        OBVIOUS
      <4>2. Number(query, k - 1) \in Nat /\ Number(query, k) = Number(query, k - 1) + 1
        BY <3>1, <4>1, NumberOneMore
      <4>3. QED
        BY <4>2
    <3>2. QED
      BY <3>1 DEF Pieces
  <2>2. QED
    BY <2>1, BytesFlattened
<1>7. Text(n) = AllAtOnce(query, args)
  <2> DEFINE all == [k \in DOMAIN query |->
                       IF query[k] = "?" THEN LiteralFor(args[Number(query, k)])
                       ELSE <<query[k]>>]
  <2>1. \A k \in DOMAIN query : Number(query, k) <= n
    <3>1. ASSUME NEW k \in DOMAIN query
          PROVE  Number(query, k) <= n
      <4>1. k \in 0..Len(query) /\ Len(query) \in 0..Len(query) /\ k <= Len(query)
        OBVIOUS
      <4>2. QED
        BY <4>1, NumbersGrow, NumbersAtEnds
    <3>2. QED
      BY <3>1
  <2>2. Pieces(query, args, n) = all
    BY <2>1 DEF Pieces
  <2>3. AllAtOnce(query, args) = FlattenSeq(all)
    BY DEF AllAtOnce, Number
  <2> HIDE DEF all
  <2>4. QED
    BY <2>2, <2>3
<1> DEFINE Done == {m \in Nat : m <= n => r[m] = Text(m)}
<1> HIDE DEF Text
<1>8. 0 \in Done
  BY <1>5, <1>6
<1>9. ASSUME NEW m \in Done
      PROVE  m + 1 \in Done
  <2>1. SUFFICES ASSUME m + 1 <= n
                 PROVE  r[m + 1] = Text(m + 1)
    <3>1. m + 1 \in Nat
      OBVIOUS
    <3>2. QED
      BY <3>1
  <2>2. m \in Nat /\ m < n /\ m + 1 \in 1..n /\ (m + 1) - 1 = m /\ m <= n
    BY <1>1, <2>1
  <2>3. r[m + 1] = PutFirst(r[m], args[m + 1]) /\ r[m] = Text(m)
    BY <1>5, <2>2
  <2>4. PutFirst(Text(m), args[m + 1]) = Text(m + 1)
    BY <2>2, PutNext DEF Text
  <2>5. QED
    BY <2>3, <2>4
<1>10. r[n] = Text(n)
  <2>1. Done \in SUBSET Nat
    OBVIOUS
  <2>2. n \in Done
    <3> HIDE DEF Done, n
    <3>1. QED
      BY <1>1, <1>8, <1>9, <2>1, SetInduction
  <2>3. n <= n
    BY <1>1
  <2>4. QED
    BY <2>2, <2>3
<1>11. QED
  BY <1>5, <1>7, <1>10 DEF Interpolate

-----------------------------------------------------------------------------
\* How the server reads what quote wrote.
Reading == INSTANCE Folding WITH Op <- ReadByte

\* Where a reader of a literal can be.
Modes == {"start", "inside", "escape", "closed", "broken"}

\* What it has read.
Readings(B) == [val : Seq(B), mode : Modes]

\* It has read v and is at m.
At(v, m) == [val |-> v, mode |-> m]

\* It stays so with every byte.
LEMMA ReadByteIsTyped ==
  ASSUME NEW B, "'" \in B, NEW st \in Readings(B), NEW b \in B
  PROVE  ReadByte(st, b) \in Readings(B)
<1>1. st.val \in Seq(B) /\ st.mode \in Modes /\ Append(st.val, b) \in Seq(B)
  BY DEF Readings
<1>2. /\ [val |-> Append(st.val, b), mode |-> "inside"] \in Readings(B)
      /\ \A m \in Modes : [st EXCEPT !.mode = m] \in Readings(B)
  BY <1>1 DEF Readings, Modes
<1>3. {"inside", "closed", "escape", "broken"} \subseteq Modes
  BY DEF Modes
<1>4. QED
  BY <1>2, <1>3 DEF ReadByte

\* A text with one byte more is read by one step more.
ReadsOn(seq, b) == ReadLiteral(Append(seq, b)) = ReadByte(ReadLiteral(seq), b)

\* So it is for any text.
LEMMA ReadOneMore ==
  ASSUME NEW B, "'" \in B, NEW seq \in Seq(B), NEW b \in B
  PROVE  ReadsOn(seq, b)
<1> DEFINE base == At(<<>>, "start")
           T == Readings(B)
<1>1. ReadLiteral(seq) = FoldLeft(ReadByte, base, seq)
      /\ ReadLiteral(Append(seq, b)) = FoldLeft(ReadByte, base, Append(seq, b))
  BY DEF ReadLiteral, At
<1>2. base \in T
  BY DEF At, Readings, Modes
<1>3. Reading!Closed(T, B)
  BY ReadByteIsTyped DEF Reading!Closed
<1> HIDE DEF base, T
<1> DEFINE more == Append(seq, b)
<1>4. FoldLeft(ReadByte, base, seq) = Reading!FoldLeft(ReadByte, base, seq)
  BY DEF FoldLeft, Reading!FoldLeft, MapThenFoldSet, Reading!MapThenFoldSet, Max, Reading!Max
<1>5. FoldLeft(ReadByte, base, more) = Reading!FoldLeft(ReadByte, base, more)
  <2> HIDE DEF more
  <2>1. QED
    BY DEF FoldLeft, Reading!FoldLeft, MapThenFoldSet, Reading!MapThenFoldSet, Max, Reading!Max
<1>6. Reading!RoundMore(base, seq, b)
  BY <1>2, <1>3, Reading!FoldOneMore, Zenon
<1>7. Reading!FoldLeft(ReadByte, base, more) = ReadByte(Reading!FoldLeft(ReadByte, base, seq), b)
  BY <1>6 DEF Reading!RoundMore
<1>8. QED
  <2> HIDE DEF more
  <2>1. FoldLeft(ReadByte, base, more) = ReadByte(FoldLeft(ReadByte, base, seq), b)
    BY <1>4, <1>5, <1>7
  <2>2. QED
    BY <1>1, <2>1 DEF ReadsOn, more

\* Before the first byte nothing is read.
LEMMA ReadNothing ==
  ReadLiteral(<<>>) = At(<<>>, "start")
<1> DEFINE base == At(<<>>, "start")
           B == {"'"}
           T == Readings(B)
<1>1. ReadLiteral(<<>>) = FoldLeft(ReadByte, base, <<>>)
  BY DEF ReadLiteral, At
<1>2. base \in T
  BY DEF At, Readings, Modes
<1>3. Reading!Closed(T, B)
  BY ReadByteIsTyped DEF Reading!Closed
<1> HIDE DEF base, T, B
<1>4. FoldLeft(ReadByte, base, <<>>) = Reading!FoldLeft(ReadByte, base, <<>>)
  BY DEF FoldLeft, Reading!FoldLeft, MapThenFoldSet, Reading!MapThenFoldSet, Max, Reading!Max
<1>5. Reading!FoldLeft(ReadByte, base, <<>>) = base
  BY <1>2, <1>3, Reading!FoldNothing, Zenon
<1>6. QED
  BY <1>1, <1>4, <1>5 DEF base

\* What one byte of a literal does.
LEMMA ByteOfLiteral ==
  ASSUME NEW v, NEW b
  PROVE  /\ ReadByte(At(v, "start"), "'") = At(v, "inside")
         /\ ReadByte(At(v, "inside"), "'") = At(v, "closed")
         /\ ReadByte(At(v, "closed"), "'") = At(Append(v, "'"), "inside")
         /\ b \notin {"'", "\\"} => ReadByte(At(v, "inside"), b) = At(Append(v, b), "inside")
<1>1. ReadByte(At(v, "start"), "'") = At(v, "inside")
  BY DEF ReadByte, At
<1>2. ReadByte(At(v, "inside"), "'") = At(v, "closed")
  BY DEF ReadByte, At
<1>3. ReadByte(At(v, "closed"), "'") = At(Append(v, "'"), "inside")
  BY DEF ReadByte, At
<1>4. ASSUME b \notin {"'", "\\"}
      PROVE  ReadByte(At(v, "inside"), b) = At(Append(v, b), "inside")
  BY <1>4 DEF ReadByte, At
<1>5. QED
  BY <1>1, <1>2, <1>3, <1>4

\* A quoted string is read as one literal of its value.
LEMMA QuotedIsRead ==
  ASSUME NEW B, "'" \in B, NEW s \in Seq(B), ~Has(s, "\\")
  PROVE  ReadLiteral(Quote(s)) = [val |-> s, mode |-> "closed"]
<1> DEFINE n == Len(s)
           seqs == [k \in DOMAIN s |-> IF s[k] = "'" THEN <<"'", "'">> ELSE <<s[k]>>]
<1>1. n \in Nat /\ DOMAIN s = 1..n /\ \A k \in 1..n : s[k] \in B /\ s[k] # "\\"
  BY DEF Has
<1>2. /\ seqs \in Seq(Seq(B)) /\ Len(seqs) = n
      /\ \A k \in 1..n : seqs[k] = IF s[k] = "'" THEN <<"'", "'">> ELSE <<s[k]>>
  <2>1. \A k \in 1..n : <<"'", "'">> \in Seq(B) /\ <<s[k]>> \in Seq(B)
    BY <1>1
  <2>2. seqs \in [1..n -> Seq(B)]
    BY <1>1, <2>1
  <2>3. \A k \in 1..n : seqs[k] = IF s[k] = "'" THEN <<"'", "'">> ELSE <<s[k]>>
    BY <1>1
  <2> HIDE DEF seqs, n
  <2>4. QED
    BY <1>1, <2>2, <2>3, FunctionIsSequence
<1> HIDE DEF seqs
<1>3. PICK f : FlatRun(f, B, seqs)
  BY <1>2, FlatRuns
<1>4. /\ f[0] = <<>> /\ FlattenSeq(seqs) = f[n]
      /\ \A m \in 1..n : f[m] = f[m - 1] \o seqs[m]
      /\ \A m \in 0..n : f[m] \in Seq(B)
  BY <1>2, <1>3 DEF FlatRun
<1> DEFINE Open(m) == <<"'">> \o f[m]
           Done == {m \in Nat : m <= n => ReadLiteral(Open(m)) = At(SubSeq(s, 1, m), "inside")}
<1>5. 0 \in Done
  <2>1. Open(0) = Append(<<>>, "'") /\ <<>> \in Seq(B) /\ SubSeq(s, 1, 0) = <<>>
    BY <1>4
  <2>2. ReadLiteral(Append(<<>>, "'")) = ReadByte(ReadLiteral(<<>>), "'")
    <3>1. ReadsOn(<<>>, "'")
      BY <2>1, ReadOneMore, Zenon
    <3>2. QED
      BY <3>1 DEF ReadsOn
  <2>3. ReadLiteral(Open(0)) = At(<<>>, "inside")
    BY <2>1, <2>2, ReadNothing, ByteOfLiteral
  <2>4. QED
    BY <2>1, <2>3
<1>6. ASSUME NEW m \in Done
      PROVE  m + 1 \in Done
  <2>1. SUFFICES ASSUME m + 1 <= n
                 PROVE  ReadLiteral(Open(m + 1)) = At(SubSeq(s, 1, m + 1), "inside")
    <3>1. m + 1 \in Nat
      OBVIOUS
    <3>2. QED
      BY <3>1
  <2>2. m \in Nat /\ m + 1 \in 1..n /\ (m + 1) - 1 = m /\ m <= n /\ m \in 0..n
    BY <1>1, <2>1
  <2> DEFINE c == s[m + 1]
             q == Open(m)
             v == SubSeq(s, 1, m)
  <2>3. c \in B /\ c # "\\" /\ q \in Seq(B) /\ v \in Seq(B)
        /\ Append(v, c) = SubSeq(s, 1, m + 1)
    BY <1>1, <1>4, <2>2
  <2>4. ReadLiteral(q) = At(v, "inside")
    BY <2>2
  <2>5. f[m + 1] = f[m] \o seqs[m + 1] /\ f[m] \in Seq(B)
    BY <1>4, <2>2
  <2>6. CASE c = "'"
    <3>1. seqs[m + 1] = <<"'", "'">>
      BY <1>2, <2>2, <2>6
    <3>2. Open(m + 1) = Append(Append(q, "'"), "'")
      <4> DEFINE t == f[m]
      <4>1. t \in Seq(B)
        BY <2>5
      <4> HIDE DEF t
      <4>2. <<"'">> \o (t \o <<"'", "'">>) = Append(Append(<<"'">> \o t, "'"), "'")
        BY <4>1
      <4>3. QED
        BY <2>5, <3>1, <4>2 DEF t
    <3> HIDE DEF q, v, c
    <3>3. ReadLiteral(Append(q, "'")) = At(v, "closed")
      <4>1. ReadsOn(q, "'")
        BY <2>3, ReadOneMore, Zenon
      <4>2. QED
        BY <2>4, <4>1, ByteOfLiteral DEF ReadsOn
    <3>4. Append(q, "'") \in Seq(B)
      BY <2>3
    <3>5. ReadLiteral(Append(Append(q, "'"), "'")) = At(Append(v, "'"), "inside")
      <4> DEFINE r == Append(q, "'")
      <4> HIDE DEF r
      <4>1. ReadsOn(r, "'")
        BY <3>4, ReadOneMore, Zenon DEF r
      <4>2. ReadLiteral(Append(r, "'")) = ReadByte(At(v, "closed"), "'")
        BY <3>3, <4>1 DEF ReadsOn, r
      <4>3. QED
        BY <4>2, ByteOfLiteral DEF r
    <3>6. QED
      BY <2>3, <2>6, <3>2, <3>5
  <2>7. CASE c # "'"
    <3>1. seqs[m + 1] = <<c>>
      BY <1>2, <2>2, <2>7
    <3>2. Open(m + 1) = Append(q, c)
      <4> DEFINE t == f[m]
      <4>1. t \in Seq(B)
        BY <2>5
      <4> HIDE DEF t, c
      <4>2. <<"'">> \o (t \o <<c>>) = Append(<<"'">> \o t, c)
        BY <2>3, <4>1
      <4>3. QED
        BY <2>5, <3>1, <4>2 DEF t
    <3> HIDE DEF q, v, c
    <3>3. ReadLiteral(Append(q, c)) = At(Append(v, c), "inside")
      <4>1. ReadsOn(q, c)
        BY <2>3, ReadOneMore, Zenon
      <4>2. c \notin {"'", "\\"}
        BY <2>3, <2>7
      <4>3. QED
        BY <2>4, <4>1, <4>2, ByteOfLiteral DEF ReadsOn
    <3>4. QED
      BY <2>3, <3>2, <3>3
  <2>8. QED
    BY <2>6, <2>7
<1>7. ReadLiteral(Open(n)) = At(SubSeq(s, 1, n), "inside")
  <2>1. Done \in SUBSET Nat
    OBVIOUS
  <2>2. n \in Done
    <3> HIDE DEF Done, n
    <3>1. QED
      BY <1>1, <1>5, <1>6, <2>1, SetInduction
  <2>3. n <= n
    BY <1>1
  <2>4. QED
    BY <2>2, <2>3
<1>8. SubSeq(s, 1, n) = s
  OBVIOUS
<1>9. Quote(s) = Append(Open(n), "'") /\ Open(n) \in Seq(B)
  <2> DEFINE t == f[n]
  <2>1. t \in Seq(B)
    BY <1>1, <1>4
  <2>2. Quote(s) = <<"'">> \o t \o <<"'">>
    BY <1>4 DEF Quote, seqs
  <2> HIDE DEF t
  <2>3. <<"'">> \o t \o <<"'">> = Append(<<"'">> \o t, "'") /\ <<"'">> \o t \in Seq(B)
    BY <2>1
  <2>4. QED
    BY <2>2, <2>3 DEF t
<1> DEFINE q == Open(n)
<1> HIDE DEF q
<1>10. ReadLiteral(Append(q, "'")) = At(s, "closed")
  <2>1. ReadsOn(q, "'")
    BY <1>9, ReadOneMore, Zenon DEF q
  <2>2. ReadLiteral(q) = At(s, "inside")
    BY <1>7, <1>8 DEF q
  <2>3. QED
    BY <2>1, <2>2, ByteOfLiteral DEF ReadsOn
<1>11. QED
  BY <1>9, <1>10 DEF q, At

\* The arguments of a prepared statement arrive where they belong, each as one
\* literal of its value (interpolate, literalFor, quote), for any statement and
\* arguments of any number and length.
LEMMA ArgumentsDoArrive ==
  ASSUME NEW B, "'" \in B, NEW query \in Seq(B), NEW args \in Seq(ArgumentsOf(B))
  PROVE  ArgumentsArrive(query, args)
<1>1. SUFFICES ASSUME Len(args) = ParamCount(query),
                      \A k \in 1..(Len(args) - 1) : ~Has(args[k].text, "?"),
                      \A k \in DOMAIN args : ~Has(args[k].text, "\\")
               PROVE  /\ Interpolate(query, args) = AllAtOnce(query, args)
                      /\ \A k \in DOMAIN args :
                           args[k].quoted => ReadLiteral(LiteralFor(args[k])) =
                                               [val |-> args[k].text, mode |-> "closed"]
  BY DEF ArgumentsArrive
<1>2. Interpolate(query, args) = AllAtOnce(query, args)
  BY <1>1, PutInOrder
<1>3. ASSUME NEW k \in DOMAIN args, args[k].quoted
      PROVE  ReadLiteral(LiteralFor(args[k])) = [val |-> args[k].text, mode |-> "closed"]
  <2> DEFINE arg == args[k]
  <2>1. arg \in ArgumentsOf(B) /\ ~Has(arg.text, "\\")
    BY <1>1
  <2> HIDE DEF arg
  <2>2. arg.text \in Seq(B)
    BY <2>1 DEF ArgumentsOf
  <2>3. ReadLiteral(Quote(arg.text)) = [val |-> arg.text, mode |-> "closed"]
    BY <2>1, <2>2, QuotedIsRead
  <2>4. QED
    BY <1>3, <2>3 DEF LiteralFor, arg
<1>4. QED
  BY <1>2, <1>3

\* Executions of prepared statements, of any text and with any arguments.
InterpolateCalls(B) == [of : {"interpolate"}, query : Seq(B), args : Seq(ArgumentsOf(B))]

\* Any arguments of any prepared statement arrive where they belong, each as one
\* literal of its value (interpolate, literalFor and quote).
THEOREM EveryArgumentArrives ==
  ASSUME NEW B, "'" \in B, call \in InterpolateCalls(B)
  PROVE  ParametersInPlace
BY ArgumentsDoArrive DEF InterpolateCalls, ParametersInPlace
===============================================================================
