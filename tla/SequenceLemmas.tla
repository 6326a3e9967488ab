--------------------------- MODULE SequenceLemmas ---------------------------
(***************************************************************************)
(* Facts about sequences, finite sets and folds that the proofs about the  *)
(* order book and the feeds need.  The induction theorems of the library   *)
(* take an operator as a parameter, which the provers cannot instantiate;  *)
(* here the induction is over a set of numbers (UpTo), and a recursive     *)
(* function is known by its equations (Recursion, Folds).                  *)
(***************************************************************************)
EXTENDS SequencesExt, FiniteSetTheorems, SequenceTheorems, WellFoundedInduction, TLAPS

\* Induction up to a number, over the set of numbers that have the property.
LEMMA UpTo ==
  ASSUME NEW n \in Nat, NEW P, 0 \in P,
         \A i \in 1..n : i - 1 \in P => i \in P
  PROVE  \A i \in 0..n : i \in P
<1> DEFINE Bad == {i \in 0..n : i \notin P}
<1> SUFFICES ASSUME Bad # {} PROVE FALSE
  OBVIOUS
<1>1. Bad \subseteq Nat
  OBVIOUS
<1>2. PICK m \in Bad : \A k \in Bad : ~(<<k, m>> \in OpToRel(<, Nat))
  BY <1>1, NatLessThanWellFounded, WFMin
<1>3. m \in 1..n /\ m - 1 \in 0..n
  OBVIOUS
<1>4. m - 1 \notin Bad
  <2>1. m \in Nat /\ m - 1 \in Nat /\ m - 1 < m
    BY <1>3
  <2>2. <<m - 1, m>> \in OpToRel(<, Nat)
    BY <2>1 DEF OpToRel
  <2> HIDE DEF Bad
  <2> QED
    BY <1>2, <2>2
<1> QED
  BY <1>3, <1>4

\* The first m of n positions.
LEMMA Positions ==
  ASSUME NEW n \in Nat, NEW m \in 0..n
  PROVE  /\ 1..m \in SUBSET (1..n)
         /\ m # 0 => /\ m \in 1..n /\ m \in Nat
                     /\ 1..m # {}
                     /\ (1..m) \ {m} = 1..(m - 1)
OBVIOUS

\* The function f is defined by recursion up to n.
Recursion(f, n, A, base, step) ==
    /\ f \in [0..n -> A]
    /\ f[0] = base
    /\ \A i \in 1..n : f[i] = step[<<i, f[i - 1]>>]

\* There is such a function.
LEMMA RecursionUpTo ==
  ASSUME NEW n \in Nat, NEW A, NEW base \in A, NEW step \in [(1..n) \X A -> A]
  PROVE  \E f : Recursion(f, n, A, base, step)
<1> USE DEF Recursion
<1> DEFINE Up(m) == \E f : Recursion(f, m, A, base, step)
           P == {m \in 0..n : Up(m)}
<1>1. 0 \in P
  <2>1. [i \in 0..0 |-> base] \in [0..0 -> A]
    OBVIOUS
  <2>2. [i \in 0..0 |-> base][0] = base /\ \A i \in 1..0 : FALSE
    OBVIOUS
  <2>3. Up(0)
    BY <2>1, <2>2
  <2> QED
    BY <2>3
<1>2. ASSUME NEW m \in 1..n, m - 1 \in P PROVE m \in P
  <2>1. PICK f : Recursion(f, m - 1, A, base, step)
    BY <1>2
  <2> DEFINE g == [i \in 0..m |-> IF i = m THEN step[<<m, f[m - 1]>>] ELSE f[i]]
  <2>2. f[m - 1] \in A /\ step[<<m, f[m - 1]>>] \in A
    BY <2>1
  <2>3. g \in [0..m -> A] /\ g[0] = base
    BY <2>1, <2>2
  <2>4. ASSUME NEW i \in 1..m PROVE g[i] = step[<<i, g[i - 1]>>]
    <3>1. CASE i = m
      <4>1. m \in 0..m /\ m - 1 \in 0..m /\ m - 1 # m
        OBVIOUS
      <4>2. g[m] = step[<<m, f[m - 1]>>] /\ g[m - 1] = f[m - 1]
        BY <4>1
      <4> QED
        BY <3>1, <4>2
    <3>2. CASE i # m
      <4>1. i \in 1..(m - 1) /\ i - 1 # m /\ i - 1 \in 0..m
        BY <3>2
      <4> QED
        BY <2>1, <3>2, <4>1
    <3> QED
      BY <3>1, <3>2
  <2>5. Up(m)
    BY <2>3, <2>4
  <2> QED
    BY <2>5
<1>3. n \in P
  <2> HIDE DEF P
  <2> QED
    BY <1>1, <1>2, UpTo
<1> QED
  BY <1>3

----------------------------------------------------------------------------
\* Whatever comes first stands in the relation R to whatever comes later.
Ordered(s, R) == \A i, j \in 1..Len(s) : i < j => <<s[i], s[j]>> \in R

\* Two ordered sequences after one another.
LEMMA OrderedConcat ==
  ASSUME NEW T, NEW R, NEW s \in Seq(T), NEW t \in Seq(T),
         Ordered(s, R), Ordered(t, R),
         \A a \in ToSet(s), b \in ToSet(t) : <<a, b>> \in R
  PROVE  /\ s \o t \in Seq(T)
         /\ ToSet(s \o t) = ToSet(s) \cup ToSet(t)
         /\ Ordered(s \o t, R)
<1> DEFINE m == Len(s)
           n == Len(t)
           u == s \o t
<1>1. /\ m \in Nat /\ DOMAIN s = 1..m
      /\ n \in Nat /\ DOMAIN t = 1..n
  BY LenProperties
<1>2. /\ u \in Seq(T) /\ Len(u) = m + n
      /\ \A i \in 1..(m + n) : u[i] = IF i <= m THEN s[i] ELSE t[i - m]
  BY ConcatProperties
<1>3. DOMAIN u = 1..(m + n)
  BY <1>2, LenProperties
<1> HIDE DEF u, m, n
<1>4. ASSUME NEW i \in 1..m PROVE i \in 1..(m + n) /\ u[i] = s[i]
  BY <1>1, <1>2
<1>5. ASSUME NEW i \in 1..n PROVE i + m \in 1..(m + n) /\ u[i + m] = t[i]
  <2>1. i + m \in 1..(m + n) /\ ~(i + m <= m) /\ (i + m) - m = i
    BY <1>1
  <2> QED
    BY <1>2, <2>1
<1>6. ASSUME NEW i \in 1..(m + n), i > m PROVE i - m \in 1..n /\ u[i] = t[i - m]
  <2>1. i - m \in 1..n /\ ~(i <= m)
    BY <1>1, <1>6
  <2> QED
    BY <1>2, <2>1
<1>7. ToSet(u) = ToSet(s) \cup ToSet(t)
  <2>1. ToSet(s) = {s[i] : i \in 1..m} /\ ToSet(t) = {t[i] : i \in 1..n}
        /\ ToSet(u) = {u[i] : i \in 1..(m + n)}
    BY <1>1, <1>3 DEF ToSet
  <2>2. ASSUME NEW x \in ToSet(u) PROVE x \in ToSet(s) \cup ToSet(t)
    <3>1. PICK i \in 1..(m + n) : x = u[i]
      BY <2>1
    <3>2. CASE i <= m
      <4>1. i \in 1..m
        BY <1>1, <3>2
      <4> QED
        BY <1>4, <2>1, <3>1, <4>1
    <3>3. CASE i > m
      BY <1>6, <2>1, <3>1, <3>3
    <3> QED
      BY <1>1, <3>2, <3>3
  <2>3. ToSet(s) \subseteq ToSet(u)
    BY <1>4, <2>1
  <2>4. ToSet(t) \subseteq ToSet(u)
    BY <1>5, <2>1
  <2> QED
    BY <2>2, <2>3, <2>4
<1>8. ASSUME NEW i \in 1..(m + n), NEW j \in 1..(m + n), i < j
      PROVE  <<u[i], u[j]>> \in R
  <2>1. CASE j <= m
    <3>1. i \in 1..m /\ j \in 1..m
      BY <1>1, <1>8, <2>1
    <3> QED
      BY <1>4, <1>8, <3>1 DEF Ordered, m
  <2>2. CASE i > m
    <3>1. j > m /\ i - m < j - m
      BY <1>1, <1>8, <2>2
    <3>2. /\ i - m \in 1..n /\ u[i] = t[i - m]
          /\ j - m \in 1..n /\ u[j] = t[j - m]
      BY <1>6, <2>2, <3>1
    <3> QED
      BY <3>1, <3>2 DEF Ordered, n
  <2>3. CASE i <= m /\ j > m
    <3>1. i \in 1..m
      BY <1>1, <2>3
    <3>2. u[i] \in ToSet(s)
      BY <1>1, <1>4, <3>1 DEF ToSet
    <3>3. u[j] \in ToSet(t)
      BY <1>1, <1>6, <2>3 DEF ToSet
    <3> QED
      BY <3>2, <3>3
  <2> QED
    BY <1>1, <2>1, <2>2, <2>3
<1> QED
  BY <1>2, <1>7, <1>8 DEF u, Ordered

\* Sequences put one after the other by FlattenSeq.
LEMMA OrderedFlatten ==
  ASSUME NEW T, NEW R, NEW seqs \in Seq(Seq(T)),
         \A i \in 1..Len(seqs) : Ordered(seqs[i], R),
         \A i, j \in 1..Len(seqs) : i < j =>
            \A a \in ToSet(seqs[i]), b \in ToSet(seqs[j]) : <<a, b>> \in R
  PROVE  /\ FlattenSeq(seqs) \in Seq(T)
         /\ ToSet(FlattenSeq(seqs)) = UNION {ToSet(seqs[i]) : i \in 1..Len(seqs)}
         /\ Ordered(FlattenSeq(seqs), R)
<1> DEFINE n == Len(seqs)
<1>1. n \in Nat /\ \A i \in 1..n : seqs[i] \in Seq(T)
  BY LenProperties, ElementOfSeq
<1> HIDE DEF n
<1>2. CASE n = 0
  <2>1. seqs = <<>>
    BY <1>2, EmptySeq DEF n
  <2>2. FlattenSeq(seqs) = <<>>
    BY <1>2, <2>1 DEF FlattenSeq, n
  <2>3. /\ <<>> \in Seq(T) /\ Len(<<>>) = 0
    BY EmptySeq
  <2>4. ToSet(<<>>) = {}
    BY DEF ToSet
  <2> QED
    BY <1>2, <2>2, <2>3, <2>4 DEF Ordered, n
<1>3. CASE n # 0
  <2> DEFINE IsFlatten(f) == f = [i \in 1..n |-> IF i = 1 THEN seqs[i]
                                                 ELSE f[i - 1] \o seqs[i]]
             step == [x \in (1..n) \X Seq(T) |-> IF x[1] = 1 THEN seqs[1]
                                                 ELSE x[2] \o seqs[x[1]]]
  <2>1. \E f : IsFlatten(f)
    <3>1. step \in [(1..n) \X Seq(T) -> Seq(T)]
      BY <1>1, ConcatProperties
    <3>2. <<>> \in Seq(T)
      BY EmptySeq
    <3> HIDE DEF step
    <3>3. PICK g : Recursion(g, n, Seq(T), <<>>, step)
      BY <1>1, <3>1, <3>2, RecursionUpTo
    <3> DEFINE f == [i \in 1..n |-> g[i]]
    <3>4. ASSUME NEW i \in 1..n
          PROVE  f[i] = IF i = 1 THEN seqs[i] ELSE f[i - 1] \o seqs[i]
      <4>1. i \in 0..n /\ i - 1 \in 0..n /\ i # 0 /\ g[i - 1] \in Seq(T)
        BY <1>1, <3>3 DEF Recursion
      <4>2. g[i] = step[<<i, g[i - 1]>>]
        BY <3>3, <4>1 DEF Recursion
      <4>3. step[<<i, g[i - 1]>>] = IF i = 1 THEN seqs[1] ELSE g[i - 1] \o seqs[i]
        BY <4>1 DEF step
      <4>4. i # 1 => i - 1 \in 1..n
        BY <1>1
      <4> QED
        BY <4>2, <4>3, <4>4
    <3>5. IsFlatten(f)
      BY <3>4
    <3> HIDE DEF f, IsFlatten
    <3> QED
      BY <3>5
  <2> DEFINE F == CHOOSE f : IsFlatten(f)
  <2>2. F = [i \in 1..n |-> IF i = 1 THEN seqs[i] ELSE F[i - 1] \o seqs[i]]
    <3> HIDE DEF IsFlatten
    <3>1. IsFlatten(F)
      BY <2>1
    <3> QED
      BY <3>1 DEF IsFlatten
  <2>3. FlattenSeq(seqs) = F[n]
    BY <1>3 DEF FlattenSeq, n
  <2> HIDE DEF F
  <2> DEFINE Good(m) == /\ F[m] \in Seq(T)
                        /\ ToSet(F[m]) = UNION {ToSet(seqs[i]) : i \in 1..m}
                        /\ Ordered(F[m], R)
             P == {m \in 0..n : m = 0 \/ Good(m)}
  <2>4. 0 \in P
    BY <1>1
  <2>5. ASSUME NEW m \in 1..n, m - 1 \in P PROVE m \in P
    <3>1. CASE m = 1
      <4>1. F[m] = seqs[1]
        BY <2>2, <3>1
      <4>2. UNION {ToSet(seqs[i]) : i \in 1..m} = ToSet(seqs[1])
        BY <3>1
      <4> QED
        BY <1>1, <3>1, <4>1, <4>2 DEF n
    <3>2. CASE m # 1
      <4>1. m - 1 \in 1..n /\ m - 1 # 0
        BY <1>1, <3>2
      <4>2. Good(m - 1)
        BY <2>5, <4>1
      <4>3. F[m] = F[m - 1] \o seqs[m]
        BY <2>2, <3>2
      <4>4. \A a \in ToSet(F[m - 1]), b \in ToSet(seqs[m]) : <<a, b>> \in R
        <5> SUFFICES ASSUME NEW a \in ToSet(F[m - 1]), NEW b \in ToSet(seqs[m])
                     PROVE  <<a, b>> \in R
          OBVIOUS
        <5>1. PICK i \in 1..(m - 1) : a \in ToSet(seqs[i])
          BY <4>2
        <5>2. i \in 1..n /\ i < m
          BY <1>1, <4>1
        <5> QED
          BY <5>1, <5>2 DEF n
      <4>5. /\ F[m] \in Seq(T)
            /\ ToSet(F[m]) = ToSet(F[m - 1]) \cup ToSet(seqs[m])
            /\ Ordered(F[m], R)
        <5>1. Ordered(seqs[m], R) /\ seqs[m] \in Seq(T)
          BY <1>1 DEF n
        <5>2. F[m - 1] \in Seq(T) /\ Ordered(F[m - 1], R)
          BY <4>2
        <5> QED
          BY <4>3, <4>4, <5>1, <5>2, OrderedConcat
      <4>6. UNION {ToSet(seqs[i]) : i \in 1..m}
              = (UNION {ToSet(seqs[i]) : i \in 1..(m - 1)}) \cup ToSet(seqs[m])
        <5>1. \A i : i \in 1..m <=> i \in 1..(m - 1) \/ i = m
          BY <4>1
        <5>2. {ToSet(seqs[i]) : i \in 1..m}
                = {ToSet(seqs[i]) : i \in 1..(m - 1)} \cup {ToSet(seqs[m])}
          BY <5>1
        <5> QED
          BY <5>2
      <4>7. Good(m)
        BY <4>2, <4>5, <4>6
      <4> QED
        BY <4>7
    <3> QED
      BY <3>1, <3>2
  <2>6. n \in P
    <3> HIDE DEF P
    <3>1. \A i \in 1..n : i - 1 \in P => i \in P
      BY <2>5
    <3>2. \A i \in 0..n : i \in P
      BY <1>1, <2>4, <3>1, UpTo
    <3> QED
      BY <1>1, <3>2
  <2> QED
    <3>1. Good(n)
      BY <1>3, <2>6
    <3> QED
      BY <2>3, <3>1 DEF n
<1> QED
  BY <1>2, <1>3

----------------------------------------------------------------------------
\* R orders S: of two elements one comes before the other.
Orders(R, S) ==
    /\ \A a, b \in S : a # b => <<a, b>> \in R \/ <<b, a>> \in R
    /\ \A a, b, c \in S : <<a, b>> \in R /\ <<b, c>> \in R => <<a, c>> \in R

ComesLast(x, S, R) == x \in S /\ \A y \in S \ {x} : <<y, x>> \in R

\* Of finitely many elements one comes last.
LEMMA Greatest ==
  ASSUME NEW S, IsFiniteSet(S), S # {}, NEW R, Orders(R, S)
  PROVE  \E x : ComesLast(x, S, R)
<1> DEFINE n == Cardinality(S)
           Good(m) == \A U \in SUBSET S : Cardinality(U) = m => U = {} \/ \E x : ComesLast(x, U, R)
           P == {m \in 0..n : Good(m)}
<1>1. n \in Nat
  BY FS_CardinalityType
<1> HIDE DEF n
<1>2. 0 \in P
  <2>1. ASSUME NEW U \in SUBSET S, Cardinality(U) = 0 PROVE U = {}
    BY <2>1, FS_Subset, FS_EmptySet
  <2>2. Good(0)
    BY <2>1
  <2> QED
    BY <1>1, <2>2
<1>3. ASSUME NEW m \in 1..n, m - 1 \in P PROVE m \in P
  <2>1. ASSUME NEW U \in SUBSET S, Cardinality(U) = m, NEW u \in U
        PROVE  \E x : ComesLast(x, U, R)
    <3>1. IsFiniteSet(U)
      BY FS_Subset
    <3>2. Cardinality(U \ {u}) = m - 1
      BY <2>1, <3>1, FS_RemoveElement
    <3>3. CASE U \ {u} = {}
      <4>1. ComesLast(u, U, R)
        BY <3>3 DEF ComesLast
      <4> QED
        BY <4>1
    <3>4. CASE U \ {u} # {}
      <4>1. PICK x : ComesLast(x, U \ {u}, R)
        BY <1>3, <3>2, <3>4
      <4>2. CASE <<u, x>> \in R
        <5>1. ComesLast(x, U, R)
          BY <4>1, <4>2 DEF ComesLast
        <5> QED
          BY <5>1
      <4>3. CASE <<u, x>> \notin R
        <5>1. <<x, u>> \in R /\ x \in S /\ u \in S
          BY <4>1, <4>3 DEF Orders, ComesLast
        <5>2. ASSUME NEW y \in U \ {u} PROVE <<y, u>> \in R
          <6>1. y = x \/ <<y, x>> \in R
            BY <4>1 DEF ComesLast
          <6> QED
            BY <5>1, <6>1 DEF Orders
        <5>3. ComesLast(u, U, R)
          BY <5>2 DEF ComesLast
        <5> QED
          BY <5>3
      <4> QED
        BY <4>2, <4>3
    <3> QED
      BY <3>3, <3>4
  <2>2. Good(m)
    BY <2>1
  <2> QED
    BY <2>2
<1>4. n \in P
  <2> HIDE DEF P
  <2>1. \A i \in 1..n : i - 1 \in P => i \in P
    BY <1>3
  <2>2. \A i \in 0..n : i \in P
    BY <1>1, <1>2, <2>1, UpTo
  <2> QED
    BY <1>1, <2>2
<1> QED
  BY <1>4 DEF n

\* An enumeration of a finite set has all its elements, each once.
LEMMA Enumeration ==
  ASSUME NEW S, IsFiniteSet(S), NEW q \in SetToSeqs(S)
  PROVE  /\ q \in Seq(S) /\ Len(q) = Cardinality(S) /\ Len(q) \in Nat
         /\ DOMAIN q = 1..Cardinality(S)
         /\ ToSet(q) = S
         /\ \A i, j \in DOMAIN q : q[i] = q[j] => i = j
<1> DEFINE n == Cardinality(S)
<1>1. n \in Nat
  BY FS_CardinalityType
<1>2. q \in [1..n -> S] /\ \A i, j \in 1..n : i # j => q[i] # q[j]
  BY DEF SetToSeqs
<1> HIDE DEF n
<1>3. q \in Seq(S) /\ Len(q) = n
  BY <1>1, <1>2
<1>4. q \in Injection(1..n, S)
  BY <1>2 DEF Injection, IsInjective
<1>5. Cardinality(1..n) = n /\ IsFiniteSet(1..n)
  BY <1>1, FS_Interval
<1>6. q \in Surjection(1..n, S)
  BY <1>4, <1>5, FS_Injection DEF n
<1>7. ToSet(q) = S
  BY <1>2, <1>6 DEF ToSet, Surjection
<1> QED
  BY <1>1, <1>2, <1>3, <1>7 DEF n

\* A finite set can be enumerated in the order of R.
LEMMA SortedEnumeration ==
  ASSUME NEW S, IsFiniteSet(S), NEW R, Orders(R, S)
  PROVE  \E q \in SetToSeqs(S) : Ordered(q, R)
<1> DEFINE n == Cardinality(S)
           Sorted(U) == \E q \in SetToSeqs(U) : Ordered(q, R)
           P == {m \in 0..n : \A U \in SUBSET S : Cardinality(U) = m => Sorted(U)}
<1>1. n \in Nat
  BY FS_CardinalityType
<1> HIDE DEF n
<1>2. 0 \in P
  <2>1. ASSUME NEW U \in SUBSET S, Cardinality(U) = 0 PROVE Sorted(U)
    <3>1. U = {}
      BY <2>1, FS_Subset, FS_EmptySet
    <3>2. <<>> \in SetToSeqs(U)
      BY <2>1, <3>1 DEF SetToSeqs
    <3>3. Ordered(<<>>, R)
      BY DEF Ordered
    <3> QED
      BY <3>2, <3>3
  <2> QED
    BY <1>1, <2>1
<1>3. ASSUME NEW m \in 1..n, m - 1 \in P PROVE m \in P
  <2>1. ASSUME NEW U \in SUBSET S, Cardinality(U) = m PROVE Sorted(U)
    <3>1. IsFiniteSet(U) /\ U # {}
      BY <2>1, FS_Subset, FS_EmptySet
    <3>2. PICK x \in U : \A y \in U \ {x} : <<y, x>> \in R
      <4>1. Orders(R, U)
        BY DEF Orders
      <4> QED
        BY <3>1, <4>1, Greatest DEF ComesLast
    <3> DEFINE V == U \ {x}
    <3>3. Cardinality(V) = m - 1 /\ IsFiniteSet(V)
      BY <2>1, <3>1, FS_RemoveElement
    <3>4. PICK r \in SetToSeqs(V) : Ordered(r, R)
      BY <1>3, <3>3
    <3>5. /\ r \in [1..(m - 1) -> V] /\ Len(r) = m - 1
          /\ \A i, j \in 1..(m - 1) : i # j => r[i] # r[j]
      BY <3>3, Enumeration DEF SetToSeqs
    <3> DEFINE q == [i \in 1..m |-> IF i = m THEN x ELSE r[i]]
    <3>6. q[m] = x /\ \A i \in 1..(m - 1) : i \in 1..m /\ q[i] = r[i] /\ r[i] \in V
      BY <3>5
    <3>7. q \in [1..m -> U]
      BY <3>5
    <3> HIDE DEF q
    <3>8. q \in SetToSeqs(U)
      <4>1. ASSUME NEW i \in 1..m, NEW j \in 1..m, i # j PROVE q[i] # q[j]
        <5>1. CASE i = m \/ j = m
          BY <3>6, <4>1, <5>1
        <5>2. CASE i # m /\ j # m
          <6>1. i \in 1..(m - 1) /\ j \in 1..(m - 1)
            BY <5>2
          <6> QED
            BY <3>5, <3>6, <4>1, <6>1
        <5> QED
          BY <5>1, <5>2
      <4> QED
        BY <2>1, <3>7, <4>1 DEF SetToSeqs
    <3>9. Ordered(q, R)
      <4>1. Len(q) = m
        BY <1>1, <3>7
      <4>2. ASSUME NEW i \in 1..m, NEW j \in 1..m, i < j PROVE <<q[i], q[j]>> \in R
        <5>1. i \in 1..(m - 1)
          BY <4>2
        <5>2. CASE j = m
          BY <3>2, <3>6, <5>1, <5>2
        <5>3. CASE j # m
          <6>1. j \in 1..(m - 1)
            BY <5>3
          <6> QED
            BY <3>4, <3>5, <3>6, <4>2, <5>1, <6>1 DEF Ordered
        <5> QED
          BY <5>2, <5>3
      <4> QED
        BY <4>1, <4>2 DEF Ordered
    <3> QED
      BY <3>8, <3>9
  <2> HIDE DEF Sorted
  <2> QED
    BY <2>1
<1>4. n \in P
  <2> HIDE DEF P
  <2>1. \A i \in 1..n : i - 1 \in P => i \in P
    BY <1>3
  <2>2. \A i \in 0..n : i \in P
    BY <1>1, <1>2, <2>1, UpTo
  <2> QED
    BY <1>1, <2>2
<1>5. S \in SUBSET S
  OBVIOUS
<1> HIDE DEF Sorted
<1>6. Sorted(S)
  BY <1>4, <1>5 DEF n
<1> QED
  BY <1>6 DEF Sorted

OneToOne(f, S) == \A x, y \in S : f[x] = f[y] => x = y

\* The image of a finite set under a function; under an injective one it has as
\* many elements.
LEMMA Image ==
  ASSUME NEW S, IsFiniteSet(S), NEW f
  PROVE  /\ IsFiniteSet({f[x] : x \in S})
         /\ Cardinality({f[x] : x \in S}) <= Cardinality(S)
         /\ OneToOne(f, S) =>
               Cardinality({f[x] : x \in S}) = Cardinality(S)
<1> DEFINE T == {f[x] : x \in S}
           g == [x \in S |-> f[x]]
<1>1. g \in Surjection(S, T)
  <2>1. g \in [S -> T]
    OBVIOUS
  <2>2. \A y \in T : \E x \in S : g[x] = y
    OBVIOUS
  <2> HIDE DEF g, T
  <2> QED
    BY <2>1, <2>2 DEF Surjection
<1>2. ASSUME OneToOne(f, S) PROVE g \in Injection(S, T)
  <2>1. g \in [S -> T]
    OBVIOUS
  <2>2. \A x, y \in S : g[x] = g[y] => x = y
    BY <1>2 DEF OneToOne
  <2> HIDE DEF g, T
  <2> QED
    BY <2>1, <2>2 DEF Injection, IsInjective
<1> HIDE DEF g, T
<1>3. /\ IsFiniteSet(T) /\ Cardinality(T) <= Cardinality(S)
      /\ Cardinality(T) = Cardinality(S) <=> g \in Injection(S, T)
  BY <1>1, FS_Surjection
<1> QED
  BY <1>2, <1>3 DEF T

\* A sequence has finitely many elements.
LEMMA ToSetFinite ==
  ASSUME NEW T, NEW s \in Seq(T)
  PROVE  /\ IsFiniteSet(ToSet(s)) /\ ToSet(s) \subseteq T
         /\ ToSet(s) = {s[i] : i \in 1..Len(s)}
<1>1. Len(s) \in Nat /\ DOMAIN s = 1..Len(s) /\ \A i \in 1..Len(s) : s[i] \in T
  BY LenProperties, ElementOfSeq
<1>2. ToSet(s) = {s[i] : i \in 1..Len(s)}
  BY <1>1 DEF ToSet
<1>3. IsFiniteSet(1..Len(s))
  BY <1>1, FS_Interval
<1>4. IsFiniteSet({s[i] : i \in 1..Len(s)})
  BY <1>3, Image
<1> QED
  BY <1>1, <1>2, <1>4

----------------------------------------------------------------------------
\* What a fold over the positions of a sequence computes (see MapThenFoldSet).
Folds(iter, n, A, base, step) ==
    /\ iter \in [SUBSET (1..n) -> A]
    /\ \A s \in SUBSET (1..n) :
          iter[s] = IF s = {} THEN base ELSE step[<<Max(s), iter[s \ {Max(s)}]>>]

\* Max is the element that no other exceeds.
LEMMA MaxOf ==
  ASSUME NEW S \in SUBSET Int, NEW m \in S, \A x \in S : x <= m
  PROVE  Max(S) = m
<1>1. m \in S /\ \A x \in S : m >= x
  OBVIOUS
<1>2. Max(S) \in S /\ \A x \in S : Max(S) >= x
  BY <1>1 DEF Max
<1> DEFINE k == Max(S)
<1> HIDE DEF k
<1>3. k \in S /\ k >= m /\ m >= k
  BY <1>1, <1>2 DEF k
<1>4. k = m
  BY <1>3
<1> QED
  BY <1>4 DEF k

\* Min is the element that exceeds no other.
LEMMA MinOf ==
  ASSUME NEW S \in SUBSET Int, NEW m \in S, \A x \in S : m <= x
  PROVE  Min(S) = m
<1>1. Min(S) \in S /\ \A x \in S : Min(S) <= x
  BY DEF Min
<1> DEFINE k == Min(S)
<1> HIDE DEF k
<1>2. k \in S /\ k <= m /\ m <= k
  BY <1>1 DEF k
<1>3. k = m
  BY <1>2
<1> QED
  BY <1>3 DEF k

\* Finitely many integers have a greatest and a least.
LEMMA Extremes ==
  ASSUME NEW S \in SUBSET Int, IsFiniteSet(S), S # {}
  PROVE  /\ Max(S) \in S /\ \A x \in S : x <= Max(S)
         /\ Min(S) \in S /\ \A x \in S : Min(S) <= x
<1> DEFINE Below == {p \in Int \X Int : p[1] < p[2]}
           Above == {p \in Int \X Int : p[1] > p[2]}
<1>1. Orders(Below, S) /\ Orders(Above, S)
  BY DEF Orders
<1>2. \A x, y \in S : (<<y, x>> \in Below => y <= x) /\ (<<y, x>> \in Above => x <= y)
  OBVIOUS
<1> HIDE DEF Below, Above
<1>3. PICK x : ComesLast(x, S, Below)
  BY <1>1, Greatest
<1>4. PICK z : ComesLast(z, S, Above)
  BY <1>1, Greatest
<1>5. ASSUME NEW y \in S PROVE y <= x /\ z <= y
  <2>1. y \in Int
    OBVIOUS
  <2>2. x \in S /\ (y = x \/ <<y, x>> \in Below)
    BY <1>3 DEF ComesLast
  <2>3. z \in S /\ (y = z \/ <<y, z>> \in Above)
    BY <1>4 DEF ComesLast
  <2>4. y <= x
    BY <1>2, <2>1, <2>2
  <2>5. z <= y
    BY <1>2, <2>1, <2>3
  <2> QED
    BY <2>4, <2>5
<1>6. Max(S) = x /\ Min(S) = z
  <2>1. x \in S /\ z \in S
    BY <1>3, <1>4 DEF ComesLast
  <2> QED
    BY <1>5, <2>1, MaxOf, MinOf
<1> QED
  BY <1>3, <1>4, <1>5, <1>6 DEF ComesLast

\* Such a function exists: the LET-defined function of MapThenFoldSet is one.
LEMMA FoldExists ==
  ASSUME NEW n \in Nat, NEW A, NEW base \in A, NEW step \in [(1..n) \X A -> A]
  PROVE  \E iter : Folds(iter, n, A, base, step)
<1> DEFINE P == {m \in 0..n : \E iter : Folds(iter, m, A, base, step)}
<1>1. 0 \in P
  <2> DEFINE iter == [s \in SUBSET (1..0) |-> base]
  <2>1. \A s \in SUBSET (1..0) : s = {}
    OBVIOUS
  <2>2. Folds(iter, 0, A, base, step)
    BY <2>1 DEF Folds
  <2> QED
    BY <2>2
<1>2. ASSUME NEW m \in 1..n, m - 1 \in P PROVE m \in P
  <2>1. PICK old : Folds(old, m - 1, A, base, step)
    BY <1>2
  <2> DEFINE iter == [s \in SUBSET (1..m) |->
                        IF m \in s THEN step[<<m, old[s \ {m}]>>] ELSE old[s]]
  <2>2. ASSUME NEW s \in SUBSET (1..m)
        PROVE  /\ s \ {m} \in SUBSET (1..(m - 1))
               /\ m \in s => Max(s) = m
               /\ old[s \ {m}] \in A
    <3>1. s \ {m} \in SUBSET (1..(m - 1))
      OBVIOUS
    <3>2. m \in s => Max(s) = m
      BY MaxOf
    <3> QED
      BY <2>1, <3>1, <3>2 DEF Folds
  <2>3. ASSUME NEW s \in SUBSET (1..m)
        PROVE  /\ iter[s] \in A
               /\ iter[s] = IF s = {} THEN base ELSE step[<<Max(s), iter[s \ {Max(s)}]>>]
    <3>1. CASE m \in s
      <4>1. iter[s] = step[<<m, old[s \ {m}]>>]
        BY <3>1
      <4>2. s \ {m} \in SUBSET (1..m)
        OBVIOUS
      <4>3. iter[s \ {m}] = old[s \ {m}]
        BY <4>2
      <4> HIDE DEF iter
      <4> QED
        BY <2>2, <3>1, <4>1, <4>3
    <3>2. CASE m \notin s
      <4>1. s \ {m} = s /\ s \in SUBSET (1..(m - 1))
        BY <2>2, <3>2
      <4>2. iter[s] = old[s] /\ old[s] \in A
        BY <2>1, <3>2, <4>1 DEF Folds
      <4>3. old[s] = IF s = {} THEN base ELSE step[<<Max(s), old[s \ {Max(s)}]>>]
        BY <2>1, <4>1 DEF Folds
      <4>4. iter[s \ {Max(s)}] = old[s \ {Max(s)}]
        <5>1. s \ {Max(s)} \in SUBSET (1..m) /\ m \notin s \ {Max(s)}
          BY <3>2
        <5> QED
          BY <5>1
      <4> HIDE DEF iter
      <4> QED
        BY <4>2, <4>3, <4>4
    <3> QED
      BY <3>1, <3>2
  <2>4. iter \in [SUBSET (1..m) -> A]
    <3>1. \A s \in SUBSET (1..m) : iter[s] \in A
      BY <2>3
    <3> QED
      BY <3>1
  <2> HIDE DEF iter
  <2>5. Folds(iter, m, A, base, step)
    BY <2>3, <2>4 DEF Folds
  <2> QED
    BY <2>5
<1> HIDE DEF P
<1>3. \A i \in 1..n : i - 1 \in P => i \in P
  BY <1>2
<1>4. \A i \in 0..n : i \in P
  BY <1>1, <1>3, UpTo
<1> QED
  BY <1>4 DEF P

\* The largest of a set of positions is one of them, and the last of an interval.
LEMMA MaxPosition ==
  ASSUME NEW n \in Nat
  PROVE  /\ \A s \in SUBSET (1..n) : s # {} => Max(s) \in 1..n
         /\ n # 0 => Max(1..n) = n
<1>1. ASSUME NEW s \in SUBSET (1..n), s # {} PROVE Max(s) \in 1..n
  <2>1. IsFiniteSet(1..n)
    BY FS_Interval
  <2>2. IsFiniteSet(s)
    BY <2>1, FS_Subset
  <2>3. s \in SUBSET Int
    OBVIOUS
  <2>4. Max(s) \in s
    BY <1>1, <2>2, <2>3, Extremes
  <2> QED
    BY <2>4
<1>2. ASSUME n # 0 PROVE Max(1..n) = n
  <2>1. 1..n \in SUBSET Int /\ n \in 1..n /\ \A x \in 1..n : x <= n
    BY <1>2
  <2> QED
    BY <2>1, MaxOf
<1> QED
  BY <1>1, <1>2

\* The steps of a fold that takes the positions from the first to the last, as
\* long as what it has computed so far is in A.
Steps(iter, n, A, base, step) ==
    /\ iter[{}] = base
    /\ \A m \in 1..n : iter[1..(m - 1)] \in A =>
                          iter[1..m] = step[<<m, iter[1..(m - 1)]>>]

\* x is the result of a recursion up to n.
Yields(n, A, base, step, x) ==
    \E f : Recursion(f, n, A, base, step) /\ f[n] = x

\* The fold is a recursion up to n, and so its result is in A.
LEMMA FoldSteps ==
  ASSUME NEW n \in Nat, NEW A, NEW base \in A, NEW step \in [(1..n) \X A -> A],
         NEW iter, Steps(iter, n, A, base, step)
  PROVE  Yields(n, A, base, step, iter[1..n]) /\ iter[1..n] \in A
<1> DEFINE f == [m \in 0..n |-> iter[1..m]]
           P == {m \in 0..n : f[m] \in A}
<1>1. 0 \in 0..n /\ 1..0 = {} /\ f[0] = base
  BY DEF Steps
<1>2. ASSUME NEW m \in 1..n, f[m - 1] \in A
      PROVE  f[m] = step[<<m, f[m - 1]>>] /\ f[m] \in A
  <2>1. m \in 0..n /\ m - 1 \in 0..n
    OBVIOUS
  <2>2. f[m] = iter[1..m] /\ f[m - 1] = iter[1..(m - 1)]
    BY <2>1
  <2> HIDE DEF f
  <2>3. f[m] = step[<<m, f[m - 1]>>]
    BY <1>2, <2>2 DEF Steps
  <2> QED
    BY <1>2, <2>3
<1>3. \A m \in 0..n : f[m] \in A
  <2>1. 0 \in P
    BY <1>1
  <2>2. \A i \in 1..n : i - 1 \in P => i \in P
    <3> HIDE DEF f
    <3>1. ASSUME NEW i \in 1..n, i - 1 \in P PROVE i \in P
      <4>1. f[i - 1] \in A /\ i \in 0..n
        BY <3>1
      <4> QED
        BY <1>2, <4>1
    <3> HIDE DEF P
    <3> QED
      BY <3>1
  <2> HIDE DEF P
  <2>3. \A i \in 0..n : i \in P
    BY <2>1, <2>2, UpTo
  <2> QED
    BY <2>3 DEF P
<1>4. f \in [0..n -> A]
  BY <1>3
<1>5. n \in 0..n /\ f[n] = iter[1..n]
  OBVIOUS
<1>6. \A m \in 1..n : m - 1 \in 0..n
  OBVIOUS
<1> HIDE DEF f
<1>7. Recursion(f, n, A, base, step)
  BY <1>1, <1>2, <1>3, <1>4, <1>6 DEF Recursion
<1>8. Yields(n, A, base, step, iter[1..n])
  BY <1>5, <1>7 DEF Yields
<1> QED
  BY <1>3, <1>5, <1>8

=============================================================================
