--------------------------- MODULE OrderBookProofs ---------------------------
(***************************************************************************)
(* Theorems about OrderBook, for any exchanges, depth, messages, times and *)
(* number of updates: the properties of the runs hold of every summary.    *)
(*                                                                         *)
(* The proofs follow to_proto from the inside: what an exchange's snapshot *)
(* keeps of a message (IngestLevels), the levels of all the snapshots      *)
(* (ContributedQuotes), the keys of the map in their order and how many    *)
(* are better than each (Ranks, BestOf), the levels of one key             *)
(* (SortedRungs), the side they make (LadderOf) and its first level        *)
(* (TopOf); then what cutting the messages costs (CutHarmless) and when    *)
(* the levels of a key outgrow their vector (Repeats).  The summary is     *)
(* to_proto of the snapshots until the publisher panics (Combined), so     *)
(* each of these says something of every state.                            *)
(***************************************************************************)
EXTENDS OrderBook, SequenceLemmas, FunctionTheorems

\* The first entries of a sequence, at most N.
FirstN(s) == SubSeq(s, 1, Min({N, Len(s)}))

IsFirstN(top, s) ==
    /\ Len(top) \in Nat /\ Len(top) <= N /\ Len(top) <= Len(s)
    /\ Len(top) = N \/ Len(top) = Len(s)
    /\ \A i \in 1..Len(top) : i \in 1..Len(s) /\ top[i] = s[i]
    /\ ToSet(top) \subseteq ToSet(s)

\* SubSeq from the first to the N-th entry gives them.
LEMMA FirstEntries ==
  ASSUME NEW T, NEW s \in Seq(T)
  PROVE  FirstN(s) \in Seq(T) /\ IsFirstN(FirstN(s), s)
<1> DEFINE m == Min({N, Len(s)})
           n == Len(s)
<1>1. N \in Nat /\ n \in Nat /\ DOMAIN s = 1..n
  BY OrderBookAssumption, LenProperties
<1> HIDE DEF n
<1>2. m \in Nat /\ m <= N /\ m <= n /\ (m = N \/ m = n)
  <2>1. {N, n} \in SUBSET Int /\ {N, n} # {} /\ IsFiniteSet({N, n})
    <3>1. IsFiniteSet({N} \cup {n})
      BY FS_Singleton, FS_AddElement
    <3>2. {N} \cup {n} = {N, n}
      OBVIOUS
    <3>3. {N, n} \in SUBSET Int /\ {N, n} # {}
      BY <1>1
    <3> QED
      BY <3>1, <3>2, <3>3
  <2>2. m \in {N, n} /\ \A x \in {N, n} : m <= x
    BY <2>1, Extremes DEF n
  <2> QED
    BY <1>1, <2>2
<1> HIDE DEF m
<1> DEFINE top == SubSeq(s, 1, m)
<1>3. \A i \in 1..m : i \in 1..n /\ s[i] \in T
  <2>1. m \in 0..n
    BY <1>1, <1>2
  <2>2. 1..m \in SUBSET (1..n)
    BY <1>1, <2>1, Positions
  <2> QED
    BY <2>2, ElementOfSeq DEF n
<1>4. /\ top \in Seq(T) /\ Len(top) = m
      /\ \A i \in 1..m : top[i] = s[i]
  <2>1. 1 \in Int /\ m \in Int /\ m - 1 + 1 = m /\ (\A i \in 1..m : 1 + i - 1 = i) /\ (~(1 <= m) => m = 0)
    BY <1>2
  <2>2. /\ top \in Seq(T)
        /\ Len(top) = IF 1 <= m THEN m - 1 + 1 ELSE 0
        /\ \A i \in 1..(m - 1 + 1) : top[i] = s[1 + i - 1]
    BY <1>3, <2>1, SubSeqProperties
  <2> HIDE DEF top
  <2> QED
    BY <2>1, <2>2
<1> HIDE DEF top
<1>5. ToSet(top) \subseteq ToSet(s)
  <2>1. DOMAIN top = 1..m
    BY <1>4, LenProperties
  <2> QED
    BY <1>1, <1>3, <1>4, <2>1 DEF ToSet
<1> QED
  BY <1>2, <1>3, <1>4, <1>5 DEF IsFirstN, FirstN, m, top, n

\* The fold over the message keeps entries of it, and all that are read when none
\* of them is zero.
LEMMA IngestLevels ==
  ASSUME NEW entries \in Seq(Entry)
  PROVE  /\ Ingest(entries) \in Seq(Entry)
         /\ (\A i \in DOMAIN entries : i <= N => entries[i].amount > 0) =>
               Ingest(entries) = FirstN(entries)
<1> DEFINE top == FirstN(entries)
           n == Len(top)
           A == Seq(Entry)
           step == [x \in (1..n) \X A |->
                     IF top[x[1]].amount > 0 THEN Append(x[2], top[x[1]]) ELSE x[2]]
           IsFold(iter) == iter = [s \in SUBSET (DOMAIN top) |->
             IF s = {} THEN <<>> 
             ELSE IF top[Max(s)].amount > 0 THEN Append(iter[s \ {Max(s)}], top[Max(s)])
                                           ELSE iter[s \ {Max(s)}]]
           Fold == CHOOSE iter : IsFold(iter)
<1>1. Ingest(entries) = Fold[DOMAIN top]
  BY DEF Ingest, FirstN, FoldLeft, MapThenFoldSet
<1>2. top \in Seq(Entry) /\ n \in Nat /\ DOMAIN top = 1..n /\ IsFirstN(top, entries)
  <2>1. top \in Seq(Entry) /\ IsFirstN(top, entries)
    BY FirstEntries
  <2> QED
    BY <2>1, LenProperties
<1> HIDE DEF top, n
<1>3. \A i \in 1..n : top[i] \in Entry
  BY <1>2, ElementOfSeq DEF n
<1>4. <<>> \in A
  BY EmptySeq
<1>5. step \in [(1..n) \X A -> A]
  <2>1. ASSUME NEW i \in 1..n, NEW q \in A PROVE Append(q, top[i]) \in A
    BY <1>3, AppendProperties
  <2> HIDE DEF A
  <2> QED
    BY <2>1
<1> HIDE DEF A
<1>6. IsFold(Fold)
  <2>1. PICK iter : Folds(iter, n, A, <<>>, step)
    BY <1>2, <1>4, <1>5, FoldExists
  <2>2. ASSUME NEW s \in SUBSET (1..n)
        PROVE  iter[s] = IF s = {} THEN <<>>
                         ELSE IF top[Max(s)].amount > 0
                              THEN Append(iter[s \ {Max(s)}], top[Max(s)])
                              ELSE iter[s \ {Max(s)}]
    <3>1. CASE s = {}
      BY <2>1, <3>1 DEF Folds
    <3>2. CASE s # {}
      <4>1. Max(s) \in 1..n
        BY <1>2, <3>2, MaxPosition
      <4>2. s \ {Max(s)} \in SUBSET (1..n) /\ iter[s \ {Max(s)}] \in A
        BY <2>1 DEF Folds
      <4>3. iter[s] = step[<<Max(s), iter[s \ {Max(s)}]>>]
        BY <2>1, <3>2 DEF Folds
      <4> QED
        BY <3>2, <4>1, <4>2, <4>3
    <3> QED
      BY <3>1, <3>2
  <2>3. iter = [s \in SUBSET (1..n) |-> iter[s]]
    BY <2>1 DEF Folds
  <2> HIDE DEF step
  <2>4. IsFold(iter)
    BY <1>2, <2>2, <2>3
  <2> HIDE DEF IsFold
  <2> QED
    BY <2>4
<1> HIDE DEF Fold
<1>7. Fold[{}] = <<>>
  BY <1>2, <1>6
<1>8. ASSUME NEW m \in 1..n, Fold[1..(m - 1)] \in A
      PROVE  Fold[1..m] = step[<<m, Fold[1..(m - 1)]>>]
  <2>1. 1..m \in SUBSET (1..n) /\ 1..m # {} /\ (1..m) \ {m} = 1..(m - 1) /\ m \in Nat /\ m # 0
    <3>1. m \in 0..n /\ m # 0
      BY <1>2
    <3> QED
      BY <1>2, <3>1, Positions
  <2>2. Max(1..m) = m
    BY <2>1, MaxPosition
  <2> HIDE DEF step
  <2>3. Fold[1..m] = IF top[m].amount > 0 THEN Append(Fold[1..(m - 1)], top[m])
                                           ELSE Fold[1..(m - 1)]
    BY <1>2, <1>6, <2>1, <2>2
  <2> QED
    BY <1>8, <2>3 DEF step
<1>9. Steps(Fold, n, A, <<>>, step)
  <2> HIDE DEF step
  <2> QED
    BY <1>7, <1>8 DEF Steps
<1>10. Yields(n, A, <<>>, step, Fold[1..n]) /\ Fold[1..n] \in A
  <2> HIDE DEF step, IsFold
  <2> QED
    BY <1>2, <1>4, <1>5, <1>9, FoldSteps
<1>11. ASSUME \A i \in DOMAIN entries : i <= N => entries[i].amount > 0
       PROVE  Fold[1..n] = top
  <2>1. \A i \in 1..n : top[i].amount > 0
    <3>1. DOMAIN entries = 1..Len(entries) /\ N \in Nat
      BY LenProperties, OrderBookAssumption
    <3>2. ASSUME NEW i \in 1..n PROVE i \in DOMAIN entries /\ i <= N /\ top[i] = entries[i]
      <4>1. n <= N /\ \A j \in 1..n : j \in 1..Len(entries) /\ top[j] = entries[j]
        BY <1>2 DEF IsFirstN, n
      <4>2. i <= N
        BY <1>2, <3>1, <4>1
      <4> QED
        BY <3>1, <4>1, <4>2
    <3> QED
      BY <1>11, <3>2
  <2>2. PICK f : Recursion(f, n, A, <<>>, step) /\ f[n] = Fold[1..n]
    <3> HIDE DEF step
    <3> QED
      BY <1>10 DEF Yields
  <2> DEFINE Begins(q, m) == Len(q) = m /\ \A i \in 1..m : q[i] = top[i]
             P == {m \in 0..n : Begins(f[m], m)}
  <2>3. 0 \in P
    <3>1. f[0] = <<>> /\ 0 \in 0..n
      BY <1>2, <2>2 DEF Recursion
    <3> QED
      BY <3>1
  <2>4. ASSUME NEW m \in 1..n, m - 1 \in P PROVE m \in P
    <3>1. m \in 0..n /\ m - 1 \in 0..n /\ m \in Nat
      BY <1>2
    <3>2. f[m - 1] \in Seq(Entry) /\ top[m] \in Entry
      BY <1>3, <2>2, <3>1 DEF Recursion, A
    <3>3. f[m] = Append(f[m - 1], top[m])
      <4>1. f[m] = step[<<m, f[m - 1]>>]
        BY <2>2 DEF Recursion
      <4> QED
        BY <2>1, <3>2, <4>1 DEF A
    <3>4. Begins(f[m - 1], m - 1)
      BY <2>4
    <3>5. /\ Len(f[m]) = Len(f[m - 1]) + 1
          /\ \A i \in 1..Len(f[m - 1]) : f[m][i] = f[m - 1][i]
          /\ f[m][Len(f[m - 1]) + 1] = top[m]
      BY <3>2, <3>3, AppendProperties
    <3>6. Begins(f[m], m)
      <4>1. m - 1 + 1 = m /\ \A i \in 1..m : i = m \/ i \in 1..(m - 1)
        BY <3>1
      <4> QED
        BY <3>4, <3>5, <4>1
    <3> QED
      BY <3>1, <3>6
  <2>5. n \in P
    <3> HIDE DEF P
    <3>1. \A i \in 0..n : i \in P
      BY <1>2, <2>3, <2>4, UpTo
    <3> QED
      BY <1>2, <3>1
  <2>6. Fold[1..n] \in Seq(Entry) /\ Begins(Fold[1..n], n)
    BY <1>10, <2>2, <2>5 DEF A
  <2> QED
    BY <1>2, <2>6, SeqEqual DEF n
<1> QED
  BY <1>1, <1>2, <1>10, <1>11 DEF A, top

\* What the exchanges may contribute.
Quote == [exchange : Sources, at : Nat, price : Int \cup {NaN}, amount : Int]

\* Of every exchange two sides, in snapshots or in messages.
HasSides(src) == \A s \in Sources, side \in Sides : src[s][side] \in Seq(Entry)

\* The level that an exchange contributes at a place of its side.
LevelAt(src, side, s, i) ==
    [exchange |-> s, at |-> i, price |-> src[s][side][i].price, amount |-> src[s][side][i].amount]

\* The levels of a side are those at the places of the exchanges' sides.
LEMMA Places ==
  ASSUME NEW src, NEW side
  PROVE  /\ \A l \in Contributed(src, side) :
               /\ l.exchange \in Sources /\ l.at \in DOMAIN src[l.exchange][side]
               /\ l = LevelAt(src, side, l.exchange, l.at)
         /\ \A s \in Sources : \A i \in DOMAIN src[s][side] :
               LevelAt(src, side, s, i) \in Contributed(src, side)
BY DEF Contributed, LevelAt

\* The levels of a side: finitely many, and one at each place.
LEMMA ContributedQuotes ==
  ASSUME NEW src, HasSides(src), NEW side \in Sides
  PROVE  LET levels == Contributed(src, side)
         IN  /\ IsFiniteSet(levels) /\ levels \subseteq Quote
             /\ \A a, b \in levels : a.exchange = b.exchange /\ a.at = b.at => a = b
<1> DEFINE Of(s) == {LevelAt(src, side, s, i) : i \in DOMAIN src[s][side]}
           of == [s \in Sources |-> Of(s)]
           levels == Contributed(src, side)
<1>1. ASSUME NEW s \in Sources
      PROVE  /\ src[s][side] \in Seq(Entry) /\ Len(src[s][side]) \in Nat
             /\ DOMAIN src[s][side] = 1..Len(src[s][side])
             /\ \A i \in DOMAIN src[s][side] : src[s][side][i] \in Entry
  <2>1. src[s][side] \in Seq(Entry)
    BY DEF HasSides
  <2> QED
    BY <2>1, LenProperties, ElementOfSeq
<1>2. ASSUME NEW s \in Sources PROVE IsFiniteSet(Of(s)) /\ Of(s) \subseteq Quote
  <2> DEFINE I == DOMAIN src[s][side]
             f == [i \in I |-> LevelAt(src, side, s, i)]
  <2>1. IsFiniteSet(I) /\ I \subseteq Nat
    <3>1. Len(src[s][side]) \in Nat /\ I = 1..Len(src[s][side])
      BY <1>1
    <3>2. IsFiniteSet(1..Len(src[s][side])) /\ 1..Len(src[s][side]) \subseteq Nat
      BY <3>1, FS_Interval
    <3> QED
      BY <3>1, <3>2
  <2>2. Of(s) = {f[i] : i \in I}
    OBVIOUS
  <2>3. Of(s) \subseteq Quote
    BY <1>1, <2>1 DEF LevelAt, Entry, Quote
  <2> HIDE DEF f, I
  <2>4. IsFiniteSet({f[i] : i \in I})
    BY <2>1, Image
  <2> QED
    BY <2>2, <2>3, <2>4
<1>3. levels = UNION {Of(s) : s \in Sources} /\ {Of(s) : s \in Sources} = {of[s] : s \in Sources}
  BY DEF Contributed, LevelAt
<1>5. IsFiniteSet(UNION {of[s] : s \in Sources})
  <2>1. \A T \in {of[s] : s \in Sources} : IsFiniteSet(T)
    BY <1>2
  <2>2. IsFiniteSet({of[s] : s \in Sources})
    <3> HIDE DEF of
    <3> QED
      BY OrderBookAssumption, Image
  <2> HIDE DEF of
  <2> QED
    BY <2>1, <2>2, FS_UNION
<1>6. levels \subseteq Quote
  BY <1>2, <1>3
<1>7. \A a, b \in levels : a.exchange = b.exchange /\ a.at = b.at => a = b
  BY Places
<1> QED
  BY <1>3, <1>5, <1>6, <1>7

\* Their keys are finitely many numbers.
LEMMA KeysOfQuotes ==
  ASSUME NEW levels, IsFiniteSet(levels), levels \subseteq Quote
  PROVE  /\ IsFiniteSet(Keys(levels)) /\ Keys(levels) \subseteq Int
         /\ \A k : IsFiniteSet(Rung(levels, k)) /\ Rung(levels, k) \subseteq levels
         /\ \A l \in levels : l.amount \in Int /\ Key(l.price) \in Keys(levels)
<1> DEFINE f == [l \in levels |-> Key(l.price)]
<1>1. Keys(levels) = {f[l] : l \in levels}
  BY DEF Keys
<1>2. IsFiniteSet({f[l] : l \in levels})
  <2> HIDE DEF f
  <2> QED
    BY Image
<1>3. ASSUME NEW l \in levels PROVE l.amount \in Int /\ Key(l.price) \in Int
  BY OrderBookAssumption DEF Quote, Key
<1>4. ASSUME NEW k PROVE IsFiniteSet(Rung(levels, k)) /\ Rung(levels, k) \subseteq levels
  <2>1. Rung(levels, k) \subseteq levels
    BY DEF Rung
  <2> QED
    BY <2>1, FS_Subset
<1> QED
  BY <1>1, <1>2, <1>3, <1>4 DEF Keys

\* The keys in the order of the map.
Sorted(side, K) == SortedSeq(K, LAMBDA k, l : Better(side, k, l))

\* They are all there, each once, a better one before a worse.
LEMMA SortedKeys ==
  ASSUME NEW side, NEW K \in SUBSET Int, IsFiniteSet(K)
  PROVE  LET keys == Sorted(side, K)
         IN  /\ keys \in Seq(Int) /\ DOMAIN keys = 1..Len(keys)
             /\ Len(keys) = Cardinality(K) /\ ToSet(keys) = K
             /\ \A i, j \in 1..Len(keys) : i < j => Better(side, keys[i], keys[j])
             /\ \A i, j \in 1..Len(keys) : keys[i] = keys[j] => i = j
<1> DEFINE R == {p \in Int \X Int : Better(side, p[1], p[2])}
           keys == Sorted(side, K)
<1>1. Orders(R, K)
  BY DEF Orders, Better
<1>2. PICK q \in SetToSeqs(K) : Ordered(q, R)
  <2> HIDE DEF R
  <2> QED
    BY <1>1, SortedEnumeration
<1>3. IsSorted(q, LAMBDA k, l : Better(side, k, l))
  BY <1>2 DEF Ordered, IsSorted
<1>4. keys \in SetToSeqs(K) /\ IsSorted(keys, LAMBDA k, l : Better(side, k, l))
  BY <1>2, <1>3 DEF Sorted, SortedSeq
<1> HIDE DEF keys
<1>5. /\ keys \in Seq(K) /\ Len(keys) = Cardinality(K) /\ Len(keys) \in Nat
      /\ DOMAIN keys = 1..Len(keys) /\ ToSet(keys) = K
      /\ \A i, j \in DOMAIN keys : keys[i] = keys[j] => i = j
  BY <1>4, Enumeration
<1>6. keys \in Seq(Int)
  BY <1>5, SeqMonotonic
<1> QED
  BY <1>4, <1>5, <1>6 DEF keys, IsSorted

\* How many keys of K are better than k.
Rank(side, K, k) == Cardinality({l \in K : Better(side, l, k)})

\* The keys better than the i-th are those before it.
LEMMA Ranks ==
  ASSUME NEW side, NEW K \in SUBSET Int, IsFiniteSet(K), NEW i \in 1..Cardinality(K)
  PROVE  LET keys == Sorted(side, K)
         IN  /\ {l \in K : Better(side, l, keys[i])} = {keys[j] : j \in 1..(i - 1)}
             /\ Rank(side, K, keys[i]) = i - 1
<1> DEFINE keys == Sorted(side, K)
           n == Cardinality(K)
<1>1. /\ keys \in Seq(Int) /\ Len(keys) = n /\ n \in Nat
      /\ \A j, k \in 1..n : j < k => Better(side, keys[j], keys[k])
      /\ \A j, k \in 1..n : keys[j] = keys[k] => j = k
      /\ K = {keys[j] : j \in 1..n} /\ \A j \in 1..n : keys[j] \in Int
  <2>1. /\ keys \in Seq(Int) /\ Len(keys) = n /\ ToSet(keys) = K /\ n \in Nat
        /\ DOMAIN keys = 1..n
        /\ \A j, k \in 1..n : j < k => Better(side, keys[j], keys[k])
        /\ \A j, k \in 1..n : keys[j] = keys[k] => j = k
    BY SortedKeys, FS_CardinalityType
  <2> HIDE DEF keys, n
  <2> QED
    BY <2>1, ElementOfSeq DEF ToSet
<1> HIDE DEF keys, n
<1>2. ASSUME NEW j \in 1..n PROVE Better(side, keys[j], keys[i]) <=> j < i
  <2>1. i \in 1..n /\ keys[i] \in Int /\ keys[j] \in Int
    BY <1>1 DEF n
  <2>2. CASE j < i
    BY <1>1, <2>1, <2>2
  <2>3. CASE i < j
    <3>1. Better(side, keys[i], keys[j])
      BY <1>1, <2>1, <2>3
    <3>2. ~Better(side, keys[j], keys[i])
      BY <2>1, <3>1 DEF Better
    <3> QED
      BY <2>1, <2>3, <3>2
  <2>4. CASE i = j
    BY <2>1, <2>4 DEF Better
  <2> QED
    BY <1>1, <2>1, <2>2, <2>3, <2>4
<1>3. \A j : j \in 1..(i - 1) <=> j \in 1..n /\ j < i
  BY <1>1 DEF n
<1>4. {l \in K : Better(side, l, keys[i])} = {keys[j] : j \in 1..(i - 1)}
  <2>1. ASSUME NEW l \in K, Better(side, l, keys[i]) PROVE \E j \in 1..(i - 1) : l = keys[j]
    <3>1. PICK j \in 1..n : l = keys[j]
      BY <1>1
    <3> QED
      BY <1>2, <1>3, <2>1, <3>1
  <2>2. ASSUME NEW j \in 1..(i - 1) PROVE keys[j] \in K /\ Better(side, keys[j], keys[i])
    <3>1. j \in 1..n /\ j < i
      BY <1>3
    <3> QED
      BY <1>1, <1>2, <3>1
  <2> QED
    BY <2>1, <2>2
<1>5. Cardinality({keys[j] : j \in 1..(i - 1)}) = i - 1
  <2> DEFINE I == 1..(i - 1)
  <2>1. IsFiniteSet(I) /\ Cardinality(I) = i - 1
    BY FS_Interval
  <2>2. OneToOne(keys, I)
    BY <1>1, <1>3 DEF OneToOne
  <2> HIDE DEF I
  <2>3. Cardinality({keys[j] : j \in I}) = Cardinality(I)
    BY <2>1, <2>2, Image
  <2> QED
    BY <2>1, <2>3 DEF I
<1> QED
  BY <1>4, <1>5 DEF Rank, keys

\* The keys shown are those that fewer than N keys are better than, the best
\* first; whatever is not better than N keys is not better than N of those shown.
LEMMA BestOf ==
  ASSUME NEW side, NEW levels, IsFiniteSet(Keys(levels)), Keys(levels) \subseteq Int
  PROVE  LET best == BestKeys(side, levels)
             K == Keys(levels)
         IN  /\ best \in Seq(Int)
             /\ \A i, j \in 1..Len(best) : i < j => Better(side, best[i], best[j])
             /\ ToSet(best) = {k \in K : Rank(side, K, k) < N}
             /\ \A k \in K : N <= Rank(side, K, k) => N <= Rank(side, ToSet(best), k)
<1> DEFINE best == BestKeys(side, levels)
           K == Keys(levels)
           keys == Sorted(side, K)
           n == Cardinality(K)
           m == Len(best)
<1>1. /\ keys \in Seq(Int) /\ Len(keys) = n /\ n \in Nat /\ N \in Nat
      /\ \A i, j \in 1..n : i < j => Better(side, keys[i], keys[j])
      /\ \A i, j \in 1..n : keys[i] = keys[j] => i = j
      /\ K = {keys[i] : i \in 1..n}
  <2>1. /\ keys \in Seq(Int) /\ Len(keys) = n /\ ToSet(keys) = K /\ n \in Nat
        /\ DOMAIN keys = 1..n
        /\ \A j, k \in 1..n : j < k => Better(side, keys[j], keys[k])
        /\ \A j, k \in 1..n : keys[j] = keys[k] => j = k
    BY SortedKeys, FS_CardinalityType
  <2> HIDE DEF keys, n
  <2> QED
    BY <2>1, OrderBookAssumption DEF ToSet
<1>2. \A i \in 1..n : /\ {l \in K : Better(side, l, keys[i])} = {keys[j] : j \in 1..(i - 1)}
                      /\ Rank(side, K, keys[i]) = i - 1
  BY Ranks
<1>3. best = FirstN(keys)
  BY DEF BestKeys, FirstN, Sorted
<1> HIDE DEF keys, K, n, best
<1>4. best \in Seq(Int) /\ IsFirstN(best, keys)
  BY <1>1, <1>3, FirstEntries
<1>5. /\ m \in Nat /\ m <= N /\ m <= n /\ (m = N \/ m = n)
      /\ \A i \in 1..m : i \in 1..n /\ best[i] = keys[i]
  BY <1>1, <1>4 DEF IsFirstN
<1> HIDE DEF m
<1>6. \A i \in 1..n : i \in 1..m <=> i - 1 < N
  BY <1>1, <1>5
<1>7. ToSet(best) = {keys[i] : i \in 1..m}
  <2>1. ToSet(best) = {best[i] : i \in 1..m}
    BY <1>4, ToSetFinite DEF m
  <2> QED
    BY <1>5, <2>1
<1>8. ToSet(best) = {k \in K : Rank(side, K, k) < N}
  <2>1. ASSUME NEW i \in 1..m PROVE keys[i] \in K /\ Rank(side, K, keys[i]) < N
    BY <1>1, <1>2, <1>5, <1>6
  <2>2. ASSUME NEW k \in K, Rank(side, K, k) < N PROVE k \in ToSet(best)
    <3>1. PICK i \in 1..n : k = keys[i]
      BY <1>1
    <3>2. i \in 1..m
      BY <1>2, <1>6, <2>2, <3>1
    <3> QED
      BY <1>7, <3>1, <3>2
  <2> QED
    BY <1>7, <2>1, <2>2
<1>9. ASSUME NEW k \in K, N <= Rank(side, K, k) PROVE N <= Rank(side, ToSet(best), k)
  <2>1. PICK i \in 1..n : k = keys[i]
    BY <1>1
  <2>2. N <= i - 1 /\ m = N
    BY <1>1, <1>2, <1>5, <1>9, <2>1
  <2>3. {l \in ToSet(best) : Better(side, l, k)} = {keys[j] : j \in 1..N}
    <3>1. \A j \in 1..N : j \in 1..(i - 1)
      BY <1>1, <2>2
    <3>2. \A j \in 1..N : keys[j] \in K /\ Better(side, keys[j], k)
      BY <1>2, <2>1, <3>1
    <3> QED
      BY <1>7, <2>2, <3>2
  <2> DEFINE I == 1..N
  <2>4. IsFiniteSet(I) /\ Cardinality(I) = N
    BY <1>1, FS_Interval
  <2>5. OneToOne(keys, I)
    BY <1>1, <1>5, <2>2 DEF OneToOne
  <2> HIDE DEF I
  <2>6. Cardinality({keys[j] : j \in I}) = N
    BY <2>4, <2>5, Image
  <2>7. Rank(side, ToSet(best), k) = N
    BY <2>3, <2>6 DEF Rank, I
  <2> QED
    BY <1>1, <2>7
<1>10. \A i, j \in 1..m : i < j => Better(side, best[i], best[j])
  BY <1>1, <1>5
<1> QED
  BY <1>4, <1>8, <1>9, <1>10 DEF best, K, m

\* a stands before b in a side.
Precedes(side, a, b) ==
    \/ Better(side, Key(a.price), Key(b.price))
    \/ Key(a.price) = Key(b.price) /\ a.amount >= b.amount

InOrder(side) == {p \in Quote \X Quote : p[1] # p[2] /\ Precedes(side, p[1], p[2])}

\* The levels of one key are all there, in order.
LEMMA SortedRungs ==
  ASSUME NEW side, NEW levels \in SUBSET Quote, IsFiniteSet(levels), NEW k
  PROVE  LET rung == Rung(levels, k)
         IN  /\ SortedRung(rung) \in Seq(Quote)
             /\ ToSet(SortedRung(rung)) = rung
             /\ Ordered(SortedRung(rung), InOrder(side))
<1> DEFINE rung == Rung(levels, k)
           R == {p \in Quote \X Quote : p[1].amount >= p[2].amount}
           q == SortedRung(rung)
<1>1. IsFiniteSet(rung) /\ rung \subseteq levels /\ \A l \in rung : Key(l.price) = k
  <2>1. IsFiniteSet(rung) /\ rung \subseteq levels
    BY KeysOfQuotes
  <2> QED
    BY <2>1 DEF Rung
<1>2. \A l \in Quote : l.amount \in Int
  BY OrderBookAssumption DEF Quote
<1> HIDE DEF rung
<1>3. Orders(R, rung)
  BY <1>1, <1>2 DEF Orders
<1>4. PICK p \in SetToSeqs(rung) : Ordered(p, R)
  <2> HIDE DEF R
  <2> QED
    BY <1>1, <1>3, SortedEnumeration
<1>5. IsSorted(p, LAMBDA a, b : a.amount >= b.amount)
  BY <1>4 DEF Ordered, IsSorted
<1>6. q \in SetToSeqs(rung) /\ IsSorted(q, LAMBDA a, b : a.amount >= b.amount)
  BY <1>4, <1>5 DEF SortedRung, SortedSeq
<1> HIDE DEF q
<1>7. /\ q \in Seq(rung) /\ ToSet(q) = rung /\ DOMAIN q = 1..Len(q)
      /\ \A i, j \in DOMAIN q : q[i] = q[j] => i = j
  BY <1>1, <1>6, Enumeration
<1>8. ASSUME NEW i \in 1..Len(q), NEW j \in 1..Len(q), i < j
      PROVE  <<q[i], q[j]>> \in InOrder(side)
  <2>1. q[i] \in rung /\ q[j] \in rung /\ q[i] # q[j]
    BY <1>7, <1>8 DEF ToSet
  <2>2. q[i].amount >= q[j].amount
    BY <1>6, <1>8 DEF IsSorted
  <2> QED
    BY <1>1, <2>1, <2>2 DEF InOrder, Precedes
<1>9. q \in Seq(Quote)
  BY <1>1, <1>7, SeqMonotonic
<1> QED
  BY <1>7, <1>8, <1>9 DEF Ordered, q, rung

\* One side of the summary: exactly the quotes of the best keys, in order.
LEMMA LadderOf ==
  ASSUME NEW side, NEW src, IsFiniteSet(Contributed(src, side)), Contributed(src, side) \subseteq Quote
  PROVE  LET levels == Contributed(src, side)
             ladder == Ladder(src, side)
         IN  /\ ladder \in Seq(Quote)
             /\ ToSet(ladder) = {l \in levels : Rank(side, Keys(levels), Key(l.price)) < N}
             /\ Ordered(ladder, InOrder(side))
             /\ Keys(ToSet(ladder)) = ToSet(BestKeys(side, levels))
<1> DEFINE levels == Contributed(src, side)
           ladder == Ladder(src, side)
           K == Keys(levels)
           best == BestKeys(side, levels)
           n == Len(best)
           seqs == [i \in DOMAIN best |-> SortedRung(Rung(levels, best[i]))]
<1>1. /\ IsFiniteSet(K) /\ K \subseteq Int
      /\ \A l \in levels : Key(l.price) \in K
  BY KeysOfQuotes
<1>2. ladder = FlattenSeq(seqs)
  BY DEF Ladder
<1>3. /\ best \in Seq(Int)
      /\ \A i, j \in 1..n : i < j => Better(side, best[i], best[j])
      /\ ToSet(best) = {k \in K : Rank(side, K, k) < N}
  BY <1>1, BestOf
<1>4. \A k : /\ SortedRung(Rung(levels, k)) \in Seq(Quote)
             /\ ToSet(SortedRung(Rung(levels, k))) = Rung(levels, k)
             /\ Ordered(SortedRung(Rung(levels, k)), InOrder(side))
  BY SortedRungs
<1>5. levels \subseteq Quote
  OBVIOUS
<1> HIDE DEF levels, ladder, K, best
<1>6. n \in Nat /\ DOMAIN best = 1..n /\ ToSet(best) = {best[i] : i \in 1..n}
  BY <1>3, LenProperties, ToSetFinite
<1> HIDE DEF n
<1>7. seqs \in Seq(Seq(Quote)) /\ Len(seqs) = n
  <2>1. seqs \in [1..n -> Seq(Quote)]
    BY <1>4, <1>6
  <2> QED
    BY <1>6, <2>1
<1>8. \A i \in 1..n : /\ ToSet(seqs[i]) = Rung(levels, best[i])
                      /\ Ordered(seqs[i], InOrder(side))
  BY <1>4, <1>6
<1> HIDE DEF seqs
<1>9. ASSUME NEW i \in 1..n, NEW j \in 1..n, i < j,
             NEW a \in ToSet(seqs[i]), NEW b \in ToSet(seqs[j])
      PROVE  <<a, b>> \in InOrder(side)
  <2>1. a \in levels /\ b \in levels /\ Key(a.price) = best[i] /\ Key(b.price) = best[j]
    BY <1>8 DEF Rung
  <2>2. Better(side, best[i], best[j])
    BY <1>3, <1>9 DEF n
  <2>3. Key(a.price) \in Int /\ Key(b.price) \in Int
    BY <1>1, <2>1
  <2>4. a # b
    BY <2>1, <2>2, <2>3 DEF Better
  <2> QED
    BY <1>5, <2>1, <2>2, <2>4 DEF InOrder, Precedes
<1>10. /\ FlattenSeq(seqs) \in Seq(Quote)
       /\ ToSet(FlattenSeq(seqs)) = UNION {ToSet(seqs[i]) : i \in 1..n}
       /\ Ordered(FlattenSeq(seqs), InOrder(side))
  BY <1>7, <1>8, <1>9, OrderedFlatten
<1>11. ToSet(ladder) = {l \in levels : Key(l.price) \in ToSet(best)}
  BY <1>2, <1>6, <1>8, <1>10 DEF Rung
<1>12. ToSet(ladder) = {l \in levels : Rank(side, K, Key(l.price)) < N}
  BY <1>1, <1>3, <1>11
<1>13. Keys(ToSet(ladder)) = ToSet(best)
  <2>1. K = {Key(l.price) : l \in levels}
    BY DEF K, Keys
  <2> QED
    BY <1>3, <1>11, <2>1 DEF Keys
<1> QED
  BY <1>2, <1>10, <1>12, <1>13 DEF levels, ladder, K, best

\* The first level of a side has the best price of all.
LEMMA TopOf ==
  ASSUME NEW side, NEW src, IsFiniteSet(Contributed(src, side)), Contributed(src, side) \subseteq Quote
  PROVE  LET K == Keys(Contributed(src, side))
             ladder == Ladder(src, side)
         IN  /\ K = {} <=> ladder = <<>>
             /\ K # {} => /\ ladder[1] \in Contributed(src, side)
                          /\ Key(ladder[1].price) \in K /\ K \subseteq Int
                          /\ Key(ladder[1].price) = IF side = "bids" THEN Max(K) ELSE Min(K)
<1> DEFINE levels == Contributed(src, side)
           K == Keys(levels)
           ladder == Ladder(src, side)
           n == Len(ladder)
           x == IF side = "bids" THEN Max(K) ELSE Min(K)
<1>1. /\ IsFiniteSet(K) /\ K \subseteq Int
      /\ \A l \in levels : Key(l.price) \in K
  BY KeysOfQuotes
<1>2. /\ ladder \in Seq(Quote)
      /\ ToSet(ladder) = {l \in levels : Rank(side, K, Key(l.price)) < N}
      /\ Ordered(ladder, InOrder(side))
  BY LadderOf
<1>3. K = {Key(l.price) : l \in levels}
  BY DEF Keys
<1> HIDE DEF levels, K, ladder
<1>4. n \in Nat /\ (n = 0 <=> ladder = <<>>) /\ ToSet(ladder) = {ladder[i] : i \in 1..n}
  BY <1>2, LenProperties, EmptySeq, ToSetFinite
<1> HIDE DEF n
<1>5. CASE K = {}
  <2>1. ToSet(ladder) = {}
    BY <1>2, <1>3, <1>5
  <2>2. n = 0
    <3> SUFFICES ASSUME n # 0 PROVE FALSE
      OBVIOUS
    <3>1. 1 \in 1..n
      BY <1>4
    <3> QED
      BY <1>4, <2>1, <3>1
  <2> QED
    BY <1>4, <1>5, <2>2 DEF levels, K, ladder
<1>6. CASE K # {}
  <2>1. x \in K /\ \A k \in K : ~Better(side, k, x)
    <3>1. K \in SUBSET Int
      BY <1>1
    <3>2. /\ Max(K) \in K /\ \A k \in K : k <= Max(K)
          /\ Min(K) \in K /\ \A k \in K : Min(K) <= k
      BY <1>1, <1>6, <3>1, Extremes
    <3> DEFINE max == Max(K)
               min == Min(K)
    <3> HIDE DEF max, min
    <3>3. /\ max \in K /\ \A k \in K : ~(k > max)
          /\ min \in K /\ \A k \in K : ~(k < min)
      <4>1. /\ max \in K /\ \A k \in K : k <= max
            /\ min \in K /\ \A k \in K : min <= k
        BY <3>2 DEF max, min
      <4> QED
        BY <3>1, <4>1
    <3>4. x = IF side = "bids" THEN max ELSE min
      BY DEF max, min
    <3> HIDE DEF x
    <3> QED
      BY <3>3, <3>4 DEF Better
  <2> HIDE DEF x
  <2>2. PICK l \in levels : Key(l.price) = x
    BY <1>3, <2>1
  <2>3. Rank(side, K, x) = 0
    <3>1. {k \in K : Better(side, k, x)} = {}
      BY <2>1
    <3> QED
      BY <3>1, FS_EmptySet DEF Rank
  <2>4. PICK j \in 1..n : l = ladder[j]
    BY <1>2, <1>4, <2>2, <2>3, OrderBookAssumption
  <2>5. 1 \in 1..n
    BY <1>4, <2>4
  <2>6. ladder[1] \in levels
    BY <1>2, <1>4, <2>5
  <2>7. Key(ladder[1].price) = x
    <3>1. CASE j = 1
      BY <2>2, <2>4, <3>1
    <3>2. CASE j # 1
      <4>1. 1 < j
        BY <1>4, <2>4, <3>2
      <4>2. <<ladder[1], l>> \in InOrder(side)
        BY <1>2, <2>4, <2>5, <4>1 DEF Ordered, n
      <4>3. Key(ladder[1].price) \in K
        BY <1>1, <2>6
      <4> QED
        BY <2>1, <2>2, <4>2, <4>3 DEF InOrder, Precedes
    <3> QED
      BY <3>1, <3>2
  <2> QED
    BY <1>1, <1>4, <1>6, <2>1, <2>5, <2>6, <2>7 DEF levels, K, ladder, x
<1> QED
  BY <1>5, <1>6

----------------------------------------------------------------------------
\* The levels that fewer than N better prices precede.
LEMMA TopByRank ==
  ASSUME NEW side, NEW levels
  PROVE  Top(side, levels) = {l \in levels : Rank(side, Keys(levels), Key(l.price)) < N}
BY DEF Top, Rank

\* What is better than a better key is better than the key.
LEMMA RankGrows ==
  ASSUME NEW side, NEW K \in SUBSET Int, IsFiniteSet(K), NEW L \in SUBSET K,
         NEW k \in Int, NEW l \in Int, k = l \/ Better(side, k, l)
  PROVE  /\ Rank(side, L, k) <= Rank(side, K, l)
         /\ Rank(side, L, k) \in Nat /\ Rank(side, K, l) \in Nat
<1> DEFINE A == {x \in L : Better(side, x, k)}
           B == {x \in K : Better(side, x, l)}
<1>1. ASSUME NEW x \in A PROVE x \in B
  <2>1. x \in K /\ x \in Int /\ Better(side, x, k)
    OBVIOUS
  <2>2. Better(side, x, l)
    BY <2>1 DEF Better
  <2> QED
    BY <2>1, <2>2
<1>2. IsFiniteSet(B)
  BY FS_Subset
<1> HIDE DEF A, B
<1>3. Cardinality(A) <= Cardinality(B) /\ Cardinality(A) \in Nat /\ Cardinality(B) \in Nat
  BY <1>1, <1>2, FS_Subset, FS_CardinalityType
<1> QED
  BY <1>3 DEF A, B, Rank

\* The best come first: a better price before a worse one.
StrictlyBestFirst(side, entries) ==
    \A i, j \in DOMAIN entries : i < j => Better(side, Key(entries[i].price), Key(entries[j].price))

\* The N entries at the head of such a side precede whatever was cut off it.
LEMMA CutBeaten ==
  ASSUME NEW side, NEW entries \in Seq(Entry), StrictlyBestFirst(side, entries),
         NEW at \in DOMAIN entries, N < at,
         NEW K \in SUBSET Int, IsFiniteSet(K), \A i \in 1..N : Key(entries[i].price) \in K
  PROVE  N <= Rank(side, K, Key(entries[at].price))
<1> DEFINE key == [i \in 1..N |-> Key(entries[i].price)]
           I == 1..N
           B == {k \in K : Better(side, k, Key(entries[at].price))}
<1>1. /\ N \in Nat /\ DOMAIN entries = 1..Len(entries) /\ Len(entries) \in Nat
      /\ \A i \in DOMAIN entries : Key(entries[i].price) \in Int
  <2>1. N \in Nat /\ DOMAIN entries = 1..Len(entries) /\ Len(entries) \in Nat
        /\ \A i \in 1..Len(entries) : entries[i] \in Entry
    BY OrderBookAssumption, LenProperties, ElementOfSeq
  <2> QED
    BY <2>1 DEF Entry, Key
<1>2. \A i \in I : i \in DOMAIN entries /\ i < at
  BY <1>1
<1>3. \A i \in I : key[i] \in B
  BY <1>2 DEF StrictlyBestFirst
<1>4. OneToOne(key, I)
  <2>1. ASSUME NEW i \in I, NEW j \in I, i < j PROVE key[i] # key[j]
    <3>1. Better(side, key[i], key[j]) /\ key[i] \in Int /\ key[j] \in Int
      BY <1>1, <1>2, <2>1 DEF StrictlyBestFirst
    <3> HIDE DEF key
    <3> QED
      BY <3>1 DEF Better
  <2> HIDE DEF key
  <2>2. ASSUME NEW i \in I, NEW j \in I, key[i] = key[j] PROVE i = j
    <3>1. i < j \/ j < i \/ i = j
      OBVIOUS
    <3> QED
      BY <2>1, <2>2, <3>1
  <2> QED
    BY <2>2 DEF OneToOne
<1>5. IsFiniteSet(I) /\ Cardinality(I) = N
  BY <1>1, FS_Interval
<1>6. IsFiniteSet(B)
  BY FS_Subset
<1> HIDE DEF key, I, B
<1>7. Cardinality({key[i] : i \in I}) = N
  BY <1>4, <1>5, Image
<1>8. Cardinality({key[i] : i \in I}) <= Cardinality(B)
  BY <1>3, <1>6, FS_Subset
<1> QED
  BY <1>7, <1>8 DEF B, Rank

\* Of sides that come best first, without a zero among the entries that are read,
\* the first N entries make the same top as all of them.
LEMMA CutHarmless ==
  ASSUME NEW msgs, HasSides(msgs), NEW src, NEW side \in Sides,
         \A s \in Sources : /\ StrictlyBestFirst(side, msgs[s][side])
                            /\ \A i \in DOMAIN msgs[s][side] : i <= N => msgs[s][side][i].amount > 0
                            /\ src[s][side] = FirstN(msgs[s][side]),
         HasSides(src)
  PROVE  Top(side, Contributed(src, side)) =
            Top(side, {l \in Contributed(msgs, side) : l.amount > 0})
<1> DEFINE C == Contributed(src, side)
           M == Contributed(msgs, side)
           Q == {l \in M : l.amount > 0}
           KC == Keys(C)
           KQ == Keys(Q)
<1>1. /\ IsFiniteSet(C) /\ C \subseteq Quote
      /\ IsFiniteSet(M) /\ M \subseteq Quote
      /\ IsFiniteSet(Q) /\ Q \subseteq Quote
  <2>1. /\ IsFiniteSet(C) /\ C \subseteq Quote
        /\ IsFiniteSet(M) /\ M \subseteq Quote
    BY ContributedQuotes
  <2>2. IsFiniteSet(Q)
    BY <2>1, FS_Subset
  <2> QED
    BY <2>1, <2>2
<1>2. /\ IsFiniteSet(KC) /\ KC \subseteq Int /\ \A l \in C : Key(l.price) \in KC
      /\ IsFiniteSet(KQ) /\ KQ \subseteq Int /\ \A l \in Q : Key(l.price) \in KQ
  BY <1>1, KeysOfQuotes
<1>3. ASSUME NEW s \in Sources
      PROVE  LET entries == msgs[s][side]
                 n == Len(src[s][side])
             IN  /\ entries \in Seq(Entry) /\ DOMAIN entries = 1..Len(entries) /\ Len(entries) \in Nat
                 /\ DOMAIN src[s][side] = 1..n /\ n \in Nat
                 /\ n <= N /\ n <= Len(entries) /\ (n = N \/ n = Len(entries))
                 /\ \A i \in 1..n : i \in 1..Len(entries) /\ src[s][side][i] = entries[i]
  <2>1. msgs[s][side] \in Seq(Entry) /\ src[s][side] \in Seq(Entry)
    BY DEF HasSides
  <2>2. IsFirstN(src[s][side], msgs[s][side])
    BY <2>1, FirstEntries
  <2> QED
    BY <2>1, <2>2, LenProperties DEF IsFirstN
<1>4. ASSUME NEW s \in Sources, NEW i \in DOMAIN src[s][side]
      PROVE  /\ i \in DOMAIN msgs[s][side] /\ msgs[s][side][i].amount > 0
             /\ LevelAt(src, side, s, i) = LevelAt(msgs, side, s, i)
  <2>1. i \in DOMAIN msgs[s][side] /\ src[s][side][i] = msgs[s][side][i]
    BY <1>3, <1>4
  <2>2. i <= N
    <3>1. i \in 1..Len(src[s][side]) /\ Len(src[s][side]) \in Nat /\ Len(src[s][side]) <= N
      BY <1>3, <1>4
    <3> QED
      BY <3>1, OrderBookAssumption
  <2> QED
    BY <2>1, <2>2 DEF LevelAt
<1>5. C \subseteq Q
  <2>1. ASSUME NEW l \in C PROVE l \in Q
    <3>1. PICK s \in Sources : l.exchange = s /\ l.at \in DOMAIN src[s][side]
                               /\ l = LevelAt(src, side, s, l.at)
      BY Places
    <3>2. l.at \in DOMAIN msgs[s][side] /\ msgs[s][side][l.at].amount > 0
          /\ l = LevelAt(msgs, side, s, l.at)
      BY <1>4, <3>1
    <3>3. l \in M
      BY <3>2, Places
    <3>4. l.amount = msgs[s][side][l.at].amount
      BY <3>2 DEF LevelAt
    <3> QED
      BY <3>2, <3>3, <3>4
  <2> QED
    BY <2>1
<1>6. ASSUME NEW l \in Q, l \notin C PROVE N <= Rank(side, KC, Key(l.price))
  <2>1. PICK s \in Sources : l.exchange = s /\ l.at \in DOMAIN msgs[s][side]
                             /\ l = LevelAt(msgs, side, s, l.at)
    BY Places
  <2> DEFINE entries == msgs[s][side]
             top == src[s][side]
             at == l.at
  <2>2. at \notin DOMAIN top
    BY <1>4, <1>6, <2>1, Places
  <2>3. /\ entries \in Seq(Entry) /\ DOMAIN entries = 1..Len(entries) /\ Len(entries) \in Nat
        /\ DOMAIN top = 1..Len(top) /\ Len(top) \in Nat
        /\ Len(top) <= N /\ (Len(top) = N \/ Len(top) = Len(entries))
        /\ \A i \in 1..Len(top) : top[i] = entries[i]
    BY <1>3
  <2>4. at \in DOMAIN entries /\ l.price = entries[at].price /\ StrictlyBestFirst(side, entries)
    BY <2>1 DEF LevelAt
  <2>5. N < at /\ Len(top) = N
    <3> DEFINE m == Len(entries)
               n == Len(top)
    <3>1. at \in 1..m /\ at \notin 1..n /\ m \in Nat /\ n \in Nat /\ n <= N /\ (n = N \/ n = m)
          /\ N \in Nat
      BY <2>2, <2>3, <2>4, OrderBookAssumption
    <3> HIDE DEF m, n, at
    <3>2. N < at /\ n = N
      BY <3>1
    <3> QED
      BY <3>2 DEF n
  <2>6. \A i \in 1..N : Key(entries[i].price) \in KC
    <3>1. ASSUME NEW i \in 1..N PROVE Key(entries[i].price) \in KC
      <4>1. LevelAt(src, side, s, i) \in C /\ top[i] = entries[i]
        BY <2>3, <2>5, Places
      <4>2. LevelAt(src, side, s, i).price = entries[i].price
        BY <4>1 DEF LevelAt
      <4> HIDE DEF C, KC, entries
      <4> QED
        BY <1>2, <4>1, <4>2
    <3> QED
      BY <3>1
  <2> HIDE DEF entries, KC, at
  <2>7. N <= Rank(side, KC, Key(entries[at].price))
    BY <1>2, <2>3, <2>4, <2>5, <2>6, CutBeaten
  <2> QED
    BY <2>4, <2>7
<1> HIDE DEF C, Q
<1>7. KC \subseteq KQ
  BY <1>5 DEF Keys
<1>8. ASSUME NEW l \in Q
      PROVE  l \in C /\ Rank(side, KC, Key(l.price)) < N <=> Rank(side, KQ, Key(l.price)) < N
  <2> DEFINE k == Key(l.price)
             rc == Rank(side, KC, k)
             rq == Rank(side, KQ, k)
  <2>1. k \in Int /\ N \in Nat
    BY <1>2, OrderBookAssumption
  <2>2. rc <= rq /\ rc \in Nat /\ rq \in Nat
    <3> HIDE DEF KC, KQ, k
    <3> QED
      BY <1>2, <1>7, <2>1, RankGrows
  <2>3. CASE l \notin C
    <3>1. N <= rc
      BY <1>6, <2>3
    <3> HIDE DEF rc, rq
    <3>2. ~(rq < N)
      BY <2>1, <2>2, <3>1
    <3> QED
      BY <2>3, <3>2 DEF rq
  <2>4. ASSUME rc < N, ~(rq < N) PROVE FALSE
    <3>1. PICK x \in KQ : x \notin KC /\ Better(side, x, k)
      <4>1. ASSUME \A x \in KQ : Better(side, x, k) => x \in KC PROVE FALSE
        <5>1. {x \in KQ : Better(side, x, k)} = {x \in KC : Better(side, x, k)}
          BY <1>7, <4>1
        <5>2. rq = rc
          BY <5>1 DEF Rank
        <5> HIDE DEF rc, rq
        <5> QED
          BY <2>4, <5>2
      <4> QED
        BY <4>1
    <3>2. PICK q \in Q : Key(q.price) = x
      BY DEF Keys
    <3>3. q \notin C
      BY <1>2, <3>1, <3>2
    <3>4. N <= Rank(side, KC, x)
      BY <1>6, <3>2, <3>3
    <3>5. x \in Int
      BY <1>2
    <3>6. Rank(side, KC, x) <= rc /\ Rank(side, KC, x) \in Nat
      <4>1. KC \in SUBSET Int /\ KC \in SUBSET KC /\ IsFiniteSet(KC)
        BY <1>2
      <4> HIDE DEF KC, KQ, k
      <4> QED
        BY <2>1, <3>1, <3>5, <4>1, RankGrows
    <3> HIDE DEF rc, rq
    <3> QED
      BY <2>1, <2>2, <2>4, <3>4, <3>6
  <2>5. CASE l \in C
    <3>1. rq < N => rc < N
      <4> HIDE DEF rc, rq
      <4> QED
        BY <2>1, <2>2
    <3> QED
      BY <2>4, <2>5, <3>1
  <2> QED
    BY <2>3, <2>5
<1>9. {l \in C : Rank(side, KC, Key(l.price)) < N} = {l \in Q : Rank(side, KQ, Key(l.price)) < N}
  BY <1>5, <1>8
<1> QED
  BY <1>9, TopByRank DEF C, Q

----------------------------------------------------------------------------
\* A set of pieces whose sizes are bounded: as many as one of them for each source.
LEMMA Pigeonhole ==
  ASSUME NEW S, IsFiniteSet(S), NEW T, IsFiniteSet(T), NEW owner \in [T -> S], NEW c \in Nat,
         \A s \in S : Cardinality({x \in T : owner[x] = s}) <= c
  PROVE  Cardinality(T) <= Cardinality(S) * c
<1> DEFINE Of(s) == {x \in T : owner[x] = s}
           Numbers(s, f) == /\ f \in [Of(s) -> 1..c]
                            /\ \A x, y \in Of(s) : f[x] = f[y] => x = y
           number == [s \in S |-> CHOOSE f : Numbers(s, f)]
           place == [x \in T |-> <<owner[x], number[owner[x]][x]>>]
           P == S \X (1..c)
<1>1. ASSUME NEW s \in S PROVE Numbers(s, number[s])
  <2> DEFINE O == Of(s)
  <2>1. IsFiniteSet(O) /\ Cardinality(O) \in Nat /\ Cardinality(O) <= c
    BY FS_Subset, FS_CardinalityType
  <2>2. PICK g \in Injection(O, 1..Cardinality(O)) : TRUE
    <3> HIDE DEF O
    <3>1. ExistsBijection(1..Cardinality(O), O)
      BY <2>1, FS_CardinalityType
    <3>2. ExistsBijection(O, 1..Cardinality(O))
      BY <3>1, Fun_ExistsBijSymmetric
    <3> QED
      BY <3>2 DEF ExistsBijection, Bijection
  <2>3. Numbers(s, g)
    <3>1. g \in [O -> 1..Cardinality(O)] /\ \A x, y \in O : g[x] = g[y] => x = y
      BY <2>2 DEF Injection, IsInjective
    <3>2. 1..Cardinality(O) \subseteq 1..c
      <4> HIDE DEF O
      <4> QED
        BY <2>1
    <3> QED
      BY <3>1, <3>2
  <2> HIDE DEF Numbers
  <2> QED
    BY <2>3
<1> HIDE DEF number
<1>2. ASSUME NEW x \in T PROVE place[x] \in P
  BY <1>1
<1>3. ASSUME NEW x \in T, NEW y \in T, place[x] = place[y] PROVE x = y
  <2>1. owner[x] = owner[y] /\ number[owner[x]][x] = number[owner[x]][y]
    BY <1>3
  <2>2. x \in Of(owner[x]) /\ y \in Of(owner[x]) /\ owner[x] \in S
    BY <2>1
  <2> QED
    BY <1>1, <2>1, <2>2
<1>4. OneToOne(place, T)
  BY <1>3 DEF OneToOne
<1>5. IsFiniteSet(1..c) /\ Cardinality(1..c) = c
  BY FS_Interval
<1>6. IsFiniteSet(P) /\ Cardinality(P) = Cardinality(S) * c
  BY <1>5, FS_Product
<1> HIDE DEF place, P
<1>7. Cardinality({place[x] : x \in T}) = Cardinality(T)
  BY <1>4, Image
<1>8. Cardinality({place[x] : x \in T}) <= Cardinality(P)
  BY <1>2, <1>6, FS_Subset
<1> QED
  BY <1>6, <1>7, <1>8

\* When the levels of a key do not fit, one exchange has more than its share.
LEMMA Repeats ==
  ASSUME NEW src, HasSides(src), NEW side \in Sides, NEW k,
         N < Cardinality(Rung(Contributed(src, side), k))
  PROVE  \E s \in Sources :
            N < Cardinality(Sources) * Cardinality({i \in DOMAIN src[s][side] : Key(src[s][side][i].price) = k})
<1> DEFINE levels == Contributed(src, side)
           rung == Rung(levels, k)
           owner == [l \in rung |-> l.exchange]
           Of(s) == {l \in rung : owner[l] = s}
           At(s) == {i \in DOMAIN src[s][side] : Key(src[s][side][i].price) = k}
           size == [s \in Sources |-> Cardinality(At(s))]
           sizes == {size[s] : s \in Sources} \cup {0}
           n == Cardinality(Sources)
           c == Max(sizes)
<1>1. /\ IsFiniteSet(levels) /\ levels \subseteq Quote
      /\ \A a, b \in levels : a.exchange = b.exchange /\ a.at = b.at => a = b
  BY ContributedQuotes
<1>2. IsFiniteSet(rung) /\ rung \subseteq levels
  BY <1>1, KeysOfQuotes
<1>3. owner \in [rung -> Sources]
  BY <1>1, <1>2 DEF Quote
<1>4. ASSUME NEW s \in Sources
      PROVE  /\ IsFiniteSet(At(s)) /\ Cardinality(At(s)) \in Nat
             /\ Cardinality(Of(s)) <= Cardinality(At(s))
  <2> DEFINE O == Of(s)
             A == At(s)
             at == [l \in O |-> l.at]
  <2>1. IsFiniteSet(O)
    BY <1>2, FS_Subset
  <2>2. IsFiniteSet(A) /\ Cardinality(A) \in Nat
    <3>1. src[s][side] \in Seq(Entry)
      BY DEF HasSides
    <3>2. IsFiniteSet(DOMAIN src[s][side])
      BY <3>1, LenProperties, FS_Interval
    <3> QED
      BY <3>2, FS_Subset, FS_CardinalityType
  <2>3. ASSUME NEW l \in O PROVE at[l] \in A
    <3>1. l \in levels /\ Key(l.price) = k /\ l.exchange = s
      BY <2>3 DEF Rung
    <3>2. l.at \in DOMAIN src[s][side] /\ l = LevelAt(src, side, s, l.at)
      BY <3>1, Places
    <3>3. l.price = src[s][side][l.at].price
      BY <3>2 DEF LevelAt
    <3> QED
      BY <3>1, <3>2, <3>3
  <2>4. OneToOne(at, O)
    <3>1. \A l \in O : l \in levels /\ l.exchange = s
      BY DEF Rung
    <3> HIDE DEF O, levels
    <3> QED
      BY <1>1, <3>1 DEF OneToOne, levels
  <2> HIDE DEF at, O, A
  <2>5. Cardinality({at[l] : l \in O}) = Cardinality(O)
    BY <2>1, <2>4, Image
  <2>6. Cardinality({at[l] : l \in O}) <= Cardinality(A)
    BY <2>2, <2>3, FS_Subset
  <2> QED
    BY <2>2, <2>5, <2>6 DEF O, A
<1> HIDE DEF At, Of
<1>5. ASSUME NEW s \in Sources PROVE size[s] = Cardinality(At(s)) /\ size[s] \in Nat
  BY <1>4
<1> HIDE DEF size
<1>6. c \in sizes /\ c \in Nat /\ \A s \in Sources : size[s] <= c
  <2>1. sizes \in SUBSET Int /\ sizes # {} /\ sizes \subseteq Nat /\ \A s \in Sources : size[s] \in sizes
    BY <1>5
  <2>2. IsFiniteSet(sizes)
    <3>1. IsFiniteSet({size[s] : s \in Sources})
      BY OrderBookAssumption, Image
    <3>2. IsFiniteSet({0})
      BY FS_Singleton
    <3> QED
      BY <3>1, <3>2, FS_Union
  <2> HIDE DEF sizes
  <2> QED
    BY <2>1, <2>2, Extremes
<1> HIDE DEF c
<1>7. Cardinality(rung) <= n * c
  <2>1. ASSUME NEW s \in Sources PROVE Cardinality({l \in rung : owner[l] = s}) <= c
    <3>1. Cardinality(Of(s)) <= Cardinality(At(s)) /\ Cardinality(At(s)) <= c
      BY <1>4, <1>5, <1>6
    <3>2. Cardinality(Of(s)) \in Nat /\ Cardinality(At(s)) \in Nat
      <4>1. IsFiniteSet(Of(s))
        BY <1>2, FS_Subset DEF Of
      <4> QED
        BY <1>4, <4>1, FS_CardinalityType
    <3>3. Cardinality(Of(s)) <= c
      BY <1>6, <3>1, <3>2
    <3> QED
      BY <3>3 DEF Of
  <2> HIDE DEF rung, owner
  <2> QED
    BY <1>2, <1>3, <1>6, <2>1, OrderBookAssumption, Pigeonhole
<1>8. N \in Nat /\ n \in Nat /\ Cardinality(rung) \in Nat /\ N < Cardinality(rung)
  BY <1>2, OrderBookAssumption, FS_CardinalityType
<1> HIDE DEF n, rung
<1>9. N < n * c
  BY <1>6, <1>7, <1>8
<1>10. c # 0
  BY <1>8, <1>9
<1>11. PICK s \in Sources : c = size[s]
  BY <1>6, <1>10
<1>12. N < n * Cardinality(At(s))
  BY <1>5, <1>9, <1>11
<1> QED
  BY <1>12 DEF n, At

----------------------------------------------------------------------------
\* The summary is that of the snapshots stored, and these are what was read of the
\* messages; after a panic the snapshots are those that did not fit.
Combined ==
    /\ messages \in [Sources -> Messages \cup {EmptyMessage}]
    /\ sources = [s \in Sources |-> [bids |-> Ingest(messages[s].bids),
                                     asks |-> Ingest(messages[s].asks),
                                     time |-> sources[s].time]]
    /\ \A s \in Sources : sources[s].time \in Times \cup {0}
    /\ panicked \in BOOLEAN
    /\ IF panicked THEN ~Fits(sources) ELSE summary = ToProto(sources)
    /\ updates \in 0..MaxUpdates

\* A message has two sides of entries.
LEMMA MessageSides ==
  ASSUME NEW message \in Messages \cup {EmptyMessage}
  PROVE  message.bids \in Seq(Entry) /\ message.asks \in Seq(Entry)
<1>1. CASE message = EmptyMessage
  BY <1>1, EmptySeq DEF EmptyMessage
<1>2. CASE message \in Messages
  <2>1. message \in [bids : Seq(Entry), asks : Seq(Entry)]
    BY <1>2, OrderBookAssumption
  <2> QED
    BY <2>1
<1> QED
  BY <1>1, <1>2

\* Nothing is read of no entries.
LEMMA IngestNothing == Ingest(<<>>) = <<>>
<1>1. <<>> \in Seq(Entry) /\ DOMAIN <<>> = {} /\ Len(<<>>) = 0
  BY EmptySeq
<1>2. Ingest(<<>>) = FirstN(<<>>)
  BY <1>1, IngestLevels
<1>3. FirstN(<<>>) \in Seq(Entry) /\ Len(FirstN(<<>>)) \in Nat /\ Len(FirstN(<<>>)) <= 0
  BY <1>1, FirstEntries DEF IsFirstN
<1>4. FirstN(<<>>) = <<>>
  BY <1>3, EmptySeq
<1> QED
  BY <1>2, <1>4

\* Every update computes it from the snapshots it has just stored.
LEMMA CombinedInvariant == Spec => []Combined
<1>1. Init => Combined
  <2> SUFFICES ASSUME Init PROVE Combined
    OBVIOUS
  <2>1. \A s \in Sources : messages[s] = EmptyMessage /\ sources[s] = EmptySnapshot
    BY DEF Init
  <2>2. sources = [s \in Sources |-> [bids |-> Ingest(messages[s].bids),
                                      asks |-> Ingest(messages[s].asks),
                                      time |-> sources[s].time]]
    BY <2>1, IngestNothing DEF Init, EmptyMessage, EmptySnapshot
  <2>3. \A s \in Sources : sources[s].time \in Times \cup {0}
    BY <2>1 DEF EmptySnapshot
  <2>4. /\ messages \in [Sources -> Messages \cup {EmptyMessage}]
        /\ panicked = FALSE /\ summary = ToProto(sources)
    BY DEF Init
  <2>5. updates \in 0..MaxUpdates
    BY OrderBookAssumption DEF Init
  <2> QED
    BY <2>2, <2>3, <2>4, <2>5 DEF Combined
<1>2. Combined /\ [Next]_vars => Combined'
  <2> SUFFICES ASSUME Combined, [Next]_vars PROVE Combined'
    OBVIOUS
  <2>1. ASSUME NEW s \in Sources, Update(s) PROVE Combined'
    <3>1. PICK message \in Messages, time \in Times : Store(s, message, time)
      BY <2>1 DEF Update
    <3>2. messages' \in [Sources -> Messages \cup {EmptyMessage}]
      BY <3>1 DEF Store, Combined
    <3>3. sources' = [r \in Sources |-> [bids |-> Ingest(messages'[r].bids),
                                         asks |-> Ingest(messages'[r].asks),
                                         time |-> sources'[r].time]]
      BY <3>1 DEF Store, Snapshot, Combined
    <3>4. \A r \in Sources : sources'[r].time \in Times \cup {0}
      BY <3>1 DEF Store, Snapshot, Combined
    <3>5. /\ panicked' \in BOOLEAN
          /\ IF panicked' THEN ~Fits(sources') ELSE summary' = ToProto(sources')
      <4>1. \/ Fits(sources') /\ summary' = ToProto(sources') /\ panicked' = panicked
            \/ ~Fits(sources') /\ panicked' = TRUE
        BY <2>1 DEF Update
      <4>2. panicked = FALSE
        BY <2>1 DEF Update, Combined
      <4> QED
        BY <4>1, <4>2
    <3>6. updates' \in 0..MaxUpdates
      BY <2>1, OrderBookAssumption DEF Update, Combined
    <3> QED
      BY <3>2, <3>3, <3>4, <3>5, <3>6 DEF Combined
  <2>2. CASE UNCHANGED vars
    BY <2>2 DEF vars, Combined
  <2> QED
    BY <2>1, <2>2 DEF Next
<1> QED
  BY <1>1, <1>2, PTL DEF Spec

\* Then messages and snapshots have sides, of which the lemmas speak.
LEMMA SidesStored ==
  ASSUME Combined
  PROVE  /\ HasSides(messages) /\ HasSides(sources)
         /\ \A s \in Sources, side \in Sides : sources[s][side] = Ingest(messages[s][side])
<1>1. ASSUME NEW s \in Sources, NEW side \in Sides
      PROVE  messages[s][side] \in Seq(Entry) /\ sources[s][side] = Ingest(messages[s][side])
  <2>1. messages[s].bids \in Seq(Entry) /\ messages[s].asks \in Seq(Entry)
    BY MessageSides DEF Combined
  <2> QED
    BY <2>1 DEF Combined, Sides
<1> QED
  BY <1>1, IngestLevels DEF HasSides

\* And the lemmas hold of both sides of the summary, unless the publisher panicked.
LEMMA SideOf ==
  ASSUME Combined, ~panicked, NEW side \in Sides
  PROVE  LET levels == Contributed(sources, side)
         IN  /\ IsFiniteSet(levels) /\ levels \subseteq Quote
             /\ IsFiniteSet(Keys(levels)) /\ Keys(levels) \subseteq Int
             /\ summary[side] = Ladder(sources, side)
             /\ summary[side] \in Seq(Quote) /\ DOMAIN summary[side] = 1..Len(summary[side])
             /\ ToSet(summary[side]) = Top(side, levels)
             /\ Ordered(summary[side], InOrder(side))
<1> DEFINE levels == Contributed(sources, side)
<1>1. IsFiniteSet(levels) /\ levels \subseteq Quote
  BY SidesStored, ContributedQuotes
<1>2. IsFiniteSet(Keys(levels)) /\ Keys(levels) \subseteq Int
  BY <1>1, KeysOfQuotes
<1>3. summary[side] = Ladder(sources, side)
  BY DEF Combined, ToProto, Sides
<1>4. /\ Ladder(sources, side) \in Seq(Quote)
      /\ ToSet(Ladder(sources, side)) = {l \in levels : Rank(side, Keys(levels), Key(l.price)) < N}
      /\ Ordered(Ladder(sources, side), InOrder(side))
  BY <1>1, LadderOf
<1>5. Top(side, levels) = {l \in levels : Rank(side, Keys(levels), Key(l.price)) < N}
  BY TopByRank
<1>6. DOMAIN Ladder(sources, side) = 1..Len(Ladder(sources, side))
  BY <1>4, LenProperties
<1> QED
  BY <1>1, <1>2, <1>3, <1>4, <1>5, <1>6

\* Types, and the summary shows only what the exchanges contribute.
THEOREM TypeCorrect == Spec => []TypeOK
<1>1. Combined => TypeOK
  <2> SUFFICES ASSUME Combined PROVE TypeOK
    OBVIOUS
  <2>1. sources \in [Sources -> [bids : Seq(Entry), asks : Seq(Entry), time : Times \cup {0}]]
    <3>1. ASSUME NEW s \in Sources
          PROVE  /\ Ingest(messages[s].bids) \in Seq(Entry) /\ Ingest(messages[s].asks) \in Seq(Entry)
                 /\ sources[s].time \in Times \cup {0}
      BY MessageSides, IngestLevels DEF Combined
    <3> QED
      BY <3>1 DEF Combined
  <2>2. ASSUME ~panicked, NEW side \in Sides
        PROVE  ToSet(summary[side]) \subseteq Contributed(sources, side)
    BY <2>2, SideOf DEF Top
  <2> QED
    BY <2>1, <2>2 DEF Combined, TypeOK
<1> QED
  BY <1>1, CombinedInvariant, PTL

\* A side is the top of the snapshots, nothing twice, whatever the order of their
\* levels; and cutting the exchanges' messages to N entries before they are merged
\* loses nothing that belongs to the top of the uncut messages, and shows nothing
\* that does not, when these come best first and without a zero among the first N.
THEOREM SideExact == Spec => []LadderExact
<1>1. Combined => LadderExact
  <2> SUFFICES ASSUME Combined, ~panicked, NEW side \in Sides
               PROVE  /\ ToSet(summary[side]) = Top(side, Contributed(sources, side))
                      /\ IsInjective(summary[side])
                      /\ (\A s \in Sources : BestFirst(s, side)) =>
                            ToSet(summary[side]) = Top(side, Quoted(side))
    BY DEF LadderExact
  <2>1. /\ ToSet(summary[side]) = Top(side, Contributed(sources, side))
        /\ DOMAIN summary[side] = 1..Len(summary[side])
        /\ summary[side] \in Seq(Quote)
        /\ Ordered(summary[side], InOrder(side))
    BY SideOf
  <2>2. ASSUME NEW i \in DOMAIN summary[side], NEW j \in DOMAIN summary[side], i # j
        PROVE  summary[side][i] # summary[side][j]
    <3>1. i < j \/ j < i
      BY <2>1, <2>2, LenProperties
    <3> QED
      BY <2>1, <3>1 DEF Ordered, InOrder
  <2>3. ASSUME \A s \in Sources : BestFirst(s, side)
        PROVE  Top(side, Contributed(sources, side)) = Top(side, Quoted(side))
    <3>1. /\ HasSides(messages) /\ HasSides(sources)
          /\ \A s \in Sources : sources[s][side] = Ingest(messages[s][side])
      BY SidesStored
    <3>2. ASSUME NEW s \in Sources
          PROVE  /\ StrictlyBestFirst(side, messages[s][side])
                 /\ \A i \in DOMAIN messages[s][side] : i <= N => messages[s][side][i].amount > 0
      BY <2>3 DEF BestFirst, StrictlyBestFirst
    <3>3. ASSUME NEW s \in Sources PROVE sources[s][side] = FirstN(messages[s][side])
      <4>1. messages[s][side] \in Seq(Entry)
        BY <3>1 DEF HasSides
      <4> QED
        BY <3>1, <3>2, <4>1, IngestLevels
    <3> QED
      BY <3>1, <3>2, <3>3, CutHarmless DEF Quoted
  <2> QED
    BY <2>1, <2>2, <2>3 DEF IsInjective
<1> QED
  BY <1>1, CombinedInvariant, PTL

\* The keys come in the order of the map, the levels of one by their amounts; and
\* so they stay when the publisher has panicked.
THEOREM SideSorted == Spec => []LadderSorted
<1>1. Combined /\ ~panicked => LadderSorted
  <2> SUFFICES ASSUME Combined, ~panicked, NEW side \in Sides,
                      NEW i \in DOMAIN summary[side], NEW j \in DOMAIN summary[side], i < j
               PROVE  Precedes(side, summary[side][i], summary[side][j])
    BY DEF LadderSorted, Precedes
  <2>1. DOMAIN summary[side] = 1..Len(summary[side]) /\ Ordered(summary[side], InOrder(side))
    BY SideOf
  <2> QED
    BY <2>1 DEF Ordered, InOrder
<1>2. Init => ~panicked
  BY DEF Init
<1>3. Combined /\ Combined' /\ LadderSorted /\ [Next]_vars => LadderSorted'
  <2> SUFFICES ASSUME Combined, Combined', LadderSorted, [Next]_vars PROVE LadderSorted'
    OBVIOUS
  <2>1. CASE ~panicked'
    <3>1. (Combined /\ ~panicked => LadderSorted)'
      BY <1>1, PTL
    <3> QED
      BY <2>1, <3>1
  <2>2. CASE panicked'
    <3>1. summary' = summary
      BY <2>2 DEF Next, Update, Combined, vars
    <3> QED
      BY <3>1 DEF LadderSorted
  <2> QED
    BY <2>1, <2>2
<1> QED
  BY <1>1, <1>2, <1>3, CombinedInvariant, PTL DEF Spec

\* The spread is that of the best levels of the snapshots.
THEOREM SpreadExact == Spec => []SpreadOfBest
<1>1. Combined => SpreadOfBest
  <2> SUFFICES ASSUME Combined, ~panicked PROVE SpreadOfBest
    BY DEF SpreadOfBest
  <2> DEFINE bids == Keys(Contributed(sources, "bids"))
             asks == Keys(Contributed(sources, "asks"))
             best == Ladder(sources, "bids")
             ask == Ladder(sources, "asks")
  <2>1. summary.spread = SpreadFrom(best, ask)
    BY DEF Combined, ToProto
  <2>2. \A side \in Sides : /\ IsFiniteSet(Contributed(sources, side))
                            /\ Contributed(sources, side) \subseteq Quote
    BY SideOf
  <2>3. /\ bids = {} <=> best = <<>>
        /\ bids # {} => /\ best[1] \in Quote /\ Max(bids) \in Int
                        /\ Key(best[1].price) = Max(bids)
    BY <2>2, TopOf DEF Sides
  <2>4. /\ asks = {} <=> ask = <<>>
        /\ asks # {} => /\ ask[1] \in Quote /\ Min(asks) \in Int
                        /\ Key(ask[1].price) = Min(asks)
    BY <2>2, TopOf DEF Sides
  <2>5. ASSUME NEW l \in Quote
        PROVE  /\ Positive(l.price) <=> Key(l.price) > 0
               /\ Positive(l.price) => l.price = Key(l.price)
    BY OrderBookAssumption DEF Quote, Positive, Key
  <2> HIDE DEF bids, asks, best, ask
  <2>6. SpreadFrom(best, ask) = IF bids # {} /\ asks # {} /\ Max(bids) > 0 /\ Min(asks) > 0
                                THEN Min(asks) - Max(bids) ELSE NaN
    BY <2>3, <2>4, <2>5 DEF SpreadFrom
  <2> QED
    BY <2>1, <2>6 DEF SpreadOfBest, bids, asks
<1> QED
  BY <1>1, CombinedInvariant, PTL

\* Pushing the levels of one price overflows its array only when an exchange repeats
\* the price more than its share of the room.  The code has two exchanges
\* (NUM_SOURCES) and room for ten: six times.
THEOREM OverflowRepeats == Spec => []OverflowOnlyByRepeats
<1>1. Combined => OverflowOnlyByRepeats
  <2> SUFFICES ASSUME Combined, panicked PROVE OverflowOnlyByRepeats
    BY DEF OverflowOnlyByRepeats
  <2>1. HasSides(sources)
    BY SidesStored
  <2>2. PICK side \in Sides : \E k \in Keys(Contributed(sources, side)) :
           ~HasRoom(Rung(Contributed(sources, side), k))
    BY DEF Combined, Fits
  <2>3. PICK k \in Keys(Contributed(sources, side)) :
           ~HasRoom(Rung(Contributed(sources, side), k))
    BY <2>2
  <2>4. N < Cardinality(Rung(Contributed(sources, side), k))
    <3>1. IsFiniteSet(Rung(Contributed(sources, side), k))
      BY <2>1, ContributedQuotes, KeysOfQuotes
    <3>2. Cardinality(Rung(Contributed(sources, side), k)) \in Nat
      BY <3>1, FS_CardinalityType
    <3> QED
      BY <2>3, <3>2, OrderBookAssumption DEF HasRoom
  <2>5. PICK s \in Sources :
           N < Cardinality(Sources) *
               Cardinality({i \in DOMAIN sources[s][side] : Key(sources[s][side][i].price) = k})
    BY <2>1, <2>4, Repeats
  <2> QED
    BY <2>5 DEF OverflowOnlyByRepeats
<1> QED
  BY <1>1, CombinedInvariant, PTL

\* An exchange's quote leaves the summary by another's snapshot only when N better
\* prices are shown instead.
THEOREM OthersStay == Spec => OthersOnlyDisplaced
<1> DEFINE Others == \A side \in Sides, s \in Sources : sources'[s] = sources[s] =>
              \A l \in ToSet(summary[side]) :
                 \/ l.exchange # s
                 \/ l \in ToSet(summary'[side])
                 \/ N <= Cardinality({k \in Keys(ToSet(summary'[side])) :
                                         Better(side, k, Key(l.price))})
<1>1. Combined /\ Combined' /\ [Next]_vars => [Others]_vars
  <2> SUFFICES ASSUME Combined, Combined', NEW r \in Sources, Update(r),
                      NEW side \in Sides, NEW s \in Sources,
                      sources'[s] = sources[s],
                      NEW l \in ToSet(summary[side]), l.exchange = s,
                      l \notin ToSet(summary'[side])
               PROVE  N <= Cardinality({k \in Keys(ToSet(summary'[side])) :
                                           Better(side, k, Key(l.price))})
    BY DEF Next
  <2> DEFINE levels == Contributed(sources', side)
             K == Keys(levels)
             ladder == Ladder(sources', side)
             best == BestKeys(side, levels)
             k == Key(l.price)
  <2>1. ~panicked /\ ~panicked'
    BY DEF Update, Combined
  <2>2. IsFiniteSet(levels) /\ levels \subseteq Quote
    <3>1. (Combined => HasSides(sources))'
      BY SidesStored, PTL
    <3> QED
      BY <3>1, ContributedQuotes
  <2>3. summary'[side] = ladder
    BY <2>1 DEF Combined, ToProto, Sides
  <2>4. l \in levels
    <3>1. l \in Contributed(sources, side)
      BY <2>1, SideOf DEF Top
    <3> QED
      BY <3>1 DEF Contributed
  <2>5. IsFiniteSet(K) /\ K \subseteq Int /\ k \in K
    BY <2>2, <2>4, KeysOfQuotes
  <2>6. /\ ToSet(ladder) = {a \in levels : Rank(side, K, Key(a.price)) < N}
        /\ Keys(ToSet(ladder)) = ToSet(best)
    BY <2>2, LadderOf
  <2>7. N <= Rank(side, K, k)
    <3>1. IsFiniteSet({a \in K : Better(side, a, k)})
      BY <2>5, FS_Subset
    <3>2. Rank(side, K, k) \in Nat
      BY <3>1, FS_CardinalityType DEF Rank
    <3> QED
      BY <2>3, <2>4, <2>6, <3>2, OrderBookAssumption
  <2>8. N <= Rank(side, ToSet(best), k)
    BY <2>5, <2>7, BestOf
  <2> QED
    BY <2>3, <2>6, <2>8 DEF Rank
<1> QED
  BY <1>1, CombinedInvariant, PTL DEF Spec, OthersOnlyDisplaced

----------------------------------------------------------------------------
\* The time of the summary: the greatest of those that contribute, or zero.
LEMMA LatestOf ==
  ASSUME NEW src, \A s \in Sources : src[s].time \in Nat
  PROVE  /\ LatestTime(src) \in Nat
         /\ LatestTime(src) = 0 \/ \E s \in Contributors(src) : LatestTime(src) = src[s].time
         /\ \A s \in Contributors(src) : src[s].time <= LatestTime(src)
<1> DEFINE S == Contributors(src)
           time == [s \in S |-> src[s].time]
           T == {0} \cup {time[s] : s \in S}
<1>1. IsFiniteSet(S) /\ S \subseteq Sources
  BY OrderBookAssumption, FS_Subset DEF Contributors
<1>2. LatestTime(src) = Max(T) /\ \A s \in S : time[s] = src[s].time /\ time[s] \in Nat
  BY <1>1 DEF LatestTime
<1> HIDE DEF S, time
<1>3. T \subseteq Nat /\ T # {}
  BY <1>2
<1>4. IsFiniteSet(T)
  <2>1. IsFiniteSet({time[s] : s \in S})
    BY <1>1, Image
  <2>2. IsFiniteSet({0})
    BY FS_Singleton
  <2> QED
    BY <2>1, <2>2, FS_Union
<1>5. Max(T) \in T /\ \A t \in T : t <= Max(T)
  <2> HIDE DEF T
  <2>1. T \in SUBSET Int
    BY <1>3
  <2> QED
    BY <1>3, <1>4, <2>1, Extremes
<1> DEFINE max == Max(T)
<1> HIDE DEF max
<1>6. max \in T /\ \A t \in T : t <= max
  BY <1>5 DEF max
<1> QED
  BY <1>2, <1>3, <1>6 DEF S, max

\* The time of the summary goes back only by the exchange whose time it was: it is
\* the greatest of those that contribute, and stays while that one does.
THEOREM ArrivalOwned == Spec => ArrivalGoesBackByItsOwner
<1> DEFINE Back == summary'.arrival < summary.arrival =>
                     \E s \in Contributors(sources) :
                        /\ sources[s].time = summary.arrival
                        /\ IsEmpty(sources'[s]) \/ sources'[s].time < sources[s].time
<1>1. Combined /\ Combined' /\ [Next]_vars => [Back]_vars
  <2> SUFFICES ASSUME Combined, Combined', NEW r \in Sources, Update(r),
                      summary'.arrival < summary.arrival
               PROVE  Back
    BY DEF Next
  <2>1. \A s \in Sources : sources[s].time \in Nat /\ sources'[s].time \in Nat
    <3>1. Times \cup {0} \subseteq Nat
      BY OrderBookAssumption
    <3> QED
      BY <3>1 DEF Combined
  <2>2. summary.arrival = LatestTime(sources) /\ LatestTime(sources) \in Nat
    BY <2>1, LatestOf DEF Update, Combined, ToProto
  <2>3. ~panicked'
    <3>1. CASE panicked'
      <4>1. summary' = summary
        BY <3>1 DEF Update, Combined
      <4> QED
        BY <2>2, <4>1
    <3> QED
      BY <3>1 DEF Combined
  <2>4. summary'.arrival = LatestTime(sources') /\ LatestTime(sources') \in Nat
    BY <2>1, <2>3, LatestOf DEF Combined, ToProto
  <2>5. PICK s \in Contributors(sources) : LatestTime(sources) = sources[s].time
    BY <2>1, <2>2, <2>4, LatestOf
  <2>6. ASSUME ~IsEmpty(sources'[s]), ~(sources'[s].time < sources[s].time) PROVE FALSE
    <3>1. s \in Sources /\ s \in Contributors(sources')
      BY <2>6 DEF Contributors
    <3>2. sources'[s].time <= LatestTime(sources')
      BY <2>1, <3>1, LatestOf
    <3> QED
      BY <2>1, <2>2, <2>4, <2>5, <2>6, <3>1, <3>2
  <2> QED
    BY <2>2, <2>5, <2>6
<1> QED
  BY <1>1, CombinedInvariant, PTL DEF Spec, ArrivalGoesBackByItsOwner

=============================================================================
