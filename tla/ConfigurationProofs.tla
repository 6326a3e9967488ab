------------------------- MODULE ConfigurationProofs -------------------------
(***************************************************************************)
(* The maps that the server looks its feeds up in hold what the            *)
(* configuration says, for any configured instruments and factories: of    *)
(* several definitions with one key the last counts (MapsAgree).  Collect  *)
(* is a fold, and its proof an induction over the pairs it has collected.  *)
(***************************************************************************)
EXTENDS ServerProcess, SequenceLemmas

\* Sequences of pairs.
Pairs(K, V) == Seq([key : K, value : V])

\* Maps from some of the keys.
Maps(K, V) == UNION {[D -> V] : D \in SUBSET K}

\* Of the first m pairs the i-th is the last with the key k.
LastWith(pairs, m, k, i) ==
    /\ i \in 1..m /\ pairs[i].key = k
    /\ \A j \in 1..m : i < j => pairs[j].key # k

\* What the map holds of the first m pairs.
Holds(map, pairs, m) ==
    /\ DOMAIN map = {pairs[i].key : i \in 1..m}
    /\ \A k \in DOMAIN map : \E i : LastWith(pairs, m, k, i) /\ map[k] = pairs[i].value

\* The fold collects the pairs one after the other.
LEMMA CollectHolds ==
  ASSUME NEW K, NEW V, NEW pairs \in Pairs(K, V)
  PROVE  Collect(pairs) \in Maps(K, V) /\ Holds(Collect(pairs), pairs, Len(pairs))
<1> DEFINE n == Len(pairs)
           A == Maps(K, V)
           With(map, pair) == [k \in DOMAIN map \cup {pair.key} |->
                                 IF k = pair.key THEN pair.value ELSE map[k]]
           step == [x \in (1..n) \X A |-> With(x[2], pairs[x[1]])]
           IsFold(iter) == iter = [s \in SUBSET (DOMAIN pairs) |->
             IF s = {} THEN <<>> ELSE With(iter[s \ {Max(s)}], pairs[Max(s)])]
           Fold == CHOOSE iter : IsFold(iter)
<1>1. Collect(pairs) = Fold[DOMAIN pairs]
  BY DEF Collect, FoldLeft, MapThenFoldSet
<1>2. n \in Nat /\ DOMAIN pairs = 1..n
  BY LenProperties DEF Pairs
<1>3. \A i \in 1..n : pairs[i].key \in K /\ pairs[i].value \in V
  <2>1. \A i \in 1..n : pairs[i] \in [key : K, value : V]
    BY ElementOfSeq DEF Pairs
  <2> QED
    BY <2>1
<1> HIDE DEF n
<1>4. <<>> \in A /\ DOMAIN <<>> = {}
  BY DEF Maps
<1>5. step \in [(1..n) \X A -> A]
  <2>1. ASSUME NEW i \in 1..n, NEW map \in A PROVE With(map, pairs[i]) \in A
    <3>1. PICK D \in SUBSET K : map \in [D -> V]
      BY DEF Maps
    <3>2. With(map, pairs[i]) \in [D \cup {pairs[i].key} -> V]
      BY <1>3, <3>1
    <3>3. D \cup {pairs[i].key} \in SUBSET K
      BY <1>3
    <3> HIDE DEF With
    <3> QED
      BY <3>2, <3>3 DEF Maps
  <2> HIDE DEF A, With
  <2> QED
    BY <2>1
<1> HIDE DEF A
<1>6. IsFold(Fold)
  <2>1. PICK iter : Folds(iter, n, A, <<>>, step)
    BY <1>2, <1>4, <1>5, FoldExists
  <2> HIDE DEF With
  <2>2. ASSUME NEW s \in SUBSET (1..n)
        PROVE  iter[s] = IF s = {} THEN <<>> ELSE With(iter[s \ {Max(s)}], pairs[Max(s)])
    <3>1. CASE s = {}
      BY <2>1, <3>1 DEF Folds
    <3>2. CASE s # {}
      <4>1. Max(s) \in 1..n
        BY <1>2, <3>2, MaxPosition
      <4>2. s \ {Max(s)} \in SUBSET (1..n) /\ iter[s \ {Max(s)}] \in A
        BY <2>1 DEF Folds
      <4>3. iter[s] = step[<<Max(s), iter[s \ {Max(s)}]>>]
        BY <2>1, <3>2 DEF Folds
      <4> QED
        BY <3>2, <4>1, <4>2, <4>3
    <3> QED
      BY <3>1, <3>2
  <2>3. iter = [s \in SUBSET (1..n) |-> iter[s]]
    BY <2>1 DEF Folds
  <2> HIDE DEF step
  <2>4. IsFold(iter)
    BY <1>2, <2>2, <2>3
  <2> HIDE DEF IsFold
  <2> QED
    BY <2>4
<1> HIDE DEF Fold, With
<1>7. Fold[{}] = <<>>
  BY <1>2, <1>6
<1>8. ASSUME NEW m \in 1..n, Fold[1..(m - 1)] \in A
      PROVE  Fold[1..m] = step[<<m, Fold[1..(m - 1)]>>]
  <2>1. 1..m \in SUBSET (1..n) /\ 1..m # {} /\ (1..m) \ {m} = 1..(m - 1) /\ m \in Nat /\ m # 0
    <3>1. m \in 0..n /\ m # 0
      BY <1>2
    <3> QED
      BY <1>2, <3>1, Positions
  <2>2. Max(1..m) = m
    BY <2>1, MaxPosition
  <2> HIDE DEF step
  <2>3. Fold[1..m] = With(Fold[1..(m - 1)], pairs[m])
    BY <1>2, <1>6, <2>1, <2>2
  <2> QED
    BY <1>8, <2>3 DEF step
<1>9. Steps(Fold, n, A, <<>>, step)
  <2> HIDE DEF step
  <2> QED
    BY <1>7, <1>8 DEF Steps
<1>s. ASSUME NEW m \in 1..n, NEW map \in A PROVE step[<<m, map>>] = With(map, pairs[m])
  OBVIOUS
<1> HIDE DEF step, IsFold
<1>10. PICK f : Recursion(f, n, A, <<>>, step) /\ f[n] = Fold[1..n]
  <2>1. Yields(n, A, <<>>, step, Fold[1..n])
    BY <1>2, <1>4, <1>5, <1>9, FoldSteps
  <2> QED
    BY <2>1 DEF Yields
<1> DEFINE P == {m \in 0..n : Holds(f[m], pairs, m)}
<1>11. 0 \in P
  <2>1. f[0] = <<>> /\ 1..0 = {} /\ 0 \in 0..n
    BY <1>2, <1>10 DEF Recursion
  <2>2. Holds(<<>>, pairs, 0)
    BY <1>4, <2>1 DEF Holds
  <2> QED
    BY <2>1, <2>2
<1>12. ASSUME NEW m \in 1..n, m - 1 \in P PROVE m \in P
  <2> DEFINE old == f[m - 1]
             map == f[m]
             key == pairs[m].key
  <2>1. old \in A /\ map = step[<<m, old>>] /\ m \in 0..n
    <3>1. m - 1 \in 0..n /\ m \in 0..n
      BY <1>2
    <3> QED
      BY <1>10, <3>1 DEF Recursion
  <2>2. map = With(old, pairs[m])
    BY <1>s, <2>1
  <2>3. Holds(old, pairs, m - 1)
    BY <1>12
  <2> HIDE DEF old, map
  <2>4. /\ DOMAIN map = DOMAIN old \cup {key}
        /\ map[key] = pairs[m].value
        /\ \A k \in DOMAIN old : k # key => map[k] = old[k]
    BY <2>2 DEF With
  <2>5. \A i : i \in 1..m <=> i \in 1..(m - 1) \/ i = m
    BY <1>2
  <2>6. DOMAIN map = {pairs[i].key : i \in 1..m}
    BY <2>3, <2>4, <2>5 DEF Holds
  <2>7. ASSUME NEW k \in DOMAIN map
        PROVE  \E i : LastWith(pairs, m, k, i) /\ map[k] = pairs[i].value
    <3>1. CASE k = key
      <4>1. LastWith(pairs, m, k, m)
        BY <3>1, <1>2 DEF LastWith
      <4> QED
        BY <2>4, <3>1, <4>1
    <3>2. CASE k # key
      <4>1. k \in DOMAIN old
        BY <2>4, <3>2
      <4>2. PICK i : LastWith(pairs, m - 1, k, i) /\ old[k] = pairs[i].value
        BY <2>3, <4>1 DEF Holds
      <4>3. LastWith(pairs, m, k, i)
        BY <2>5, <3>2, <4>2 DEF LastWith
      <4> QED
        BY <2>4, <3>2, <4>1, <4>2, <4>3
    <3> QED
      BY <3>1, <3>2
  <2>8. Holds(map, pairs, m)
    BY <2>6, <2>7 DEF Holds
  <2> QED
    BY <2>1, <2>8 DEF map
<1>13. n \in P
  <2> HIDE DEF P
  <2>1. \A i \in 1..n : i - 1 \in P => i \in P
    BY <1>12
  <2>2. \A i \in 0..n : i \in P
    BY <1>2, <1>11, <2>1, UpTo
  <2> QED
    BY <1>2, <2>2
<1>14. f[n] \in A /\ Holds(f[n], pairs, n)
  BY <1>2, <1>10, <1>13 DEF Recursion
<1> QED
  BY <1>1, <1>2, <1>10, <1>14 DEF A, n

\* For each key the map has the value of the last pair with it.
LastCounts(map, pairs) ==
    /\ DOMAIN map = {pairs[i].key : i \in 1..Len(pairs)}
    /\ \A k \in DOMAIN map :
          LET i == Max({j \in 1..Len(pairs) : pairs[j].key = k})
          IN  i \in 1..Len(pairs) /\ map[k] = pairs[i].value

\* Collect builds such a map.
LEMMA CollectLast ==
  ASSUME NEW K, NEW V, NEW pairs \in Pairs(K, V)
  PROVE  Collect(pairs) \in Maps(K, V) /\ LastCounts(Collect(pairs), pairs)
<1> DEFINE map == Collect(pairs)
           n == Len(pairs)
<1>1. map \in Maps(K, V) /\ Holds(map, pairs, n) /\ n \in Nat
  BY CollectHolds, LenProperties DEF Pairs
<1> HIDE DEF map, n
<1>2. ASSUME NEW k \in DOMAIN map
      PROVE  LET i == Max({j \in 1..n : pairs[j].key = k})
             IN  i \in 1..n /\ map[k] = pairs[i].value
  <2> DEFINE S == {j \in 1..n : pairs[j].key = k}
  <2>1. PICK i : LastWith(pairs, n, k, i) /\ map[k] = pairs[i].value
    BY <1>1 DEF Holds
  <2>2. i \in S /\ S \in SUBSET Int /\ \A j \in S : j <= i
    BY <1>1, <2>1 DEF LastWith
  <2> HIDE DEF S
  <2>3. Max(S) = i
    BY <2>2, MaxOf
  <2> QED
    BY <2>1, <2>3 DEF S, LastWith
<1> QED
  BY <1>1, <1>2 DEF Holds, LastCounts, map, n

\* The map of instruments holds the last instrument of each symbol, with the
\* symbols it has at its sources.
LEMMA InstrumentsHeld ==
  /\ InstrumentMap \in Maps(Symbols, Maps(Sources, STRING))
  /\ \A s \in DOMAIN InstrumentMap :
        /\ InstrumentOf(s).sources \in Pairs(Sources, STRING)
        /\ InstrumentMap[s] = Collect(InstrumentOf(s).sources)
<1> DEFINE V == Maps(Sources, STRING)
           pairs == [i \in DOMAIN Instruments |->
                       [key |-> Instruments[i].symbol, value |-> SourceMapping(Instruments[i])]]
           n == Len(Instruments)
<1>1. n \in Nat /\ DOMAIN Instruments = 1..n
  BY OpeningAssumption, LenProperties
<1>2. ASSUME NEW i \in 1..n
      PROVE  Instruments[i].symbol \in Symbols /\ Instruments[i].sources \in Pairs(Sources, STRING)
  <2>1. Instruments[i] \in [symbol : Symbols, sources : Pairs(Sources, STRING)]
    BY OpeningAssumption, ElementOfSeq DEF Pairs
  <2> QED
    BY <2>1
<1> HIDE DEF n
<1>3. ASSUME NEW i \in 1..n
      PROVE  /\ pairs[i].key = Instruments[i].symbol
             /\ pairs[i].value = Collect(Instruments[i].sources)
             /\ pairs[i] \in [key : Symbols, value : V]
  <2>1. SourceMapping(Instruments[i]) = Collect(Instruments[i].sources)
    BY DEF SourceMapping
  <2>2. Collect(Instruments[i].sources) \in V
    BY <1>2, CollectLast
  <2> HIDE DEF V
  <2> QED
    BY <1>1, <1>2, <2>1, <2>2
<1>4. InstrumentMap = Collect(pairs)
  BY DEF InstrumentMap
<1>5. pairs \in Pairs(Symbols, V) /\ Len(pairs) = n
  <2>1. pairs = [i \in 1..n |-> pairs[i]]
    BY <1>1
  <2> DEFINE T == [key : Symbols, value : V]
  <2> HIDE DEF pairs
  <2>2. \A i \in 1..n : pairs[i] \in T
    BY <1>3
  <2> HIDE DEF T
  <2>3. pairs \in [1..n -> T]
    BY <2>1, <2>2
  <2>4. pairs \in Seq(T) /\ Len(pairs) = n
    BY <1>1, <2>3
  <2> QED
    BY <2>4 DEF Pairs, T
<1> HIDE DEF pairs, V
<1>6. /\ InstrumentMap \in Maps(Symbols, V)
      /\ \A s \in DOMAIN InstrumentMap :
            LET i == Max({j \in 1..n : pairs[j].key = s})
            IN  i \in 1..n /\ InstrumentMap[s] = pairs[i].value
  <2>1. InstrumentMap \in Maps(Symbols, V) /\ LastCounts(InstrumentMap, pairs)
    BY <1>4, <1>5, CollectLast
  <2> QED
    BY <1>5, <2>1 DEF LastCounts
<1>7. ASSUME NEW s \in DOMAIN InstrumentMap
      PROVE  /\ InstrumentOf(s).sources \in Pairs(Sources, STRING)
             /\ InstrumentMap[s] = Collect(InstrumentOf(s).sources)
  <2> DEFINE S == {j \in 1..n : pairs[j].key = s}
  <2>1. S = {j \in DOMAIN Instruments : Instruments[j].symbol = s}
    BY <1>1, <1>3
  <2>2. InstrumentOf(s) = Instruments[Max(S)]
    BY <2>1 DEF InstrumentOf, LastIndex
  <2>3. Max(S) \in 1..n /\ InstrumentMap[s] = pairs[Max(S)].value
    BY <1>6
  <2> HIDE DEF S
  <2> QED
    BY <1>2, <1>3, <2>2, <2>3
<1> QED
  BY <1>6, <1>7 DEF V

\* The map of factories holds the last factory of each source.
LEMMA FactoriesHeld ==
  /\ FactoryMap \in Maps(Sources, BOOLEAN)
  /\ \A src : CanOpen(src) <=> src \in DOMAIN FactoryMap /\ FactoryMap[src]
<1> DEFINE n == Len(Factories)
<1>1. Factories \in Pairs(Sources, BOOLEAN)
  BY OpeningAssumption DEF Pairs
<1>2. DOMAIN Factories = 1..n /\ ToSet(Factories) = {Factories[i] : i \in 1..n}
  BY <1>1, LenProperties DEF Pairs, ToSet
<1> HIDE DEF n
<1>3. /\ FactoryMap \in Maps(Sources, BOOLEAN)
      /\ DOMAIN FactoryMap = {Factories[i].key : i \in 1..n}
      /\ \A k \in DOMAIN FactoryMap :
            LET i == Max({j \in 1..n : Factories[j].key = k})
            IN  FactoryMap[k] = Factories[i].value
  <2>1. FactoryMap \in Maps(Sources, BOOLEAN) /\ LastCounts(FactoryMap, Factories)
    BY <1>1, CollectLast DEF FactoryMap
  <2> QED
    BY <2>1 DEF LastCounts, n
<1>4. ASSUME NEW src PROVE CanOpen(src) <=> src \in DOMAIN FactoryMap /\ FactoryMap[src]
  <2> DEFINE i == Max({j \in 1..n : Factories[j].key = src})
  <2>1. CanOpen(src) <=> (\E f \in ToSet(Factories) : f.key = src) /\ Factories[i].value
    BY <1>2 DEF CanOpen, LastIndex
  <2>2. (\E f \in ToSet(Factories) : f.key = src) <=> src \in DOMAIN FactoryMap
    BY <1>2, <1>3
  <2>3. src \in DOMAIN FactoryMap => FactoryMap[src] = Factories[i].value
    BY <1>3
  <2> HIDE DEF i
  <2> QED
    BY <2>1, <2>2, <2>3
<1> QED
  BY <1>3, <1>4

\* So symbols are mapped to sources, and sources to factories.
LEMMA MapTypes ==
  /\ DOMAIN InstrumentMap \subseteq Symbols
  /\ \A s \in DOMAIN InstrumentMap : DOMAIN InstrumentMap[s] \subseteq Sources
  /\ \A src \in DOMAIN FactoryMap : FactoryMap[src] \in BOOLEAN
BY InstrumentsHeld, FactoriesHeld DEF Maps

\* A feed's sources, and its symbol at each, are those of the last definition of
\* its instrument, and a source can be opened if its last factory succeeds.
THEOREM MapsHoldConfiguration == MapsAgree
<1>1. ASSUME NEW s \in DOMAIN InstrumentMap
      PROVE  /\ SourcesOf(s) = DOMAIN InstrumentMap[s]
             /\ \A src \in SourcesOf(s) : SymbolAt(s, src) = InstrumentMap[s][src]
  <2> DEFINE pairs == InstrumentOf(s).sources
             n == Len(pairs)
  <2>1. pairs \in Pairs(Sources, STRING) /\ InstrumentMap[s] = Collect(pairs)
    BY InstrumentsHeld
  <2>2. \A src : SymbolAt(s, src) = pairs[Max({i \in DOMAIN pairs : pairs[i].key = src})].value
    BY DEF SymbolAt, LastIndex
  <2>3. SourcesOf(s) = {m.key : m \in ToSet(pairs)}
    BY DEF SourcesOf
  <2> HIDE DEF pairs
  <2>4. DOMAIN pairs = 1..n /\ ToSet(pairs) = {pairs[i] : i \in 1..n}
    BY <2>1, LenProperties DEF Pairs, ToSet
  <2> HIDE DEF n
  <2>5. /\ DOMAIN InstrumentMap[s] = {pairs[i].key : i \in 1..n}
        /\ \A k \in DOMAIN InstrumentMap[s] :
              LET i == Max({j \in 1..n : pairs[j].key = k})
              IN  InstrumentMap[s][k] = pairs[i].value
    <3>1. LastCounts(InstrumentMap[s], pairs)
      BY <2>1, CollectLast
    <3> QED
      BY <3>1 DEF LastCounts, n
  <2>6. SourcesOf(s) = DOMAIN InstrumentMap[s]
    BY <2>3, <2>4, <2>5
  <2>7. ASSUME NEW src \in SourcesOf(s)
        PROVE  SymbolAt(s, src) = InstrumentMap[s][src]
    <3> DEFINE last == Max({i \in 1..n : pairs[i].key = src})
    <3>1. SymbolAt(s, src) = pairs[last].value
      BY <2>2, <2>4
    <3>2. InstrumentMap[s][src] = pairs[last].value
      BY <2>5, <2>6
    <3> QED
      BY <3>1, <3>2
  <2> QED
    BY <2>6, <2>7
<1> QED
  BY <1>1, FactoriesHeld DEF MapsAgree

=============================================================================
