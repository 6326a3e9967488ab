------------------------- MODULE FeedPipelineProofs -------------------------
(***************************************************************************)
(* Theorems about FeedPipeline, for any exchanges, streams, queue length   *)
(* and numbers of messages and failures: snapshots keep their order, the   *)
(* newest is never skipped, and clients are served as ConflatedFeed        *)
(* promises.                                                               *)
(***************************************************************************)
EXTENDS FeedPipeline, SequenceTheorems, TLAPS

\* What the publisher's queue holds.
Queued == [source : Sources, version : Nat]

LEMMA InitIInv == Init => IInv
<1> SUFFICES ASSUME Init PROVE IInv
  OBVIOUS
<1> USE ExchangeAssumption, PublisherAssumption
    DEF Init, ExchangeInit, PublisherInit
<1>1. ExchangeTypeOK
  BY DEF ExchangeTypeOK, Links
<1>2. PublisherTypeOK
  <2>1. queue \in Seq(Queued) /\ Len(queue) = 0
    BY EmptySeq
  <2>2. queue \in Seq([source : Sources, version : Nat]) /\ Len(queue) <= Backlog
    BY <2>1 DEF Queued
  <2>3. combined \in Books
    BY DEF Books
  <2> QED
    BY <2>2, <2>3 DEF PublisherTypeOK
<1>3. TypeOK
  BY <1>1, <1>2 DEF TypeOK, Attached, Books, NoBook
<1>4. InOrder /\ CellNewest /\ NewestInFlight
  BY DEF InOrder, CellNewest, NewestInFlight, Versions
<1>5. StreamsBehind
  BY DEF StreamsBehind, AtMost, NoBook, Sending
<1> QED
  BY <1>3, <1>4, <1>5 DEF IInv

----------------------------------------------------------------------------
\* Types.
LEMMA TypeStep ==
  ASSUME TypeOK, CellNewest, [Next]_vars
  PROVE  TypeOK'
<1> USE ExchangeAssumption, PublisherAssumption
    DEF TypeOK, ExchangeTypeOK, PublisherTypeOK
<1>1. ASSUME NEW s \in Sources, Exchange(s) PROVE TypeOK'
  <2> USE <1>1 DEF Exchange, publisherVars, forwarderVars, streamVars, Move
  <2>1. CASE ExchangeStep(s)
    BY <2>1 DEF ExchangeStep, Tell, StoreError, TellError, Retry, Close, Links
  <2>2. CASE Connect(s)
    BY <2>2 DEF Connect, Links
  <2>3. CASE Receive(s)
    BY <2>3 DEF Receive, CellNewest, Links
  <2>4. CASE Drop(s)
    <3>1. drops' \in 0..MaxDrops
      BY <2>4 DEF Drop
    <3>2. link' \in [Sources -> Links]
      BY <2>4 DEF Drop, Links
    <3> QED
      BY <2>4, <3>1, <3>2 DEF Drop
  <2>5. CASE Panic(s)
    BY <2>5 DEF Panic, Links
  <2> QED
    BY <2>1, <2>2, <2>3, <2>4, <2>5 DEF ExchangeNext
<1>2. CASE Publish
  <2> USE DEF Publish, exchangeVars, forwarderVars, streamVars
  <2>1. CASE Combine
    <3>1. /\ Head(queue) \in Queued
          /\ Tail(queue) \in Seq(Queued)
          /\ Len(Tail(queue)) = Len(queue) - 1
      BY <2>1, HeadTailProperties DEF Combine, Queued
    <3>2. queue' = Tail(queue) /\ queue' \in Seq(Queued) /\ Len(queue') <= Backlog
      BY <2>1, <3>1 DEF Combine
    <3>3. combined' \in Books /\ latest' = combined'
      BY <2>1, <3>1 DEF Combine, Books, Queued
    <3>4. PublisherTypeOK'
      BY <2>1, <3>2, <3>3 DEF Combine, Queued
    <3> QED
      BY <1>2, <3>4
  <2>2. CASE TellChange \/ Stop \/ Finish
    BY <1>2, <2>2 DEF TellChange, Stop, Finish
  <2> QED
    BY <1>2, <2>1, <2>2 DEF PublisherStep
<1>3. ASSUME NEW s \in Sources, ForwarderStep(s) PROVE TypeOK'
  <2> USE DEF Forward, exchangeVars, publisherVars, streamVars
  <2>1. CASE SendSnapshot(s)
    <3>1. [source |-> s, version |-> held[s]] \in [source : Sources, version : Nat]
      OBVIOUS
    <3>2. queue' \in Seq([source : Sources, version : Nat]) /\ Len(queue') <= Backlog
      BY <2>1, <3>1 DEF SendSnapshot, Enqueue, HasRoom
    <3> QED
      BY <2>1, <3>2 DEF SendSnapshot, Enqueue
  <2>2. CASE LoadSnapshot(s)
    BY <2>2 DEF LoadSnapshot, Versions
  <2>3. CASE SendSnapshotEnds(s)
    BY <2>3 DEF SendSnapshotEnds
  <2>4. CASE WakeForwarder(s)
    BY <2>4 DEF WakeForwarder
  <2> QED
    BY <1>3, <2>1, <2>2, <2>3, <2>4 DEF ForwarderStep
<1>4. ASSUME NEW st \in Streams,
             Attach(st) \/ StreamStep(st) \/ ClientGone(st) \/ ShutdownNoticed(st)
      PROVE  TypeOK'
  <2> USE DEF Goto, exchangeVars, publisherVars, forwarderVars, Attached
  <2>1. CASE Attach(st)
    BY <2>1 DEF Attach
  <2>4. CASE LoadInitial(st)
    BY <2>4 DEF LoadInitial
  <2>5. CASE LoadLatest(st)
    BY <2>5 DEF LoadLatest
  <2>6. CASE Send(st)
    <3>1. channel' \in [Streams -> Books \cup {NoSummary}]
      BY <2>6 DEF Send
    <3>2. pc' \in [Streams -> Attached \cup {"idle", "ended"}]
      BY <2>6 DEF Send
    <3> QED
      BY <2>6, <3>1, <3>2 DEF Send
  <2>2. CASE WatchLatest(st) \/ ChangeNoticed(st)
    BY <2>2 DEF WatchLatest, ChangeNoticed, NewReceiver, SeeChange
  <2>3. CASE LoadStopped(st) \/ ClientGone(st) \/ ShutdownNoticed(st)
    BY <2>3 DEF LoadStopped, ClientGone, ShutdownNoticed, Leave, DropReceiver
  <2> QED
    BY <1>4, <2>1, <2>2, <2>3, <2>4, <2>5, <2>6 DEF StreamStep
<1>5. ASSUME NEW st \in Streams, Take(st) PROVE TypeOK'
  BY <1>5 DEF Take, exchangeVars, publisherVars, forwarderVars
<1>6. CASE Signal \/ ShutdownReturns
  BY <1>6 DEF Signal, ShutdownReturns, exchangeVars, publisherVars,
              forwarderVars, streamVars
<1>7. CASE UNCHANGED vars
  BY <1>7 DEF vars, exchangeVars, publisherVars, forwarderVars, streamVars
<1> QED
  BY <1>1, <1>2, <1>3, <1>4, <1>5, <1>6, <1>7 DEF Next

----------------------------------------------------------------------------
\* What the publisher's task takes from its queue, and what is left.
LEMMA CombineTakesHead ==
  ASSUME PublisherTypeOK, Combine
  PROVE  /\ queue # <<>> /\ 1 \in DOMAIN queue
         /\ queue[1] \in Queued
         /\ combined' = [combined EXCEPT ![queue[1].source] = queue[1].version]
         /\ \A i \in DOMAIN queue' : /\ i \in Nat \ {0} /\ i + 1 \in DOMAIN queue
                                      /\ queue'[i] = queue[i + 1]
         /\ \A i \in DOMAIN queue : i = 1 \/ i - 1 \in DOMAIN queue'
<1>1. queue \in Seq(Queued) /\ queue # <<>> /\ queue' = Tail(queue)
  BY DEF PublisherTypeOK, Combine, Queued
<1>2. /\ Len(queue) \in Nat \ {0}
      /\ DOMAIN queue = 1..Len(queue)
      /\ DOMAIN queue' = 1..(Len(queue) - 1)
      /\ \A i \in 1..(Len(queue) - 1) : queue'[i] = queue[i + 1]
  BY <1>1, EmptySeq, HeadTailProperties, LenProperties
<1>3. queue[1] \in Queued /\ Head(queue) = queue[1]
  BY <1>1, <1>2, ElementOfSeq
<1>4. combined' = [combined EXCEPT ![queue[1].source] = queue[1].version]
  BY <1>3 DEF Combine
<1>5. \A i \in DOMAIN queue' : /\ i \in Nat \ {0} /\ i + 1 \in DOMAIN queue
                               /\ queue'[i] = queue[i + 1]
  BY <1>2
<1> QED
  BY <1>1, <1>2, <1>3, <1>4, <1>5

\* What a source task adds to it.
LEMMA EnqueueAppends ==
  ASSUME PublisherTypeOK, NEW s \in Sources, NEW v \in Nat, Enqueue(s, v)
  PROVE  \E n \in Nat : /\ DOMAIN queue = 1..n
                        /\ DOMAIN queue' = 1..(n + 1)
                        /\ \A i \in 1..n : queue'[i] = queue[i]
                        /\ queue'[n + 1] = [source |-> s, version |-> v]
<1>1. queue \in Seq(Queued) /\ [source |-> s, version |-> v] \in Queued
  BY DEF PublisherTypeOK, Queued
<1>2. queue' = Append(queue, [source |-> s, version |-> v])
  BY DEF Enqueue
<1>3. Len(queue) \in Nat /\ DOMAIN queue = 1..Len(queue)
  BY <1>1, LenProperties
<1>4. /\ DOMAIN queue' = 1..(Len(queue) + 1)
      /\ \A i \in 1..Len(queue) : queue'[i] = queue[i]
      /\ queue'[Len(queue) + 1] = [source |-> s, version |-> v]
  BY <1>1, <1>2, <1>3, AppendProperties, LenProperties
<1> QED
  BY <1>3, <1>4

\* The steps that touch none of the places a snapshot passes on its way.
LEMMA OffTheWay ==
  ASSUME [Next]_vars
  PROVE  \/ \E s \in Sources :
               \/ Receive(s) /\ UNCHANGED <<fwd, held, queue, combined>>
               \/ StoreError(s) /\ UNCHANGED <<fwd, held, queue, combined>>
               \/ LoadSnapshot(s) \/ SendSnapshot(s)
               \/ SendSnapshotEnds(s) \/ WakeForwarder(s)
         \/ Combine /\ UNCHANGED <<made, snapshot, messages, fwd, held>>
         \/ UNCHANGED <<made, snapshot, messages, fwd, held, queue, combined>>
<1> USE DEF publisherVars, exchangeVars, forwarderVars, streamVars
<1>1. ASSUME NEW s \in Sources, Exchange(s), ~Receive(s), ~StoreError(s)
      PROVE  UNCHANGED <<made, snapshot, messages, fwd, held, queue, combined>>
  BY <1>1 DEF Exchange, ExchangeNext, ExchangeStep, Tell, TellError, Retry, Close,
              Connect, Drop, Panic
<1>2. ASSUME Publish, ~Combine
      PROVE  UNCHANGED <<made, snapshot, messages, fwd, held, queue, combined>>
  BY <1>2 DEF Publish, PublisherStep, TellChange, Stop, Finish
<1>3. ASSUME NEW st \in Streams,
             \/ Attach(st) \/ StreamStep(st) \/ ClientGone(st)
             \/ ShutdownNoticed(st) \/ Take(st)
      PROVE  UNCHANGED <<made, snapshot, messages, fwd, held, queue, combined>>
  BY <1>3 DEF Attach, StreamStep, LoadInitial, WatchLatest, ChangeNoticed,
              LoadLatest, LoadStopped, Send, ClientGone, ShutdownNoticed, Take,
              Leave, Goto, NewReceiver, SeeChange, DropReceiver
<1>4. ASSUME Signal \/ ShutdownReturns \/ UNCHANGED vars
      PROVE  UNCHANGED <<made, snapshot, messages, fwd, held, queue, combined>>
  BY <1>4 DEF Signal, ShutdownReturns, vars
<1>5. ASSUME NEW s \in Sources, Exchange(s) PROVE UNCHANGED <<fwd, held, queue, combined>>
  BY <1>5 DEF Exchange
<1>6. ASSUME Publish PROVE UNCHANGED <<made, snapshot, messages, fwd, held>>
  BY <1>6 DEF Publish
<1> QED
  BY <1>1, <1>2, <1>3, <1>4, <1>5, <1>6 DEF Next, ForwarderStep

----------------------------------------------------------------------------
\* Snapshots keep their order on the way to the book.
LEMMA OrderStep ==
  ASSUME TypeOK, InOrder, CellNewest, [Next]_vars
  PROVE  InOrder' /\ CellNewest'
<1> USE ExchangeAssumption
    DEF TypeOK, ExchangeTypeOK, InOrder, CellNewest, exchangeVars, publisherVars
<1>t. combined \in [Sources -> Nat]
  BY DEF PublisherTypeOK, Books
<1>q. ASSUME NEW i \in DOMAIN queue PROVE queue[i] \in Queued /\ i \in Nat
  <2>1. queue \in Seq(Queued)
    BY DEF PublisherTypeOK, Queued
  <2> QED
    BY <2>1, LenProperties, ElementOfSeq
<1>u. ASSUME UNCHANGED <<queue, combined>>,
             \A r \in Sources :
                /\ made'[r] \in Nat /\ made[r] <= made'[r]
                /\ held'[r] \in Nat /\ held'[r] <= made'[r]
                /\ fwd'[r] = "sending" =>
                      (fwd[r] = "sending" /\ held'[r] = held[r]) \/ held'[r] = made[r]
      PROVE  InOrder'
  BY <1>u, <1>t, <1>q DEF Queued
<1>1. ASSUME NEW s \in Sources, Receive(s), UNCHANGED <<fwd, held, queue, combined>>
      PROVE  InOrder' /\ CellNewest'
  <2>1. CellNewest' /\ \A r \in Sources : made'[r] \in Nat /\ made[r] <= made'[r]
    BY <1>1 DEF Receive, Move
  <2> QED
    BY <1>1, <1>u, <2>1
<1>2. ASSUME NEW s \in Sources, StoreError(s), UNCHANGED <<fwd, held, queue, combined>>
      PROVE  InOrder' /\ CellNewest'
  BY <1>2 DEF StoreError, Move
<1>3. ASSUME NEW s \in Sources, LoadSnapshot(s) PROVE InOrder' /\ CellNewest'
  <2>1. UNCHANGED <<made, messages, snapshot, queue, combined>>
    BY <1>3 DEF LoadSnapshot
  <2>2. ASSUME NEW r \in Sources
        PROVE  /\ held'[r] \in Nat /\ held'[r] <= made[r]
               /\ fwd'[r] = "sending" =>
                      (fwd[r] = "sending" /\ held'[r] = held[r]) \/ held'[r] = made[r]
    BY <1>3 DEF LoadSnapshot, Forward, Versions
  <2> QED
    BY <2>1, <2>2, <1>u, <1>t
<1>4. ASSUME NEW s \in Sources, SendSnapshotEnds(s) \/ WakeForwarder(s)
      PROVE  InOrder' /\ CellNewest'
  <2>1. UNCHANGED <<made, messages, snapshot, queue, combined>>
    BY <1>4 DEF SendSnapshotEnds, WakeForwarder
  <2>2. ASSUME NEW r \in Sources
        PROVE  /\ held'[r] \in Nat /\ held'[r] <= made[r]
               /\ fwd'[r] = "sending" => fwd[r] = "sending" /\ held'[r] = held[r]
    BY <1>4 DEF SendSnapshotEnds, WakeForwarder, Forward
  <2> QED
    BY <2>1, <2>2, <1>u, <1>t
<1>5. ASSUME NEW s \in Sources, SendSnapshot(s) PROVE InOrder' /\ CellNewest'
  <2>1. PICK n \in Nat : /\ DOMAIN queue = 1..n
                         /\ DOMAIN queue' = 1..(n + 1)
                         /\ \A i \in 1..n : queue'[i] = queue[i]
                         /\ queue'[n + 1] = [source |-> s, version |-> held[s]]
    BY <1>5, EnqueueAppends DEF SendSnapshot
  <2>2. /\ fwd[s] = "sending" /\ fwd' = [fwd EXCEPT ![s] = "waiting"]
        /\ held' = [held EXCEPT ![s] = 0]
        /\ UNCHANGED <<made, snapshot, messages, combined>>
    BY <1>5 DEF SendSnapshot, Forward, Enqueue
  <2>3. CellNewest'
    BY <2>2 DEF PublisherTypeOK, Books
  <2>4. \A r \in Sources : held'[r] <= made'[r] /\ combined'[r] <= made'[r]
    BY <2>2 DEF PublisherTypeOK, Books
  <2>5. ASSUME NEW i \in DOMAIN queue'
        PROVE  LET r == queue'[i].source IN
               /\ combined'[r] <= queue'[i].version
               /\ queue'[i].version <= made'[r]
               /\ fwd'[r] = "sending" => queue'[i].version <= held'[r]
               /\ \A j \in DOMAIN queue' :
                     i < j /\ queue'[j].source = r => queue'[i].version <= queue'[j].version
    <3>1. CASE i = n + 1
      BY <2>1, <2>2, <3>1
    <3>2. CASE i \in 1..n
      BY <2>1, <2>2, <3>2, <1>q DEF Queued
    <3> QED
      BY <2>1, <3>1, <3>2
  <2> QED
    BY <2>3, <2>4, <2>5
<1>6. ASSUME Combine, UNCHANGED <<made, snapshot, messages, fwd, held>>
      PROVE  InOrder' /\ CellNewest'
  <2> DEFINE h == queue[1]
  <2>1. /\ 1 \in DOMAIN queue /\ h \in Queued
        /\ combined' = [combined EXCEPT ![h.source] = h.version]
        /\ \A i \in DOMAIN queue' : /\ i \in Nat \ {0} /\ i + 1 \in DOMAIN queue
                                     /\ queue'[i] = queue[i + 1]
    BY <1>6, CombineTakesHead
  <2>2. /\ h.version <= made[h.source]
        /\ fwd[h.source] = "sending" => h.version <= held[h.source]
        /\ combined \in [Sources -> Nat]
    BY <2>1 DEF PublisherTypeOK, Books
  <2>3. CellNewest' /\ \A r \in Sources : held'[r] <= made'[r] /\ combined'[r] <= made'[r]
    BY <1>6, <2>1, <2>2 DEF Queued
  <2>4. ASSUME NEW i \in DOMAIN queue'
        PROVE  LET r == queue'[i].source IN
               /\ combined'[r] <= queue'[i].version
               /\ queue'[i].version <= made'[r]
               /\ fwd'[r] = "sending" => queue'[i].version <= held'[r]
               /\ \A j \in DOMAIN queue' :
                     i < j /\ queue'[j].source = r => queue'[i].version <= queue'[j].version
    <3>1. /\ i \in Nat \ {0} /\ i + 1 \in DOMAIN queue /\ queue'[i] = queue[i + 1]
          /\ queue[i + 1] \in Queued
      BY <2>1, <1>q
    <3> QED
      BY <1>6, <2>1, <2>2, <3>1 DEF Queued
  <2> QED
    BY <2>3, <2>4
<1>7. ASSUME UNCHANGED <<made, snapshot, messages, fwd, held, queue, combined>>
      PROVE  InOrder' /\ CellNewest'
  BY <1>7
<1> QED
  BY <1>1, <1>2, <1>3, <1>4, <1>5, <1>6, <1>7, OffTheWay

----------------------------------------------------------------------------
\* The newest snapshot is not lost on its way.
LEMMA FlightStep ==
  ASSUME TypeOK, InOrder, CellNewest, NewestInFlight, [Next]_vars
  PROVE  NewestInFlight'
<1> SUFFICES ASSUME NEW s \in Sources, snapshot'[s] \in Versions
             PROVE  \/ combined'[s] = snapshot'[s]
                    \/ Underway(s, snapshot[s])' \/ fwd'[s] \in {"load", "exited"}
                    \/ s \in unseen' \/ link'[s] = "stored"
  BY DEF NewestInFlight
<1> USE ExchangeAssumption DEF TypeOK, ExchangeTypeOK, Versions
<1>q. ASSUME NEW i \in DOMAIN queue PROVE queue[i] \in Queued /\ i \in Nat
  <2>1. queue \in Seq(Queued)
    BY DEF PublisherTypeOK, Queued
  <2> QED
    BY <2>1, LenProperties, ElementOfSeq
<1>t. combined \in [Sources -> Nat]
  BY DEF PublisherTypeOK, Books
<1>1. ASSUME NEW r \in Sources, Exchange(r)
      PROVE  \/ snapshot'[s] = snapshot[s] /\ (link[s] = "stored" => link'[s] = "stored" \/ s \in unseen')
             \/ link'[s] = "stored"
  <2>1. CASE ExchangeStep(r)
    BY <1>1, <2>1 DEF ExchangeStep, Tell, StoreError, TellError, Retry, Close, Move
  <2>2. CASE Connect(r) \/ Receive(r) \/ Drop(r) \/ Panic(r)
    BY <1>1, <2>2 DEF Connect, Receive, Drop, Panic, Move
  <2> QED
    BY <1>1, <2>1, <2>2 DEF Exchange, ExchangeNext
<1>2. ASSUME NEW r \in Sources, Exchange(r)
      PROVE  unseen \subseteq unseen' /\ UNCHANGED <<fwd, held, queue, combined>>
  BY <1>2 DEF Exchange, ExchangeNext, ExchangeStep, Tell, StoreError, TellError, Retry,
              Close, Connect, Receive, Drop, Panic, publisherVars, forwarderVars
<1> DEFINE There == \/ combined[s] = snapshot[s]
                    \/ Underway(s, snapshot[s]) \/ fwd[s] \in {"load", "exited"}
                    \/ s \in unseen \/ link[s] = "stored"
<1>3. snapshot'[s] = snapshot[s] => There
  BY DEF NewestInFlight
<1>4. ASSUME NEW r \in Sources, Exchange(r) PROVE There'
  BY <1>1, <1>2, <1>3, <1>4 DEF Underway
<1>5. ASSUME NEW r \in Sources, LoadSnapshot(r) PROVE There'
  BY <1>3, <1>5 DEF LoadSnapshot, Forward, Underway, exchangeVars, publisherVars
<1>6. ASSUME NEW r \in Sources, SendSnapshot(r) PROVE There'
  <2>1. PICK n \in Nat : /\ DOMAIN queue = 1..n
                         /\ DOMAIN queue' = 1..(n + 1)
                         /\ \A i \in 1..n : queue'[i] = queue[i]
                         /\ queue'[n + 1] = [source |-> r, version |-> held[r]]
    BY <1>6, EnqueueAppends DEF SendSnapshot
  <2>2. /\ fwd[r] = "sending" /\ fwd' = [fwd EXCEPT ![r] = "waiting"]
        /\ held' = [held EXCEPT ![r] = 0]
        /\ UNCHANGED <<link, unseen, snapshot, combined>>
    BY <1>6 DEF SendSnapshot, Forward, Enqueue, exchangeVars
  <2>3. CASE r = s /\ held[s] = snapshot[s]
    <3>1. n + 1 \in DOMAIN queue' /\ queue'[n + 1] = [source |-> s, version |-> snapshot'[s]]
      BY <2>1, <2>2, <2>3
    <3> QED
      BY <3>1 DEF Underway
  <2>4. ASSUME NEW i \in DOMAIN queue, queue[i] = [source |-> s, version |-> snapshot[s]]
        PROVE  There'
    <3>1. i \in DOMAIN queue' /\ queue'[i] = [source |-> s, version |-> snapshot'[s]]
      BY <2>1, <2>2, <2>4
    <3> QED
      BY <3>1 DEF Underway
  <2> QED
    BY <1>3, <2>2, <2>3, <2>4 DEF Underway
<1>7. ASSUME NEW r \in Sources, SendSnapshotEnds(r) \/ WakeForwarder(r) PROVE There'
  BY <1>3, <1>7 DEF SendSnapshotEnds, WakeForwarder, Forward, Underway, exchangeVars,
                    publisherVars
<1>8. ASSUME Publish, Combine PROVE There'
  <2> DEFINE h == queue[1]
  <2>1. /\ 1 \in DOMAIN queue /\ h \in Queued
        /\ combined' = [combined EXCEPT ![h.source] = h.version]
        /\ \A i \in DOMAIN queue : i = 1 \/ i - 1 \in DOMAIN queue'
        /\ \A i \in DOMAIN queue' : i \in Nat \ {0} /\ queue'[i] = queue[i + 1]
    BY <1>8, CombineTakesHead
  <2>2. UNCHANGED <<link, snapshot, made, unseen, fwd, held>>
    BY <1>8 DEF Publish, exchangeVars, forwarderVars
  <2>3. CASE combined[s] = snapshot[s]
    <3>1. snapshot[s] = made[s]
      BY <2>2 DEF CellNewest
    <3>2. combined'[s] = combined[s] \/ (h.source = s /\ combined'[s] = h.version)
      <4>1. h.source \in Sources /\ combined' = [combined EXCEPT ![h.source] = h.version]
        BY <2>1 DEF Queued
      <4> HIDE DEF h
      <4> QED
        BY <4>1, <1>t
    <3>3. h.source = s => combined[s] <= h.version /\ h.version <= made[s]
      BY <2>1 DEF InOrder
    <3> QED
      BY <2>1, <2>2, <2>3, <3>1, <3>2, <3>3, <1>t DEF Queued
  <2>4. ASSUME NEW i \in DOMAIN queue, queue[i] = [source |-> s, version |-> snapshot[s]]
        PROVE  There'
    <3>1. CASE i = 1
      BY <2>1, <2>2, <2>4, <3>1, <1>t
    <3>2. CASE i # 1
      <4>1. i - 1 \in DOMAIN queue' /\ queue'[i - 1] = queue[i]
        BY <2>1, <1>q, <3>2
      <4> QED
        BY <4>1, <2>2, <2>4 DEF Underway
    <3> QED
      BY <3>1, <3>2
  <2> QED
    BY <1>3, <2>2, <2>3, <2>4 DEF Underway
<1>9. ASSUME UNCHANGED <<link, snapshot, unseen, fwd, held, queue, combined>> PROVE There'
  BY <1>3, <1>9 DEF Underway
<1>10. ASSUME Publish, ~Combine
       PROVE  UNCHANGED <<link, snapshot, unseen, fwd, held, queue, combined>>
  BY <1>10 DEF Publish, PublisherStep, TellChange, Stop, Finish, exchangeVars, forwarderVars
<1>11. ASSUME NEW st \in Streams,
              \/ Attach(st) \/ StreamStep(st) \/ ClientGone(st)
              \/ ShutdownNoticed(st) \/ Take(st)
       PROVE  UNCHANGED <<link, snapshot, unseen, fwd, held, queue, combined>>
  BY <1>11 DEF Attach, StreamStep, LoadInitial, WatchLatest, ChangeNoticed,
               LoadLatest, LoadStopped, Send, ClientGone, ShutdownNoticed, Take,
               Leave, Goto, NewReceiver, SeeChange, DropReceiver,
               exchangeVars, publisherVars, forwarderVars
<1>12. ASSUME Signal \/ ShutdownReturns \/ UNCHANGED vars
       PROVE  UNCHANGED <<link, snapshot, unseen, fwd, held, queue, combined>>
  BY <1>12 DEF Signal, ShutdownReturns, vars, exchangeVars, publisherVars, forwarderVars
<1> QED
  BY <1>4, <1>5, <1>6, <1>7, <1>8, <1>9, <1>10, <1>11, <1>12 DEF Next, ForwarderStep

----------------------------------------------------------------------------
\* Nothing a client is shown is older than what it was shown before.
LEMMA BehindStep ==
  ASSUME TypeOK, InOrder, StreamsBehind, [Next]_vars
  PROVE  StreamsBehind'
<1> USE DEF TypeOK, PublisherTypeOK, Books, StreamsBehind
<1>1. ASSUME UNCHANGED <<combined, latest, pc, item, channel, got>> PROVE StreamsBehind'
  BY <1>1 DEF AtMost
<1>2. ASSUME Combine, UNCHANGED <<pc, item, channel, got>> PROVE StreamsBehind'
  <2>1. AtMost(combined, combined')
    <3>1. /\ 1 \in DOMAIN queue /\ queue[1] \in Queued
          /\ combined' = [combined EXCEPT ![queue[1].source] = queue[1].version]
      BY <1>2, CombineTakesHead
    <3>2. combined[queue[1].source] <= queue[1].version
      BY <3>1 DEF InOrder
    <3>3. ASSUME NEW s \in Sources PROVE combined[s] <= combined'[s]
      <4>1. combined[s] \in Nat /\ queue[1].source \in Sources
        BY <3>1 DEF Queued
      <4>2. CASE s = queue[1].source
        BY <3>1, <3>2, <4>1, <4>2
      <4>3. CASE s # queue[1].source
        BY <3>1, <4>1, <4>3
      <4> QED
        BY <4>2, <4>3
    <3> QED
      BY <3>3 DEF AtMost
  <2>2. combined' \in [Sources -> Nat] /\ latest' = combined'
    <3>1. /\ queue[1] \in Queued
          /\ combined' = [combined EXCEPT ![queue[1].source] = queue[1].version]
      BY <1>2, CombineTakesHead
    <3> QED
      BY <1>2, <3>1 DEF Combine, Queued
  <2>3. ASSUME NEW b \in [Sources -> Nat], AtMost(b, combined) PROVE AtMost(b, combined')
    BY <2>1, <2>2, <2>3 DEF AtMost
  <2> QED
    BY <1>2, <2>2, <2>3 DEF AtMost
<1>3. ASSUME Stop, UNCHANGED <<pc, item, channel, got>> PROVE StreamsBehind'
  BY <1>3 DEF Stop, AtMost
<1>4. ASSUME NEW st \in Streams, LoadInitial(st) \/ LoadLatest(st) PROVE StreamsBehind'
  <2>1. /\ UNCHANGED <<combined, latest, channel, got>>
        /\ \A o \in Streams \ {st} : pc'[o] = pc[o] /\ item'[o] = item[o]
        /\ pc'[st] \in Sending => item'[st] = combined
    BY <1>4 DEF LoadInitial, LoadLatest, Goto, publisherVars, Sending
  <2>2. AtMost(combined, combined)
    BY DEF AtMost
  <2>3. ASSUME NEW o \in Streams, pc'[o] \in Sending
        PROVE  /\ AtMost(got[o], item'[o]) /\ AtMost(item'[o], combined)
               /\ channel[o] # NoSummary => AtMost(channel[o], item'[o])
    <3>1. CASE o = st
      BY <2>1, <2>2, <2>3, <3>1
    <3>2. CASE o # st
      BY <2>1, <2>3, <3>2
    <3> QED
      BY <3>1, <3>2
  <2> QED
    BY <2>1, <2>3 DEF AtMost
<1>5. ASSUME NEW st \in Streams, Send(st) PROVE StreamsBehind'
  <2>1. /\ UNCHANGED <<combined, latest, item, got>>
        /\ \A o \in Streams \ {st} : pc'[o] = pc[o] /\ channel'[o] = channel[o]
        /\ pc[st] \in Sending /\ pc'[st] \notin Sending /\ channel'[st] = item[st]
    BY <1>5 DEF Send, Goto, publisherVars, Sending
  <2> QED
    BY <2>1 DEF AtMost
<1>6. ASSUME NEW st \in Streams, Take(st) PROVE StreamsBehind'
  <2>1. /\ UNCHANGED <<combined, latest, item, pc>>
        /\ \A o \in Streams \ {st} : got'[o] = got[o] /\ channel'[o] = channel[o]
        /\ channel[st] # NoSummary /\ got'[st] = channel[st] /\ channel'[st] = NoSummary
    BY <1>6 DEF Take, publisherVars
  <2> QED
    BY <2>1 DEF AtMost
<1>7. ASSUME NEW st \in Streams,
             \/ Attach(st) \/ WatchLatest(st) \/ ChangeNoticed(st) \/ LoadStopped(st)
             \/ ClientGone(st) \/ ShutdownNoticed(st)
      PROVE  StreamsBehind'
  <2>1. /\ UNCHANGED <<combined, latest, item, channel, got>>
        /\ \A o \in Streams : pc'[o] \in Sending => pc[o] \in Sending
    BY <1>7 DEF Attach, WatchLatest, ChangeNoticed, LoadStopped, ClientGone,
                ShutdownNoticed, Leave, Goto, NewReceiver, SeeChange, DropReceiver,
                publisherVars, Sending
  <2> QED
    BY <2>1 DEF AtMost
<1>8. ASSUME Publish PROVE StreamsBehind'
  BY <1>1, <1>2, <1>3, <1>8 DEF Publish, PublisherStep, TellChange, Finish, streamVars
<1>9. ASSUME NEW s \in Sources, Exchange(s) \/ ForwarderStep(s) PROVE StreamsBehind'
  BY <1>1, <1>9 DEF Exchange, ForwarderStep, LoadSnapshot, SendSnapshot, Enqueue,
                    SendSnapshotEnds, WakeForwarder, Forward, publisherVars, streamVars
<1>10. ASSUME Signal \/ ShutdownReturns \/ UNCHANGED vars PROVE StreamsBehind'
  BY <1>1, <1>10 DEF Signal, ShutdownReturns, vars, publisherVars, streamVars
<1> QED
  BY <1>4, <1>5, <1>6, <1>7, <1>8, <1>9, <1>10 DEF Next, StreamStep

----------------------------------------------------------------------------
\* The inductive invariant: along the whole way, from the message of an exchange
\* to what a client has taken, every stage is bounded by the one before it.
THEOREM Invariance == Spec => []IInv
<1>1. IInv /\ [Next]_vars => IInv'
  BY TypeStep, OrderStep, FlightStep, BehindStep DEF IInv
<1> QED
  BY InitIInv, <1>1, PTL DEF Spec

\* Every variable keeps its type; no stage holds more than its bound.
THEOREM TypeCorrect == Spec => []TypeOK
<1>1. IInv => TypeOK
  BY DEF IInv
<1> QED
  BY Invariance, <1>1, PTL

\* Snapshots are not reordered between an exchange and the book, whatever the
\* source tasks and the publisher do in whatever order.
THEOREM OrderKept == Spec => []InOrder
<1>1. IInv => InOrder
  BY DEF IInv
<1> QED
  BY Invariance, <1>1, PTL

\* The newest snapshot is never the one that the cell and its watch channel skip.
THEOREM NewestKept == Spec => []NewestInFlight
<1>1. IInv => NewestInFlight
  BY DEF IInv
<1> QED
  BY Invariance, <1>1, PTL

\* The feed implements what it promises: a client sees only books that were made,
\* and those of each exchange in the order in which they were made.
THEOREM Refinement == Spec => ImplementsConflatedFeed
<1>1. Init => Promise!Init
  BY DEF Init, ExchangeInit, Promise!Init, NoBook
<1>2. IInv /\ [Next]_vars => [Promise!Next]_Promise!vars
  <2> SUFFICES ASSUME IInv, [Next]_vars
               PROVE  Promise!Next \/ UNCHANGED <<made, got>>
    BY DEF Promise!vars
  <2>1. ASSUME NEW s \in Sources, Receive(s), UNCHANGED got PROVE Promise!Produce(s)
    BY <2>1 DEF Receive, Promise!Produce
  <2>2. ASSUME NEW st \in Streams, Take(st) PROVE Promise!Deliver(st)
    <3>1. /\ UNCHANGED made /\ channel[st] # NoSummary
          /\ got' = [got EXCEPT ![st] = channel[st]]
      BY <2>2 DEF Take, exchangeVars
    <3>2. /\ got \in [Streams -> [Sources -> Nat]] /\ channel[st] \in [Sources -> Nat]
          /\ combined \in [Sources -> Nat] /\ made \in [Sources -> Nat]
      BY <3>1, ExchangeAssumption
      DEF IInv, TypeOK, ExchangeTypeOK, PublisherTypeOK, Books
    <3>3. AtMost(got[st], channel[st]) /\ AtMost(channel[st], combined)
          /\ AtMost(combined, made)
      BY <3>1 DEF IInv, StreamsBehind, InOrder, AtMost
    <3> QED
      BY <3>1, <3>2, <3>3 DEF Promise!Deliver, AtMost
  <2>3. ASSUME NEW s \in Sources, Exchange(s), ~Receive(s) PROVE UNCHANGED <<made, got>>
    BY <2>3 DEF Exchange, ExchangeNext, ExchangeStep, Tell, StoreError, TellError, Retry,
                Close, Connect, Drop, Panic, streamVars
  <2>4. ASSUME NEW s \in Sources, Exchange(s) PROVE UNCHANGED got
    BY <2>4 DEF Exchange, streamVars
  <2>5. ASSUME NEW s \in Sources, ForwarderStep(s) PROVE UNCHANGED <<made, got>>
    BY <2>5 DEF ForwarderStep, LoadSnapshot, SendSnapshot, SendSnapshotEnds,
                WakeForwarder, Forward, exchangeVars, streamVars
  <2>6. ASSUME NEW st \in Streams,
               \/ Attach(st) \/ StreamStep(st) \/ ClientGone(st) \/ ShutdownNoticed(st)
        PROVE  UNCHANGED <<made, got>>
    BY <2>6 DEF Attach, StreamStep, LoadInitial, WatchLatest, ChangeNoticed, LoadLatest,
                LoadStopped, Send, ClientGone, ShutdownNoticed, Leave, Goto, exchangeVars
  <2>7. ASSUME Publish \/ Signal \/ ShutdownReturns \/ UNCHANGED vars
        PROVE  UNCHANGED <<made, got>>
    BY <2>7 DEF Publish, Signal, ShutdownReturns, vars, exchangeVars, streamVars
  <2>8. ASSUME NEW s \in Sources, Exchange(s)
        PROVE  Promise!Next \/ UNCHANGED <<made, got>>
    BY <2>1, <2>3, <2>4, <2>8 DEF Exchange, ExchangeNext, Promise!Next
  <2> QED
    BY <2>2, <2>5, <2>6, <2>7, <2>8 DEF Next, Promise!Next
<1> QED
  BY Invariance, <1>1, <1>2, PTL DEF Spec, ImplementsConflatedFeed, Promise!Spec

=============================================================================
