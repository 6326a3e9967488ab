------------------------- MODULE FeedManagerProofs -------------------------
(***************************************************************************)
(* Theorems about FeedManager, for any number of symbols, feeds and        *)
(* streams: its invariants, and that it implements FeedRegistry.           *)
(***************************************************************************)
EXTENDS FeedManager, FiniteSetTheorems, TLAPS

\* The operators that only name a value, a test or a group of variables.
USE DEF Accepting, AfterFailedSend, Interruptible, WasLast, OneFewer,
        AfterRemoval, RaiseFlag, DrainTurn, EmptyRegistry, sharedVars

\* Nothing has happened yet: no feed, no stream, no grace task.
LEMMA InitIInv == Init => IInv
<1> SUFFICES ASSUME Init PROVE IInv
  OBVIOUS
<1> USE ManagerAssumption DEF Init
<1>1. TypeOK
  BY DEF TypeOK, Phases, PCs, Timers, Holding, Pending
<1>2. SubscriptionsExact
  <2> SUFFICES ASSUME NEW f \in Feeds
               PROVE  subscriptions[f] = Cardinality(StreamsAt(f, Counted))
    BY DEF SubscriptionsExact
  <2>1. StreamsAt(f, Counted) = {}
    BY DEF StreamsAt, Counted
  <2> QED
    BY <2>1, FS_EmptySet
<1>3. MapExactlyLive /\ SingleOwner /\ NoOpenAfterDrain /\ NoIdleFeedLeak
  BY DEF MapExactlyLive, SingleOwner, NoOpenAfterDrain, NoIdleFeedLeak
<1>4. SymbolsKept /\ StreamsPlaced /\ LockHolder /\ ShutdownOfRetired /\ FlagSet
  BY DEF SymbolsKept, StreamsPlaced, LockHolder, ShutdownOfRetired, FlagSet
<1> QED
  BY <1>1, <1>2, <1>3, <1>4 DEF IInv

----------------------------------------------------------------------------
\* Only Subscribe and Unsubscribe change who is counted.
LEMMA CountStep ==
  ASSUME TypeOK, StreamsPlaced, SubscriptionsExact, [Next]_vars
  PROVE  SubscriptionsExact'
<1> USE ManagerAssumption DEF TypeOK
<1> DEFINE Same(f) == StreamsAt(f, Counted)' = StreamsAt(f, Counted)
<1>0. ASSUME subscriptions' = subscriptions, \A f \in Feeds : Same(f)
      PROVE  SubscriptionsExact'
  BY <1>0 DEF SubscriptionsExact
<1>f. ASSUME NEW f \in Feeds PROVE IsFiniteSet(StreamsAt(f, Counted))
  BY FS_Subset DEF StreamsAt
<1> USE DEF Counted, Goto
<1>1. ASSUME NEW st \in Streams, ClientStep(st) PROVE SubscriptionsExact'
  <2>1. subscriptions' = subscriptions
    BY <1>1 DEF ClientStep, Open, OpenRejected, OpenReuses, OpenCreates, Sent,
                SendFails, registryVars
  <2>2. ASSUME NEW f \in Feeds PROVE Same(f)
    <3>1. CASE Sent(st) \/ SendFails(st)
      BY <3>1 DEF Sent, SendFails, Sending, StreamsAt
    <3>2. CASE Open(st)
      BY <3>2 DEF Open, OpenRejected, OpenReuses, OpenCreates, StreamsAt
    <3> QED
      BY <1>1, <3>1, <3>2 DEF ClientStep
  <2> QED
    BY <2>1, <2>2, <1>0
<1>2. ASSUME NEW st \in Streams, Subscribe(st) PROVE SubscriptionsExact'
  <2> DEFINE f == feedOf[st]
  <2>1. f \in Feeds
    BY <1>2 DEF Subscribe, StreamsPlaced
  <2>2. ASSUME NEW g \in Feeds, g # f PROVE Same(g)
    BY <1>2, <2>2 DEF Subscribe, StreamsAt
  <2>3. StreamsAt(f, Counted)' = StreamsAt(f, Counted) \cup {st}
    BY <1>2, <2>1 DEF Subscribe, StreamsAt
  <2>4. st \notin StreamsAt(f, Counted)
    BY <1>2, <2>1 DEF Subscribe, StreamsAt
  <2>5. Cardinality(StreamsAt(f, Counted)') = subscriptions[f] + 1
    BY <1>f, <2>1, <2>3, <2>4, FS_AddElement DEF SubscriptionsExact
  <2> QED
    BY <1>2, <2>1, <2>2, <2>5 DEF Subscribe, SubscriptionsExact
<1>3. ASSUME NEW st \in Streams, Unsubscribe(st) PROVE SubscriptionsExact'
  <2> DEFINE f == feedOf[st]
  <2>1. f \in Feeds
    BY <1>3 DEF Unsubscribe, StreamsPlaced
  <2>2. ASSUME NEW g \in Feeds, g # f PROVE Same(g)
    BY <1>3, <2>2 DEF Unsubscribe, StreamsAt
  <2>3. StreamsAt(f, Counted)' = StreamsAt(f, Counted) \ {st}
    BY <1>3, <2>1 DEF Unsubscribe, StreamsAt
  <2>4. st \in StreamsAt(f, Counted)
    BY <1>3, <2>1 DEF Unsubscribe, StreamsAt
  <2>5. Cardinality(StreamsAt(f, Counted)') = subscriptions[f] - 1
    BY <1>f, <2>1, <2>3, <2>4, FS_RemoveElement DEF SubscriptionsExact
  <2> QED
    BY <1>3, <2>1, <2>2, <2>5 DEF Unsubscribe, SubscriptionsExact
<1>4. ASSUME NEW st \in Streams,
             \/ Notify(st) \/ Attach(st) \/ LoadInitial(st) \/ WatchLatest(st)
             \/ ChangeNoticed(st) \/ ShutdownNoticed(st)
      PROVE  SubscriptionsExact'
  <2>1. subscriptions' = subscriptions
    BY <1>4 DEF Notify, Attach, LoadInitial, WatchLatest, ChangeNoticed,
                ShutdownNoticed
  <2>2. ASSUME NEW f \in Feeds PROVE Same(f)
    <3>1. CASE Notify(st) \/ Attach(st) \/ WatchLatest(st)
      BY <3>1 DEF Notify, Attach, WatchLatest, StreamsAt
    <3>2. CASE LoadInitial(st)
      BY <3>2 DEF LoadInitial, StreamsAt
    <3>3. CASE ChangeNoticed(st)
      BY <3>3 DEF ChangeNoticed, StreamsAt
    <3>4. CASE ShutdownNoticed(st)
      BY <3>4 DEF ShutdownNoticed, Sending, StreamsAt
    <3> QED
      BY <1>4, <3>1, <3>2, <3>3, <3>4
  <2> QED
    BY <2>1, <2>2, <1>0
<1>5. ASSUME UNCHANGED <<subscriptions, pc, feedOf>> PROVE SubscriptionsExact'
  BY <1>0, <1>5 DEF StreamsAt
<1>6. ASSUME NEW t \in Streams, TimerStep(t) PROVE SubscriptionsExact'
  BY <1>5, <1>6 DEF TimerStep, TimerWaits, TimerCancelled, TimerFires,
      RemoveCheck, RemoveTake, streamVars
<1>7. ASSUME NEW f \in Feeds, FeedStep(f) \/ ExchangeStep(f)
      PROVE  SubscriptionsExact'
  BY <1>5, <1>7 DEF FeedStep, Signal, ShutdownReturns, StoreHandle,
      PublisherStops, ExchangeStep, PublishSummary, SourcesExit, streamVars
<1>8. CASE ShutdownFlag \/ ShutdownDrain \/ UNCHANGED vars
  BY <1>5, <1>8 DEF ShutdownFlag, ShutdownDrain, vars, streamVars
<1> QED
  BY <1>1, <1>2, <1>3, <1>4, <1>6, <1>7, <1>8 DEF Next, StreamStep

----------------------------------------------------------------------------
\* A stream that leaves is counted, so the counter does not go below zero.
LEMMA TypeStep ==
  ASSUME TypeOK, StreamsPlaced, SubscriptionsExact, [Next]_vars
  PROVE  TypeOK'
<1> USE ManagerAssumption DEF TypeOK, Phases, Retired, PCs, Timers, Holding,
        Counted, Pending, Goto, TimerGoto, registryVars, publisherVars,
        streamVars
<1>1. ASSUME NEW st \in Streams, ClientStep(st) PROVE TypeOK'
  <2>1. ASSUME NEW s \in Symbols, OpenRejected(st, s) PROVE TypeOK'
    BY <2>1 DEF OpenRejected
  <2>2. ASSUME NEW s \in Symbols, OpenReuses(st, s) PROVE TypeOK'
    BY <2>2 DEF OpenReuses
  <2>3. ASSUME NEW s \in Symbols, NEW f \in Feeds, OpenCreates(st, s, f)
        PROVE TypeOK'
    BY <2>3 DEF OpenCreates
  <2>4. CASE Sent(st) \/ SendFails(st)
    BY <2>4 DEF Sent, SendFails
  <2>5. CASE Open(st)
    <3> HIDE DEF TypeOK
    <3> QED
      BY <2>1, <2>2, <2>3, <2>5 DEF Open
  <2> QED
    BY <1>1, <2>4, <2>5 DEF ClientStep
<1>2. ASSUME NEW st \in Streams, Subscribe(st) PROVE TypeOK'
  BY <1>2 DEF Subscribe, StreamsPlaced
<1>3. ASSUME NEW st \in Streams, Unsubscribe(st) PROVE TypeOK'
  <2> DEFINE f == feedOf[st]
  <2>1. f \in Feeds
    BY <1>3 DEF Unsubscribe, StreamsPlaced
  <2>2. st \in StreamsAt(f, Counted) /\ IsFiniteSet(StreamsAt(f, Counted))
    BY <1>3, FS_Subset DEF Unsubscribe, StreamsAt
  <2>3. subscriptions[f] # 0
    BY <2>1, <2>2, FS_EmptySet DEF SubscriptionsExact
  <2> QED
    BY <1>3, <2>1, <2>3 DEF Unsubscribe
<1>4. ASSUME NEW st \in Streams,
             \/ Notify(st) \/ Attach(st) \/ LoadInitial(st) \/ WatchLatest(st)
             \/ ChangeNoticed(st) \/ ShutdownNoticed(st)
      PROVE  TypeOK'
  BY <1>4 DEF Notify, Attach, LoadInitial, WatchLatest, ChangeNoticed,
              ShutdownNoticed
<1>5. ASSUME NEW t \in Streams, TimerStep(t) PROVE TypeOK'
  BY <1>5 DEF TimerStep, TimerWaits, TimerCancelled, TimerFires, RemoveCheck,
              RemoveTake
<1>6. ASSUME NEW f \in Feeds, FeedStep(f) \/ ExchangeStep(f) PROVE TypeOK'
  BY <1>6 DEF FeedStep, Signal, ShutdownReturns, StoreHandle, PublisherStops,
              ExchangeStep, PublishSummary, SourcesExit, StreamsAt
<1>7. CASE ShutdownFlag
  BY <1>7 DEF ShutdownFlag
<1>8. CASE ShutdownDrain
  <2> DEFINE taken == {f \in Feeds : \E s \in Symbols : feeds[s] = f}
  <2>1. /\ feeds' = [s \in Symbols |-> NoFeed]
        /\ phase' = [f \in Feeds |-> IF f \in taken THEN "removed" ELSE phase[f]]
        /\ drained' = taken
        /\ managerTask' = "closing"
        /\ UNCHANGED <<isShuttingDown, subscriptions, latest, stored, forwarding,
                       pc, feedOf, signal, changed, timer>>
    BY <1>8 DEF ShutdownDrain
  <2>2. feeds' \in [Symbols -> Feeds \cup {NoFeed}] /\ drained' \subseteq Feeds
    BY <2>1
  <2>3. phase' \in [Feeds -> Phases]
    <3> HIDE DEF taken
    <3>1. "removed" \in Phases /\ phase \in [Feeds -> Phases]
      OBVIOUS
    <3> HIDE DEF TypeOK, Phases
    <3> QED
      BY <2>1, <3>1
  <2> HIDE DEF taken
  <2> QED
    BY <2>1, <2>2, <2>3
<1>9. CASE UNCHANGED vars
  BY <1>9 DEF vars
<1> QED
  BY <1>1, <1>2, <1>3, <1>4, <1>5, <1>6, <1>7, <1>8, <1>9 DEF Next, StreamStep

----------------------------------------------------------------------------
\* The registry changes in three steps only, each under the mutex.
LEMMA RegistryStep ==
  ASSUME TypeOK, TypeOK', MapExactlyLive, NoOpenAfterDrain, SymbolsKept,
         LockHolder, FlagSet, [Next]_vars
  PROVE  (MapExactlyLive /\ NoOpenAfterDrain /\ SymbolsKept /\ FlagSet)'
<1> DEFINE Goal == MapExactlyLive /\ NoOpenAfterDrain /\ SymbolsKept /\ FlagSet
<1> SUFFICES Goal'
  OBVIOUS
<1> USE ManagerAssumption DEF TypeOK, MapExactlyLive, NoOpenAfterDrain,
        SymbolsKept, FlagSet, Goto
<1>1. ASSUME UNCHANGED <<feeds, isShuttingDown, managerTask>>,
             \A f \in Feeds : phase'[f] = "live" <=> phase[f] = "live"
      PROVE  Goal'
  BY <1>1
<1>2. ASSUME NEW st \in Streams, NEW s \in Symbols, NEW f \in Feeds,
             OpenCreates(st, s, f)
      PROVE  Goal'
  BY <1>2 DEF OpenCreates
<1>3. ASSUME NEW t \in Streams, RemoveTake(t) PROVE Goal'
  BY <1>3 DEF RemoveTake, LockHolder, TimerGoto
<1>4. CASE ShutdownFlag
  BY <1>4 DEF ShutdownFlag
<1>5. CASE ShutdownDrain
  BY <1>5 DEF ShutdownDrain
<1>6. ASSUME NEW f \in Feeds, FeedStep(f) \/ ExchangeStep(f) PROVE Goal'
  BY <1>1, <1>6 DEF FeedStep, Signal, ShutdownReturns, StoreHandle,
      PublisherStops, ExchangeStep, PublishSummary, SourcesExit, registryVars
<1>7. ASSUME UNCHANGED <<registryVars, phase>> PROVE Goal'
  BY <1>1, <1>7 DEF registryVars
<1>8. ASSUME NEW st \in Streams, ClientStep(st) PROVE Goal'
  BY <1>2, <1>7, <1>8 DEF ClientStep, Open, OpenRejected, OpenReuses, Sent,
      SendFails
<1>9. ASSUME NEW st \in Streams, StreamStep(st) \/ ShutdownNoticed(st)
      PROVE  Goal'
  BY <1>7, <1>9 DEF StreamStep, Subscribe, Notify, Attach, LoadInitial,
      WatchLatest, ChangeNoticed, Unsubscribe, ShutdownNoticed
<1>10. ASSUME NEW t \in Streams, TimerStep(t) PROVE Goal'
  BY <1>3, <1>7, <1>10 DEF TimerStep, TimerWaits, TimerCancelled, TimerFires,
      RemoveCheck
<1>11. CASE UNCHANGED vars
  BY <1>7, <1>11 DEF vars
<1> QED
  BY <1>4, <1>5, <1>6, <1>8, <1>9, <1>10, <1>11 DEF Next

----------------------------------------------------------------------------
\* A stream keeps its feed, and its grace task starts when it has ended.
LEMMA PlaceStep ==
  ASSUME TypeOK, TypeOK', SymbolsKept, MapExactlyLive, StreamsPlaced,
         [Next]_vars
  PROVE  StreamsPlaced'
<1> USE ManagerAssumption DEF TypeOK, StreamsPlaced, Goto, TimerGoto
<1>1. ASSUME NEW st \in Streams, ClientStep(st) PROVE StreamsPlaced'
  <2>1. ASSUME NEW s \in Symbols, OpenRejected(st, s) PROVE StreamsPlaced'
    BY <2>1 DEF OpenRejected
  <2>2. ASSUME NEW s \in Symbols, OpenReuses(st, s) PROVE StreamsPlaced'
    BY <2>2 DEF OpenReuses, MapExactlyLive, SymbolsKept
  <2>3. ASSUME NEW s \in Symbols, NEW f \in Feeds, OpenCreates(st, s, f)
        PROVE StreamsPlaced'
    BY <2>3 DEF OpenCreates
  <2>4. CASE Sent(st)
    BY <2>4 DEF Sent
  <2>5. CASE SendFails(st)
    BY <2>5 DEF SendFails, Sending
  <2> QED
    BY <1>1, <2>1, <2>2, <2>3, <2>4, <2>5 DEF ClientStep, Open
<1>2. ASSUME NEW st \in Streams, StreamStep(st) PROVE StreamsPlaced'
  <2>1. CASE Subscribe(st)
    BY <2>1 DEF Subscribe
  <2>2. CASE Notify(st)
    BY <2>2 DEF Notify, TimersAt
  <2>3. CASE Attach(st) \/ WatchLatest(st)
    BY <2>3 DEF Attach, WatchLatest
  <2>4. CASE LoadInitial(st)
    BY <2>4 DEF LoadInitial
  <2>5. CASE ChangeNoticed(st)
    BY <2>5 DEF ChangeNoticed
  <2>6. CASE Unsubscribe(st)
    BY <2>6 DEF Unsubscribe
  <2> QED
    BY <1>2, <2>1, <2>2, <2>3, <2>4, <2>5, <2>6 DEF StreamStep
<1>3. ASSUME NEW st \in Streams, ShutdownNoticed(st) PROVE StreamsPlaced'
  BY <1>3 DEF ShutdownNoticed, Sending
<1>4. ASSUME NEW t \in Streams, TimerStep(t) PROVE StreamsPlaced'
  BY <1>4 DEF TimerStep, TimerWaits, TimerCancelled, TimerFires, RemoveCheck,
              RemoveTake, streamVars
<1>5. ASSUME NEW f \in Feeds, FeedStep(f) \/ ExchangeStep(f) PROVE StreamsPlaced'
  BY <1>5 DEF FeedStep, Signal, ShutdownReturns, StoreHandle, PublisherStops,
      ExchangeStep, PublishSummary, SourcesExit, streamVars, TimersAt
<1>6. CASE ShutdownFlag \/ ShutdownDrain \/ UNCHANGED vars
  BY <1>6 DEF ShutdownFlag, ShutdownDrain, vars, streamVars
<1> QED
  BY <1>1, <1>2, <1>3, <1>4, <1>5, <1>6 DEF Next

----------------------------------------------------------------------------
\* The mutex is taken by one grace task, and while it is taken the registry
\* changes by that task's removal only.
LEMMA LockStep ==
  ASSUME TypeOK, TypeOK', StreamsPlaced, LockHolder, [Next]_vars
  PROVE  LockHolder'
<1> USE ManagerAssumption DEF TypeOK, LockHolder, Goto, TimerGoto
<1>1. ASSUME UNCHANGED <<feeds, feedOf>>,
             \A t \in Streams : timer'[t] = "checked" => timer[t] = "checked"
      PROVE  LockHolder'
  BY <1>1
<1>2. ASSUME NEW st \in Streams, ClientStep(st) PROVE LockHolder'
  <2>1. CASE Open(st)
    BY <2>1 DEF Open, OpenRejected, OpenReuses, OpenCreates, FeedsLocked,
                registryVars
  <2> QED
    BY <1>1, <1>2, <2>1 DEF ClientStep, Sent, SendFails, registryVars
<1>3. ASSUME NEW st \in Streams, StreamStep(st) \/ ShutdownNoticed(st)
      PROVE  LockHolder'
  <2>1. CASE Unsubscribe(st)
    BY <1>1, <2>1 DEF Unsubscribe, registryVars
  <2>2. CASE Notify(st)
    BY <1>1, <2>2 DEF Notify, registryVars, TimersAt
  <2> QED
    BY <1>1, <1>3, <2>1, <2>2 DEF StreamStep, Subscribe, Attach, LoadInitial,
        WatchLatest, ChangeNoticed, ShutdownNoticed, registryVars
<1>4. ASSUME NEW t \in Streams, TimerStep(t) PROVE LockHolder'
  <2>1. CASE RemoveCheck(t)
    BY <2>1 DEF RemoveCheck, FeedsLocked, Unused, registryVars, streamVars
  <2>2. CASE RemoveTake(t)
    BY <2>2 DEF RemoveTake, streamVars
  <2> QED
    BY <1>1, <1>4, <2>1, <2>2 DEF TimerStep, TimerWaits, TimerCancelled,
        TimerFires, registryVars, streamVars
<1>5. ASSUME NEW f \in Feeds, FeedStep(f) \/ ExchangeStep(f) PROVE LockHolder'
  BY <1>1, <1>5 DEF FeedStep, Signal, ShutdownReturns, StoreHandle,
      PublisherStops, ExchangeStep, PublishSummary, SourcesExit, streamVars,
      registryVars, TimersAt
<1>6. CASE ShutdownDrain
  BY <1>6 DEF ShutdownDrain, FeedsLocked, streamVars
<1>7. CASE ShutdownFlag \/ UNCHANGED vars
  BY <1>1, <1>7 DEF ShutdownFlag, vars, streamVars, registryVars
<1> QED
  BY <1>2, <1>3, <1>4, <1>5, <1>6, <1>7 DEF Next

----------------------------------------------------------------------------
\* A feed gets its owner in the step that takes it out of the registry.
LEMMA OwnerStep ==
  ASSUME TypeOK, TypeOK', MapExactlyLive, SymbolsKept, StreamsPlaced, LockHolder,
         ShutdownOfRetired, SingleOwner, [Next]_vars
  PROVE  (ShutdownOfRetired /\ SingleOwner)'
<1> DEFINE Goal == ShutdownOfRetired /\ SingleOwner
<1> SUFFICES Goal'
  OBVIOUS
<1> USE ManagerAssumption DEF TypeOK, ShutdownOfRetired, SingleOwner, Retired,
        Goto, TimerGoto, TimersAt
\* Nothing that the two invariants are about changes.
<1>1. ASSUME UNCHANGED <<managerTask, drained, phase>>,
             \A t \in Streams : /\ timer'[t] = "closing" <=> timer[t] = "closing"
                                /\ timer[t] = "closing" => feedOf'[t] = feedOf[t]
      PROVE  Goal'
  <2>1. \A f \in Feeds : TimersAt(f, {"closing"})' = TimersAt(f, {"closing"})
    BY <1>1
  <2> QED
    BY <1>1, <2>1
<1>2. ASSUME NEW st \in Streams, NEW s \in Symbols, NEW f \in Feeds,
             OpenCreates(st, s, f)
      PROVE  Goal'
  BY <1>2 DEF OpenCreates, StreamsPlaced
<1>3. ASSUME NEW t \in Streams, RemoveTake(t) PROVE Goal'
  <2> DEFINE f == feedOf[t]
  <2>1. f \in Feeds /\ phase[f] = "live"
    BY <1>3 DEF RemoveTake, LockHolder, MapExactlyLive, StreamsPlaced
  <2>2. f \notin drained /\ TimersAt(f, {"closing"}) = {}
    BY <2>1
  <2>3. TimersAt(f, {"closing"})' = {t}
    BY <1>3, <2>2 DEF RemoveTake, streamVars
  <2>4. \A g \in Feeds \ {f} : TimersAt(g, {"closing"})' = TimersAt(g, {"closing"})
    BY <1>3 DEF RemoveTake, streamVars
  <2> QED
    BY <1>3, <2>1, <2>2, <2>3, <2>4 DEF RemoveTake, streamVars
<1>4. ASSUME NEW f \in Feeds, Signal(f) PROVE Goal'
  BY <1>4 DEF Signal, registryVars
<1>5. ASSUME NEW f \in Feeds, ShutdownReturns(f) PROVE Goal'
  BY <1>5 DEF ShutdownReturns, registryVars, streamVars
<1>6. CASE ShutdownFlag
  BY <1>6 DEF ShutdownFlag, streamVars
<1>7. CASE ShutdownDrain
  <2> DEFINE taken == {f \in Feeds : phase[f] = "live"}
  <2>1. {f \in Feeds : \E s \in Symbols : feeds[s] = f} = taken
    BY DEF MapExactlyLive, SymbolsKept
  <2>2. /\ drained' = taken /\ managerTask' = "closing"
        /\ phase' = [f \in Feeds |-> IF f \in taken THEN "removed" ELSE phase[f]]
        /\ UNCHANGED <<timer, feedOf>> /\ drained = {}
    BY <1>7, <2>1 DEF ShutdownDrain, streamVars
  <2>3. \A f \in Feeds : TimersAt(f, {"closing"})' = TimersAt(f, {"closing"})
    BY <2>2
  <2>4. \A f \in taken : TimersAt(f, {"closing"}) = {}
    OBVIOUS
  <2>5. ShutdownOfRetired'
    <3>1. \A t \in Streams : timer[t] = "closing" => feedOf[t] \notin taken
      OBVIOUS
    <3>2. \A f \in Feeds : f \notin taken => phase'[f] = phase[f]
      BY <2>2
    <3>3. \A t \in Streams : timer[t] = "closing" => feedOf[t] \in Feeds
      BY DEF StreamsPlaced
    <3> QED
      BY <2>2, <3>1, <3>2, <3>3
  <2>6. SingleOwner'
    BY <2>2, <2>3, <2>4
  <2> QED
    BY <2>5, <2>6
<1>8. ASSUME NEW st \in Streams, ClientStep(st) PROVE Goal'
  <2>1. ASSUME NEW s \in Symbols, OpenRejected(st, s) PROVE Goal'
    BY <1>1, <2>1 DEF OpenRejected, registryVars
  <2>2. ASSUME NEW s \in Symbols, OpenReuses(st, s) PROVE Goal'
    BY <1>1, <2>2 DEF OpenReuses, StreamsPlaced, registryVars
  <2>3. CASE Open(st)
    BY <1>2, <2>1, <2>2, <2>3 DEF Open
  <2> QED
    BY <1>1, <1>8, <2>3 DEF ClientStep, Sent, SendFails, registryVars
<1>9. ASSUME NEW st \in Streams, StreamStep(st) \/ ShutdownNoticed(st)
      PROVE  Goal'
  <2>1. CASE Unsubscribe(st)
    BY <1>1, <2>1 DEF Unsubscribe, StreamsPlaced, registryVars
  <2>2. CASE Notify(st)
    BY <1>1, <2>2 DEF Notify, registryVars
  <2> QED
    BY <1>1, <1>9, <2>1, <2>2 DEF StreamStep, Subscribe, Attach, LoadInitial,
        WatchLatest, ChangeNoticed, ShutdownNoticed, registryVars
<1>10. ASSUME NEW t \in Streams, TimerStep(t) PROVE Goal'
  BY <1>1, <1>3, <1>10 DEF TimerStep, TimerWaits, TimerCancelled, TimerFires,
      RemoveCheck, registryVars, streamVars
<1>11. ASSUME NEW f \in Feeds, FeedStep(f) \/ ExchangeStep(f) PROVE Goal'
  BY <1>1, <1>4, <1>5, <1>11 DEF FeedStep, StoreHandle, PublisherStops,
      ExchangeStep, PublishSummary, SourcesExit, registryVars, streamVars
<1>12. CASE UNCHANGED vars
  BY <1>1, <1>12 DEF vars, registryVars, streamVars
<1> QED
  BY <1>6, <1>7, <1>8, <1>9, <1>10, <1>11, <1>12 DEF Next

----------------------------------------------------------------------------
\* The last stream that leaves a live feed starts a grace task in the same
\* step, and a grace task gives up only for a feed that is held or gone.
LEMMA IdleStep ==
  ASSUME TypeOK, TypeOK', SubscriptionsExact, MapExactlyLive, StreamsPlaced,
         LockHolder, NoIdleFeedLeak, [Next]_vars
  PROVE  NoIdleFeedLeak'
<1> USE ManagerAssumption DEF TypeOK, Goto, TimerGoto
<1> DEFINE Held(f) == StreamsAt(f, Holding)
           Due(f)  == TimersAt(f, Pending)
\* Feeds keep the streams and the grace tasks they had.
<1>1. ASSUME \A f \in Feeds : /\ phase'[f] = "live" => phase[f] = "live"
                             /\ Held(f) \subseteq Held(f)'
                             /\ Due(f) \subseteq Due(f)'
      PROVE  NoIdleFeedLeak'
  BY <1>1 DEF NoIdleFeedLeak
\* All feeds but one do.
<1>x. ASSUME NEW f \in Feeds,
             phase'[f] # "live" \/ Held(f)' # {} \/ Due(f)' # {},
             \A g \in Feeds \ {f} : /\ phase'[g] = phase[g]
                                   /\ Held(g) \subseteq Held(g)'
                                   /\ Due(g) \subseteq Due(g)'
      PROVE  NoIdleFeedLeak'
  BY <1>x DEF NoIdleFeedLeak
<1>2. ASSUME NEW f \in Feeds, StreamsAt(f, Counted) = {}
      PROVE  subscriptions[f] = 0
  BY <1>2, FS_EmptySet DEF SubscriptionsExact
<1>3. \A f \in Feeds : StreamsAt(f, Counted) \subseteq Held(f)
  BY DEF StreamsAt, Holding
<1> USE DEF StreamsAt, TimersAt, Holding, Counted, Pending
<1>4. ASSUME NEW st \in Streams, Open(st) PROVE NoIdleFeedLeak'
  <2>1. ASSUME NEW s \in Symbols, OpenRejected(st, s) PROVE NoIdleFeedLeak'
    BY <1>1, <2>1 DEF OpenRejected
  <2>2. ASSUME NEW s \in Symbols, OpenReuses(st, s) PROVE NoIdleFeedLeak'
    BY <1>1, <2>2 DEF OpenReuses, StreamsPlaced
  <2>3. ASSUME NEW s \in Symbols, NEW f \in Feeds, OpenCreates(st, s, f)
        PROVE NoIdleFeedLeak'
    <3>1. st \in Held(f)'
      BY <2>3 DEF OpenCreates
    <3>2. \A g \in Feeds \ {f} : /\ phase'[g] = phase[g]
                                /\ Held(g) \subseteq Held(g)'
                                /\ Due(g) \subseteq Due(g)'
      BY <2>3 DEF OpenCreates, StreamsPlaced
    <3> QED
      BY <1>x, <3>1, <3>2
  <2> QED
    BY <1>4, <2>1, <2>2, <2>3 DEF Open
<1>5. ASSUME NEW st \in Streams,
             \/ Sent(st) \/ SendFails(st) \/ Subscribe(st) \/ Attach(st)
             \/ LoadInitial(st) \/ WatchLatest(st) \/ ChangeNoticed(st)
             \/ ShutdownNoticed(st)
      PROVE  NoIdleFeedLeak'
  <2>1. pc'[st] \in Holding /\ pc[st] \in Holding
    BY <1>5 DEF Sent, SendFails, Subscribe, Attach, LoadInitial, WatchLatest,
        ChangeNoticed, ShutdownNoticed, Sending
  <2>2. /\ UNCHANGED <<phase, feedOf, timer>>
        /\ \A u \in Streams \ {st} : pc'[u] = pc[u]
    BY <1>5 DEF Sent, SendFails, Subscribe, Attach, LoadInitial, WatchLatest,
        ChangeNoticed, ShutdownNoticed
  <2> QED
    BY <1>1, <2>1, <2>2
<1>6. ASSUME NEW st \in Streams, Notify(st) PROVE NoIdleFeedLeak'
  <2>0. PICK f \in Feeds : f = feedOf[st]
    BY <1>6 DEF Notify, StreamsPlaced
  <2>1. st \in Held(f)'
    BY <1>6, <2>0 DEF Notify
  <2>2. \A g \in Feeds \ {f} : /\ phase'[g] = phase[g]
                              /\ Held(g) \subseteq Held(g)'
                              /\ Due(g) \subseteq Due(g)'
    BY <1>6, <2>0 DEF Notify
  <2> QED
    BY <1>x, <2>1, <2>2
<1>7. ASSUME NEW st \in Streams, Unsubscribe(st) PROVE NoIdleFeedLeak'
  <2>1. PICK f \in Feeds : f = feedOf[st]
    BY <1>7 DEF Unsubscribe, StreamsPlaced
  <2> DEFINE Others == StreamsAt(f, Counted) \ {st}
  <2>2. \A g \in Feeds \ {f} : /\ phase'[g] = phase[g]
                              /\ Held(g) \subseteq Held(g)'
                              /\ Due(g) \subseteq Due(g)'
    BY <1>7, <2>1 DEF Unsubscribe, StreamsPlaced
  <2>3. CASE subscriptions[f] = 1
    <3>1. st \in Due(f)'
      BY <1>7, <2>1, <2>3 DEF Unsubscribe
    <3> QED
      BY <1>x, <2>1, <2>2, <3>1
  <2>4. CASE subscriptions[f] # 1
    <3>1. IsFiniteSet(StreamsAt(f, Counted)) /\ st \in StreamsAt(f, Counted)
      BY <1>7, <2>1, FS_Subset DEF Unsubscribe
    <3>2. Cardinality(Others) # 0
      <4> HIDE DEF StreamsAt, Counted
      <4>1. Cardinality(StreamsAt(f, Counted)) = subscriptions[f]
        BY <2>1 DEF SubscriptionsExact
      <4>2. Cardinality(Others) = Cardinality(StreamsAt(f, Counted)) - 1
        BY <3>1, FS_RemoveElement
      <4> QED
        BY <2>1, <2>4, <4>1, <4>2
    <3>3. Others # {}
      BY <3>2, FS_EmptySet
    <3>4. Held(f)' # {}
      BY <1>7, <2>1, <3>3 DEF Unsubscribe
    <3> QED
      BY <1>x, <2>1, <2>2, <3>4
  <2> QED
    BY <2>3, <2>4
<1>8. ASSUME NEW t \in Streams, TimerStep(t) PROVE NoIdleFeedLeak'
  <2>1. CASE RemoveCheck(t)
    <3>1. PICK f \in Feeds : f = feedOf[t]
      BY <2>1 DEF RemoveCheck, StreamsPlaced
    <3>2. \A g \in Feeds : phase'[g] = phase[g] /\ Held(g) = Held(g)'
      BY <2>1 DEF RemoveCheck, streamVars
    <3>3. \A g \in Feeds \ {f} : Due(g) \subseteq Due(g)'
      BY <2>1, <3>1 DEF RemoveCheck, streamVars
    <3>4. CASE Unused(f)
      <4>1. t \in Due(f)'
        BY <2>1, <3>1, <3>4 DEF RemoveCheck, streamVars
      <4> QED
        BY <1>x, <3>1, <3>2, <3>3, <4>1
    <3>5. CASE ~Unused(f)
      <4>1. phase[f] = "live" => Held(f) # {}
        <5> SUFFICES ASSUME phase[f] = "live" PROVE Held(f) # {}
          OBVIOUS
        <5>1. subscriptions[f] # 0
          BY <3>1, <3>5 DEF Unused, MapExactlyLive
        <5>2. StreamsAt(f, Counted) # {}
          <6> HIDE DEF StreamsAt, Counted
          <6> QED
            BY <3>1, <5>1, <1>2
        <5> QED
          BY <1>3, <3>1, <5>2
      <4> QED
        BY <1>x, <3>1, <3>2, <3>3, <4>1
    <3> QED
      BY <3>4, <3>5
  <2>2. CASE RemoveTake(t)
    <3>1. PICK f \in Feeds : f = feedOf[t]
      BY <2>2 DEF RemoveTake, StreamsPlaced
    <3>2. phase'[f] # "live"
      BY <2>2, <3>1 DEF RemoveTake
    <3>3. \A g \in Feeds \ {f} : /\ phase'[g] = phase[g]
                                /\ Held(g) \subseteq Held(g)'
                                /\ Due(g) \subseteq Due(g)'
      BY <2>2, <3>1 DEF RemoveTake, streamVars
    <3> QED
      BY <1>x, <3>1, <3>2, <3>3
  <2> QED
    BY <1>1, <1>8, <2>1, <2>2 DEF TimerStep, TimerWaits, TimerCancelled,
        TimerFires, streamVars
<1>9. ASSUME NEW f \in Feeds, FeedStep(f) \/ ExchangeStep(f) PROVE NoIdleFeedLeak'
  BY <1>1, <1>9 DEF FeedStep, Signal, ShutdownReturns, StoreHandle,
      PublisherStops, ExchangeStep, PublishSummary, SourcesExit, streamVars
<1>10. CASE ShutdownFlag \/ ShutdownDrain \/ UNCHANGED vars
  BY <1>1, <1>10 DEF ShutdownFlag, ShutdownDrain, vars, streamVars
<1> QED
  BY <1>4, <1>5, <1>6, <1>7, <1>8, <1>9, <1>10 DEF Next, ClientStep, StreamStep

----------------------------------------------------------------------------
\* The inductive invariant: the six invariants that the runs check, and what
\* makes them inductive (see FeedManager).
THEOREM Invariance == Spec => []IInv
<1>1. Init => IInv
  BY InitIInv
<1>2. IInv /\ [Next]_vars => IInv'
  <2> SUFFICES ASSUME IInv, [Next]_vars PROVE IInv'
    OBVIOUS
  <2> USE DEF IInv
  <2>1. TypeOK' /\ SubscriptionsExact'
    BY TypeStep, CountStep
  <2>2. (MapExactlyLive /\ NoOpenAfterDrain /\ SymbolsKept /\ FlagSet)'
    BY <2>1, RegistryStep
  <2>3. StreamsPlaced' /\ LockHolder'
    BY <2>1, PlaceStep, LockStep
  <2>4. (ShutdownOfRetired /\ SingleOwner)'
    BY <2>1, OwnerStep
  <2>5. NoIdleFeedLeak'
    BY <2>1, IdleStep
  <2> QED
    BY <2>1, <2>2, <2>3, <2>4, <2>5
<1> QED
  BY <1>1, <1>2, PTL DEF Spec

\* Each variable keeps its type: in particular no exit of publish() lets the
\* unsigned counter of subscriptions go below zero.
THEOREM TypeCorrect == Spec => []TypeOK
  BY Invariance, PTL DEF IInv

\* The counter of a feed is the number of its streams between on_subscribe and
\* on_unsubscribe.
THEOREM CountsCorrect == Spec => []SubscriptionsExact
  BY Invariance, PTL DEF IInv

\* The registry holds exactly the feeds that are live.
THEOREM RegistryCorrect == Spec => []MapExactlyLive
  BY Invariance, PTL DEF IInv

\* Every feed that has left the registry is shut down by exactly one task.
THEOREM ShutdownOwned == Spec => []SingleOwner
  BY Invariance, PTL DEF IInv

\* No feed is registered once the manager's shutdown has drained the registry.
THEOREM DrainFinal == Spec => []NoOpenAfterDrain
  BY Invariance, PTL DEF IInv

\* A live feed is held by a stream or has a grace task that will decide on it.
THEOREM NoLeak == Spec => []NoIdleFeedLeak
  BY Invariance, PTL DEF IInv

----------------------------------------------------------------------------
\* The feeds of the manager live the life FeedRegistry describes: opening
\* registers, removing retires one, draining retires all and shuts the
\* registry, the broadcast stops one, and every other step is a stutter.
THEOREM Refinement == Spec => ImplementsRegistry
<1> DEFINE RetiredNow == {f \in Feeds : phase[f] \in Retired}
           StoppedNow == {f \in Feeds : phase[f] \in {"signalled", "closed"}}
<1>1. Init => Registry!Init
  BY DEF Init, Registry!Init, Retired
<1>2. IInv /\ [Next]_vars => [Registry!Next]_(Registry!vars)
  <2> SUFFICES ASSUME IInv, [Next]_vars
               PROVE  Registry!Next \/ UNCHANGED Registry!vars
    OBVIOUS
  <2> USE ManagerAssumption DEF IInv, TypeOK, Goto, TimerGoto
  <2>1. ASSUME UNCHANGED <<feeds, managerTask>>,
               \A f \in Feeds :
                  /\ phase'[f] \in Retired <=> phase[f] \in Retired
                  /\ phase'[f] \in {"signalled", "closed"}
                        <=> phase[f] \in {"signalled", "closed"}
        PROVE  UNCHANGED Registry!vars
    <3>1. UNCHANGED <<RetiredNow, StoppedNow>>
      BY <2>1
    <3> QED
      BY <2>1, <3>1 DEF Registry!vars
  <2>2. ASSUME NEW st \in Streams, NEW s \in Symbols, NEW f \in Feeds,
               OpenCreates(st, s, f)
        PROVE  Registry!Register(f, s)
    <3>1. UNCHANGED <<RetiredNow, StoppedNow>>
      BY <2>2 DEF OpenCreates, Retired
    <3>2. f \notin Registry!Registered \cup RetiredNow
      BY <2>2 DEF OpenCreates, Registry!Registered, SymbolsKept, MapExactlyLive, Retired
    <3> QED
      BY <2>2, <3>1, <3>2 DEF OpenCreates, Registry!Register, FlagSet
  <2>3. ASSUME NEW t \in Streams, RemoveTake(t)
        PROVE  \E f \in Feeds, s \in Symbols : Registry!Retire(f, s)
    <3>1. PICK f \in Feeds : f = feedOf[t]
      BY <2>3 DEF RemoveTake, StreamsPlaced
    <3>2. feeds[SymbolOf[f]] = f /\ phase[f] = "live"
      BY <2>3, <3>1 DEF RemoveTake, LockHolder, MapExactlyLive
    <3>3. RetiredNow' = RetiredNow \cup {f} /\ UNCHANGED StoppedNow
      BY <2>3, <3>1, <3>2 DEF RemoveTake, Retired
    <3> QED
      BY <2>3, <3>1, <3>2, <3>3 DEF RemoveTake, Registry!Retire
  <2>4. ASSUME ShutdownDrain PROVE Registry!Shut
    <3>1. RetiredNow' = RetiredNow \cup Registry!Registered
      BY <2>4 DEF ShutdownDrain, Retired, Registry!Registered
    <3>2. UNCHANGED StoppedNow
      BY <2>4 DEF ShutdownDrain, MapExactlyLive, SymbolsKept
    <3> QED
      BY <2>4, <3>1, <3>2 DEF ShutdownDrain, Registry!Shut
  <2>5. ASSUME NEW f \in Feeds, Signal(f) PROVE Registry!Stop(f)
    <3>1. UNCHANGED RetiredNow /\ StoppedNow' = StoppedNow \cup {f}
      BY <2>5 DEF Signal, Retired
    <3> QED
      BY <2>5, <3>1 DEF Signal, Registry!Stop, Retired, registryVars
  <2>6. ASSUME NEW f \in Feeds,
               \/ ShutdownReturns(f) \/ StoreHandle(f) \/ PublisherStops(f)
               \/ ExchangeStep(f)
        PROVE  UNCHANGED Registry!vars
    BY <2>1, <2>6 DEF ShutdownReturns, StoreHandle, PublisherStops,
        ExchangeStep, PublishSummary, SourcesExit, registryVars, Retired
  <2>7. ASSUME UNCHANGED <<feeds, managerTask, phase>>
        PROVE  UNCHANGED Registry!vars
    BY <2>1, <2>7
  <2>8. ASSUME NEW st \in Streams, ClientStep(st)
        PROVE  Registry!Next \/ UNCHANGED Registry!vars
    BY <2>2, <2>7, <2>8 DEF ClientStep, Open, OpenRejected, OpenReuses, Sent,
        SendFails, registryVars, Registry!Next
  <2>9. ASSUME NEW st \in Streams, StreamStep(st) \/ ShutdownNoticed(st)
        PROVE  UNCHANGED Registry!vars
    BY <2>7, <2>9 DEF StreamStep, Subscribe, Notify, Attach, LoadInitial,
        WatchLatest, ChangeNoticed, Unsubscribe, ShutdownNoticed, registryVars
  <2>10. ASSUME NEW t \in Streams, TimerStep(t)
         PROVE  Registry!Next \/ UNCHANGED Registry!vars
    BY <2>3, <2>7, <2>10 DEF TimerStep, TimerWaits, TimerCancelled, TimerFires,
        RemoveCheck, registryVars, Registry!Next
  <2>11. CASE ShutdownFlag
    <3>1. UNCHANGED <<feeds, phase, (managerTask = "closing")>>
      BY <2>11 DEF ShutdownFlag
    <3> QED
      BY <3>1 DEF Registry!vars
  <2>12. CASE UNCHANGED vars
    BY <2>7, <2>12 DEF vars, registryVars
  <2> QED
    BY <2>4, <2>5, <2>6, <2>8, <2>9, <2>10, <2>11, <2>12
    DEF Next, FeedStep, Registry!Next
<1> QED
  BY <1>1, <1>2, Invariance, PTL DEF Spec, ImplementsRegistry, Registry!Spec

=============================================================================
