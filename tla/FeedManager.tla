---------------------------- MODULE FeedManager ----------------------------
(***************************************************************************)
(* The life cycle of the feeds of crates/aggserver/src/service/manager.rs: *)
(* the registry of live feeds behind one async mutex, the streams (one per *)
(* gRPC call) that subscribe to a feed, the grace-period task spawned when *)
(* the last subscriber leaves, and the shutdown of one feed or of all.     *)
(*                                                                         *)
(* Actors: the streams (open, then the spawned Feed::publish task), the    *)
(* grace tasks (one per stream at most, the one spawned by its             *)
(* on_unsubscribe), the publisher and source tasks of each feed, and the   *)
(* manager's shutdown task.  The server runs on a multi-threaded runtime:  *)
(* every atomic access, channel operation and critical section is one step *)
(* and steps of different tasks interleave freely.                         *)
(*                                                                         *)
(* Summaries have no content here: a feed has none, some, or the final     *)
(* Err(Shutdown).  Time has no value: a grace period may end at any moment *)
(* after the task starts waiting.  The client's side of a stream is the    *)
(* environment: it takes a message, or is gone, or does neither.           *)
(***************************************************************************)
EXTENDS Naturals, FiniteSets

CONSTANTS
    Symbols,    \* the symbols a client may ask for
    Openable,   \* those with an instrument whose sources can all be created
    Feeds,      \* identities of Feed objects, each allocated at most once
    SymbolOf,   \* the symbol a Feed object is created for
    Streams,    \* the gRPC calls
    NoFeed      \* no entry

ASSUME ManagerAssumption ==
    /\ Openable \subseteq Symbols
    /\ SymbolOf \in [Feeds -> Symbols]
    /\ NoFeed \notin Feeds
    /\ IsFiniteSet(Streams)

VARIABLES
    feeds,          \* Manager::feeds, symbol -> the live feed
    isShuttingDown, \* Manager::is_shutting_down
    managerTask,    \* where Manager::shutdown stands
    drained,        \* the feeds Manager::shutdown took out of the map
    phase,          \* the life cycle of each Feed object
    subscriptions,  \* Feed::subscriptions
    latest,         \* Publisher::latest
    stored,         \* feeds whose publisher has its JoinHandle stored
    forwarding,     \* feeds whose source tasks still run
    pc,             \* where each stream stands
    feedOf,         \* the Arc<Feed> a stream holds
    signal,         \* streams with an unread feed shutdown message
    changed,        \* streams whose watch receiver has an unseen change
    timer           \* the grace task spawned by a stream's on_unsubscribe

registryVars  == <<feeds, isShuttingDown, managerTask, drained>>
publisherVars == <<latest, stored, forwarding>>
streamVars    == <<pc, feedOf, signal, changed>>
sharedVars    == <<registryVars, phase, publisherVars>>
vars == <<sharedVars, subscriptions, streamVars, timer>>

----------------------------------------------------------------------------
Phases  == {"free", "live", "removed", "signalled", "closed"}
Retired == {"removed", "signalled", "closed"}

\* Between fetch_add and fetch_sub of the feed's counter.
Counted == {"notify", "attach", "initial", "sendInitial", "subscribe",
            "watching", "sending", "leaving"}
\* A stream that has been handed a feed and has not given it up.
Holding == {"spawned"} \cup Counted
\* publish() owns a receiver of the feed's shutdown broadcast and still uses it.
Listening == {"initial", "sendInitial", "subscribe", "watching", "sending"}
\* publish() owns a receiver of the publisher's watch channel and still uses it.
Watchers == {"watching", "sending"}
\* Blocked in send_with_shutdown.
Sending  == {"sendInitial", "sending"}

\* A grace task that has not yet decided whether to remove the feed.
Pending == {"spawned", "waiting", "expired", "checked"}

PCs    == Holding \cup {"idle", "ended", "rejected"}
Timers == Pending \cup {"none", "notified", "closing", "done"}

TypeOK ==
    /\ feeds \in [Symbols -> Feeds \cup {NoFeed}]
    /\ isShuttingDown \in BOOLEAN
    /\ managerTask \in {"listening", "draining", "closing"}
    /\ drained \subseteq Feeds
    /\ phase \in [Feeds -> Phases]
    /\ subscriptions \in [Feeds -> Nat]
    /\ latest \in [Feeds -> {"none", "some", "shutdown"}]
    /\ stored \subseteq Feeds
    /\ forwarding \subseteq Feeds
    /\ pc \in [Streams -> PCs]
    /\ feedOf \in [Streams -> Feeds \cup {NoFeed}]
    /\ signal \subseteq Streams
    /\ changed \subseteq Streams
    /\ timer \in [Streams -> Timers]

\* The streams of feed f that stand at one of the points of S.
StreamsAt(f, S) == {st \in Streams : feedOf[st] = f /\ pc[st] \in S}
\* The grace tasks of feed f that stand at one of the points of S.
TimersAt(f, S)  == {st \in Streams : feedOf[st] = f /\ timer[st] \in S}

\* Whether the mutex of the registry is taken.  Every critical section is one
\* step except that of remove_feed_if_unused, whose test reads a counter that
\* the mutex does not protect.
FeedsLocked == \E st \in Streams : timer[st] = "checked"

Init ==
    /\ feeds = [s \in Symbols |-> NoFeed]
    /\ isShuttingDown = FALSE
    /\ managerTask = "listening"
    /\ drained = {}
    /\ phase = [f \in Feeds |-> "free"]
    /\ subscriptions = [f \in Feeds |-> 0]
    /\ latest = [f \in Feeds |-> "none"]
    /\ stored = {}
    /\ forwarding = {}
    /\ pc = [st \in Streams |-> "idle"]
    /\ feedOf = [st \in Streams |-> NoFeed]
    /\ signal = {}
    /\ changed = {}
    /\ timer = [st \in Streams |-> "none"]

----------------------------------------------------------------------------
(* Manager::open, called by open_summary_stream, and the spawn of publish. *)

\* The stream goes from one point of publish() to the next, nothing else.
Goto(st, from, to) ==
    /\ pc[st] = from
    /\ pc' = [pc EXCEPT ![st] = to]

Accepting == ~isShuttingDown

\* The manager is shutting down, or the symbol has no instrument or no source.
OpenRejected(st, s) ==
    /\ ~FeedsLocked
    /\ ~Accepting \/ (feeds[s] = NoFeed /\ s \notin Openable)
    /\ Goto(st, "idle", "rejected")
    /\ UNCHANGED <<sharedVars, subscriptions, feedOf, signal, changed, timer>>

OpenReuses(st, s) ==
    /\ ~FeedsLocked
    /\ Accepting
    /\ feeds[s] # NoFeed
    /\ Goto(st, "idle", "spawned")
    /\ feedOf' = [feedOf EXCEPT ![st] = feeds[s]]
    /\ UNCHANGED <<sharedVars, subscriptions, signal, changed, timer>>

OpenCreates(st, s, f) ==
    /\ ~FeedsLocked
    /\ Accepting
    /\ feeds[s] = NoFeed
    /\ s \in Openable
    /\ phase[f] = "free" /\ SymbolOf[f] = s
    /\ phase' = [phase EXCEPT ![f] = "live"]
    /\ forwarding' = forwarding \cup {f}
    /\ feeds' = [feeds EXCEPT ![s] = f]
    /\ Goto(st, "idle", "spawned")
    /\ feedOf' = [feedOf EXCEPT ![st] = f]
    /\ UNCHANGED <<isShuttingDown, managerTask, drained, subscriptions,
                   latest, stored, signal, changed, timer>>

----------------------------------------------------------------------------
(* Feed::publish, the task of one stream.                                  *)

\* on_subscribe, the counter: only the first subscriber goes on to notify.
Subscribe(st) ==
    LET f == feedOf[st] IN
    /\ Goto(st, "spawned", IF subscriptions[f] = 0 THEN "notify" ELSE "attach")
    /\ subscriptions' = [subscriptions EXCEPT ![f] = @ + 1]
    /\ UNCHANGED <<sharedVars, feedOf, signal, changed, timer>>

\* on_subscribe, notify_waiters: reaches the grace tasks that wait already.
Notify(st) ==
    LET cancelled == TimersAt(feedOf[st], {"waiting"}) IN
    /\ Goto(st, "notify", "attach")
    /\ timer' = [t \in Streams |->
                    IF t \in cancelled THEN "notified" ELSE timer[t]]
    /\ UNCHANGED <<sharedVars, subscriptions, feedOf, signal, changed>>

\* feed_shutdown_tx.subscribe(): only later broadcasts will be received.
Attach(st) ==
    /\ Goto(st, "attach", "initial")
    /\ UNCHANGED <<sharedVars, subscriptions, feedOf, signal, changed, timer>>

\* The first load of the latest summary; anything but a summary is skipped.
LoadInitial(st) ==
    /\ Goto(st, "initial",
            IF latest[feedOf[st]] = "some" THEN "sendInitial" ELSE "subscribe")
    /\ UNCHANGED <<sharedVars, subscriptions, feedOf, signal, changed, timer>>

\* watch_latest(): the receiver starts with every past change seen.
WatchLatest(st) ==
    /\ Goto(st, "subscribe", "watching")
    /\ UNCHANGED <<sharedVars, subscriptions, feedOf, signal, changed, timer>>

\* rx.changed() wins the select: a summary is sent, the final error ends it.
ChangeNoticed(st) ==
    /\ st \in changed
    /\ Goto(st, "watching",
            CASE latest[feedOf[st]] = "some"     -> "sending"
              [] latest[feedOf[st]] = "shutdown" -> "leaving"
              [] OTHER                           -> "watching")
    /\ changed' = changed \ {st}
    /\ UNCHANGED <<sharedVars, subscriptions, feedOf, signal, timer>>

\* The client's channel had room (the environment's choice).
Sent(st) ==
    /\ \/ Goto(st, "sendInitial", "subscribe")
       \/ Goto(st, "sending", "watching")
    /\ UNCHANGED <<sharedVars, subscriptions, feedOf, signal, changed, timer>>

\* Mutant: publish() returns without on_unsubscribe.
AfterFailedSendReturns == "ended"

AfterFailedSend == "leaving"

\* The send fails because the client has dropped its receiver.
SendFails(st) ==
    /\ pc[st] \in Sending
    /\ pc' = [pc EXCEPT ![st] = AfterFailedSend]
    /\ UNCHANGED <<sharedVars, subscriptions, feedOf, signal, changed, timer>>

\* Mutant: the send does not listen to the shutdown.
InterruptibleLoop == {"watching"}

Interruptible == Sending \cup {"watching"}

\* shutdown.recv() wins the select of the loop or of send_with_shutdown.
ShutdownNoticed(st) ==
    /\ st \in signal
    /\ pc[st] \in Interruptible
    /\ pc' = [pc EXCEPT ![st] = "leaving"]
    /\ signal' = signal \ {st}
    /\ UNCHANGED <<sharedVars, subscriptions, feedOf, changed, timer>>

\* Mutant: tests the value after the decrement, as if fetch_sub returned it.
WasLastAfter(count) == count = 2

\* fetch_sub returned 1.
WasLast(count) == count = 1

\* Mutant: the subscriber is counted out twice.
TwoFewer(count) == count - 2

OneFewer(count) == count - 1

\* on_unsubscribe and the drop of the sender: the last subscriber spawns the
\* grace task, which holds the feed from then on.
Unsubscribe(st) ==
    LET f == feedOf[st] IN
    /\ Goto(st, "leaving", "ended")
    /\ subscriptions' = [subscriptions EXCEPT ![f] = OneFewer(@)]
    /\ timer' = [timer EXCEPT
                    ![st] = IF WasLast(subscriptions[f]) THEN "spawned" ELSE @]
    /\ UNCHANGED <<sharedVars, feedOf, signal, changed>>

----------------------------------------------------------------------------
(* The grace task of on_unsubscribe and remove_feed_if_unused.             *)

TimerGoto(t, from, to) ==
    /\ timer[t] = from
    /\ timer' = [timer EXCEPT ![t] = to]

\* First poll: notified() is created here, earlier notifications are lost.
TimerWaits(t) ==
    /\ TimerGoto(t, "spawned", "waiting")
    /\ UNCHANGED <<sharedVars, subscriptions, streamVars>>

\* The notification wins the select.
TimerCancelled(t) ==
    /\ TimerGoto(t, "notified", "done")
    /\ UNCHANGED <<sharedVars, subscriptions, streamVars>>

\* The sleep ends, or the global shutdown is received: also when a
\* notification is there too, since select! picks any of its ready branches.
TimerFires(t) ==
    /\ \/ TimerGoto(t, "waiting", "expired")
       \/ TimerGoto(t, "notified", "expired")
    /\ UNCHANGED <<sharedVars, subscriptions, streamVars>>

\* Mutant: the symbol has a feed, no matter which one (no ptr_eq).
UnusedBySymbol(f) ==
    /\ feeds[SymbolOf[f]] # NoFeed
    /\ subscriptions[f] = 0

\* The feed is the one registered for its symbol and nobody is counted.
Unused(f) ==
    /\ feeds[SymbolOf[f]] = f
    /\ subscriptions[f] = 0

\* Takes the registry's mutex and keeps it only if the feed is to be removed.
RemoveCheck(t) ==
    /\ ~FeedsLocked
    /\ TimerGoto(t, "expired", IF Unused(feedOf[t]) THEN "checked" ELSE "done")
    /\ UNCHANGED <<sharedVars, subscriptions, streamVars>>

\* Mutant: removes the feed and forgets its shutdown.
AfterRemovalNothing == "done"

AfterRemoval == "closing"

\* Removes the feed and releases the mutex; its shutdown is next.
RemoveTake(t) ==
    LET f == feedOf[t] IN
    /\ TimerGoto(t, "checked", AfterRemoval)
    /\ feeds' = [feeds EXCEPT ![SymbolOf[f]] = NoFeed]
    /\ phase' = [phase EXCEPT ![f] = "removed"]
    /\ UNCHANGED <<isShuttingDown, managerTask, drained, subscriptions,
                   publisherVars, streamVars>>

----------------------------------------------------------------------------
(* Feed::shutdown, run by the grace task or by Manager::shutdown.          *)

\* Manager::shutdown takes the drained feeds one after the other.
ManagersTurn(f) ==
    /\ f \in drained
    /\ \A g \in drained : phase[g] # "signalled"

\* Broadcasts to the streams that listen, and closes the publisher.
Signal(f) ==
    /\ phase[f] = "removed"
    /\ ManagersTurn(f) \/ TimersAt(f, {"closing"}) # {}
    /\ phase' = [phase EXCEPT ![f] = "signalled"]
    /\ signal' = signal \cup StreamsAt(f, Listening)
    /\ UNCHANGED <<registryVars, subscriptions, publisherVars, pc, feedOf,
                   changed, timer>>

\* Every source task has been joined and wait_complete has returned, which it
\* does at once when the handle is not stored yet.
ShutdownReturns(f) ==
    /\ phase[f] = "signalled"
    /\ f \notin forwarding
    /\ f \in stored => latest[f] = "shutdown"
    /\ phase' = [phase EXCEPT ![f] = "closed"]
    /\ timer' = [t \in Streams |->
                    IF t \in TimersAt(f, {"closing"}) THEN "done" ELSE timer[t]]
    /\ UNCHANGED <<registryVars, subscriptions, publisherVars, streamVars>>

----------------------------------------------------------------------------
(* The tasks of a feed: the publisher, the task that stores its handle,    *)
(* and the source tasks.                                                   *)

\* The spawned tasks run from the moment open starts the publisher.
Started(f) == phase[f] # "free"

StoreHandle(f) ==
    /\ Started(f)
    /\ f \notin stored
    /\ stored' = stored \cup {f}
    /\ UNCHANGED <<registryVars, phase, subscriptions, latest, forwarding,
                   streamVars, timer>>

\* A snapshot arrives: the summary is stored and the watchers are told, in one
\* step here and below (FeedPipeline takes the two apart).
PublishSummary(f) ==
    /\ Started(f)
    /\ latest[f] # "shutdown"
    /\ latest' = [latest EXCEPT ![f] = "some"]
    /\ changed' = changed \cup StreamsAt(f, Watchers)
    /\ UNCHANGED <<registryVars, phase, subscriptions, stored, forwarding,
                   pc, feedOf, signal, timer>>

\* The publisher received close(): the final error is stored and told.
PublisherStops(f) ==
    /\ phase[f] \in {"signalled", "closed"}
    /\ latest[f] # "shutdown"
    /\ latest' = [latest EXCEPT ![f] = "shutdown"]
    /\ changed' = changed \cup StreamsAt(f, Watchers)
    /\ UNCHANGED <<registryVars, phase, subscriptions, stored, forwarding,
                   pc, feedOf, signal, timer>>

\* The source tasks have ended: when that happens is not decided here.
SourcesExit(f) ==
    /\ phase[f] = "signalled"
    /\ f \in forwarding
    /\ forwarding' = forwarding \ {f}
    /\ UNCHANGED <<registryVars, phase, subscriptions, latest, stored,
                   streamVars, timer>>

----------------------------------------------------------------------------
(* Manager::shutdown, run by the task Manager::new spawns.                 *)

\* Mutant: the flag is left for later than the drain.
RaiseFlagLater == UNCHANGED isShuttingDown

RaiseFlag == isShuttingDown' = TRUE

\* The global shutdown is received: new opens are refused from here on.
ShutdownFlag ==
    /\ managerTask = "listening"
    /\ managerTask' = "draining"
    /\ RaiseFlag
    /\ UNCHANGED <<feeds, drained, phase, subscriptions, publisherVars,
                   streamVars, timer>>

\* Mutant: the map is read without its mutex.
DrainAnytime == TRUE

DrainTurn == ~FeedsLocked

\* Mutant: the feeds are copied and stay in the map.
CopyRegistry == UNCHANGED feeds

EmptyRegistry == feeds' = [s \in Symbols |-> NoFeed]

ShutdownDrain ==
    LET taken == {f \in Feeds : \E s \in Symbols : feeds[s] = f} IN
    /\ DrainTurn
    /\ managerTask = "draining"
    /\ managerTask' = "closing"
    /\ drained' = taken
    /\ EmptyRegistry
    /\ phase' = [f \in Feeds |-> IF f \in taken THEN "removed" ELSE phase[f]]
    /\ UNCHANGED <<isShuttingDown, subscriptions, publisherVars, streamVars, timer>>

----------------------------------------------------------------------------
Open(st) == \E s \in Symbols :
    \/ OpenRejected(st, s)
    \/ OpenReuses(st, s)
    \/ \E f \in Feeds : OpenCreates(st, s, f)

\* The steps of a stream that wait for nothing outside the server.
StreamStep(st) ==
    \/ Subscribe(st)
    \/ Notify(st)
    \/ Attach(st)
    \/ LoadInitial(st)
    \/ WatchLatest(st)
    \/ ChangeNoticed(st)
    \/ Unsubscribe(st)

TimerStep(t) ==
    \/ TimerWaits(t)
    \/ TimerCancelled(t)
    \/ TimerFires(t)
    \/ RemoveCheck(t)
    \/ RemoveTake(t)

FeedStep(f) ==
    \/ Signal(f)
    \/ ShutdownReturns(f)
    \/ StoreHandle(f)
    \/ PublisherStops(f)

ClientStep(st) == Open(st) \/ Sent(st) \/ SendFails(st)

ExchangeStep(f) == PublishSummary(f) \/ SourcesExit(f)

Next ==
    \/ \E st \in Streams : \/ ClientStep(st) \/ StreamStep(st)
                           \/ ShutdownNoticed(st) \/ TimerStep(st)
    \/ \E f \in Feeds : FeedStep(f) \/ ExchangeStep(f)
    \/ ShutdownFlag
    \/ ShutdownDrain

Spec == Init /\ [][Next]_vars

\* Tasks that are ready run.  Nothing is assumed of the clients (they may never
\* take a message), of the exchanges, or that the process is ever asked to stop.
Fairness ==
    /\ \A st \in Streams : /\ WF_vars(StreamStep(st))
                           /\ WF_vars(ShutdownNoticed(st))
                           /\ WF_vars(TimerStep(st))
    /\ \A f \in Feeds : /\ WF_vars(Signal(f))
                        /\ WF_vars(ShutdownReturns(f))
                        /\ WF_vars(StoreHandle(f))
                        /\ WF_vars(PublisherStops(f))
    /\ WF_vars(ShutdownDrain)

FairSpec == Spec /\ Fairness

----------------------------------------------------------------------------
(* Safety.                                                                 *)

\* The counter of a feed is the number of its streams between on_subscribe and
\* on_unsubscribe, whichever of publish()'s exits they take: the test for zero
\* in remove_feed_if_unused means what it says.
SubscriptionsExact ==
    \A f \in Feeds : subscriptions[f] = Cardinality(StreamsAt(f, Counted))

\* The registry holds exactly the live feeds, each under its own symbol: no
\* feed is lost without its shutdown and none is handed out after its removal,
\* however a grace task of an old feed, a new open and the drain interleave.
MapExactlyLive ==
    \A f \in Feeds : phase[f] = "live" <=> feeds[SymbolOf[f]] = f

\* Every feed that has left the registry and is not closed is being shut down
\* by exactly one task, the manager's or one grace task: Feed::shutdown is
\* neither forgotten nor run by two tasks.
SingleOwner ==
    \A f \in Feeds : phase[f] \in {"removed", "signalled"} =>
        \/ f \in drained /\ TimersAt(f, {"closing"}) = {}
        \/ f \notin drained /\ \E t \in Streams : TimersAt(f, {"closing"}) = {t}

\* Once the shutdown of the manager has drained the registry, no feed is ever
\* registered again: is_shutting_down is set before the drain and read under
\* the mutex, so an open either precedes the drain or is refused.
NoOpenAfterDrain ==
    managerTask = "closing" => \A s \in Symbols : feeds[s] = NoFeed

\* A registered feed always has a stream that holds it or a grace task that has
\* still to decide on its removal: no order of subscribing, notifying and
\* leaving lets a feed run for ever with nobody to close it.
NoIdleFeedLeak ==
    \A f \in Feeds : phase[f] = "live" =>
        StreamsAt(f, Holding) # {} \/ TimersAt(f, Pending) # {}

(* What makes these invariants inductive.                                  *)

\* The registry knows a feed under its own symbol only.
SymbolsKept ==
    \A s \in Symbols : feeds[s] # NoFeed => SymbolOf[feeds[s]] = s

\* A stream has a feed exactly when open gave it one, and only the streams that
\* have ended have a grace task.
StreamsPlaced ==
    \A st \in Streams :
        /\ feedOf[st] = NoFeed <=> pc[st] \in {"idle", "rejected"}
        /\ feedOf[st] # NoFeed => phase[feedOf[st]] # "free"
        /\ timer[st] # "none" => pc[st] = "ended"

\* One grace task holds the mutex at a time, and what it tested about the
\* registry stays true until it removes the feed.
LockHolder ==
    /\ \A t, u \in Streams : timer[t] = "checked" /\ timer[u] = "checked" => t = u
    /\ \A t \in Streams : timer[t] = "checked" =>
            feeds[SymbolOf[feedOf[t]]] = feedOf[t]

\* Only feeds that have left the registry are being shut down or drained.
ShutdownOfRetired ==
    /\ \A t \in Streams : timer[t] = "closing" =>
            phase[feedOf[t]] \in {"removed", "signalled"}
    /\ \A f \in drained : phase[f] \in Retired
    /\ managerTask # "closing" => drained = {}

FlagSet == isShuttingDown <=> managerTask # "listening"

IInv ==
    /\ TypeOK
    /\ SubscriptionsExact
    /\ MapExactlyLive
    /\ SingleOwner
    /\ NoOpenAfterDrain
    /\ NoIdleFeedLeak
    /\ SymbolsKept
    /\ StreamsPlaced
    /\ LockHolder
    /\ ShutdownOfRetired
    /\ FlagSet

----------------------------------------------------------------------------
\* The life of the feeds as their users see it: one per symbol at a time, each
\* retired once and stopped once, none after the registry closed.
Registry == INSTANCE FeedRegistry WITH
    registry <- feeds,
    retired  <- {f \in Feeds : phase[f] \in Retired},
    stopped  <- {f \in Feeds : phase[f] \in {"signalled", "closed"}},
    shut     <- managerTask = "closing"

ImplementsRegistry == Registry!Spec

----------------------------------------------------------------------------
(* Liveness, under FairSpec.                                               *)

Idle(f) == phase[f] = "live" /\ StreamsAt(f, Holding) = {}

\* A feed that nobody holds is given to a new stream, or is told to stop, or is
\* taken over by the manager's shutdown: a cancelled grace task and a lost
\* notification never leave it running.
IdleFeedStops ==
    \A f \in Feeds : Idle(f) ~> (\/ phase[f] \in {"signalled", "closed"}
                                 \/ StreamsAt(f, Holding) # {}
                                 \/ f \in drained)

\* After the shutdown signal the registry becomes empty for good.
ShutdownEmptiesRegistry ==
    isShuttingDown ~> [](\A s \in Symbols : feeds[s] = NoFeed)

\* A stream that had a shutdown receiver when its feed was shut down ends, even
\* if its client never takes another message.
SignalledStreamEnds ==
    \A st \in Streams : st \in signal ~> pc[st] = "ended"

----------------------------------------------------------------------------
(* What the documentation says and the code does not do.                   *)

\* "Removes a feed if it is unused" (remove_feed_if_unused): no stream holds
\* the feed when the grace task takes it out of the registry.
OnlyUnusedRemoved ==
    [][\A t \in Streams : timer[t] = "checked" /\ timer'[t] = "closing"
           => StreamsAt(feedOf[t], Holding) = {}]_vars

\* "Drops the sender when unsubscribed or shutdown is triggered" (publish): a
\* stream whose feed has been shut down ends.
StreamEndsOnShutdown ==
    \A st \in Streams :
        (pc[st] = "watching" /\ phase[feedOf[st]] = "signalled")
            ~> pc[st] = "ended"

=============================================================================
