---------------------------- MODULE FeedPipeline ----------------------------
(***************************************************************************)
(* One feed from the exchanges to its clients: the exchange tasks, the     *)
(* source tasks of Manager::start_summary_sources that forward their       *)
(* snapshots, the publisher, the streams that send its summaries           *)
(* (Feed::publish), and Feed::shutdown.                                    *)
(*                                                                         *)
(* Every cell is followed by a watch channel, which remembers that it has  *)
(* changed and not how often: readers skip values and must not skip the    *)
(* last.  How streams come and go is FeedManager's subject; here a stream  *)
(* begins with its shutdown receiver and ends when it leaves the loop, and *)
(* Feed::shutdown waits for the publisher (wait_complete's early return is *)
(* there too).                                                             *)
(***************************************************************************)
EXTENDS ExchangeFeed, Publisher

VARIABLES
    feed,       \* "open", or where Feed::shutdown stands
    fwd,        \* where the source task of each exchange stands
    held,       \* the snapshot it is sending
    fwdTold,    \* source tasks with an unread shutdown message
    pc,         \* where each stream stands
    item,       \* the summary it is sending
    signal,     \* streams with an unread shutdown message
    channel,    \* the client's channel, with room for one summary
    got         \* the last summary each client took

forwarderVars == <<fwd, held, fwdTold>>
streamVars    == <<pc, item, signal, channel, got>>
vars == <<exchangeVars, publisherVars, feed, forwarderVars, streamVars>>

NoBook == [s \in Sources |-> 0]

Attached == {"initial", "sendInitial", "subscribe", "watching", "load", "sending"}
Sending  == {"sendInitial", "sending"}

TypeOK ==
    /\ ExchangeTypeOK
    /\ PublisherTypeOK
    /\ feed \in {"open", "signalled", "closed"}
    /\ fwd \in [Sources -> {"load", "sending", "waiting", "exited"}]
    /\ held \in [Sources -> 0..MaxVersion]
    /\ fwdTold \subseteq Sources
    /\ pc \in [Streams -> Attached \cup {"idle", "ended"}]
    /\ item \in [Streams -> Books]
    /\ signal \subseteq Streams
    /\ channel \in [Streams -> Books \cup {NoSummary}]
    /\ got \in [Streams -> Books]

Init ==
    /\ ExchangeInit
    /\ PublisherInit
    /\ feed = "open"
    /\ fwd = [s \in Sources |-> "load"]
    /\ held = [s \in Sources |-> 0]
    /\ fwdTold = {}
    /\ pc = [st \in Streams |-> "idle"]
    /\ item = [st \in Streams |-> NoBook]
    /\ signal = {}
    /\ channel = [st \in Streams |-> NoSummary]
    /\ got = [st \in Streams |-> NoBook]

----------------------------------------------------------------------------
Exchange(s) ==
    /\ ExchangeNext(s)
    /\ UNCHANGED <<publisherVars, feed, forwarderVars, streamVars>>

Publish ==
    /\ PublisherStep
    /\ UNCHANGED <<exchangeVars, feed, forwarderVars, streamVars>>

----------------------------------------------------------------------------
(* The source task of one exchange.                                        *)

Forward(s, from, to) ==
    /\ fwd[s] = from
    /\ fwd' = [fwd EXCEPT ![s] = to]
    /\ UNCHANGED <<feed, streamVars>>

\* Reads the cell: an error and an empty cell are skipped.
LoadSnapshot(s) ==
    LET usable == snapshot[s] \in Versions IN
    /\ Forward(s, "load", IF usable THEN "sending" ELSE "waiting")
    /\ held' = [held EXCEPT ![s] = IF usable THEN snapshot[s] ELSE 0]
    /\ UNCHANGED <<exchangeVars, publisherVars, fwdTold>>

SendSnapshot(s) ==
    /\ Forward(s, "sending", "waiting")
    /\ Enqueue(s, held[s])
    /\ held' = [held EXCEPT ![s] = 0]
    /\ UNCHANGED <<exchangeVars, fwdTold>>

\* send_with_shutdown: the publisher is gone, or the shutdown is received.
SendSnapshotEnds(s) ==
    /\ pub = "stopped" \/ s \in fwdTold
    /\ Forward(s, "sending", "exited")
    /\ held' = [held EXCEPT ![s] = 0]
    /\ fwdTold' = fwdTold \ {s}
    /\ UNCHANGED <<exchangeVars, publisherVars>>

\* rx.changed(), which the shutdown does not interrupt: the task itself keeps
\* the watch channel's sender alive, so it does not fail either.
WakeForwarder(s) ==
    /\ s \in unseen
    /\ Forward(s, "waiting", "load")
    /\ unseen' = unseen \ {s}
    /\ UNCHANGED <<link, messages, made, snapshot, told, drops, publisherVars,
                   held, fwdTold>>

ForwarderStep(s) ==
    LoadSnapshot(s) \/ SendSnapshot(s) \/ SendSnapshotEnds(s) \/ WakeForwarder(s)

----------------------------------------------------------------------------
(* Feed::publish, one stream.                                              *)

Goto(st, from, to) ==
    /\ pc[st] = from
    /\ pc' = [pc EXCEPT ![st] = to]
    /\ UNCHANGED <<exchangeVars, feed, forwarderVars>>

Attach(st) ==
    /\ Goto(st, "idle", "initial")
    /\ UNCHANGED <<publisherVars, item, signal, channel, got>>

\* The first look at the cell.
LoadInitial(st) ==
    LET usable == latest \notin {NoSummary, Stopped} IN
    /\ Goto(st, "initial", IF usable THEN "sendInitial" ELSE "subscribe")
    /\ item' = [item EXCEPT ![st] = IF usable THEN latest ELSE @]
    /\ UNCHANGED <<publisherVars, signal, channel, got>>

WatchLatest(st) ==
    /\ Goto(st, "subscribe", "watching")
    /\ NewReceiver(st)
    /\ UNCHANGED <<item, signal, channel, got>>

ChangeNoticed(st) ==
    /\ Goto(st, "watching", "load")
    /\ SeeChange(st)
    /\ UNCHANGED <<item, signal, channel, got>>

LoadLatest(st) ==
    LET usable == latest \notin {NoSummary, Stopped} IN
    /\ usable
    /\ Goto(st, "load", "sending")
    /\ item' = [item EXCEPT ![st] = latest]
    /\ UNCHANGED <<publisherVars, signal, channel, got>>

\* Mutant: what changed during the send is marked seen after it.
SendThenSee(st) ==
    /\ channel[st] = NoSummary
    /\ \/ Goto(st, "sendInitial", "subscribe")
       \/ Goto(st, "sending", "watching")
    /\ channel' = [channel EXCEPT ![st] = item[st]]
    /\ changed' = changed \ {st}
    /\ UNCHANGED <<queue, combined, latest, pub, closing, receivers, item,
                   signal, got>>

Send(st) ==
    /\ channel[st] = NoSummary
    /\ \/ Goto(st, "sendInitial", "subscribe")
       \/ Goto(st, "sending", "watching")
    /\ channel' = [channel EXCEPT ![st] = item[st]]
    /\ UNCHANGED <<publisherVars, item, signal, got>>

\* The loop ends and both receivers are dropped.
Leave(st, points) ==
    /\ pc[st] \in points
    /\ Goto(st, pc[st], "ended")
    /\ DropReceiver(st)
    /\ signal' = signal \ {st}
    /\ UNCHANGED <<item, channel, got>>

\* The cell holds the final error.
LoadStopped(st) == latest = Stopped /\ Leave(st, {"load"})

\* The client is gone, which only a send finds out.
ClientGone(st) == Leave(st, Sending)

\* shutdown.recv() wins the select of the loop or of send_with_shutdown.
ShutdownNoticed(st) == st \in signal /\ Leave(st, Sending \cup {"watching"})

\* The client takes the summary from its channel.
Take(st) ==
    /\ channel[st] # NoSummary
    /\ got' = [got EXCEPT ![st] = channel[st]]
    /\ channel' = [channel EXCEPT ![st] = NoSummary]
    /\ UNCHANGED <<exchangeVars, publisherVars, feed, forwarderVars, pc, item,
                   signal>>

StreamStep(st) ==
    \/ LoadInitial(st)
    \/ WatchLatest(st)
    \/ ChangeNoticed(st)
    \/ LoadLatest(st)
    \/ LoadStopped(st)
    \/ Send(st)

----------------------------------------------------------------------------
(* Feed::shutdown.                                                         *)

Signal ==
    /\ feed = "open"
    /\ feed' = "signalled"
    /\ told' = {s \in Sources : link[s] \notin {"closed", "panicked"}}
    /\ fwdTold' = {s \in Sources : fwd[s] # "exited"}
    /\ signal' = {st \in Streams : pc[st] \in Attached}
    /\ closing' = TRUE
    /\ UNCHANGED <<link, messages, made, snapshot, unseen, drops, queue, combined,
                   latest, pub, receivers, changed, fwd, held, pc, item, channel, got>>

\* The source tasks are joined, then the publisher's.
ShutdownReturns ==
    /\ feed = "signalled"
    /\ \A s \in Sources : fwd[s] = "exited"
    /\ pub = "stopped"
    /\ feed' = "closed"
    /\ UNCHANGED <<exchangeVars, publisherVars, forwarderVars, streamVars>>

Next ==
    \/ \E s \in Sources : Exchange(s) \/ ForwarderStep(s)
    \/ Publish
    \/ \E st \in Streams : \/ Attach(st) \/ StreamStep(st) \/ ClientGone(st)
                           \/ ShutdownNoticed(st) \/ Take(st)
    \/ Signal
    \/ ShutdownReturns

Spec == Init /\ [][Next]_vars

\* The tasks that are ready run, a connection is made or refused, and clients
\* take what is in their channel.  Nothing is assumed of the messages of the
\* exchanges, of new streams, or that the feed is ever shut down.
Fairness ==
    /\ \A s \in Sources :
          /\ WF_vars(ExchangeStep(s) /\ Exchange(s))
          /\ WF_vars(ConnectReturns(s) /\ Exchange(s))
          /\ WF_vars(ForwarderStep(s))
    /\ WF_vars(Publish)
    /\ \A st \in Streams : /\ WF_vars(StreamStep(st))
                           /\ WF_vars(ShutdownNoticed(st))
                           /\ WF_vars(Take(st))
    /\ WF_vars(ShutdownReturns)

FairSpec == Spec /\ Fairness

----------------------------------------------------------------------------
(* Safety.                                                                 *)

\* The message v of exchange s is past its cell and not yet in the book.
Underway(s, v) ==
    \/ fwd[s] = "sending" /\ held[s] = v
    \/ \E i \in DOMAIN queue : queue[i] = [source |-> s, version |-> v]

\* The newest snapshot of an exchange is in the book, or on its way there, or
\* its source task is about to read the cell, or has been or will be told to:
\* skipping snapshots never skips the last one.
NewestInFlight ==
    \A s \in Sources : snapshot[s] \in Versions =>
        \/ combined[s] = snapshot[s]
        \/ Underway(s, snapshot[s])
        \/ fwd[s] \in {"load", "exited"}
        \/ s \in unseen
        \/ link[s] = "stored"

\* Along the way from the exchange to the book snapshots are not reordered: what
\* is behind is never older than what is ahead.
InOrder ==
    /\ \A s \in Sources : held[s] <= made[s] /\ combined[s] <= made[s]
    /\ \A i \in DOMAIN queue :
          LET s == queue[i].source IN
          /\ combined[s] <= queue[i].version
          /\ queue[i].version <= made[s]
          /\ fwd[s] = "sending" => queue[i].version <= held[s]
          /\ \A j \in DOMAIN queue :
                i < j /\ queue[j].source = s => queue[i].version <= queue[j].version

(* What makes these inductive, and bounds what a client sees.              *)

\* The cell holds the newest snapshot or an error, and what a source task is
\* sending is not behind the book.
CellNewest ==
    \A s \in Sources :
        /\ made[s] <= messages
        /\ snapshot[s] \in {made[s], Failed}
        /\ fwd[s] = "sending" => combined[s] <= held[s]

AtMost(a, b) == \A s \in Sources : a[s] <= b[s]

\* From the book to the client nothing is older than what is before it: the
\* cell shows the book, and what is sent is not behind what was sent.
StreamsBehind ==
    /\ latest \in {combined, NoSummary, Stopped}
    /\ \A st \in Streams :
          /\ AtMost(got[st], combined)
          /\ channel[st] # NoSummary =>
                AtMost(got[st], channel[st]) /\ AtMost(channel[st], combined)
          /\ pc[st] \in Sending =>
                /\ AtMost(got[st], item[st]) /\ AtMost(item[st], combined)
                /\ channel[st] # NoSummary => AtMost(channel[st], item[st])

IInv ==
    /\ TypeOK
    /\ InOrder
    /\ CellNewest
    /\ NewestInFlight
    /\ StreamsBehind

\* Each client sees the books of each exchange in the order they were made, in
\* spite of the cells, queues and channels between them.
Promise == INSTANCE ConflatedFeed WITH newest <- made, seen <- got

ImplementsConflatedFeed == Promise!Spec

----------------------------------------------------------------------------
(* Liveness, under FairSpec.                                               *)

\* A snapshot that is not replaced reaches the book.
NewestReachesBook ==
    \A s \in Sources, v \in Versions :
        snapshot[s] = v ~> (combined[s] >= v \/ snapshot[s] = Failed \/ feed # "open")

\* A summary that is stored while a stream watches reaches its client, or a
\* newer one does, unless the stream or the feed ends.
ChangeReachesClient ==
    \A st \in Streams, s \in Sources, v \in Versions :
        (st \in changed /\ combined[s] = v)
            ~> (got[st][s] >= v \/ pc[st] = "ended" \/ feed # "open")

\* After an error the exchange is connected to again.
Reconnects ==
    \A s \in Sources : link[s] = "failed" ~> (link[s] = "reading" \/ feed # "open")

\* The tasks that read the exchanges end after the shutdown of the feed, also
\* those that were connecting or waiting to.
ExchangesClose ==
    \A s \in Sources : feed # "open" ~> link[s] \in {"closed", "panicked"}

----------------------------------------------------------------------------
(* What the documentation says and the code does not do.                   *)

\* "Sends the initial summary if available.  Listens for changes in the
\* publisher's latest summary and sends updates" (publish): a stream that
\* watches brings its client up to the latest summary.
ClientCatchesUp ==
    \A st \in Streams, s \in Sources, v \in Versions :
        (pc[st] = "watching" /\ combined[s] = v)
            ~> (got[st][s] >= v \/ pc[st] = "ended" \/ feed # "open")

\* "Ensures a graceful shutdown of the feed by [...] waiting for all associated
\* tasks to complete" (Feed::shutdown): the shutdown completes.
ShutdownCompletes == feed = "signalled" ~> feed = "closed"

=============================================================================
