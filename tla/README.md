# A verification project for aggbook

aggbook is a gRPC server that reads the order books of several exchanges
(Binance, Bitstamp), merges them, and streams the merged top of the book and its
spread to clients. This directory holds TLA+ models of the server, the TLC
configurations that check them on small instances, and proofs checked by TLAPS.
Paths below are relative to `src/crates/`.

## 1. The system

| component | state it keeps | operations | what makes it correct |
|---|---|---|---|
| **Manager** (`aggserver/src/service/manager.rs`) | `feeds` (symbol to live feed) behind one async mutex, `is_shutting_down` | `open`, `remove_feed_if_unused`, `shutdown` | one live feed per symbol, none lost without a shutdown, none registered after the drain |
| **Feed** (`manager.rs`) | subscriber counter, `cancel_notify`, source task handles, its own shutdown broadcast | `on_subscribe`, `on_unsubscribe` and the grace task, `publish`, `shutdown` | exact counter, an idle feed is closed once, streams end |
| **Source tasks** (`start_summary_sources`) | one forwarding loop per exchange | load the exchange's cell, send to the publisher's queue, wait for a change | never skips the newest snapshot, ends when the feed is shut down |
| **Publisher** (`publisher.rs`) | bounded queue, combined book, `latest` cell, watch channel, stored `JoinHandle` | `start`, `local_run`, `close`, `wait_complete` | summaries in order, readers told of the last change |
| **Exchange feeds** (`sources/binance.rs`, `sources/bitstamp.rs`) | `latest` cell, watch channel | connect, parse, store, tell; error, back off, reconnect; shutdown | reconnects after every error, ends after a shutdown |
| **Order book** (`model.rs`) | last snapshot of each exchange | `update_snapshot`, `to_proto`, `spread_from` | the summary is the top of the exchanges' books, sorted, with its spread; a level is missing only when better ones displace it |
| **Opening a feed** (`Manager::open`, `create_summary_sources`, `factories.rs`, `aggcommon/src/instrument.rs`) | the maps of instruments and factories, immutable; what an open has started so far | look up, start the publisher, create the sources one by one, insert | a feed has all its sources or does not exist; what a failed open started ends |
| **gRPC service and server** (`service.rs`, `stream.rs`, `server.rs`, `main.rs`) | where `run` stands, the calls in progress, client channels with room for one message | start, bind, `book_summary`, `book_summary_for_symbol`, shut down, exit | passes errors on, hears ctrl-c, exits |
| **Shutdown signal** (`aggcommon/src/shutdown.rs`) | a broadcast channel with room for one message per process | install the handler, catch ctrl-c once, send; subscribe, receive | whoever has subscribed is told |
| **Client** (`aggclient`) | its own ctrl-c and receiver | connect, call, read until the stream ends | ends with ctrl-c from anywhere; never takes an aborted stream for a complete one |

They interact through shared cells (`ArcSwap`), watch channels, which remember
that something changed and not what, bounded queues, broadcasts with room for
one message, and spawned tasks on a multi-threaded runtime. What is hard:

* *Interleaving.* The map's mutex does not protect the subscriber counter; a
  stream counts itself only when its spawned task first runs; a grace task that
  was cancelled may still fire (`select!` picks any ready branch) and a
  notification sent before the grace task waits is lost.
* *Ordering.* Broadcast and watch receivers see only what happens after they
  exist, and the code reads cells before it creates receivers.
* *Shutdown.* Two tasks may want to close the same feed; closing joins tasks
  that wait for events of tasks that have ended. The process is told by a
  broadcast to which its parts subscribe one after the other, and two may be
  sent before one is read.
* *Partial failure.* An open that fails half-way has started tasks that no feed
  owns.
* *Bounds.* Queues and the client channel push back, and a reader that waits
  must still get the newest value.
* *Data.* Prices of zero or not a number, equal prices, crossed books, levels
  that are gone, cutting messages before they are merged, messages that repeat a
  price, a clock that is set back.

Every hazard is listed at its line under `hazards` in `PROJECT.json`, with the
properties that are about it or the reason none is.

## 2. The modules

| module | models | checked with |
|---|---|---|
| `FeedManager` | Manager and Feed: registry, streams, grace tasks, shutdown of a feed and of all | `MCFeedManager` |
| `FeedRegistry` | abstract: what the manager promises about feeds | refined by `FeedManager` and by `ServerProcess` |
| `FeedRegistryProofs` | what every implementation of `FeedRegistry` inherits | TLAPS |
| `FeedManagerProofs` | theorems of `FeedManager` | TLAPS |
| `OrderBook` | the book of `model.rs` and what the parsers make of a message | `MCOrderBook` |
| `SequenceLemmas` | what sorting, folding, enumerating and counting give: lemmas on the community modules' operators | TLAPS |
| `OrderBookProofs` | theorems of `OrderBook` | TLAPS |
| `Exchanges` | the set of exchanges, shared by the next ones | |
| `ExchangeFeed` | the exchange tasks | in `FeedPipeline` |
| `Publisher` | the publisher | in `FeedPipeline` |
| `FeedPipeline` | composes both with the source tasks, the streams and `Feed::shutdown` | `MCFeedPipeline` |
| `ConflatedFeed` | abstract: the order in which a client sees books | refined by `FeedPipeline` |
| `FeedPipelineProofs` | theorems of `FeedPipeline` | TLAPS |
| `ShutdownSignal` | the ctrl-c task and its broadcast channel, one per process | in `ServerProcess` |
| `FeedOpening` | `Manager::open` step by step, over the configured maps | in `ServerProcess` |
| `ServerProcess` | composes both with `run`, the calls, their streams, the manager's task and the callers, `aggclient` among them | `MCServerProcess` |
| `ConfigurationProofs` | what the maps of instruments, sources and factories hold | TLAPS |
| `ServerProcessProofs` | theorems of `ServerProcess` | TLAPS |

**FeedManager.** One step is one atomic access, channel operation or critical
section. `feeds`, `isShuttingDown`, `subscriptions`, `latest` are the code's
fields; `phase` is the life of a `Feed` object (free, live, removed from the map,
signalled by `Feed::shutdown`, closed when that returns). `pc` is where a
stream's `publish` stands; `feedOf` is its `Arc<Feed>`. A stream is `spawned` from
`open` until `on_subscribe`: handed a feed, not yet counted. `timer[st]` is the
grace task spawned when `st` unsubscribed last. `remove_feed_if_unused` is two
steps, `RemoveCheck` and `RemoveTake`, and holds the mutex between them
(`FeedsLocked`), because the counter it tests is not protected. Critical
sections that touch only what the mutex protects are one step. A broadcast is
the set of receivers with an unread message (`signal`), a watch channel the set
of receivers with an unseen change (`changed`).

A summary has no content here, and what its exchanges do is left to the
environment: in particular `SourcesExit`, the end of a feed's source tasks.

**FeedPipeline** is one feed from the exchanges to its clients. A snapshot is
the number of the message it came from, per exchange, so order and loss can be
told. An exchange task moves from connecting to reading, stored (cell written,
receivers not yet told), and through failed, errorStored and backoff back to
connecting. A source task loads, sends or waits. The publisher combines
(`Combine`), then tells (`TellChange`). A stream takes its first look
(`LoadInitial`), subscribes (`WatchLatest`), and loops. Streams end and start
over only in FeedManager. There too is `wait_complete`'s early return; here the
shutdown waits for the publisher, which makes `ShutdownCompletes` a statement
about the source tasks.

**OrderBook** has one step, `Update`: one message of one exchange through its
parser, `update_snapshot` and `to_proto`. `f64` is integers and NaN. `Ingest` is what
both parsers do to one side (the first N entries, those of amount zero dropped).
Order among entries of equal price and amount is the code's unstable sort: any
one is taken, and no property looks at it. Nothing is assumed of the inputs that
the code does not check: the entries of a message come in any order and may repeat
a price (`ContributorLevels` says that it assumes them sorted, `model.rs:181`, and
neither parser looks), and the arrival time is whatever the system's clock shows
(`nanos.rs:10-14`), which may be earlier than the last. When the levels of one key
outgrow the fixed-size vector they are pushed to (`Fits`, `model.rs:348`), `to_proto`
panics: the publisher's task has ended (`panicked`), the summary it stored last
remains, and nothing more is combined. Two things in the model are not in the code
and serve the properties only: `messages`, the last message of each exchange before
it is cut, and `at`, which tells equal levels of one exchange apart.

**ShutdownSignal.** A receiver is a count of the messages sent and not taken:
what is sent before it subscribes never reaches it, and one that finds two gets
`Lagged` for the first (`Receive`). A handler is spawned, armed when its task
first runs, caught, done; before it is armed ctrl-c kills the process, and after
the first ctrl-c nobody waits for a second. Each process has a handler and a
channel of its own. tokio's channel and handler are external: they are modelled
by what the code relies on.

**FeedOpening** splits what is one step (`Open`) in FeedManager: waiting for the
mutex, the look-up, the publisher, one step per source (`CreateSource`, in any
order, as a hash map gives them), the failure (`CreateFails`), the insertion. A
feed is named by the call that opened it; `tasks` are the exchange tasks that
run, `publishers` the publishers nobody has told to end. When an open fails the
only senders of the feed's shutdown go with it and the exchange tasks take the
error of `recv()` for a shutdown (`OrphanEnds`). The publisher of a failed open
keeps a sender of its own channel (`publisher.rs:63-90`) and has no such end; the
model leaves it in `publishers` for good.

**ServerProcess.** `main` is where `run` stands. `managerTask` is the task of
`Manager::new`: it listens, raises the flag (`ManagerHears`), drains, and closes the
drained feeds one after the other, and it is `deaf` when its `recv()` returned
`Lagged`. A stream is here only spawned, attached, told, ended, and may notice the
end of its feed or client by itself (`Notices`). A grace period may end at any time
(`RemoveIdle`). `Exit` drops every task wherever it stands. A caller is either
`aggclient`, with `handler`, receiver and `client` phases, or any other program,
which may go away at any moment. tonic's server binds or fails, stops accepting
when its shutdown future ends, and returns when no call is in progress.

**Abstract specifications.** `FeedRegistry` has no tasks, counters or locks:
feeds are registered, retired, stopped. Both models of the manager implement it.
`ConflatedFeed` has no cells or queues:
exchanges produce books 1, 2, 3..., and a client's position in each sequence
never goes back and never passes its end.

## 3. What TLC checks

| run | question | bounds | result |
|---|---|---|---|
| `manager_safety` | do map, counters, locks and shutdowns agree? refines `FeedRegistry` | 3 streams, a symbol with two feed objects (a feed and its replacement), a symbol that cannot be opened | holds, 1.4 million states |
| `manager_liveness` | do idle feeds stop, does the shutdown empty the map, do streams end? | 2 streams, two feed objects | holds, 146 000 states |
| `orderbook` | is a summary the top of what the exchanges sent, what may one snapshot change in it, and when does a price's vector overflow? | 2 exchanges, N = 2; on one side every sequence of up to two entries over NaN, 1 and 2 with amounts that tie and zero, in any order, and chosen ones of three that are cut; few on the other side; 2 times in any order; 2 snapshots, so every pair of messages and every replacement of one | holds, 428 000 states |
| `pipeline_safety` | is anything reordered, is the newest ever lost? refines `ConflatedFeed` | 2 exchanges, 2 messages, queue of 2, 1 stream, shutdown at any moment | holds, 582 000 states |
| `pipeline_liveness` | does the newest arrive, do tasks reconnect and end? | 1 exchange, 2 messages, 1 failure or panic, queue of 1 | holds, 160 000 states |
| `server_process` | are feeds opened whole, who loses a shutdown message, does ctrl-c end server and client? refines `FeedRegistry` | 1 `aggclient` and 1 other caller; 4 symbols: one configured twice, one with one source, one that fails half-way, one unknown | holds, 212 000 states |
| `server_lost_signal` | does a caught ctrl-c stop the server? | as `server_process` | **violated** |
| `manager_remove_in_use` | is a removed feed unused? | 2 streams | **violated** |
| `manager_late_stream` | does a stream end when its feed is shut down? | 2 streams | **violated** |
| `orderbook_depth` | has a side at most N entries? | as `orderbook` | **violated** |
| `pipeline_missed_update` | does a watching stream catch up? | 1 exchange, 2 messages | **violated** |
| `pipeline_shutdown` | does `Feed::shutdown` return? | 1 exchange, no failures | **violated** |

*Why the bounds are enough.* Three streams give one that leaves, one that has
been handed the feed, and one that opens its replacement, with two grace tasks
at once; two feed objects give the stale-timer case. Two messages are the least
with an order; a queue of two the least that can reorder. N = 2 is the least depth
at which what is read of a message can repeat a price, three entries the least that
are cut, and two exchanges are all there are (`NUM_SOURCES`): one that sends a price
twice and another that quotes it too overflow the vector. Most combinations are with one full side, because the two sides of a
book meet only in the spread, the arrival time and the panic. Two callers are the least that compete for the registry's mutex,
share a feed, or make two feeds of which one waits for its turn; two receivers
in the server are all it has; the channel's capacity is the code's.

*Deadlock* is not checked: the pools of streams, feeds and messages are finite,
so every behaviour stops, and the late stream of `manager_late_stream` really
hangs; a process that has exited does nothing more.

*Fairness.* `FairSpec` is weak fairness of the server's own tasks, which the
runtime's scheduling gives: ready tasks run, timers end, a mutex that is free is
obtained. It also assumes that a connection attempt returns, and, in the
pipeline only, that a client takes what is in its channel. It does not assume
that clients read in FeedManager, that exchanges send anything, that a stream
ever opens, or that the process is told to stop. In ServerProcess the tasks of a
process are fair only while it runs, and callers read what they are sent;
nothing is assumed of when programs are started, of ctrl-c, of the grace period,
of a stream that was not told of its feed's shutdown, or of whether
`Feed::shutdown` returns (`FeedCloses` is not fair, because of 5 below). `TimerStep` is fair as a whole:
nothing forces a notified grace task to prefer the notification.

### What the violated runs say

1. **A feed is removed while a stream has it** (`manager.rs:338`). `open` returns a
   feed; before the spawned `publish` counts itself the grace task of the last
   stream finds zero and removes the feed. The client gets an ended stream, or,
   by 2, one that hangs.
2. **A late stream hangs** (`manager.rs:93`). It subscribes to the feed's broadcast
   and the publisher's watch after both have spoken for the last time.
3. **The depth counts prices, not entries** (`model.rs:366`): two exchanges quoting
   the same prices give up to 2N entries where the README says the top 10.
4. **A summary is missed** between the first look and the watch receiver
   (`manager.rs:96-110`), until the next one.
5. **`Feed::shutdown` does not return** while a source task waits in
   `rx.changed()` (`manager.rs:395`): the shutdown does not interrupt it, and its
   own `Arc` keeps the sender alive.
6. **A ctrl-c is lost to the server** (`main.rs:95`) when its task sends before `run`
   has subscribed for the server: the manager, which has, closes for good, and
   the process goes on refusing calls.

In the models these are steps of the code like any others; the properties that
hold are stated so that they do hold in spite of them. `SignalledStreamEnds` is
about streams that had a receiver, `ChangeReachesClient` about changes after the
receiver exists, `ExchangesClose` about the exchange tasks and not the source tasks,
`CtrlCStopsReadyServer` about a server that has subscribed, `LadderExact`, where it
speaks of uncut messages, about messages that come best first and have no zero among
the entries that are read. A zero there does cost a level (`take(N)` comes before the
zeros are dropped, `binance.rs:173-177`), and a repeated price ends the publisher;
`OverflowOnlyByRepeats` says that nothing else does. `GracefulExit` and
`DrainCompletes` name what may keep them: a stream that attached too late (2) and a
feed whose shutdown does not return (5). `Publisher::wait_complete` returns at once
when the task that stores its handle has not run yet (`publisher.rs:114`); FeedManager
has that step (`StoreHandle`, `ShutdownReturns`) and all its properties hold with it.

## 4. What is proved

`FeedManagerProofs` proves, for every set of symbols and feeds and every finite
set of streams, under `ManagerAssumption` (openable symbols are symbols, every
feed has a symbol, the streams are finite):

* `Invariance`: `Spec => []IInv`;
* from it `TypeCorrect`, `CountsCorrect`, `RegistryCorrect`, `ShutdownOwned` and
  `NoLeak`, the invariants `manager_safety` checks, and `DrainFinal`, which the run checks
  as part of the next;
* `Refinement`: `Spec => Registry!Spec`.

The argument. None of these is inductive alone. `IInv` adds: `SymbolsKept`, the map
files a feed under its own symbol; `StreamsPlaced`, a stream has a feed exactly
when `open` gave it one and only ended streams have grace tasks; `LockHolder`,
one grace task holds the mutex, and what it tested *about the map* (not about the
counter) stays true until it removes the feed; `ShutdownOfRetired`, who shuts down
a feed finds it out of the map; `FlagSet`, the flag is up from before the drain.
`CountStep` is the one arithmetic part: a stream that enters or leaves `Counted`
changes the cardinality of one feed's set by one. `OwnerStep` shows that a feed leaves
`live` in one step only, which names its owner, and that the owner lets go only when
the feed is closed. `IdleStep` shows that the last stream to leave finds
the counter at one, by `SubscriptionsExact`, and so spawns the grace task. Each lemma
has one step per action that can disturb its part.

`NoIdleFeedLeak` holds although the grace task that keeps a feed may be one that was
notified: a notified task counts as done with the feed, and it is a stream's `Notify`,
made while that stream is counted, that notified it.

`FeedPipelineProofs`, for any finite set of exchanges, any set of streams, queue
length and bounds on messages and failures, under `SourcesAssumption`,
`ExchangeAssumption` and `PublisherAssumption`:

* `Invariance`: `Spec => []IInv`; from it `TypeCorrect`, `OrderKept` and `NewestKept`, the
  invariants of `pipeline_safety`;
* `Refinement`: `Spec => Promise!Spec`, the abstract feed.

The argument is one chain of inequalities. `InOrder` bounds what is in the book by
what is queued, by what the source task holds, by what was made. It needs
`CellNewest` (the cell has the newest snapshot or an error), so that what is loaded
is not older than what is ahead; `NewestInFlight` needs both, because the
combined book may be overwritten only by a queued snapshot that lies between two
equal ones. `StreamsBehind` continues the chain from the book to the stream, the
channel and the client, and gives the refinement: a client takes what is
neither older than what it has nor newer than what was made. `OrderStep`,
`FlightStep` and `BehindStep` are the three parts; `CombineTakesHead` and
`EnqueueAppends` say what the queue does.

`ServerProcessProofs`, for any calls, clients, symbols and configuration, under
`SignalAssumption`, `OpeningAssumption` and `ServerAssumption`:

* `Invariance`, `TypeCorrect`;
* `DeafManagerHarmless`: a manager that lost the shutdown serves nobody. The
  invariant behind it, `TwoShutdownsUnserved`: its receiver has a message only when
  ctrl-c was sent or the address could not be bound, hence two only in a process
  that has never accepted a call (`NothingBegins`);
* `ClientEndsWell`: a client's receiver has a message only when its own handler is
  done (`OwnCtrlC`), and only that message ends it well;
* `OpeningInvariance` and from it `FeedsWhole`: at every step of an open the running tasks
  are those of the sources that are no longer pending;
* `OneOpens` (`OpensAlone`): one open at a time holds the mutex, its symbol stays without
  a feed, the drain waits for it, and what is removed was opened;
* `Refinement`: `Spec => Registry!Spec`. `FeedManager`, where an open is one step, and
  `ServerProcess`, where it is many that others interleave with and that may fail,
  implement the same abstract registry. The insertion is the step that registers. It
  needs `OpensAlone` for the symbol to be free still and the registry not shut, although
  both were tested steps earlier.

`FeedRegistryProofs` proves of the abstract registry what both inherit (`Promised`): two
symbols never share a feed, only what has left is stopped, a shut registry is empty.

`OpeningInv` speaks of the maps, `OpenedWhole` of the configured sequences, as an
operator of the server would. What connects them is `MapsAgree`: of several
definitions with one key the maps hold the last. `ConfigurationProofs` proves it
(`MapsHoldConfiguration`) for every sequence of instruments and factories;
`OpeningAssumption` says only what types they have. `Collect` is a fold, and the
proof an induction over the pairs collected so far: `LastWith` names the last of
the first m pairs with a key.

`OrderBookProofs`, for any finite set of exchanges, any depth N above zero, any set
of messages (two sequences of entries each, in any order, of any length and with any
repetitions), any times and number of updates (`OrderBookAssumption`), proves
everything `orderbook` checks:

* `TypeCorrect`, `SideExact`, `SideSorted`, `SpreadExact`, `OverflowRepeats`, the
  invariants;
* `OthersStay` and `ArrivalOwned`, the action properties.

The inductive invariant is short, `Combined`: the snapshots are what `Ingest` makes of
the last messages, and the summary is `to_proto` of them, or the publisher has panicked
and they did not fit. What is long is to show what `to_proto` computes,
from the inside out: a message's first N entries without those of amount zero, hence
exactly the first N when none is zero (`IngestLevels`, an induction over the fold); the
levels of all exchanges, one at each place (`Places`, `ContributedQuotes`); in the
sorted sequence of the keys the i-th has i - 1 better ones (`Ranks`), so that the first
N are those with fewer than N better (`BestOf`), and a key that is cut off has N better
ones *among those kept*, which is what `OthersStay` needs; the levels of the kept keys,
each key's sorted by amount, one after the other (`SortedRungs`, `LadderOf`); the first
of them (`TopOf`).

Two arguments stand beside it. `CutHarmless`: a level beyond the cut of its message has
the N entries at its head before it, and these have N different keys (`CutBeaten`); so
it is in neither top, and a level that is kept has the same rank among the cut messages
as among the whole ones, or N better keys among the cut ones already. That is the second
half of `SideExact`, and it needs its hypothesis twice: strictly best first, for the N
keys to be different, and no zero, for the head to have N levels. `Repeats`: if no
exchange had more than c levels of a key, the key would have at most c times the number
of exchanges (`Pigeonhole`); so a vector of N that overflows has an exchange with more
than N divided by their number. With the two exchanges (`NUM_SOURCES`,
`aggcommon/src/sources.rs:14`) and the depth of ten of the program
(`aggserver/src/main.rs:74`) that is six times the same price in one message.

`SequenceLemmas` holds what these use of the community modules. Its basis is
`UpTo`, induction up to a number over the *set* of numbers that have a property:
the library's induction theorems take the property as an operator, which the
provers here cannot instantiate. From it come recursive functions (`RecursionUpTo`),
the enumeration of a finite set in an order (`SortedEnumeration`), the image of a
finite set (`Image`), greatest and least elements (`Extremes`) and what a fold
computes, step by step (`Folds`, `FoldSteps`). The model uses `FoldLeft` and
`SortedSeq`, a sorted sequence of the elements of a set whose ties are in some
order, because tlapm can expand them: it has no definition for `SelectSeq`,
`SortSeq`, `:>` and `@@`, whose recursion or overriding is TLC's.

Only model-checked: liveness, since fairness and ENABLED are outside the prover.

## 5. What is not modelled

The content of messages, JSON, WebSocket frames and pings; the inside of tonic's
server, of tokio's channels and of ctrl-c, which are modelled by what the code
relies on; the configuration and command lines; logging and `join_observer`, which
changes nothing. Of the client, the table it prints and the latency it computes:
`format.rs:23` subtracts the clocks of two machines, and nothing in the code says
how they are related. A publisher whose open failed stays in the model as it stays
in the code, and no property says that it ends (`OrphansEnd` is about its exchange
tasks). The content of the books is only in OrderBook: a publisher that panics over a
repeated price is `panicked` there, and what its feed's source tasks and streams do
afterwards is not in FeedPipeline, whose publisher combines whatever it is sent. Prices
that are infinite are left out. Hazards that no property covers
carry the reason in `PROJECT.json`.

## 6. Plan

Done: the modules of section 2 with their runs and proofs. What remains, in this
order:

1. *Consistent cuts*: every summary a client gets is one book the publisher had, and
   not only one per exchange in order; two streams see the same sequence.
2. *The manager and the source tasks of several feeds in one model*: `SourcesExit`
   and `FeedCloses` are left to the environment in `FeedManager` and `ServerProcess`
   and decided in `FeedPipeline` for one feed; together they would say which feeds a
   drain reaches.
3. *The publisher's panic in the pipeline*: what the source tasks and streams of a feed do
   once its publisher has ended without its last word.
4. *Bounded words* for the client's latency.
5. Proofs: every invariant and action property of the passing runs, and the three
   refinements, are theorems. Next come the safety halves of the liveness properties:
   a step that a waiting task waits for stays possible until it is taken (what
   `IdleFeedStops` and `CtrlCEndsClient` need besides fairness).
