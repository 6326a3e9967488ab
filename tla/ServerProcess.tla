--------------------------- MODULE ServerProcess ---------------------------
(***************************************************************************)
(* The server process from its start to its end (aggserver/src/main.rs,    *)
(* server.rs, service.rs, stream.rs), the manager's task that closes the   *)
(* feeds when the process is told to stop, and the programs that call the  *)
(* server, those of crates/aggclient among them, processes with a ctrl-c   *)
(* of their own.                                                           *)
(*                                                                         *)
(* FeedOpening has what open does; a feed's life after it is as in         *)
(* FeedManager, in fewer steps: a stream that is "spawned" has not yet     *)
(* subscribed to its feed's shutdown.  tonic's server is modelled by what  *)
(* it does for the code: it binds or fails; once its shutdown future ends  *)
(* it accepts no more calls and returns when those in progress are over.   *)
(***************************************************************************)
EXTENDS FeedOpening, ShutdownSignal

CONSTANTS
    Server,         \* the server's process
    ManagerRx,      \* the receiver of Manager::new's task
    ServerRx,       \* the receiver of run
    Clients,        \* the callers that are aggclient, each its own receiver
    DefaultSymbol   \* what book_summary asks for

ASSUME ServerAssumption ==
    /\ Clients \subseteq Calls
    /\ Processes = Clients \cup {Server} /\ Server \notin Clients
    /\ Receivers = Clients \cup {ManagerRx, ServerRx}
    /\ ProcessOf[ManagerRx] = Server /\ ProcessOf[ServerRx] = Server
    /\ \A c \in Clients : ProcessOf[c] = c
    /\ DefaultSymbol \in Symbols

VARIABLES
    main,           \* where run stands
    managerTask,    \* where the task of Manager::new stands
    drained,        \* the feeds Manager::shutdown took out of the registry
    feed,           \* the end of the feed each call opened
    client,         \* where each caller stands
    stream          \* the task that serves each call

managerVars == <<managerTask, drained, feed>>
vars == <<signalVars, openingVars, main, managerVars, client, stream>>

Ended == {"stopped", "clean", "error", "killed"}

TypeOK ==
    /\ SignalTypeOK
    /\ OpeningTypeOK
    /\ main \in {"start", "signal", "manager", "ready", "serving", "draining",
                 "returned", "exited", "killed"}
    /\ managerTask \in {"none", "listening", "deaf", "flagged", "closing"}
    /\ drained \subseteq Calls
    /\ feed \in [Calls -> {"open", "removed", "signalled", "closed"}]
    /\ client \in [Calls -> {"idle", "spawned", "connecting", "calling",
                             "looping"} \cup Ended]
    /\ stream \in [Calls -> {"none", "spawned", "attached", "told", "ended"}]

Init ==
    /\ SignalInit
    /\ OpeningInit
    /\ main = "start"
    /\ managerTask = "none"
    /\ drained = {}
    /\ feed = [c \in Calls |-> "open"]
    /\ client = [c \in Calls |-> "idle"]
    /\ stream = [c \in Calls |-> "none"]

\* The tasks of the server run until its process ends.
Running == main \notin {"start", "exited", "killed"}

Alive(p) == IF p = Server THEN Running ELSE client[p] \notin Ended \cup {"idle"}

----------------------------------------------------------------------------
(* run, in main.rs.                                                        *)

MainGoto(from, to) ==
    /\ main = from
    /\ main' = to
    /\ UNCHANGED <<openingVars, drained, feed, client, stream>>

\* ctrl_c_shutdown_signal()
StartSignal ==
    /\ MainGoto("start", "signal")
    /\ SpawnHandler(Server)
    /\ UNCHANGED managerTask

\* Manager::new subscribes, and spawns the task that will listen.
StartManager ==
    /\ MainGoto("signal", "manager")
    /\ NewSubscriber(ManagerRx)
    /\ managerTask' = "listening"

\* shutdown.subscribe(), before the server is started.
StartServer ==
    /\ MainGoto("manager", "ready")
    /\ NewSubscriber(ServerRx)
    /\ UNCHANGED managerTask

Bind ==
    /\ MainGoto("ready", "serving")
    /\ UNCHANGED <<signalVars, managerTask>>

\* The address cannot be bound: run sends the shutdown itself and returns.
BindFails ==
    /\ MainGoto("ready", "returned")
    /\ Broadcast(Server)
    /\ UNCHANGED <<handler, subscribed, managerTask>>

\* The shutdown future of run_grpc_server ends, whatever recv() returned.
ServerHears ==
    /\ MainGoto("serving", "draining")
    /\ Receive(ServerRx)
    /\ UNCHANGED managerTask

\* Mutant: run sends the shutdown whatever the server returned.
AfterServingSends == Broadcast(Server)

AfterServing == UNCHANGED unread

\* The calls in progress are over and run returns Ok.
ServerReturns ==
    /\ \A c \in Calls : client[c] \notin {"calling", "looping"}
    /\ MainGoto("draining", "returned")
    /\ AfterServing
    /\ UNCHANGED <<handler, subscribed, managerTask>>

\* main returns: the runtime is dropped with every task, ended or not.
Exit ==
    /\ MainGoto("returned", "exited")
    /\ UNCHANGED <<signalVars, managerTask>>

MainStep == \/ StartManager \/ StartServer \/ Bind \/ BindFails
            \/ ServerHears \/ ServerReturns \/ Exit

----------------------------------------------------------------------------
(* Ctrl-c, in the server and in each client.                               *)

SignalStep(p) ==
    /\ Alive(p)
    /\ InstallHandler(p) \/ HandlerSends(p)
    /\ UNCHANGED <<openingVars, main, managerVars, client, stream>>

Interrupt(p) ==
    /\ Alive(p)
    /\ CatchInterrupt(p)
    /\ UNCHANGED <<openingVars, main, managerVars, client, stream>>

ServerKilled ==
    /\ Running
    /\ Unprotected(Server)
    /\ main' = "killed"
    /\ UNCHANGED <<signalVars, openingVars, managerVars, client, stream>>

----------------------------------------------------------------------------
(* The callers.                                                            *)

\* Mutant: the client subscribes when its loop begins.
ReceiverFromLoop == "looping"

\* The client's receiver exists before it connects.
ReceiverFrom == "connecting"

ClientGoto(c, from, to) ==
    /\ client[c] = from
    /\ client' = [client EXCEPT ![c] = to]
    /\ subscribed' = subscribed \cup {r \in Clients \cap {c} : to = ReceiverFrom}
    /\ UNCHANGED <<main, managerVars>>

StartClient(c) ==
    /\ c \in Clients
    /\ SpawnHandler(c)
    /\ ClientGoto(c, "idle", "spawned")
    /\ UNCHANGED <<openingVars, stream>>

ClientKilled(c) ==
    /\ c \in Clients
    /\ Unprotected(c)
    /\ Alive(c)
    /\ ClientGoto(c, client[c], "killed")
    /\ UNCHANGED <<handler, unread, openingVars, stream>>

\* The client's receiver is there, and it connects.
Connect(c) ==
    /\ ClientGoto(c, "spawned", "connecting")
    /\ UNCHANGED <<handler, unread, openingVars, stream>>

\* Callers of another kind have no ctrl-c to speak of and begin here.
Begins(c) == IF c \in Clients THEN "connecting" ELSE "idle"

\* book_summary, or book_summary_for_symbol with a symbol of the caller's.
Request(c, s) ==
    /\ main = "serving"
    /\ c \in Clients => s = DefaultSymbol
    /\ ClientGoto(c, Begins(c), "calling")
    /\ AskFor(c, s)
    /\ UNCHANGED <<handler, unread, stream>>

\* book_summary_for_symbol refuses an empty symbol.
InvalidRequest(c) ==
    /\ main = "serving"
    /\ c \notin Clients
    /\ ClientGoto(c, Begins(c), "error")
    /\ UNCHANGED <<handler, unread, openingVars, stream>>

\* open_summary_stream returns the error of open.
CallFails(c) ==
    /\ Running
    /\ opening[c] \in {"refused", "failed"}
    /\ ClientGoto(c, "calling", "error")
    /\ UNCHANGED <<handler, unread, openingVars, stream>>

\* The client reads a stream that open_summary_stream has spawned.
CallReturns(c) ==
    /\ Running
    /\ stream[c] # "none"
    /\ ClientGoto(c, "calling", "looping")
    /\ UNCHANGED <<handler, unread, openingVars, stream>>

\* Mutant: the stream of the response just ends.
EndOfStreamClean == "clean"

\* into_grpc_stream: the end of the channel is an error for the client.
EndOfStream == "error"

StreamEnds(c) ==
    /\ Running
    /\ stream[c] = "ended"
    /\ ClientGoto(c, "looping", EndOfStream)
    /\ UNCHANGED <<handler, unread, openingVars, stream>>

\* Ctrl-c wins the select, of the client's loop only.
ClientHears(c) ==
    /\ c \in Clients
    /\ Receive(c)
    /\ ClientGoto(c, "looping", "stopped")
    /\ UNCHANGED <<openingVars, stream>>

\* There is no server, or the connection breaks, or the caller goes away.
ConnectionLost(c) ==
    /\ \E at \in {"connecting", "calling", "looping"} : ClientGoto(c, at, "error")
    /\ UNCHANGED <<handler, unread, openingVars, stream>>

\* The server's answer reaches the caller.
ResponseStep(c) == CallFails(c) \/ CallReturns(c) \/ StreamEnds(c)

\* What a client does when nothing keeps it from it.
ClientStep(c) ==
    \/ Connect(c)
    \/ \E s \in Symbols : Request(c, s)
    \/ ClientHears(c)
    \/ main # "serving" /\ client[c] = "connecting" /\ ConnectionLost(c)
    \/ ~Running /\ ConnectionLost(c)

CallerStep(c) ==
    \/ ClientStep(c)
    \/ ResponseStep(c)
    \/ StartClient(c)
    \/ ClientKilled(c)
    \/ InvalidRequest(c)
    \/ ConnectionLost(c)

----------------------------------------------------------------------------
(* The calls in the server.                                                *)

Opening(c) ==
    /\ Running
    /\ OpenStep(c)
    /\ UNCHANGED <<signalVars, main, managerVars, client, stream>>

\* The server drops the call of a client that is gone.
Dropped(c) ==
    /\ Running
    /\ client[c] \in Ended
    /\ Cancel(c)
    /\ UNCHANGED <<signalVars, main, managerVars, client, stream>>

StreamGoto(c, from, to) ==
    /\ Running
    /\ stream[c] = from
    /\ stream' = [stream EXCEPT ![c] = to]
    /\ UNCHANGED <<signalVars, openingVars, main, managerVars, client>>

\* open_summary_stream spawns the task of publish.
SpawnStream(c) == opening[c] = "opened" /\ StreamGoto(c, "none", "spawned")

Attach(c) == StreamGoto(c, "spawned", "attached")

HearsShutdown(c) == StreamGoto(c, "told", "ended")

\* The publisher's last change, or a send to a client that is gone: a stream
\* may come to know of neither.
Notices(c) ==
    /\ stream[c] = "attached"
    /\ \/ feed[feedOf[c]] \in {"signalled", "closed"}
       \/ client[c] \in Ended
    /\ StreamGoto(c, "attached", "ended")

StreamStep(c) == SpawnStream(c) \/ Attach(c) \/ HearsShutdown(c)

----------------------------------------------------------------------------
(* The end of the feeds.                                                   *)

StreamsOf(f, S) == {c \in Calls : feedOf[c] = f /\ stream[c] \in S}

\* remove_feed_if_unused, some time after a last subscriber has left.
RemoveIdle(f) ==
    /\ Running
    /\ ~Locked
    /\ f \in {registry[s] : s \in Symbols}
    /\ StreamsOf(f, {"ended"}) # {} /\ StreamsOf(f, {"attached", "told"}) = {}
    /\ registry' = [registry EXCEPT ![wanted[f]] = NoCall]
    /\ feed' = [feed EXCEPT ![f] = "removed"]
    /\ UNCHANGED <<signalVars, isShuttingDown, opening, wanted, pending, feedOf,
                   tasks, publishers, main, managerTask, drained, client, stream>>

\* The task of Manager::new: Manager::shutdown is run on Ok, not on Lagged.
ManagerHears ==
    /\ Running
    /\ managerTask = "listening"
    /\ Receive(ManagerRx)
    /\ managerTask' = IF Lagged(ManagerRx) THEN "deaf" ELSE "flagged"
    /\ isShuttingDown' = ~Lagged(ManagerRx)
    /\ UNCHANGED <<registry, opening, wanted, pending, feedOf, tasks, publishers,
                   main, drained, feed, client, stream>>

Drain ==
    /\ Running
    /\ ~Locked
    /\ managerTask = "flagged"
    /\ managerTask' = "closing"
    /\ drained' = Calls \cap {registry[s] : s \in Symbols}
    /\ registry' = [s \in Symbols |-> NoCall]
    /\ feed' = [f \in Calls |-> IF f \in drained' THEN "removed" ELSE feed[f]]
    /\ UNCHANGED <<signalVars, isShuttingDown, opening, wanted, pending, feedOf,
                   tasks, publishers, main, client, stream>>

\* Mutant: the manager shuts down the first of the drained feeds.
FirstOfDrained(f) == f \in drained /\ \A g \in drained : feed[g] = "removed"

\* Manager::shutdown takes the drained feeds one after the other.
ManagersTurn(f) == f \in drained /\ \A g \in drained : feed[g] # "signalled"

\* Feed::shutdown tells the streams that have subscribed, and the tasks.
SignalFeed(f) ==
    /\ Running
    /\ feed[f] = "removed"
    /\ f \in drained => ManagersTurn(f)
    /\ feed' = [feed EXCEPT ![f] = "signalled"]
    /\ stream' = [c \in Calls |->
                     IF c \in StreamsOf(f, {"attached"}) THEN "told" ELSE stream[c]]
    /\ tasks' = {t \in tasks : t.feed # f}
    /\ publishers' = publishers \ {f}
    /\ UNCHANGED <<signalVars, registry, isShuttingDown, opening, wanted, pending,
                   feedOf, main, managerTask, drained, client>>

\* Feed::shutdown returns; whether it does is FeedPipeline's subject.
FeedCloses(f) ==
    /\ Running
    /\ feed[f] = "signalled"
    /\ feed' = [feed EXCEPT ![f] = "closed"]
    /\ UNCHANGED <<signalVars, openingVars, main, managerTask, drained, client,
                   stream>>

Orphaned(c) ==
    /\ Running
    /\ \E t \in tasks : t.feed = c /\ OrphanEnds(t)
    /\ UNCHANGED <<signalVars, main, managerVars, client, stream>>

----------------------------------------------------------------------------
Next ==
    \/ StartSignal \/ MainStep \/ ServerKilled
    \/ \E p \in Processes : SignalStep(p) \/ Interrupt(p)
    \/ ManagerHears \/ Drain
    \/ \E c \in Calls :
          \/ CallerStep(c) \/ Opening(c) \/ Dropped(c)
          \/ StreamStep(c) \/ Notices(c)
          \/ RemoveIdle(c) \/ SignalFeed(c) \/ FeedCloses(c) \/ Orphaned(c)

Spec == Init /\ [][Next]_vars

\* The tasks of a process that runs are run, a connection attempt returns, and
\* callers read what they are sent.  Nothing is assumed of when a program is
\* started, of ctrl-c, of callers that go away, of the grace period, of streams
\* that were not told of a shutdown, or that Feed::shutdown returns.
Fairness ==
    /\ WF_vars(MainStep)
    /\ \A p \in Processes : WF_vars(SignalStep(p))
    /\ WF_vars(ManagerHears \/ Drain)
    /\ \A c \in Calls :
          /\ c \in Clients => WF_vars(ClientStep(c))
          /\ WF_vars(ResponseStep(c))
          /\ WF_vars(Opening(c) \/ StreamStep(c))
          /\ WF_vars(SignalFeed(c))
          /\ WF_vars(Orphaned(c))

FairSpec == Spec /\ Fairness

----------------------------------------------------------------------------
(* Safety.                                                                 *)

\* A manager that lost the shutdown because a second one was sent before its
\* task ran (ManagerHears) has no feed to close and no stream to end: that
\* happens only to a server that never served.
DeafManagerServesNobody ==
    managerTask = "deaf" =>
        /\ \A s \in Symbols : registry[s] = NoCall
        /\ \A c \in Calls : stream[c] = "none"

\* A client ends without an error only by its own ctrl-c: the end of a stream,
\* of a call or of the server is never taken for the end of the data, since
\* into_grpc_stream ends every response with an error.
OnlyCtrlCEndsWell ==
    \A c \in Clients : client[c] \in {"stopped", "clean"} => handler[c] = "done"

(* What makes these two inductive.                                         *)

\* A client's receiver gets what its own handler sends.
OwnCtrlC == \A c \in Clients : unread[c] > 0 => handler[c] = "done"

NothingAsked ==
    /\ \A c \in Calls : opening[c] = "none" /\ stream[c] = "none"
    /\ \A s \in Symbols : registry[s] = NoCall

\* The server never accepted a call and never will.
Unserved == main \in {"returned", "exited", "killed"} /\ NothingAsked

\* Two shutdowns are sent only if ctrl-c comes while the address is not to be had.
TwoShutdownsUnserved ==
    /\ main \in {"start", "signal", "manager", "ready"} => NothingAsked
    /\ unread[ManagerRx] > 1 => Unserved
    /\ unread[ManagerRx] > 0 => handler[Server] = "done" \/ Unserved
    /\ managerTask = "deaf" => Unserved

AskedForSymbol == \A c \in Calls : opening[c] # "none" => wanted[c] \in Symbols

IInv ==
    /\ TypeOK
    /\ AskedForSymbol
    /\ OwnCtrlC
    /\ OnlyCtrlCEndsWell
    /\ TwoShutdownsUnserved

\* The last definition among the configured instruments, and among the symbols
\* of one, is the one that counts.
LastIndex(pairs, IsIt(_)) == Max({i \in DOMAIN pairs : IsIt(pairs[i])})

InstrumentOf(s) ==
    Instruments[LastIndex(Instruments, LAMBDA i : i.symbol = s)]

SymbolAt(s, src) ==
    LET sources == InstrumentOf(s).sources
    IN  sources[LastIndex(sources, LAMBDA m : m.key = src)].value

SourcesOf(s) == {m.key : m \in ToSet(InstrumentOf(s).sources)}

CanOpen(src) ==
    /\ \E f \in ToSet(Factories) : f.key = src
    /\ Factories[LastIndex(Factories, LAMBDA f : f.key = src)].value

\* A feed is opened with one task for every source of its instrument, under the
\* symbol it has there, or it is not opened: never in part.  Which of the two is
\* decided by the configuration alone, whatever other calls do meanwhile, and
\* an open that was refused or dropped has started nothing.
OpenedWhole ==
    \A c \in Calls :
        /\ feedOf[c] = c =>
              /\ \A src \in SourcesOf(wanted[c]) : CanOpen(src)
              /\ feed[c] \in {"open", "removed"} =>
                    {t \in tasks : t.feed = c} =
                        {[feed |-> c, source |-> src, symbol |-> SymbolAt(wanted[c], src)]
                            : src \in SourcesOf(wanted[c])}
        /\ opening[c] = "failed" => \E src \in SourcesOf(wanted[c]) : ~CanOpen(src)
        /\ opening[c] \in {"waiting", "refused", "cancelled"} =>
              c \notin publishers \cup {t.feed : t \in tasks}

\* The maps that Collect builds are what the definitions above say of the
\* configuration.
MapsAgree ==
    /\ \A s \in DOMAIN InstrumentMap :
          /\ SourcesOf(s) = DOMAIN InstrumentMap[s]
          /\ \A src \in SourcesOf(s) : SymbolAt(s, src) = InstrumentMap[s][src]
    /\ \A src \in Sources : CanOpen(src) <=> src \in DOMAIN FactoryMap /\ FactoryMap[src]

(* What makes OpenedWhole inductive, said of the maps.                     *)

TasksOf(c) == {t \in tasks : t.feed = c}

TasksFor(c, srcs) ==
    {[feed |-> c, source |-> src, symbol |-> InstrumentMap[wanted[c]][src]] : src \in srcs}

SourcesFor(c) == DOMAIN InstrumentMap[wanted[c]]

\* How far the open of a call is, and what it has started.
OpeningProgress ==
    \A c \in Calls :
        /\ opening[c] \notin {"none", "waiting", "refused", "cancelled", "opened"} =>
              wanted[c] \in DOMAIN InstrumentMap
        /\ opening[c] \in {"none", "waiting", "refused", "cancelled"} =>
              c \notin publishers /\ TasksOf(c) = {}
        /\ opening[c] # "opened" => feedOf[c] = NoCall /\ feed[c] = "open"
        /\ opening[c] = "creating" =>
              /\ pending[c] \subseteq SourcesFor(c)
              /\ TasksOf(c) = TasksFor(c, SourcesFor(c) \ pending[c])
              /\ \A src \in SourcesFor(c) \ pending[c] : Creatable(src)
        /\ opening[c] = "failed" => \E src \in SourcesFor(c) : ~Creatable(src)
        /\ feedOf[c] = c =>
              /\ wanted[c] \in DOMAIN InstrumentMap
              /\ \A src \in SourcesFor(c) : Creatable(src)
              /\ feed[c] \in {"open", "removed"} => TasksOf(c) = TasksFor(c, SourcesFor(c))

\* A registered feed is one that was opened for its symbol and is still open.
RegisteredOpen ==
    \A s \in Symbols : registry[s] # NoCall =>
        /\ feedOf[registry[s]] = registry[s]
        /\ wanted[registry[s]] = s
        /\ feed[registry[s]] = "open"

OpeningInv == OpeningProgress /\ RegisteredOpen

\* The mutex is held by one open, whose symbol stays without a feed and which
\* the drain waits for; only what was opened is removed; the manager's task is
\* started once.
OpensAlone ==
    /\ \A c \in Calls : opening[c] = "creating" =>
          /\ registry[wanted[c]] = NoCall
          /\ managerTask # "closing"
          /\ \A d \in Calls : opening[d] = "creating" => d = c
    /\ managerTask \in {"flagged", "closing"} => isShuttingDown
    /\ \A f \in Calls : feed[f] # "open" => feedOf[f] = f
    /\ main \in {"start", "signal"} => managerTask = "none"

----------------------------------------------------------------------------
\* Although an open takes many steps, may fail half-way and runs beside a drain,
\* the feeds of the process live the life that FeedRegistry describes, as they do
\* in FeedManager, where an open is one step.
Registry == INSTANCE FeedRegistry WITH
    Feeds   <- Calls,
    NoFeed  <- NoCall,
    retired <- {f \in Calls : feed[f] # "open"},
    stopped <- {f \in Calls : feed[f] \in {"signalled", "closed"}},
    shut    <- managerTask = "closing"

ImplementsRegistry == Registry!Spec

----------------------------------------------------------------------------
(* Liveness, under FairSpec.                                               *)

\* The exchange tasks that a failed open had started end by themselves, because
\* nobody holds a sender of their shutdown any more.
OrphansEnd ==
    \A c \in Calls : opening[c] = "failed" ~>
        (~Running \/ \A t \in tasks : t.feed # c)

\* Ctrl-c stops a server that has subscribed, at whatever moment of its start.
CtrlCStopsReadyServer ==
    (handler[Server] = "caught" /\ main \in {"ready", "serving"})
        ~> main \in {"draining", "returned", "exited"}

\* A client that asked for the server's end of a stream too late.
Late(c) ==
    /\ client[c] = "looping" /\ stream[c] = "attached"
    /\ feed[feedOf[c]] \in {"signalled", "closed"}

\* A feed whose turn does not come because another's shutdown is not over.
Blocked(f) == f \in drained /\ feed[f] = "removed" /\ ~ManagersTurn(f)

\* The server that stops exits, and no client has to hang up for it: streams are
\* ended by the shutdown of their feeds and calls that come in between are
\* refused.  Only a stream that subscribed too late or a feed not reached keep it.
GracefulExit ==
    main = "draining" ~> \/ main = "exited"
                         \/ \E c \in Calls : Late(c) \/ Blocked(c)

\* Manager::shutdown gets through all the feeds it has drained, unless the
\* shutdown of one of them does not return.
DrainCompletes ==
    \A f \in Calls : f \in drained ~>
        \/ feed[f] = "closed" \/ ~Running
        \/ \E g \in drained : feed[g] = "signalled"

\* Ctrl-c in a client that has begun to connect ends it, also while it waits for
\* the server's answer and the message can only be kept for later.
CtrlCEndsClient ==
    \A c \in Clients :
        (handler[c] = "caught" /\ client[c] \in {"connecting", "calling", "looping"})
            ~> client[c] \in Ended

----------------------------------------------------------------------------
(* What the documentation says and the code does not do.                   *)

\* "Set up graceful shutdown support using a Ctrl+C signal" (run), "broadcasts a
\* shutdown message to all subscribed receivers" (ctrl_c_shutdown_signal): once
\* caught, ctrl-c stops the server.
CtrlCStopsServer ==
    handler[Server] = "caught" ~> main \in {"draining", "returned", "exited", "killed"}

=============================================================================
