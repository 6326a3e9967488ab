------------------------- MODULE ServerProcessProofs -------------------------
(***************************************************************************)
(* Theorems about ServerProcess, for any calls, clients, symbols and       *)
(* configuration: what the loss of a broadcast message can do to the       *)
(* server, and how a client's program may end.                             *)
(***************************************************************************)
EXTENDS ConfigurationProofs

LEMMA InitIInv == Init => IInv
<1> SUFFICES ASSUME Init PROVE IInv
  OBVIOUS
<1> USE SignalAssumption, OpeningAssumption, ServerAssumption
    DEF Init, SignalInit, OpeningInit
<1>1. SignalTypeOK
  BY DEF SignalTypeOK
<1>2. OpeningTypeOK
  BY DEF OpeningTypeOK
<1>3. TypeOK
  BY <1>1, <1>2 DEF TypeOK
<1>4. AskedForSymbol /\ OwnCtrlC /\ OnlyCtrlCEndsWell
  BY DEF AskedForSymbol, OwnCtrlC, OnlyCtrlCEndsWell
<1>5. TwoShutdownsUnserved
  BY DEF TwoShutdownsUnserved, NothingAsked
<1> QED
  BY <1>3, <1>4, <1>5 DEF IInv

----------------------------------------------------------------------------
\* What the steps of the signal do to its own state.
LEMMA SignalTypes ==
  ASSUME SignalTypeOK, NEW p \in Processes, NEW r \in Receivers,
         \/ SpawnHandler(p) \/ InstallHandler(p) \/ CatchInterrupt(p) \/ HandlerSends(p)
         \/ NewSubscriber(r) \/ Receive(r)
  PROVE  SignalTypeOK'
<1> USE SignalAssumption DEF SignalTypeOK, HandlerGoto
<1>1. CASE SpawnHandler(p) \/ InstallHandler(p) \/ CatchInterrupt(p)
  BY <1>1 DEF SpawnHandler, InstallHandler, CatchInterrupt
<1>2. CASE HandlerSends(p)
  BY <1>2 DEF HandlerSends, Broadcast, Reached
<1>3. CASE NewSubscriber(r)
  BY <1>3 DEF NewSubscriber
<1>4. CASE Receive(r)
  BY <1>4 DEF Receive, Lagged
<1> QED
  BY <1>1, <1>2, <1>3, <1>4

\* An open keeps the types.
LEMMA OpeningTypes ==
  ASSUME OpeningTypeOK, AskedForSymbol, NEW c \in Calls, OpenStep(c) \/ Cancel(c)
  PROVE  OpeningTypeOK' /\ AskedForSymbol'
<1> USE OpeningAssumption DEF OpeningTypeOK, AskedForSymbol, OpenGoto
<1>1. CASE Refuse(c) \/ Cancel(c)
  BY <1>1 DEF Refuse, Cancel
<1>2. CASE Reuse(c)
  BY <1>2 DEF Reuse
<1>3. CASE Begin(c)
  <2>1. DOMAIN InstrumentMap[wanted[c]] \subseteq Sources
    BY <1>3, MapTypes DEF Begin
  <2> QED
    BY <1>3, <2>1 DEF Begin
<1>4. ASSUME NEW src \in Sources, CreateSource(c, src)
      PROVE  OpeningTypeOK' /\ AskedForSymbol'
  BY <1>4 DEF CreateSource
<1>5. ASSUME NEW src \in Sources, CreateFails(c, src)
      PROVE  OpeningTypeOK' /\ AskedForSymbol'
  BY <1>5 DEF CreateFails
<1>6. CASE Insert(c)
  BY <1>6 DEF Insert
<1> QED
  BY <1>1, <1>2, <1>3, <1>4, <1>5, <1>6 DEF OpenStep

\* Types, and what a call asks for.
LEMMA TypeStep ==
  ASSUME TypeOK, AskedForSymbol, [Next]_vars
  PROVE  TypeOK' /\ AskedForSymbol'
<1> USE SignalAssumption, OpeningAssumption, ServerAssumption DEF TypeOK
<1>s. ASSUME UNCHANGED signalVars PROVE SignalTypeOK'
  BY <1>s DEF signalVars, SignalTypeOK
<1>o. ASSUME UNCHANGED openingVars PROVE OpeningTypeOK' /\ AskedForSymbol'
  BY <1>o DEF openingVars, OpeningTypeOK, AskedForSymbol
<1>1. CASE StartSignal \/ MainStep
  <2>1. UNCHANGED openingVars
    BY <1>1 DEF StartSignal, MainStep, StartManager, StartServer, Bind, BindFails,
                ServerHears, ServerReturns, Exit, MainGoto
  <2>2. SignalTypeOK'
    <3>1. CASE StartSignal
      BY <3>1, SignalTypes DEF StartSignal
    <3>2. CASE StartManager \/ StartServer
      BY <3>2, SignalTypes DEF StartManager, StartServer
    <3>3. CASE BindFails
      BY <3>3 DEF BindFails, Broadcast, Reached, SignalTypeOK
    <3>4. CASE ServerHears
      BY <3>4, SignalTypes DEF ServerHears
    <3>5. CASE Bind \/ ServerReturns \/ Exit
      BY <1>s, <3>5 DEF Bind, ServerReturns, AfterServing, Exit, signalVars
    <3> QED
      BY <1>1, <3>1, <3>2, <3>3, <3>4, <3>5 DEF MainStep
  <2>3. UNCHANGED <<drained, feed, client, stream>>
    BY <1>1 DEF StartSignal, MainStep, StartManager, StartServer, Bind, BindFails,
                ServerHears, ServerReturns, Exit, MainGoto
  <2>4. /\ main' \in {"start", "signal", "manager", "ready", "serving", "draining",
                       "returned", "exited", "killed"}
        /\ managerTask' \in {"none", "listening", "deaf", "flagged", "closing"}
    BY <1>1 DEF StartSignal, MainStep, StartManager, StartServer, Bind, BindFails,
                ServerHears, ServerReturns, Exit, MainGoto
  <2> QED
    BY <2>1, <2>2, <2>3, <2>4, <1>o
<1>2. ASSUME NEW p \in Processes, SignalStep(p) \/ Interrupt(p)
      PROVE  TypeOK' /\ AskedForSymbol'
  BY <1>2, <1>o, SignalTypes DEF SignalStep, Interrupt, managerVars
<1>3. CASE ServerKilled
  BY <1>3, <1>o, <1>s DEF ServerKilled, managerVars
<1>4. CASE ManagerHears
  <2>1. SignalTypeOK'
    BY <1>4, SignalTypes DEF ManagerHears
  <2>2. OpeningTypeOK' /\ AskedForSymbol'
    BY <1>4 DEF ManagerHears, OpeningTypeOK, AskedForSymbol
  <2> QED
    BY <1>4, <2>1, <2>2 DEF ManagerHears
<1>5. CASE Drain
  <2>1. OpeningTypeOK' /\ AskedForSymbol'
    BY <1>5 DEF Drain, OpeningTypeOK, AskedForSymbol
  <2> QED
    BY <1>5, <2>1, <1>s DEF Drain
<1>6. ASSUME NEW c \in Calls, CallerStep(c) PROVE TypeOK' /\ AskedForSymbol'
  <2>1. ASSUME NEW from, NEW to \in {"idle", "spawned", "connecting", "calling",
                                     "looping"} \cup Ended, ClientGoto(c, from, to)
        PROVE  /\ client' \in [Calls -> {"idle", "spawned", "connecting", "calling",
                                          "looping"} \cup Ended]
               /\ UNCHANGED <<main, managerVars>>
               /\ subscribed' \subseteq subscribed \cup (Clients \cap {c})
               /\ subscribed \subseteq subscribed'
    BY <2>1 DEF ClientGoto
  <2>2. ASSUME NEW from, NEW to \in {"idle", "spawned", "connecting", "calling",
                                     "looping"} \cup Ended, ClientGoto(c, from, to),
               UNCHANGED <<openingVars, stream>>, UNCHANGED <<handler, unread>>
        PROVE  TypeOK' /\ AskedForSymbol'
    BY <2>1, <2>2, <1>o DEF managerVars, SignalTypeOK
  <2>3. CASE StartClient(c)
    BY <2>1, <2>3, <1>o DEF StartClient, SpawnHandler, HandlerGoto, managerVars, SignalTypeOK
  <2>4. CASE ClientHears(c)
    BY <2>1, <2>4, <1>o DEF ClientHears, Receive, Lagged, managerVars, SignalTypeOK, Ended
  <2>5. ASSUME NEW s \in Symbols, Request(c, s) PROVE TypeOK' /\ AskedForSymbol'
    <3>1. OpeningTypeOK' /\ AskedForSymbol'
      BY <2>5 DEF Request, AskFor, OpenGoto, OpeningTypeOK, AskedForSymbol
    <3> QED
      BY <2>1, <2>5, <3>1 DEF Request, managerVars, SignalTypeOK
  <2>6. CASE ClientKilled(c) \/ Connect(c) \/ InvalidRequest(c)
    BY <2>2, <2>6 DEF ClientKilled, Connect, InvalidRequest, Ended
  <2>7. CASE ResponseStep(c) \/ ConnectionLost(c)
    BY <2>2, <2>7 DEF ResponseStep, CallFails, CallReturns, StreamEnds, EndOfStream,
                      ConnectionLost, Ended
  <2> QED
    BY <1>6, <2>3, <2>4, <2>5, <2>6, <2>7 DEF CallerStep, ClientStep
<1>7. ASSUME NEW c \in Calls, Opening(c) \/ Dropped(c) PROVE TypeOK' /\ AskedForSymbol'
  BY <1>7, <1>s, OpeningTypes DEF Opening, Dropped, managerVars
<1>8. ASSUME NEW c \in Calls, StreamStep(c) \/ Notices(c) PROVE TypeOK' /\ AskedForSymbol'
  BY <1>8, <1>s, <1>o DEF StreamStep, SpawnStream, Attach, HearsShutdown, Notices,
                          StreamGoto, managerVars
<1>9. ASSUME NEW c \in Calls, RemoveIdle(c) \/ SignalFeed(c) PROVE TypeOK' /\ AskedForSymbol'
  <2>1. OpeningTypeOK' /\ AskedForSymbol'
    BY <1>9 DEF RemoveIdle, SignalFeed, OpeningTypeOK, AskedForSymbol
  <2>2. SignalTypeOK'
    BY <1>9, <1>s DEF RemoveIdle, SignalFeed
  <2>3. /\ UNCHANGED <<main, managerTask, client>>
        /\ stream' \in [Calls -> {"none", "spawned", "attached", "told", "ended"}]
        /\ drained' \subseteq drained
        /\ \/ feed' = [feed EXCEPT ![c] = "removed"]
           \/ feed' = [feed EXCEPT ![c] = "signalled"]
    BY <1>9 DEF RemoveIdle, SignalFeed
  <2> QED
    BY <2>1, <2>2, <2>3
<1>10. ASSUME NEW c \in Calls, FeedCloses(c) PROVE TypeOK' /\ AskedForSymbol'
  BY <1>10, <1>s, <1>o DEF FeedCloses
<1>11. ASSUME NEW c \in Calls, Orphaned(c) PROVE TypeOK' /\ AskedForSymbol'
  <2>1. OpeningTypeOK' /\ AskedForSymbol'
    BY <1>11 DEF Orphaned, OrphanEnds, OpeningTypeOK, AskedForSymbol
  <2> QED
    BY <1>11, <2>1, <1>s DEF Orphaned, managerVars
<1>12. CASE UNCHANGED vars
  BY <1>12, <1>s, <1>o DEF vars, managerVars
<1> QED
  BY <1>1, <1>2, <1>3, <1>4, <1>5, <1>6, <1>7, <1>8, <1>9, <1>10, <1>11, <1>12 DEF Next

----------------------------------------------------------------------------
\* The server's broadcasts do not reach the clients, whose handlers are their own.
LEMMA CtrlCStep ==
  ASSUME TypeOK, OwnCtrlC, OnlyCtrlCEndsWell, [Next]_vars
  PROVE  OwnCtrlC' /\ OnlyCtrlCEndsWell'
<1> USE SignalAssumption, ServerAssumption
    DEF TypeOK, SignalTypeOK, OwnCtrlC, OnlyCtrlCEndsWell
<1>1. CASE UNCHANGED <<handler, unread, client>>
  BY <1>1
<1>2. CASE StartSignal
  BY <1>2 DEF StartSignal, SpawnHandler, HandlerGoto, MainGoto
<1>3. CASE BindFails
  BY <1>3 DEF BindFails, Broadcast, Reached, MainGoto
<1>4. CASE ServerHears \/ ManagerHears
  BY <1>4 DEF ServerHears, ManagerHears, Receive, Lagged, MainGoto
<1>5. ASSUME NEW p \in Processes, SignalStep(p) \/ Interrupt(p)
      PROVE  OwnCtrlC' /\ OnlyCtrlCEndsWell'
  <2>1. CASE HandlerSends(p)
    BY <1>5, <2>1 DEF SignalStep, Interrupt, CatchInterrupt, HandlerSends, HandlerGoto,
                      Broadcast, Reached
  <2>2. CASE InstallHandler(p) \/ CatchInterrupt(p)
    BY <1>5, <2>2 DEF SignalStep, Interrupt, InstallHandler, CatchInterrupt, HandlerGoto
  <2> QED
    BY <1>5, <2>1, <2>2 DEF SignalStep, Interrupt
<1>6. ASSUME NEW c \in Calls, CallerStep(c) PROVE OwnCtrlC' /\ OnlyCtrlCEndsWell'
  <2>1. ASSUME NEW from, NEW to, to \notin {"stopped", "clean"}, ClientGoto(c, from, to),
               UNCHANGED <<handler, unread>>
        PROVE  OwnCtrlC' /\ OnlyCtrlCEndsWell'
    BY <2>1 DEF ClientGoto
  <2>2. CASE StartClient(c)
    BY <2>2 DEF StartClient, SpawnHandler, HandlerGoto, ClientGoto
  <2>3. CASE ClientHears(c)
    BY <2>3 DEF ClientHears, Receive, Lagged, ClientGoto
  <2>4. ASSUME NEW s \in Symbols, Request(c, s) PROVE OwnCtrlC' /\ OnlyCtrlCEndsWell'
    BY <2>1, <2>4 DEF Request
  <2>5. CASE ClientKilled(c) \/ Connect(c) \/ InvalidRequest(c)
    BY <2>1, <2>5 DEF ClientKilled, Connect, InvalidRequest
  <2>6. CASE ResponseStep(c) \/ ConnectionLost(c)
    BY <2>1, <2>6 DEF ResponseStep, CallFails, CallReturns, StreamEnds, EndOfStream,
                      ConnectionLost
  <2> QED
    BY <1>6, <2>2, <2>3, <2>4, <2>5, <2>6 DEF CallerStep, ClientStep
<1>7. ASSUME NEW c \in Calls,
             \/ Opening(c) \/ Dropped(c) \/ StreamStep(c) \/ Notices(c) \/ RemoveIdle(c)
             \/ SignalFeed(c) \/ FeedCloses(c) \/ Orphaned(c)
      PROVE  UNCHANGED <<handler, unread, client>>
  BY <1>7 DEF Opening, Dropped, StreamStep, SpawnStream, Attach, HearsShutdown, Notices,
              StreamGoto, RemoveIdle, SignalFeed, FeedCloses, Orphaned, signalVars
<1>8. ASSUME \/ StartManager \/ StartServer \/ Bind \/ ServerReturns \/ Exit
             \/ ServerKilled \/ Drain \/ UNCHANGED vars
      PROVE  UNCHANGED <<handler, unread, client>>
  BY <1>8 DEF StartManager, StartServer, Bind, ServerReturns, AfterServing, Exit,
              MainGoto, NewSubscriber, ServerKilled, Drain, vars, signalVars
<1> QED
  BY <1>1, <1>2, <1>3, <1>4, <1>5, <1>6, <1>7, <1>8 DEF Next, MainStep

----------------------------------------------------------------------------
\* What nobody has asked for does not begin.
LEMMA NothingBegins ==
  ASSUME TypeOK, NothingAsked, [Next]_vars, ~(main = "serving")
  PROVE  NothingAsked'
<1> USE DEF TypeOK, OpeningTypeOK, NothingAsked
<1>1. ASSUME UNCHANGED <<opening, stream, registry>> PROVE NothingAsked'
  BY <1>1
<1>2. CASE StartSignal \/ MainStep
  BY <1>1, <1>2 DEF StartSignal, MainStep, StartManager, StartServer, Bind, BindFails,
                    ServerHears, ServerReturns, Exit, MainGoto, openingVars
<1>3. ASSUME NEW p \in Processes, SignalStep(p) \/ Interrupt(p) PROVE NothingAsked'
  BY <1>1, <1>3 DEF SignalStep, Interrupt, openingVars
<1>4. CASE ServerKilled \/ ManagerHears \/ UNCHANGED vars
  BY <1>1, <1>4 DEF ServerKilled, ManagerHears, vars, openingVars
<1>5. CASE Drain
  BY <1>5 DEF Drain
<1>6. ASSUME NEW c \in Calls, CallerStep(c) PROVE NothingAsked'
  <2>1. ASSUME NEW s \in Symbols PROVE ~Request(c, s)
    BY DEF Request
  <2> QED
    BY <1>1, <1>6, <2>1
    DEF CallerStep, ClientStep, ResponseStep, StartClient, ClientHears, ClientKilled,
        Connect, InvalidRequest, CallFails, CallReturns, StreamEnds, ConnectionLost,
        openingVars
<1>7. ASSUME NEW c \in Calls PROVE ~Opening(c) /\ ~Dropped(c)
  BY DEF Opening, Dropped, OpenStep, Refuse, Reuse, Begin, CreateSource, CreateFails,
         Insert, Cancel, OpenGoto
<1>8. ASSUME NEW c \in Calls PROVE ~StreamStep(c) /\ ~Notices(c) /\ ~RemoveIdle(c)
  BY DEF StreamStep, SpawnStream, Attach, HearsShutdown, Notices, StreamGoto, RemoveIdle,
         StreamsOf
<1>9. ASSUME NEW c \in Calls, SignalFeed(c) \/ FeedCloses(c) \/ Orphaned(c)
      PROVE  NothingAsked'
  BY <1>1, <1>9 DEF SignalFeed, StreamsOf, FeedCloses, Orphaned, OrphanEnds, openingVars
<1> QED
  BY <1>2, <1>3, <1>4, <1>5, <1>6, <1>7, <1>8, <1>9 DEF Next

\* A second message can be there only if run failed to bind the address.
LEMMA TwoShutdownsStep ==
  ASSUME TypeOK, TwoShutdownsUnserved, [Next]_vars
  PROVE  TwoShutdownsUnserved'
<1> USE SignalAssumption, ServerAssumption
    DEF TypeOK, SignalTypeOK, TwoShutdownsUnserved
<1>1. Unserved => Unserved'
  <2>1. ASSUME Unserved PROVE NothingAsked'
    BY <2>1, NothingBegins DEF Unserved
  <2>2. ASSUME Unserved PROVE main' \in {"returned", "exited", "killed"}
    BY <2>2 DEF Unserved, Next, MainStep, StartSignal, StartManager, StartServer, Bind,
       BindFails, ServerHears, ServerReturns, Exit, MainGoto, SignalStep, Interrupt,
       ServerKilled, ManagerHears, Drain, CallerStep, ClientStep, ResponseStep,
       StartClient, ClientKilled, Connect, Request, InvalidRequest, CallFails,
       CallReturns, StreamEnds, ClientHears, ConnectionLost, ClientGoto, Opening,
       Dropped, StreamStep, SpawnStream, Attach, HearsShutdown, Notices, StreamGoto,
       RemoveIdle, SignalFeed, FeedCloses, Orphaned, vars
  <2> QED
    BY <2>1, <2>2 DEF Unserved
<1> DEFINE Quiet == /\ main' = main \/ main' \notin {"start", "signal", "manager", "ready"}
                    /\ unread'[ManagerRx] \in Nat /\ unread'[ManagerRx] <= unread[ManagerRx]
                    /\ handler[Server] = "done" => handler'[Server] = "done"
                    /\ managerTask' = managerTask
<1>2. ASSUME Quiet PROVE TwoShutdownsUnserved'
  BY <1>1, <1>2, NothingBegins
<1>3. CASE StartSignal \/ StartManager \/ StartServer
  BY <1>3, <1>1, NothingBegins
  DEF StartSignal, StartManager, StartServer, MainGoto, SpawnHandler, HandlerGoto,
      NewSubscriber
<1>4. CASE BindFails
  <2>1. Unserved'
    BY <1>4, NothingBegins DEF BindFails, MainGoto, Unserved
  <2> QED
    BY <2>1 DEF Unserved
<1>5. CASE Bind \/ ServerHears \/ ServerReturns \/ Exit \/ ServerKilled
  BY <1>2, <1>5 DEF Bind, ServerHears, ServerReturns, AfterServing, Exit, ServerKilled,
                    MainGoto, Receive, Lagged, signalVars, managerVars
<1>6. ASSUME NEW p \in Processes, SignalStep(p) \/ Interrupt(p)
      PROVE  TwoShutdownsUnserved'
  <2>1. CASE HandlerSends(p) /\ p = Server
    BY <1>1, <1>6, <2>1, NothingBegins
    DEF SignalStep, Interrupt, CatchInterrupt, HandlerSends, HandlerGoto, Broadcast,
        Reached, managerVars
  <2>2. CASE HandlerSends(p) /\ p # Server
    BY <1>2, <1>6, <2>2
    DEF SignalStep, Interrupt, CatchInterrupt, HandlerSends, HandlerGoto, Broadcast,
        Reached, managerVars
  <2>3. CASE InstallHandler(p) \/ CatchInterrupt(p)
    BY <1>2, <1>6, <2>3
    DEF SignalStep, Interrupt, InstallHandler, CatchInterrupt, HandlerGoto, managerVars
  <2> QED
    BY <1>6, <2>1, <2>2, <2>3 DEF SignalStep, Interrupt
<1>7. CASE ManagerHears
  BY <1>1, <1>7, NothingBegins DEF ManagerHears, Receive, Lagged
<1>8. CASE Drain
  BY <1>1, <1>8, NothingBegins DEF Drain, signalVars
<1>9. ASSUME NEW c \in Calls, CallerStep(c) PROVE Quiet
  <2>1. ASSUME NEW from, NEW to, ClientGoto(c, from, to), UNCHANGED <<handler, unread>>
        PROVE  Quiet
    BY <2>1 DEF ClientGoto, managerVars
  <2>2. CASE StartClient(c)
    BY <2>2 DEF StartClient, SpawnHandler, HandlerGoto, ClientGoto, managerVars
  <2>3. CASE ClientHears(c)
    BY <2>3 DEF ClientHears, Receive, Lagged, ClientGoto, managerVars
  <2> QED
    BY <1>9, <2>1, <2>2, <2>3
    DEF CallerStep, ClientStep, ResponseStep, ClientKilled, Connect, Request,
        InvalidRequest, CallFails, CallReturns, StreamEnds, ConnectionLost
<1>10. ASSUME NEW c \in Calls,
              \/ Opening(c) \/ Dropped(c) \/ StreamStep(c) \/ Notices(c) \/ RemoveIdle(c)
              \/ SignalFeed(c) \/ FeedCloses(c) \/ Orphaned(c)
       PROVE  Quiet
  BY <1>10 DEF Opening, Dropped, StreamStep, SpawnStream, Attach, HearsShutdown, Notices,
               StreamGoto, RemoveIdle, SignalFeed, FeedCloses, Orphaned, signalVars,
               managerVars
<1>11. CASE UNCHANGED vars
  BY <1>2, <1>11 DEF vars, signalVars, managerVars
<1> QED
  BY <1>2, <1>3, <1>4, <1>5, <1>6, <1>7, <1>8, <1>9, <1>10, <1>11 DEF Next, MainStep

----------------------------------------------------------------------------
\* What an open, or the end of one, does to the openings and to what they started.
LEMMA ProgressKept ==
  ASSUME TypeOK, AskedForSymbol, OpeningInv,
         UNCHANGED <<registry, opening, wanted, pending, feedOf, tasks, publishers, feed>>
  PROVE  OpeningInv'
BY DEF OpeningInv, OpeningProgress, RegisteredOpen, TasksOf, TasksFor, SourcesFor

LEMMA ProgressOfOpen ==
  ASSUME TypeOK, AskedForSymbol, OpeningInv, UNCHANGED feed,
         NEW c \in Calls, OpenStep(c) \/ Cancel(c)
  PROVE  OpeningInv'
<1> USE OpeningAssumption
    DEF TypeOK, OpeningTypeOK, AskedForSymbol, OpeningInv, OpeningProgress, RegisteredOpen,
        TasksOf, TasksFor, SourcesFor, OpenGoto
<1>1. CASE Refuse(c) \/ Cancel(c)
  BY <1>1 DEF Refuse, Cancel
<1>2. CASE Reuse(c)
  BY <1>2 DEF Reuse
<1>3. CASE Begin(c)
  BY <1>3 DEF Begin
<1>4. ASSUME NEW src \in Sources, CreateSource(c, src) PROVE OpeningInv'
  BY <1>4 DEF CreateSource
<1>5. ASSUME NEW src \in Sources, CreateFails(c, src) PROVE OpeningInv'
  BY <1>5 DEF CreateFails
<1>6. CASE Insert(c)
  BY <1>6 DEF Insert
<1> QED
  BY <1>1, <1>2, <1>3, <1>4, <1>5, <1>6 DEF OpenStep

LEMMA ProgressStep ==
  ASSUME TypeOK, AskedForSymbol, OpeningInv, [Next]_vars
  PROVE  OpeningInv'
<1> USE OpeningAssumption, ServerAssumption DEF openingVars, managerVars
<1>1. CASE \/ StartSignal \/ MainStep \/ ServerKilled \/ ManagerHears \/ UNCHANGED vars
           \/ \E p \in Processes : SignalStep(p) \/ Interrupt(p)
  <2>1. UNCHANGED <<registry, opening, wanted, pending, feedOf, tasks, publishers, feed>>
    BY <1>1 DEF StartSignal, MainStep, StartManager, StartServer, Bind, BindFails,
                ServerHears, ServerReturns, Exit, MainGoto, SignalStep, Interrupt,
                ServerKilled, ManagerHears, vars
  <2> QED
    BY <2>1, ProgressKept
<1>2. ASSUME NEW c \in Calls, CallerStep(c) PROVE OpeningInv'
  <2>1. ASSUME NEW s \in Symbols, Request(c, s) PROVE OpeningInv'
    BY <2>1 DEF Request, AskFor, OpenGoto, ClientGoto, TypeOK, OpeningTypeOK,
                OpeningInv, OpeningProgress, RegisteredOpen, TasksOf, TasksFor, SourcesFor
  <2>2. CASE \/ StartClient(c) \/ ClientKilled(c) \/ Connect(c) \/ InvalidRequest(c)
             \/ ResponseStep(c) \/ ClientHears(c) \/ ConnectionLost(c)
    <3>1. UNCHANGED <<registry, opening, wanted, pending, feedOf, tasks, publishers, feed>>
      BY <2>2 DEF StartClient, ClientKilled, Connect, InvalidRequest, ResponseStep,
                  CallFails, CallReturns, StreamEnds, ClientHears, ConnectionLost, ClientGoto
    <3> QED
      BY <3>1, ProgressKept
  <2> QED
    BY <1>2, <2>1, <2>2 DEF CallerStep, ClientStep
<1>3. ASSUME NEW c \in Calls, Opening(c) \/ Dropped(c) PROVE OpeningInv'
  BY <1>3, ProgressOfOpen DEF Opening, Dropped
<1>4. ASSUME NEW c \in Calls, StreamStep(c) \/ Notices(c) PROVE OpeningInv'
  BY <1>4, ProgressKept DEF StreamStep, SpawnStream, Attach, HearsShutdown, Notices, StreamGoto
<1> USE DEF TypeOK, OpeningTypeOK, OpeningInv, OpeningProgress, RegisteredOpen,
            TasksOf, TasksFor, SourcesFor
<1>5. ASSUME NEW f \in Calls, RemoveIdle(f) PROVE OpeningInv'
  BY <1>5 DEF RemoveIdle
<1>6. CASE Drain
  BY <1>6 DEF Drain
<1>7. ASSUME NEW f \in Calls, SignalFeed(f) PROVE OpeningInv'
  BY <1>7 DEF SignalFeed
<1>8. ASSUME NEW f \in Calls, FeedCloses(f) PROVE OpeningInv'
  BY <1>8 DEF FeedCloses
<1>9. ASSUME NEW c \in Calls, Orphaned(c) PROVE OpeningInv'
  BY <1>9 DEF Orphaned, OrphanEnds, SendersGone
<1> QED
  BY <1>1, <1>2, <1>3, <1>4, <1>5, <1>6, <1>7, <1>8, <1>9 DEF Next

----------------------------------------------------------------------------
\* The inductive invariant of the process: who may have an unread message, and
\* what can have happened when the manager has two.
THEOREM Invariance == Spec => []IInv
<1>1. IInv /\ [Next]_vars => IInv'
  BY TypeStep, CtrlCStep, TwoShutdownsStep DEF IInv
<1> QED
  BY InitIInv, <1>1, PTL DEF Spec

\* Every variable keeps its type.
THEOREM TypeCorrect == Spec => []TypeOK
<1>1. IInv => TypeOK
  BY DEF IInv
<1> QED
  BY Invariance, <1>1, PTL

\* Manager::shutdown is skipped (Err(Lagged) in the task of Manager::new) only in
\* a server that has no feed and no stream, however the tasks are scheduled.
THEOREM DeafManagerHarmless == Spec => []DeafManagerServesNobody
<1>1. IInv => DeafManagerServesNobody
  BY DEF IInv, TwoShutdownsUnserved, Unserved, NothingAsked, DeafManagerServesNobody
<1> QED
  BY Invariance, <1>1, PTL

\* A client returns without an error only after its own ctrl-c.
THEOREM ClientEndsWell == Spec => []OnlyCtrlCEndsWell
<1>1. IInv => OnlyCtrlCEndsWell
  BY DEF IInv
<1> QED
  BY Invariance, <1>1, PTL

\* What has been started for a call, and what a registered feed is.
THEOREM OpeningInvariance == Spec => []OpeningInv
<1>1. Init => OpeningInv
  BY OpeningAssumption
  DEF Init, OpeningInit, OpeningInv, OpeningProgress, RegisteredOpen, TasksOf
<1>2. TypeOK /\ AskedForSymbol /\ OpeningInv /\ [Next]_vars => OpeningInv'
  BY ProgressStep
<1>3. IInv => TypeOK /\ AskedForSymbol
  BY DEF IInv
<1> QED
  BY Invariance, <1>1, <1>2, <1>3, PTL DEF Spec

\* A feed has a task for each source of its instrument, or it is not opened and
\* has none, whatever the configuration.
THEOREM FeedsWhole == Spec => []OpenedWhole
<1>1. TypeOK /\ OpeningInv => OpenedWhole
  <2> SUFFICES ASSUME TypeOK, OpeningInv, NEW c \in Calls
               PROVE  /\ feedOf[c] = c =>
                            /\ \A src \in SourcesOf(wanted[c]) : CanOpen(src)
                            /\ feed[c] \in {"open", "removed"} =>
                                 {t \in tasks : t.feed = c} =
                                   {[feed |-> c, source |-> src,
                                     symbol |-> SymbolAt(wanted[c], src)]
                                        : src \in SourcesOf(wanted[c])}
                      /\ opening[c] = "failed" =>
                            \E src \in SourcesOf(wanted[c]) : ~CanOpen(src)
                      /\ opening[c] \in {"waiting", "refused", "cancelled"} =>
                            c \notin publishers \cup {t.feed : t \in tasks}
    BY DEF OpenedWhole
  <2>1. ASSUME wanted[c] \in DOMAIN InstrumentMap
        PROVE  /\ SourcesOf(wanted[c]) = SourcesFor(c)
               /\ \A src \in SourcesFor(c) :
                     /\ SymbolAt(wanted[c], src) = InstrumentMap[wanted[c]][src]
                     /\ CanOpen(src) <=> Creatable(src)
    BY <2>1, MapsHoldConfiguration, MapTypes DEF MapsAgree, SourcesFor, Creatable
  <2>2. CASE feedOf[c] = c
    <3>1. /\ wanted[c] \in DOMAIN InstrumentMap
          /\ \A src \in SourcesFor(c) : Creatable(src)
          /\ feed[c] \in {"open", "removed"} => TasksOf(c) = TasksFor(c, SourcesFor(c))
          /\ opening[c] = "opened"
      BY <2>2, OpeningAssumption DEF OpeningInv, OpeningProgress
    <3> QED
      BY <2>1, <3>1 DEF TasksOf, TasksFor
  <2>3. CASE opening[c] = "failed"
    <3>1. /\ wanted[c] \in DOMAIN InstrumentMap
          /\ \E src \in SourcesFor(c) : ~Creatable(src)
          /\ feedOf[c] = NoCall
      BY <2>3 DEF OpeningInv, OpeningProgress
    <3>2. \E src \in SourcesOf(wanted[c]) : ~CanOpen(src)
      BY <2>1, <3>1
    <3>3. feedOf[c] # c
      BY <3>1, OpeningAssumption
    <3> QED
      BY <2>3, <3>2, <3>3
  <2>4. CASE opening[c] \in {"waiting", "refused", "cancelled"}
    <3>1. c \notin publishers /\ TasksOf(c) = {}
      BY <2>4 DEF OpeningInv, OpeningProgress
    <3>2. c \notin {t.feed : t \in tasks}
      BY <3>1 DEF TasksOf
    <3>3. feedOf[c] # c
      BY <2>4, OpeningAssumption DEF OpeningInv, OpeningProgress
    <3> QED
      BY <2>4, <3>1, <3>2, <3>3
  <2>5. (opening[c] = "failed" \/ opening[c] \in {"waiting", "refused", "cancelled"})
          => feedOf[c] # c
    BY OpeningAssumption DEF OpeningInv, OpeningProgress
  <2> QED
    BY <2>2, <2>3, <2>4, <2>5
<1> QED
  BY TypeCorrect, OpeningInvariance, <1>1, PTL

----------------------------------------------------------------------------
\* An open holds the mutex from its first step to its last.
LEMMA AloneOfOpen ==
  ASSUME TypeOK, AskedForSymbol, OpeningInv, OpensAlone, UNCHANGED <<main, feed, managerTask>>,
         NEW c \in Calls, OpenStep(c) \/ Cancel(c)
  PROVE  OpensAlone'
<1> USE OpeningAssumption
    DEF TypeOK, OpeningTypeOK, AskedForSymbol, OpensAlone, OpenGoto, Locked, Accepting
<1>1. CASE Refuse(c) \/ Cancel(c)
  BY <1>1 DEF Refuse, Cancel
<1>2. CASE Reuse(c)
  <2>1. feed[c] = "open"
    BY <1>2 DEF Reuse, OpeningInv, OpeningProgress
  <2> QED
    BY <1>2, <2>1 DEF Reuse
<1>3. CASE Begin(c)
  BY <1>3 DEF Begin
<1>4. ASSUME NEW src \in Sources, CreateSource(c, src) PROVE OpensAlone'
  BY <1>4 DEF CreateSource
<1>5. ASSUME NEW src \in Sources, CreateFails(c, src) PROVE OpensAlone'
  BY <1>5 DEF CreateFails
<1>6. CASE Insert(c)
  BY <1>6 DEF Insert
<1> QED
  BY <1>1, <1>2, <1>3, <1>4, <1>5, <1>6 DEF OpenStep

LEMMA AloneStep ==
  ASSUME TypeOK, AskedForSymbol, OpeningInv, OpensAlone, [Next]_vars
  PROVE  OpensAlone'
<1> USE OpeningAssumption, ServerAssumption DEF openingVars, managerVars
<1>0. ASSUME UNCHANGED <<registry, isShuttingDown, opening, wanted, feedOf, feed>>,
             \/ /\ managerTask' = managerTask
                /\ main' \in {"start", "signal"} => main \in {"start", "signal"}
             \/ managerTask' = "listening" /\ main' = "manager"
      PROVE  OpensAlone'
  BY <1>0 DEF OpensAlone
<1>1. CASE \/ StartSignal \/ MainStep \/ ServerKilled \/ UNCHANGED vars
           \/ \E p \in Processes : SignalStep(p) \/ Interrupt(p)
  BY <1>0, <1>1 DEF StartSignal, MainStep, StartManager, StartServer, Bind, BindFails,
                    ServerHears, ServerReturns, Exit, MainGoto, SignalStep, Interrupt,
                    ServerKilled, vars
<1>2. ASSUME NEW c \in Calls, CallerStep(c) PROVE OpensAlone'
  <2>1. ASSUME NEW s \in Symbols, Request(c, s) PROVE OpensAlone'
    BY <2>1 DEF Request, AskFor, OpenGoto, ClientGoto, TypeOK, OpeningTypeOK, OpensAlone
  <2>2. CASE \/ StartClient(c) \/ ClientKilled(c) \/ Connect(c) \/ InvalidRequest(c)
             \/ ResponseStep(c) \/ ClientHears(c) \/ ConnectionLost(c)
    BY <1>0, <2>2 DEF StartClient, ClientKilled, Connect, InvalidRequest, ResponseStep,
                      CallFails, CallReturns, StreamEnds, ClientHears, ConnectionLost,
                      ClientGoto
  <2> QED
    BY <1>2, <2>1, <2>2 DEF CallerStep, ClientStep
<1>3. ASSUME NEW c \in Calls, Opening(c) \/ Dropped(c) PROVE OpensAlone'
  BY <1>3, AloneOfOpen DEF Opening, Dropped
<1>4. ASSUME NEW c \in Calls, StreamStep(c) \/ Notices(c) PROVE OpensAlone'
  BY <1>0, <1>4 DEF StreamStep, SpawnStream, Attach, HearsShutdown, Notices, StreamGoto
<1>5. CASE ManagerHears
  BY <1>5 DEF ManagerHears, OpensAlone
<1> USE DEF TypeOK, OpeningTypeOK, OpensAlone
<1>6. ASSUME NEW f \in Calls, RemoveIdle(f) PROVE OpensAlone'
  BY <1>6 DEF RemoveIdle, OpeningInv, RegisteredOpen, Locked
<1>7. CASE Drain
  BY <1>7 DEF Drain, OpeningInv, RegisteredOpen, Locked
<1>8. ASSUME NEW f \in Calls, SignalFeed(f) PROVE OpensAlone'
  BY <1>8 DEF SignalFeed
<1>9. ASSUME NEW f \in Calls, FeedCloses(f) PROVE OpensAlone'
  BY <1>9 DEF FeedCloses
<1>10. ASSUME NEW c \in Calls, Orphaned(c) PROVE OpensAlone'
  BY <1>0, <1>10 DEF Orphaned, OrphanEnds
<1> QED
  BY <1>1, <1>2, <1>3, <1>4, <1>5, <1>6, <1>7, <1>8, <1>9, <1>10 DEF Next

\* One open at a time has the mutex, and the drain waits for it.
THEOREM OneOpens == Spec => []OpensAlone
<1>1. Init => OpensAlone
  BY DEF Init, OpeningInit, OpensAlone
<1>2. TypeOK /\ AskedForSymbol /\ OpeningInv /\ OpensAlone /\ [Next]_vars => OpensAlone'
  BY AloneStep
<1>3. IInv => TypeOK /\ AskedForSymbol
  BY DEF IInv
<1> QED
  BY Invariance, OpeningInvariance, <1>1, <1>2, <1>3, PTL DEF Spec

\* An insertion registers, the end of a grace period retires, the drain shuts, the
\* shutdown of a feed stops it: the process implements the abstract registry, with
\* opens that take many steps and may fail.
THEOREM Refinement == Spec => ImplementsRegistry
<1> DEFINE RetiredNow == {f \in Calls : feed[f] # "open"}
           StoppedNow == {f \in Calls : feed[f] \in {"signalled", "closed"}}
           Inv == TypeOK /\ AskedForSymbol /\ OpeningInv /\ OpensAlone
<1>1. Init => Registry!Init
  BY DEF Init, OpeningInit, Registry!Init
<1>2. Inv /\ [Next]_vars => [Registry!Next]_(Registry!vars)
  <2> SUFFICES ASSUME Inv, [Next]_vars
               PROVE  Registry!Next \/ UNCHANGED Registry!vars
    OBVIOUS
  <2> USE OpeningAssumption DEF openingVars, managerVars, OpenGoto
  <2>0. ASSUME UNCHANGED <<registry, feed, (managerTask = "closing")>>
        PROVE  UNCHANGED Registry!vars
    BY <2>0 DEF Registry!vars
  <2>1. CASE \/ StartSignal \/ MainStep \/ ServerKilled \/ ManagerHears \/ UNCHANGED vars
             \/ \E p \in Processes : SignalStep(p) \/ Interrupt(p)
    <3>1. UNCHANGED <<registry, feed>>
      BY <2>1 DEF StartSignal, MainStep, StartManager, StartServer, Bind, BindFails,
                  ServerHears, ServerReturns, Exit, MainGoto, SignalStep, Interrupt,
                  ServerKilled, ManagerHears, vars
    <3>2. \/ UNCHANGED managerTask
          \/ managerTask # "closing" /\ managerTask' # "closing"
      BY <2>1 DEF OpensAlone, StartSignal, MainStep, StartManager, StartServer, Bind, BindFails,
                  ServerHears, ServerReturns, Exit, MainGoto, SignalStep, Interrupt,
                  ServerKilled, ManagerHears, vars
    <3> QED
      BY <2>0, <3>1, <3>2
  <2>2. ASSUME NEW c \in Calls, CallerStep(c) PROVE UNCHANGED Registry!vars
    <3>1. UNCHANGED <<registry, feed, managerTask>>
      BY <2>2 DEF CallerStep, ClientStep, StartClient, ClientKilled, Connect, Request, AskFor,
                  InvalidRequest, ResponseStep, CallFails, CallReturns, StreamEnds,
                  ClientHears, ConnectionLost, ClientGoto
    <3> QED
      BY <2>0, <3>1
  <2>3. ASSUME NEW c \in Calls, Insert(c), UNCHANGED <<managerTask, feed>>
        PROVE  Registry!Register(c, wanted[c]) /\ wanted[c] \in Symbols
    <3>1. /\ wanted[c] \in Symbols /\ registry[wanted[c]] = NoCall
          /\ managerTask # "closing" /\ feed[c] = "open" /\ feedOf[c] = NoCall
      BY <2>3 DEF Insert, AskedForSymbol, OpensAlone, OpeningInv, OpeningProgress
    <3>2. c \notin Registry!Registered \cup RetiredNow
      BY <3>1 DEF Registry!Registered, OpeningInv, RegisteredOpen
    <3> QED
      BY <2>3, <3>1, <3>2 DEF Insert, Registry!Register
  <2>4. ASSUME NEW c \in Calls, Opening(c) \/ Dropped(c)
        PROVE  Registry!Next \/ UNCHANGED Registry!vars
    <3>1. UNCHANGED <<managerTask, feed>>
      BY <2>4 DEF Opening, Dropped
    <3>2. UNCHANGED registry \/ Insert(c)
      BY <2>4 DEF Opening, Dropped, OpenStep, Refuse, Reuse, Begin, CreateSource,
                  CreateFails, Cancel
    <3> QED
      BY <2>0, <2>3, <3>1, <3>2 DEF Registry!Next
  <2>5. ASSUME NEW c \in Calls, StreamStep(c) \/ Notices(c) \/ Orphaned(c)
        PROVE  UNCHANGED Registry!vars
    <3>1. UNCHANGED <<registry, feed, managerTask>>
      BY <2>5 DEF StreamStep, SpawnStream, Attach, HearsShutdown, Notices, StreamGoto,
                  Orphaned, OrphanEnds
    <3> QED
      BY <2>0, <3>1
  <2>6. ASSUME NEW f \in Calls, RemoveIdle(f)
        PROVE  \E s \in Symbols : Registry!Retire(f, s)
    <3>1. PICK s \in Symbols : s = wanted[f] /\ registry[s] = f
      BY <2>6 DEF RemoveIdle, OpeningInv, RegisteredOpen
    <3>2. RetiredNow' = RetiredNow \cup {f} /\ UNCHANGED StoppedNow
      BY <2>6, <3>1 DEF RemoveIdle, TypeOK, OpeningInv, RegisteredOpen
    <3>3. Registry!Retire(f, s)
      BY <2>6, <3>1, <3>2 DEF RemoveIdle, Registry!Retire
    <3> QED
      BY <3>3
  <2>7. CASE Drain
    <3>1. drained' = Registry!Registered
      BY <2>7 DEF Drain, Registry!Registered
    <3>2. \A f \in drained' : feed[f] = "open"
      BY <3>1 DEF Registry!Registered, OpeningInv, RegisteredOpen
    <3>3. \A f \in Calls : feed'[f] = IF f \in drained' THEN "removed" ELSE feed[f]
      BY <2>7 DEF Drain
    <3>4. RetiredNow' = RetiredNow \cup Registry!Registered
      BY <3>1, <3>3 DEF Registry!Registered
    <3>5. UNCHANGED StoppedNow
      BY <3>2, <3>3
    <3>6. Registry!Shut
      BY <2>7, <3>4, <3>5 DEF Drain, Registry!Shut
    <3> QED
      BY <3>6 DEF Registry!Next
  <2>8. ASSUME NEW f \in Calls, SignalFeed(f) PROVE Registry!Stop(f)
    <3>1. UNCHANGED RetiredNow /\ StoppedNow' = StoppedNow \cup {f}
      BY <2>8 DEF SignalFeed, TypeOK
    <3> QED
      BY <2>8, <3>1 DEF SignalFeed, Registry!Stop
  <2>9. ASSUME NEW f \in Calls, FeedCloses(f) PROVE UNCHANGED Registry!vars
    <3>1. UNCHANGED <<RetiredNow, StoppedNow>>
      BY <2>9 DEF FeedCloses, TypeOK
    <3> QED
      BY <2>9, <3>1 DEF FeedCloses, Registry!vars
  <2>10. ASSUME NEW f \in Calls, RemoveIdle(f) \/ SignalFeed(f) PROVE Registry!Next
    <3>1. CASE RemoveIdle(f)
      <4>1. \E s \in Symbols : Registry!Retire(f, s)
        BY <2>6, <3>1
      <4> QED
        BY <4>1 DEF Registry!Next
    <3>2. CASE SignalFeed(f)
      BY <2>8, <3>2 DEF Registry!Next
    <3> QED
      BY <2>10, <3>1, <3>2
  <2> QED
    BY <2>1, <2>2, <2>4, <2>5, <2>7, <2>9, <2>10 DEF Next
<1>3. IInv => TypeOK /\ AskedForSymbol
  BY DEF IInv
<1> QED
  BY <1>1, <1>2, <1>3, Invariance, OpeningInvariance, OneOpens, PTL
  DEF Spec, ImplementsRegistry, Registry!Spec

=============================================================================
