--------------------------- MODULE ShutdownSignal ---------------------------
(***************************************************************************)
(* How a process is asked to stop: crates/aggcommon/src/shutdown.rs.  A    *)
(* spawned task installs the handler of ctrl-c when it first runs, waits   *)
(* for it once and sends on a broadcast channel with room for one message. *)
(* A receiver gets what is sent after it has subscribed; one that has not  *)
(* read a message when the next is sent has lost it and is told so.        *)
(*                                                                         *)
(* Until the handler is installed, ctrl-c does what the system does by     *)
(* default, it kills the process; from then on it only ever reaches this   *)
(* task, which has no use for a second one.                                *)
(***************************************************************************)
EXTENDS Naturals

CONSTANTS
    Processes,  \* each has a handler and a channel of its own
    Receivers,  \* all who may subscribe
    ProcessOf   \* the process of each receiver

ASSUME SignalAssumption == ProcessOf \in [Receivers -> Processes]

VARIABLES
    handler,    \* where the task of ctrl_c_shutdown_signal stands
    subscribed, \* the receivers that exist
    unread      \* how many messages were sent to each and not taken

signalVars == <<handler, subscribed, unread>>

SignalTypeOK ==
    /\ handler \in [Processes -> {"none", "spawned", "armed", "caught", "done"}]
    /\ subscribed \subseteq Receivers
    /\ unread \in [Receivers -> Nat]
    /\ \A r \in Receivers : unread[r] > 0 => r \in subscribed

SignalInit ==
    /\ handler = [p \in Processes |-> "none"]
    /\ subscribed = {}
    /\ unread = [r \in Receivers |-> 0]

HandlerGoto(p, from, to) ==
    /\ handler[p] = from
    /\ handler' = [handler EXCEPT ![p] = to]

\* ctrl_c_shutdown_signal() returns with the task spawned.
SpawnHandler(p) ==
    /\ HandlerGoto(p, "none", "spawned")
    /\ UNCHANGED <<subscribed, unread>>

\* tokio::signal::ctrl_c() is polled for the first time.  If it fails the task
\* goes on as if ctrl-c had come.
InstallHandler(p) ==
    /\ \/ HandlerGoto(p, "spawned", "armed")
       \/ HandlerGoto(p, "spawned", "caught")
    /\ UNCHANGED <<subscribed, unread>>

\* Ctrl-c, with the handler installed.
CatchInterrupt(p) ==
    /\ HandlerGoto(p, "armed", "caught")
    /\ UNCHANGED <<subscribed, unread>>

\* Ctrl-c would kill the process.
Unprotected(p) == handler[p] = "spawned"

\* Mutant: only one of those who wait is told.
BroadcastToOne(p) ==
    \E r \in subscribed : /\ ProcessOf[r] = p
                          /\ unread' = [unread EXCEPT ![r] = @ + 1]

\* Mutant: the channel keeps the message for those who subscribe later.
EveryReceiver(p) == {r \in Receivers : ProcessOf[r] = p}

\* The receivers of p's channel that exist.
Reached(p) == {r \in subscribed : ProcessOf[r] = p}

\* send(()): a message for every receiver there is.
Broadcast(p) ==
    unread' = [r \in Receivers |->
                  IF r \in Reached(p) THEN unread[r] + 1 ELSE unread[r]]

HandlerSends(p) ==
    /\ HandlerGoto(p, "caught", "done")
    /\ Broadcast(p)
    /\ UNCHANGED subscribed

\* Sender::subscribe(): only later messages will be received.
NewSubscriber(r) ==
    /\ subscribed' = subscribed \cup {r}
    /\ UNCHANGED <<handler, unread>>

\* recv() returns Err(Lagged): the older of two messages is lost.
Lagged(r) == unread[r] > 1

\* recv() returns, with the message or with Lagged, which leaves the newest.
Receive(r) ==
    /\ unread[r] > 0
    /\ unread' = [unread EXCEPT ![r] = IF Lagged(r) THEN 1 ELSE 0]
    /\ UNCHANGED <<handler, subscribed>>

=============================================================================
