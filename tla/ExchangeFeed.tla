---------------------------- MODULE ExchangeFeed ----------------------------
(***************************************************************************)
(* The tasks that read the exchanges: BinanceFeed and BitstampFeed in      *)
(* crates/aggserver/src/service/sources.  One task per exchange connects,  *)
(* stores the snapshot of every order book message in a cell, then tells   *)
(* the watch channel; on any error it stores the error, waits and connects *)
(* again, until the feed's shutdown is received.                           *)
(*                                                                         *)
(* A snapshot is the number of the message it came from, the messages of   *)
(* each exchange numbered as they arrive.  A text message of Binance that  *)
(* has no book counts, as an empty book; those of Bitstamp, and pings and  *)
(* pongs, change nothing and are left out.                                 *)
(***************************************************************************)
EXTENDS Integers, Exchanges

CONSTANTS
    Fragile,    \* those whose parser can panic on a message (Binance)
    MaxVersion, \* bound on the messages of all exchanges
    MaxDrops,   \* bound on the connections that fail
    Failed      \* the cell holds an error

ASSUME ExchangeAssumption ==
    /\ Fragile \subseteq Sources
    /\ MaxVersion \in Nat
    /\ MaxDrops \in Nat
    /\ Failed \notin Int

VARIABLES
    link,       \* where the task of each exchange stands
    messages,   \* how many messages have arrived
    made,       \* the number of the last message of each exchange
    snapshot,   \* the cell: 0 for none yet, a message, or Failed
    unseen,     \* exchanges whose watch receiver has an unseen change
    told,       \* exchanges whose task has an unread shutdown message
    drops       \* how many connections have failed

exchangeVars == <<link, messages, made, snapshot, unseen, told, drops>>

Versions == 1..MaxVersion
Links == {"connecting", "reading", "stored", "failed", "errorStored",
          "backoff", "closed", "panicked"}

ExchangeTypeOK ==
    /\ link \in [Sources -> Links]
    /\ messages \in 0..MaxVersion
    /\ made \in [Sources -> 0..MaxVersion]
    /\ snapshot \in [Sources -> 0..MaxVersion \cup {Failed}]
    /\ unseen \subseteq Sources
    /\ told \subseteq Sources
    /\ drops \in 0..MaxDrops

ExchangeInit ==
    /\ link = [s \in Sources |-> "connecting"]
    /\ messages = 0
    /\ made = [s \in Sources |-> 0]
    /\ snapshot = [s \in Sources |-> 0]
    /\ unseen = {}
    /\ told = {}
    /\ drops = 0

Move(s, from, to) ==
    /\ link[s] = from
    /\ link' = [link EXCEPT ![s] = to]

Connect(s) ==
    /\ Move(s, "connecting", "reading")
    /\ UNCHANGED <<messages, made, snapshot, unseen, told, drops>>

\* An order book message: its snapshot replaces the cell.
Receive(s) ==
    /\ messages < MaxVersion
    /\ Move(s, "reading", "stored")
    /\ messages' = messages + 1
    /\ made' = [made EXCEPT ![s] = @ + 1]
    /\ snapshot' = [snapshot EXCEPT ![s] = made'[s]]
    /\ UNCHANGED <<unseen, told, drops>>

\* Mutant: the cell is written, nobody is told.
TellNobody(s) ==
    /\ Move(s, "stored", "reading")
    /\ UNCHANGED <<messages, made, snapshot, unseen, told, drops>>

\* watch_tx.send(()) after a snapshot.
Tell(s) ==
    /\ Move(s, "stored", "reading")
    /\ unseen' = unseen \cup {s}
    /\ UNCHANGED <<messages, made, snapshot, told, drops>>

\* The connection, a ping or the parser of a message fails: run_feed_loop
\* returns the error.
Drop(s) ==
    /\ drops < MaxDrops
    /\ \/ Move(s, "connecting", "failed")
       \/ Move(s, "reading", "failed")
    /\ drops' = drops + 1
    /\ UNCHANGED <<messages, made, snapshot, unseen, told>>

\* An entry that is not a string: unwrap panics and the task is gone.
Panic(s) ==
    /\ s \in Fragile
    /\ drops < MaxDrops
    /\ Move(s, "reading", "panicked")
    /\ drops' = drops + 1
    /\ UNCHANGED <<messages, made, snapshot, unseen, told>>

StoreError(s) ==
    /\ Move(s, "failed", "errorStored")
    /\ snapshot' = [snapshot EXCEPT ![s] = Failed]
    /\ UNCHANGED <<messages, made, unseen, told, drops>>

TellError(s) ==
    /\ Move(s, "errorStored", "backoff")
    /\ unseen' = unseen \cup {s}
    /\ UNCHANGED <<messages, made, snapshot, told, drops>>

\* Mutant: gives up after the first error.
GiveUp(s) ==
    /\ Move(s, "backoff", "closed")
    /\ UNCHANGED <<messages, made, snapshot, unseen, told, drops>>

\* The sleep of BACKOFF_SECONDS ends.
Retry(s) ==
    /\ Move(s, "backoff", "connecting")
    /\ UNCHANGED <<messages, made, snapshot, unseen, told, drops>>

\* Mutant: only the sleep listens to the shutdown, the reading loop does not.
CloseBackoff(s) ==
    /\ s \in told
    /\ Move(s, "backoff", "closed")
    /\ told' = told \ {s}
    /\ UNCHANGED <<messages, made, snapshot, unseen, drops>>

\* shutdown.recv() wins a select; while connecting nobody listens to it.
Close(s) ==
    /\ s \in told
    /\ \/ Move(s, "reading", "closed")
       \/ Move(s, "backoff", "closed")
    /\ told' = told \ {s}
    /\ UNCHANGED <<messages, made, snapshot, unseen, drops>>

\* connect_async returns.
ConnectReturns(s) ==
    \/ Connect(s)
    \/ link[s] = "connecting" /\ Drop(s)

\* The steps that wait for nothing but the task itself and its timer.
ExchangeStep(s) ==
    \/ Tell(s)
    \/ StoreError(s)
    \/ TellError(s)
    \/ Retry(s)
    \/ Close(s)

ExchangeNext(s) ==
    \/ ExchangeStep(s)
    \/ Connect(s)
    \/ Receive(s)
    \/ Drop(s)
    \/ Panic(s)

=============================================================================
