----------------------------- MODULE Publisher -----------------------------
(***************************************************************************)
(* The publisher of one feed, crates/aggserver/src/service/publisher.rs:   *)
(* a bounded queue of snapshots, a task that combines each of them into    *)
(* the book and stores the summary in a cell, and a watch channel that     *)
(* tells the receivers of the cell's changes.  A summary is the book it    *)
(* was computed from: the last message of each exchange, 0 for none (what  *)
(* to_proto makes of a book is OrderBook's subject).                       *)
(***************************************************************************)
EXTENDS Integers, Sequences, Exchanges

CONSTANTS
    Streams,    \* the receivers of the watch channel
    Backlog,    \* BACKLOG_SIZE
    NoSummary,  \* Ok(None)
    Stopped     \* Err(SummaryError::Shutdown)

ASSUME PublisherAssumption ==
    /\ Backlog \in Nat \ {0}
    /\ NoSummary # Stopped

VARIABLES
    queue,      \* source_tx / source_rx
    combined,   \* the CombinedSummary of local_run
    latest,     \* Publisher::latest
    pub,        \* where the publisher's task stands
    closing,    \* close() was called and not yet received
    receivers,  \* the receivers watch_latest has handed out
    changed     \* those with an unseen change

publisherVars == <<queue, combined, latest, pub, closing, receivers, changed>>

Books == [Sources -> Nat]

PublisherTypeOK ==
    /\ queue \in Seq([source : Sources, version : Nat])
    /\ Len(queue) <= Backlog
    /\ combined \in Books
    /\ latest \in Books \cup {NoSummary, Stopped}
    /\ pub \in {"running", "stored", "stopping", "stopped"}
    /\ closing \in BOOLEAN
    /\ receivers \subseteq Streams
    /\ changed \subseteq receivers

PublisherInit ==
    /\ queue = <<>>
    /\ combined = [s \in Sources |-> 0]
    /\ latest = NoSummary
    /\ pub = "running"
    /\ closing = FALSE
    /\ receivers = {}
    /\ changed = {}

\* Mutant: the channel is unbounded.
HasNoBound == pub # "stopped"

\* source_tx.send(): waits for room, fails once the task has closed its end.
HasRoom == Len(queue) < Backlog /\ pub # "stopped"

Enqueue(s, version) ==
    /\ HasRoom
    /\ queue' = Append(queue, [source |-> s, version |-> version])
    /\ UNCHANGED <<combined, latest, pub, closing, receivers, changed>>

\* Mutant: the newest snapshot is taken first.
CombineNewest ==
    /\ pub = "running" /\ queue # <<>>
    /\ LET item == queue[Len(queue)] IN
           combined' = [combined EXCEPT ![item.source] = item.version]
    /\ queue' = SubSeq(queue, 1, Len(queue) - 1)
    /\ latest' = combined'
    /\ pub' = "stored"
    /\ UNCHANGED <<closing, receivers, changed>>

\* recv() wins the select: the book and the cell take the snapshot.
Combine ==
    /\ pub = "running" /\ queue # <<>>
    /\ LET item == Head(queue) IN
           combined' = [combined EXCEPT ![item.source] = item.version]
    /\ queue' = Tail(queue)
    /\ latest' = combined'
    /\ pub' = "stored"
    /\ UNCHANGED <<closing, receivers, changed>>

\* latest_channel.send(()) after a summary.
TellChange ==
    /\ pub = "stored"
    /\ pub' = "running"
    /\ changed' = receivers
    /\ UNCHANGED <<queue, combined, latest, closing, receivers>>

\* shutdown_rx.recv() wins the select: the cell takes the final error.
Stop ==
    /\ pub = "running" /\ closing
    /\ closing' = FALSE
    /\ latest' = Stopped
    /\ pub' = "stopping"
    /\ UNCHANGED <<queue, combined, receivers, changed>>

\* latest_channel.send(()) after the final error, then the queue is closed.
Finish ==
    /\ pub = "stopping"
    /\ pub' = "stopped"
    /\ changed' = receivers
    /\ UNCHANGED <<queue, combined, latest, closing, receivers>>

\* watch_latest(): a new receiver has seen every past change.
NewReceiver(st) ==
    /\ receivers' = receivers \cup {st}
    /\ UNCHANGED <<queue, combined, latest, pub, closing, changed>>

\* rx.changed() returns and marks the change seen.
SeeChange(st) ==
    /\ st \in changed
    /\ changed' = changed \ {st}
    /\ UNCHANGED <<queue, combined, latest, pub, closing, receivers>>

\* The receiver is dropped.
DropReceiver(st) ==
    /\ receivers' = receivers \ {st}
    /\ changed' = changed \ {st}
    /\ UNCHANGED <<queue, combined, latest, pub, closing>>

PublisherStep == Combine \/ TellChange \/ Stop \/ Finish

=============================================================================
