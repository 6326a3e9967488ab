--------------------------- MODULE ConflatedFeed ---------------------------
(***************************************************************************)
(* What a feed promises its clients about the order of what they see: an   *)
(* exchange produces a sequence of order books, and every client sees some *)
(* of them, never one that was not produced and never an older one after a *)
(* newer one, for each of the exchanges.                                   *)
(***************************************************************************)
EXTENDS Integers, Exchanges

CONSTANT Streams

VARIABLES
    newest,     \* how many books each exchange has produced
    seen        \* the number of the book each client saw last

vars == <<newest, seen>>

Init ==
    /\ newest = [s \in Sources |-> 0]
    /\ seen = [st \in Streams |-> [s \in Sources |-> 0]]

Produce(s) ==
    /\ newest' = [newest EXCEPT ![s] = @ + 1]
    /\ UNCHANGED seen

Deliver(st) ==
    /\ seen' = [seen EXCEPT ![st] = seen'[st]]
    /\ \A s \in Sources : seen[st][s] <= seen'[st][s] /\ seen'[st][s] <= newest[s]
    /\ UNCHANGED newest

Next ==
    \/ \E s \in Sources : Produce(s)
    \/ \E st \in Streams : Deliver(st)

Spec == Init /\ [][Next]_vars

=============================================================================
