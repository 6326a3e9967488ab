----------------------------- MODULE OrderBook -----------------------------
(***************************************************************************)
(* The aggregated order book of crates/aggserver/src/service/model.rs: the *)
(* publisher keeps the last snapshot of every exchange in its own slot     *)
(* (CombinedSummary) and after each one computes the summary its clients   *)
(* will see (to_proto).                                                    *)
(*                                                                         *)
(* Prices and amounts are f64 in the code; here they are integers, and a   *)
(* price may be NaN, which the exchange feeds let through ("NaN" parses)   *)
(* and to_proto files under the key 0.0; an amount that is not a number is *)
(* dropped like one of zero.  The text of a message is left out, what its  *)
(* parser reads of it is kept: the entries of both sides.  Nothing checks  *)
(* that they are sorted or that a price comes once, nor that the clock     *)
(* which stamps them never goes back, and nothing here assumes it.         *)
(***************************************************************************)
EXTENDS SequencesExt

CONSTANTS
    Sources,    \* the exchanges
    N,          \* the depth of the book
    NaN,        \* not a number
    Messages,   \* what an exchange may send
    Times,      \* what the clock may show when a message arrives
    MaxUpdates  \* bound on the snapshots of one behaviour

Sides == {"bids", "asks"}

Entry == [price : Int \cup {NaN}, amount : Int]

ASSUME OrderBookAssumption ==
    /\ N \in Nat \ {0}
    /\ NaN \notin Int
    /\ IsFiniteSet(Sources)
    /\ Messages \subseteq [bids : Seq(Entry), asks : Seq(Entry)]
    /\ Times \subseteq Nat
    /\ MaxUpdates \in Nat

VARIABLES
    messages,   \* history: the last message of each exchange, for the properties
    sources,    \* CombinedSummary::sources, the last snapshot of each exchange
    summary,    \* the last result of to_proto
    panicked,   \* the publisher's task has ended in a panic
    updates     \* how many snapshots were combined (bounds the behaviours)

vars == <<messages, sources, summary, panicked, updates>>

----------------------------------------------------------------------------
(* Prices as keys of the maps: BidKeyedPrice and AskKeyedPrice.            *)

Key(p) == IF p = NaN THEN 0 ELSE p

Better(side, k, l) == IF side = "bids" THEN k > l ELSE k < l

Positive(p) == p # NaN /\ p > 0

----------------------------------------------------------------------------
(* The snapshots of one exchange: ContributorSnapshot.                     *)

EmptyMessage == [bids |-> <<>>, asks |-> <<>>]

EmptySnapshot == [bids |-> <<>>, asks |-> <<>>, time |-> 0]

IsEmpty(snapshot) == snapshot.bids = <<>> /\ snapshot.asks = <<>>

\* Mutant: one entry fewer than the book is deep.
IngestFewer(entries) ==
    FoldLeft(LAMBDA levels, q : IF q.amount > 0 THEN Append(levels, q) ELSE levels,
             <<>>, SubSeq(entries, 1, Min({N - 1, Len(entries)})))

\* The first N entries of the message, without those of amount zero.
Ingest(entries) ==
    FoldLeft(LAMBDA levels, q : IF q.amount > 0 THEN Append(levels, q) ELSE levels,
             <<>>, SubSeq(entries, 1, Min({N, Len(entries)})))

Snapshot(message, time) ==
    [bids |-> Ingest(message.bids), asks |-> Ingest(message.asks), time |-> time]

----------------------------------------------------------------------------
(* CombinedSummary::to_proto.                                              *)

\* The levels of one side that the exchanges contribute.  Two equal levels of
\* one exchange are two levels: "at" tells them apart (it is not in the code).
Contributed(src, side) ==
    UNION {{[exchange |-> s, at |-> i, price |-> src[s][side][i].price,
             amount |-> src[s][side][i].amount] : i \in DOMAIN src[s][side]} : s \in Sources}

Keys(levels) == {Key(l.price) : l \in levels}

\* The entry of the map for one key.
Rung(levels, k) == {l \in levels : Key(l.price) = k}

\* Mutant: the vector of a key is taken for full one level too early.
HasRoomBelow(rung) == Cardinality(rung) < N

\* The fixed-size vector of a key holds its levels: one push more panics.
HasRoom(rung) == Cardinality(rung) <= N

Fits(src) ==
    \A side \in Sides : LET levels == Contributed(src, side)
                        IN  \A k \in Keys(levels) : HasRoom(Rung(levels, k))

\* The elements of S, sorted: those that tie in some order.
SortedSeq(S, Before(_, _)) == CHOOSE q \in SetToSeqs(S) : IsSorted(q, Before)

\* The first N keys in the order of the map.
BestKeys(side, levels) ==
    LET keys == SortedSeq(Keys(levels), LAMBDA k, l : Better(side, k, l))
    IN  SubSeq(keys, 1, Min({N, Len(keys)}))

\* Mutant: the levels of one price are left as the exchanges gave them.
UnsortedRung(rung) == SetToSeq(rung)

SortedRung(rung) == SortedSeq(rung, LAMBDA a, b : a.amount >= b.amount)

\* Mutant: the side is cut at N entries.
LadderOfEntries(src, side) ==
    LET levels == Contributed(src, side)
        keys == BestKeys(side, levels)
        ladder == FlattenSeq([i \in DOMAIN keys |-> SortedRung(Rung(levels, keys[i]))])
    IN  SubSeq(ladder, 1, Min({N, Len(ladder)}))

Ladder(src, side) ==
    LET levels == Contributed(src, side)
        keys == BestKeys(side, levels)
    IN  FlattenSeq([i \in DOMAIN keys |-> SortedRung(Rung(levels, keys[i]))])

\* Mutant: no look at the prices' sign.
SpreadUnguarded(bids, asks) ==
    IF bids # <<>> /\ asks # <<>> /\ NaN \notin {bids[1].price, asks[1].price}
    THEN asks[1].price - bids[1].price
    ELSE NaN

SpreadFrom(bids, asks) ==
    IF bids # <<>> /\ asks # <<>>
        /\ Positive(bids[1].price) /\ Positive(asks[1].price)
    THEN asks[1].price - bids[1].price
    ELSE NaN

Contributors(src) == {s \in Sources : ~IsEmpty(src[s])}

\* Mutant: the time of the exchange that comes first.
OldestTime(src) ==
    IF Contributors(src) = {} THEN 0 ELSE Min({src[s].time : s \in Contributors(src)})

LatestTime(src) == Max({0} \cup {src[s].time : s \in Contributors(src)})

ToProto(src) ==
    LET bids == Ladder(src, "bids")
        asks == Ladder(src, "asks")
    IN  [bids |-> bids, asks |-> asks, spread |-> SpreadFrom(bids, asks),
         arrival |-> LatestTime(src)]

----------------------------------------------------------------------------
Init ==
    /\ messages = [s \in Sources |-> EmptyMessage]
    /\ sources = [s \in Sources |-> EmptySnapshot]
    /\ summary = ToProto(sources)
    /\ panicked = FALSE
    /\ updates = 0

\* The exchange's task reads a message, update_snapshot replaces its slot.
Store(s, message, time) ==
    /\ messages' = [messages EXCEPT ![s] = message]
    /\ sources' = [sources EXCEPT ![s] = Snapshot(message, time)]

\* Mutant: the summary is computed before the snapshot is stored.
UpdateLate(s) ==
    /\ ~panicked
    /\ updates < MaxUpdates
    /\ \E message \in Messages, time \in Times : Store(s, message, time)
    /\ summary' = ToProto(sources)
    /\ updates' = updates + 1
    /\ UNCHANGED panicked

\* One round of Publisher::local_run.  When to_proto panics the task ends, and
\* the summary stored last remains.
Update(s) ==
    /\ ~panicked
    /\ updates < MaxUpdates
    /\ \E message \in Messages, time \in Times : Store(s, message, time)
    /\ \/ /\ Fits(sources')
          /\ summary' = ToProto(sources')
          /\ UNCHANGED panicked
       \/ /\ ~Fits(sources')
          /\ panicked' = TRUE
          /\ UNCHANGED summary
    /\ updates' = updates + 1

Next == \E s \in Sources : Update(s)

Spec == Init /\ [][Next]_vars

----------------------------------------------------------------------------
TypeOK ==
    /\ messages \in [Sources -> Messages \cup {EmptyMessage}]
    /\ sources \in [Sources -> [bids : Seq(Entry), asks : Seq(Entry), time : Times \cup {0}]]
    /\ panicked \in BOOLEAN
    /\ ~panicked => \A side \in Sides :
                       ToSet(summary[side]) \subseteq Contributed(sources, side)
    /\ updates \in 0..MaxUpdates

\* The levels that fewer than N distinct better prices of them all precede.
Top(side, levels) ==
    {l \in levels : Cardinality({k \in Keys(levels) : Better(side, k, Key(l.price))}) < N}

\* What the exchanges' last messages quote on a side, uncut.
Quoted(side) == {l \in Contributed(messages, side) : l.amount > 0}

\* The exchange's last message has the best price first and each price once (what
\* ContributorLevels assumes), and no zero among the N entries that are read.
BestFirst(s, side) ==
    LET entries == messages[s][side]
    IN  /\ \A i, j \in DOMAIN entries :
              i < j => Better(side, Key(entries[i].price), Key(entries[j].price))
        /\ \A i \in DOMAIN entries : i <= N => entries[i].amount > 0

\* A side of the summary is the top of the exchanges' snapshots, each level once,
\* whatever their order.  And when the exchanges send their best first, it is the
\* top of their whole messages: reading N entries of each message loses no level
\* that belongs to the merged top and shows none that does not.
LadderExact ==
    ~panicked => \A side \in Sides :
        /\ ToSet(summary[side]) = Top(side, Contributed(sources, side))
        /\ IsInjective(summary[side])
        /\ (\A s \in Sources : BestFirst(s, side)) =>
              ToSet(summary[side]) = Top(side, Quoted(side))

\* The best price comes first and, at one price, the largest amount.
LadderSorted ==
    \A side \in Sides : \A i, j \in DOMAIN summary[side] : i < j =>
        LET a == summary[side][i]
            b == summary[side][j]
        IN  \/ Better(side, Key(a.price), Key(b.price))
            \/ Key(a.price) = Key(b.price) /\ a.amount >= b.amount

\* The spread is the difference of the best levels of the exchanges' snapshots,
\* in whatever order they came, negative when the exchanges' books cross, and it
\* is a number exactly when both sides have a level and the best of both have a
\* positive price.
SpreadOfBest ==
    ~panicked =>
        LET bids == Keys(Contributed(sources, "bids"))
            asks == Keys(Contributed(sources, "asks"))
        IN  IF bids # {} /\ asks # {} /\ Max(bids) > 0 /\ Min(asks) > 0
            THEN summary.spread = Min(asks) - Max(bids)
            ELSE summary.spread = NaN

\* The publisher panics on a price's vector only when one exchange repeats that
\* price within the N entries read of a message: more than N times divided by the
\* number of exchanges.  Exchanges that agree on a price never overflow it.
OverflowOnlyByRepeats ==
    panicked => \E side \in Sides, s \in Sources : \E k \in Keys(Contributed(sources, side)) :
        N < Cardinality(Sources) *
            Cardinality({i \in DOMAIN sources[s][side] : Key(sources[s][side][i].price) = k})

\* The snapshot of one exchange takes a level of another out of the summary
\* only by putting N better prices before it.
OthersOnlyDisplaced ==
    [][\A side \in Sides, s \in Sources : sources'[s] = sources[s] =>
        \A l \in ToSet(summary[side]) :
            \/ l.exchange # s
            \/ l \in ToSet(summary'[side])
            \/ N <= Cardinality({k \in Keys(ToSet(summary'[side])) :
                                    Better(side, k, Key(l.price))})]_vars

\* The arrival time of the summary goes back only by the exchange that gave it:
\* its book was emptied, or the clock was set back when its next message came.
\* A late message of another exchange never takes it back.
ArrivalGoesBackByItsOwner ==
    [][summary'.arrival < summary.arrival =>
        \E s \in Contributors(sources) :
            /\ sources[s].time = summary.arrival
            /\ IsEmpty(sources'[s]) \/ sources'[s].time < sources[s].time]_vars

----------------------------------------------------------------------------
\* "Publishes the aggregated top 10 bids and asks" (README), "Maximum depth of
\* the order book" (the parameter N): a side has at most N entries.
DepthLimit == \A side \in Sides : Len(summary[side]) <= N

=============================================================================
