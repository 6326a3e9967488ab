---------------------------- MODULE FeedOpening ----------------------------
(***************************************************************************)
(* What Manager::open does to give a symbol its feed, step by step, and    *)
(* what it leaves behind when it cannot: the maps of instruments and of    *)
(* source factories (crates/aggcommon/src/instrument.rs, service/model.rs, *)
(* sources/factories.rs), the publisher that is started first, and the     *)
(* exchange tasks that are started one after the other while the           *)
(* registry's mutex is held.                                               *)
(*                                                                         *)
(* A feed is named by the call that opened it.  FeedManager has the life   *)
(* of a feed in detail and an open in one step; here it is the other way   *)
(* round.                                                                  *)
(***************************************************************************)
EXTENDS Exchanges, SequencesExt

CONSTANTS
    Calls,          \* the calls of the service that ask for a feed
    Symbols,        \* the symbols they ask for
    Instruments,    \* the configured instruments, a sequence
    Factories,      \* the configured factories, a sequence
    NoCall,
    NoSymbol

\* A sequence of pairs collected into a map: of equal keys the later one stays.
Collect(pairs) ==
    FoldLeft(LAMBDA map, pair : [k \in DOMAIN map \cup {pair.key} |->
                                    IF k = pair.key THEN pair.value ELSE map[k]],
             <<>>, pairs)

\* The symbol an instrument has at each of its sources.
SourceMapping(instrument) == Collect(instrument.sources)

\* InstrumentMap, symbol -> source mapping.
InstrumentMap ==
    Collect([i \in DOMAIN Instruments |->
                [key |-> Instruments[i].symbol, value |-> SourceMapping(Instruments[i])]])

\* SummarySourceFactoryMap: a factory returns a source or an error.
FactoryMap == Collect(Factories)

ASSUME OpeningAssumption ==
    /\ NoCall \notin Calls
    /\ NoSymbol \notin Symbols
    /\ Instruments \in Seq([symbol : Symbols, sources : Seq([key : Sources, value : STRING])])
    /\ Factories \in Seq([key : Sources, value : BOOLEAN])

VARIABLES
    registry,       \* Manager::feeds
    isShuttingDown, \* Manager::is_shutting_down
    opening,        \* where the open of each call stands
    wanted,         \* the symbol it asks for
    pending,        \* the sources it has still to create
    feedOf,         \* the feed it was given
    tasks,          \* the exchange tasks that were not told to end, or have not
    publishers      \* the feeds whose publisher was not told to

openingVars == <<registry, isShuttingDown, opening, wanted, pending, feedOf,
                 tasks, publishers>>

OpeningTypeOK ==
    /\ registry \in [Symbols -> Calls \cup {NoCall}]
    /\ isShuttingDown \in BOOLEAN
    /\ opening \in [Calls -> {"none", "waiting", "creating", "opened",
                              "refused", "failed", "cancelled"}]
    /\ wanted \in [Calls -> Symbols \cup {NoSymbol}]
    /\ pending \in [Calls -> SUBSET Sources]
    /\ feedOf \in [Calls -> Calls \cup {NoCall}]
    /\ \A t \in tasks : t.feed \in Calls /\ t.source \in Sources
    /\ publishers \subseteq Calls

OpeningInit ==
    /\ registry = [s \in Symbols |-> NoCall]
    /\ isShuttingDown = FALSE
    /\ opening = [c \in Calls |-> "none"]
    /\ wanted = [c \in Calls |-> NoSymbol]
    /\ pending = [c \in Calls |-> {}]
    /\ feedOf = [c \in Calls |-> NoCall]
    /\ tasks = {}
    /\ publishers = {}

\* Mutant: the mutex is given back after the look-up.
LockGivenBack == FALSE

\* The mutex of the registry is held from the look-up to the insertion.
Locked == \E c \in Calls : opening[c] = "creating"

OpenGoto(c, from, to) ==
    /\ opening[c] = from
    /\ opening' = [opening EXCEPT ![c] = to]

\* open(symbol) is called.
AskFor(c, s) ==
    /\ OpenGoto(c, "none", "waiting")
    /\ wanted' = [wanted EXCEPT ![c] = s]
    /\ UNCHANGED <<registry, isShuttingDown, pending, feedOf, tasks, publishers>>

\* Mutant: is_shutting_down is not tested.
AcceptingAlways == TRUE

Accepting == ~isShuttingDown

\* The manager is shutting down, or there is no instrument for the symbol.
Refuse(c) ==
    /\ OpenGoto(c, "waiting", "refused")
    /\ ~Locked
    /\ \/ ~Accepting
       \/ registry[wanted[c]] = NoCall /\ wanted[c] \notin DOMAIN InstrumentMap
    /\ UNCHANGED <<registry, isShuttingDown, wanted, pending, feedOf, tasks,
                   publishers>>

Reuse(c) ==
    /\ OpenGoto(c, "waiting", "opened")
    /\ ~Locked
    /\ Accepting
    /\ registry[wanted[c]] # NoCall
    /\ feedOf' = [feedOf EXCEPT ![c] = registry[wanted[c]]]
    /\ UNCHANGED <<registry, isShuttingDown, wanted, pending, tasks, publishers>>

\* The instrument is found and the publisher started.
Begin(c) ==
    /\ OpenGoto(c, "waiting", "creating")
    /\ ~Locked
    /\ Accepting
    /\ registry[wanted[c]] = NoCall
    /\ wanted[c] \in DOMAIN InstrumentMap
    /\ pending' = [pending EXCEPT ![c] = DOMAIN InstrumentMap[wanted[c]]]
    /\ publishers' = publishers \cup {c}
    /\ UNCHANGED <<registry, isShuttingDown, wanted, feedOf, tasks>>

\* Mutant: what has no factory is left out.
CreatableIfAny(src) == src \in DOMAIN FactoryMap => FactoryMap[src]

\* There is a factory for the source, and it succeeds.
Creatable(src) == src \in DOMAIN FactoryMap /\ FactoryMap[src]

\* One round of create_summary_sources: the sources come in any order.
CreateSource(c, src) ==
    /\ opening[c] = "creating"
    /\ src \in pending[c]
    /\ Creatable(src)
    /\ pending' = [pending EXCEPT ![c] = @ \ {src}]
    /\ tasks' = tasks \cup {[feed |-> c, source |-> src,
                              symbol |-> InstrumentMap[wanted[c]][src]]}
    /\ UNCHANGED <<registry, isShuttingDown, opening, wanted, feedOf, publishers>>

\* The error leaves open: the senders of the feed's shutdown are dropped.
CreateFails(c, src) ==
    /\ src \in pending[c]
    /\ ~Creatable(src)
    /\ OpenGoto(c, "creating", "failed")
    /\ pending' = [pending EXCEPT ![c] = {}]
    /\ UNCHANGED <<registry, isShuttingDown, wanted, feedOf, tasks, publishers>>

Insert(c) ==
    /\ pending[c] = {}
    /\ OpenGoto(c, "creating", "opened")
    /\ registry' = [registry EXCEPT ![wanted[c]] = c]
    /\ feedOf' = [feedOf EXCEPT ![c] = c]
    /\ UNCHANGED <<isShuttingDown, wanted, pending, tasks, publishers>>

\* The call is dropped while it waits for the mutex, the only await of open.
Cancel(c) ==
    /\ OpenGoto(c, "waiting", "cancelled")
    /\ UNCHANGED <<registry, isShuttingDown, wanted, pending, feedOf, tasks,
                   publishers>>

\* Mutant: a sender of the feed's shutdown outlives the error.
SendersKept(f) == FALSE

\* The senders of the feed's shutdown were local to open and start_summary_sources.
SendersGone(f) == opening[f] = "failed"

\* recv() fails in an exchange task, which takes that for the shutdown.
OrphanEnds(t) ==
    /\ SendersGone(t.feed)
    /\ tasks' = tasks \ {t}
    /\ UNCHANGED <<registry, isShuttingDown, opening, wanted, pending, feedOf,
                   publishers>>

OpenStep(c) ==
    \/ Refuse(c)
    \/ Reuse(c)
    \/ Begin(c)
    \/ \E src \in Sources : CreateSource(c, src) \/ CreateFails(c, src)
    \/ Insert(c)

=============================================================================
