---------------------------- MODULE FeedRegistry ----------------------------
(***************************************************************************)
(* What the manager of crates/aggserver/src/service/manager.rs promises    *)
(* about the feeds of its registry, without its tasks, counters and locks: *)
(* a symbol has at most one feed at a time, a feed that leaves the         *)
(* registry never comes back, it is told to stop at most once and only     *)
(* after it has left, and nothing is registered once the registry is shut. *)
(***************************************************************************)
CONSTANTS Symbols, Feeds, NoFeed

VARIABLES
    registry,   \* symbol -> its feed
    retired,    \* feeds that have left the registry
    stopped,    \* feeds that have been told to stop
    shut        \* the registry takes no feed any more

vars == <<registry, retired, stopped, shut>>

Registered == {f \in Feeds : \E s \in Symbols : registry[s] = f}

Init ==
    /\ registry = [s \in Symbols |-> NoFeed]
    /\ retired = {}
    /\ stopped = {}
    /\ shut = FALSE

\* A feed is registered once in its life, for one symbol.
Register(f, s) ==
    /\ ~shut
    /\ registry[s] = NoFeed
    /\ f \notin Registered \cup retired
    /\ registry' = [registry EXCEPT ![s] = f]
    /\ UNCHANGED <<retired, stopped, shut>>

Retire(f, s) ==
    /\ registry[s] = f
    /\ registry' = [registry EXCEPT ![s] = NoFeed]
    /\ retired' = retired \cup {f}
    /\ UNCHANGED <<stopped, shut>>

\* Shutting the registry retires every feed it holds.
Shut ==
    /\ ~shut
    /\ shut' = TRUE
    /\ registry' = [s \in Symbols |-> NoFeed]
    /\ retired' = retired \cup Registered
    /\ UNCHANGED stopped

Stop(f) ==
    /\ f \in retired \ stopped
    /\ stopped' = stopped \cup {f}
    /\ UNCHANGED <<registry, retired, shut>>

Next ==
    \/ \E f \in Feeds, s \in Symbols : Register(f, s) \/ Retire(f, s)
    \/ \E f \in Feeds : Stop(f)
    \/ Shut

Spec == Init /\ [][Next]_vars

-----------------------------------------------------------------------------
\* What follows for any two moments and any two symbols: they never share a feed,
\* only a feed that has left is stopped, none is left when the registry is shut.
FeedsApart ==
    /\ registry \in [Symbols -> Feeds \cup {NoFeed}]
    /\ stopped \subseteq retired /\ retired \subseteq Feeds
    /\ Registered \cap retired = {}
    /\ \A s, t \in Symbols : registry[s] # NoFeed /\ registry[s] = registry[t] => s = t
    /\ shut => \A s \in Symbols : registry[s] = NoFeed

=============================================================================
