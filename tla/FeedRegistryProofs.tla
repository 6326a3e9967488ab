------------------------- MODULE FeedRegistryProofs -------------------------
(***************************************************************************)
(* What every implementation of FeedRegistry inherits: the manager with    *)
(* its tasks and counters (FeedManager) and the server's process with the  *)
(* steps of an open (ServerProcess) both implement it.                     *)
(***************************************************************************)
EXTENDS FeedRegistry, TLAPS

\* Symbols never share a feed, a feed that has left is not registered again, only
\* such a feed is stopped, and a shut registry is empty.
THEOREM Promised ==
  ASSUME NoFeed \notin Feeds
  PROVE  Spec => []FeedsApart
<1>1. Init => FeedsApart
  BY DEF Init, FeedsApart, Registered
<1>2. FeedsApart /\ [Next]_vars => FeedsApart'
  <2> SUFFICES ASSUME FeedsApart, [Next]_vars PROVE FeedsApart'
    OBVIOUS
  <2> USE DEF FeedsApart, Registered
  <2>1. ASSUME NEW f \in Feeds, NEW s \in Symbols, Register(f, s) PROVE FeedsApart'
    BY <2>1 DEF Register
  <2>2. ASSUME NEW f \in Feeds, NEW s \in Symbols, Retire(f, s) PROVE FeedsApart'
    BY <2>2 DEF Retire
  <2>3. ASSUME NEW f \in Feeds, Stop(f) PROVE FeedsApart'
    BY <2>3 DEF Stop
  <2>4. CASE Shut
    BY <2>4 DEF Shut
  <2>5. CASE UNCHANGED vars
    BY <2>5 DEF vars
  <2> QED
    BY <2>1, <2>2, <2>3, <2>4, <2>5 DEF Next
<1> QED
  BY <1>1, <1>2, PTL DEF Spec

=============================================================================
