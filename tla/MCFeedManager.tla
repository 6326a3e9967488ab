--------------------------- MODULE MCFeedManager ---------------------------
(***************************************************************************)
(* The instance of FeedManager that TLC checks: "eth" has two Feed objects *)
(* (a feed and its replacement), "btc" one, "bad" cannot be opened.        *)
(***************************************************************************)
EXTENDS FeedManager, TLC

CONSTANTS eth, btc, bad, feed1, feed2, feed3

MCSymbolOf == [f \in Feeds |-> IF f = feed3 THEN btc ELSE eth]

\* Streams are interchangeable, and so are the two feeds of "eth".
Symmetry == Permutations(Streams) \cup Permutations({feed1, feed2})

=============================================================================
