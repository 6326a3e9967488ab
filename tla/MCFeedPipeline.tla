--------------------------- MODULE MCFeedPipeline ---------------------------
(***************************************************************************)
(* The instances of FeedPipeline that TLC checks.                          *)
(***************************************************************************)
EXTENDS FeedPipeline, TLC

=============================================================================
