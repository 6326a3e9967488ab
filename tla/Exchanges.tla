----------------------------- MODULE Exchanges -----------------------------
(***************************************************************************)
(* The exchanges an instrument is quoted on: SourceId in                   *)
(* crates/aggcommon/src/sources.rs.                                        *)
(***************************************************************************)
EXTENDS FiniteSets

CONSTANT Sources

ASSUME SourcesAssumption == IsFiniteSet(Sources)

=============================================================================
