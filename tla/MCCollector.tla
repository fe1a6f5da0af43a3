----------------------------- MODULE MCCollector -----------------------------
(***************************************************************************)
(* Collector on a small instance: two of the six sources of roots, which   *)
(* the collector treats alike.                                             *)
(***************************************************************************)
EXTENDS Collector

TwoSources == {"stack", "functions"}

=============================================================================
