----------------------------- MODULE MCAdaptive -----------------------------
(***************************************************************************)
(* The adaptive engine over the elements of MCEngine.  With thresholds of  *)
(* two rules, two tags and a fanout of one, indexing begins at a second    *)
(* tag and ends at a tag's second rule, so that few rules make the         *)
(* strategy turn both ways.                                                *)
(***************************************************************************)
EXTENDS AdaptiveEngine, MCEngine
=============================================================================
