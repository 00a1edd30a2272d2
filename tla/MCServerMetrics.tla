-------------------------- MODULE MCServerMetrics --------------------------
(***************************************************************************)
(* The counted server over the values of MCServer.                         *)
(***************************************************************************)
EXTENDS ServerMetrics, MCServer
=============================================================================
