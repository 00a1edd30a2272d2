---------------------------- MODULE MCLifecycle ----------------------------
(***************************************************************************)
(* Values for the constants of Lifecycle: the daemon, and a program that   *)
(* embeds the server, with a health check and automatic reloads.           *)
(***************************************************************************)
EXTENDS Lifecycle
CONSTANTS d1, e1

MCDaemon   == {d1}
MCEmbedded == {e1}
MCHealth   == {e1}
MCTicker   == {e1}
=============================================================================
