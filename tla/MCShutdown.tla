----------------------------- MODULE MCShutdown -----------------------------
(***************************************************************************)
(* Shutdown for TLC: the two goroutines of the daemon, two handlers.       *)
(***************************************************************************)
EXTENDS Shutdown
=============================================================================
