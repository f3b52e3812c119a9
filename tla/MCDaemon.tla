------------------------------ MODULE MCDaemon ------------------------------
(***************************************************************************)
(* Daemon for TLC, with the program's own backoff times: 5, 10, ..., 160   *)
(* and 300 seconds.                                                        *)
(***************************************************************************)
EXTENDS Daemon
=============================================================================
