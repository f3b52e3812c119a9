---------------------------- MODULE MCMigration ----------------------------
(***************************************************************************)
(* Migration for TLC: every earlier database, opened and killed at will,   *)
(* without and with failing statements.                                    *)
(***************************************************************************)
EXTENDS Migration
=============================================================================
