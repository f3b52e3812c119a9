--------------------------- MODULE MCAggregation ---------------------------
(***************************************************************************)
(* Aggregation for TLC: days of two hours.  A database sees the daemon     *)
(* alone, only the one-shot jobs that README.md runs before the daemon's   *)
(* first start, or jobs of all kinds.                                      *)
(***************************************************************************)
EXTENDS Aggregation

MCUses == {{"daemon"}, {"backfill", "prune"}, Kinds}
=============================================================================
