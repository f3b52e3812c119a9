---------------------------- MODULE MCDashboard -----------------------------
(***************************************************************************)
(* Dashboard for TLC: pages of two events and up to six events, so that a  *)
(* list ends in a full, a short or an empty page; up to seven samples,     *)
(* thinned out to three points.                                            *)
(***************************************************************************)
EXTENDS Dashboard
=============================================================================
