---------------------------- MODULE MCTransport ----------------------------
(***************************************************************************)
(* Transport for TLC: the poll goroutine, an HTTP handler, two descriptors *)
(* and two blocks of registers.                                            *)
(***************************************************************************)
EXTENDS Transport
=============================================================================
