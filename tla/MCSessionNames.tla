---------------------------- MODULE MCSessionNames --------------------------
(***************************************************************************)
(* A small instance of SessionNames.                                       *)
(***************************************************************************)
EXTENDS SessionNames
=============================================================================
