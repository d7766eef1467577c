--------------------------- MODULE MCRegistration ---------------------------
(***************************************************************************)
(* Two sessions, so that a PASS may change the session, one guild, and two *)
(* of the capabilities.                                                    *)
(***************************************************************************)
EXTENDS Registration

MCCapabilities == {"echo-message", "server-time"}
=============================================================================
