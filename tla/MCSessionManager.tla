--------------------------- MODULE MCSessionManager ---------------------------
(* Small instances of SessionManager for TLC. *)
EXTENDS SessionManager

CONSTANTS t1, t2
===============================================================================
