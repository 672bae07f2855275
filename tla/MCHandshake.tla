------------------------------ MODULE MCHandshake -----------------------------
(* Small instances of Handshake for TLC. *)
EXTENDS Handshake, TLC

CONSTANTS c1, c2
===============================================================================
