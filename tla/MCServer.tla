-------------------------------- MODULE MCServer ------------------------------
(* Small instances of Server for TLC. *)
EXTENDS Server, TLC

CONSTANTS c1, c2, c3

\* The clients run the same program: permuting them changes nothing.
ClientSymmetry == Permutations(Clients)
===============================================================================
