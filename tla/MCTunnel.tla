-------------------------------- MODULE MCTunnel ------------------------------
(* Small instances of Tunnel for TLC. *)
EXTENDS Tunnel, TLC

CONSTANTS c1, c2, elsewhere, s1, s2

\* The clients run the same program and session ids are only compared: permuting
\* either changes nothing.
ModelSymmetry == Permutations(Clients) \cup Permutations(Ids)
===============================================================================
