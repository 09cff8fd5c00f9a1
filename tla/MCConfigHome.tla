---------------------------- MODULE MCConfigHome ----------------------------
(* A small instance of ConfigHome for TLC. *)
EXTENDS ConfigHome

CONSTANTS p1, p2, c1, c2, n1, n2, n3, default

MCFork(n, c) == n3
MCSameName(c) == IF c = c1 THEN n1 ELSE n2
=============================================================================
