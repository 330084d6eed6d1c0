-------------------------- MODULE MCSessionLifetime --------------------------
(***************************************************************************)
(* A small instance of SessionLifetime for TLC.                            *)
(***************************************************************************)
EXTENDS SessionLifetime, TLC

CONSTANTS r1, r2

Symmetry == Permutations(Logouts)
=============================================================================
