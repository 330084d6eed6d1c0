------------------------------ MODULE MCAuthApi ------------------------------
(***************************************************************************)
(* Small instances of AuthApi for TLC.                                     *)
(***************************************************************************)
EXTENDS AuthApiApart, TLC

CONSTANTS u1, d1, d2, p1, p2, r1, r2

\* Devices, passwords and slots are only compared for equality.
Symmetry == Permutations(Devices) \union Permutations(Passwords) \union Permutations(Requests)
=============================================================================
