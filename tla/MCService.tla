------------------------------ MODULE MCService ------------------------------
(***************************************************************************)
(* A small instance of Service for TLC.                                    *)
(***************************************************************************)
EXTENDS Service

CONSTANTS w1, w2, c1, c2

=============================================================================
