----------------------------- MODULE MCRegistry -----------------------------
(* An instance of Registry for TLC.                                        *)
EXTENDS Registry, TLC

CONSTANTS w1, w2, i1

=============================================================================
