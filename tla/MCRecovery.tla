----------------------------- MODULE MCRecovery -----------------------------
(* Small instances of Recovery for TLC.                                      *)
EXTENDS Recovery, TLC

CONSTANTS o1, o2

MCSymmetry == Permutations(Owners)
=============================================================================
