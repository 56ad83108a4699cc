----------------------------- MODULE MCBulkfree -----------------------------
(* Small instances of Bulkfree for TLC.                                      *)
EXTENDS Bulkfree, TLC

CONSTANTS o1, o2

MCSymmetry == Permutations(DataOwners) \cup Permutations(Owners \ DataOwners)
=============================================================================
