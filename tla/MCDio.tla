------------------------------- MODULE MCDio -------------------------------
(* Small instance of Dio for TLC.                                            *)
EXTENDS Dio

CONSTANTS t1, t2, b1, b2, d1, d2, d3
=============================================================================
