---------------------------- MODULE MCNamespace ----------------------------
(* A mount with a subdirectory, a file in it and one number to give out.     *)
EXTENDS Namespace
CONSTANTS p1, p2
MCHash == [n \in Names |-> 0]
E(k, n, i) == [lhc |-> k, name |-> n, inum |-> i]
MCImage == [nlinks |-> [i \in Inums |-> IF i < 4 THEN 1 ELSE -1],
            dirs |-> {1, 2},
            dirent |-> [i \in Inums |-> CASE i = 1 -> {E(1, "a", 2)}
                          [] i = 2 -> {E(1, "a", 3)} [] OTHER -> {}],
            tid |-> 4]
MCOps == [p \in Procs |-> Ops]
MCLinkOps == [p \in Procs |-> IF p = p1 THEN {"link"} ELSE {"remove", "close"}]
=============================================================================
