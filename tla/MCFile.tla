------------------------------- MODULE MCFile -------------------------------
(* One file of two blocks and one of one block.                              *)
EXTENDS FileData
CONSTANTS f1, f2
MCSizeMax == [f \in Files |-> IF f = f1 THEN 3 ELSE 2]
MCWrites == [f \in Files |-> IF f = f1 THEN {<<0, 1, 1>>, <<0, 2, 0>>, <<1, 3, 1>>}
                             ELSE {<<0, 2, 1>>}]
MCSizes == [f \in Files |-> IF f = f1 THEN {0, 3} ELSE {}]
=============================================================================
