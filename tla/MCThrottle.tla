------------------------------ MODULE MCThrottle ------------------------------
(* Two files with a writer each, on the same mount or not.                   *)
EXTENDS Throttle
CONSTANTS p1, p2, f1, f2, w1, w2
MCPfsOf == [f \in Files |-> IF f = f1 \/ p2 \notin Pfss THEN p1 ELSE p2]
MCFileOf == [w \in Writers |-> IF w = w1 THEN f1 ELSE f2]
===============================================================================
