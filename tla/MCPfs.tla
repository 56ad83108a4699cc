--------------------------------- MODULE MCPfs ---------------------------------
EXTENDS Pfs, TLC
MCDevices == {"d1", "d2"}
MCLabels == <<"x", "y">>
Pfse(n, c, id) == [name |-> n, slot |-> 1, clid |-> c, id |-> id]
MCFormatted == [d \in MCDevices |->
    IF d = "d1" THEN {Pfse("x", "c1", 1), Pfse("y", "c2", 2)} ELSE {Pfse("x", "c1", 3)}]
===============================================================================
