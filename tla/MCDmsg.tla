------------------------------- MODULE MCDmsg -------------------------------
EXTENDS Dmsg
CONSTANTS k1, s1, u1
MCSubParent == [u \in SSubs |-> k1]
=============================================================================
