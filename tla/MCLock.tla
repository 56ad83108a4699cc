-------------------------------- MODULE MCLock --------------------------------
EXTENDS ChainLock
CONSTANTS t1, t2, t3
=============================================================================
