------------------------------- MODULE MCSynchro -------------------------------
EXTENDS Synchro
===============================================================================
