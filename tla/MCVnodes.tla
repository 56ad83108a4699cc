------------------------------- MODULE MCVnodes -------------------------------
(* What a mount does for its vnodes, in one run: names and inodes, or the    *)
(* contents of files.  part is chosen at the start: the parts share no       *)
(* state, so that each is checked with the other at rest.                    *)
EXTENDS MCNamespace, MCFile

VARIABLE part
vnodesVars == <<nsVars, fileVars, part>>

VnodesInit == NsInit /\ FileInit /\ part \in {"names", "data"}

VnodesNext ==
    /\ UNCHANGED part
    /\ \/ part = "names" /\ NsNext /\ UNCHANGED fileVars
       \/ part = "data" /\ FileNext /\ UNCHANGED nsVars

VnodesSpec == VnodesInit /\ [][VnodesNext]_vnodesVars
===============================================================================
