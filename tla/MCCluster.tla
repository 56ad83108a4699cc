------------------------------ MODULE MCCluster ------------------------------
(* A PFS and its nodes, in one run: the operations spread over the nodes, or *)
(* the mounts that bring the nodes together, or the thread that brings a     *)
(* slave up to the master.  part is chosen at the start: the parts share no  *)
(* state, so that each is checked with the others at rest.                   *)
EXTENDS MCXop, MCPfs, MCSynchro

VARIABLE part
clusterVars == <<xopVars, pfsVars, syncVars, part>>

ClusterInit == XopInit /\ PfsInit /\ SyncInit /\ part \in {"xops", "mounts", "slave"}

ClusterNext ==
    /\ UNCHANGED part
    /\ \/ part = "xops" /\ XopNext /\ UNCHANGED <<pfsVars, syncVars>>
       \/ part = "mounts" /\ PfsNext /\ UNCHANGED <<xopVars, syncVars>>
       \/ part = "slave" /\ SyncNext /\ UNCHANGED <<xopVars, pfsVars>>

ClusterSpec == /\ ClusterInit /\ [][ClusterNext]_clusterVars
               /\ part = "xops" => XopFairness
===============================================================================
