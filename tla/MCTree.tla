-------------------------------- MODULE MCTree --------------------------------
(* hammer2_chain.c in one run: the tree of chains of an inode while it is    *)
(* changed and flushed, or one of its block arrays, or the lock and the data *)
(* of one chain.  part is chosen at the start: the parts share no state, so  *)
(* that each is checked with the others at rest.                             *)
EXTENDS MCChain, BlockTable, MCLock
MCTableRefs == {<<0, 0>>, <<1, 1>>, <<2, 2>>, <<4, 7>>, <<5, 5>>, <<8, 8>>}

VARIABLE part
treeVars == <<chainVars, tableVars, lockVars, part>>

TreeInit == ChainInit /\ TableInit /\ LockInit /\ part \in {"chains", "table", "lock"}

TreeNext ==
    /\ UNCHANGED part
    /\ \/ part = "chains" /\ ChainNext /\ UNCHANGED <<tableVars, lockVars>>
       \/ part = "table" /\ TableNext /\ UNCHANGED <<chainVars, lockVars>>
       \/ part = "lock" /\ LockNext /\ UNCHANGED <<chainVars, tableVars>>

TreeSpec == TreeInit /\ [][TreeNext]_treeVars
===============================================================================
