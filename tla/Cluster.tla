------------------------------ MODULE Cluster ------------------------------
(***************************************************************************)
(* The nodes of a PFS and how their answers are weighed (hammer2_cluster.c *)
(* hammer2_cluster_check).  A node is an index of the cluster array; an    *)
(* answer slot holds the chain the node is at (its key, its modify_tid and *)
(* its error), or no chain: then CITEM_NULL tells the end of the node's    *)
(* scan from a node still in progress.                                     *)
(***************************************************************************)
EXTENDS Integers, FiniteSets, Sequences, SequencesExt

CONSTANTS Nodes,      \* indices of the cluster array, 1..n
          Masters,    \* those of PFSTYPE_MASTER; the others are slaves
          Keys,       \* keys of the chains a scan returns
          Tids,       \* modify_tids
          pfs_nmasters \* "total masters" of the PFS; nothing sets it, so 0

ASSUME ClusterAssumption ==
    /\ Nodes # {} /\ IsFiniteSet(Nodes) /\ Nodes = 1..Cardinality(Nodes)
    /\ Masters \subseteq Nodes
    /\ Keys \subseteq Nat /\ IsFiniteSet(Keys) /\ Keys # {}
    /\ Tids \subseteq Nat /\ IsFiniteSet(Tids) /\ Tids # {}
    /\ pfs_nmasters \in Nat

Errors == {"0", "EIO", "ENOENT", "ESRCH", "EDEADLK", "EINPROGRESS", "EABORT"}
KeyMax == 1 + Max(Keys)
TidMax == 1 + Max(Tids)

Chain == [key : Keys, tid : Tids, err : {"0", "EIO"}]
NoChain == [key |-> KeyMax, tid |-> 0, err |-> "0"]

\* One element of cluster->array.
Slot == [chain : Chain \cup {NoChain}, err : Errors, null : BOOLEAN]
EmptySlot == [chain |-> NoChain, err |-> "0", null |-> FALSE]

Quorum == pfs_nmasters \div 2 + 1

\* A node whose answer is not in: no chain and not at the end of its scan.
InProgress(s) == s.chain = NoChain /\ ~s.null

AtKey(arr, key) == {m \in Masters : arr[m].chain # NoChain /\ arr[m].chain.key = key}

\* One round of pass 2 looks for the best tid below the one that failed; an
\* answer without an error that is the best so far in index order takes the
\* focus, and keeps it when the better ones after it all have errors, also into
\* the next round.
BestBelow(arr, key, last) ==
    Max({0} \cup {t \in {arr[m].chain.tid : m \in AtKey(arr, key)} : t < last})

Focus(arr, key, last) ==
    LET leads == {m \in AtKey(arr, key) :
                    /\ arr[m].chain.err = "0" /\ arr[m].chain.tid < last
                    /\ \A o \in AtKey(arr, key) :
                         o < m /\ arr[o].chain.tid < last
                            => arr[o].chain.tid <= arr[m].chain.tid}
    IN IF leads = {} THEN 0 ELSE Max(leads)

Agreeing(arr, key, tid) ==
    {m \in AtKey(arr, key) : arr[m].chain.tid = tid}

\* Pass 2: rounds of falling tids until one has a quorum or none is left.
Rounds(arr, key) ==
    LET round[last \in Tids \cup {0, TidMax}] ==
          LET tid == BestBelow(arr, key, last)
              n == Cardinality(Agreeing(arr, key, tid))
              focus == Focus(arr, key, last)
          IN IF n >= Quorum \/ tid = 0
             THEN [tid |-> tid, n |-> n, focus |-> focus]
             ELSE LET r == round[tid] IN [r EXCEPT !.focus = IF @ = 0 THEN focus ELSE @]
    IN round[TidMax]

\* The first error, in index order, of the slots in S.
FirstError(arr, S) ==
    IF \E n \in S : arr[n].err # "0"
    THEN arr[Min({n \in S : arr[n].err # "0"})].err ELSE "0"

Result(e, f, t) == [err |-> e, focus |-> f, tid |-> t]

\* hammer2_cluster_check at the end of every scan in (CHECK_NULL).
CheckEnd(arr) ==
    LET in == {m \in Masters : arr[m].chain = NoChain /\ arr[m].null}
        unknown == {m \in Masters : InProgress(arr[m])}
        e == FirstError(arr, in)
    IN IF Cardinality(in) < Quorum
       THEN Result(IF Cardinality(in \cup unknown) >= Quorum
                   THEN "EINPROGRESS" ELSE "ESRCH", 0, 0)
       ELSE Result(IF e = "0" THEN "ENOENT" ELSE e, 0, 0)

\* A check that does not count the masters still in progress.
BugCheckKey(arr, key) ==
    LET r == Rounds(arr, key)
    IN IF r.n < Quorum THEN Result("ESRCH", 0, 0)
       ELSE IF r.focus = 0 THEN Result("EIO", 0, 0)
       ELSE Result("0", r.focus, r.tid)

\* hammer2_cluster_check of a key: a quorum of masters agrees on its tid, may
\* still do so, or cannot; then the errors of the agreeing nodes, slaves
\* included, are summed up (pass 3).
CheckKey(arr, key) ==
    LET r == Rounds(arr, key)
        at == AtKey(arr, key)
        unknown == {m \in Masters : InProgress(arr[m])}
        match == {n \in Nodes : arr[n].chain # NoChain /\ arr[n].chain.key = key
                                 /\ arr[n].chain.tid = r.tid}
    IN IF r.n < Quorum
       THEN Result(IF r.n + Cardinality(unknown) >= Quorum THEN "EINPROGRESS"
                   ELSE IF Cardinality(at) < Quorum THEN "ESRCH"
                   ELSE "EDEADLK", 0, 0)
       ELSE IF r.focus = 0 THEN Result("EIO", 0, 0)
       ELSE Result(FirstError(arr, match), r.focus, r.tid)

\* The lowest key collected, KEY_MAX when all slots are empty, and the check
\* hammer2_xop_collect makes of it.
LowKey(arr) == Min({arr[n].chain.key : n \in Nodes})
cluster_check(arr) ==
    IF LowKey(arr) = KeyMax THEN CheckEnd(arr) ELSE CheckKey(arr, LowKey(arr))

-----------------------------------------------------------------------------
(* What a scan of the cluster should return, from the nodes' whole answers.  *)

\* The keys a majority of the masters holds with one and the same tid.
Majority == Cardinality(Masters) \div 2 + 1
Agreed(answer, key, tid) ==
    Cardinality({m \in Masters :
        \E i \in DOMAIN answer[m] :
            answer[m][i].key = key /\ answer[m][i].tid = tid}) >= Majority
QuorumKeys(answer) ==
    {kt \in Keys \X Tids : Agreed(answer, kt[1], kt[2])}

=============================================================================
