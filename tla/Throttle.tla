------------------------------- MODULE Throttle -------------------------------
(***************************************************************************)
(* Transactions (hammer2_trans_init, hammer2_trans_done), the filesystem    *)
(* sync that runs in a flush transaction (hammer2_vfs_sync_pmp) for the     *)
(* flush thread of a PFS and for the syncer, and the writers it must not    *)
(* wait for: they hold their vnode while hammer2_pfs_memory_wait stalls     *)
(* them until the sync has drained enough.  Inodes are dirtied by writes    *)
(* alone, each in a dependency group of its own (Namespace has the groups). *)
(***************************************************************************)
EXTENDS Integers, FiniteSets

CONSTANTS
    Pfss,        \* mounted PFSs; each name also stands for its flush thread
    Syncer,      \* whoever calls hammer2_sync on one mount after the other
    Files, PfsOf,
    Writers, FileOf,
    NoOne,
    LimitChains, \* hammer2_limit_dirty_chains
    HiDirty,     \* hidirtypages
    GiveUps,     \* HAMMER2_MEMORY_WAIT_MAX may be reached
    MaxWrites    \* bound: writes

ASSUME ThrottleAssumption ==
    /\ Syncer \notin Pfss /\ NoOne \notin Writers \cup Pfss \cup {Syncer}
    /\ IsFiniteSet(Pfss) /\ IsFiniteSet(Files) /\ IsFiniteSet(Writers)
    /\ PfsOf \in [Files -> Pfss] /\ FileOf \in [Writers -> Files]
    /\ LimitChains \in Nat /\ HiDirty \in Nat \ {0}
    /\ GiveUps \in BOOLEAN /\ MaxWrites \in Nat

VARIABLES
    vlock,    \* who holds the vnode of each file
    buffers,  \* unclean buffers, in writes
    chains,   \* modified chains, in writes
    sideq,    \* the inodes on a sideq
    pass2,    \* the inodes with HAMMER2_INODE_SYNCQ_PASS2
    trans,    \* pmp->trans.flags: ISFLUSH, WAITING and the count
    xopq,     \* the flush thread is signalled (HAMMER2_THREAD_XOPQ)
    sy,       \* hammer2_vfs_sync_pmp of each flush thread and the syncer
    wr,       \* hammer2_write of each writer
    writes

throttleVars == <<vlock, buffers, chains, sideq, pass2, trans, xopq, sy, wr, writes>>

Syncs == Pfss \cup {Syncer}
SyncIdle(p) == [at |-> "idle", pfs |-> p, syncq |-> {}, ip |-> NoOne,
                restart |-> FALSE, delay |-> FALSE]

ThrottleInit ==
    /\ vlock = [f \in Files |-> NoOne]
    /\ buffers = [f \in Files |-> 0] /\ chains = [f \in Files |-> 0]
    /\ sideq = {} /\ pass2 = {}
    /\ trans = [p \in Pfss |-> [isflush |-> FALSE, waiting |-> FALSE, count |-> 0]]
    /\ xopq = [p \in Pfss |-> FALSE]
    /\ sy \in {x \in [Syncs -> {SyncIdle(p) : p \in Pfss}] : \A p \in Pfss : x[p].pfs = p}
    /\ wr = [w \in Writers |-> "idle"]
    /\ writes = 0

-------------------------------------------------------------------------------
(* hammer2_trans_init.  A flush transaction waits for another; the flag       *)
(* WAITING asks for a wakeup, which comes with its clearing.                  *)
\* Mutant: a flush transaction does not wait for another.
BugMustWait(t) == FALSE
MustWait(t) == t.isflush

Woken(s, p) == [a \in Syncs |->
    IF s[a].at = "h2pmp_tr" /\ s[a].pfs = p THEN [s[a] EXCEPT !.at = "start"] ELSE s[a]]
Unwaited(t, s, p) == IF t.waiting THEN Woken(s, p) ELSE s

TransInit(a) ==
    LET p == sy[a].pfs
    IN  /\ sy[a].at = "start"
        /\ \/ /\ MustWait(trans[p])
              /\ trans' = [trans EXCEPT ![p].waiting = TRUE]
              /\ sy' = [sy EXCEPT ![a].at = "h2pmp_tr"]
           \/ /\ ~MustWait(trans[p])
              /\ trans' = [trans EXCEPT ![p].isflush = TRUE, ![p].count = trans[p].count + 1]
              /\ sy' = [sy EXCEPT ![a].at = "queue"]
        /\ UNCHANGED <<vlock, buffers, chains, sideq, pass2, xopq, wr, writes>>

(* The label restart: the inodes of the sideq go to the syncq, on a restart   *)
(* only those with PASS2; whoever waits for the transaction looks again.      *)
Queue(a) ==
    LET p == sy[a].pfs
        Mine == {f \in sideq : PfsOf[f] = p}
        Taken == IF sy[a].restart THEN Mine \cap pass2 ELSE Mine
        Now == [sy EXCEPT ![a] = [sy[a] EXCEPT !.at = "pass", !.restart = FALSE,
                    !.delay = FALSE, !.syncq = sy[a].syncq \cup Taken]]
    IN  /\ sy[a].at = "queue"
        /\ sideq' = sideq \ Taken
        /\ trans' = [trans EXCEPT ![p].waiting = FALSE]
        /\ sy' = Unwaited(trans[p], Now, p)
        /\ UNCHANGED <<vlock, buffers, chains, pass2, xopq, wr, writes>>

(* An inode leaves the syncq and gets PASS2; the flag it had is remembered.   *)
(* Then the inode lock, for which the sync sleeps while it is written.        *)
Pick(a) ==
    /\ sy[a].at = "pass"
    /\ \E f \in sy[a].syncq :
          /\ sy' = [sy EXCEPT ![a] = [sy[a] EXCEPT !.at = "lock", !.ip = f,
                        !.syncq = sy[a].syncq \ {f}, !.delay = sy[a].delay \/ f \in pass2]]
          /\ pass2' = pass2 \cup {f}
    /\ UNCHANGED <<vlock, buffers, chains, sideq, trans, xopq, wr, writes>>

NotWriting(f) == \A w \in Writers : FileOf[w] = f => wr[w] # "writing"

(* The vnode is taken if it is free; otherwise, or when the inode is on the   *)
(* sideq again, it is left for a restart, with a delay if it had PASS2.       *)
GetVnode(a) ==
    LET f == sy[a].ip
    IN  /\ sy[a].at = "lock" /\ NotWriting(f)
        /\ \/ /\ vlock[f] # NoOne
              /\ sideq' = sideq \cup {f}
              /\ sy' = [sy EXCEPT ![a].at = "pass", ![a].restart = TRUE]
              /\ UNCHANGED vlock
           \/ /\ vlock[f] = NoOne /\ f \in sideq
              /\ sy' = [sy EXCEPT ![a].at = "pass", ![a].restart = TRUE]
              /\ UNCHANGED <<vlock, sideq>>
           \/ /\ vlock[f] = NoOne /\ f \notin sideq
              /\ vlock' = [vlock EXCEPT ![f] = a]
              /\ sy' = [sy EXCEPT ![a].at = "flush"]
              /\ UNCHANGED sideq
        /\ UNCHANGED <<buffers, chains, pass2, trans, xopq, wr, writes>>

(* vflushbuf, the flush of the inode's chains, vput.                          *)
FlushInode(a) ==
    LET f == sy[a].ip
    IN  /\ sy[a].at = "flush"
        /\ buffers' = [buffers EXCEPT ![f] = 0]
        /\ chains' = [chains EXCEPT ![f] = 0]
        /\ vlock' = [vlock EXCEPT ![f] = NoOne]
        /\ pass2' = pass2 \ {f}
        /\ sy' = [sy EXCEPT ![a].at = "pass"]
        /\ UNCHANGED <<sideq, trans, xopq, wr, writes>>

(* The syncq is empty: start over, perhaps after a sleep ("h2syndel"), or go  *)
(* on to the root of the PFS.                                                 *)
PassEnd(a) ==
    /\ sy[a].at = "pass" /\ sy[a].syncq = {}
    /\ sy' = [sy EXCEPT ![a].at = IF ~sy[a].restart THEN "root"
                                  ELSE IF sy[a].delay THEN "h2syndel" ELSE "queue"]
    /\ UNCHANGED <<vlock, buffers, chains, sideq, pass2, trans, xopq, wr, writes>>

Delay(a) ==
    /\ sy[a].at = "h2syndel"
    /\ sy' = [sy EXCEPT ![a].at = "queue"]
    /\ UNCHANGED <<vlock, buffers, chains, sideq, pass2, trans, xopq, wr, writes>>

(* hammer2_trans_done.  It wakes the waiters at the end of a flush, and when  *)
(* a flush is left alone.                                                     *)
\* Mutant: the end of a flush wakes nobody.
BugDone(t, flush) ==
    [isflush |-> t.isflush /\ ~flush, count |-> t.count - 1, waiting |-> t.waiting]
Done(t, flush) ==
    [isflush |-> t.isflush /\ ~flush, count |-> t.count - 1,
     waiting |-> t.waiting /\ ~flush /\ ~(t.isflush /\ t.count = 2)]

Woke(t, flush, s, p) == IF t.waiting /\ ~Done(t, flush).waiting THEN Woken(s, p) ELSE s

SyncDone(a) ==
    LET p == sy[a].pfs
    IN  /\ sy[a].at = "root"
        /\ trans' = [trans EXCEPT ![p] = Done(trans[p], TRUE)]
        /\ sy' = Woke(trans[p], TRUE, [sy EXCEPT ![a] = SyncIdle(p)], p)
        /\ UNCHANGED <<vlock, buffers, chains, sideq, pass2, xopq, wr, writes>>

(* hammer2_primary_flush_thread: the signal is consumed before the sync.      *)
FlushThread(p) ==
    /\ sy[p].at = "idle" /\ xopq[p]
    /\ xopq' = [xopq EXCEPT ![p] = FALSE]
    /\ sy' = [sy EXCEPT ![p].at = "start"]
    /\ UNCHANGED <<vlock, buffers, chains, sideq, pass2, trans, wr, writes>>

(* The mounts are synced in turn.                                            *)
NextMount ==
    /\ sy[Syncer].at = "idle"
    /\ \E p \in Pfss : /\ Pfss # {p} => p # sy[Syncer].pfs
                       /\ sy' = [sy EXCEPT ![Syncer].at = "start", ![Syncer].pfs = p]
    /\ UNCHANGED <<vlock, buffers, chains, sideq, pass2, trans, xopq, wr, writes>>

Sync(a) == \/ TransInit(a) \/ Queue(a) \/ Pick(a) \/ GetVnode(a)
           \/ FlushInode(a) \/ PassEnd(a) \/ Delay(a) \/ SyncDone(a)
           \/ (a \in Pfss /\ FlushThread(a)) \/ (a = Syncer /\ NextMount)

-------------------------------------------------------------------------------
(* The buffer cleaner: a strategy write makes a buffer modified chains.       *)
Clean(f) ==
    /\ buffers[f] > 0
    /\ buffers' = [buffers EXCEPT ![f] = buffers[f] - 1]
    /\ chains' = [chains EXCEPT ![f] = chains[f] + 1]
    /\ UNCHANGED <<vlock, sideq, pass2, trans, xopq, sy, wr, writes>>

(* The counts are those of all mounts, which no more than MaxWrites can be of *)
(* one file.                                                                  *)
Count(n) == Cardinality({p \in Files \X (1..MaxWrites) : p[2] <= n[p[1]]})

Pressure == Count(chains) > LimitChains \/ Count(buffers) >= HiDirty

(* vn_write calls hammer2_write with the vnode locked.                        *)
VnWrite(w) ==
    /\ wr[w] = "idle" /\ writes < MaxWrites
    /\ vlock[FileOf[w]] = NoOne
    /\ vlock' = [vlock EXCEPT ![FileOf[w]] = w]
    /\ wr' = [wr EXCEPT ![w] = "check"]
    /\ writes' = writes + 1
    /\ UNCHANGED <<buffers, chains, sideq, pass2, trans, xopq, sy>>

(* hammer2_pfs_memory_wait: it gives the vnode up before it sleeps, signals   *)
(* the flush thread and looks again after a wakeup or 20 ms ("h2memw").       *)
\* Mutant: it sleeps with the vnode locked.
BugGivenUp(w) == vlock
GivenUp(w) == IF vlock[FileOf[w]] = w THEN [vlock EXCEPT ![FileOf[w]] = NoOne] ELSE vlock

\* Mutant: it sleeps once and goes on.
BugMustPark(w) == Pressure /\ vlock[FileOf[w]] = w
MustPark(w) == Pressure

MemoryWait(w) ==
    /\ wr[w] = "check" /\ MustPark(w)
    /\ vlock' = GivenUp(w)
    /\ xopq' = [xopq EXCEPT ![PfsOf[FileOf[w]]] = TRUE]
    /\ wr' = [wr EXCEPT ![w] = "h2memw"]
    /\ UNCHANGED <<buffers, chains, sideq, pass2, trans, sy, writes>>

LookAgain(w) ==
    /\ wr[w] = "h2memw"
    /\ \E next \in {"check"} \cup (IF GiveUps THEN {"go"} ELSE {}) :
          wr' = [wr EXCEPT ![w] = next]
    /\ UNCHANGED <<vlock, buffers, chains, sideq, pass2, trans, xopq, sy, writes>>

MayGo(w) ==
    /\ wr[w] = "check" /\ ~MustPark(w)
    /\ wr' = [wr EXCEPT ![w] = "go"]
    /\ UNCHANGED <<vlock, buffers, chains, sideq, pass2, trans, xopq, sy, writes>>

(* The vnode is locked again if it was given up; a normal transaction waits   *)
(* for nobody.                                                                *)
WriteBegin(w) ==
    LET f == FileOf[w]
        p == PfsOf[f]
    IN  /\ wr[w] = "go"
        /\ vlock[f] \in {w, NoOne}
        /\ vlock' = [vlock EXCEPT ![f] = w]
        /\ \A a \in Syncs : ~(sy[a].at = "flush" /\ sy[a].ip = f)
        /\ trans' = [trans EXCEPT ![p].count = trans[p].count + 1]
        /\ wr' = [wr EXCEPT ![w] = "writing"]
        /\ UNCHANGED <<buffers, chains, sideq, pass2, xopq, sy, writes>>

WriteEnd(w) ==
    LET f == FileOf[w]
        p == PfsOf[f]
    IN  /\ wr[w] = "writing"
        /\ buffers' = [buffers EXCEPT ![f] = buffers[f] + 1]
        /\ sideq' = IF \E a \in Syncs : f \in sy[a].syncq THEN sideq ELSE sideq \cup {f}
        /\ trans' = [trans EXCEPT ![p] = Done(trans[p], FALSE)]
        /\ sy' = Woke(trans[p], FALSE, sy, p)
        /\ vlock' = [vlock EXCEPT ![f] = NoOne]
        /\ wr' = [wr EXCEPT ![w] = "idle"]
        /\ UNCHANGED <<chains, pass2, xopq, writes>>

Writer(w) == \/ MemoryWait(w) \/ LookAgain(w) \/ MayGo(w) \/ WriteBegin(w) \/ WriteEnd(w)

ThrottleNext ==
    \/ \E a \in Syncs : Sync(a)
    \/ \E f \in Files : Clean(f)
    \/ \E w \in Writers : VnWrite(w) \/ Writer(w)

(* Every thread that can run runs; nobody need call write, and the syncer     *)
(* comes round by its timer.                                                  *)
ThrottleFair ==
    /\ \A a \in Syncs : WF_throttleVars(Sync(a))
    /\ \A w \in Writers : WF_throttleVars(Writer(w))

ThrottleSpec == ThrottleInit /\ [][ThrottleNext]_throttleVars /\ ThrottleFair

-------------------------------------------------------------------------------
InFlush(a, p) == sy[a].pfs = p /\ sy[a].at \notin {"idle", "start", "h2pmp_tr"}

\* Of all who sync a PFS one at a time is in the flush, the count of its
\* transactions is that of the flush and the writers inside, and nobody
\* sleeps for the transaction without WAITING, which promises the wakeup
\* (hammer2_trans_init, hammer2_trans_done).
FlushersAlone ==
    \A p \in Pfss :
        LET F == {a \in Syncs : InFlush(a, p)}
            W == {w \in Writers : wr[w] = "writing" /\ PfsOf[FileOf[w]] = p}
        IN  /\ Cardinality(F) <= 1 /\ (trans[p].isflush <=> F # {})
            /\ trans[p].count = Cardinality(F) + Cardinality(W)
            /\ (\E a \in Syncs : sy[a].pfs = p /\ sy[a].at = "h2pmp_tr") => trans[p].waiting

\* The stall bounds what the buffer cache is left with: however many writers
\* found it under the mark at once, one write of each may come on top
\* (hammer2_pfs_memory_wait, as long as it does not give up).
UncleanBounded ==
    ~GiveUps => Count(buffers) < HiDirty + Cardinality(Writers)

\* Flushes of a PFS exclude each other, and its writers stay within the mark
\* (hammer2_trans_init, hammer2_pfs_memory_wait).
ThrottleSound == FlushersAlone /\ UncleanBounded

\* A sync ends, though it restarts for each vnode it cannot get: whoever
\* holds one comes to release it without waiting for the sync
\* (hammer2_vfs_sync_pmp, "h2syndel"); and who sleeps for it is woken.
SyncEnds ==
    /\ \A p \in Pfss : trans[p].isflush ~> ~trans[p].isflush
    /\ \A a \in Syncs : sy[a].at = "h2pmp_tr" ~> sy[a].at # "h2pmp_tr"

\* A stalled writer is let go by the syncs that drain the mounts, without the
\* way out of giving up (hammer2_pfs_memory_wait).
WritersResume == \A w \in Writers : wr[w] = "h2memw" ~> wr[w] = "idle"
===============================================================================
