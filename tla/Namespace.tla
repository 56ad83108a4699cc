----------------------------- MODULE Namespace -----------------------------
(***************************************************************************)
(* Inodes, directory entries and the file system sync (hammer2_vnops.c,    *)
(* hammer2_inode.c, the namespace backends of hammer2_xops.c, and          *)
(* hammer2_vfs_sync_pmp).  A directory entry enters the chain topology at  *)
(* once; the inode it names stays in memory, and its chains detached,      *)
(* until a sync inserts, updates or destroys it.  What keeps the two       *)
(* together is the dependency group: inodes of one group move from the     *)
(* side queue to the sync queue together.  Kernel threads run under one    *)
(* lock, so a step reaches from one place that may sleep to the next.      *)
(***************************************************************************)
EXTENDS Integers, Sequences, FiniteSets

CONSTANTS Procs, Syncer, NoOne,
          Root,       \* the inode number of the PFS root
          Inums,      \* 1..n; the numbers a mount may give out
          Names,
          dirhash,    \* Names -> the base of a collision space
          LoMask,     \* HAMMER2_DIRHASH_LOMASK
          Image,      \* the directories, entries and link counts at mount
          OpsOf,      \* the operations each process may call
          MaxCalls    \* bound: how many of them

Ops == {"create", "mkdir", "mknod", "symlink", "remove", "rmdir",
        "rename", "link", "open", "close", "fsync"}

ASSUME NamespaceAssumption ==
    /\ Root \in Inums /\ Inums \subseteq Nat \ {0}
    /\ Syncer \notin Procs /\ NoOne \notin Procs \cup {Syncer}
    /\ dirhash \in [Names -> Nat] /\ LoMask \in Nat
    /\ OpsOf \in [Procs -> SUBSET Ops] /\ MaxCalls \in Nat

VARIABLES
    mem,      \* hammer2_inode_t of each inode number
    pass2,    \* the dependency groups whose pass2 is set
    rescan,   \* HAMMER2_TRANS_RESCAN
    ilock,    \* ip->lock
    vlock,    \* the vnode lock
    opened,   \* the vnodes a user holds open
    cmeta,    \* nlinks in the inode's chain; -1: no chain
    dirs,     \* the inodes of type DIRECTORY
    dirent,   \* the directory entries under each inode's chain
    blk,      \* what the parent's block table refers to
    synced,   \* what the newest volume header refers to
    tid,      \* pmp->inode_tid
    op,       \* the vnode operation of each process
    sy        \* hammer2_vfs_sync_pmp

nsVars == <<mem, pass2, rescan, ilock, vlock, opened, cmeta, dirs, dirent,
            blk, synced, tid, op, sy>>
chainVars == <<cmeta, dirs, dirent, blk, synced, tid>>

Flags == {"CREATING", "MODIFIED", "ISUNLINKED", "DELETING", "SIDEQ", "SYNCQ",
          "PASS2"}
Links == 0 .. 2 * Cardinality(Names) + 1
Entry0 == [lhc : Nat, name : Names, inum : Inums]
InodeState == [on : BOOLEAN, nlinks : Links, flags : SUBSET Flags,
               depend : Inums \cup {0}, vp : BOOLEAN, vhold : BOOLEAN]
NoInode == [on |-> FALSE, nlinks |-> 0, flags |-> {}, depend |-> 0,
            vp |-> FALSE, vhold |-> FALSE]
NoBlk == [nlinks |-> -1, ents |-> {}]
Idle == [kind |-> "idle", pc |-> "", d |-> 0, n |-> "", i |-> 0,
         d2 |-> 0, n2 |-> "", t |-> 0, left |-> MaxCalls]
SyncIdle == [pc |-> "idle", ip |-> 0, again |-> FALSE]

NsTypeOK ==
    /\ mem \in [Inums -> InodeState]
    /\ pass2 \subseteq Inums /\ rescan \in BOOLEAN
    /\ ilock \in [Inums -> Procs \cup {Syncer, NoOne}]
    /\ vlock \in [Inums -> Procs \cup {NoOne}]
    /\ opened \subseteq Inums /\ dirs \subseteq Inums
    /\ cmeta \in [Inums -> Links \cup {-1}]
    /\ \A i \in Inums : dirent[i] \subseteq Entry0
    /\ \A i \in Inums : blk[i].nlinks \in Links \cup {-1}
    /\ tid \in Nat
    /\ \A p \in Procs : op[p].kind \in Ops \cup {"idle"} /\ op[p].left \in 0 .. MaxCalls
    /\ sy.pc \in {"idle", "run", "lock", "root"} /\ sy.ip \in Inums \cup {0}

Loaded(n) == [NoInode EXCEPT !.on = TRUE, !.nlinks = n]

NsInit ==
    /\ mem = [i \in Inums |->
              IF i = Root THEN [Loaded(Image.nlinks[i]) EXCEPT !.vp = TRUE]
              ELSE NoInode]
    /\ pass2 = {} /\ rescan = FALSE /\ opened = {}
    /\ ilock = [i \in Inums |-> NoOne] /\ vlock = [i \in Inums |-> NoOne]
    /\ cmeta = Image.nlinks /\ dirs = Image.dirs /\ dirent = Image.dirent
    /\ blk = [i \in Inums |-> IF Image.nlinks[i] = -1 THEN NoBlk
              ELSE [nlinks |-> Image.nlinks[i], ents |-> Image.dirent[i]]]
    /\ synced = [blk |-> blk, tid |-> Image.tid]
    /\ tid = Image.tid
    /\ op = [p \in Procs |-> Idle] /\ sy = SyncIdle

-----------------------------------------------------------------------------
(* The queues.  q carries mem, pass2 and rescan through the calls of a       *)
(* handler, and in depend the group the next call merges with: 0 is NULL,    *)
(* -1 the mark of an inode the syncer has taken.                             *)

Q == [mem |-> mem, pass2 |-> pass2, rescan |-> rescan, depend |-> 0]
Put(q) == mem' = q.mem /\ pass2' = q.pass2 /\ rescan' = q.rescan

Has(q, i, f) == f \in q.mem[i].flags
SetFlags(q, i, fs) == [q EXCEPT !.mem[i].flags = @ \cup fs]
ClearFlags(q, i, fs) == [q EXCEPT !.mem[i].flags = @ \ fs]

(* hammer2_inode_setdepend_locked.                                           *)
BugSetDepend(q, i) ==
    IF Has(q, i, "SYNCQ") THEN q
    ELSE [q EXCEPT !.mem[i].flags = @ \cup {"SIDEQ"}, !.mem[i].depend = i,
                   !.depend = i]

SetDepend(q, i) ==
    IF Has(q, i, "SYNCQ")
    THEN IF q.depend \in {0, -1} THEN [q EXCEPT !.depend = -1]
         ELSE [q EXCEPT !.pass2 = @ \cup {q.depend}, !.rescan = TRUE]
    ELSE LET side == Has(q, i, "SIDEQ")
             old == q.mem[i].depend
             new == IF q.depend > 0 THEN q.depend ELSE IF side THEN old ELSE i
             moved == {i} \cup {j \in Inums : /\ side /\ Has(q, j, "SIDEQ")
                                            /\ q.mem[j].depend = old}
             again == \/ q.depend = -1 \/ Has(q, i, "PASS2")
                      \/ (side /\ old \in q.pass2) \/ new \in q.pass2
         IN [mem |-> [j \in Inums |-> IF j \notin moved THEN q.mem[j]
                ELSE [q.mem[j] EXCEPT !.flags = @ \cup {"SIDEQ"},
                                      !.depend = new]],
             pass2 |-> (q.pass2 \ (IF side THEN {old} ELSE {}))
                       \cup (IF again THEN {new} ELSE {}),
             rescan |-> q.rescan \/ again,
             depend |-> new]

delayed_sideq(q, i) ==
    IF Has(q, i, "SYNCQ") \/ Has(q, i, "SIDEQ") THEN q
    ELSE SetDepend([q EXCEPT !.depend = 0], i)

Depend(q, i, j) == SetDepend(SetDepend([q EXCEPT !.depend = 0], i), j)

vhold(q, i) == IF q.mem[i].vp THEN [q EXCEPT !.mem[i].vhold = TRUE] ELSE q

Modify(q, i) == delayed_sideq(vhold(SetFlags(q, i, {"MODIFIED"}), i), i)

(* hammer2_inode_unlink_finisher.                                            *)
UnlinkFinisher(q, i) ==
    IF q.mem[i].nlinks > 1 THEN Modify([q EXCEPT !.mem[i].nlinks = @ - 1], i)
    ELSE LET u == SetFlags(q, i, {"ISUNLINKED"}) IN
         IF q.mem[i].vp THEN Modify([u EXCEPT !.mem[i].nlinks = 0], i)
         ELSE IF Has(u, i, "DELETING") THEN u
         ELSE delayed_sideq(SetFlags(u, i, {"DELETING"}), i)

(* hammer2_inactive and hammer2_reclaim under the inode lock; the inode goes *)
(* with its last reference (hammer2_inode_drop).                             *)
BugDeleted(q, i) ==
    IF Has(q, i, "ISUNLINKED") THEN SetFlags(q, i, {"DELETING"}) ELSE q
Deleted(q, i) ==
    IF Has(q, i, "ISUNLINKED") /\ ~Has(q, i, "DELETING")
    THEN delayed_sideq(SetFlags(q, i, {"DELETING"}), i) ELSE q
Drop(q, i) ==
    IF i = Root \/ q.mem[i].vp \/ Has(q, i, "SIDEQ") \/ Has(q, i, "SYNCQ")
    THEN q ELSE [q EXCEPT !.mem[i] = NoInode]
Reclaimed(q, i) == Drop([Deleted(q, i) EXCEPT !.mem[i].vp = FALSE], i)
Inactive(q, i) == IF Has(q, i, "ISUNLINKED") THEN Reclaimed(q, i) ELSE q

(* hammer2_inode_get and hammer2_igetv: the inode loaded from its chain when *)
(* it is not in memory, and its vnode.                                       *)
inode_get(q, i) ==
    IF q.mem[i].on THEN q ELSE [q EXCEPT !.mem[i] = Loaded(cmeta[i])]
igetv(q, i) == [q EXCEPT !.mem[i].vp = TRUE]
GetV(q, i) == igetv(inode_get(q, i), i)

-----------------------------------------------------------------------------
(* Directory entries.  Names that hash alike share the keys of one collision *)
(* space.                                                                    *)

Scan(d, n) == {e \in dirent[d] : e.lhc \in dirhash[n] .. dirhash[n] + LoMask}
Found(d, n) == {e \in Scan(d, n) : e.name = n}
Find(d, n) == CHOOSE e \in Found(d, n) : \A f \in Found(d, n) : e.lhc <= f.lhc
NamesOf(i) == UNION {{<<d, e>> : e \in {x \in dirent[d] : x.inum = i}} : d \in Inums}

(* The key for a new entry: the first one the scan skips, or the second      *)
(* after its end.  -1 is ENOSPC.                                             *)
scanlhc(d, n) ==
    LET keys == {e.lhc : e \in Scan(d, n)}
        base == dirhash[n]
        free == CHOOSE k \in base .. base + LoMask + 1 :
                  k \notin keys /\ \A j \in base .. k - 1 : j \in keys
        lhc == IF \E k \in keys : k > free THEN free ELSE free + 1
    IN IF lhc > base + LoMask THEN -1 ELSE lhc

-----------------------------------------------------------------------------
(* Vnode operations.  The VFS locks the vnodes it passes, except the file to *)
(* be renamed, its directory, and the file to be linked, which are only      *)
(* referenced.                                                               *)

Refs(p) == {op[p].d, op[p].i, op[p].d2, op[p].t} \ {0}
InUse0(i, ps) == i \in opened \/ \E p \in ps : i \in Refs(p)
Used(i) == mem[i].vhold \/ InUse0(i, Procs)
Reachable(d) == d \in dirs /\ (d = Root \/ NamesOf(d) # {})
Unlocked(S) == \A i \in S : ilock[i] = NoOne
VFree(S) == \A i \in S : vlock[i] = NoOne

Start(p, o) == op' = [op EXCEPT ![p] = o]
LockV(p, S) == vlock' = [i \in Inums |-> IF i \in S THEN p ELSE vlock[i]]
LockI(p, S) == ilock' = [i \in Inums |-> IF i \in S THEN p ELSE ilock[i]]
Finished(p) == [op EXCEPT ![p] = [Idle EXCEPT !.left = op[p].left - 1]]
Done(p) ==
    /\ op' = Finished(p)
    /\ vlock' = [i \in Inums |-> IF vlock[i] = p THEN NoOne ELSE vlock[i]]
    /\ ilock' = [i \in Inums |-> IF ilock[i] = p THEN NoOne ELSE ilock[i]]
At(p, kinds, pc) == op[p].kind \in kinds /\ op[p].pc = pc
MayCall(p, k) == op[p].kind = "idle" /\ k \in OpsOf[p] /\ op[p].left > 0

(* hammer2_inode_lock waits while the inode is on the sync queue.            *)
CanLock(i) == ilock[i] = NoOne /\ "SYNCQ" \notin mem[i].flags

Creates == {"create", "mkdir", "mknod", "symlink"}

StartCreate(p, k, d, n) ==
    /\ MayCall(p, k)
    /\ Reachable(d) /\ Unlocked({d}) /\ VFree({d}) /\ Found(d, n) = {}
    /\ tid \in Inums
    /\ Put(GetV(Q, d)) /\ LockV(p, {d})
    /\ Start(p, [op[p] EXCEPT !.kind = k, !.pc = "lock", !.d = d, !.n = n])
    /\ UNCHANGED <<ilock, opened, sy>> /\ UNCHANGED chainVars

hammer2_create(p, d, n) == StartCreate(p, "create", d, n)
hammer2_mkdir(p, d, n) == StartCreate(p, "mkdir", d, n)
hammer2_mknod(p, d, n) == StartCreate(p, "mknod", d, n)
hammer2_symlink(p, d, n) == StartCreate(p, "symlink", d, n)

(* hammer2_inode_create_normal: a detached chain and an inode in memory.     *)
inode_create_normal(p) ==
    /\ At(p, Creates, "lock") /\ CanLock(op[p].d)
    /\ Put(Modify([Q EXCEPT !.mem[tid] =
           [Loaded(1) EXCEPT !.flags = {"CREATING"}]], tid))
    /\ LockI(p, {op[p].d, tid})
    /\ tid' = tid + 1 /\ cmeta' = [cmeta EXCEPT ![tid] = 1]
    /\ dirs' = IF op[p].kind = "mkdir" THEN dirs \cup {tid} ELSE dirs
    /\ Start(p, [op[p] EXCEPT !.pc = "dirent", !.i = tid])
    /\ UNCHANGED <<vlock, opened, dirent, blk, synced, sy>>

dirent_create(p) ==
    LET o == op[p]
        q == Modify(Q, o.d)
        lhc == scanlhc(o.d, o.n)
    IN /\ At(p, Creates, "dirent")
       /\ IF lhc = -1
          THEN /\ Put(UnlinkFinisher(q, o.i)) /\ Done(p) /\ UNCHANGED dirent
          ELSE /\ Put(q)
               /\ dirent' = [dirent EXCEPT ![o.d] = @ \cup
                     {[lhc |-> lhc, name |-> o.n, inum |-> o.i]}]
               /\ Start(p, [o EXCEPT !.pc = "depend"])
               /\ UNCHANGED <<ilock, vlock>>
       /\ UNCHANGED <<opened, cmeta, dirs, blk, synced, tid, sy>>

create_done(p) ==
    /\ At(p, Creates, "depend")
    /\ LET i == op[p].i
           held == vhold(igetv(Depend(Q, op[p].d, i), i), i)
           built == IF op[p].kind = "symlink" THEN Modify(held, i) ELSE held
       IN Put(Modify(built, op[p].d))
    /\ opened' = IF op[p].kind = "create" THEN opened \cup {op[p].i} ELSE opened
    /\ Done(p) /\ UNCHANGED sy /\ UNCHANGED chainVars

StartRemove(p, k, d, n) ==
    LET i == Find(d, n).inum IN
    /\ MayCall(p, k)
    /\ Reachable(d) /\ Unlocked({d}) /\ VFree({d}) /\ Found(d, n) # {}
    /\ Unlocked({i}) /\ VFree({i})
    /\ Put(GetV(GetV(Q, d), i)) /\ LockV(p, {d, i})
    /\ Start(p, [op[p] EXCEPT !.kind = k, !.pc = "lock", !.d = d, !.n = n, !.i = i])
    /\ UNCHANGED <<ilock, opened, sy>> /\ UNCHANGED chainVars

hammer2_remove(p, d, n) == StartRemove(p, "remove", d, n)
hammer2_rmdir(p, d, n) == StartRemove(p, "rmdir", d, n)

checkdirempty(i) == dirent[i] = {}

(* hammer2_xop_unlink: EISDIR, ENOTDIR and ENOTEMPTY end the operation.      *)
xop_unlink(p) ==
    LET o == op[p] IN
    /\ At(p, {"remove", "rmdir"}, "lock") /\ CanLock(o.d)
    /\ IF (o.kind = "rmdir") = (o.i \in dirs) /\ checkdirempty(o.i)
       THEN /\ dirent' = [dirent EXCEPT ![o.d] = @ \ {Find(o.d, o.n)}]
            /\ LockI(p, {o.d}) /\ Start(p, [o EXCEPT !.pc = "get"])
            /\ UNCHANGED vlock
       ELSE Done(p) /\ UNCHANGED dirent
    /\ UNCHANGED <<mem, pass2, rescan, opened, cmeta, dirs, blk, synced, tid, sy>>

(* hammer2_inode_get takes the inode's lock whether or not the inode is on   *)
(* the sync queue.                                                           *)
remove_done(p) ==
    LET o == op[p] IN
    /\ At(p, {"remove", "rmdir"}, "get") /\ Unlocked({o.i})
    /\ Put(Modify(Depend(UnlinkFinisher(Q, o.i), o.d, o.i), o.d))
    /\ Done(p) /\ UNCHANGED <<opened, sy>> /\ UNCHANGED chainVars

StartRename(p, d, n, d2, n2) ==
    LET i == Find(d, n).inum
        t == IF Found(d2, n2) = {} THEN 0 ELSE Find(d2, n2).inum
        T == {d2, t} \ {0}
    IN /\ MayCall(p, "rename")
       /\ Reachable(d) /\ Reachable(d2) /\ Found(d, n) # {}
       /\ Unlocked({d, i} \cup T) /\ VFree(T) /\ i \notin T
       /\ t # 0 => (t \in dirs) = (i \in dirs)
       /\ LET q == GetV(GetV(GetV(Q, d), d2), i)
          IN Put(IF t = 0 THEN q ELSE GetV(q, t))
       /\ LockV(p, T)
       /\ Start(p, [op[p] EXCEPT !.kind = "rename", !.pc = "fvp", !.d = d,
                    !.n = n, !.i = i, !.d2 = d2, !.n2 = n2, !.t = t])
       /\ UNCHANGED <<ilock, opened, sy>> /\ UNCHANGED chainVars

rename_vn_lock(p) ==
    LET S == {op[p].i, op[p].d} \ {op[p].d2} IN
    /\ At(p, {"rename"}, "fvp") /\ VFree(S) /\ LockV(p, S)
    /\ Start(p, [op[p] EXCEPT !.pc = "lock4"])
    /\ UNCHANGED <<mem, pass2, rescan, ilock, opened, sy>> /\ UNCHANGED chainVars

(* hammer2_inode_lock4: the locks, one group for all, and a wait for those   *)
(* on the sync queue.                                                        *)
BugDependAll(q, s) ==
    LET f[k \in 0 .. Len(s)] ==
          IF k = 0 THEN q
          ELSE IF s[k] = 0 THEN f[k - 1]
          ELSE SetDepend([f[k - 1] EXCEPT !.depend = 0], s[k])
    IN f[Len(s)]

DependAll(q, s) ==
    LET f[k \in 0 .. Len(s)] ==
          IF k = 0 THEN [q EXCEPT !.depend = 0]
          ELSE IF s[k] = 0 THEN f[k - 1] ELSE SetDepend(f[k - 1], s[k])
    IN f[Len(s)]
Locks4(p) == IF op[p].kind = "link" THEN <<op[p].d, op[p].i>>
             ELSE <<op[p].d, op[p].d2, op[p].i, op[p].t>>
Locked4(p) == {Locks4(p)[k] : k \in 1 .. Len(Locks4(p))} \ {0}
Tapped(p) == \E i \in Locked4(p) : "SYNCQ" \in mem[i].flags

inode_lock4_wait(p) ==
    /\ At(p, {"rename", "link"}, "lock4") /\ Unlocked(Locked4(p)) /\ Tapped(p)
    /\ Put(DependAll(Q, Locks4(p)))
    /\ UNCHANGED <<ilock, vlock, opened, op, sy>> /\ UNCHANGED chainVars

inode_lock4(p) ==
    /\ At(p, {"rename", "link"}, "lock4") /\ Unlocked(Locked4(p)) /\ ~Tapped(p)
    /\ Put(DependAll(Q, Locks4(p))) /\ LockI(p, Locked4(p))
    /\ Start(p, [op[p] EXCEPT !.pc = "locked"])
    /\ UNCHANGED <<vlock, opened, sy>> /\ UNCHANGED chainVars

(* hammer2_xop_nrename: the error, or the entries afterwards.  The frontend  *)
(* forgives ENOENT.                                                          *)
Unlinked(o) ==
    [x \in Inums |->
        (dirent[x] \ (IF x = o.d2 THEN Found(o.d2, o.n2) ELSE {}))
        \ (IF x = o.d THEN {Find(o.d, o.n)} ELSE {})]

xop_nrename(o) ==
    LET lhc == scanlhc(o.d2, o.n2)
        Fail(e) == [err |-> e, ents |-> dirent]
    IN IF lhc = -1 THEN Fail("ENOSPC")
       ELSE IF o.t \in dirs /\ ~checkdirempty(o.t) THEN Fail("ENOTEMPTY")
       ELSE IF Found(o.d, o.n) = {} THEN Fail("ENOENT")
       ELSE [err |-> "", ents |-> [Unlinked(o) EXCEPT ![o.d2] = @ \cup
               {[lhc |-> lhc, name |-> o.n2, inum |-> Find(o.d, o.n).inum]}]]

rename_done(p) ==
    LET o == op[p]
        r == xop_nrename(o)
        ok == r.err \in {"", "ENOENT"}
        moved == IF ok THEN Modify(Q, o.i) ELSE Q
        over == IF ok /\ o.t # 0 THEN UnlinkFinisher(moved, o.t) ELSE moved
    IN /\ At(p, {"rename"}, "locked")
       /\ dirent' = r.ents
       /\ Put(IF r.err = "ENOSPC" THEN over ELSE Modify(Modify(over, o.d), o.d2))
       /\ Done(p) /\ UNCHANGED <<opened, cmeta, dirs, blk, synced, tid, sy>>

StartLink(p, i, d, n) ==
    /\ MayCall(p, "link")
    /\ i \notin dirs /\ NamesOf(i) # {} /\ Reachable(d) /\ Found(d, n) = {}
    /\ Unlocked({d, i}) /\ VFree({d}) /\ LockV(p, {d})
    /\ Put(GetV(GetV(Q, d), i))
    /\ Start(p, [op[p] EXCEPT !.kind = "link", !.pc = "lock4", !.d = d,
                 !.n = n, !.i = i])
    /\ UNCHANGED <<ilock, opened, sy>> /\ UNCHANGED chainVars

(* hammer2_link counts the link even when there was no key for its entry.    *)
link_done(p) ==
    LET o == op[p]
        lhc == scanlhc(o.d, o.n)
        q == Modify(Modify(Q, o.d), o.i)
    IN /\ At(p, {"link"}, "locked") /\ mem[o.i].nlinks + 1 \in Links
       /\ dirent' = IF lhc = -1 THEN dirent ELSE [dirent EXCEPT ![o.d] = @ \cup
                        {[lhc |-> lhc, name |-> o.n, inum |-> o.i]}]
       /\ Put([q EXCEPT !.mem[o.i].nlinks = @ + 1])
       /\ Done(p) /\ UNCHANGED <<opened, cmeta, dirs, blk, synced, tid, sy>>

(* hammer2_nresolve and hammer2_igetv for open.                              *)
nresolve(p, d, n) ==
    LET i == Find(d, n).inum IN
    /\ MayCall(p, "open") /\ Reachable(d) /\ Found(d, n) # {}
    /\ Unlocked({d, i}) /\ VFree({d, i}) /\ i \notin dirs \cup opened
    /\ Put(GetV(GetV(Q, d), i)) /\ opened' = opened \cup {i}
    /\ op' = Finished(p)
    /\ UNCHANGED <<ilock, vlock, sy>> /\ UNCHANGED chainVars

StartClose(p, i) ==
    /\ MayCall(p, "close") /\ i \in opened /\ VFree({i})
    /\ opened' = opened \ {i} /\ LockV(p, {i})
    /\ Start(p, [op[p] EXCEPT !.kind = "close", !.pc = "inactive", !.i = i])
    /\ UNCHANGED <<mem, pass2, rescan, ilock, sy>> /\ UNCHANGED chainVars

(* vrele: the last reference makes the vnode inactive.                       *)
close_inactive(p) ==
    LET i == op[p].i
        last == ~mem[i].vhold /\ ~InUse0(i, Procs \ {p})
    IN /\ At(p, {"close"}, "inactive") /\ (last => CanLock(i))
       /\ Put(IF last THEN Inactive(Q, i) ELSE Q)
       /\ Done(p) /\ UNCHANGED <<opened, sy>> /\ UNCHANGED chainVars

StartFsync(p, i) ==
    /\ MayCall(p, "fsync") /\ i \in opened /\ VFree({i}) /\ LockV(p, {i})
    /\ Start(p, [op[p] EXCEPT !.kind = "fsync", !.pc = "lock", !.i = i])
    /\ UNCHANGED <<mem, pass2, rescan, ilock, opened, sy>> /\ UNCHANGED chainVars

(* hammer2_inode_chain_sync, and a flush that leaves the parent's block      *)
(* table alone.                                                              *)
fsync(p) ==
    LET i == op[p].i IN
    /\ At(p, {"fsync"}, "lock") /\ CanLock(i)
    /\ Put(ClearFlags(Q, i, {"MODIFIED"}))
    /\ cmeta' = [cmeta EXCEPT ![i] = IF cmeta[i] = -1 THEN -1 ELSE mem[i].nlinks]
    /\ Done(p) /\ UNCHANGED <<opened, dirs, dirent, blk, synced, tid, sy>>

(* The kernel recycles an unused vnode.                                      *)
reclaim(i) ==
    /\ i # Root /\ mem[i].vp /\ ~Used(i) /\ VFree({i}) /\ CanLock(i)
    /\ Put(Reclaimed(Q, i))
    /\ UNCHANGED <<ilock, vlock, opened, op, sy>> /\ UNCHANGED chainVars

-----------------------------------------------------------------------------
(* The sync of the mount (hammer2_vfs_sync_pmp).                             *)

SyncQ == {i \in Inums : "SYNCQ" \in mem[i].flags}

(* The side queue, or on a restart its groups marked pass2, becomes part of  *)
(* the sync queue at once.                                                   *)
TakeSideQ(again) ==
    LET take == {i \in Inums : /\ "SIDEQ" \in mem[i].flags
                               /\ (~again \/ mem[i].depend \in pass2)}
    IN [mem |-> [i \in Inums |-> IF i \notin take THEN mem[i]
             ELSE [mem[i] EXCEPT !.flags = (@ \ {"SIDEQ"}) \cup {"SYNCQ"},
                                 !.depend = 0]],
        pass2 |-> {}, rescan |-> FALSE, depend |-> 0]

sync_begin ==
    /\ sy.pc = "idle" /\ Put(TakeSideQ(FALSE))
    /\ sy' = [SyncIdle EXCEPT !.pc = "run"]
    /\ UNCHANGED <<ilock, vlock, opened, op>> /\ UNCHANGED chainVars

sync_restart ==
    /\ sy.pc = "run" /\ SyncQ = {} /\ (sy.again \/ rescan)
    /\ Put(TakeSideQ(TRUE)) /\ sy' = [sy EXCEPT !.again = FALSE]
    /\ UNCHANGED <<ilock, vlock, opened, op>> /\ UNCHANGED chainVars

(* The next inode loses its mark, so that a frontend that holds its vnode    *)
(* may go on, and is locked.  Waiters bring theirs to the front: any order.  *)
sync_next(i) ==
    /\ sy.pc = "run" /\ i \in SyncQ
    /\ Put(SetFlags(ClearFlags(Q, i, {"SYNCQ"}), i, {"PASS2"}))
    /\ sy' = [sy EXCEPT !.pc = "lock", !.ip = i]
    /\ UNCHANGED <<ilock, vlock, opened, op>> /\ UNCHANGED chainVars

VBusy(i) == mem[i].vp /\ vlock[i] # NoOne

(* The vnode is busy: back to the side queue, to be found by a restart.      *)
sync_busy ==
    LET i == sy.ip IN
    /\ sy.pc = "lock" /\ ilock[i] = NoOne
    /\ VBusy(i)
    /\ Put(delayed_sideq(Q, i))
    /\ sy' = [pc |-> "run", ip |-> 0, again |-> TRUE]
    /\ UNCHANGED <<ilock, vlock, opened, op>> /\ UNCHANGED chainVars

sync_requeued ==
    LET i == sy.ip IN
    /\ sy.pc = "lock" /\ ilock[i] = NoOne
    /\ ~VBusy(i) /\ "SIDEQ" \in mem[i].flags
    /\ sy' = [pc |-> "run", ip |-> 0, again |-> TRUE]
    /\ UNCHANGED <<mem, pass2, rescan, ilock, vlock, opened, op>>
    /\ UNCHANGED chainVars

(* hammer2_inode_chain_des, or hammer2_inode_chain_ins and                   *)
(* hammer2_inode_chain_sync, and hammer2_inode_chain_flush.                  *)
Destroyed(i) == "DELETING" \in mem[i].flags \/ cmeta[i] = -1
ChainMeta(i) == IF "MODIFIED" \in mem[i].flags THEN mem[i].nlinks ELSE cmeta[i]

chain_des(i) ==
    /\ cmeta' = [cmeta EXCEPT ![i] = -1] /\ dirent' = [dirent EXCEPT ![i] = {}]
    /\ blk' = [blk EXCEPT ![i] = NoBlk]

chain_flush(i) ==
    /\ cmeta' = [cmeta EXCEPT ![i] = ChainMeta(i)] /\ UNCHANGED dirent
    /\ blk' = IF i = Root THEN blk ELSE
         [blk EXCEPT ![i] = [nlinks |-> ChainMeta(i), ents |-> dirent[i]]]

Cleaned(q, i) == ClearFlags(q, i, {"MODIFIED"} \cup
    (IF Has(q, i, "DELETING") THEN {"DELETING", "ISUNLINKED"} ELSE {"CREATING"}))

(* The vnode is let go, which may make it inactive, before PASS2 is cleared. *)
vdrop(q, i) ==
    LET r == [q EXCEPT !.mem[i].vhold = FALSE]
    IN IF r.mem[i].vp /\ ~InUse0(i, Procs) THEN Inactive(r, i) ELSE r

sync_inode ==
    LET i == sy.ip IN
    /\ sy.pc = "lock" /\ ilock[i] = NoOne
    /\ ~VBusy(i) /\ "SIDEQ" \notin mem[i].flags
    /\ IF Destroyed(i) THEN chain_des(i) ELSE chain_flush(i)
    /\ Put(Drop(ClearFlags(vdrop(Cleaned(Q, i), i), i, {"PASS2"}), i))
    /\ sy' = [sy EXCEPT !.pc = "run", !.ip = 0]
    /\ UNCHANGED <<ilock, vlock, opened, dirs, synced, tid, op>>

(* The PFS root last, with the index of the inodes under it, and then the    *)
(* volume header.                                                            *)
sync_wait_root ==
    /\ sy.pc = "run" /\ SyncQ = {} /\ ~sy.again /\ ~rescan
    /\ ilock[Root] # NoOne
    /\ sy' = [sy EXCEPT !.pc = "root"]
    /\ UNCHANGED <<mem, pass2, rescan, ilock, vlock, opened, op>>
    /\ UNCHANGED chainVars

sync_root ==
    /\ \/ sy.pc = "run" /\ SyncQ = {} /\ ~sy.again /\ ~rescan
       \/ sy.pc = "root"
    /\ ilock[Root] = NoOne
    /\ Put(ClearFlags(Q, Root, {"MODIFIED"}))
    /\ cmeta' = [cmeta EXCEPT ![Root] = mem[Root].nlinks]
    /\ blk' = [blk EXCEPT ![Root] = [nlinks |-> mem[Root].nlinks,
                                     ents |-> dirent[Root]]]
    /\ synced' = [blk |-> blk', tid |-> tid]
    /\ sy' = SyncIdle
    /\ UNCHANGED <<ilock, vlock, opened, dirs, dirent, tid, op>>

Frontend(p) ==
    \/ \E d \in Inums, n \in Names :
         \/ hammer2_create(p, d, n) \/ hammer2_mkdir(p, d, n)
         \/ hammer2_mknod(p, d, n) \/ hammer2_symlink(p, d, n)
         \/ hammer2_remove(p, d, n) \/ hammer2_rmdir(p, d, n)
         \/ nresolve(p, d, n)
    \/ inode_create_normal(p) \/ dirent_create(p) \/ create_done(p)
    \/ xop_unlink(p) \/ remove_done(p)
    \/ \E d, d2 \in Inums : \E n, n2 \in Names : StartRename(p, d, n, d2, n2)
    \/ rename_vn_lock(p) \/ inode_lock4_wait(p) \/ inode_lock4(p) \/ rename_done(p)
    \/ \E i, d \in Inums : \E n \in Names : StartLink(p, i, d, n)
    \/ link_done(p)
    \/ \E i \in Inums : StartClose(p, i) \/ StartFsync(p, i)
    \/ close_inactive(p) \/ fsync(p)

Sync ==
    \/ sync_begin \/ sync_restart \/ \E i \in Inums : sync_next(i)
    \/ sync_busy \/ sync_requeued \/ sync_inode \/ sync_wait_root \/ sync_root

NsNext == (\E p \in Procs : Frontend(p)) \/ Sync \/ \E i \in Inums : reclaim(i)

NsSpec == NsInit /\ [][NsNext]_nsVars

-----------------------------------------------------------------------------
(* Properties.                                                               *)

OnMedia(i) == synced.blk[i].nlinks # -1
Resolves(d) == \A e \in synced.blk[d].ents : OnMedia(e.inum)

(* After a crash every entry of a subdirectory names an inode: the groups of *)
(* hammer2_inode_depend and hammer2_inode_lock4 keep an entry and the inode  *)
(* it was made for in one sync, whatever the syncer had taken when the       *)
(* operation met it.                                                         *)
EntriesHaveInodes ==
    \A d \in Inums \ {Root} : OnMedia(d) => Resolves(d)

(* The same of the root directory, as hammer2_inode_depend promises of any   *)
(* entry and its inode.                                                      *)
DependsSyncedTogether == Resolves(Root)

Quiet(i) == \A p \in Procs : i \notin Refs(p)

(* Links and entries agree outside of an operation on the inode, whether its *)
(* count is in memory (hammer2_inode_unlink_finisher, hammer2_link) or, once *)
(* the inode was dropped, in its chain; an inode without a name is on its    *)
(* way out.                                                                  *)
LinksMatch ==
    \A i \in Inums \ {Root} : cmeta[i] # -1 /\ Quiet(i) =>
        LET names == Cardinality(NamesOf(i)) IN
        IF ~mem[i].on THEN cmeta[i] = names /\ names > 0
        ELSE IF names = 0 THEN "ISUNLINKED" \in mem[i].flags
        ELSE mem[i].nlinks = names /\ "ISUNLINKED" \notin mem[i].flags

MediaEntries(i) ==
    UNION {{<<d, e>> : e \in {x \in synced.blk[d].ents : x.inum = i}} :
           d \in {d \in Inums \ {Root} : OnMedia(d)}}

(* "to ensure that meta-data dependencies such as the nlink count and        *)
(* related directory entries are not split across flushes"                   *)
(* (hammer2_inode_lock): after a crash no inode has more entries, the root   *)
(* directory's apart, than links, so that its last link is not the last too  *)
(* early.                                                                    *)
LinksNotSplit ==
    \A i \in Inums : OnMedia(i) =>
        synced.blk[i].nlinks >= Cardinality(MediaEntries(i))

(* The same, with the types of the state it is read from (hammer2_inode_lock *)
(* and the sync's own locking of it).                                        *)
SyncSound == NsTypeOK /\ LinksNotSplit

(* "it has been deleted (no directory entry or open refs are left": an inode *)
(* the sync will destroy has no entry (hammer2_inode_chain_des).             *)
DeletingHasNoEntry ==
    \A i \in Inums : "DELETING" \in mem[i].flags /\ Quiet(i) => NamesOf(i) = {}
=============================================================================
