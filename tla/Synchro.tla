-------------------------------- MODULE Synchro --------------------------------
(***************************************************************************)
(* The synchronisation thread of a slave node (hammer2_synchro.c).  It     *)
(* scans the inodes of the PFS root against an authoritative scan of the   *)
(* other nodes (an XOP that leaves its own node out), makes the records of *)
(* its node the same, defers each inode that differs to a list and then    *)
(* scans its records in the same way.  An inode whose modify_tid is that   *)
(* of the masters is not scanned.  Here: the other nodes as one master, a  *)
(* root of inodes, each with blocks; a block is named by the transaction   *)
(* that wrote it.  The flush of a node raises the modify_tid of a parent   *)
(* to that of a flushed child.                                             *)
(***************************************************************************)
EXTENDS Integers, Sequences, FiniteSets

CONSTANTS
    NumInodes, NumBlocks,   \* the keys of inodes, and of blocks in an inode
    MaxTid,                 \* transactions of the master
    Concurrent,             \* the master is written during a pass
    Absent

Blocks == 1..NumBlocks
Inodes == 1..NumInodes
InodeRec == [tid : Nat, meta : Nat, data : [Blocks -> Nat]]

ASSUME SynchroAssumption ==
    /\ NumInodes \in Nat /\ NumBlocks \in Nat /\ MaxTid \in Nat
    /\ Concurrent \in BOOLEAN
    /\ Absent \notin InodeRec

VARIABLES
    master,   \* modify_tid of the root and the inodes of the master
    slave,    \* and of the slave
    tid,      \* pmp->modify_tid
    update,   \* records of the slave with HAMMER2_CHAIN_UPDATE
    thr,      \* the thread: what it does, for which inode, at which key
    list      \* the deferred inodes

syncVars == <<master, slave, tid, update, thr, list>>

Root == 0

NewInode(t, m) == [tid |-> t, meta |-> m, data |-> [b \in Blocks |-> 0]]
Idle == [at |-> "idle", ip |-> Root, key |-> 0, sync_tid |-> 0, needrescan |-> FALSE]

SyncInit ==
    /\ master = [root |-> 1, inode |-> [i \in Inodes |->
                    IF i = 1 THEN NewInode(1, 1) ELSE Absent]]
    /\ slave = [root |-> 0, inode |-> [i \in Inodes |-> Absent]]
    /\ tid = 1
    /\ update = {}
    /\ thr = Idle
    /\ list = << >>

-------------------------------------------------------------------------------
(* The master.                                                               *)
MayChange == /\ tid < MaxTid
             /\ thr.at = "idle" \/ Concurrent
             /\ tid' = tid + 1
             /\ UNCHANGED <<slave, update, thr, list>>

(* hammer2_chain_create and hammer2_chain_modify with the transaction's id.  *)
Create(i) ==
    /\ MayChange
    /\ master.inode[i] = Absent
    /\ master' = [master EXCEPT !.inode[i] = NewInode(tid', tid')]

Write(i, b) ==
    /\ MayChange
    /\ master.inode[i] # Absent
    /\ master' = [master EXCEPT !.inode[i].data[b] = tid']

SetAttr(i) ==
    /\ MayChange
    /\ master.inode[i] # Absent
    /\ master' = [master EXCEPT !.inode[i].meta = tid', !.inode[i].tid = tid']

(* hammer2_xop_inode_chain_sync: the size of the inode changes with the blocks *)
(* that go, in one transaction.                                               *)
Truncate(i, b) ==
    /\ MayChange
    /\ master.inode[i] # Absent /\ master.inode[i].data[b] # 0
    /\ master' = [master EXCEPT !.inode[i] =
          [master.inode[i] EXCEPT !.data[b] = 0, !.meta = tid', !.tid = tid']]

(* The directory, here the root, is changed with it.  An inode is not removed *)
(* while the thread may still scan it.                                        *)
Erase(i) ==
    /\ MayChange
    /\ master.inode[i] # Absent /\ thr.at = "idle"
    /\ master' = [master EXCEPT !.inode[i] = Absent, !.root = tid']

(* The flush: a record marked UPDATE is put in its parent's table, and its    *)
(* modify_tid, if larger, becomes the parent's, which is updated in turn.     *)
Raised(node, i, S) ==
    LET Ids == {node.inode[i].data[b] : b \in {x \in Blocks : <<i, x>> \in S}}
                    \cup {node.inode[i].tid}
    IN  CHOOSE t \in Ids : \A u \in Ids : u <= t
Touched(node, S) == {i \in Inodes : node.inode[i] # Absent /\ \E x \in S : x[1] = i}
Flushed(node, S) ==
    LET Now(i) == [node.inode[i] EXCEPT !.tid = Raised(node, i, S)]
        Up == {Raised(node, i, S) : i \in Touched(node, S)} \cup {node.root}
    IN  [root |-> CHOOSE t \in Up : \A u \in Up : u <= t,
         inode |-> [i \in Inodes |-> IF i \in Touched(node, S) THEN Now(i) ELSE node.inode[i]]]

(* A master's modify_tid never falls, so that every record may be offered.    *)
MasterFlush ==
    /\ thr.at = "idle" \/ Concurrent
    /\ master' = Flushed(master, Inodes \X (Blocks \cup {0}))
    /\ UNCHANGED <<slave, tid, update, thr, list>>

SlaveFlush ==
    /\ thr.at = "idle"
    /\ slave' = Flushed(slave, update)
    /\ update' = {}
    /\ UNCHANGED <<master, tid, thr, list>>

-------------------------------------------------------------------------------
(* hammer2_sync_slaves for an inode (the root first): nothing to do if its    *)
(* modify_tid is the master's, otherwise remember that and scan.              *)
TidOf(node, ip) == IF ip = Root THEN node.root ELSE node.inode[ip].tid
WantUpdate(ip) == TidOf(slave, ip) # TidOf(master, ip)

Scan(ip) == [at |-> "scan", ip |-> ip, key |-> 1, sync_tid |-> TidOf(master, ip),
             needrescan |-> FALSE]

SyncRoot ==
    /\ thr.at \in {"idle", "list"} /\ list = << >>
    /\ IF WantUpdate(Root) THEN thr' = Scan(Root) ELSE thr' = Idle
    /\ UNCHANGED <<master, slave, tid, update, list>>

SyncDeferred ==
    /\ thr.at = "list" /\ list # << >>
    /\ thr' = IF WantUpdate(Head(list)) THEN Scan(Head(list))
              ELSE [thr EXCEPT !.at = "synced"]
    /\ UNCHANGED <<master, slave, tid, update, list>>

Advance == thr' = [thr EXCEPT !.key = thr.key + 1]

(* A record of the root: an inode.  It is made compatible with no change of   *)
(* its modify_tid, and deferred.                                              *)
Defer(i) ==
    /\ thr' = [thr EXCEPT !.key = thr.key + 1, !.needrescan = TRUE]
    /\ list' = <<i>> \o list

(* Mutant: an inode is inserted with its modify_tid at once.                 *)
BugInserted(m) == NewInode(m.tid, m.meta)
Inserted(m) == NewInode(0, m.meta)

Extraneous(m, s) == m = Absent /\ s # Absent
Missing(m, s) == m # Absent /\ s = Absent
Differs(m, s) == m # Absent /\ s # Absent /\ m.tid # s.tid

ScanRoot ==
    LET i == thr.key
        m == master.inode[i]
        s == slave.inode[i]
    IN  /\ thr.at = "scan" /\ thr.ip = Root /\ i \in Inodes
        /\ \/ /\ Extraneous(m, s)                        \* hammer2_sync_destroy
              /\ slave' = [slave EXCEPT !.inode[i] = Absent]
              /\ update' = {x \in update : x[1] # i}
              /\ Advance /\ UNCHANGED list
           \/ /\ Missing(m, s)                           \* hammer2_sync_insert
              /\ slave' = [slave EXCEPT !.inode[i] = Inserted(m)]
              /\ update' = update \cup {<<i, 0>>}
              /\ Defer(i)
           \/ /\ Differs(m, s)                           \* hammer2_sync_replace
              /\ slave' = [slave EXCEPT !.inode[i].meta = m.meta]
              /\ update' = update \cup {<<i, 0>>}
              /\ Defer(i)
           \/ /\ ~Extraneous(m, s) /\ ~Missing(m, s) /\ ~Differs(m, s)
              /\ Advance /\ UNCHANGED <<slave, update, list>>
        /\ UNCHANGED <<master, tid>>

(* A record of an inode: a block, copied with its modify_tid.                 *)
(* Mutant: a block that is there already is not copied.                      *)
BugCopied(s, m) == IF s # 0 /\ m # 0 THEN s ELSE m
Copied(s, m) == m
ScanInode ==
    LET i == thr.ip
        b == thr.key
        m == master.inode[i].data[b]
        s == slave.inode[i].data[b]
    IN  /\ thr.at = "scan" /\ thr.ip # Root /\ b \in Blocks
        /\ Advance
        /\ slave' = [slave EXCEPT !.inode[i].data[b] = Copied(s, m)]
        /\ update' = IF m = s THEN update
                     ELSE IF m = 0 THEN update \ {<<i, b>>}
                     ELSE update \cup {<<i, b>>}
        /\ UNCHANGED <<master, tid, list>>

(* The end of a scan: with deferred inodes they come first, otherwise the     *)
(* inode itself gets its meta-data and the remembered modify_tid.             *)
ScanEnd ==
    /\ thr.at = "scan"
    /\ thr.key = 1 + (IF thr.ip = Root THEN NumInodes ELSE NumBlocks)
    /\ thr' = [thr EXCEPT !.at = IF thr.needrescan THEN "list" ELSE "final"]
    /\ UNCHANGED <<master, slave, tid, update, list>>

Finalized(ip, t) ==
    IF ip = Root THEN [slave EXCEPT !.root = t]
    ELSE [slave EXCEPT !.inode[ip].tid = t, !.inode[ip].meta = master.inode[ip].meta]
Finalize ==
    /\ thr.at = "final"
    /\ slave' = Finalized(thr.ip, thr.sync_tid)
    /\ update' = IF thr.ip = Root THEN update ELSE update \cup {<<thr.ip, 0>>}
    /\ thr' = IF thr.ip = Root THEN Idle ELSE [thr EXCEPT !.at = "synced"]
    /\ UNCHANGED <<master, tid, list>>

(* After each deferred inode the thread looks whether it is to stop, freeze or *)
(* start over (hammer2_thr_break), and then forgets the list.                  *)
Popped ==
    /\ thr.at = "synced"
    /\ list' = Tail(list)
    /\ thr' = [Idle EXCEPT !.at = "list"]
    /\ UNCHANGED <<master, slave, tid, update>>

Break ==
    /\ thr.at = "synced"
    /\ list' = << >>
    /\ thr' = Idle
    /\ UNCHANGED <<master, slave, tid, update>>

SyncThread == \/ SyncRoot \/ SyncDeferred \/ ScanRoot \/ ScanInode
              \/ ScanEnd \/ Finalize \/ Popped \/ Break

SyncNext ==
    \/ \E i \in Inodes : Create(i) \/ SetAttr(i) \/ Erase(i)
    \/ \E i \in Inodes, b \in Blocks : Write(i, b) \/ Truncate(i, b)
    \/ MasterFlush
    \/ SlaveFlush
    \/ SyncThread

SyncSpec == SyncInit /\ [][SyncNext]_syncVars

-------------------------------------------------------------------------------
MasterFlushed == Flushed(master, Inodes \X (Blocks \cup {0})) = master
Quiet == thr.at = "idle" /\ MasterFlushed
Contents(node, i) == [meta |-> node.inode[i].meta, data |-> node.inode[i].data]

(* An inode of the slave that bears the modify_tid of the master's is not      *)
(* scanned again, and is read in its place: with both nodes flushed it has the *)
(* same contents, however the passes that made it were cut short.              *)
InodesAgree ==
    (Quiet /\ update = {}) =>
        \A i \in Inodes :
            (slave.inode[i] # Absent /\ master.inode[i] # Absent)
            => (slave.inode[i].tid = master.inode[i].tid
                => Contents(slave, i) = Contents(master, i))

(* A pass over a flushed master leaves the slave with its inodes and their      *)
(* contents, whatever earlier passes left behind.                              *)
Same == \A i \in Inodes :
    IF master.inode[i] = Absent THEN slave.inode[i] = Absent
    ELSE slave.inode[i] # Absent /\ Contents(slave, i) = Contents(master, i)
PassEndsSame == 
    [][(thr.at = "final" /\ thr.ip = Root /\ thr' = Idle /\ MasterFlushed) => Same']_syncVars

(* The modify_tid of an inode is synchronised only when everything under it    *)
(* is: a root with the master's modify_tid has the master's inodes.            *)
RootAgrees ==
    (Quiet /\ update = {} /\ slave.root = master.root) => Same
===============================================================================
