------------------------------ MODULE Recovery ------------------------------
(***************************************************************************)
(* Crash and mount-time recovery of the freemap.                           *)
(*                                                                         *)
(* A flush writes the free block table (fchain) first, bumps the volume's  *)
(* mirror_tid, then writes the topology (vchain) and last a volume header. *)
(* Another PFS of the device may flush its part of the topology between    *)
(* the two, with blocks the table on the media does not have yet.          *)
(* "Updates to the free block table are allowed to lag flushes by one      *)
(* transaction" (hammer2_vfsops.c:1605-1608): the next mount marks every   *)
(* block with a mirror_tid beyond freemap_tid as allocated.  Bulkfree runs *)
(* at the same time, and must not free what the last header refers to.     *)
(*                                                                         *)
(* Everything on the media that a header refers to is written by the time  *)
(* the header is; the flush of fchain, down to its one leaf, is one step.  *)
(* An owner stands for a chain with storage, as in Bulkfree.               *)
(*                                                                         *)
(* A definition Bug... is a plausible error in the one below it, for the   *)
(* mutation runs; nothing else uses it.                                    *)
(***************************************************************************)
EXTENDS Freemap, FiniteSetsExt

CONSTANTS
    Owners,       \* chains of the topology
    InUse,        \* blocks of files nobody touches
    Nowhere,      \* no storage
    MaxTid        \* bound on voldata.mirror_tid

ASSUME RecoveryAssumption ==
    /\ InUse \subseteq Blocks
    /\ Nowhere \notin Extents /\ IsFiniteSet(Owners)
    /\ MaxTid \in Nat

VARIABLES
    bmap,       \* the leaf of fchain, in memory
    leafDirty,  \* fchain or what is below it has FLUSH_MASK flags
    chain,      \* bref (data_off, mirror_tid) of each owner
    modified,   \* owners with CHAIN_MODIFIED
    update,     \* owners with CHAIN_UPDATE
    voldata,    \* block tables and transaction ids in memory
    vchain,     \* MODIFIED and mirror_tid of the volume root
    volsync,    \* hmp->volsync
    pending,    \* VOLUMESYNC: volsync waits for its header
    header,     \* the newest volume header on the media
    flush,      \* a running flush: what comes next, inodes it has still to do
    bulk,       \* the state of the bulkfree ioctl
    early       \* history: a bulkfree scanned a volsync not on the media

vars == <<bmap, leafDirty, chain, modified, update, voldata, vchain, volsync,
          pending, header, flush, bulk, early>>

Tids == 0 .. MaxTid + 1
Storage == Extents \cup {Nowhere}
Brefs == [at : Storage, tid : Tids]
NoBref == [at |-> Nowhere, tid |-> 0]

\* A volume header, with the tables its block sets lead to: the topology and
\* the freemap leaf.
Volumes == [top : [Owners -> Brefs], leaf : Bmaps,
            freemap_tid : Tids, mirror_tid : Tids]
Idle == [st |-> "idle"]
NoFlush == [st |-> "idle", todo |-> {}]
FlushStates == {"idle", "inodes", "volume", "header"}

\* Stages, iterator and transaction ids stay in range, through every recovery.
TypeOK ==
    /\ bmap \in Bmaps
    /\ chain \in [Owners -> Brefs]
    /\ modified \subseteq Owners /\ update \subseteq Owners
    /\ {voldata, volsync, header} \subseteq Volumes
    /\ vchain \in [modified : BOOLEAN, mirror_tid : Tids]
    /\ {leafDirty, pending, early} \subseteq BOOLEAN
    /\ flush \in [st : FlushStates, todo : SUBSET Owners]
    /\ bulk \in [st : {"idle", "sync", "synced"}]
                \cup [st : {"scanned"}, bits : [Blocks -> {Free, Full}],
                      linear : 0..SegSize]

Pinned == {[off |-> b * Units, size |-> Units] : b \in InUse}
StoredIn(top) == {top[o].at : o \in Owners} \ {Nowhere}
Scanned(top) == StoredIn(top) \cup Pinned

\* A freshly mounted volume, with the files of InUse.
Init ==
    LET leaf == [bits |-> Fill([b \in Blocks |-> Free], InUse), linear |-> 0,
                 avail |-> Units * Cardinality(Blocks \ InUse),
                 bigmask |-> Sizes] IN
    /\ header = [top |-> [o \in Owners |-> NoBref], leaf |-> leaf,
                 freemap_tid |-> 0, mirror_tid |-> 0]
    /\ bmap = leaf /\ leafDirty = FALSE
    /\ chain = header.top /\ modified = {} /\ update = {}
    /\ voldata = header /\ volsync = header /\ pending = FALSE
    /\ vchain = [modified |-> FALSE, mirror_tid |-> 0]
    /\ flush = NoFlush /\ bulk = Idle
    /\ early = FALSE

-----------------------------------------------------------------------------
(* The frontend.                                                             *)

\* hammer2_chain_modify gives what it modifies the transaction after the
\* volume's current one.
NextTid == voldata.mirror_tid + 1

\* hammer2_voldata_modify, for allocator_free
VoldataModified ==
    IF vchain.modified THEN vchain
    ELSE [modified |-> TRUE, mirror_tid |-> NextTid]

\* hammer2_chain_modify with a new allocation
Write(o, x) ==
    /\ o \notin modified
    /\ x.off \in Offers(bmap, x.size, FALSE)
    /\ bmap' = Allocated(bmap, x) /\ leafDirty' = TRUE
    /\ vchain' = IF Charge(bmap, BlocksOf(x)) > 0 THEN VoldataModified
                 ELSE vchain
    /\ chain' = [chain EXCEPT ![o] = [at |-> x, tid |-> NextTid]]
    /\ modified' = modified \cup {o} /\ update' = update \cup {o}
    /\ UNCHANGED <<voldata, volsync, pending, header, flush, bulk, early>>

\* ... without one: the chain is modified already.
Rewrite(o) ==
    /\ o \in modified
    /\ chain' = [chain EXCEPT ![o].tid = NextTid]
    /\ UNCHANGED <<bmap, leafDirty, modified, update, voldata, vchain, volsync,
                   pending, header, flush, bulk, early>>

\* ENOSPC: the leaf is made modifiable before it is scanned.
WriteFails(o, s) ==
    /\ o \notin modified
    /\ Offers(bmap, s, FALSE) = {}
    /\ bmap' = Exhausted(bmap, s)
    /\ leafDirty' = (leafDirty \/ s \in bmap.bigmask)
    /\ UNCHANGED <<chain, modified, update, voldata, vchain, volsync, pending,
                   header, flush, bulk, early>>

Delete(o) ==
    /\ chain[o].at # Nowhere
    /\ chain' = [chain EXCEPT ![o] = [at |-> Nowhere, tid |-> NextTid]]
    /\ modified' = modified \ {o} /\ update' = update \cup {o}
    /\ UNCHANGED <<bmap, leafDirty, voldata, vchain, volsync, pending, header,
                   flush, bulk, early>>
-----------------------------------------------------------------------------
(* hammer2_flush of inodes and of the two roots (hammer2_xop_inode_flush).   *)

Now(st) == [st |-> st, todo |-> {}]

\* The flush of an inode, of any PFS of the device and at any time: the change
\* reaches the block set of the volume.
FlushOwner(o) ==
    /\ o \in update
    /\ voldata' = [voldata EXCEPT !.top[o] = chain[o]]
    /\ vchain' = [modified |-> TRUE, mirror_tid |-> NextTid]
    /\ modified' = modified \ {o} /\ update' = update \ {o}
    /\ flush' = [flush EXCEPT !.todo = flush.todo \ {o}]
    /\ UNCHANGED <<bmap, leafDirty, chain, volsync, pending, header, bulk,
                   early>>

\* hammer2_vfs_sync_pmp takes the inodes that are dirty when it begins.
StartFlush ==
    /\ flush = NoFlush
    /\ voldata.mirror_tid + 2 <= MaxTid
    /\ flush' = [st |-> "inodes", todo |-> update]

FlushBegin ==
    /\ update # {} \/ leafDirty \/ vchain.modified
    /\ StartFlush
    /\ UNCHANGED <<bmap, leafDirty, chain, modified, update, voldata, vchain,
                   volsync, pending, header, bulk, early>>

BugFlushFreemap ==
    /\ flush = Now("inodes")
    /\ flush' = Now("volume")
    /\ IF leafDirty
       THEN /\ leafDirty' = FALSE
            /\ vchain' = VoldataModified
            /\ voldata' = [voldata EXCEPT !.leaf = bmap,
                                          !.freemap_tid = NextTid]
       ELSE UNCHANGED <<leafDirty, vchain, voldata>>
    /\ UNCHANGED <<bmap, chain, modified, update, volsync, pending, header,
                   bulk, early>>

\* fchain: freemap_tid is the flushed table's mirror_tid, and what is modified
\* from now on gets a later one ("Otherwise the mount recovery code will get
\* confused").
FlushFreemap ==
    /\ flush = Now("inodes")
    /\ flush' = Now("volume")
    /\ IF leafDirty
       THEN /\ leafDirty' = FALSE
            /\ vchain' = VoldataModified
            /\ voldata' = [voldata EXCEPT !.leaf = bmap,
                                          !.freemap_tid = NextTid,
                                          !.mirror_tid = NextTid]
       ELSE UNCHANGED <<leafDirty, vchain, voldata>>
    /\ UNCHANGED <<bmap, chain, modified, update, volsync, pending, header,
                   bulk, early>>

BugSynced == voldata
\* voldata once BREF_TYPE_VOLUME is flushed
Synced ==
    [voldata EXCEPT !.mirror_tid =
        IF voldata.mirror_tid < vchain.mirror_tid THEN vchain.mirror_tid
        ELSE voldata.mirror_tid]

\* vchain: the header to write is fixed.
FlushVolume ==
    /\ flush = Now("volume")
    /\ flush' = Now("header")
    /\ IF vchain.modified
       THEN /\ voldata' = Synced /\ volsync' = Synced
            /\ vchain' = [vchain EXCEPT !.modified = FALSE]
            /\ pending' = TRUE
       ELSE UNCHANGED <<voldata, volsync, vchain, pending>>
    /\ UNCHANGED <<bmap, leafDirty, chain, modified, update, header, bulk,
                   early>>

FlushDone ==
    /\ flush' = NoFlush
    /\ bulk' = IF bulk.st = "sync" THEN [st |-> "synced"] ELSE bulk
    /\ UNCHANGED <<bmap, leafDirty, chain, modified, update, voldata, vchain,
                   volsync>>

\* The device buffers are on the media, then the header is.
WriteHeader ==
    /\ flush = Now("header")
    /\ header' = IF pending THEN volsync ELSE header
    /\ pending' = FALSE
    /\ FlushDone
    /\ UNCHANGED early

\* An error of fsync leaves VOLUMESYNC set, one of the header's own write does
\* not.  The error is dropped in hammer2_vfs_sync_pmp: bulkfree goes on.
HeaderFails ==
    /\ flush = Now("header") /\ pending
    /\ pending' \in BOOLEAN
    /\ FlushDone
    /\ UNCHANGED <<header, early>>
-----------------------------------------------------------------------------
(* Bulkfree, as in module Bulkfree.                                          *)

BulkSync ==
    /\ bulk = Idle
    /\ bulk' = [st |-> "sync"]
    /\ StartFlush
    /\ UNCHANGED <<bmap, leafDirty, chain, modified, update, voldata, vchain,
                   volsync, pending, header, early>>

BulkScan ==
    /\ bulk.st = "synced"
    /\ \E l \in ScanLinears(StoredIn(volsync.top)) :
          bulk' = [st |-> "scanned", bits |-> ScanBits(Scanned(volsync.top)),
                   linear |-> l]
    /\ early' = (early \/ volsync # header)
    /\ UNCHANGED <<bmap, leafDirty, chain, modified, update, voldata, vchain,
                   volsync, pending, header, flush>>

BulkMerge ==
    /\ bulk.st = "scanned"
    /\ bulk' = Idle
    /\ IF InSync(bmap, bulk)
       THEN UNCHANGED <<bmap, leafDirty, vchain>>
       ELSE /\ bmap' = Merged(bmap, bulk) /\ leafDirty' = TRUE
            /\ vchain' = VoldataModified
    /\ UNCHANGED <<chain, modified, update, voldata, volsync, pending, header,
                   flush, early>>
-----------------------------------------------------------------------------
(* A crash, and the next mount.                                              *)

BugLater(h) == {o \in Owners : h.top[o].tid > h.freemap_tid + 1}
\* What hammer2_recovery_scan comes to: the entries of the header's topology
\* that are newer than its freemap.
Later(h) == {o \in Owners : h.top[o].tid > h.freemap_tid}

Recovered(h) ==
    FoldSet(LAMBDA x, m : Adjusted(m, x), h.leaf,
            {h.top[o].at : o \in Later(h)} \ {Nowhere})

Crash ==
    /\ LET m == Recovered(header) IN
       /\ bmap' = m /\ leafDirty' = (m # header.leaf)
       /\ vchain' = [modified |-> m.avail # header.leaf.avail,
                     mirror_tid |-> header.mirror_tid
                                    + IF m.avail # header.leaf.avail
                                      THEN 1 ELSE 0]
    /\ chain' = header.top /\ modified' = {} /\ update' = {}
    /\ voldata' = header /\ volsync' = header /\ pending' = FALSE
    /\ flush' = NoFlush /\ bulk' = Idle
    /\ UNCHANGED <<header, early>>
-----------------------------------------------------------------------------
Frontend(o) ==
    \/ \E s \in Sizes :
          \/ \E off \in Offers(bmap, s, FALSE) :
                Write(o, [off |-> off, size |-> s])
          \/ WriteFails(o, s)
    \/ Rewrite(o) \/ Delete(o)

Next ==
    \/ \E o \in Owners : Frontend(o) \/ FlushOwner(o)
    \/ FlushBegin \/ FlushFreemap \/ FlushVolume \/ WriteHeader \/ HeaderFails
    \/ BulkSync \/ BulkScan \/ BulkMerge
    \/ Crash

Spec == Init /\ [][Next]_vars
-----------------------------------------------------------------------------
(* Properties                                                                *)

\* Wherever a crash comes, the next mount has every block of the topology it
\* finds marked allocated (or staged by a bulkfree that will find it now),
\* though the freemap on the media is older than the topology.
CrashCovered ==
    \A x \in Scanned(header.top) : \A b \in BlocksOf(x) :
        Recovered(header).bits[b] # Free

\* Everything a mount after a crash would read.
OnMedia == Scanned(header.top)

\* No new allocation lands on what the header on the media refers to, nor on
\* anything else in use, across crashes, recoveries and bulkfree.
NeverOverwrites ==
    [][~early => \A o \in Owners :
          chain'[o].at \notin {chain[o].at, header.top[o].at, Nowhere} =>
             \A x \in OnMedia \cup StoredIn(chain) \cup StoredIn(voldata.top)
                        \cup StoredIn(volsync.top) :
                UnitsOf(x) \cap UnitsOf(chain'[o].at) = {}]_vars

\* bulksnap is "to snapshot the synchronized storage for a volume"
\* (hammer2_chain.c:4980): what it lets bulkfree free is not in use on the
\* media, and a crash at any point finds the blocks of the header as they were.
MediaNotFree ==
    \A x \in OnMedia : \A b \in BlocksOf(x) : bmap.bits[b] # Free

\* The same, unless a scan was made of a volsync whose header was not out.
SnapshotNotFree == ~early => MediaNotFree

\* The mount picks the header with the highest mirror_tid
\* (hammer2_ondisk.c:617): a newer one always has a higher one.
HeaderTidGrows ==
    [][header' # header => header'.mirror_tid > header.mirror_tid]_vars

\* The bitmap's avail counts its free blocks, after a recovery too.
AvailExact == bmap.avail = Units * Cardinality(FreeBlocks(bmap.bits))

\* What the header on the media refers to is allocated, and the bitmap counts
\* right, through flushes, bulkfree passes and recoveries (hammer2_recovery,
\* hammer2_freemap_adjust).
SpaceRecovered == TypeOK /\ SnapshotNotFree /\ AvailExact

\* "Be sure to reset the linear iterator to ensure that the adjustment is not
\* ignored." (hammer2_freemap.c:898-899): after a recovery the iterator does not
\* point at fragments the recovered topology uses.
RecoveryResetsIterator ==
    LET m == Recovered(header) IN
    MidBlock(m.linear) =>
        \A x \in OnMedia : \A u \in UnitsOf(x) :
            BlockOf(u) = BlockOf(m.linear) => u < m.linear
=============================================================================
