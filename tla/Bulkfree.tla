------------------------------ MODULE Bulkfree ------------------------------
(***************************************************************************)
(* Allocation, copy-on-write, deduplication, flush and bulkfree over one   *)
(* bitmap of the freemap.                                                  *)
(*                                                                         *)
(* Nothing frees a block when it is replaced or deleted.  Bulkfree scans a *)
(* snapshot of the topology as last flushed and moves every block it does  *)
(* not find one stage, 11 -> 10 -> 00, while the frontend allocates,       *)
(* deletes and deduplicates against the live bitmap.  "Races are handled   *)
(* using a double-transition (11->10, 10->00)" (hammer2_bulkfree.c:395),   *)
(* because what was allocated since the snapshot is not in it.             *)
(*                                                                         *)
(* An owner stands for a chain with media storage: a data block, or a      *)
(* block of meta-data.  The chains above it are left out; that a flush     *)
(* may fail for want of a block for one of them is FlushMayFail.           *)
(*                                                                         *)
(* A definition Bug... is a plausible error in the one below it, for the   *)
(* mutation runs; nothing else uses it.                                    *)
(***************************************************************************)
EXTENDS Freemap

CONSTANTS
    Owners,        \* chains of the topology
    DataOwners,    \* those of type BREF_TYPE_DATA
    Nowhere,       \* no storage
    DedupEnable,   \* hammer2_dedup_enable
    FlushMayFail   \* may a flush run out of blocks for a parent?

ASSUME BulkfreeAssumption ==
    /\ DataOwners \subseteq Owners /\ IsFiniteSet(Owners)
    /\ Nowhere \notin Extents
    /\ {DedupEnable, FlushMayFail} \subseteq BOOLEAN

VARIABLES
    bmap,        \* the live bitmap, in the freemap leaf's chain
    allocFree,   \* hmp->voldata.allocator_free
    dataOff,     \* chain->bref.data_off of each owner
    modified,    \* owners with CHAIN_MODIFIED
    update,      \* owners with CHAIN_UPDATE: the parent's blockref is older
    dedupable,   \* owners with CHAIN_DEDUPABLE
    writing,     \* owners with storage assigned whose data is not copied yet
    dedupOff,    \* what hammer2_dedup_lookup returned, not yet assigned
    heurDedup,   \* data_off entries of hmp->heur_dedup
    allocMask,   \* units with their dio->dedup_alloc bit set
    validMask,   \* units with their dio->dedup_valid bit set
    blockref,    \* each owner's blockref in the block table of its parent
    volsync,     \* the topology of hmp->volsync, as the last flush left it
    flush,       \* the owners a running flush has not come to, or NoFlush
    bulk,        \* the state of the bulkfree ioctl
    enospc       \* history: a flush has run out of blocks

dedupVars == <<dedupable, writing, dedupOff, heurDedup, allocMask, validMask>>
flushVars == <<blockref, volsync, flush, enospc>>
vars == <<bmap, allocFree, dataOff, modified, update, dedupVars, flushVars,
          bulk>>

Storage == Extents \cup {Nowhere}
AllUnits == Offs
Topologies == [Owners -> Storage]
Scans == [bits : [Blocks -> {Free, Full}], linear : 0..SegSize]
Idle == [st |-> "idle"]
NoFlush == [st |-> "idle"]

\* Stages, iterator and flags of a bitmap stay in range, through every merge.
TypeOK ==
    /\ bmap \in Bmaps
    /\ allocFree \in Int
    /\ dataOff \in Topologies
    /\ {modified, update, dedupable, writing} \subseteq SUBSET Owners
    /\ dedupOff \in Topologies
    /\ heurDedup \subseteq Extents
    /\ allocMask \subseteq AllUnits /\ validMask \subseteq AllUnits
    /\ blockref \in Topologies /\ volsync \in Topologies
    /\ flush \in {NoFlush} \cup [st : {"run"}, todo : SUBSET Owners]
    /\ bulk \in [st : {"idle", "sync", "synced"}]
                \cup [st : {"scanned"}, scan : Scans]
    /\ enospc \in BOOLEAN

Stored(top) == {top[o] : o \in Owners} \ {Nowhere}

\* newfs_hammer2 left nothing of the topology in this bitmap.
Init ==
    /\ bmap = [bits |-> [b \in Blocks |-> Free], linear |-> 0,
               avail |-> SegSize, bigmask |-> Sizes]
    /\ allocFree = SegSize
    /\ dataOff = [o \in Owners |-> Nowhere]
    /\ modified = {} /\ update = {} /\ dedupable = {} /\ writing = {}
    /\ dedupOff = dataOff /\ heurDedup = {}
    /\ allocMask = {} /\ validMask = {}
    /\ blockref = dataOff /\ volsync = dataOff
    /\ flush = NoFlush
    /\ bulk = Idle
    /\ enospc = FALSE

-----------------------------------------------------------------------------
(* The frontend: hammer2_chain_create, _modify and _delete.                  *)

\* chain->lock: an owner is not touched between the steps of one operation.
Unlocked(o) == o \notin writing /\ dedupOff[o] = Nowhere

\* chain_modify takes new storage, unless the chain is modified already and
\* nobody may deduplicate against it.
NewMod(o) ==
    o \notin modified \/ o \in dedupable \/ dataOff[o] = Nowhere

\* hammer2_chain_modify: hammer2_freemap_alloc finds x.  For data it clears the
\* valid bits of the dio, sets the alloc bits, and the copy of the data follows.
Write(o, x) ==
    /\ Unlocked(o) /\ NewMod(o)
    /\ x.off \in Offers(bmap, x.size, o \in DataOwners)
    /\ bmap' = Allocated(bmap, x)
    /\ allocFree' = allocFree - Charge(bmap, BlocksOf(x))
    /\ dataOff' = [dataOff EXCEPT ![o] = x]
    /\ modified' = modified \cup {o} /\ update' = update \cup {o}
    /\ dedupable' = dedupable \ {o}
    /\ IF o \in DataOwners
       THEN /\ writing' = writing \cup {o}
            /\ allocMask' = allocMask \cup UnitsOf(x)
            /\ validMask' = validMask \ UnitsOf(x)
       ELSE UNCHANGED <<writing, allocMask, validMask>>
    /\ UNCHANGED <<dedupOff, heurDedup, flushVars, bulk>>

\* ENOSPC: chain_modify gives up its flags again.
WriteFails(o, s) ==
    /\ Unlocked(o) /\ NewMod(o)
    /\ Offers(bmap, s, o \in DataOwners) = {}
    /\ bmap' = Exhausted(bmap, s)
    /\ UNCHANGED <<allocFree, dataOff, modified, update, dedupVars, flushVars,
                   bulk>>

\* hammer2_write_bp copied the data; hammer2_dedup_record follows.
Record(o) ==
    /\ o \in writing
    /\ writing' = writing \ {o}
    /\ IF DedupEnable
       THEN /\ dedupable' = dedupable \cup {o}
            /\ heurDedup' = heurDedup \cup {dataOff[o]}
            /\ validMask' = validMask \cup UnitsOf(dataOff[o])
       ELSE UNCHANGED <<dedupable, heurDedup, validMask>>
    /\ UNCHANGED <<bmap, allocFree, dataOff, modified, update, dedupOff,
                   allocMask, flushVars, bulk>>

\* hammer2_chain_delete; what was not flushed yet loses its dedup bits (the
\* flush does that when it comes to the destroyed chain).
Delete(o) ==
    /\ Unlocked(o) /\ dataOff[o] # Nowhere
    /\ dataOff' = [dataOff EXCEPT ![o] = Nowhere]
    /\ modified' = modified \ {o} /\ update' = update \cup {o}
    /\ dedupable' = dedupable \ {o}
    /\ IF o \in modified \cap DataOwners
       THEN /\ allocMask' = allocMask \ UnitsOf(dataOff[o])
            /\ validMask' = validMask \ UnitsOf(dataOff[o])
       ELSE UNCHANGED <<allocMask, validMask>>
    /\ UNCHANGED <<bmap, allocFree, writing, dedupOff, heurDedup, flushVars, bulk>>

BugDedupLookup(o, x) ==
    /\ DedupEnable /\ o \in DataOwners
    /\ Unlocked(o) /\ NewMod(o)
    /\ x \in heurDedup
    /\ dedupOff' = [dedupOff EXCEPT ![o] = x]
    /\ UNCHANGED <<bmap, allocFree, dataOff, modified, update, dedupable,
                   writing, heurDedup, allocMask, validMask, flushVars, bulk>>

\* hammer2_dedup_lookup: the data is on the media already, at x.  The dio is
\* released before chain_create or chain_modify is called with x.
DedupLookup(o, x) ==
    /\ DedupEnable /\ o \in DataOwners
    /\ Unlocked(o) /\ NewMod(o)
    /\ x \in heurDedup /\ UnitsOf(x) \subseteq allocMask \cap validMask
    /\ dedupOff' = [dedupOff EXCEPT ![o] = x]
    /\ UNCHANGED <<bmap, allocFree, dataOff, modified, update, dedupable,
                   writing, heurDedup, allocMask, validMask, flushVars, bulk>>

\* hammer2_chain_modify with dedup_off: the bits are set back to 11.
DedupAssign(o) ==
    /\ dedupOff[o] # Nowhere
    /\ dataOff' = [dataOff EXCEPT ![o] = dedupOff[o]]
    /\ dedupOff' = [dedupOff EXCEPT ![o] = Nowhere]
    /\ bmap' = Adjusted(bmap, dedupOff[o])
    /\ allocFree' = allocFree - Charge(bmap, AdjustTargets(dedupOff[o]))
    /\ modified' = modified \ {o} /\ update' = update \cup {o}
    /\ dedupable' = dedupable \cup {o}
    /\ UNCHANGED <<writing, heurDedup, allocMask, validMask, flushVars, bulk>>

-----------------------------------------------------------------------------
(* hammer2_vfs_sync_pmp and hammer2_flush.                                   *)

StartFlush == flush' = [st |-> "run", todo |-> Owners]

\* Without FLUSH_MASK flags a flush does nothing.
FlushBegin ==
    /\ flush = NoFlush /\ update # {}
    /\ StartFlush
    /\ UNCHANGED <<bmap, allocFree, dataOff, modified, update, dedupVars,
                   blockref, volsync, enospc, bulk>>

BugFlushOwner(o) ==
    /\ flush.st = "run" /\ o \in flush.todo
    /\ Unlocked(o)
    /\ flush' = [flush EXCEPT !.todo = flush.todo \ {o}]
    /\ blockref' = [blockref EXCEPT ![o] = IF o \in modified THEN dataOff[o]
                                           ELSE blockref[o]]
    /\ modified' = modified \ {o} /\ update' = update \ {o}
    /\ UNCHANGED <<bmap, allocFree, dataOff, dedupVars, volsync, enospc, bulk>>

\* hammer2_flush_core for one owner: its data is out, the parent's block table
\* gets its blockref.
FlushOwner(o) ==
    /\ flush.st = "run" /\ o \in flush.todo
    /\ Unlocked(o)
    /\ flush' = [flush EXCEPT !.todo = flush.todo \ {o}]
    /\ blockref' = [blockref EXCEPT ![o] = IF o \in update THEN dataOff[o]
                                           ELSE blockref[o]]
    /\ modified' = modified \ {o} /\ update' = update \ {o}
    /\ UNCHANGED <<bmap, allocFree, dataOff, dedupVars, volsync, enospc, bulk>>

\* chain_modify of the parent fails: UPDATE is set again and the flush goes on.
FlushOwnerFails(o, s) ==
    /\ FlushMayFail
    /\ flush.st = "run" /\ o \in flush.todo \cap update
    /\ Unlocked(o)
    /\ Offers(bmap, s, FALSE) = {}
    /\ flush' = [flush EXCEPT !.todo = flush.todo \ {o}]
    /\ modified' = modified \ {o}
    /\ bmap' = Exhausted(bmap, s)
    /\ enospc' = TRUE
    /\ UNCHANGED <<allocFree, dataOff, update, dedupVars, blockref, volsync,
                   bulk>>

\* The volume root: volsync is a copy of voldata, errors or not.  The error a
\* flush ends with does not leave vfs_sync_pmp, so the ioctl goes on.
FlushVolume ==
    /\ flush.st = "run" /\ flush.todo = {}
    /\ volsync' = blockref
    /\ flush' = NoFlush
    /\ bulk' = IF bulk.st = "sync" THEN [st |-> "synced"] ELSE bulk
    /\ UNCHANGED <<bmap, allocFree, dataOff, modified, update, dedupVars,
                   blockref, enospc>>

-----------------------------------------------------------------------------
(* hammer2_ioctl_bulkfree_scan and hammer2_bulkfree_pass, under hmp->bflk.   *)

BugBulkSync ==
    /\ bulk = Idle
    /\ bulk' = [st |-> "synced"]
    /\ UNCHANGED <<bmap, allocFree, dataOff, modified, update, dedupVars,
                   flushVars>>

\* The ioctl flushes first, with a flush of its own.
BulkSync ==
    /\ bulk = Idle /\ flush = NoFlush
    /\ StartFlush
    /\ bulk' = [st |-> "sync"]
    /\ UNCHANGED <<bmap, allocFree, dataOff, modified, update, dedupVars,
                   blockref, volsync, enospc>>

\* hammer2_chain_bulksnap copies volsync, hammer2_dedup_clear empties the
\* table, and the scan collects the bitmap of the snapshot.
BulkScan ==
    /\ bulk.st = "synced"
    /\ \E l \in ScanLinears(Stored(volsync)) :
          bulk' = [st |-> "scanned",
                   scan |-> [bits |-> ScanBits(Stored(volsync)), linear |-> l]]
    /\ heurDedup' = {}
    /\ UNCHANGED <<bmap, allocFree, dataOff, modified, update, dedupable,
                   writing, dedupOff, allocMask, validMask, flushVars>>

\* A signal or an error during the scan: no merge.
BulkAbort ==
    /\ bulk.st = "scanned"
    /\ bulk' = Idle
    /\ UNCHANGED <<bmap, allocFree, dataOff, modified, update, dedupVars,
                   flushVars>>

UnitsAt(bs) == UNION {UnitsIn(b) : b \in bs}

BugForget(bs) == {}
Forget(bs) == UnitsAt(bs)

\* h2_bulkfree_sync: 11->10 forgets what the dio knew for dedup.
BulkMerge ==
    /\ bulk.st = "scanned"
    /\ bulk' = Idle
    /\ IF InSync(bmap, bulk.scan)
       THEN UNCHANGED <<bmap, allocFree, allocMask, validMask>>
       ELSE LET gone == Forget(Unstaged(bmap, bulk.scan)) IN
            /\ bmap' = Merged(bmap, bulk.scan)
            /\ allocFree' = allocFree + AdjFree(bmap, bulk.scan)
            /\ allocMask' = allocMask \ gone
            /\ validMask' = validMask \ gone
    /\ UNCHANGED <<dataOff, modified, update, dedupable, writing, dedupOff,
                   heurDedup, flushVars>>

-----------------------------------------------------------------------------
Frontend(o) ==
    \/ \E s \in Sizes :
          \/ \E off \in Offers(bmap, s, o \in DataOwners) :
                Write(o, [off |-> off, size |-> s])
          \/ WriteFails(o, s)
    \/ \E x \in heurDedup : DedupLookup(o, x)
    \/ Record(o) \/ Delete(o) \/ DedupAssign(o)

Flusher ==
    \/ FlushBegin \/ FlushVolume
    \/ \E o \in Owners : FlushOwner(o) \/ \E s \in Sizes : FlushOwnerFails(o, s)

Bulkfreer == BulkSync \/ BulkScan \/ BulkAbort \/ BulkMerge

Next == Flusher \/ Bulkfreer \/ \E o \in Owners : Frontend(o)

Spec == Init /\ [][Next]_vars

\* Kernel threads finish what they began, the syncer flushes, and somebody runs
\* bulkfree again and again; a pass may be aborted, but not every one.
Fairness ==
    /\ WF_vars(Flusher)
    /\ \A o \in Owners : WF_vars(Record(o)) /\ WF_vars(DedupAssign(o))
    /\ WF_vars(BulkSync) /\ WF_vars(BulkScan) /\ SF_vars(BulkMerge)

FairSpec == Spec /\ Fairness

-----------------------------------------------------------------------------
(* Properties                                                                *)

\* What may still be read: the chains in memory, the block tables they are
\* flushed into, and the topology of the volume header.
Referenced ==
    Stored(dataOff) \cup Stored(blockref) \cup Stored(volsync)
        \cup Stored(dedupOff)

\* No block that anything still refers to becomes free, however writes,
\* deletes, deduplication and flushes fall between the bulkfree's snapshot and
\* its merge.  (Until a flush fails; LiveNotFree is about that.)
ReferencedNotFree ==
    ~enospc =>
        \A x \in Referenced : \A b \in BlocksOf(x) : bmap.bits[b] # Free

\* hammer2_freemap_alloc hands out space that nothing refers to.
NeverOverwrites ==
    [][~enospc => \A o \in Owners :
          dataOff'[o] \notin {dataOff[o], dedupOff[o], Nowhere} =>
             \A x \in Referenced : UnitsOf(x) \cap UnitsOf(dataOff'[o]) = {}]_vars

\* The iterator is inside a block only when the rest of that block is unused
\* and the block is allocated, after merges and adjustments too.
IteratorSane ==
    MidBlock(bmap.linear) =>
        /\ bmap.bits[BlockOf(bmap.linear)] = Full
        /\ \A x \in Referenced : \A u \in UnitsOf(x) :
              BlockOf(u) = BlockOf(bmap.linear) => u < bmap.linear

\* The bitmap's avail and the volume's allocator_free both count the free
\* blocks, so no clamp of the merge ever bites.
FreeSpaceExact ==
    /\ bmap.avail = Units * Cardinality(FreeBlocks(bmap.bits))
    /\ allocFree = bmap.avail

\* "The dedup bits are cleared when bulkfree transitions the freemap from
\* 11->10, and asserted to be clear on the 10->00 transition"
\* (hammer2_freemap.c:425-427).
StagedNotDedupable ==
    \A b \in Blocks : bmap.bits[b] # Full => UnitsIn(b) \cap allocMask = {}

\* bigmask is permissive: a size it excludes cannot be allocated.
BigmaskPermissive ==
    \A s \in Sizes :
        Slots(bmap.bits, s) # {} \/ (IsFrag(s) /\ LinearFits(bmap, s)) =>
            s \in bmap.bigmask

\* The bitmap, its bigmask and its counts agree (hammer2_bmap_alloc,
\* h2_bulkfree_sync_adjust).
SpaceAccounted == TypeOK /\ FreeSpaceExact /\ BigmaskPermissive

\* What bulkfree stages or frees is neither in use nor offered by live
\* deduplication, and is counted (hammer2_dedup_clear, hammer2_freemap_adjust).
DedupSafe == ReferencedNotFree /\ StagedNotDedupable /\ FreeSpaceExact

\* "If we have an ENOSPC error we have to bulkfree on the live topology.
\* Otherwise we can bulkfree on a snapshot." (hammer2_ioctl.c:770-771): a flush
\* that ran out of space does not make bulkfree free what it could not record.
LiveNotFree ==
    \A x \in Stored(dataOff) : \A b \in BlocksOf(x) : bmap.bits[b] # Free

\* Nothing leaks for good: once the owners are left alone, bulkfree finds every
\* block nobody uses, whatever was replaced, deleted, failed or deduplicated
\* before, and keeps the used ones allocated.
Reclaims ==
    []~enospc /\ <>[][FALSE]_<<dataOff, dedupOff>> =>
        <>[](\A b \in Blocks :
                bmap.bits[b] = Free <=>
                    \A x \in Stored(dataOff) : b \notin BlocksOf(x))
=============================================================================
