---------------------------- MODULE BulkfreeProofs ----------------------------
(***************************************************************************)
(* Theorems about Bulkfree, for every geometry of the bitmap, every set of *)
(* sizes and of owners.  Three invariants, each resting on the one before: *)
(*                                                                         *)
(*   SpaceInv   the bitmap is typed, counted and described by its bigmask; *)
(*              what is staged or free is not offered for deduplication;   *)
(*   CoverInv   what a merge may free is found by the scan it merges;      *)
(*   IterInv    without deduplication, the rest of the block the iterator  *)
(*              is in is unused.                                           *)
(***************************************************************************)
EXTENDS Bulkfree, FreemapProofs

-----------------------------------------------------------------------------
(* What a step does to the references.                                       *)

\* The extents of a topology are the entries that have storage.
LEMMA StoredIs ==
    ASSUME NEW top \in Topologies
    PROVE  \A x : x \in Stored(top) <=> x # Nowhere /\ \E o \in Owners : top[o] = x
  BY DEF Stored

\* A topology refers to finitely many extents: its scan has an end.
LEMMA StoredFinite ==
    ASSUME NEW top \in Topologies
    PROVE  IsFiniteSet(Stored(top))
<1> DEFINE S == {top[o] : o \in Owners}
<1>1. top \in Surjection(Owners, S)
  BY DEF Surjection, Topologies
<1>2. IsFiniteSet(S)
  BY <1>1, FS_Surjection, BulkfreeAssumption
<1>3. Stored(top) \in SUBSET S
  BY DEF Stored
<1>4. QED
  BY <1>2, <1>3, FS_Subset

\* An entry of a topology is no storage or an extent.
LEMMA StorageIs ==
    ASSUME NEW top \in Topologies, NEW o \in Owners
    PROVE  top[o] = Nowhere \/ (top[o] \in Extents /\ top[o] \in Stored(top))
  BY DEF Topologies, Storage, Stored

\* Every topology that is read is built from entries of the others.
LEMMA StoredExcept ==
    ASSUME NEW top \in Topologies, NEW o \in Owners, NEW x
    PROVE  Stored([top EXCEPT ![o] = x]) \subseteq Stored(top) \cup ({x} \ {Nowhere})
  BY DEF Stored, Topologies

\* hammer2_chain_modify: only the new extent is referred to that was not.
LEMMA WriteRefers ==
    ASSUME TypeOK, NEW o \in Owners, NEW x, Write(o, x)
    PROVE  Referenced' \subseteq Referenced \cup {x}
<1>1. Stored(dataOff') \subseteq Stored(dataOff) \cup {x}
  BY StoredExcept DEF TypeOK, Write
<1>2. UNCHANGED <<blockref, volsync, dedupOff>>
  BY DEF Write, flushVars
<1>3. QED
  BY <1>1, <1>2 DEF Referenced

\* hammer2_dedup_lookup: only the extent it returns is referred to anew.
LEMMA LookupRefers ==
    ASSUME TypeOK, NEW o \in Owners, NEW x, DedupLookup(o, x)
    PROVE  Referenced' \subseteq Referenced \cup {x}
<1>1. Stored(dedupOff') \subseteq Stored(dedupOff) \cup {x}
  BY StoredExcept DEF TypeOK, DedupLookup
<1>2. UNCHANGED <<blockref, volsync, dataOff>>
  BY DEF DedupLookup, flushVars
<1>3. QED
  BY <1>1, <1>2 DEF Referenced

\* hammer2_chain_modify with dedup_off: the extent was referred to already.
LEMMA AssignRefers ==
    ASSUME TypeOK, NEW o \in Owners, DedupAssign(o)
    PROVE  Referenced' \subseteq Referenced
<1>1. Stored(dataOff') \subseteq Stored(dataOff) \cup ({dedupOff[o]} \ {Nowhere})
  BY StoredExcept DEF TypeOK, DedupAssign
<1>2. Stored(dedupOff') \subseteq Stored(dedupOff) \cup ({Nowhere} \ {Nowhere})
  BY StoredExcept DEF TypeOK, DedupAssign
<1>3. {dedupOff[o]} \ {Nowhere} \subseteq Stored(dedupOff)
  BY DEF Stored
<1>4. UNCHANGED <<blockref, volsync>>
  BY DEF DedupAssign, flushVars
<1>5. QED
  BY <1>1, <1>2, <1>3, <1>4 DEF Referenced

\* hammer2_chain_delete refers to nothing new.
LEMMA DeleteRefers ==
    ASSUME TypeOK, NEW o \in Owners, Delete(o)
    PROVE  Referenced' \subseteq Referenced
<1>1. Stored(dataOff') \subseteq Stored(dataOff) \cup ({Nowhere} \ {Nowhere})
  BY StoredExcept DEF TypeOK, Delete
<1>2. UNCHANGED <<blockref, volsync, dedupOff>>
  BY DEF Delete, flushVars
<1>3. QED
  BY <1>1, <1>2 DEF Referenced

\* hammer2_flush_core copies a reference of the chain into its parent.
LEMMA FlushOwnerRefers ==
    ASSUME TypeOK, NEW o \in Owners, FlushOwner(o)
    PROVE  Referenced' \subseteq Referenced
<1> DEFINE x == IF o \in update THEN dataOff[o] ELSE blockref[o]
<1>1. Stored(blockref') \subseteq Stored(blockref) \cup ({x} \ {Nowhere})
  BY StoredExcept DEF TypeOK, FlushOwner
<1>2. {x} \ {Nowhere} \subseteq Stored(dataOff) \cup Stored(blockref)
  BY DEF Stored
<1>3. UNCHANGED <<dataOff, volsync, dedupOff>>
  BY DEF FlushOwner, dedupVars
<1>4. QED
  BY <1>1, <1>2, <1>3 DEF Referenced

\* The steps that leave the bits and the iterator alone.
Quiet ==
    \/ \E o \in Owners : \E s \in Sizes : WriteFails(o, s) \/ FlushOwnerFails(o, s)
    \/ \E o \in Owners : Record(o) \/ Delete(o) \/ FlushOwner(o)
    \/ FlushBegin \/ FlushVolume
    \/ BulkSync \/ BulkScan \/ BulkAbort
    \/ UNCHANGED vars

\* Steps that allocate nothing leave bits and iterator, and add no reference.
LEMMA QuietRefers ==
    ASSUME TypeOK, Quiet
    PROVE  /\ Referenced' \subseteq Referenced
           /\ bmap'.bits = bmap.bits /\ bmap'.linear = bmap.linear
<1>1. ASSUME NEW o \in Owners, Delete(o)
      PROVE  Referenced' \subseteq Referenced /\ bmap' = bmap
  BY <1>1, DeleteRefers DEF Delete
<1>2. ASSUME NEW o \in Owners, FlushOwner(o)
      PROVE  Referenced' \subseteq Referenced /\ bmap' = bmap
  BY <1>2, FlushOwnerRefers DEF FlushOwner
<1>3. ASSUME FlushVolume
      PROVE  Referenced' \subseteq Referenced /\ bmap' = bmap
  BY <1>3 DEF FlushVolume, Referenced, dedupVars
<1>4. ASSUME NEW o \in Owners, NEW s \in Sizes, WriteFails(o, s) \/ FlushOwnerFails(o, s)
      PROVE  Referenced' \subseteq Referenced /\ bmap' = Exhausted(bmap, s)
  BY <1>4 DEF WriteFails, FlushOwnerFails, Referenced, dedupVars, flushVars
<1>5. ASSUME \/ \E o \in Owners : Record(o)
             \/ FlushBegin \/ BulkSync \/ BulkScan \/ BulkAbort \/ UNCHANGED vars
      PROVE  Referenced' \subseteq Referenced /\ bmap' = bmap
  <2>1. UNCHANGED <<bmap, dataOff, blockref, volsync, dedupOff>>
    BY <1>5 DEF Record, FlushBegin, BulkSync, BulkScan, BulkAbort, vars, dedupVars, flushVars
  <2>2. QED
    BY <2>1 DEF Referenced
<1>6. ASSUME NEW s
      PROVE  /\ Exhausted(bmap, s).bits = bmap.bits
             /\ Exhausted(bmap, s).linear = bmap.linear
  BY DEF Exhausted, TypeOK, Bmaps
<1>7. QED
  BY <1>1, <1>2, <1>3, <1>4, <1>5, <1>6 DEF Quiet

\* Every step is one of these.
LEMMA Steps ==
    ASSUME [Next]_vars
    PROVE  \/ Quiet
           \/ \E o \in Owners : \E s \in Sizes :
                 \E off \in Offers(bmap, s, o \in DataOwners) : Write(o, Extent(off, s))
           \/ \E o \in Owners : \E x \in heurDedup : DedupLookup(o, x)
           \/ \E o \in Owners : DedupAssign(o)
           \/ BulkMerge
  BY DEF Next, Flusher, Bulkfreer, Frontend, Quiet, Extent

-----------------------------------------------------------------------------
(* The bitmap is typed, counted and described by its bigmask, and nothing    *)
(* that is staged or free is offered for deduplication.                      *)

SpaceInv ==
    /\ TypeOK /\ FreeSpaceExact /\ BigmaskPermissive /\ StagedNotDedupable
    /\ \A o \in writing : dataOff[o] # Nowhere
    /\ \A x \in Referenced \cup heurDedup : Placed(x)

\* The parts of the type invariant the proofs cite.
LEMMA TypeFacts ==
    ASSUME TypeOK
    PROVE  /\ bmap \in Bmaps /\ bmap.bits \in [Blocks -> {Free, Staged, Full}]
           /\ bmap.linear \in 0..SegSize /\ bmap.avail \in Int /\ allocFree \in Int
           /\ dataOff \in Topologies /\ dedupOff \in Topologies
           /\ blockref \in Topologies /\ volsync \in Topologies
           /\ bulk.st = "scanned" =>
                 /\ bulk.scan.bits \in [Blocks -> {Free, Full}]
                 /\ bulk.scan.linear \in 0..SegSize
<1>1. bulk.st = "scanned" => bulk.scan \in Scans
  BY DEF TypeOK
<1>2. QED
  BY <1>1 DEF TypeOK, Bmaps, Scans

\* What newfs_hammer2 leaves: an empty bitmap, all of it free.
LEMMA SpaceInit ==
    ASSUME Init
    PROVE  SpaceInv
<1>1. bmap \in Bmaps
  BY Geometry DEF Init, Bmaps
<1>2. FreeBlocks(bmap.bits) = Blocks
  BY DEF Init, FreeBlocks
<1>3. bmap.avail = Units * Cardinality(FreeBlocks(bmap.bits)) /\ allocFree = bmap.avail
  BY <1>2, BlocksFinite, Geometry DEF Init
<1>4. /\ dataOff \in Topologies /\ dedupOff \in Topologies
      /\ blockref \in Topologies /\ volsync \in Topologies
      /\ Referenced = {}
  BY DEF Init, Topologies, Storage, Referenced, Stored
<1>5. TypeOK
  <2>1. {modified, update, dedupable, writing} \subseteq SUBSET Owners
    BY DEF Init
  <2>2. bulk \in [st : {"idle", "sync", "synced"}]
    BY DEF Init, Idle
  <2>3. /\ allocFree \in Int /\ heurDedup \subseteq Extents /\ allocMask \subseteq AllUnits
        /\ validMask \subseteq AllUnits
    BY Geometry DEF Init
  <2>4. flush = NoFlush /\ enospc \in BOOLEAN
    BY DEF Init
  <2>5. QED
    BY <1>1, <1>4, <2>1, <2>2, <2>3, <2>4 DEF TypeOK
<1>6. BigmaskPermissive /\ StagedNotDedupable /\ heurDedup = {}
  BY DEF Init, BigmaskPermissive, StagedNotDedupable
<1>7. writing = {}
  BY DEF Init
<1>8. QED
  BY <1>3, <1>4, <1>5, <1>6, <1>7 DEF SpaceInv, FreeSpaceExact

\* The space part of the invariant, of the bitmap alone.
LEMMA SpaceIs ==
    FreeSpaceExact /\ BigmaskPermissive <=>
        Exact(bmap) /\ Permissive(bmap) /\ allocFree = bmap.avail
  BY DEF FreeSpaceExact, BigmaskPermissive, Exact, Permissive

\* The blocks an extent's units are in are the extent's.
LEMMA UnitsInBlock ==
    ASSUME NEW x, Placed(x), NEW b \in Blocks, NEW u \in UnitsOf(x), u \in UnitsIn(b)
    PROVE  b \in BlocksOf(x)
<1>1. BlockOf(u) \in BlocksOf(x) /\ u \in Nat
  BY PlacedBlocks, Geometry DEF Offs
<1>2. b \in Nat /\ b * Units \in Nat /\ (b + 1) * Units = b * Units + Units
  BY Geometry DEF Blocks
<1>3. BlockOf(u) = b
  BY <1>1, <1>2, UnitsOfBlock, Geometry DEF UnitsIn
<1>4. QED
  BY <1>1, <1>3

\* A deduplication candidate is in blocks that are allocated.
LEMMA CandidateFull ==
    ASSUME SpaceInv, NEW x \in heurDedup, UnitsOf(x) \subseteq allocMask
    PROVE  \A b \in BlocksOf(x) : bmap.bits[b] = Full
<1> SUFFICES ASSUME NEW b \in BlocksOf(x)
             PROVE  bmap.bits[b] = Full
  OBVIOUS
<1>1. Placed(x)
  BY DEF SpaceInv
<1>2. PICK u \in UnitsOf(x) : u \in UnitsIn(b)
  BY <1>1, BlockHasUnits
<1>3. b \in Blocks /\ u \in allocMask
  BY <1>1, <1>2, PlacedBlocks
<1>4. QED
  BY <1>2, <1>3 DEF SpaceInv, StagedNotDedupable

\* What hammer2_freemap_alloc returned, for the steps that cite it.
LEMMA WriteIs ==
    ASSUME SpaceInv, NEW o \in Owners, NEW s \in Sizes,
           NEW off \in Offers(bmap, s, o \in DataOwners), Write(o, Extent(off, s))
    PROVE  LET x == Extent(off, s)
           IN  /\ Placed(x) /\ x \in Extents /\ x.off = off /\ x.size = s
               /\ bmap' = Allocated(bmap, x)
               /\ bmap' \in Bmaps /\ Exact(bmap') /\ Permissive(bmap')
               /\ allocFree' = bmap'.avail
               /\ \A b \in Blocks : /\ b \in BlocksOf(x) => bmap'.bits[b] = Full
                                    /\ b \notin BlocksOf(x) => bmap'.bits[b] = bmap.bits[b]
               /\ bmap'.linear = IF IsFrag(s) THEN off + s ELSE bmap.linear
<1> DEFINE x == Extent(off, s)
<1>1. Placed(x) /\ x \in Extents /\ x.off = off /\ x.size = s
  <2>1. bmap \in Bmaps
    BY DEF SpaceInv, TypeOK
  <2>2. Placed(x)
    BY <2>1, OfferIs
  <2>3. QED
    BY <2>2 DEF Extent, Placed
<1>2. bmap' = Allocated(bmap, x) /\ allocFree' = allocFree - Charge(bmap, BlocksOf(x))
  BY DEF Write
<1>3. bmap \in Bmaps /\ Exact(bmap) /\ Permissive(bmap) /\ allocFree = bmap.avail
  BY SpaceIs DEF SpaceInv, TypeOK
<1>4. /\ Allocated(bmap, x) \in Bmaps
      /\ Exact(Allocated(bmap, x)) /\ Permissive(Allocated(bmap, x))
      /\ Allocated(bmap, x).avail = bmap.avail - Charge(bmap, BlocksOf(x))
      /\ \A b \in Blocks : /\ b \in BlocksOf(x) => Allocated(bmap, x).bits[b] = Full
                           /\ b \notin BlocksOf(x) => Allocated(bmap, x).bits[b] = bmap.bits[b]
      /\ Allocated(bmap, x).linear = IF IsFrag(s) THEN off + s ELSE bmap.linear
  BY <1>3, AllocatedKeeps
<1>5. QED
  BY <1>1, <1>2, <1>3, <1>4

\* hammer2_chain_modify and hammer2_freemap_alloc keep bitmap, counts, bigmask
\* and dedup bits in step.
LEMMA WriteSpace ==
    ASSUME SpaceInv, NEW o \in Owners, NEW s \in Sizes,
           NEW off \in Offers(bmap, s, o \in DataOwners), Write(o, Extent(off, s))
    PROVE  SpaceInv'
<1> DEFINE x == Extent(off, s)
<1>1. /\ Placed(x) /\ x \in Extents
      /\ bmap' \in Bmaps /\ Exact(bmap') /\ Permissive(bmap') /\ allocFree' = bmap'.avail
      /\ \A b \in Blocks : /\ b \in BlocksOf(x) => bmap'.bits[b] = Full
                           /\ b \notin BlocksOf(x) => bmap'.bits[b] = bmap.bits[b]
  BY WriteIs
<1>2. TypeOK /\ Write(o, x)
  BY DEF SpaceInv
<1>3. UnitsOf(x) \subseteq AllUnits
  BY <1>1, PlacedBlocks DEF AllUnits
<1>4. allocFree' \in Int
  BY <1>1 DEF Bmaps
<1>5. TypeOK'
  <2>1. dataOff' \in Topologies
    BY <1>1, <1>2 DEF TypeOK, Write, Topologies, Storage
  <2>2. modified' \subseteq Owners /\ update' \subseteq Owners /\ dedupable' \subseteq Owners
        /\ writing' \subseteq Owners /\ allocMask' \subseteq AllUnits /\ validMask' \subseteq AllUnits
    BY <1>2, <1>3 DEF TypeOK, Write
  <2>3. QED
    BY <1>1, <1>2, <1>4, <2>1, <2>2 DEF TypeOK, Write, flushVars
<1>6. ASSUME NEW b \in Blocks, bmap'.bits[b] # Full, NEW u \in UnitsIn(b), u \in allocMask'
      PROVE  FALSE
  <2>1. b \notin BlocksOf(x) /\ bmap.bits[b] # Full
    BY <1>1, <1>6
  <2>2. u \notin UnitsOf(x)
    BY <2>1, <1>1, <1>6, UnitsInBlock
  <2>3. u \in allocMask
    BY <1>2, <1>6, <2>2 DEF Write
  <2>4. QED
    BY <2>1, <2>3 DEF SpaceInv, StagedNotDedupable
<1>7. StagedNotDedupable'
  BY <1>6 DEF StagedNotDedupable
<1>8. Referenced' \cup heurDedup' \subseteq Referenced \cup heurDedup \cup {x}
  BY <1>2, WriteRefers DEF Write
<1>9. (FreeSpaceExact /\ BigmaskPermissive)'
  BY <1>1 DEF FreeSpaceExact, BigmaskPermissive, Exact, Permissive
<1>10. \A p \in writing' : dataOff'[p] # Nowhere
  <2>1. x # Nowhere
    BY <1>1, BulkfreeAssumption
  <2>2. QED
    BY <2>1, <1>2 DEF SpaceInv, TypeOK, Topologies, Write
<1>11. QED
  BY <1>1, <1>5, <1>7, <1>8, <1>9, <1>10 DEF SpaceInv

\* hammer2_dedup_lookup touches no bit of the freemap.
LEMMA LookupSpace ==
    ASSUME SpaceInv, NEW o \in Owners, NEW x \in heurDedup, DedupLookup(o, x)
    PROVE  SpaceInv'
<1>1. UNCHANGED <<bmap, allocFree, allocMask, heurDedup>>
  BY DEF DedupLookup
<1>2. TypeOK'
  <2>1. dedupOff' \in Topologies
    BY DEF SpaceInv, TypeOK, DedupLookup, Topologies, Storage
  <2>2. QED
    BY <2>1 DEF SpaceInv, TypeOK, DedupLookup, flushVars
<1>3. Referenced' \cup heurDedup' \subseteq Referenced \cup heurDedup
  BY <1>1, LookupRefers DEF SpaceInv
<1>4. UNCHANGED <<writing, dataOff>>
  BY DEF DedupLookup
<1>5. QED
  BY <1>1, <1>2, <1>3, <1>4
     DEF SpaceInv, FreeSpaceExact, BigmaskPermissive, StagedNotDedupable

\* hammer2_freemap_adjust sets bits to 11, wherever its cut block number puts
\* them, and counts what it took from the free ones.
LEMMA AssignSpace ==
    ASSUME SpaceInv, NEW o \in Owners, DedupAssign(o)
    PROVE  /\ SpaceInv'
           /\ \A b \in Blocks : bmap'.bits[b] \in {Full, bmap.bits[b]}
<1> DEFINE x == dedupOff[o]
           n == Adjusted(bmap, x)
<1>1. bmap \in Bmaps /\ Exact(bmap) /\ Permissive(bmap) /\ allocFree = bmap.avail
  BY SpaceIs DEF SpaceInv, TypeOK
<1>2. /\ n \in Bmaps /\ Exact(n) /\ Permissive(n)
      /\ n.avail = bmap.avail - Charge(bmap, AdjustTargets(x))
      /\ \A b \in Blocks : n.bits[b] \in {Full, bmap.bits[b]}
  BY <1>1, AdjustedKeeps
<1>3. bmap' = n /\ allocFree' = n.avail
  BY <1>1, <1>2 DEF DedupAssign
<1>4. TypeOK'
  <2>1. dataOff' \in Topologies /\ dedupOff' \in Topologies
    BY DEF SpaceInv, TypeOK, DedupAssign, Topologies, Storage
  <2>2. allocFree' \in Int /\ bmap' \in Bmaps
    BY <1>2, <1>3 DEF Bmaps
  <2>3. modified' \subseteq Owners /\ update' \subseteq Owners /\ dedupable' \subseteq Owners
    BY DEF SpaceInv, TypeOK, DedupAssign
  <2>4. QED
    BY <2>1, <2>2, <2>3 DEF SpaceInv, TypeOK, DedupAssign, flushVars
<1>5. StagedNotDedupable'
  BY <1>2, <1>3 DEF SpaceInv, StagedNotDedupable, DedupAssign
<1>6. Referenced' \cup heurDedup' \subseteq Referenced \cup heurDedup
  BY AssignRefers DEF SpaceInv, DedupAssign
<1>7. (FreeSpaceExact /\ BigmaskPermissive)'
  BY <1>2, <1>3 DEF FreeSpaceExact, BigmaskPermissive, Exact, Permissive
<1>8. \A p \in writing' : dataOff'[p] # Nowhere
  BY DEF SpaceInv, TypeOK, Topologies, DedupAssign
<1>9. QED
  BY <1>2, <1>3, <1>4, <1>5, <1>6, <1>7, <1>8 DEF SpaceInv

\* The steps that leave the bits alone: only the bigmask may lose a size.
LEMMA QuietSpace ==
    ASSUME SpaceInv, Quiet
    PROVE  SpaceInv'
<1>1. TypeOK /\ bmap \in Bmaps /\ Exact(bmap) /\ Permissive(bmap) /\ allocFree = bmap.avail
  BY SpaceIs DEF SpaceInv, TypeOK
<1>2. CASE \E o \in Owners : \E s \in Sizes : WriteFails(o, s) \/ FlushOwnerFails(o, s)
  <2>1. PICK o \in Owners, s \in Sizes : WriteFails(o, s) \/ FlushOwnerFails(o, s)
    BY <1>2
  <2>2. bmap' = Exhausted(bmap, s) /\ UNCHANGED <<allocFree, dataOff, update, dedupVars, blockref, volsync, bulk>>
    BY <2>1 DEF WriteFails, FlushOwnerFails, flushVars
  <2>3. \E isData : Offers(bmap, s, isData) = {}
    BY <2>1 DEF WriteFails, FlushOwnerFails
  <2>4. /\ bmap' \in Bmaps /\ Exact(bmap') /\ Permissive(bmap')
        /\ bmap'.bits = bmap.bits /\ bmap'.avail = bmap.avail
    BY <1>1, <2>2, <2>3, ExhaustedKeeps
  <2>5. modified' \subseteq Owners /\ flush' \in {NoFlush} \cup [st : {"run"}, todo : SUBSET Owners]
    <3>1. CASE WriteFails(o, s)
      BY <3>1, <1>1 DEF TypeOK, WriteFails, flushVars
    <3>2. CASE FlushOwnerFails(o, s)
      <4>1. modified' \subseteq Owners
        BY <3>2, <1>1 DEF TypeOK, FlushOwnerFails
      <4>2. flush \in [st : {"run"}, todo : SUBSET Owners]
        BY <3>2, <1>1 DEF TypeOK, FlushOwnerFails, NoFlush
      <4>3. flush' \in [st : {"run"}, todo : SUBSET Owners]
        BY <3>2, <4>2 DEF FlushOwnerFails
      <4>4. QED
        BY <4>1, <4>3
    <3>3. QED
      BY <2>1, <3>1, <3>2
  <2>6. enospc' \in BOOLEAN
    BY <2>1, <1>1 DEF TypeOK, WriteFails, FlushOwnerFails, flushVars
  <2>7. TypeOK'
    BY <1>1, <2>2, <2>4, <2>5, <2>6 DEF TypeOK, dedupVars
  <2>8. StagedNotDedupable'
    BY <2>2, <2>4 DEF SpaceInv, StagedNotDedupable, dedupVars
  <2>9. (FreeSpaceExact /\ BigmaskPermissive)'
    BY <1>1, <2>2, <2>4 DEF FreeSpaceExact, BigmaskPermissive, Exact, Permissive
  <2>10. Referenced' \cup heurDedup' \subseteq Referenced \cup heurDedup
    BY <2>2, QuietRefers, <1>1 DEF dedupVars, Quiet
  <2>11. \A p \in writing' : dataOff'[p] # Nowhere
    BY <2>2 DEF SpaceInv, dedupVars
  <2>12. QED
    BY <2>7, <2>8, <2>9, <2>10, <2>11 DEF SpaceInv
<1>3. ASSUME NEW o \in Owners, Record(o)
      PROVE  SpaceInv'
  <2>1. dataOff[o] \in Extents /\ Placed(dataOff[o])
    <3>1. dataOff[o] # Nowhere
      BY <1>3 DEF SpaceInv, Record
    <3>2. dataOff[o] \in Stored(dataOff) /\ dataOff[o] \in Extents
      BY <1>1, <3>1, StorageIs DEF TypeOK
    <3>3. QED
      BY <3>2 DEF SpaceInv, Referenced
  <2>2. UnitsOf(dataOff[o]) \subseteq AllUnits
    BY <2>1, PlacedBlocks DEF AllUnits
  <2>3. UNCHANGED <<bmap, allocFree, dataOff, dedupOff, allocMask>> /\ writing' \subseteq writing
        /\ heurDedup' \subseteq heurDedup \cup {dataOff[o]}
    BY <1>3 DEF Record
  <2>4. TypeOK'
    <3>1. /\ modified' \subseteq Owners /\ update' \subseteq Owners /\ dedupable' \subseteq Owners
          /\ writing' \subseteq Owners /\ heurDedup' \subseteq Extents /\ validMask' \subseteq AllUnits
      BY <1>1, <1>3, <2>1, <2>2 DEF TypeOK, Record
    <3>2. QED
      BY <1>1, <1>3, <3>1 DEF TypeOK, Record, flushVars
  <2>5. Referenced' \subseteq Referenced
    BY <1>1, <1>3, QuietRefers DEF Quiet
  <2>6. (FreeSpaceExact /\ BigmaskPermissive /\ StagedNotDedupable)'
    BY <2>3 DEF SpaceInv, FreeSpaceExact, BigmaskPermissive, StagedNotDedupable
  <2>7. QED
    BY <2>1, <2>3, <2>4, <2>5, <2>6 DEF SpaceInv
<1>4. ASSUME NEW o \in Owners, Delete(o)
      PROVE  SpaceInv'
  <2>1. /\ UNCHANGED <<bmap, allocFree, heurDedup, writing>> /\ allocMask' \subseteq allocMask
        /\ o \notin writing /\ validMask' \subseteq validMask
        /\ \A p \in Owners : p # o => dataOff'[p] = dataOff[p]
    BY <1>1, <1>4 DEF Delete, Unlocked, TypeOK, Topologies
  <2>2. TypeOK'
    <3>1. dataOff' \in Topologies
      BY <1>1, <1>4 DEF TypeOK, Delete, Topologies, Storage
    <3>2. modified' \subseteq Owners /\ update' \subseteq Owners /\ dedupable' \subseteq Owners
      BY <1>1, <1>4 DEF TypeOK, Delete
    <3>3. QED
      BY <1>1, <1>4, <2>1, <3>1, <3>2 DEF TypeOK, Delete, flushVars
  <2>3. Referenced' \subseteq Referenced
    BY <1>1, <1>4, QuietRefers DEF Quiet
  <2>4. (FreeSpaceExact /\ BigmaskPermissive /\ StagedNotDedupable)'
    BY <2>1 DEF SpaceInv, FreeSpaceExact, BigmaskPermissive, StagedNotDedupable
  <2>5. \A p \in writing' : dataOff'[p] # Nowhere
    BY <1>1, <2>1 DEF SpaceInv, TypeOK
  <2>6. QED
    BY <2>1, <2>2, <2>3, <2>4, <2>5 DEF SpaceInv
<1>5. ASSUME \/ \E o \in Owners : FlushOwner(o)
             \/ FlushBegin \/ FlushVolume \/ BulkSync \/ BulkScan \/ BulkAbort
             \/ UNCHANGED vars
      PROVE  SpaceInv'
  <2>1. /\ UNCHANGED <<bmap, allocFree, dataOff, writing, allocMask, validMask, dedupable, dedupOff>>
        /\ heurDedup' \subseteq heurDedup
    BY <1>5 DEF FlushOwner, FlushBegin, FlushVolume, BulkSync, BulkScan, BulkAbort,
                vars, dedupVars, flushVars
  <2>2. Referenced' \subseteq Referenced
    BY <1>1, <1>5, QuietRefers DEF Quiet
  <2>3. (FreeSpaceExact /\ BigmaskPermissive /\ StagedNotDedupable)'
    BY <2>1 DEF SpaceInv, FreeSpaceExact, BigmaskPermissive, StagedNotDedupable
  <2>4. blockref' \in Topologies /\ volsync' \in Topologies
    BY <1>1, <1>5 DEF FlushOwner, FlushBegin, FlushVolume, BulkSync, BulkScan, BulkAbort,
                      vars, dedupVars, flushVars, TypeOK, Topologies
  <2>5. modified' \subseteq Owners /\ update' \subseteq Owners
    BY <1>1, <1>5 DEF FlushOwner, FlushBegin, FlushVolume, BulkSync, BulkScan, BulkAbort,
                      vars, dedupVars, flushVars, TypeOK
  <2>6. flush' \in {NoFlush} \cup [st : {"run"}, todo : SUBSET Owners]
    <3>1. CASE \E o \in Owners : FlushOwner(o)
      <4>1. PICK o \in Owners : FlushOwner(o)
        BY <3>1
      <4>2. flush \in [st : {"run"}, todo : SUBSET Owners]
        BY <4>1, <1>1 DEF TypeOK, FlushOwner, NoFlush
      <4>3. QED
        BY <4>1, <4>2 DEF FlushOwner
    <3>2. CASE FlushBegin \/ FlushVolume \/ BulkSync
      BY <3>2 DEF FlushBegin, FlushVolume, BulkSync, StartFlush
    <3>3. CASE BulkScan \/ BulkAbort \/ UNCHANGED vars
      BY <1>1, <3>3 DEF BulkScan, BulkAbort, vars, flushVars, TypeOK
    <3>4. QED
      BY <1>5, <3>1, <3>2, <3>3
  <2>7. bulk' \in [st : {"idle", "sync", "synced"}] \cup [st : {"scanned"}, scan : Scans]
    <3>1. CASE BulkScan
      <4>1. PICK l \in ScanLinears(Stored(volsync)) :
               bulk' = [st |-> "scanned",
                        scan |-> [bits |-> ScanBits(Stored(volsync)), linear |-> l]]
        BY <3>1 DEF BulkScan
      <4>2. IsFiniteSet(Stored(volsync)) /\ \A x \in Stored(volsync) : Placed(x)
        BY <1>1, StoredFinite DEF SpaceInv, Referenced, TypeOK
      <4>3. l \in 0..SegSize /\ ScanBits(Stored(volsync)) \in [Blocks -> {Free, Full}]
        BY <4>2, ScanLinearsAre, ScanBitsAre
      <4>4. QED
        BY <4>1, <4>3 DEF Scans
    <3>2. CASE FlushVolume
      BY <1>1, <3>2 DEF FlushVolume, TypeOK
    <3>3. CASE BulkSync \/ BulkAbort
      BY <3>3 DEF BulkSync, BulkAbort, Idle
    <3>4. CASE (\E o \in Owners : FlushOwner(o)) \/ FlushBegin \/ UNCHANGED vars
      BY <1>1, <3>4 DEF FlushOwner, FlushBegin, vars, TypeOK
    <3>5. QED
      BY <1>5, <3>1, <3>2, <3>3, <3>4
  <2>8. enospc' \in BOOLEAN
    BY <1>1, <1>5 DEF FlushOwner, FlushBegin, FlushVolume, BulkSync, BulkScan, BulkAbort,
                      vars, flushVars, TypeOK
  <2>9. TypeOK'
    BY <1>1, <2>1, <2>4, <2>5, <2>6, <2>7, <2>8 DEF TypeOK
  <2>10. QED
    BY <2>1, <2>2, <2>3, <2>9 DEF SpaceInv
<1>6. QED
  BY <1>2, <1>3, <1>4, <1>5 DEF Quiet

\* What h2_bulkfree_sync does to the bitmap, when it does something.
LEMMA MergeIs ==
    ASSUME SpaceInv, BulkMerge, ~InSync(bmap, bulk.scan)
    PROVE  /\ bmap' \in Bmaps /\ Exact(bmap') /\ Permissive(bmap')
           /\ allocFree' = bmap'.avail
           /\ \A b \in Blocks : bmap'.bits[b] = NextStage(bmap.bits[b], bulk.scan.bits[b])
           /\ bmap'.linear = MergedLinear(bmap, bulk.scan, bmap'.bits)
<1>1. /\ bmap \in Bmaps /\ Exact(bmap) /\ allocFree = bmap.avail
      /\ bulk.scan.bits \in [Blocks -> {Free, Full}] /\ bulk.scan.linear \in 0..SegSize
  BY SpaceIs, TypeFacts DEF SpaceInv, BulkMerge
<1>2. bmap' = Merged(bmap, bulk.scan) /\ allocFree' = allocFree + AdjFree(bmap, bulk.scan)
  BY DEF BulkMerge
<1>3. LET n == Merged(bmap, bulk.scan)
      IN  /\ n \in Bmaps /\ Exact(n) /\ Permissive(n)
          /\ n.avail = bmap.avail + AdjFree(bmap, bulk.scan)
          /\ \A b \in Blocks : n.bits[b] = NextStage(bmap.bits[b], bulk.scan.bits[b])
          /\ n.linear = MergedLinear(bmap, bulk.scan, n.bits)
  BY <1>1, MergedKeeps
<1>4. QED
  BY <1>1, <1>2, <1>3

\* h2_bulkfree_sync: no clamp bites, the counts stay exact, and what it stages
\* loses its dedup bits.
LEMMA MergeSpace ==
    ASSUME SpaceInv, BulkMerge
    PROVE  SpaceInv' /\ Referenced' = Referenced
<1>1. UNCHANGED <<dataOff, modified, update, dedupable, writing, dedupOff, heurDedup,
                  blockref, volsync, flush, enospc>>
      /\ bulk' = Idle
  BY DEF BulkMerge, flushVars
<1>2. Referenced' = Referenced
  BY <1>1 DEF Referenced
<1>3. allocMask' \subseteq allocMask /\ validMask' \subseteq validMask
  BY DEF BulkMerge
<1>4. bmap' \in Bmaps /\ Exact(bmap') /\ Permissive(bmap') /\ allocFree' = bmap'.avail
  <2>1. CASE InSync(bmap, bulk.scan)
    BY <2>1, SpaceIs DEF SpaceInv, TypeOK, BulkMerge
  <2>2. CASE ~InSync(bmap, bulk.scan)
    BY <2>2, MergeIs
  <2>3. QED
    BY <2>1, <2>2
<1>5. allocFree' \in Int
  BY <1>4 DEF Bmaps
<1>6. bulk' \in [st : {"idle", "sync", "synced"}]
  BY <1>1 DEF Idle
<1>7. TypeOK'
  BY <1>1, <1>3, <1>4, <1>5, <1>6 DEF SpaceInv, TypeOK
<1>8. ASSUME NEW b \in Blocks, bmap'.bits[b] # Full, NEW u \in UnitsIn(b), u \in allocMask'
      PROVE  FALSE
  <2>1. CASE InSync(bmap, bulk.scan)
    BY <2>1, <1>8 DEF SpaceInv, StagedNotDedupable, BulkMerge
  <2>2. CASE ~InSync(bmap, bulk.scan)
    <3>1. bmap'.bits[b] = NextStage(bmap.bits[b], bulk.scan.bits[b])
      BY <2>2, MergeIs
    <3>2. bulk.scan.bits[b] = Free
      BY <1>8, <3>1, TypeFacts DEF NextStage, SpaceInv, BulkMerge
    <3>3. CASE bmap.bits[b] = Full
      <4>1. b \in Unstaged(bmap, bulk.scan)
        BY <3>2, <3>3 DEF Unstaged
      <4>2. u \in Forget(Unstaged(bmap, bulk.scan))
        BY <4>1, <1>8 DEF Forget, UnitsAt
      <4>3. QED
        BY <4>2, <2>2, <1>8 DEF BulkMerge
    <3>4. CASE bmap.bits[b] # Full
      BY <3>4, <1>3, <1>8 DEF SpaceInv, StagedNotDedupable
    <3>5. QED
      BY <3>3, <3>4
  <2>3. QED
    BY <2>1, <2>2
<1>9. StagedNotDedupable'
  BY <1>8 DEF StagedNotDedupable
<1>10. (FreeSpaceExact /\ BigmaskPermissive)'
  BY <1>4 DEF FreeSpaceExact, BigmaskPermissive, Exact, Permissive
<1>11. QED
  BY <1>1, <1>2, <1>7, <1>9, <1>10 DEF SpaceInv

\* No step disturbs SpaceInv.
LEMMA SpaceNext ==
    ASSUME SpaceInv, [Next]_vars
    PROVE  SpaceInv'
  BY Steps, QuietSpace, WriteSpace, LookupSpace, AssignSpace, MergeSpace

\* The freemap is typed, exactly counted and described by its bigmask, and no
\* block that is staged or free is offered by live deduplication
\* (hammer2_freemap_alloc, hammer2_freemap_adjust, h2_bulkfree_sync).
THEOREM SpaceInvariant == Spec => []SpaceInv
<1>1. Init => SpaceInv
  BY SpaceInit
<1>2. SpaceInv /\ [Next]_vars => SpaceInv'
  BY SpaceNext
<1>3. QED
  BY <1>1, <1>2, PTL DEF Spec

\* avail and allocator_free count the free blocks, and a size the bigmask
\* excludes cannot be allocated (hammer2_bmap_alloc, h2_bulkfree_sync_adjust).
THEOREM SpaceIsAccounted == Spec => []SpaceAccounted
<1>1. SpaceInv => SpaceAccounted
  BY DEF SpaceInv, SpaceAccounted
<1>2. QED
  BY <1>1, SpaceInvariant, PTL

-----------------------------------------------------------------------------
(* What a merge frees is found by its scan, and the rest of the iterator's   *)
(* block is unused.                                                          *)

\* No allocation since the last two merges came from the block of fragment x
\* by way of the iterator: it is not at the start of that block, or in the
\* block before, nor could the search for a free block have come past it.
Fresh(x) ==
    LET c == BlockOf(x.off)
    IN  /\ bmap.linear \notin (c - 1) * Units + 1 .. c * Units
        /\ c > 0 => bmap.bits[c - 1] # Free

\* What a merge may free or reuse, unless the scan finds it.
Old ==
    {x \in Extents : \/ \E b \in BlocksOf(x) : bmap.bits[b] = Staged
                     \/ ~DedupEnable /\ IsFrag(x.size) /\ ~Fresh(x)}

\* The ioctl's own flush has come past owner o: what is old of it is in the
\* block table of its parent.
Kept(o) ==
    /\ dataOff[o] \in Old => blockref[o] = dataOff[o]
    /\ dedupOff[o] \notin Old

\* The scan has found what it must have found of x.
Found(x) ==
    /\ \A b \in BlocksOf(x) : bmap.bits[b] = Staged => bulk.scan.bits[b] = Full
    /\ ~DedupEnable /\ IsFrag(x.size) => Fresh(x) \/ x.off + x.size <= bulk.scan.linear

CoverInv ==
    ~enospc =>
        /\ \A x \in Referenced : \A b \in BlocksOf(x) : bmap.bits[b] # Free
        /\ \A o \in Owners : o \notin update => blockref[o] = dataOff[o]
        /\ bulk.st = "sync" =>
              flush.st = "run" /\ \A o \in Owners \ flush.todo : Kept(o)
        /\ bulk.st = "synced" =>
              \A o \in Owners : Kept(o) /\ (blockref[o] \in Old => volsync[o] = blockref[o])
        /\ bulk.st = "scanned" =>
              /\ \A x \in Referenced : Found(x)
              /\ \A b \in Blocks : bulk.scan.bits[b] = Full => bmap.bits[b] # Free

\* The iterator's block before a merge that moves the iterator.
ScanEdge ==
    LET l == bulk.scan.linear
        c == BlockOf(bulk.scan.linear)
    IN  /\ l > 0 => bulk.scan.bits[BlockOf(l - 1)] = Full
        /\ MidBlock(l) =>
              /\ \A x \in Referenced : c \in BlocksOf(x) => IsFrag(x.size)
              /\ MidBlock(bmap.linear) /\ BlockOf(bmap.linear) = c => bmap.linear >= l

IterInv ==
    ~DedupEnable =>
        /\ \A o \in Owners : dedupOff[o] = Nowhere
        /\ ~enospc =>
              /\ IteratorSane
              /\ MidBlock(bmap.linear) /\ BlockOf(bmap.linear) > 0 =>
                    bmap.bits[BlockOf(bmap.linear) - 1] # Free
              /\ 0 < bmap.linear /\ bmap.linear < SegSize /\ ~MidBlock(bmap.linear) =>
                    bmap.bits[BlockOf(bmap.linear) - 1] = Full
              /\ \A x, y \in Referenced : x = y \/ UnitsOf(x) \cap UnitsOf(y) = {}
              /\ bulk.st = "scanned" => ScanEdge

\* The block before a block that is not the first.
LEMMA PrevBlock ==
    ASSUME NEW b \in Blocks, b > 0
    PROVE  b - 1 \in Blocks /\ b \in Nat
  BY Geometry DEF Blocks

\* The end of a fragment in block b is in the range of Fresh for b + 1 only.
LEMMA EndOfBlock ==
    ASSUME NEW b \in Nat, NEW c \in Nat, NEW n \in Nat,
           b * Units < n, n <= b * Units + Units,
           n \in (c - 1) * Units + 1 .. c * Units
    PROVE  c = b + 1
<1>1. /\ b * Units \in Nat /\ c * Units \in Nat /\ (b + 1) * Units = b * Units + Units
      /\ (c - 1) * Units = c * Units - Units
  BY Geometry
<1>2. b < c
  <2> SUFFICES ASSUME c <= b
               PROVE  FALSE
    OBVIOUS
  <2>1. c * Units <= b * Units
    BY TimesMono, Geometry
  <2>2. QED
    BY <2>1, <1>1, Geometry
<1>3. c <= b + 1
  <2> SUFFICES ASSUME b + 2 <= c
               PROVE  FALSE
    OBVIOUS
  <2>1. (b + 2) * Units <= c * Units
    BY TimesMono, Geometry
  <2>2. (b + 2) * Units = b * Units + Units + Units
    BY Geometry
  <2>3. QED
    BY <2>1, <2>2, <1>1, Geometry
<1>4. QED
  BY <1>2, <1>3

\* Where an allocated fragment is, and where it leaves the iterator.
LEMMA WriteFrag ==
    ASSUME SpaceInv, CoverInv, IterInv, ~enospc, ~DedupEnable,
           NEW o \in Owners, NEW s \in Sizes, IsFrag(s),
           NEW off \in Offers(bmap, s, o \in DataOwners), Write(o, Extent(off, s))
    PROVE  LET b == BlockOf(off)
           IN  /\ b \in Blocks /\ b \in Nat /\ BlocksOf(Extent(off, s)) = {b}
               /\ bmap'.linear = off + s /\ bmap'.linear \in Nat
               /\ b * Units < bmap'.linear /\ bmap'.linear <= b * Units + Units
               /\ b > 0 => bmap.bits[b - 1] # Free
               /\ bmap'.bits[b] = Full
               /\ \/ /\ off = bmap.linear /\ MidBlock(off) /\ b * Units < off
                     /\ off < b * Units + Units
                     /\ bmap.bits[b] = Full
                  \/ bmap.bits[b] = Free
<1> DEFINE x == Extent(off, s)
           b == BlockOf(off)
<1>1. /\ Placed(x) /\ x.off = off /\ x.size = s
      /\ \A c \in Blocks : c \in BlocksOf(x) => bmap'.bits[c] = Full
      /\ bmap'.linear = off + s
  BY WriteIs
<1>2. /\ BlocksOf(x) = {b} /\ b \in Blocks /\ b \in Nat /\ off \in Nat /\ s \in Nat \ {0}
      /\ off + s <= b * Units + Units /\ b * Units <= off
  BY <1>1, PlacedFrag, PlacedBlocks DEF Blocks
<1>3. b * Units \in Nat
  BY <1>2, Geometry
<1>4. CASE LinearFits(bmap, s) /\ off = bmap.linear
  <2>1. MidBlock(off)
    BY <1>4 DEF LinearFits
  <2>2. b * Units # off
    <3>1. (b * Units) % Units = 0
      BY <1>2, DivOfTimes, Geometry
    <3>2. QED
      BY <2>1, <3>1 DEF MidBlock
  <2>3. bmap.bits[b] = Full /\ (b > 0 => bmap.bits[b - 1] # Free)
    BY <1>2, <1>4, <2>1 DEF IterInv, IteratorSane
  <2>4. /\ bmap'.linear = off + s /\ bmap'.linear \in Nat
        /\ b * Units < bmap'.linear /\ bmap'.linear <= b * Units + Units
        /\ bmap'.bits[b] = Full
    BY <1>1, <1>2, <1>3
  <2>5. b * Units < off /\ off < b * Units + Units
    BY <1>2, <1>3, <2>2, Geometry
  <2>6. QED
    BY <1>2, <1>4, <2>1, <2>3, <2>4, <2>5
<1>5. CASE /\ \A c \in BlocksOf(x) : bmap.bits[c] = Free
           /\ \A c \in Slots(bmap.bits, s) : b <= c
  <2>1. bmap.bits[b] = Free
    BY <1>2, <1>5
  <2>2. b > 0 => bmap.bits[b - 1] # Free
    <3> SUFFICES ASSUME b > 0, bmap.bits[b - 1] = Free
                 PROVE  FALSE
      OBVIOUS
    <3>1. b - 1 \in Blocks
      BY <1>2, PrevBlock
    <3>2. b - 1 \in Slots(bmap.bits, s)
      BY <3>1, FragSlots DEF FreeBlocks
    <3>3. QED
      BY <3>2, <1>2, <1>5
  <2>3. /\ bmap'.linear = off + s /\ bmap'.linear \in Nat
        /\ b * Units < bmap'.linear /\ bmap'.linear <= b * Units + Units
        /\ bmap'.bits[b] = Full
    BY <1>1, <1>2, <1>3
  <2>4. QED
    BY <1>2, <2>1, <2>2, <2>3
<1>6. bmap \in Bmaps
  BY DEF SpaceInv, TypeOK
<1>7. QED
  BY <1>4, <1>5, <1>6, OfferIs

\* A step that is not a merge: bits are only set, and nothing becomes old.
Gentle ==
    /\ \A b \in Blocks : bmap'.bits[b] \in {Full, bmap.bits[b]}
    /\ \A x \in Referenced : ~DedupEnable /\ IsFrag(x.size) /\ Fresh(x) => Fresh(x)'
    /\ \A x \in Referenced' \ Referenced :
          x \notin Old' /\ \A b \in BlocksOf(x) : bmap'.bits[b] = Full

\* After a gentle step, what was referred to before is old only if it was.
LEMMA GentleOld ==
    ASSUME SpaceInv, Gentle, NEW x \in Referenced, x \in Old'
    PROVE  x \in Old
<1>1. BlocksOf(x) \subseteq Blocks
  BY PlacedBlocks DEF SpaceInv
<1>2. \A b \in BlocksOf(x) : bmap'.bits[b] = Staged => bmap.bits[b] = Staged
  BY <1>1 DEF Gentle, Full, Staged
<1>3. QED
  BY <1>2 DEF Gentle, Old

\* hammer2_chain_modify: new storage is not old, and makes nothing else old.
LEMMA WriteGentle ==
    ASSUME SpaceInv, CoverInv, IterInv, ~enospc, NEW o \in Owners, NEW s \in Sizes,
           NEW off \in Offers(bmap, s, o \in DataOwners), Write(o, Extent(off, s))
    PROVE  Gentle /\ Extent(off, s) \notin Old'
<1> DEFINE x == Extent(off, s)
<1>1. /\ Placed(x) /\ x.off = off /\ x.size = s
      /\ \A b \in Blocks : /\ b \in BlocksOf(x) => bmap'.bits[b] = Full
                           /\ b \notin BlocksOf(x) => bmap'.bits[b] = bmap.bits[b]
      /\ bmap'.linear = IF IsFrag(s) THEN off + s ELSE bmap.linear
  BY WriteIs
<1>2. BlocksOf(x) \subseteq Blocks
  BY <1>1, PlacedBlocks
<1>3. \A b \in Blocks : bmap'.bits[b] \in {Full, bmap.bits[b]}
  BY <1>1
<1>4. Referenced' \subseteq Referenced \cup {x}
  BY WriteRefers DEF SpaceInv
<1>5. ASSUME ~DedupEnable, NEW y \in Referenced, IsFrag(y.size), Fresh(y)
      PROVE  Fresh(y)'
  <2> DEFINE c == BlockOf(y.off)
  <2>1. Placed(y)
    BY DEF SpaceInv
  <2>2. c \in Blocks /\ c \in Nat
    BY <2>1, PlacedBlocks DEF Blocks
  <2>3. c > 0 => bmap'.bits[c - 1] # Free
    <3> SUFFICES ASSUME c > 0
                 PROVE  bmap'.bits[c - 1] # Free
      OBVIOUS
    <3>1. c - 1 \in Blocks /\ bmap.bits[c - 1] # Free
      BY <2>2, <1>5, PrevBlock DEF Fresh
    <3>2. QED
      BY <3>1, <1>3 DEF Free, Full
  <2>4. CASE ~IsFrag(s)
    BY <2>3, <2>4, <1>1, <1>5 DEF Fresh
  <2>5. CASE IsFrag(s)
    <3> DEFINE b == BlockOf(off)
    <3>1. /\ b \in Blocks /\ b \in Nat
          /\ bmap'.linear \in Nat
          /\ b * Units < bmap'.linear /\ bmap'.linear <= b * Units + Units
          /\ \/ off = bmap.linear /\ b * Units < off /\ off < b * Units + Units
             \/ bmap.bits[b] = Free
      BY <1>5, <2>5, WriteFrag
    <3>2. ASSUME bmap'.linear \in (c - 1) * Units + 1 .. c * Units
          PROVE  FALSE
      <4>1. c = b + 1
        BY <3>1, <3>2, <2>2, EndOfBlock
      <4>2. bmap.bits[b] # Free /\ bmap.linear \notin b * Units + 1 .. (b + 1) * Units
        BY <4>1, <3>1, <1>5 DEF Fresh
      <4>3. b * Units \in Nat /\ (b + 1) * Units = b * Units + Units
        BY <3>1, Geometry
      <4>4. off \in Nat
        BY <1>1, PlacedBlocks
      <4>5. bmap.bits[b] # Free /\ off = bmap.linear /\ b * Units < off /\ off < b * Units + Units
        BY <4>2, <3>1
      <4>6. off \in b * Units + 1 .. (b + 1) * Units
        BY <4>3, <4>4, <4>5, Geometry
      <4>7. QED
        BY <4>2, <4>5, <4>6
    <3>3. QED
      BY <3>2, <2>3 DEF Fresh
  <2>6. QED
    BY <2>4, <2>5
<1>6. ASSUME ~DedupEnable, IsFrag(s)
      PROVE  Fresh(x)'
  <2> DEFINE b == BlockOf(off)
  <2>1. /\ b \in Blocks /\ b \in Nat
        /\ bmap'.linear \in Nat
        /\ b * Units < bmap'.linear
        /\ b > 0 => bmap.bits[b - 1] # Free
    BY <1>6, WriteFrag
  <2>2. b * Units \in Nat /\ BlockOf(x.off) = b
    BY <1>1, <2>1, Geometry
  <2>3. bmap'.linear \notin (b - 1) * Units + 1 .. b * Units
    BY <2>1, <2>2
  <2>4. b > 0 => bmap'.bits[b - 1] # Free
    <3> SUFFICES ASSUME b > 0
                 PROVE  bmap'.bits[b - 1] # Free
      OBVIOUS
    <3>1. b - 1 \in Blocks
      BY <2>1, PrevBlock
    <3>2. QED
      BY <3>1, <2>1, <1>3 DEF Free, Full
  <2>5. QED
    BY <2>2, <2>3, <2>4 DEF Fresh
<1>7. x \notin Old'
  <2>1. \A b \in BlocksOf(x) : bmap'.bits[b] # Staged
    BY <1>1, <1>2 DEF Full, Staged
  <2>2. QED
    BY <2>1, <1>1, <1>6 DEF Old
<1>8. \A b \in BlocksOf(x) : bmap'.bits[b] = Full
  BY <1>1, <1>2
<1>9. QED
  BY <1>3, <1>4, <1>5, <1>7, <1>8 DEF Gentle

\* hammer2_dedup_lookup: what has its dedup bits set is allocated for good.
LEMMA LookupGentle ==
    ASSUME SpaceInv, CoverInv, ~enospc, NEW o \in Owners, NEW x \in heurDedup,
           DedupLookup(o, x)
    PROVE  Gentle /\ x \notin Old'
<1>1. bmap' = bmap /\ DedupEnable /\ UnitsOf(x) \subseteq allocMask
  BY DEF DedupLookup
<1>2. Referenced' \subseteq Referenced \cup {x}
  BY LookupRefers DEF SpaceInv
<1>3. \A b \in BlocksOf(x) : bmap.bits[b] = Full
  BY <1>1, CandidateFull
<1>4. (\A y : Fresh(y)' <=> Fresh(y)) /\ Old' = Old
  <2>1. \A y : Fresh(y)' <=> Fresh(y)
    BY <1>1 DEF Fresh
  <2>2. QED
    BY <1>1, <2>1 DEF Old
<1>5. x \notin Old
  BY <1>1, <1>3 DEF Old, Full, Staged
<1>6. QED
  BY <1>1, <1>2, <1>3, <1>4, <1>5 DEF Gentle

\* hammer2_freemap_adjust only takes blocks further away from free.
LEMMA AssignGentle ==
    ASSUME SpaceInv, CoverInv, IterInv, ~enospc, NEW o \in Owners, DedupAssign(o)
    PROVE  Gentle /\ DedupEnable
<1>1. DedupEnable
  BY DEF IterInv, DedupAssign
<1>2. \A b \in Blocks : bmap'.bits[b] \in {Full, bmap.bits[b]}
  BY AssignSpace
<1>3. Referenced' \subseteq Referenced
  BY AssignRefers DEF SpaceInv
<1>4. QED
  BY <1>1, <1>2, <1>3 DEF Gentle

\* Steps that leave bits and iterator alone make nothing old.
LEMMA QuietGentle ==
    ASSUME SpaceInv, Quiet
    PROVE  Gentle /\ Old' = Old
<1>1. bmap'.bits = bmap.bits /\ bmap'.linear = bmap.linear /\ Referenced' \subseteq Referenced
  BY QuietRefers DEF SpaceInv
<1>2. \A x : Fresh(x)' <=> Fresh(x)
  BY <1>1 DEF Fresh
<1>3. Old' = Old
  BY <1>1, <1>2 DEF Old
<1>4. QED
  BY <1>1, <1>2, <1>3 DEF Gentle

\* The part of CoverInv about the bitmap is kept by every gentle step.
CoverBits ==
    /\ \A x \in Referenced : \A b \in BlocksOf(x) : bmap.bits[b] # Free
    /\ bulk.st = "scanned" =>
          /\ \A x \in Referenced : Found(x)
          /\ \A b \in Blocks : bulk.scan.bits[b] = Full => bmap.bits[b] # Free

\* The part about the flush that bulkfree waits for.
CoverFlush ==
    /\ \A o \in Owners : o \notin update => blockref[o] = dataOff[o]
    /\ bulk.st = "sync" =>
          flush.st = "run" /\ \A o \in Owners \ flush.todo : Kept(o)
    /\ bulk.st = "synced" =>
          \A o \in Owners : Kept(o) /\ (blockref[o] \in Old => volsync[o] = blockref[o])

\* CoverInv, split into what is said of the bitmap and of the flush.
LEMMA CoverIs == CoverInv <=> (~enospc => CoverBits /\ CoverFlush)
  BY DEF CoverInv, CoverBits, CoverFlush

\* A gentle step keeps the bits of every reference and what the scan found.
LEMMA GentleBits ==
    ASSUME SpaceInv, SpaceInv', CoverBits, Gentle, bulk' = bulk
    PROVE  CoverBits'
<1>1. ASSUME NEW x \in Referenced'
      PROVE  x \in Extents /\ BlocksOf(x) \subseteq Blocks
  <2>1. Placed(x)
    BY DEF SpaceInv
  <2>2. QED
    BY <2>1, PlacedBlocks DEF Placed
<1>2. ASSUME NEW x \in Referenced', NEW b \in BlocksOf(x)
      PROVE  bmap'.bits[b] # Free
  BY <1>1 DEF Gentle, CoverBits, Free, Full
<1>3. ASSUME bulk.st = "scanned", NEW x \in Referenced'
      PROVE  Found(x)'
  <2>1. CASE x \in Referenced
    <3>1. Found(x)
      BY <2>1, <1>3 DEF CoverBits
    <3>2. \A b \in BlocksOf(x) : bmap'.bits[b] = Staged => bmap.bits[b] = Staged
      BY <1>1 DEF Gentle, Full, Staged
    <3>3. ~DedupEnable /\ IsFrag(x.size) /\ Fresh(x) => Fresh(x)'
      BY <2>1 DEF Gentle
    <3>4. QED
      BY <3>1, <3>2, <3>3 DEF Found
  <2>2. CASE x \notin Referenced
    <3>1. x \notin Old'
      BY <2>2 DEF Gentle
    <3>2. QED
      BY <3>1, <1>1 DEF Old, Found
  <2>3. QED
    BY <2>1, <2>2
<1>4. ASSUME bulk.st = "scanned", NEW b \in Blocks, bulk.scan.bits[b] = Full
      PROVE  bmap'.bits[b] # Free
  BY <1>4 DEF Gentle, CoverBits, Free, Full
<1>5. QED
  BY <1>2, <1>3, <1>4 DEF CoverBits

\* A chain, its blockref and its entry of volsync are references.
LEMMA RefersTo ==
    ASSUME TypeOK, NEW p \in Owners,
           NEW x \in {dataOff[p], dedupOff[p], blockref[p], volsync[p]}, x # Nowhere
    PROVE  x \in Referenced
  BY DEF Referenced, Stored

\* After a gentle step, a reference that is old and was there, was old.
LEMMA OldBefore ==
    ASSUME SpaceInv, Gentle, NEW p \in Owners,
           NEW x \in {dataOff[p], dedupOff[p], blockref[p], volsync[p]}, x \in Old'
    PROVE  x \in Old
<1>1. x \in Extents
  BY DEF Old
<1>2. x \in Referenced
  BY <1>1, RefersTo, BulkfreeAssumption DEF SpaceInv
<1>3. QED
  BY <1>2, GentleOld

\* A step of one owner that neither the flush nor bulkfree takes.
LEMMA FrontendFlush ==
    ASSUME SpaceInv, CoverFlush, Gentle, UNCHANGED <<blockref, volsync, flush, bulk>>,
           NEW o \in Owners, update \cup {o} = update' \/ update = update',
           \A p \in Owners : p # o => dataOff'[p] = dataOff[p] /\ dedupOff'[p] = dedupOff[p],
           \/ dataOff'[o] = dataOff[o]
           \/ o \in update' /\ (Kept(o) => dataOff'[o] \notin Old'),
           dedupOff'[o] = dedupOff[o] \/ dedupOff'[o] \notin Old'
    PROVE  CoverFlush'
<1>1. ASSUME NEW p \in Owners, Kept(p)
      PROVE  Kept(p)'
  <2>1. dataOff'[p] \in Old' => blockref'[p] = dataOff'[p]
    <3> SUFFICES ASSUME dataOff'[p] \in Old'
                 PROVE  blockref'[p] = dataOff'[p]
      OBVIOUS
    <3>1. dataOff'[p] = dataOff[p]
      BY <1>1
    <3>2. dataOff[p] \in Old
      BY <3>1, OldBefore
    <3>3. QED
      BY <3>1, <3>2, <1>1 DEF Kept
  <2>2. dedupOff'[p] \notin Old'
    <3> SUFFICES ASSUME dedupOff'[p] \in Old'
                 PROVE  FALSE
      OBVIOUS
    <3>1. dedupOff'[p] = dedupOff[p]
      OBVIOUS
    <3>2. dedupOff[p] \in Old
      BY <3>1, OldBefore
    <3>3. QED
      BY <3>2, <1>1 DEF Kept
  <2>3. QED
    BY <2>1, <2>2 DEF Kept
<1>2. ASSUME NEW p \in Owners, p \notin update'
      PROVE  blockref'[p] = dataOff'[p]
  BY <1>2 DEF CoverFlush
<1>3. ASSUME NEW p \in Owners, blockref'[p] \in Old'
      PROVE  blockref[p] \in Old /\ blockref'[p] = blockref[p]
  BY <1>3, OldBefore
<1>4. QED
  BY <1>1, <1>2, <1>3 DEF CoverFlush

\* An owner without storage has nothing a merge could free.
LEMMA NowhereNotOld == Nowhere \notin Old /\ Nowhere \notin Old'
  BY BulkfreeAssumption DEF Old

\* The steps of the frontend.
LEMMA FrontendCover ==
    ASSUME SpaceInv, SpaceInv', CoverInv, IterInv, ~enospc, NEW o \in Owners,
           \/ \E s \in Sizes : \E off \in Offers(bmap, s, o \in DataOwners) :
                 Write(o, Extent(off, s))
           \/ \E s \in Sizes : WriteFails(o, s)
           \/ \E x \in heurDedup : DedupLookup(o, x)
           \/ DedupAssign(o) \/ Record(o) \/ Delete(o)
    PROVE  CoverBits' /\ CoverFlush' /\ Gentle /\ bulk' = bulk /\ ~enospc'
<1>1. CoverBits /\ CoverFlush
  BY CoverIs
<1>2. ASSUME NEW s \in Sizes, NEW off \in Offers(bmap, s, o \in DataOwners),
             Write(o, Extent(off, s))
      PROVE  Gentle /\ bulk' = bulk /\ ~enospc' /\ CoverFlush'
  <2>1. Gentle /\ Extent(off, s) \notin Old'
    BY <1>2, WriteGentle
  <2>2. /\ UNCHANGED <<blockref, volsync, flush, bulk, enospc, dedupOff>>
        /\ update' = update \cup {o} /\ dataOff' = [dataOff EXCEPT ![o] = Extent(off, s)]
    BY <1>2 DEF Write, flushVars
  <2>3. /\ \A p \in Owners : p # o => dataOff'[p] = dataOff[p]
        /\ dataOff'[o] = Extent(off, s)
    BY <2>2 DEF SpaceInv, TypeOK, Topologies
  <2>4. QED
    BY <1>1, <2>1, <2>2, <2>3, FrontendFlush
<1>3. ASSUME NEW s \in Sizes, WriteFails(o, s)
      PROVE  Gentle /\ bulk' = bulk /\ ~enospc' /\ CoverFlush'
  <2>1. Gentle
    BY <1>3, QuietGentle DEF Quiet
  <2>2. UNCHANGED <<blockref, volsync, flush, bulk, enospc, dedupOff, dataOff, update>>
    BY <1>3 DEF WriteFails, flushVars, dedupVars
  <2>3. QED
    BY <1>1, <2>1, <2>2, FrontendFlush
<1>4. ASSUME NEW x \in heurDedup, DedupLookup(o, x)
      PROVE  Gentle /\ bulk' = bulk /\ ~enospc' /\ CoverFlush'
  <2>1. Gentle /\ x \notin Old'
    BY <1>4, LookupGentle
  <2>2. /\ UNCHANGED <<blockref, volsync, flush, bulk, enospc, dataOff, update>>
        /\ dedupOff' = [dedupOff EXCEPT ![o] = x]
    BY <1>4 DEF DedupLookup, flushVars
  <2>3. /\ \A p \in Owners : p # o => dedupOff'[p] = dedupOff[p]
        /\ dedupOff'[o] = x
    BY <2>2 DEF SpaceInv, TypeOK, Topologies
  <2>4. QED
    BY <1>1, <2>1, <2>2, <2>3, FrontendFlush
<1>5. ASSUME Delete(o) \/ Record(o)
      PROVE  Gentle /\ bulk' = bulk /\ ~enospc' /\ CoverFlush'
  <2>1. Gentle
    BY <1>5, QuietGentle DEF Quiet
  <2>2. CASE Record(o)
    <3>1. UNCHANGED <<blockref, volsync, flush, bulk, enospc, dedupOff, dataOff, update>>
      BY <2>2 DEF Record, flushVars
    <3>2. QED
      BY <1>1, <2>1, <3>1, FrontendFlush
  <2>3. CASE Delete(o)
    <3>1. /\ UNCHANGED <<blockref, volsync, flush, bulk, enospc, dedupOff>>
          /\ update' = update \cup {o} /\ dataOff' = [dataOff EXCEPT ![o] = Nowhere]
      BY <2>3 DEF Delete, flushVars
    <3>2. /\ \A p \in Owners : p # o => dataOff'[p] = dataOff[p]
          /\ dataOff'[o] = Nowhere
      BY <3>1 DEF SpaceInv, TypeOK, Topologies
    <3>3. QED
      BY <1>1, <2>1, <3>1, <3>2, FrontendFlush, NowhereNotOld
  <2>4. QED
    BY <1>5, <2>2, <2>3
<1>6. ASSUME DedupAssign(o)
      PROVE  Gentle /\ bulk' = bulk /\ ~enospc' /\ CoverFlush'
  <2>1. Gentle
    BY <1>6, AssignGentle
  <2>2. /\ UNCHANGED <<blockref, volsync, flush, bulk, enospc>>
        /\ update' = update \cup {o}
        /\ dataOff' = [dataOff EXCEPT ![o] = dedupOff[o]]
        /\ dedupOff' = [dedupOff EXCEPT ![o] = Nowhere]
    BY <1>6 DEF DedupAssign, flushVars
  <2>3. /\ \A p \in Owners : p # o => dataOff'[p] = dataOff[p] /\ dedupOff'[p] = dedupOff[p]
        /\ dataOff'[o] = dedupOff[o] /\ dedupOff'[o] = Nowhere
    BY <2>2 DEF SpaceInv, TypeOK, Topologies
  <2>4. Kept(o) => dataOff'[o] \notin Old'
    <3>1. dedupOff[o] \in Old' => dedupOff[o] \in Old
      BY <2>1, OldBefore
    <3>2. QED
      BY <3>1, <2>3 DEF Kept
  <2>5. QED
    BY <1>1, <2>1, <2>2, <2>3, <2>4, FrontendFlush, NowhereNotOld
<1>7. QED
  BY <1>1, <1>2, <1>3, <1>4, <1>5, <1>6, GentleBits

\* The flush comes past one owner: the block table of its parent has what the
\* chain has.
LEMMA FlushOwnerCover ==
    ASSUME SpaceInv, CoverFlush, Old' = Old, NEW o \in Owners, FlushOwner(o)
    PROVE  CoverFlush'
<1>1. /\ UNCHANGED <<dataOff, dedupOff, volsync, bulk>>
      /\ update' = update \ {o} /\ dedupOff[o] = Nowhere
      /\ blockref' = [blockref EXCEPT ![o] = IF o \in update THEN dataOff[o] ELSE blockref[o]]
      /\ flush.st = "run" /\ flush' = [flush EXCEPT !.todo = flush.todo \ {o}]
  BY DEF FlushOwner, dedupVars, Unlocked
<1>2. /\ blockref'[o] = dataOff[o]
      /\ \A p \in Owners : p # o => blockref'[p] = blockref[p]
  BY <1>1 DEF CoverFlush, SpaceInv, TypeOK, Topologies
<1>3. flush'.st = "run" /\ flush'.todo = flush.todo \ {o}
  <2>1. flush \in [st : {"run"}, todo : SUBSET Owners]
    BY <1>1 DEF SpaceInv, TypeOK, NoFlush
  <2>2. QED
    BY <2>1, <1>1
<1>4. Kept(o)'
  BY <1>1, <1>2, NowhereNotOld DEF Kept
<1>5. ASSUME NEW p \in Owners, Kept(p)
      PROVE  Kept(p)'
  <2>1. CASE p # o
    BY <2>1, <1>1, <1>2, <1>5 DEF Kept
  <2>2. QED
    BY <2>1, <1>4
<1>6. \A p \in Owners : p \notin update' => blockref'[p] = dataOff'[p]
  BY <1>1, <1>2 DEF CoverFlush
<1>7. bulk'.st = "sync" => flush'.st = "run" /\ \A p \in Owners \ flush'.todo : Kept(p)'
  BY <1>1, <1>3, <1>4, <1>5 DEF CoverFlush
<1>8. ASSUME bulk'.st = "synced", NEW p \in Owners
      PROVE  Kept(p)' /\ (blockref'[p] \in Old' => volsync'[p] = blockref'[p])
  <2>1. Kept(p) /\ (blockref[p] \in Old => volsync[p] = blockref[p])
    BY <1>1, <1>8 DEF CoverFlush
  <2>2. CASE p # o
    BY <2>1, <2>2, <1>1, <1>2, <1>5
  <2>3. CASE p = o
    BY <2>1, <2>3, <1>1, <1>2, <1>5 DEF Kept
  <2>4. QED
    BY <2>2, <2>3
<1>9. QED
  BY <1>6, <1>7, <1>8 DEF CoverFlush

\* hammer2_flush_core and the volume root carry what is old into the block
\* tables, and from there into volsync, before the scan starts.
LEMMA FlusherCover ==
    ASSUME SpaceInv, SpaceInv', CoverInv, ~enospc, ~enospc',
           \/ FlushBegin \/ FlushVolume \/ BulkSync \/ BulkAbort
           \/ \E o \in Owners : FlushOwner(o)
           \/ UNCHANGED vars
    PROVE  CoverBits' /\ CoverFlush'
<1>1. CoverBits /\ CoverFlush
  BY CoverIs
<1>2. Quiet /\ Gentle /\ Old' = Old
  BY QuietGentle DEF Quiet
<1>3. ASSUME UNCHANGED <<update, blockref, dataOff, dedupOff, volsync>>
      PROVE  /\ \A p \in Owners : Kept(p)' <=> Kept(p)
             /\ \A p \in Owners : p \notin update' => blockref'[p] = dataOff'[p]
             /\ (bulk'.st = "synced" /\ bulk.st = "synced" =>
                   \A p \in Owners : Kept(p)' /\ (blockref'[p] \in Old' => volsync'[p] = blockref'[p]))
  <2>1. \A p \in Owners : Kept(p)' <=> Kept(p)
    BY <1>2, <1>3 DEF Kept
  <2>2. QED
    BY <1>1, <1>2, <1>3, <2>1 DEF CoverFlush
<1>4. ASSUME bulk'.st # "scanned"
      PROVE  CoverBits'
  <2>1. ASSUME NEW x \in Referenced'
        PROVE  x \in Referenced /\ BlocksOf(x) \subseteq Blocks
    <3>1. x \in Referenced
      BY <1>2, QuietRefers DEF SpaceInv
    <3>2. QED
      BY <3>1, PlacedBlocks DEF SpaceInv
  <2>2. \A x \in Referenced' : \A b \in BlocksOf(x) : bmap'.bits[b] # Free
    BY <2>1, <1>1, <1>2, QuietRefers DEF CoverBits, SpaceInv
  <2>3. QED
    BY <2>2, <1>4 DEF CoverBits
<1>5. CASE FlushBegin
  <2>1. /\ UNCHANGED <<update, blockref, dataOff, dedupOff, volsync, bulk>>
        /\ flush = NoFlush
    BY <1>5 DEF FlushBegin, dedupVars
  <2>2. bulk'.st # "sync"
    <3>1. flush.st # "run"
      BY <2>1 DEF NoFlush
    <3>2. QED
      BY <3>1, <2>1, <1>1 DEF CoverFlush
  <2>3. CoverFlush'
    BY <2>1, <2>2, <1>3 DEF CoverFlush
  <2>4. QED
    BY <2>1, <2>3, <1>1, <1>2, GentleBits
<1>6. CASE FlushVolume
  <2>1. /\ UNCHANGED <<update, blockref, dataOff, dedupOff>> /\ volsync' = blockref
        /\ flush.todo = {}
        /\ bulk' = IF bulk.st = "sync" THEN [st |-> "synced"] ELSE bulk
    BY <1>6 DEF FlushVolume, dedupVars
  <2>2. \A p \in Owners : Kept(p)' <=> Kept(p)
    BY <2>1, <1>2 DEF Kept
  <2>3. bulk'.st # "sync" /\ (bulk'.st = "synced" => \A p \in Owners : Kept(p))
    <3>1. CASE bulk.st = "sync"
      BY <3>1, <2>1, <1>1 DEF CoverFlush
    <3>2. CASE bulk.st # "sync"
      BY <3>2, <2>1, <1>1 DEF CoverFlush
    <3>3. QED
      BY <3>1, <3>2
  <2>4. CoverFlush'
    BY <2>1, <2>2, <2>3, <1>1 DEF CoverFlush
  <2>5. CASE bulk.st = "sync"
    BY <2>1, <2>4, <2>5, <1>4
  <2>6. CASE bulk.st # "sync"
    BY <2>1, <2>4, <2>6, <1>1, <1>2, GentleBits
  <2>7. QED
    BY <2>5, <2>6
<1>7. CASE BulkSync
  <2>1. /\ UNCHANGED <<update, blockref, dataOff, dedupOff, volsync>>
        /\ flush' = [st |-> "run", todo |-> Owners] /\ bulk' = [st |-> "sync"]
    BY <1>7 DEF BulkSync, StartFlush, dedupVars
  <2>2. CoverFlush'
    BY <2>1, <1>3 DEF CoverFlush
  <2>3. QED
    BY <2>1, <2>2, <1>4
<1>8. CASE BulkAbort
  <2>1. UNCHANGED <<update, blockref, dataOff, dedupOff, volsync>> /\ bulk' = [st |-> "idle"]
    BY <1>8 DEF BulkAbort, Idle, dedupVars, flushVars
  <2>2. CoverFlush'
    BY <2>1, <1>3 DEF CoverFlush
  <2>3. QED
    BY <2>1, <2>2, <1>4
<1>9. CASE \E o \in Owners : FlushOwner(o)
  <2>1. PICK o \in Owners : FlushOwner(o)
    BY <1>9
  <2>2. CoverFlush' /\ bulk' = bulk
    BY <2>1, <1>1, <1>2, FlushOwnerCover DEF FlushOwner
  <2>3. QED
    BY <2>2, <1>1, <1>2, GentleBits
<1>10. CASE UNCHANGED vars
  <2>1. UNCHANGED <<update, blockref, dataOff, dedupOff, volsync, bulk, flush>>
    BY <1>10 DEF vars, dedupVars, flushVars
  <2>2. CoverFlush'
    BY <2>1, <1>1, <1>3 DEF CoverFlush
  <2>3. QED
    BY <2>1, <2>2, <1>1, <1>2, GentleBits
<1>11. QED
  BY <1>5, <1>6, <1>7, <1>8, <1>9, <1>10

\* Once the flush is over, the snapshot has everything that is old.
LEMMA OldInSnapshot ==
    ASSUME SpaceInv, CoverFlush, bulk.st = "synced", NEW x \in Referenced, x \in Old
    PROVE  x \in Stored(volsync)
<1>1. ASSUME NEW o \in Owners, blockref[o] \in Old
      PROVE  volsync[o] = blockref[o]
  BY <1>1 DEF CoverFlush
<1>2. \A o \in Owners : Kept(o)
  BY DEF CoverFlush
<1>3. x # Nowhere
  BY NowhereNotOld
<1>4. \E o \in Owners : x \in {dataOff[o], dedupOff[o], blockref[o], volsync[o]}
  BY DEF Referenced, Stored
<1>5. \E o \in Owners : volsync[o] = x
  BY <1>1, <1>2, <1>4 DEF Kept
<1>6. QED
  BY <1>3, <1>5 DEF Stored

\* h2_bulkfree_callback and the scan of the snapshot.
LEMMA ScanIs ==
    ASSUME SpaceInv, BulkScan
    PROVE  /\ bulk'.st = "scanned" /\ bulk.st = "synced"
           /\ \A b \in Blocks :
                 bulk'.scan.bits[b] = Full <=> \E x \in Stored(volsync) : b \in BlocksOf(x)
           /\ bulk'.scan.linear \in 0..SegSize
           /\ \A x \in Stored(volsync) : IsFrag(x.size) => x.off + x.size <= bulk'.scan.linear
           /\ bulk'.scan.linear > 0 =>
                 \E x \in Stored(volsync) : bulk'.scan.linear = x.off + x.size
           /\ Stored(volsync) \subseteq Referenced
           /\ UNCHANGED <<bmap, update, blockref, volsync, dataOff, dedupOff, enospc>>
           /\ Referenced' = Referenced
<1>1. PICK l \in ScanLinears(Stored(volsync)) :
         bulk' = [st |-> "scanned",
                  scan |-> [bits |-> ScanBits(Stored(volsync)), linear |-> l]]
  BY DEF BulkScan
<1>2. /\ bulk'.st = "scanned" /\ bulk'.scan.bits = ScanBits(Stored(volsync))
      /\ bulk'.scan.linear = l
  BY <1>1
<1>3. IsFiniteSet(Stored(volsync)) /\ \A x \in Stored(volsync) : Placed(x)
  BY StoredFinite DEF SpaceInv, Referenced, TypeOK
<1>4. UNCHANGED <<bmap, update, blockref, volsync, dataOff, dedupOff, enospc>>
      /\ bulk.st = "synced"
  BY DEF BulkScan, flushVars
<1>5. Referenced' = Referenced /\ Stored(volsync) \subseteq Referenced
  BY <1>4 DEF Referenced
<1>6. QED
  BY <1>2, <1>3, <1>4, <1>5, ScanBitsAre, ScanLinearsAre

\* hammer2_chain_bulksnap and h2_bulkfree_callback: the scan finds what is old
\* of every reference, because the snapshot has it.
LEMMA ScanCover ==
    ASSUME SpaceInv, CoverInv, ~enospc, BulkScan
    PROVE  CoverBits' /\ CoverFlush'
<1>1. CoverBits /\ CoverFlush
  BY CoverIs
<1>2. /\ bulk'.st = "scanned" /\ bulk.st = "synced"
      /\ \A b \in Blocks :
            bulk'.scan.bits[b] = Full <=> \E x \in Stored(volsync) : b \in BlocksOf(x)
      /\ \A x \in Stored(volsync) : IsFrag(x.size) => x.off + x.size <= bulk'.scan.linear
      /\ Stored(volsync) \subseteq Referenced
      /\ UNCHANGED <<bmap, update, blockref, volsync, dataOff, dedupOff, enospc>>
      /\ Referenced' = Referenced
  BY ScanIs
<1>3. \A x : Fresh(x)' <=> Fresh(x)
  BY <1>2 DEF Fresh
<1>4. ASSUME NEW x \in Referenced
      PROVE  Found(x)'
  <2>1. x \in Extents /\ BlocksOf(x) \subseteq Blocks
    BY PlacedBlocks DEF SpaceInv, Placed
  <2>2. CASE x \in Old
    <3>1. x \in Stored(volsync)
      BY <2>2, <1>1, <1>2, OldInSnapshot
    <3>2. QED
      BY <2>1, <3>1, <1>2 DEF Found
  <2>3. CASE x \notin Old
    BY <2>1, <2>3, <1>2, <1>3 DEF Old, Found
  <2>4. QED
    BY <2>2, <2>3
<1>5. CoverBits'
  BY <1>1, <1>2, <1>4 DEF CoverBits
<1>6. CoverFlush'
  BY <1>1, <1>2 DEF CoverFlush
<1>7. QED
  BY <1>5, <1>6

\* The merge frees nothing that is referred to.
LEMMA MergeCover ==
    ASSUME SpaceInv, CoverInv, ~enospc, BulkMerge
    PROVE  CoverBits' /\ CoverFlush'
<1>1. CoverBits /\ CoverFlush
  BY CoverIs
<1>2. /\ UNCHANGED <<update, blockref, dataOff>> /\ bulk'.st = "idle" /\ bulk.st = "scanned"
      /\ Referenced' = Referenced
  BY MergeSpace DEF BulkMerge, Idle, flushVars
<1>3. ASSUME NEW x \in Referenced, NEW b \in BlocksOf(x)
      PROVE  bmap'.bits[b] # Free
  <2>1. b \in Blocks
    BY PlacedBlocks DEF SpaceInv
  <2>2. bmap.bits[b] # Free /\ (bmap.bits[b] = Staged => bulk.scan.bits[b] = Full)
    BY <1>1, <1>2 DEF CoverBits, Found
  <2>3. bmap.bits[b] \in {Free, Staged, Full}
    BY <2>1, TypeFacts DEF SpaceInv
  <2>4. CASE InSync(bmap, bulk.scan)
    BY <2>2, <2>4 DEF BulkMerge
  <2>5. CASE ~InSync(bmap, bulk.scan)
    <3>1. bmap'.bits[b] = NextStage(bmap.bits[b], bulk.scan.bits[b])
      BY <2>1, <2>5, MergeIs
    <3>2. QED
      BY <3>1, <2>2, <2>3 DEF NextStage, Free, Staged, Full
  <2>6. QED
    BY <2>4, <2>5
<1>4. QED
  BY <1>1, <1>2, <1>3 DEF CoverBits, CoverFlush

\* Only a flush that runs out of space sets enospc.
LEMMA EnospcSet ==
    ASSUME [Next]_vars
    PROVE  enospc' = enospc \/ (FlushMayFail /\ enospc' = TRUE)
<1>1. CASE Flusher
  <2>1. CASE FlushBegin
    BY <2>1 DEF FlushBegin
  <2>2. CASE FlushVolume
    BY <2>2 DEF FlushVolume
  <2>3. ASSUME NEW o \in Owners, FlushOwner(o) PROVE enospc' = enospc
    BY <2>3 DEF FlushOwner
  <2>4. ASSUME NEW o \in Owners, NEW s \in Sizes, FlushOwnerFails(o, s)
        PROVE  FlushMayFail /\ enospc' = TRUE
    BY <2>4 DEF FlushOwnerFails
  <2>5. QED
    BY <1>1, <2>1, <2>2, <2>3, <2>4 DEF Flusher
<1>2. CASE Bulkfreer
  <2>1. BulkSync => enospc' = enospc
    BY DEF BulkSync, flushVars
  <2>2. BulkScan => enospc' = enospc
    BY DEF BulkScan, flushVars
  <2>3. BulkAbort => enospc' = enospc
    BY DEF BulkAbort, flushVars
  <2>4. BulkMerge => enospc' = enospc
    BY DEF BulkMerge, flushVars
  <2>5. QED
    BY <1>2, <2>1, <2>2, <2>3, <2>4 DEF Bulkfreer
<1>3. ASSUME NEW o \in Owners, Frontend(o) PROVE enospc' = enospc
  <2>1. ASSUME NEW x, Write(o, x) PROVE enospc' = enospc
    BY <2>1 DEF Write, flushVars
  <2>2. ASSUME NEW s \in Sizes, WriteFails(o, s) PROVE enospc' = enospc
    BY <2>2 DEF WriteFails, flushVars
  <2>3. ASSUME NEW x \in heurDedup, DedupLookup(o, x) PROVE enospc' = enospc
    BY <2>3 DEF DedupLookup, flushVars
  <2>4. Record(o) => enospc' = enospc
    BY DEF Record, flushVars
  <2>5. Delete(o) => enospc' = enospc
    BY DEF Delete, flushVars
  <2>6. DedupAssign(o) => enospc' = enospc
    BY DEF DedupAssign, flushVars
  <2>7. QED
    BY <1>3, <2>1, <2>2, <2>3, <2>4, <2>5, <2>6 DEF Frontend
<1>4. CASE UNCHANGED vars
  BY <1>4 DEF vars, flushVars
<1>5. QED
  BY <1>1, <1>2, <1>3, <1>4 DEF Next

\* enospc is for good.
LEMMA EnospcStays ==
    ASSUME [Next]_vars, enospc
    PROVE  enospc'
  BY EnospcSet

\* Nothing is referred to when the file system is new.
LEMMA CoverInit ==
    ASSUME Init
    PROVE  CoverInv
<1>1. Referenced = {} /\ bulk.st = "idle" /\ blockref = dataOff
  BY DEF Init, Referenced, Stored, Idle
<1>2. QED
  BY <1>1 DEF CoverInv

\* No step disturbs CoverInv.
LEMMA CoverNext ==
    ASSUME SpaceInv, SpaceInv', CoverInv, IterInv, [Next]_vars
    PROVE  CoverInv'
<1> SUFFICES ASSUME ~enospc'
             PROVE  CoverBits' /\ CoverFlush'
  BY DEF CoverInv, CoverBits, CoverFlush
<1>1. ASSUME NEW o \in Owners, NEW s \in Sizes
      PROVE  ~FlushOwnerFails(o, s)
  BY DEF FlushOwnerFails
<1>2. ~enospc
  BY EnospcStays
<1>3. QED
  BY <1>1, <1>2, FrontendCover, FlusherCover, ScanCover, MergeCover, Steps DEF Quiet

-----------------------------------------------------------------------------
(* The iterator.                                                             *)

\* A number inside a block, and the end of one.
LEMMA InsideBlock ==
    ASSUME NEW b \in Nat, NEW n \in Nat, b * Units < n, n <= b * Units + Units
    PROVE  /\ BlockOf(n - 1) = b
           /\ MidBlock(n) => BlockOf(n) = b
           /\ ~MidBlock(n) => n = b * Units + Units /\ BlockOf(n) = b + 1
<1>1. b * Units \in Nat /\ (b + 1) * Units = b * Units + Units /\ Units \in Nat \ {0}
  BY Geometry
<1>2. n - 1 \in Nat /\ BlockOf(n - 1) = b
  BY <1>1, UnitsOfBlock
<1>3. CASE n < b * Units + Units
  <2>1. BlockOf(n) = b
    BY <1>1, <1>3, UnitsOfBlock
  <2>2. n = Units * b + (n % Units) /\ n % Units \in Nat
    BY <2>1, <1>1, DivMod DEF BlockOf
  <2>3. MidBlock(n)
    BY <2>2, <1>1 DEF MidBlock
  <2>4. QED
    BY <2>1, <2>3, <1>2
<1>4. CASE n = b * Units + Units
  <2>1. b + 1 \in Nat /\ n = (b + 1) * Units
    BY <1>1, <1>4
  <2>2. BlockOf(n) = b + 1 /\ ~MidBlock(n)
    BY <2>1, <1>1, DivOfTimes DEF BlockOf, MidBlock
  <2>3. QED
    BY <2>2, <1>2, <1>4
<1>5. QED
  BY <1>1, <1>3, <1>4

\* The block an iterator is inside of.
LEMMA MidBlockIs ==
    ASSUME NEW n \in 0..SegSize, MidBlock(n)
    PROVE  LET b == BlockOf(n)
           IN  /\ b \in Blocks /\ b \in Nat /\ b * Units < n /\ n < b * Units + Units
               /\ BlockOf(n - 1) = b
<1> DEFINE b == BlockOf(n)
<1>1. n \in Nat /\ n # SegSize
  BY Geometry DEF MidBlock
<1>2. n \in Offs
  BY <1>1, Geometry DEF Offs
<1>3. b \in Blocks /\ b \in Nat
  BY <1>2, BlockOfUnit DEF Blocks
<1>4. b * Units <= n /\ n < b * Units + Units /\ b * Units \in Nat
  BY <1>1, <1>3, UnitsOfBlock, Geometry
<1>5. b * Units # n
  BY <1>3, DivOfTimes, Geometry DEF MidBlock
<1>6. b * Units < n
  BY <1>1, <1>4, <1>5
<1>7. QED
  BY <1>1, <1>3, <1>4, <1>6, InsideBlock, Geometry

\* The block that ends where an iterator at a boundary stands.
LEMMA BlockBefore ==
    ASSUME NEW n \in Nat, 0 < n, n < SegSize, ~MidBlock(n)
    PROVE  /\ BlockOf(n) - 1 \in Blocks /\ BlockOf(n) - 1 = BlockOf(n - 1)
           /\ n = BlockOf(n) * Units
<1> DEFINE b == BlockOf(n)
<1>1. b \in Nat /\ n = Units * b + (n % Units) /\ n % Units = 0
  BY DivMod, Geometry DEF BlockOf, MidBlock
<1>2. b > 0 /\ n = b * Units
  BY <1>1, Geometry
<1>3. n \in Offs
  BY Geometry DEF Offs
<1>4. b \in Blocks
  BY <1>3, BlockOfUnit
<1>5. b - 1 \in Blocks /\ b - 1 \in Nat
  BY <1>1, <1>2, <1>4, PrevBlock
<1>6. (b - 1) * Units + Units = n /\ (b - 1) * Units \in Nat
  BY <1>1, <1>2, TimesPrev, Geometry
<1>7. BlockOf(n - 1) = b - 1
  BY <1>5, <1>6, InsideBlock, Geometry
<1>8. QED
  BY <1>2, <1>5, <1>7

\* hammer2_freemap_alloc hands out units that nothing refers to.
LEMMA WriteApart ==
    ASSUME SpaceInv, CoverInv, IterInv, ~enospc, NEW o \in Owners, NEW s \in Sizes,
           ~DedupEnable \/ ~IsFrag(s),
           NEW off \in Offers(bmap, s, o \in DataOwners), Write(o, Extent(off, s)),
           NEW y \in Referenced
    PROVE  UnitsOf(y) \cap UnitsOf(Extent(off, s)) = {}
<1> DEFINE x == Extent(off, s)
<1> SUFFICES ASSUME NEW u \in UnitsOf(y), u \in UnitsOf(x)
             PROVE  FALSE
  OBVIOUS
<1>1. bmap \in Bmaps
  BY DEF SpaceInv, TypeOK
<1>2. Placed(x) /\ Placed(y) /\ x.off = off /\ x.size = s
  BY WriteIs DEF SpaceInv
<1>3. BlockOf(u) \in BlocksOf(x) /\ BlockOf(u) \in BlocksOf(y)
  BY <1>2, PlacedBlocks
<1>4. bmap.bits[BlockOf(u)] # Free
  BY <1>3 DEF CoverInv
<1>5. LinearFits(bmap, s) /\ IsFrag(s) /\ off = bmap.linear
  BY <1>1, <1>3, <1>4, OfferIs
<1>6. BlockOf(u) = BlockOf(bmap.linear)
  BY <1>2, <1>5, PlacedFrag
<1>7. u < bmap.linear
  BY <1>5, <1>6 DEF IterInv, IteratorSane, LinearFits
<1>8. off <= u /\ off \in Nat
  BY <1>2, PlacedBlocks DEF UnitsOf
<1>9. u \in Nat
  BY <1>2, PlacedBlocks, Geometry DEF Offs
<1>10. QED
  BY <1>5, <1>7, <1>8, <1>9

\* Slots are free: whole blocks do not touch what is not.
LEMMA WriteWhole ==
    ASSUME SpaceInv, NEW o \in Owners, NEW s \in Sizes, ~IsFrag(s),
           NEW off \in Offers(bmap, s, o \in DataOwners), Write(o, Extent(off, s))
    PROVE  /\ \A b \in BlocksOf(Extent(off, s)) : bmap.bits[b] = Free
           /\ bmap'.linear = bmap.linear
<1>1. bmap \in Bmaps
  BY DEF SpaceInv, TypeOK
<1>2. QED
  BY <1>1, OfferIs, WriteIs

\* hammer2_freemap_alloc leaves the iterator at the end of the fragment it
\* allocated last, with the rest of that block unused.
LEMMA WriteIter ==
    ASSUME SpaceInv, SpaceInv', CoverInv, IterInv, ~DedupEnable, ~enospc,
           NEW o \in Owners, NEW s \in Sizes,
           NEW off \in Offers(bmap, s, o \in DataOwners), Write(o, Extent(off, s))
    PROVE  IterInv'
<1> DEFINE x == Extent(off, s)
           b == BlockOf(off)
           l == bmap.linear
           n == bmap'.linear
<1>1. /\ Placed(x) /\ x.off = off /\ x.size = s
      /\ \A c \in Blocks : c \in BlocksOf(x) => bmap'.bits[c] = Full
      /\ bmap'.linear \in 0..SegSize /\ bmap.linear \in 0..SegSize
  BY WriteIs, TypeFacts DEF SpaceInv, Bmaps
<1>2. \A c \in Blocks : bmap'.bits[c] \in {Full, bmap.bits[c]}
  BY WriteGentle DEF Gentle
<1>3. Referenced' \subseteq Referenced \cup {x} /\ UNCHANGED <<dedupOff, bulk, enospc>>
  BY WriteRefers DEF SpaceInv, Write, flushVars
<1>4. \A y \in Referenced : UnitsOf(y) \cap UnitsOf(x) = {}
  BY WriteApart
<1>5. ASSUME IsFrag(s)
      PROVE  /\ b \in Blocks /\ b \in Nat /\ BlocksOf(x) = {b}
             /\ n = off + s /\ n \in Nat /\ b * Units < n /\ n <= b * Units + Units
             /\ b > 0 => bmap.bits[b - 1] # Free
             /\ bmap'.bits[b] = Full
             /\ \/ off = l /\ MidBlock(l) /\ b = BlockOf(l)
                \/ bmap.bits[b] = Free
  BY <1>5, WriteFrag
<1>6. ASSUME IsFrag(s)
      PROVE  /\ MidBlock(n) => BlockOf(n) = b
             /\ ~MidBlock(n) => BlockOf(n) = b + 1
  BY <1>5, <1>6, InsideBlock
<1>7. ASSUME ~IsFrag(s)
      PROVE  n = l /\ \A c \in BlocksOf(x) : bmap.bits[c] = Free
  BY <1>7, WriteWhole
<1>8. off \in Nat /\ s \in Nat \ {0} /\ l \in Nat /\ SegSize \in Nat
  BY <1>1, PlacedBlocks, Geometry
<1>9. IteratorSane'
  <2> SUFFICES ASSUME MidBlock(n)
               PROVE  /\ bmap'.bits[BlockOf(n)] = Full
                      /\ \A y \in Referenced' : \A u \in UnitsOf(y) :
                            BlockOf(u) = BlockOf(n) => u < n
    BY DEF IteratorSane
  <2>1. CASE IsFrag(s)
    <3>1. BlockOf(n) = b /\ bmap'.bits[b] = Full
      BY <2>1, <1>5, <1>6
    <3>2. ASSUME NEW y \in Referenced, NEW u \in UnitsOf(y), BlockOf(u) = b
          PROVE  u < n
      <4>1. bmap.bits[b] # Free /\ u \in Nat
        BY <3>2, PlacedBlocks, Geometry DEF SpaceInv, CoverInv, Offs
      <4>2. off = l /\ MidBlock(l) /\ b = BlockOf(l) /\ n = off + s
        BY <4>1, <2>1, <1>5
      <4>3. u < l
        BY <4>2, <3>2 DEF IterInv, IteratorSane
      <4>4. QED
        BY <4>1, <4>2, <4>3, <1>8
    <3>3. ASSUME NEW u \in UnitsOf(x)
          PROVE  u < n
      BY <2>1, <1>1, <1>5, <1>8 DEF UnitsOf
    <3>4. QED
      BY <3>1, <3>2, <3>3, <1>3
  <2>2. CASE ~IsFrag(s)
    <3>1. n = l /\ MidBlock(l)
      BY <2>2, <1>7
    <3>2. BlockOf(l) \in Blocks /\ bmap.bits[BlockOf(l)] = Full
      BY <3>1, <1>1, MidBlockIs DEF IterInv, IteratorSane
    <3>3. bmap'.bits[BlockOf(l)] = Full
      BY <3>2, <1>2
    <3>4. \A u \in UnitsOf(x) : BlockOf(u) # BlockOf(l)
      BY <2>2, <3>2, <1>1, <1>7, PlacedBlocks DEF Free, Full
    <3>5. \A y \in Referenced : \A u \in UnitsOf(y) : BlockOf(u) = BlockOf(l) => u < l
      BY <3>1 DEF IterInv, IteratorSane
    <3>6. QED
      BY <3>1, <3>3, <3>4, <3>5, <1>3
  <2>3. QED
    BY <2>1, <2>2
<1>10. ASSUME MidBlock(n), BlockOf(n) > 0
       PROVE  bmap'.bits[BlockOf(n) - 1] # Free
  <2>1. BlockOf(n) - 1 \in Blocks
    BY <1>1, <1>10, MidBlockIs, PrevBlock
  <2>2. bmap.bits[BlockOf(n) - 1] # Free
    <3>1. CASE IsFrag(s)
      BY <3>1, <1>5, <1>6, <1>10
    <3>2. CASE ~IsFrag(s)
      BY <3>2, <1>7, <1>10 DEF IterInv
    <3>3. QED
      BY <3>1, <3>2
  <2>3. QED
    BY <2>1, <2>2, <1>2 DEF Free, Full
<1>11. ASSUME 0 < n, n < SegSize, ~MidBlock(n)
       PROVE  bmap'.bits[BlockOf(n) - 1] = Full
  <2>1. CASE IsFrag(s)
    <3>1. BlockOf(n) = b + 1 /\ b \in Nat
      BY <2>1, <1>5, <1>6, <1>11
    <3>2. BlockOf(n) - 1 = b
      BY <3>1
    <3>3. QED
      BY <3>2, <2>1, <1>5
  <2>2. CASE ~IsFrag(s)
    <3>1. n = l /\ bmap.bits[BlockOf(l) - 1] = Full
      BY <2>2, <1>7, <1>11 DEF IterInv
    <3>2. BlockOf(l) - 1 \in Blocks
      BY <3>1, <1>8, <1>11, BlockBefore
    <3>3. QED
      BY <3>1, <3>2, <1>2
  <2>3. QED
    BY <2>1, <2>2
<1>12. \A y, z \in Referenced' : y = z \/ UnitsOf(y) \cap UnitsOf(z) = {}
  BY <1>3, <1>4 DEF IterInv
<1>13. ASSUME bulk'.st = "scanned"
       PROVE  ScanEdge'
  <2> DEFINE e == bulk.scan.linear
             c == BlockOf(e)
  <2>1. ScanEdge /\ e \in 0..SegSize /\ bulk.st = "scanned" /\ bulk' = bulk
    BY <1>3, <1>13, TypeFacts DEF IterInv, SpaceInv
  <2>2. ASSUME MidBlock(e)
        PROVE  /\ \A y \in Referenced' : c \in BlocksOf(y) => IsFrag(y.size)
               /\ MidBlock(n) /\ BlockOf(n) = c => n >= e
    <3>1. c \in Blocks /\ e > 0 /\ BlockOf(e - 1) = c
      BY <2>1, <2>2, MidBlockIs, Geometry
    <3>2. bmap.bits[c] # Free
      BY <2>1, <3>1 DEF ScanEdge, CoverInv
    <3>3. c \in BlocksOf(x) => IsFrag(x.size)
      BY <3>2, <1>1, <1>7
    <3>4. \A y \in Referenced : c \in BlocksOf(y) => IsFrag(y.size)
      BY <2>1, <2>2 DEF ScanEdge
    <3>5. ASSUME MidBlock(n), BlockOf(n) = c
          PROVE  n >= e
      <4>1. CASE IsFrag(s)
        <5>1. b = c
          BY <4>1, <3>5, <1>6
        <5>2. off = l /\ MidBlock(l) /\ BlockOf(l) = c /\ n = off + s
          BY <4>1, <5>1, <3>2, <1>5
        <5>3. l >= e
          BY <5>2, <2>1, <2>2 DEF ScanEdge
        <5>4. e \in Nat
          BY <2>1
        <5>5. QED
          BY <5>2, <5>3, <5>4, <1>8
      <4>2. CASE ~IsFrag(s)
        BY <4>2, <3>5, <1>7, <2>1, <2>2 DEF ScanEdge
      <4>3. QED
        BY <4>1, <4>2
    <3>6. QED
      BY <3>3, <3>4, <3>5, <1>3
  <2>3. QED
    BY <2>1, <2>2 DEF ScanEdge
<1>14. \A p \in Owners : dedupOff'[p] = Nowhere
  BY <1>3 DEF IterInv
<1>15. QED
  BY <1>9, <1>10, <1>11, <1>12, <1>13, <1>14 DEF IterInv

\* The iterator and the bits stay, and there are no more references.
LEMMA QuietIter ==
    ASSUME SpaceInv, CoverInv, IterInv, ~DedupEnable, ~enospc', ~enospc, Quiet
    PROVE  IterInv'
<1>1. bmap'.bits = bmap.bits /\ bmap'.linear = bmap.linear /\ Referenced' \subseteq Referenced
  BY QuietRefers DEF SpaceInv
<1>2. dedupOff' = dedupOff
  BY DEF Quiet, WriteFails, FlushOwnerFails, Record, Delete, FlushOwner, FlushBegin, FlushVolume,
         BulkSync, BulkScan, BulkAbort, vars, dedupVars
<1>3. IteratorSane'
  BY <1>1 DEF IterInv, IteratorSane
<1>4. ASSUME bulk'.st = "scanned"
      PROVE  ScanEdge'
  <2>1. CASE BulkScan
    <3> DEFINE l == bulk'.scan.linear
               c == BlockOf(l)
    <3>1. /\ \A b \in Blocks :
                bulk'.scan.bits[b] = Full <=> \E x \in Stored(volsync) : b \in BlocksOf(x)
          /\ l \in 0..SegSize
          /\ l > 0 => \E x \in Stored(volsync) : l = x.off + x.size
          /\ Stored(volsync) \subseteq Referenced
      BY <2>1, ScanIs
    <3>2. ASSUME l > 0
          PROVE  \E x \in Stored(volsync) :
                    /\ Placed(x) /\ x \in Referenced /\ l = x.off + x.size /\ l \in Nat
                    /\ l - 1 \in UnitsOf(x) /\ BlockOf(l - 1) \in BlocksOf(x)
                    /\ BlockOf(l - 1) \in Blocks
      <4>1. PICK x \in Stored(volsync) : l = x.off + x.size
        BY <3>1, <3>2
      <4>2. Placed(x) /\ x \in Referenced
        BY <3>1 DEF SpaceInv
      <4>3. x.off \in Nat /\ x.size \in Nat \ {0}
        BY <4>2, PlacedBlocks
      <4>4. l - 1 \in UnitsOf(x) /\ l \in Nat
        BY <4>1, <4>3 DEF UnitsOf
      <4>5. QED
        BY <4>1, <4>2, <4>4, PlacedBlocks
    <3>3. l > 0 => bulk'.scan.bits[BlockOf(l - 1)] = Full
      BY <3>1, <3>2
    <3>4. ASSUME MidBlock(l)
          PROVE  /\ \A y \in Referenced : c \in BlocksOf(y) => IsFrag(y.size)
                 /\ MidBlock(bmap.linear) /\ BlockOf(bmap.linear) = c => bmap.linear >= l
      <4>1. /\ c \in Nat /\ c * Units < l /\ l < c * Units + Units /\ BlockOf(l - 1) = c
            /\ l > 0
        BY <3>1, <3>4, MidBlockIs, Geometry
      <4>2. PICK x \in Stored(volsync) :
               /\ Placed(x) /\ x \in Referenced /\ l = x.off + x.size /\ l \in Nat
               /\ l - 1 \in UnitsOf(x) /\ c \in BlocksOf(x)
        BY <4>1, <3>2
      <4>3. IsFrag(x.size)
        BY <4>2, <3>4, PlacedRun
      <4>4. ASSUME NEW y \in Referenced, c \in BlocksOf(y), ~IsFrag(y.size)
            PROVE  FALSE
        <5>1. Placed(y)
          BY DEF SpaceInv
        <5>2. l - 1 \in Nat
          BY <4>1, <4>2
        <5>3. l - 1 \in UnitsOf(y)
          BY <5>1, <5>2, <4>1, <4>4, PlacedRun
        <5>4. x = y
          BY <4>2, <5>3 DEF IterInv
        <5>5. QED
          BY <5>4, <4>3, <4>4
      <4>5. ASSUME MidBlock(bmap.linear), BlockOf(bmap.linear) = c
            PROVE  bmap.linear >= l
        <5>1. l - 1 < bmap.linear
          BY <4>1, <4>2, <4>5 DEF IterInv, IteratorSane
        <5>2. bmap.linear \in Nat
          BY TypeFacts DEF SpaceInv
        <5>3. QED
          BY <5>1, <5>2, <4>2
      <4>6. QED
        BY <4>4, <4>5
    <3>5. QED
      BY <3>3, <3>4, <1>1 DEF ScanEdge
  <2>2. CASE ~BulkScan
    <3>1. bulk' = bulk
      <4>1. bulk' = bulk \/ bulk' \in {[st |-> "sync"], [st |-> "synced"], [st |-> "idle"]}
        BY <2>2 DEF Quiet, WriteFails, FlushOwnerFails, Record, Delete, FlushOwner, FlushBegin,
                    FlushVolume, BulkSync, BulkAbort, Idle, vars
      <4>2. QED
        BY <4>1, <1>4
    <3>2. ScanEdge
      BY <3>1, <1>4 DEF IterInv
    <3>3. QED
      BY <3>1, <3>2, <1>1 DEF ScanEdge
  <2>3. QED
    BY <2>1, <2>2
<1>5. QED
  BY <1>1, <1>2, <1>3, <1>4 DEF IterInv

\* h2_bulkfree_sync moves the iterator into a block only when that block's
\* fragments are all before it.
LEMMA MergeIter ==
    ASSUME SpaceInv, CoverInv, IterInv, ~DedupEnable, ~enospc, BulkMerge
    PROVE  IterInv'
<1> DEFINE l == bmap.linear
           e == bulk.scan.linear
           n == bmap'.linear
<1>1. /\ bulk'.st # "scanned" /\ bulk.st = "scanned" /\ dedupOff' = dedupOff
      /\ Referenced' = Referenced
  BY MergeSpace DEF BulkMerge, Idle
<1>2. /\ l \in 0..SegSize /\ e \in 0..SegSize /\ ScanEdge
      /\ bmap.bits \in [Blocks -> {Free, Staged, Full}]
  BY <1>1, TypeFacts DEF SpaceInv, IterInv
<1>3. CASE InSync(bmap, bulk.scan)
  <2>1. bmap' = bmap
    BY <1>3 DEF BulkMerge
  <2>2. IteratorSane'
    BY <2>1, <1>1 DEF IterInv, IteratorSane
  <2>3. QED
    BY <2>1, <2>2, <1>1 DEF IterInv
<1>4. CASE ~InSync(bmap, bulk.scan)
  <2>1. /\ \A b \in Blocks : bmap'.bits[b] = NextStage(bmap.bits[b], bulk.scan.bits[b])
        /\ n = MergedLinear(bmap, bulk.scan, bmap'.bits)
    BY <1>4, MergeIs
  <2>2. \A b \in Blocks : /\ bulk.scan.bits[b] = Full => bmap'.bits[b] = Full
                          /\ bmap.bits[b] = Full => bmap'.bits[b] # Free
    BY <2>1 DEF NextStage, Free, Staged, Full
  <2>3. CASE n = 0 \/ n = SegSize
    <3>1. ~MidBlock(n)
      BY <2>3, Geometry, ZeroMod DEF MidBlock
    <3>2. QED
      BY <2>3, <3>1, <1>1, Geometry DEF IterInv, IteratorSane
  <2>4. CASE n = RoundUp(e) /\ 0 < n /\ n < SegSize
    <3>1. ~MidBlock(n) /\ n \in Nat
      BY <2>4, <1>2, RoundedUp, Geometry
    <3>2. e > 0 /\ BlockOf(n) - 1 = BlockOf(e - 1) /\ BlockOf(n) - 1 \in Blocks
      <4>1. BlockOf(n) - 1 \in Blocks /\ BlockOf(n) - 1 = BlockOf(n - 1)
        BY <2>4, <3>1, BlockBefore
      <4>2. CASE MidBlock(e)
        <5>1. n = BlockOf(e) * Units + Units /\ BlockOf(e - 1) = BlockOf(e) /\ BlockOf(e) \in Nat
              /\ e > 0
          BY <1>2, <2>4, <4>2, RoundedUp, MidBlockIs, Geometry
        <5>2. BlockOf(e) * Units < n
          BY <5>1, Geometry
        <5>3. BlockOf(n - 1) = BlockOf(e)
          BY <5>1, <5>2, <3>1, InsideBlock
        <5>4. QED
          BY <5>1, <5>3, <4>1
      <4>3. CASE ~MidBlock(e)
        <5>1. n = e
          BY <1>2, <2>4, <4>3, RoundedUp
        <5>2. QED
          BY <5>1, <4>1, <2>4
      <4>4. QED
        BY <4>2, <4>3
    <3>3. bmap'.bits[BlockOf(n) - 1] = Full
      BY <3>2, <2>2, <1>2 DEF ScanEdge
    <3>4. QED
      BY <3>1, <3>3, <1>1 DEF IterInv, IteratorSane
  <2>5. CASE n = e /\ l < e /\ BlockOf(l) = BlockOf(e)
    <3> DEFINE c == BlockOf(e)
    <3>1. l \in Nat /\ e \in Nat /\ e > 0
      BY <1>2, <2>5
    <3>2. c \in Nat /\ c * Units <= l /\ c * Units <= e /\ e < c * Units + Units
      <4>1. c \in Nat
        BY <3>1, DivMod, Geometry DEF BlockOf
      <4>2. QED
        BY <4>1, <3>1, <2>5, UnitsOfBlock
    <3>3. MidBlock(e)
      <4> SUFFICES ASSUME ~MidBlock(e)
                   PROVE  FALSE
        OBVIOUS
      <4>1. e = Units * c + (e % Units) /\ e % Units = 0
        BY <3>1, DivMod, Geometry DEF BlockOf, MidBlock
      <4>2. c * Units \in Nat /\ Units * c = c * Units
        BY <3>2, Geometry
      <4>3. e = c * Units
        BY <4>1, <4>2, <3>1
      <4>4. QED
        BY <4>2, <4>3, <3>1, <3>2, <2>5
    <3>4. ~MidBlock(l) /\ l = c * Units
      <4>1. ~MidBlock(l)
        BY <3>1, <3>3, <2>5, <1>2 DEF ScanEdge
      <4>2. l = Units * c + (l % Units) /\ l % Units = 0
        BY <4>1, <3>1, <2>5, DivMod, Geometry DEF BlockOf, MidBlock
      <4>3. QED
        BY <4>1, <4>2, <3>2, Geometry
    <3>5. c \in Blocks /\ BlockOf(e - 1) = c
      BY <3>3, <1>2, MidBlockIs
    <3>6. bulk.scan.bits[c] = Full /\ bmap'.bits[c] = Full
      BY <3>1, <3>5, <1>2, <2>2 DEF ScanEdge
    <3>7. ASSUME NEW x \in Referenced, NEW u \in UnitsOf(x), BlockOf(u) = c
          PROVE  u < e
      <4>1. Placed(x) /\ c \in BlocksOf(x)
        BY <3>7, PlacedBlocks DEF SpaceInv
      <4>2. IsFrag(x.size)
        BY <4>1, <3>3, <1>2 DEF ScanEdge
      <4>3. BlockOf(x.off) = c
        BY <4>1, <4>2, PlacedFrag
      <4>4. ~Fresh(x)
        <5>1. l \in (c - 1) * Units + 1 .. c * Units
          <6>1. (c - 1) * Units = c * Units - Units /\ c * Units \in Nat
            BY <3>2, Geometry
          <6>2. QED
            BY <6>1, <3>4, <3>1, Geometry
        <5>2. QED
          BY <5>1, <4>3 DEF Fresh
      <4>5. x.off + x.size <= e
        BY <4>2, <4>4, <1>1 DEF CoverInv, Found
      <4>6. x.off \in Nat /\ x.size \in Nat
        BY <4>1, PlacedBlocks
      <4>7. QED
        BY <4>5, <4>6, <3>1 DEF UnitsOf
    <3>8. ASSUME c > 0
          PROVE  bmap'.bits[c - 1] # Free
      <4>1. c - 1 \in Blocks
        BY <3>5, <3>8, PrevBlock
      <4>2. l > 0 /\ l < SegSize
        BY <3>2, <3>4, <3>8, <2>5, <1>2, Geometry
      <4>3. bmap.bits[c - 1] = Full
        BY <4>2, <3>4, <2>5 DEF IterInv
      <4>4. QED
        BY <4>1, <4>3, <2>2
    <3>9. IteratorSane'
      BY <3>6, <3>7, <2>5, <1>1 DEF IteratorSane
    <3>10. QED
      BY <3>3, <3>8, <3>9, <2>5, <1>1 DEF IterInv
  <2>6. n \in 0..SegSize
    BY <2>1, <1>2, RoundedUp, Geometry DEF MergedLinear
  <2>7. \/ n = 0 \/ n = SegSize
        \/ n = e /\ l < e /\ BlockOf(l) = BlockOf(e)
        \/ n = RoundUp(e)
    BY <2>1 DEF MergedLinear
  <2>8. QED
    BY <2>3, <2>4, <2>5, <2>6, <2>7, Geometry
<1>5. QED
  BY <1>3, <1>4

\* No step disturbs IterInv.
LEMMA IterNext ==
    ASSUME SpaceInv, SpaceInv', CoverInv, IterInv, [Next]_vars
    PROVE  IterInv'
<1> SUFFICES ASSUME ~DedupEnable
             PROVE  IterInv'
  BY DEF IterInv
<1>1. \A o \in Owners : dedupOff'[o] = Nowhere
  <2>1. \A o \in Owners : dedupOff[o] = Nowhere
    BY DEF IterInv
  <2>2. dedupOff' = dedupOff
    BY <2>1 DEF Next, Flusher, Bulkfreer, Frontend, FlushBegin, FlushVolume, FlushOwner,
                FlushOwnerFails, BulkSync, BulkScan, BulkAbort, BulkMerge, Write, WriteFails,
                DedupLookup, Record, Delete, DedupAssign, vars, dedupVars
  <2>3. QED
    BY <2>1, <2>2
<1>2. CASE enospc'
  BY <1>1, <1>2 DEF IterInv
<1>3. CASE ~enospc'
  <2>1. ~enospc
    BY <1>3, EnospcStays
  <2>2. \A o \in Owners : \A x : ~DedupLookup(o, x) /\ ~DedupAssign(o)
    BY DEF DedupLookup, DedupAssign, IterInv
  <2>3. QED
    BY <2>1, <2>2, <1>3, Steps, QuietIter, WriteIter, MergeIter
<1>4. QED
  BY <1>2, <1>3

\* The iterator of an empty bitmap is inside no block.
LEMMA IterInit ==
    ASSUME Init
    PROVE  IterInv
<1>1. Referenced = {} /\ bulk.st = "idle" /\ bmap.linear = 0
  BY DEF Init, Referenced, Stored, Idle
<1>2. ~MidBlock(bmap.linear)
  BY <1>1, ZeroMod, Geometry DEF MidBlock
<1>3. \A o \in Owners : dedupOff[o] = Nowhere
  BY DEF Init
<1>4. QED
  BY <1>1, <1>2, <1>3 DEF IterInv, IteratorSane

-----------------------------------------------------------------------------
(* The theorems.                                                             *)

Inv == SpaceInv /\ CoverInv /\ IterInv

\* The three invariants hold together, whatever the frontend, the flusher and
\* the bulkfree ioctl do in between one another.
THEOREM Invariance == Spec => []Inv
<1>1. Init => Inv
  BY SpaceInit, CoverInit, IterInit DEF Inv
<1>2. Inv /\ [Next]_vars => Inv'
  BY SpaceNext, CoverNext, IterNext DEF Inv
<1>3. QED
  BY <1>1, <1>2, PTL DEF Spec

\* No block that a chain in memory, a block table, the volume header or a
\* pending deduplication refers to becomes free, until a flush runs out of space:
\* "races are handled using a double-transition" (h2_bulkfree_sync).
THEOREM NothingReferencedIsFree == Spec => []ReferencedNotFree
<1>1. Inv => ReferencedNotFree
  BY DEF Inv, CoverInv, ReferencedNotFree
<1>2. QED
  BY <1>1, Invariance, PTL

\* Nothing that is in use, and nothing live deduplication offers, is staged or
\* freed behind its back (hammer2_dedup_lookup, h2_bulkfree_sync).
THEOREM DeduplicationIsSafe == Spec => []DedupSafe
<1>1. Inv => DedupSafe
  BY DEF Inv, SpaceInv, CoverInv, ReferencedNotFree, DedupSafe
<1>2. QED
  BY <1>1, Invariance, PTL

\* No flush fails when none may.
LEMMA NoEnospc ==
    ASSUME ~FlushMayFail
    PROVE  Spec => []~enospc
<1>1. Init => ~enospc
  BY DEF Init
<1>2. ~enospc /\ [Next]_vars => ~enospc'
  BY EnospcSet
<1>3. QED
  BY <1>1, <1>2, PTL DEF Spec

\* Without live deduplication and failed flushes, the iterator is inside a
\* block only when that block is allocated and its rest unused: an allocation at
\* the iterator, which tests no bit, is safe (hammer2_freemap_try_alloc).  A
\* deduplication that assigns a freed fragment again breaks it.
THEOREM IteratorIsSane ==
    ASSUME ~DedupEnable, ~FlushMayFail
    PROVE  Spec => []IteratorSane
<1>1. Inv /\ ~enospc => IteratorSane
  BY DEF Inv, IterInv
<1>2. QED
  BY <1>1, Invariance, NoEnospc, PTL

\* hammer2_freemap_alloc never returns units that a chain in memory, a block
\* table or the volume header still refers to: with fragments while
\* deduplication is off, with whole blocks always.
THEOREM NothingIsOverwritten ==
    ASSUME ~DedupEnable \/ \A s \in Sizes : ~IsFrag(s)
    PROVE  Spec => NeverOverwrites
<1> DEFINE Apart == ~enospc => \A o \in Owners :
              dataOff'[o] \notin {dataOff[o], dedupOff[o], Nowhere} =>
                 \A x \in Referenced : UnitsOf(x) \cap UnitsOf(dataOff'[o]) = {}
<1>1. ASSUME Inv, Next PROVE Apart
  <2> SUFFICES ASSUME ~enospc, NEW o \in Owners,
                      dataOff'[o] \notin {dataOff[o], dedupOff[o], Nowhere},
                      NEW x \in Referenced
               PROVE  UnitsOf(x) \cap UnitsOf(dataOff'[o]) = {}
    OBVIOUS
  <2>1. SpaceInv /\ CoverInv /\ IterInv /\ dataOff \in Topologies
    BY <1>1 DEF Inv, SpaceInv, TypeOK
  <2>2. dataOff \in [Owners -> Storage]
    BY <2>1 DEF Topologies
  <2>3. dataOff' # dataOff
    OBVIOUS
  <2>4. ~(\E p \in Owners : Delete(p) \/ DedupAssign(p))
    BY <2>2 DEF Delete, DedupAssign
  <2>5. PICK p \in Owners, s \in Sizes :
           \E off \in Offers(bmap, s, p \in DataOwners) : Write(p, Extent(off, s))
    BY <1>1, <2>3, <2>4
    DEF Next, Flusher, Bulkfreer, Frontend, FlushBegin, FlushVolume, FlushOwner,
        FlushOwnerFails, BulkSync, BulkScan, BulkAbort, BulkMerge, WriteFails,
        DedupLookup, Record, dedupVars, Extent
  <2>6. PICK off \in Offers(bmap, s, p \in DataOwners) : Write(p, Extent(off, s))
    BY <2>5
  <2>7. dataOff' = [dataOff EXCEPT ![p] = Extent(off, s)]
    BY <2>6 DEF Write
  <2>8. dataOff'[o] = Extent(off, s)
    BY <2>2, <2>7
  <2>9. QED
    BY <2>1, <2>6, <2>8, WriteApart
<1>2. Inv /\ [Next]_vars => [Apart]_vars
  BY <1>1
<1>3. QED
  BY <1>2, Invariance, PTL DEF Spec, NeverOverwrites
=============================================================================
