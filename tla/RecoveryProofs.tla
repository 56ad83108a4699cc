---------------------------- MODULE RecoveryProofs ----------------------------
(***************************************************************************)
(* Theorems about Recovery, for every geometry of the bitmap and every set *)
(* of owners: what a mount finds after a crash at any point.  Three        *)
(* invariants, each resting on the one before:                             *)
(*                                                                         *)
(*   TidInv     which transaction ids the three copies of the volume data  *)
(*              have, and by how much the memory is ahead of the media;    *)
(*   SpaceInv   every bitmap, in memory or in a header, is typed, counted  *)
(*              and described by its bigmask;                              *)
(*   CoverInv   what a volume refers to is allocated in its own freemap or *)
(*              newer than that, and what bulkfree may free is not needed. *)
(***************************************************************************)
EXTENDS Recovery, FreemapProofs

-----------------------------------------------------------------------------
(* hammer2_recovery as a fold over what is newer than the freemap.           *)

LaterStored(h) == {h.top[o].at : o \in Later(h)} \ {Nowhere}

\* The bitmap m after hammer2_freemap_adjust of each extent of s.
Adjusting(g, m, s) ==
    IF s = {} THEN m
    ELSE LET x == CHOOSE x \in s : TRUE IN Adjusted(g[s \ {x}], x)

RecoverySteps(m, S) == CHOOSE g : g = [s \in SUBSET S |-> Adjusting(g, m, s)]

\* Recovered is the last step of the fold.
LEMMA RecoveredIs ==
    ASSUME NEW h
    PROVE  Recovered(h) = RecoverySteps(h.leaf, LaterStored(h))[LaterStored(h)]
  BY DEF Recovered, RecoverySteps, Adjusting, LaterStored, FoldSet, MapThenFoldSet

\* The recursion over the extents found (hammer2_recovery_scan) has a solution.
LEMMA RecoveryStepsExist ==
    ASSUME NEW S, IsFiniteSet(S), NEW m
    PROVE  RecoverySteps(m, S) =
              [s \in SUBSET S |-> Adjusting(RecoverySteps(m, S), m, s)]
<1> DEFINE Small(n) == {s \in SUBSET S : Cardinality(s) <= n}
           F(g, n) == [s \in Small(n) |-> Adjusting(g, m, s)]
           T == {n \in Nat : ~\E g : g = F(g, n)}
<1>1. ASSUME NEW s \in SUBSET S
      PROVE  /\ IsFiniteSet(s) /\ Cardinality(s) \in Nat
             /\ Cardinality(s) <= Cardinality(S)
             /\ Cardinality(s) = 0 <=> s = {}
  BY FS_Subset, FS_CardinalityType, FS_EmptySet
<1>2. ASSUME NEW s \in SUBSET S, NEW x \in s
      PROVE  s \ {x} \in SUBSET S /\ Cardinality(s \ {x}) = Cardinality(s) - 1
  BY <1>1, FS_RemoveElement
<1>3. T = {}
  <2> SUFFICES ASSUME T # {}
               PROVE  FALSE
    OBVIOUS
  <2>0. T \in SUBSET Nat
    OBVIOUS
  <2>1. PICK n \in T : n \in Nat /\ \A k \in T : n <= k
    BY <2>0, LeastNat
  <2>2. CASE n = 0
    <3> DEFINE g == [s \in Small(0) |-> m]
    <3>1. \A s \in Small(0) : s = {}
      BY <1>1
    <3>2. \A s \in Small(0) : Adjusting(g, m, s) = m
      BY <3>1 DEF Adjusting
    <3>3. g = F(g, 0)
      BY <3>2
    <3>4. QED
      BY <3>3, <2>1, <2>2
  <2>3. CASE n > 0
    <3> HIDE DEF T, F
    <3>1. n - 1 \in Nat /\ n - 1 \notin T
      BY <2>0, <2>1, <2>3
    <3>2. PICK h : h = F(h, n - 1)
      BY <3>1 DEF T
    <3> USE DEF F
    <3> DEFINE g == [s \in Small(n) |-> Adjusting(h, m, s)]
    <3>3. ASSUME NEW s \in Small(n), s # {}
          PROVE  LET x == CHOOSE x \in s : TRUE
                 IN  s \ {x} \in Small(n - 1) /\ s \ {x} \in Small(n)
      <4> DEFINE x == CHOOSE x \in s : TRUE
      <4>1. x \in s
        BY <3>3
      <4> HIDE DEF x
      <4>2. Cardinality(s \ {x}) = Cardinality(s) - 1 /\ s \ {x} \in SUBSET S
        BY <4>1, <1>2
      <4>3. Cardinality(s) \in Nat /\ Cardinality(s) <= n
        BY <1>1
      <4>4. QED
        BY <4>2, <4>3, <2>1 DEF x
    <3>4. ASSUME NEW s \in Small(n - 1)
          PROVE  s \in Small(n) /\ h[s] = g[s]
      <4>1. s \in Small(n)
        BY <1>1, <2>1
      <4>2. h[s] = Adjusting(h, m, s)
        BY <3>2
      <4>3. QED
        BY <4>1, <4>2
    <3>5. ASSUME NEW s \in Small(n)
          PROVE  g[s] = Adjusting(g, m, s)
      <4>1. CASE s = {}
        BY <4>1 DEF Adjusting
      <4>2. CASE s # {}
        <5> DEFINE x == CHOOSE x \in s : TRUE
        <5>1. h[s \ {x}] = g[s \ {x}]
          BY <4>2, <3>3, <3>4
        <5> HIDE DEF g
        <5>2. Adjusting(h, m, s) = Adjusting(g, m, s)
          BY <4>2, <5>1 DEF Adjusting
        <5>3. g[s] = Adjusting(h, m, s)
          BY DEF g
        <5>4. QED
          BY <5>2, <5>3
      <4>3. QED
        BY <4>1, <4>2
    <3>6. g = F(g, n)
      BY <3>5
    <3>7. QED
      BY <3>6, <2>1 DEF T
  <2>4. QED
    BY <2>1, <2>2, <2>3
<1>4. PICK g : g = F(g, Cardinality(S))
  BY <1>3, FS_CardinalityType
<1>5. Small(Cardinality(S)) = SUBSET S
  BY <1>1
<1>6. g = [s \in SUBSET S |-> Adjusting(g, m, s)]
  BY <1>4, <1>5
<1>7. QED
  BY <1>6 DEF RecoverySteps

\* One extent that recovery marks.
LEMMA AdjustedMarks ==
    ASSUME NEW m \in Bmaps, NEW x
    PROVE  /\ \A b \in AdjustTargets(x) \cap Blocks : Adjusted(m, x).bits[b] = Full
           /\ Adjusted(m, x).linear \in {0, m.linear}
<1>1. m.bits \in [Blocks -> {Free, Staged, Full}]
  BY DEF Bmaps
<1>2. CASE \A b \in AdjustTargets(x) : m.bits[b] = Full
  BY <1>2 DEF Adjusted
<1>3. CASE ~\A b \in AdjustTargets(x) : m.bits[b] = Full
  <2>1. /\ Adjusted(m, x).bits = Fill(m.bits, AdjustTargets(x))
        /\ Adjusted(m, x).linear = 0
    BY <1>3 DEF Adjusted
  <2>2. QED
    BY <1>1, <2>1, FillTakes
<1>4. QED
  BY <1>2, <1>3

\* What recovery makes of a bitmap: it stays typed and exact, bits are only set,
\* and what it was told of is allocated.
LEMMA RecoveryMarks ==
    ASSUME NEW S, IsFiniteSet(S), NEW m \in Bmaps, Exact(m), Permissive(m)
    PROVE  LET r == RecoverySteps(m, S)[S]
           IN  /\ r \in Bmaps /\ Exact(r) /\ Permissive(r)
               /\ r.linear \in {0, m.linear}
               /\ \A b \in Blocks : r.bits[b] \in {Full, m.bits[b]}
               /\ \A x \in S : \A b \in AdjustTargets(x) \cap Blocks : r.bits[b] = Full
<1> DEFINE f == RecoverySteps(m, S)
           P(s) == /\ f[s] \in Bmaps /\ Exact(f[s]) /\ Permissive(f[s])
                   /\ f[s].linear \in {0, m.linear}
                   /\ \A b \in Blocks : f[s].bits[b] \in {Full, m.bits[b]}
                   /\ \A x \in s : \A b \in AdjustTargets(x) \cap Blocks : f[s].bits[b] = Full
           T == {n \in Nat : \E s \in SUBSET S : Cardinality(s) = n /\ ~P(s)}
<1>0. f = [s \in SUBSET S |-> Adjusting(f, m, s)]
  BY RecoveryStepsExist
<1> HIDE DEF f
<1>1. \A s \in SUBSET S : f[s] = Adjusting(f, m, s)
  BY <1>0
<1>2. T = {}
  <2> SUFFICES ASSUME T # {}
               PROVE  FALSE
    OBVIOUS
  <2>0. T \in SUBSET Nat
    OBVIOUS
  <2>1. PICK n \in T : n \in Nat /\ \A k \in T : n <= k
    BY <2>0, LeastNat
  <2>2. PICK s \in SUBSET S : Cardinality(s) = n /\ ~P(s)
    BY <2>1
  <2>3. s # {}
    <3>1. ASSUME s = {}
          PROVE  FALSE
      <4>1. f[s] = m
        BY <1>1, <3>1 DEF Adjusting
      <4>2. QED
        BY <4>1, <3>1, <2>2
    <3>2. QED
      BY <3>1
  <2> DEFINE x == CHOOSE x \in s : TRUE
             r == s \ {x}
  <2>4. x \in s
    BY <2>3
  <2>5. f[s] = Adjusted(f[r], x)
    BY <1>1, <2>3 DEF Adjusting
  <2> HIDE DEF x, T
  <2>6. r \in SUBSET S /\ Cardinality(r) = n - 1 /\ n - 1 \in Nat
    <3>1. IsFiniteSet(s) /\ IsFiniteSet(r) /\ Cardinality(r) = Cardinality(s) - 1
      BY <2>4, FS_Subset, FS_RemoveElement
    <3>2. Cardinality(r) \in Nat
      BY <3>1, FS_CardinalityType
    <3>3. QED
      BY <2>2, <3>1, <3>2
  <2>7. P(r)
    <3>1. n - 1 \notin T
      BY <2>1, <2>6
    <3>2. QED
      BY <3>1, <2>6 DEF T
  <2>8. /\ f[s] \in Bmaps /\ Exact(f[s]) /\ Permissive(f[s])
        /\ \A b \in Blocks : f[s].bits[b] \in {Full, f[r].bits[b]}
    <3>1. f[r] \in Bmaps /\ Exact(f[r]) /\ Permissive(f[r])
      BY <2>7
    <3> HIDE DEF r
    <3>2. QED
      BY <2>5, <3>1, AdjustedKeeps
  <2>9. /\ \A b \in AdjustTargets(x) \cap Blocks : f[s].bits[b] = Full
        /\ f[s].linear \in {0, f[r].linear}
    BY <2>5, <2>7, AdjustedMarks
  <2>10. ASSUME NEW y \in s, NEW b \in AdjustTargets(y) \cap Blocks
         PROVE  f[s].bits[b] = Full
    <3>1. CASE y = x
      BY <3>1, <2>9
    <3>2. CASE y # x
      <4>1. f[r].bits[b] = Full
        BY <3>2, <2>7
      <4>2. QED
        BY <4>1, <2>8
    <3>3. QED
      BY <3>1, <3>2
  <2>11. P(s)
    BY <2>7, <2>8, <2>9, <2>10
  <2>12. QED
    BY <2>2, <2>11
<1>3. P(S)
  <2>1. Cardinality(S) \in Nat /\ Cardinality(S) \notin T
    BY <1>2, FS_CardinalityType
  <2>2. QED
    BY <2>1
<1>4. QED
  BY <1>3 DEF f

-----------------------------------------------------------------------------
(* The invariants.                                                           *)

\* Recovery finds the bits of x: its block number survives being cut.
Finds(x) == AdjustTargets(x) = BlocksOf(x)

\* The iterator is in no block of InUse, and what is stored is in none.
Away(l) == MidBlock(l) => BlockOf(l) \notin InUse
Apart(x) == Placed(x) /\ BlocksOf(x) \cap InUse = {}

NotFree(m, x) == \A b \in BlocksOf(x) : m.bits[b] # Free
Taken(m, x) == \A b \in BlocksOf(x) : m.bits[b] = Full

\* A bitmap that allocation and recovery can start from.
GoodLeaf(m) ==
    /\ m \in Bmaps /\ Exact(m) /\ Permissive(m) /\ Away(m.linear)
    /\ \A b \in InUse : m.bits[b] # Free

\* How far memory is ahead of the media.
TidInv ==
    /\ voldata.mirror_tid <= MaxTid
    /\ flush.st = "inodes" => voldata.mirror_tid + 2 <= MaxTid
    /\ flush.st = "volume" => voldata.mirror_tid + 1 <= MaxTid
    /\ vchain.mirror_tid <= voldata.mirror_tid + 1
    /\ vchain.modified => vchain.mirror_tid > volsync.mirror_tid
    /\ header.mirror_tid <= volsync.mirror_tid
    /\ volsync.mirror_tid <= voldata.mirror_tid
    /\ pending => volsync.mirror_tid > header.mirror_tid
    /\ voldata.freemap_tid <= voldata.mirror_tid
    /\ volsync.freemap_tid <= volsync.mirror_tid
    /\ header.freemap_tid <= header.mirror_tid

GoodTop(top) == \A o \in Owners : top[o].at # Nowhere => Apart(top[o].at)
GoodVolume(v) == v \in Volumes /\ GoodTop(v.top) /\ GoodLeaf(v.leaf)

SpaceInv ==
    /\ TypeOK
    /\ GoodTop(chain) /\ GoodLeaf(bmap)
    /\ GoodVolume(voldata) /\ GoodVolume(volsync) /\ GoodVolume(header)
    /\ bulk.st = "scanned" =>
          Away(bulk.linear) /\ \A b \in InUse : bulk.bits[b] = Full

\* What recovery can find of a block table is allocated in bitmap m, or what a
\* scan will have missed of it is fully so.
Kept(m, top) ==
    \A o \in Owners :
        top[o].at # Nowhere /\ Finds(top[o].at) => NotFree(m, top[o].at)
Spared(scan, m, top) ==
    \A o \in Owners :
        top[o].at # Nowhere /\ Finds(top[o].at) =>
            \A b \in BlocksOf(top[o].at) : scan.bits[b] = Full \/ m.bits[b] = Full

\* An entry no newer than the freemap of volume v is allocated in it.
Covers(v, bref) ==
    bref.at # Nowhere /\ bref.tid <= v.freemap_tid /\ Finds(bref.at) =>
        NotFree(v.leaf, bref.at)

\* Where the storage of owner o has got to: the block set, and the snapshot
\* bulkfree scans, or it is so new that one pass cannot free it.
Flushed(o) ==
    chain[o].at \in {Nowhere, voldata.top[o].at} \/ Taken(bmap, chain[o].at)
Snapped(o) ==
    \/ voldata.top[o].at \in {Nowhere, volsync.top[o].at}
    \/ Taken(bmap, voldata.top[o].at)

\* A pass of bulkfree: what its scan will have missed is fully allocated.
PassInv ==
    /\ bulk.st = "sync" => flush.st # "idle"
    /\ flush.st # "inodes" => flush.todo = {}
    /\ bulk.st = "sync" /\ flush.st = "inodes" =>
          \A o \in Owners : o \in flush.todo \/ Flushed(o)
    /\ bulk.st = "sync" /\ flush.st = "volume" => \A o \in Owners : Flushed(o)
    /\ bulk.st = "synced" \/ (bulk.st = "sync" /\ flush.st = "header") =>
          \A o \in Owners : Flushed(o) /\ Snapped(o)
    /\ bulk.st = "scanned" =>
          /\ Spared(bulk, bmap, chain) /\ Spared(bulk, bmap, voldata.top)
          /\ Spared(bulk, bmap, volsync.top)
          /\ early \/ Spared(bulk, bmap, header.top)

CoverInv ==
    /\ \A o \in Owners :
          /\ Covers(voldata, voldata.top[o]) /\ Covers(voldata, chain[o])
          /\ Covers(volsync, volsync.top[o]) /\ Covers(header, header.top[o])
    /\ Kept(bmap, chain) /\ Kept(bmap, voldata.top) /\ Kept(bmap, volsync.top)
    /\ early \/ Kept(bmap, header.top)
    /\ ~vchain.modified => volsync = voldata
    /\ \A o \in Owners : o \notin update => chain[o].at = voldata.top[o].at
    /\ PassInv

Inv == TidInv /\ SpaceInv /\ CoverInv

-----------------------------------------------------------------------------
(* What the steps do to the records.                                         *)

\* The type invariant, part by part.
LEMMA TypeFacts ==
    ASSUME TypeOK
    PROVE  /\ bmap \in Bmaps /\ chain \in [Owners -> Brefs]
           /\ modified \subseteq Owners /\ update \subseteq Owners
           /\ voldata \in Volumes /\ volsync \in Volumes /\ header \in Volumes
           /\ vchain \in [modified : BOOLEAN, mirror_tid : Tids]
           /\ leafDirty \in BOOLEAN /\ pending \in BOOLEAN /\ early \in BOOLEAN
           /\ flush \in [st : FlushStates, todo : SUBSET Owners]
  BY DEF TypeOK

\* The fields of a volume header.
LEMMA VolumeFacts ==
    ASSUME NEW v \in Volumes
    PROVE  /\ v.top \in [Owners -> Brefs] /\ v.leaf \in Bmaps
           /\ v.freemap_tid \in Tids /\ v.mirror_tid \in Tids
           /\ v.freemap_tid \in Nat /\ v.mirror_tid \in Nat
  BY RecoveryAssumption DEF Volumes, Tids

\* The flush of one inode changes one entry of the block set.
LEMMA VolTop ==
    ASSUME NEW v \in Volumes, NEW o \in Owners, NEW c \in Brefs
    PROVE  LET w == [v EXCEPT !.top[o] = c]
           IN  /\ w \in Volumes /\ w.top = [v.top EXCEPT ![o] = c]
               /\ w.leaf = v.leaf /\ w.freemap_tid = v.freemap_tid
               /\ w.mirror_tid = v.mirror_tid
<1>1. [v.top EXCEPT ![o] = c] \in [Owners -> Brefs]
  BY DEF Volumes
<1>2. QED
  BY <1>1 DEF Volumes

\* The flush of the volume chain changes its transaction id.
LEMMA VolSynced ==
    ASSUME TypeOK
    PROVE  /\ Synced \in Volumes /\ Synced.top = voldata.top
           /\ Synced.leaf = voldata.leaf
           /\ Synced.freemap_tid = voldata.freemap_tid
           /\ Synced.mirror_tid \in {voldata.mirror_tid, vchain.mirror_tid}
           /\ Synced.mirror_tid >= voldata.mirror_tid
           /\ Synced.mirror_tid >= vchain.mirror_tid
<1> DEFINE t == IF voldata.mirror_tid < vchain.mirror_tid THEN vchain.mirror_tid
                ELSE voldata.mirror_tid
<1>1. voldata \in Volumes /\ voldata.mirror_tid \in Tids /\ vchain.mirror_tid \in Tids
  BY TypeFacts, VolumeFacts
<1>2. /\ t \in Tids /\ t >= voldata.mirror_tid /\ t >= vchain.mirror_tid
      /\ t \in {voldata.mirror_tid, vchain.mirror_tid}
  BY <1>1, RecoveryAssumption DEF Tids
<1>3. Synced = [voldata EXCEPT !.mirror_tid = t]
  BY DEF Synced
<1> HIDE DEF t
<1>4. QED
  BY <1>1, <1>2, <1>3 DEF Volumes

\* hammer2_voldata_modify.
LEMMA ModifiedIs ==
    ASSUME TypeOK, TidInv
    PROVE  /\ NextTid \in Tids /\ NextTid = voldata.mirror_tid + 1
           /\ VoldataModified \in [modified : BOOLEAN, mirror_tid : Tids]
           /\ VoldataModified.modified = TRUE
           /\ VoldataModified.mirror_tid <= voldata.mirror_tid + 1
           /\ VoldataModified.mirror_tid > volsync.mirror_tid
<1>1. /\ voldata.mirror_tid \in Nat /\ vchain.mirror_tid \in Nat
      /\ volsync.mirror_tid \in Nat
      /\ vchain \in [modified : BOOLEAN, mirror_tid : Tids]
  BY TypeFacts, VolumeFacts, RecoveryAssumption DEF Tids
<1>2. NextTid \in Tids /\ NextTid = voldata.mirror_tid + 1
  BY <1>1, RecoveryAssumption DEF NextTid, Tids, TidInv
<1>3. CASE vchain.modified
  BY <1>1, <1>2, <1>3 DEF VoldataModified, TidInv
<1>4. CASE ~vchain.modified
  <2>1. VoldataModified = [modified |-> TRUE, mirror_tid |-> NextTid]
    BY <1>4 DEF VoldataModified
  <2>2. QED
    BY <1>1, <1>2, <2>1 DEF TidInv
<1>5. QED
  BY <1>3, <1>4

\* The flush of an inode changes one entry of the block set.
LEMMA OwnerFlushed ==
    ASSUME TypeOK, TidInv, NEW o \in Owners, FlushOwner(o)
    PROVE  /\ voldata' \in Volumes
           /\ voldata'.top = [voldata.top EXCEPT ![o] = chain[o]]
           /\ voldata'.leaf = voldata.leaf
           /\ voldata'.freemap_tid = voldata.freemap_tid
           /\ voldata'.mirror_tid = voldata.mirror_tid
           /\ vchain' \in [modified : BOOLEAN, mirror_tid : Tids]
           /\ vchain'.modified = TRUE /\ vchain'.mirror_tid = NextTid
           /\ flush' \in [st : FlushStates, todo : SUBSET Owners]
           /\ flush'.st = flush.st /\ flush'.todo = flush.todo \ {o}
<1>1. /\ voldata' = [voldata EXCEPT !.top[o] = chain[o]]
      /\ vchain' = [modified |-> TRUE, mirror_tid |-> NextTid]
      /\ flush' = [flush EXCEPT !.todo = flush.todo \ {o}]
  BY DEF FlushOwner
<1>2. /\ voldata \in Volumes /\ chain[o] \in Brefs /\ NextTid \in Tids
      /\ flush \in [st : FlushStates, todo : SUBSET Owners]
  BY TypeFacts, ModifiedIs
<1>3. /\ voldata' \in Volumes
      /\ voldata'.top = [voldata.top EXCEPT ![o] = chain[o]]
      /\ voldata'.leaf = voldata.leaf
      /\ voldata'.freemap_tid = voldata.freemap_tid
      /\ voldata'.mirror_tid = voldata.mirror_tid
  BY <1>1, <1>2, VolTop
<1>4. QED
  BY <1>1, <1>2, <1>3

\* The flush of fchain copies the leaf and starts the next transaction.
LEMMA FreemapFlushed ==
    ASSUME TypeOK, TidInv, FlushFreemap, leafDirty
    PROVE  /\ voldata' \in Volumes /\ voldata'.top = voldata.top
           /\ voldata'.leaf = bmap /\ voldata'.freemap_tid = NextTid
           /\ voldata'.mirror_tid = NextTid /\ vchain' = VoldataModified
<1>1. /\ voldata' = [voldata EXCEPT !.leaf = bmap, !.freemap_tid = NextTid,
                                    !.mirror_tid = NextTid]
      /\ vchain' = VoldataModified
  BY DEF FlushFreemap
<1>2. /\ bmap \in Bmaps /\ voldata \in Volumes /\ NextTid \in Tids
  BY TypeFacts, ModifiedIs
<1> HIDE DEF NextTid
<1>3. QED
  BY <1>1, <1>2 DEF Volumes

\* A step is one of the actions.
LEMMA StepIs ==
    ASSUME [Next]_vars
    PROVE  \/ \E o \in Owners, s \in Sizes : \E off \in Offers(bmap, s, FALSE) :
                 Write(o, Extent(off, s))
           \/ \E o \in Owners, s \in Sizes : WriteFails(o, s)
           \/ \E o \in Owners : Rewrite(o) \/ Delete(o) \/ FlushOwner(o)
           \/ FlushBegin \/ FlushFreemap \/ FlushVolume \/ WriteHeader \/ HeaderFails
           \/ BulkSync \/ BulkScan \/ BulkMerge \/ Crash
           \/ UNCHANGED vars
  BY DEF Next, Frontend, Extent

-----------------------------------------------------------------------------
(* The transaction ids.                                                      *)

\* The memory is at most one transaction ahead of what it began to flush, and
\* the media behind the snapshot behind the memory.
LEMMA TidStep ==
    ASSUME TypeOK, TidInv, [Next]_vars
    PROVE  TidInv'
<1>1. /\ voldata.mirror_tid \in Nat /\ vchain.mirror_tid \in Nat
      /\ volsync.mirror_tid \in Nat /\ header.mirror_tid \in Nat
      /\ voldata.freemap_tid \in Nat /\ volsync.freemap_tid \in Nat
      /\ header.freemap_tid \in Nat /\ MaxTid \in Nat
      /\ voldata \in Volumes /\ header \in Volumes
      /\ vchain \in [modified : BOOLEAN, mirror_tid : Tids]
      /\ pending \in BOOLEAN /\ bmap \in Bmaps
      /\ chain \in [Owners -> Brefs]
  BY TypeFacts, VolumeFacts, RecoveryAssumption DEF Tids
<1>2. /\ NextTid \in Tids /\ NextTid = voldata.mirror_tid + 1
      /\ VoldataModified \in [modified : BOOLEAN, mirror_tid : Tids]
      /\ VoldataModified.modified = TRUE
      /\ VoldataModified.mirror_tid <= voldata.mirror_tid + 1
      /\ VoldataModified.mirror_tid > volsync.mirror_tid
  BY ModifiedIs
<1>3. VoldataModified.mirror_tid \in Nat
  BY <1>2, RecoveryAssumption DEF Tids
<1> HIDE DEF VoldataModified, NextTid
<1>4. ASSUME UNCHANGED <<voldata, volsync, header, pending>>,
             flush' = flush, vchain' \in {vchain, VoldataModified}
      PROVE  TidInv'
  <2>1. CASE vchain' = vchain
    BY <1>4, <2>1 DEF TidInv
  <2>2. CASE vchain' = VoldataModified
    BY <1>1, <1>2, <1>3, <1>4, <2>2 DEF TidInv
  <2>3. QED
    BY <1>4, <2>1, <2>2
<1>5. ASSUME NEW o \in Owners, NEW x, Write(o, x)
      PROVE  TidInv'
  BY <1>5, <1>4 DEF Write
<1>6. ASSUME NEW o \in Owners, NEW s \in Sizes, WriteFails(o, s)
      PROVE  TidInv'
  BY <1>6, <1>4 DEF WriteFails
<1>7. ASSUME NEW o \in Owners, Rewrite(o) \/ Delete(o)
      PROVE  TidInv'
  BY <1>7, <1>4 DEF Rewrite, Delete
<1>8. ASSUME NEW o \in Owners, FlushOwner(o)
      PROVE  TidInv'
  <2>1. /\ voldata'.freemap_tid = voldata.freemap_tid
        /\ voldata'.mirror_tid = voldata.mirror_tid
    BY <1>8, OwnerFlushed
  <2>2. /\ vchain'.mirror_tid = voldata.mirror_tid + 1
        /\ flush'.st = flush.st
        /\ UNCHANGED <<volsync, header, pending>>
    <3>1. flush \in [st : FlushStates, todo : SUBSET Owners]
      BY TypeFacts
    <3>2. QED
      BY <1>8, <1>2, <3>1 DEF FlushOwner
  <2>3. QED
    BY <2>1, <2>2, <1>1 DEF TidInv
<1>9. CASE FlushBegin \/ BulkSync
  <2>1. /\ UNCHANGED <<voldata, vchain, volsync, header, pending>>
        /\ flush'.st = "inodes" /\ voldata.mirror_tid + 2 <= MaxTid
    BY <1>9 DEF FlushBegin, BulkSync, StartFlush
  <2>2. QED
    BY <2>1, <1>1 DEF TidInv
<1>10. CASE FlushFreemap
  <2>1. /\ UNCHANGED <<volsync, header, pending>>
        /\ flush.st = "inodes" /\ flush'.st = "volume"
    BY <1>10 DEF FlushFreemap, Now
  <2>2. CASE leafDirty
    <3>1. /\ vchain' = VoldataModified
          /\ voldata' = [voldata EXCEPT !.leaf = bmap, !.freemap_tid = NextTid,
                                        !.mirror_tid = NextTid]
      BY <1>10, <2>2 DEF FlushFreemap
    <3>2. voldata'.freemap_tid = NextTid /\ voldata'.mirror_tid = NextTid
      BY <1>10, <2>2, FreemapFlushed
    <3>3. QED
      BY <2>1, <3>1, <3>2, <1>1, <1>2, <1>3 DEF TidInv
  <2>3. CASE ~leafDirty
    <3>1. UNCHANGED <<voldata, vchain>>
      BY <1>10, <2>3 DEF FlushFreemap
    <3>2. QED
      BY <2>1, <3>1, <1>1 DEF TidInv
  <2>4. QED
    BY <2>2, <2>3
<1>11. CASE FlushVolume
  <2>1. header' = header /\ flush.st = "volume" /\ flush'.st = "header"
    BY <1>11 DEF FlushVolume, Now
  <2>2. CASE vchain.modified
    <3>1. /\ voldata' = Synced /\ volsync' = Synced /\ pending' = TRUE
          /\ vchain'.modified = FALSE /\ vchain'.mirror_tid = vchain.mirror_tid
      BY <1>11, <2>2, <1>1 DEF FlushVolume
    <3>2. /\ Synced.freemap_tid = voldata.freemap_tid
          /\ Synced.mirror_tid \in {voldata.mirror_tid, vchain.mirror_tid}
          /\ Synced.mirror_tid >= voldata.mirror_tid
          /\ Synced.mirror_tid >= vchain.mirror_tid
      BY VolSynced
    <3> HIDE DEF Synced
    <3>3. QED
      BY <2>1, <2>2, <3>1, <3>2, <1>1 DEF TidInv
  <2>3. CASE ~vchain.modified
    <3>1. UNCHANGED <<voldata, volsync, vchain, pending>>
      BY <1>11, <2>3 DEF FlushVolume
    <3>2. QED
      BY <2>1, <3>1, <1>1 DEF TidInv
  <2>4. QED
    BY <2>2, <2>3
<1>12. CASE WriteHeader
  <2>1. /\ UNCHANGED <<voldata, vchain, volsync>>
        /\ header' = IF pending THEN volsync ELSE header
        /\ pending' = FALSE /\ flush'.st = "idle"
    BY <1>12 DEF WriteHeader, FlushDone, NoFlush
  <2>2. QED
    BY <2>1, <1>1 DEF TidInv
<1>13. CASE HeaderFails
  <2>1. /\ UNCHANGED <<voldata, vchain, volsync, header>>
        /\ pending /\ flush'.st = "idle"
    BY <1>13 DEF HeaderFails, FlushDone, NoFlush
  <2>2. QED
    BY <2>1, <1>1 DEF TidInv
<1>14. CASE BulkScan \/ BulkMerge
  BY <1>14, <1>4 DEF BulkScan, BulkMerge
<1>15. CASE Crash
  <2>1. PICK d \in {0, 1} :
           /\ vchain'.modified => d = 1
           /\ vchain'.mirror_tid = header.mirror_tid + d
    <3> DEFINE m == Recovered(header)
    <3> HIDE DEF m
    <3>1. vchain' = [modified |-> m.avail # header.leaf.avail,
                     mirror_tid |-> header.mirror_tid
                                    + IF m.avail # header.leaf.avail
                                      THEN 1 ELSE 0]
      BY <1>15 DEF Crash, m
    <3>2. CASE m.avail = header.leaf.avail
      BY <3>1, <3>2
    <3>3. CASE m.avail # header.leaf.avail
      BY <3>1, <3>3
    <3>4. QED
      BY <3>2, <3>3
  <2>2. /\ voldata' = header /\ volsync' = header /\ header' = header
        /\ pending' = FALSE /\ flush'.st = "idle"
    BY <1>15 DEF Crash, NoFlush
  <2>3. QED
    BY <2>1, <2>2, <1>1 DEF TidInv
<1>16. CASE UNCHANGED vars
  BY <1>16, <1>4 DEF vars
<1>17. QED
  BY StepIs, <1>5, <1>6, <1>7, <1>8, <1>9, <1>10, <1>11, <1>12, <1>13, <1>14,
     <1>15, <1>16

-----------------------------------------------------------------------------
(* What the steps do to a bitmap.                                            *)

\* The end of a fragment is in the fragment's block, or at the next one.
LEMMA EndOfFrag ==
    ASSUME NEW x, Placed(x), IsFrag(x.size), MidBlock(x.off + x.size)
    PROVE  BlockOf(x.off + x.size) = BlockOf(x.off)
<1>1. /\ x.off \in Nat /\ x.size \in Nat /\ Units \in Nat \ {0}
      /\ (x.off % Units) + x.size <= Units /\ x.off % Units \in Nat
  BY PlacedBlocks, Geometry, DivMod DEF Placed
<1>2. (x.off % Units) + x.size # Units
  BY <1>1, RemainderWraps DEF MidBlock
<1>3. (x.off % Units) + x.size < Units
  BY <1>1, <1>2
<1>4. QED
  BY <1>1, <1>3, RemainderGrows DEF BlockOf

\* The end of what is stored outside InUse is inside no block of InUse.
LEMMA EndIsAway ==
    ASSUME NEW x, Apart(x)
    PROVE  Away(x.off + x.size)
<1>1. CASE IsFrag(x.size)
  <2>1. BlockOf(x.off) \notin InUse
    BY <1>1, PlacedFrag DEF Apart
  <2>2. QED
    BY <1>1, <2>1, EndOfFrag DEF Away, Apart
<1>2. CASE ~IsFrag(x.size)
  BY <1>2, PlacedRun DEF Away, Apart
<1>3. QED
  BY <1>1, <1>2

\* The start and the end of the bitmap are inside no block.
LEMMA EndsAreAway == Away(0) /\ Away(SegSize)
  BY Geometry, ZeroMod DEF Away, MidBlock

\* The block of a file that nobody touches.
LEMMA PinnedBlock ==
    ASSUME NEW x \in Pinned
    PROVE  \E b \in InUse : BlocksOf(x) = {b} /\ x = [off |-> b * Units, size |-> Units]
<1>1. PICK b \in InUse : x = [off |-> b * Units, size |-> Units]
  BY DEF Pinned
<1>2. b \in Nat /\ Units \in Nat \ {0} /\ b \in Blocks
  BY Geometry, RecoveryAssumption DEF Blocks
<1>3. BlockOf(x.off) = b
  BY <1>1, <1>2, DivOfTimes DEF BlockOf
<1>4. Span(x.size) = 1
  <2>1. x.size = Units /\ ~(Units < Units)
    BY <1>1, <1>2
  <2>2. Units \div Units = 1
    BY <1>2, DivIs
  <2>3. QED
    BY <2>1, <2>2 DEF Span, IsFrag
<1>5. BlocksOf(x) = b .. b
  BY <1>2, <1>3, <1>4 DEF BlocksOf
<1>6. QED
  BY <1>1, <1>2, <1>5

\* An allocation takes free blocks or the rest of the iterator's: never a block
\* of InUse, and the iterator stays out of them.
LEMMA AllocatedGood ==
    ASSUME NEW m, GoodLeaf(m), NEW s \in Sizes, NEW off \in Offers(m, s, FALSE)
    PROVE  /\ Apart(Extent(off, s)) /\ GoodLeaf(Allocated(m, Extent(off, s)))
           /\ \A b \in Blocks :
                 /\ b \in BlocksOf(Extent(off, s)) =>
                       Allocated(m, Extent(off, s)).bits[b] = Full
                 /\ Allocated(m, Extent(off, s)).bits[b] \in {Full, m.bits[b]}
<1> DEFINE x == Extent(off, s)
           n == Allocated(m, x)
<1>1. m \in Bmaps /\ Exact(m) /\ Permissive(m) /\ Away(m.linear)
  BY DEF GoodLeaf
<1>2. x.off = off /\ x.size = s
  BY DEF Extent
<1>3. /\ Placed(x)
      /\ \/ LinearFits(m, s) /\ IsFrag(s) /\ off = m.linear
         \/ \A b \in BlocksOf(x) : m.bits[b] = Free
  BY <1>1, OfferIs
<1>4. /\ n \in Bmaps /\ Exact(n) /\ Permissive(n)
      /\ \A b \in Blocks : /\ b \in BlocksOf(x) => n.bits[b] = Full
                           /\ b \notin BlocksOf(x) => n.bits[b] = m.bits[b]
      /\ n.linear = IF IsFrag(s) THEN off + s ELSE m.linear
  BY <1>1, AllocatedKeeps
<1> HIDE DEF n, x
<1>5. Apart(x)
  <2>1. CASE LinearFits(m, s) /\ IsFrag(s) /\ off = m.linear
    <3>1. MidBlock(m.linear) /\ BlocksOf(x) = {BlockOf(m.linear)}
      BY <2>1, <1>2, <1>3, PlacedFrag DEF LinearFits
    <3>2. QED
      BY <3>1, <1>1, <1>3 DEF Apart, Away
  <2>2. CASE \A b \in BlocksOf(x) : m.bits[b] = Free
    BY <2>2, <1>3 DEF Apart, GoodLeaf
  <2>3. QED
    BY <1>3, <2>1, <2>2
<1>6. Away(n.linear)
  <2>1. CASE IsFrag(s)
    BY <2>1, <1>2, <1>4, <1>5, EndIsAway
  <2>2. CASE ~IsFrag(s)
    BY <2>2, <1>1, <1>4
  <2>3. QED
    BY <2>1, <2>2
<1>7. \A b \in Blocks : n.bits[b] \in {Full, m.bits[b]}
  BY <1>4
<1>8. \A b \in InUse : n.bits[b] # Free
  <2>1. \A b \in InUse : b \in Blocks /\ m.bits[b] # Free
    BY RecoveryAssumption DEF GoodLeaf
  <2>2. QED
    BY <1>7, <2>1 DEF Full, Free
<1>9. GoodLeaf(n)
  BY <1>4, <1>6, <1>8 DEF GoodLeaf
<1>10. QED
  BY <1>4, <1>5, <1>7, <1>9 DEF n, x

\* A failed allocation clears a bit of bigmask.
LEMMA ExhaustedGood ==
    ASSUME NEW m, GoodLeaf(m), NEW s \in Sizes, Offers(m, s, FALSE) = {}
    PROVE  GoodLeaf(Exhausted(m, s)) /\ Exhausted(m, s).bits = m.bits
  BY ExhaustedKeeps DEF GoodLeaf

\* A scan to merge: a pass that found InUse.
GoodScan(scan) ==
    /\ scan.bits \in [Blocks -> {Free, Full}] /\ scan.linear \in 0..SegSize
    /\ Away(scan.linear) /\ \A b \in InUse : scan.bits[b] = Full

\* h2_bulkfree_sync_adjust leaves the iterator outside InUse too.
LEMMA MergedGood ==
    ASSUME NEW m, GoodLeaf(m), NEW scan, GoodScan(scan)
    PROVE  /\ GoodLeaf(Merged(m, scan))
           /\ \A b \in Blocks :
                 Merged(m, scan).bits[b] = NextStage(m.bits[b], scan.bits[b])
<1> DEFINE n == Merged(m, scan)
<1>1. /\ n \in Bmaps /\ Exact(n) /\ Permissive(n)
      /\ \A b \in Blocks : n.bits[b] = NextStage(m.bits[b], scan.bits[b])
      /\ n.linear = MergedLinear(m, scan, n.bits)
  BY MergedKeeps DEF GoodLeaf, GoodScan
<1> HIDE DEF n
<1>2. Away(n.linear)
  <2>1. Away(RoundUp(scan.linear)) /\ Away(scan.linear)
    BY RoundedUp DEF Away, GoodScan
  <2>2. n.linear \in {0, SegSize, scan.linear, RoundUp(scan.linear)}
    BY <1>1 DEF MergedLinear
  <2>3. QED
    BY <2>1, <2>2, EndsAreAway
<1>3. \A b \in InUse : n.bits[b] # Free
  <2>1. \A b \in InUse : b \in Blocks /\ scan.bits[b] = Full
    BY RecoveryAssumption DEF GoodScan
  <2>2. \A b \in InUse : n.bits[b] = Full
    BY <2>1, <1>1 DEF NextStage
  <2>3. QED
    BY <2>2 DEF Full, Free
<1>4. QED
  BY <1>1, <1>2, <1>3 DEF GoodLeaf, n

\* The storage of a block table.
LEMMA StoredIs ==
    ASSUME NEW top
    PROVE  /\ \A x : x \in StoredIn(top) <=>
                        x # Nowhere /\ \E o \in Owners : x = top[o].at
           /\ IsFiniteSet(StoredIn(top))
           /\ GoodTop(top) => \A x \in StoredIn(top) : Apart(x)
<1>1. \A x : x \in StoredIn(top) <=> x # Nowhere /\ \E o \in Owners : x = top[o].at
  BY DEF StoredIn
<1>2. IsFiniteSet({top[o].at : o \in Owners})
  <2> DEFINE f == [o \in Owners |-> top[o].at]
  <2>1. {top[o].at : o \in Owners} = {f[o] : o \in Owners}
    OBVIOUS
  <2>2. f \in Surjection(Owners, {f[o] : o \in Owners})
    BY DEF Surjection
  <2>3. QED
    BY <2>1, <2>2, FS_Surjection, RecoveryAssumption
<1>3. IsFiniteSet(StoredIn(top))
  BY <1>2, FS_Subset DEF StoredIn
<1>4. QED
  BY <1>1, <1>3 DEF GoodTop

\* The scan of a block table (h2_bulkfree_callback).
LEMMA ScanGood ==
    ASSUME NEW top, GoodTop(top), NEW l \in ScanLinears(StoredIn(top)),
           NEW scan, scan.bits = ScanBits(Scanned(top)), scan.linear = l
    PROVE  /\ GoodScan(scan)
           /\ \A x \in StoredIn(top) : \A b \in BlocksOf(x) : scan.bits[b] = Full
<1>1. \A x \in StoredIn(top) : Apart(x) /\ Placed(x)
  BY StoredIs DEF Apart
<1>2. /\ l \in 0..SegSize
      /\ l > 0 => \E x \in StoredIn(top) : l = x.off + x.size
  BY <1>1, StoredIs, ScanLinearsAre
<1>3. Away(l)
  <2>1. CASE l = 0
    BY <2>1, EndsAreAway
  <2>2. CASE l > 0
    BY <2>2, <1>1, <1>2, EndIsAway
  <2>3. QED
    BY <1>2, <2>1, <2>2, Geometry
<1>4. /\ scan.bits \in [Blocks -> {Free, Full}]
      /\ \A b \in Blocks :
            scan.bits[b] = Full <=> \E x \in Scanned(top) : b \in BlocksOf(x)
  BY ScanBitsAre
<1>5. ASSUME NEW b \in InUse
      PROVE  scan.bits[b] = Full
  <2> DEFINE x == [off |-> b * Units, size |-> Units]
  <2>1. x \in Pinned /\ b \in Blocks
    BY RecoveryAssumption DEF Pinned
  <2>2. PICK c \in InUse : BlocksOf(x) = {c} /\ x = [off |-> c * Units, size |-> Units]
    BY <2>1, PinnedBlock
  <2>3. b = c
    <3>1. b * Units = c * Units /\ b \in Nat /\ c \in Nat /\ Units \in Nat \ {0}
      BY <2>2, Geometry, RecoveryAssumption DEF Blocks
    <3>2. b <= c /\ c <= b
      BY <3>1, TimesCancel
    <3>3. QED
      BY <3>1, <3>2
  <2> HIDE DEF x
  <2>4. QED
    BY <1>4, <2>1, <2>2, <2>3 DEF Scanned
<1>6. ASSUME NEW x \in StoredIn(top), NEW b \in BlocksOf(x)
      PROVE  scan.bits[b] = Full
  <2>1. b \in Blocks
    BY <1>1, PlacedBlocks
  <2>2. QED
    BY <1>4, <2>1 DEF Scanned
<1>7. QED
  BY <1>2, <1>3, <1>4, <1>5, <1>6 DEF GoodScan

\* What recovery makes of a header that is good: what it can find is allocated.
LEMMA RecoveredGood ==
    ASSUME NEW h, GoodVolume(h)
    PROVE  /\ GoodLeaf(Recovered(h))
           /\ \A b \in Blocks : Recovered(h).bits[b] \in {Full, h.leaf.bits[b]}
           /\ \A o \in Owners :
                 /\ h.top[o].at # Nowhere /\ Finds(h.top[o].at)
                 /\ h.top[o].tid > h.freemap_tid
                 => Taken(Recovered(h), h.top[o].at)
<1> DEFINE S == LaterStored(h)
           r == RecoverySteps(h.leaf, S)[S]
<1>1. Recovered(h) = r
  BY RecoveredIs
<1>2. h.leaf \in Bmaps /\ Exact(h.leaf) /\ Permissive(h.leaf) /\ Away(h.leaf.linear)
  BY DEF GoodVolume, GoodLeaf
<1>3. S \subseteq StoredIn(h.top) /\ IsFiniteSet(S)
  <2>1. S \subseteq StoredIn(h.top)
    BY DEF LaterStored, Later, StoredIn
  <2>2. QED
    BY <2>1, StoredIs, FS_Subset
<1> HIDE DEF S
<1>4. /\ r \in Bmaps /\ Exact(r) /\ Permissive(r)
      /\ r.linear \in {0, h.leaf.linear}
      /\ \A b \in Blocks : r.bits[b] \in {Full, h.leaf.bits[b]}
      /\ \A x \in S : \A b \in AdjustTargets(x) \cap Blocks : r.bits[b] = Full
  BY <1>2, <1>3, RecoveryMarks
<1> HIDE DEF r
<1>5. \A b \in InUse : r.bits[b] # Free
  <2>1. \A b \in InUse : b \in Blocks /\ h.leaf.bits[b] # Free
    BY RecoveryAssumption DEF GoodVolume, GoodLeaf
  <2>2. QED
    BY <1>4, <2>1 DEF Full, Free
<1>6. GoodLeaf(r)
  BY <1>2, <1>4, <1>5, EndsAreAway DEF GoodLeaf
<1>7. ASSUME NEW o \in Owners, h.top[o].at # Nowhere, Finds(h.top[o].at),
             h.top[o].tid > h.freemap_tid
      PROVE  Taken(r, h.top[o].at)
  <2>1. h.top[o].at \in S
    BY <1>7 DEF S, LaterStored, Later
  <2>2. Placed(h.top[o].at)
    BY <1>7 DEF GoodVolume, GoodTop, Apart
  <2>3. BlocksOf(h.top[o].at) \subseteq AdjustTargets(h.top[o].at) \cap Blocks
    BY <1>7, <2>2, PlacedBlocks DEF Finds
  <2>4. QED
    BY <1>4, <2>1, <2>3 DEF Taken
<1>8. QED
  BY <1>1, <1>4, <1>6, <1>7

-----------------------------------------------------------------------------
(* The bitmaps and the block tables.                                         *)

BulkStates ==
    [st : {"idle", "sync", "synced"}]
        \cup [st : {"scanned"}, bits : [Blocks -> {Free, Full}], linear : 0..SegSize]

\* The type invariant from its parts.
LEMMA TypeFrom ==
    ASSUME bmap \in Bmaps, chain \in [Owners -> Brefs],
           modified \subseteq Owners, update \subseteq Owners,
           voldata \in Volumes, volsync \in Volumes, header \in Volumes,
           vchain \in [modified : BOOLEAN, mirror_tid : Tids],
           leafDirty \in BOOLEAN, pending \in BOOLEAN, early \in BOOLEAN,
           flush \in [st : FlushStates, todo : SUBSET Owners],
           bulk \in BulkStates
    PROVE  TypeOK
  BY DEF TypeOK, BulkStates

\* The stages of a pass.
LEMMA BulkFacts ==
    ASSUME bulk \in BulkStates
    PROVE  /\ bulk.st = "scanned" => /\ bulk.bits \in [Blocks -> {Free, Full}]
                                     /\ bulk.linear \in 0..SegSize
           /\ bulk.st \in {"idle", "sync", "synced", "scanned"}
           /\ bulk = Idle => bulk.st = "idle"
  BY DEF BulkStates, Idle

\* A freshly mounted volume is good: the free bitmap but for InUse.
LEMMA InitLeaf ==
    LET leaf == [bits |-> Fill([b \in Blocks |-> Free], InUse), linear |-> 0,
                 avail |-> Units * Cardinality(Blocks \ InUse),
                 bigmask |-> Sizes]
    IN  /\ GoodLeaf(leaf)
        /\ \A b \in Blocks : b \in InUse => leaf.bits[b] = Full
<1> DEFINE none == [b \in Blocks |-> Free]
           leaf == [bits |-> Fill(none, InUse), linear |-> 0,
                    avail |-> Units * Cardinality(Blocks \ InUse),
                    bigmask |-> Sizes]
<1>1. none \in [Blocks -> {Free, Staged, Full}] /\ FreeBlocks(none) = Blocks
  BY DEF FreeBlocks
<1> HIDE DEF none
<1>2. /\ leaf.bits \in [Blocks -> {Free, Staged, Full}]
      /\ \A b \in Blocks : b \in InUse => leaf.bits[b] = Full
      /\ FreeBlocks(leaf.bits) = Blocks \ InUse
  BY <1>1, FillTakes
<1>3. leaf.avail \in Int
  <2>1. Cardinality(Blocks \ InUse) \in Nat
    BY BlocksFinite
  <2>2. QED
    BY <2>1, Geometry
<1>4. leaf \in Bmaps
  BY <1>2, <1>3, Geometry DEF Bmaps
<1>5. Exact(leaf) /\ Permissive(leaf)
  BY <1>2 DEF Exact, Permissive
<1>6. Away(leaf.linear)
  BY EndsAreAway
<1>7. \A b \in InUse : leaf.bits[b] # Free
  BY <1>2, RecoveryAssumption DEF Full, Free
<1> HIDE DEF leaf
<1>8. GoodLeaf(leaf)
  BY <1>4, <1>5, <1>6, <1>7 DEF GoodLeaf
<1>9. QED
  BY <1>2, <1>8 DEF leaf, none

\* The initial state satisfies the first two invariants.
LEMMA InitSpace == Init => TidInv /\ SpaceInv
<1> SUFFICES ASSUME Init
             PROVE  TidInv /\ SpaceInv
  OBVIOUS
<1>1. PICK leaf : /\ GoodLeaf(leaf)
                  /\ header = [top |-> [o \in Owners |-> NoBref], leaf |-> leaf,
                               freemap_tid |-> 0, mirror_tid |-> 0]
                  /\ bmap = leaf
  BY InitLeaf DEF Init
<1>2. /\ leafDirty = FALSE /\ chain = header.top /\ modified = {} /\ update = {}
      /\ voldata = header /\ volsync = header /\ pending = FALSE
      /\ vchain = [modified |-> FALSE, mirror_tid |-> 0]
      /\ flush = [st |-> "idle", todo |-> {}] /\ bulk = [st |-> "idle"]
      /\ early = FALSE
  BY DEF Init, NoFlush, Idle
<1>3. 0 \in Tids /\ NoBref \in Brefs /\ NoBref.at = Nowhere /\ MaxTid \in Nat
  BY RecoveryAssumption DEF Tids, Brefs, Storage, NoBref
<1>4. /\ header.top = [o \in Owners |-> NoBref] /\ header.leaf = leaf
      /\ header.mirror_tid = 0 /\ header.freemap_tid = 0
  BY <1>1
<1>5. leaf \in Bmaps
  BY <1>1 DEF GoodLeaf
<1>6. header \in Volumes
  BY <1>1, <1>3, <1>5 DEF Volumes
<1>7. header.top \in [Owners -> Brefs] /\ GoodTop(header.top)
  BY <1>3, <1>4 DEF GoodTop
<1>8. TidInv
  BY <1>2, <1>3, <1>4 DEF TidInv
<1>9. TypeOK
  <2>1. vchain \in [modified : BOOLEAN, mirror_tid : Tids]
    BY <1>2, <1>3
  <2>2. flush \in [st : FlushStates, todo : SUBSET Owners] /\ bulk \in BulkStates
    BY <1>2 DEF FlushStates, BulkStates
  <2>3. QED
    BY <2>1, <2>2, <1>1, <1>2, <1>5, <1>6, <1>7, TypeFrom
<1>10. GoodVolume(header)
  BY <1>1, <1>4, <1>6, <1>7 DEF GoodVolume
<1>11. QED
  BY <1>1, <1>2, <1>7, <1>8, <1>9, <1>10 DEF SpaceInv

\* Changing what one chain refers to.
LEMMA TopWith ==
    ASSUME NEW top \in [Owners -> Brefs], GoodTop(top), NEW o \in Owners,
           NEW c \in Brefs, c.at # Nowhere => Apart(c.at),
           NEW new, new = [top EXCEPT ![o] = c]
    PROVE  new \in [Owners -> Brefs] /\ GoodTop(new)
  BY DEF GoodTop

\* An allocation, and the reference to it.
LEMMA WriteSpace ==
    ASSUME TidInv, SpaceInv, NEW o \in Owners, NEW s \in Sizes,
           NEW off \in Offers(bmap, s, FALSE), Write(o, Extent(off, s))
    PROVE  SpaceInv'
<1> DEFINE x == Extent(off, s)
           c == [at |-> x, tid |-> NextTid]
<1>1. TypeOK /\ GoodTop(chain) /\ GoodLeaf(bmap)
  BY DEF SpaceInv
<1>2. Apart(x) /\ GoodLeaf(Allocated(bmap, x))
  BY <1>1, AllocatedGood
<1>3. x \in Extents /\ x \in Storage
  BY <1>2 DEF Apart, Placed, Storage
<1> HIDE DEF x
<1>4. /\ bmap' = Allocated(bmap, x) /\ leafDirty' = TRUE
      /\ vchain' \in {vchain, VoldataModified}
      /\ chain' = [chain EXCEPT ![o] = c]
      /\ modified' = modified \cup {o} /\ update' = update \cup {o}
      /\ UNCHANGED <<voldata, volsync, pending, header, flush, bulk, early>>
  BY DEF Write, x
<1>5. NextTid \in Tids /\ VoldataModified \in [modified : BOOLEAN, mirror_tid : Tids]
  BY <1>1, ModifiedIs
<1>6. c \in Brefs /\ c.at = x
  BY <1>3, <1>5 DEF Brefs
<1> HIDE DEF c
<1>7. chain' \in [Owners -> Brefs] /\ GoodTop(chain')
  BY <1>1, <1>2, <1>4, <1>6, TopWith, TypeFacts
<1>8. TypeOK'
  <2>1. bmap' \in Bmaps /\ leafDirty' \in BOOLEAN
    BY <1>2, <1>4 DEF GoodLeaf
  <2>2. vchain' \in [modified : BOOLEAN, mirror_tid : Tids]
    BY <1>1, <1>4, <1>5, TypeFacts
  <2>3. QED
    BY <2>1, <2>2, <1>1, <1>4, <1>7 DEF TypeOK
<1>9. QED
  BY <1>2, <1>4, <1>7, <1>8 DEF SpaceInv

\* The chain's own steps, which leave the bitmap alone or clear a bigmask bit.
LEMMA FrontendSpace ==
    ASSUME TidInv, SpaceInv, NEW o \in Owners,
           \/ \E s \in Sizes : WriteFails(o, s)
           \/ Rewrite(o) \/ Delete(o)
    PROVE  SpaceInv'
<1>1. TypeOK /\ GoodTop(chain) /\ GoodLeaf(bmap)
  BY DEF SpaceInv
<1>2. ASSUME NEW s \in Sizes, WriteFails(o, s)
      PROVE  SpaceInv'
  <2>1. /\ bmap' = Exhausted(bmap, s) /\ GoodLeaf(Exhausted(bmap, s))
        /\ UNCHANGED <<chain, modified, update, voldata, vchain, volsync, pending,
                       header, flush, bulk, early>>
    BY <1>1, <1>2, ExhaustedGood DEF WriteFails
  <2>2. leafDirty' \in BOOLEAN
    BY <1>1, <1>2, TypeFacts DEF WriteFails
  <2>3. bmap' \in Bmaps
    BY <2>1 DEF GoodLeaf
  <2>4. TypeOK'
    BY <1>1, <2>1, <2>2, <2>3 DEF TypeOK
  <2>5. QED
    BY <2>1, <2>4 DEF SpaceInv
<1>3. ASSUME Rewrite(o) \/ Delete(o)
      PROVE  SpaceInv'
  <2>1. /\ modified' \subseteq Owners /\ update' \subseteq Owners
        /\ UNCHANGED <<bmap, leafDirty, voldata, vchain, volsync, pending,
                       header, flush, bulk, early>>
    BY <1>1, <1>3, TypeFacts DEF Rewrite, Delete
  <2>2. NextTid \in Tids /\ chain[o] \in Brefs /\ chain \in [Owners -> Brefs]
    BY <1>1, ModifiedIs, TypeFacts
  <2>3. PICK at \in {chain[o].at, Nowhere} :
           chain' = [chain EXCEPT ![o] = [at |-> at, tid |-> NextTid]]
    <3>1. CASE Rewrite(o)
      <4>1. chain' = [chain EXCEPT ![o].tid = NextTid]
        BY <3>1 DEF Rewrite
      <4>2. [chain[o] EXCEPT !.tid = NextTid] = [at |-> chain[o].at, tid |-> NextTid]
        BY <2>2 DEF Brefs
      <4>3. QED
        BY <4>1, <4>2
    <3>2. CASE Delete(o)
      BY <3>2 DEF Delete
    <3>3. QED
      BY <1>3, <3>1, <3>2
  <2> DEFINE c == [at |-> at, tid |-> NextTid]
  <2>4. c \in Brefs /\ c.at = at
    BY <2>2, <2>3 DEF Brefs, Storage
  <2>5. c.at # Nowhere => Apart(c.at)
    BY <1>1, <2>3, <2>4 DEF GoodTop
  <2> HIDE DEF c
  <2>6. chain' = [chain EXCEPT ![o] = c]
    BY <2>3 DEF c
  <2>7. chain' \in [Owners -> Brefs] /\ GoodTop(chain')
    BY <1>1, <2>2, <2>4, <2>5, <2>6, TopWith
  <2>8. TypeOK'
    BY <1>1, <2>1, <2>7 DEF TypeOK
  <2>9. QED
    BY <2>1, <2>7, <2>8 DEF SpaceInv
<1>4. QED
  BY <1>2, <1>3

\* The flush of an inode, of fchain and of vchain.
LEMMA FlushSpace ==
    ASSUME TidInv, SpaceInv,
           (\E o \in Owners : FlushOwner(o)) \/ FlushFreemap \/ FlushVolume
    PROVE  SpaceInv'
<1>1. /\ TypeOK /\ GoodTop(chain) /\ GoodLeaf(bmap) /\ chain \in [Owners -> Brefs]
      /\ GoodVolume(voldata) /\ GoodVolume(volsync)
  BY TypeFacts DEF SpaceInv
<1>2. ASSUME NEW o \in Owners, FlushOwner(o)
      PROVE  SpaceInv'
  <2>1. /\ voldata' \in Volumes
        /\ voldata'.top = [voldata.top EXCEPT ![o] = chain[o]]
        /\ voldata'.leaf = voldata.leaf
        /\ vchain' \in [modified : BOOLEAN, mirror_tid : Tids]
        /\ flush' \in [st : FlushStates, todo : SUBSET Owners]
    BY <1>1, <1>2, OwnerFlushed
  <2>2. /\ modified' \subseteq Owners /\ update' \subseteq Owners
        /\ UNCHANGED <<bmap, leafDirty, chain, volsync, pending, header, bulk, early>>
    BY <1>1, <1>2, TypeFacts DEF FlushOwner
  <2>3. GoodTop(voldata'.top)
    <3>1. voldata.top \in [Owners -> Brefs] /\ GoodTop(voldata.top)
      BY <1>1, VolumeFacts DEF GoodVolume
    <3>2. chain[o] \in Brefs /\ (chain[o].at # Nowhere => Apart(chain[o].at))
      BY <1>1 DEF GoodTop
    <3>3. QED
      BY <2>1, <3>1, <3>2, TopWith
  <2>4. GoodVolume(voldata')
    BY <1>1, <2>1, <2>3 DEF GoodVolume
  <2>5. TypeOK'
    BY <1>1, <2>1, <2>2 DEF TypeOK
  <2>6. QED
    BY <2>2, <2>4, <2>5 DEF SpaceInv
<1>3. CASE FlushFreemap
  <2>1. /\ UNCHANGED <<bmap, chain, modified, update, volsync, pending, header,
                       bulk, early>>
        /\ flush' = [st |-> "volume", todo |-> {}]
    BY <1>3 DEF FlushFreemap, Now
  <2>2. flush' \in [st : FlushStates, todo : SUBSET Owners]
    BY <2>1 DEF FlushStates
  <2>3. /\ GoodVolume(voldata') /\ leafDirty' \in BOOLEAN
        /\ vchain' \in [modified : BOOLEAN, mirror_tid : Tids]
    <3>1. CASE leafDirty
      <4>1. voldata' \in Volumes /\ voldata'.top = voldata.top /\ voldata'.leaf = bmap
            /\ vchain' = VoldataModified
        BY <1>1, <1>3, <3>1, FreemapFlushed
      <4>2. leafDirty' = FALSE
        BY <1>3, <3>1 DEF FlushFreemap
      <4>3. QED
        BY <1>1, <4>1, <4>2, ModifiedIs DEF GoodVolume
    <3>2. CASE ~leafDirty
      <4>1. UNCHANGED <<leafDirty, vchain, voldata>>
        BY <1>3, <3>2 DEF FlushFreemap
      <4>2. QED
        BY <1>1, <4>1, TypeFacts
    <3>3. QED
      BY <3>1, <3>2
  <2>4. voldata' \in Volumes
    BY <2>3 DEF GoodVolume
  <2>5. TypeOK'
    BY <1>1, <2>1, <2>2, <2>3, <2>4 DEF TypeOK
  <2>6. QED
    BY <2>1, <2>3, <2>5 DEF SpaceInv
<1>4. CASE FlushVolume
  <2>1. /\ UNCHANGED <<bmap, leafDirty, chain, modified, update, header, bulk, early>>
        /\ flush' = [st |-> "header", todo |-> {}]
    BY <1>4 DEF FlushVolume, Now
  <2>2. flush' \in [st : FlushStates, todo : SUBSET Owners]
    BY <2>1 DEF FlushStates
  <2>3. /\ GoodVolume(voldata') /\ GoodVolume(volsync') /\ pending' \in BOOLEAN
        /\ vchain' \in [modified : BOOLEAN, mirror_tid : Tids]
    <3>1. CASE vchain.modified
      <4>1. /\ voldata' = Synced /\ volsync' = Synced /\ pending' = TRUE
            /\ vchain' = [vchain EXCEPT !.modified = FALSE]
        BY <1>4, <3>1 DEF FlushVolume
      <4>2. GoodVolume(Synced)
        BY <1>1, VolSynced DEF GoodVolume
      <4>3. vchain \in [modified : BOOLEAN, mirror_tid : Tids]
        BY <1>1, TypeFacts
      <4>4. QED
        BY <4>1, <4>2, <4>3
    <3>2. CASE ~vchain.modified
      <4>1. UNCHANGED <<voldata, volsync, vchain, pending>>
        BY <1>4, <3>2 DEF FlushVolume
      <4>2. QED
        BY <1>1, <4>1, TypeFacts
    <3>3. QED
      BY <3>1, <3>2
  <2>4. voldata' \in Volumes /\ volsync' \in Volumes
    BY <2>3 DEF GoodVolume
  <2>5. TypeOK'
    BY <1>1, <2>1, <2>2, <2>3, <2>4 DEF TypeOK
  <2>6. QED
    BY <2>1, <2>3, <2>5 DEF SpaceInv
<1>5. QED
  BY <1>2, <1>3, <1>4

\* The beginning and the end of a flush.
LEMMA HeaderSpace ==
    ASSUME TidInv, SpaceInv, FlushBegin \/ BulkSync \/ WriteHeader \/ HeaderFails
    PROVE  SpaceInv'
<1>1. /\ TypeOK /\ GoodVolume(volsync) /\ GoodVolume(header) /\ bulk \in BulkStates
  BY DEF SpaceInv, TypeOK, BulkStates
<1>2. ASSUME /\ flush' \in [st : FlushStates, todo : SUBSET Owners]
             /\ bulk' \in BulkStates /\ (bulk'.st = "scanned" => bulk' = bulk)
             /\ GoodVolume(header') /\ pending' \in BOOLEAN
             /\ UNCHANGED <<bmap, leafDirty, chain, modified, update, voldata,
                            vchain, volsync, early>>
      PROVE  SpaceInv'
  <2>1. header' \in Volumes
    BY <1>2 DEF GoodVolume
  <2>2. TypeOK'
    BY <1>1, <1>2, <2>1 DEF TypeOK, BulkStates
  <2>3. QED
    BY <1>2, <2>2 DEF SpaceInv
<1>3. CASE FlushBegin \/ BulkSync
  <2>1. flush' \in [st : FlushStates, todo : SUBSET Owners]
    <3>1. flush' = [st |-> "inodes", todo |-> update] /\ update \subseteq Owners
      BY <1>1, <1>3, TypeFacts DEF FlushBegin, BulkSync, StartFlush
    <3>2. QED
      BY <3>1 DEF FlushStates
  <2>2. bulk' \in BulkStates /\ (bulk'.st = "scanned" => bulk' = bulk)
    BY <1>1, <1>3 DEF FlushBegin, BulkSync, BulkStates
  <2>3. QED
    BY <1>1, <1>2, <1>3, <2>1, <2>2, TypeFacts DEF FlushBegin, BulkSync
<1>4. CASE WriteHeader \/ HeaderFails
  <2>1. FlushDone /\ GoodVolume(header') /\ pending' \in BOOLEAN /\ UNCHANGED early
    BY <1>1, <1>4 DEF WriteHeader, HeaderFails
  <2>2. flush' \in [st : FlushStates, todo : SUBSET Owners]
    BY <2>1 DEF FlushDone, NoFlush, FlushStates
  <2>3. bulk' \in BulkStates /\ (bulk'.st = "scanned" => bulk' = bulk)
    <3>1. CASE bulk.st = "sync"
      BY <2>1, <3>1 DEF FlushDone, BulkStates
    <3>2. CASE bulk.st # "sync"
      BY <1>1, <2>1, <3>2 DEF FlushDone
    <3>3. QED
      BY <3>1, <3>2
  <2>4. QED
    BY <1>2, <2>1, <2>2, <2>3 DEF FlushDone
<1>5. QED
  BY <1>3, <1>4

\* A pass of bulkfree: its scan and its merge.
LEMMA BulkSpace ==
    ASSUME TidInv, SpaceInv, BulkScan \/ BulkMerge
    PROVE  SpaceInv'
<1>1. /\ TypeOK /\ GoodLeaf(bmap) /\ GoodVolume(volsync) /\ bulk \in BulkStates
  BY DEF SpaceInv, TypeOK, BulkStates
<1>2. CASE BulkScan
  <2>1. PICK l \in ScanLinears(StoredIn(volsync.top)) :
           bulk' = [st |-> "scanned", bits |-> ScanBits(Scanned(volsync.top)),
                    linear |-> l]
    BY <1>2 DEF BulkScan
  <2>2. /\ bulk'.st = "scanned" /\ bulk'.bits = ScanBits(Scanned(volsync.top))
        /\ bulk'.linear = l
    BY <2>1
  <2>3. GoodScan(bulk')
    BY <1>1, <2>2, ScanGood DEF GoodVolume
  <2>4. bulk' \in BulkStates
    <3>1. bulk'.bits \in [Blocks -> {Free, Full}] /\ bulk'.linear \in 0..SegSize
      BY <2>3 DEF GoodScan
    <3>2. bulk' = [st |-> "scanned", bits |-> bulk'.bits, linear |-> bulk'.linear]
      BY <2>1
    <3>3. QED
      BY <3>1, <3>2 DEF BulkStates
  <2>5. /\ UNCHANGED <<bmap, leafDirty, chain, modified, update, voldata, vchain,
                       volsync, pending, header, flush>>
        /\ early' \in BOOLEAN
    BY <1>1, <1>2, TypeFacts DEF BulkScan
  <2>6. TypeOK'
    BY <1>1, <2>4, <2>5 DEF TypeOK, BulkStates
  <2>7. QED
    BY <2>3, <2>5, <2>6 DEF SpaceInv, GoodScan
<1>3. CASE BulkMerge
  <2>1. /\ bulk.st = "scanned" /\ bulk' = [st |-> "idle"]
        /\ UNCHANGED <<chain, modified, update, voldata, volsync, pending, header,
                       flush, early>>
    BY <1>3 DEF BulkMerge, Idle
  <2>2. GoodScan(bulk)
    BY <1>1, <2>1, BulkFacts DEF SpaceInv, GoodScan
  <2>3. GoodLeaf(Merged(bmap, bulk))
    BY <1>1, <2>2, MergedGood
  <2>4. /\ GoodLeaf(bmap') /\ leafDirty' \in BOOLEAN
        /\ vchain' \in [modified : BOOLEAN, mirror_tid : Tids]
    <3>1. CASE InSync(bmap, bulk)
      <4>1. UNCHANGED <<bmap, leafDirty, vchain>>
        BY <1>3, <3>1 DEF BulkMerge
      <4>2. QED
        BY <1>1, <4>1, TypeFacts
    <3>2. CASE ~InSync(bmap, bulk)
      <4>1. bmap' = Merged(bmap, bulk) /\ leafDirty' = TRUE /\ vchain' = VoldataModified
        BY <1>3, <3>2 DEF BulkMerge
      <4>2. QED
        BY <1>1, <2>3, <4>1, ModifiedIs
    <3>3. QED
      BY <3>1, <3>2
  <2>5. bmap' \in Bmaps
    BY <2>4 DEF GoodLeaf
  <2>6. bulk' \in BulkStates /\ bulk'.st = "idle"
    BY <2>1 DEF BulkStates
  <2>7. TypeOK'
    BY <1>1, <2>1, <2>4, <2>5, <2>6 DEF TypeOK, BulkStates
  <2>8. QED
    BY <2>1, <2>4, <2>6, <2>7 DEF SpaceInv
<1>4. QED
  BY <1>2, <1>3

\* A crash, and the bitmap that hammer2_recovery leaves.
LEMMA CrashSpace ==
    ASSUME TidInv, SpaceInv, Crash
    PROVE  SpaceInv'
<1>1. TypeOK /\ GoodVolume(header) /\ header \in Volumes
  BY DEF SpaceInv, GoodVolume
<1>2. PICK m : m = Recovered(header)
  OBVIOUS
<1>3. GoodLeaf(m) /\ m \in Bmaps
  BY <1>1, <1>2, RecoveredGood DEF GoodLeaf
<1>4. /\ bmap' = m /\ leafDirty' = (m # header.leaf)
      /\ vchain' = [modified |-> m.avail # header.leaf.avail,
                    mirror_tid |-> header.mirror_tid
                                   + IF m.avail # header.leaf.avail THEN 1 ELSE 0]
      /\ chain' = header.top /\ modified' = {} /\ update' = {}
      /\ voldata' = header /\ volsync' = header /\ pending' = FALSE
      /\ flush' = [st |-> "idle", todo |-> {}] /\ bulk' = [st |-> "idle"]
      /\ UNCHANGED <<header, early>>
  BY <1>2 DEF Crash, NoFlush, Idle
<1>5. vchain' \in [modified : BOOLEAN, mirror_tid : Tids]
  <2>1. header.mirror_tid \in Nat /\ header.mirror_tid <= MaxTid /\ MaxTid \in Nat
    BY <1>1, TypeFacts, VolumeFacts, RecoveryAssumption DEF TidInv
  <2>2. PICK d \in {0, 1} : vchain' = [modified |-> m.avail # header.leaf.avail,
                                       mirror_tid |-> header.mirror_tid + d]
    <3>1. CASE m.avail = header.leaf.avail
      BY <1>4, <3>1
    <3>2. CASE m.avail # header.leaf.avail
      BY <1>4, <3>2
    <3>3. QED
      BY <3>1, <3>2
  <2>3. header.mirror_tid + d \in Tids
    BY <2>1 DEF Tids
  <2>4. (m.avail # header.leaf.avail) \in BOOLEAN
    OBVIOUS
  <2>5. QED
    BY <2>2, <2>3, <2>4
<1>6. header.top \in [Owners -> Brefs]
  BY <1>1, VolumeFacts
<1>7. flush' \in [st : FlushStates, todo : SUBSET Owners] /\ bulk' \in BulkStates
      /\ bulk'.st = "idle"
  BY <1>4 DEF FlushStates, BulkStates
<1>8. TypeOK'
  <2>1. leafDirty' \in BOOLEAN
    BY <1>4
  <2>2. QED
    BY <2>1, <1>1, <1>3, <1>4, <1>5, <1>6, <1>7 DEF TypeOK, BulkStates
<1>9. QED
  BY <1>1, <1>3, <1>4, <1>7, <1>8 DEF SpaceInv, GoodVolume

\* Every step keeps the bitmaps and the block tables.
LEMMA SpaceStep ==
    ASSUME TidInv, SpaceInv, [Next]_vars
    PROVE  SpaceInv'
<1>1. CASE UNCHANGED vars
  BY <1>1 DEF SpaceInv, TypeOK, vars
<1>2. QED
  BY <1>1, StepIs, WriteSpace, FrontendSpace, FlushSpace, HeaderSpace, BulkSpace,
     CrashSpace

-----------------------------------------------------------------------------
(* What is allocated.                                                        *)

\* Bits that are only set keep what was allocated allocated.
LEMMA MoreBits ==
    ASSUME NEW top, GoodTop(top), NEW m, NEW n,
           \A b \in Blocks : n.bits[b] \in {Full, m.bits[b]}
    PROVE  /\ Kept(m, top) => Kept(n, top)
           /\ \A scan : Spared(scan, m, top) => Spared(scan, n, top)
           /\ \A o \in Owners : top[o].at # Nowhere /\ Taken(m, top[o].at)
                                   => Taken(n, top[o].at)
<1>1. \A o \in Owners : top[o].at # Nowhere => BlocksOf(top[o].at) \subseteq Blocks
  BY PlacedBlocks DEF GoodTop, Apart
<1>2. Full # Free
  BY DEF Full, Free
<1>3. QED
  BY <1>1, <1>2 DEF Kept, Spared, Taken, NotFree

\* Fully allocated is allocated.
LEMMA TakenIsNotFree ==
    ASSUME NEW m, NEW x, Taken(m, x)
    PROVE  NotFree(m, x)
  BY DEF Taken, NotFree, Full, Free

\* A modified chain is newer than the freemap of the memory.
LEMMA NextIsNewer ==
    ASSUME TypeOK, TidInv, NEW bref, bref.tid = NextTid
    PROVE  Covers(voldata, bref)
<1>1. voldata.mirror_tid \in Nat /\ voldata.freemap_tid \in Nat
      /\ voldata.freemap_tid <= voldata.mirror_tid
  BY TypeFacts, VolumeFacts DEF TidInv
<1>2. ~(bref.tid <= voldata.freemap_tid)
  BY <1>1 DEF NextTid
<1>3. QED
  BY <1>2 DEF Covers

\* The initial state.
LEMMA InitCover == Init => CoverInv
<1> SUFFICES ASSUME Init
             PROVE  CoverInv
  OBVIOUS
<1>1. /\ chain = header.top /\ voldata = header /\ volsync = header
      /\ header.top = [o \in Owners |-> NoBref] /\ update = {}
      /\ flush = [st |-> "idle", todo |-> {}] /\ bulk = [st |-> "idle"]
  BY DEF Init, NoFlush, Idle
<1>2. \A o \in Owners : header.top[o].at = Nowhere
  BY <1>1 DEF NoBref
<1>3. \A o \in Owners : Covers(header, header.top[o])
  BY <1>2 DEF Covers
<1>4. \A m : Kept(m, header.top)
  BY <1>2 DEF Kept
<1>5. PassInv
  BY <1>1 DEF PassInv
<1>6. QED
  BY <1>1, <1>3, <1>4, <1>5 DEF CoverInv

\* A step of a chain that leaves the flush and the pass alone: what it refers
\* to, if anything new, has all its bits.
LEMMA ChainCover ==
    ASSUME TypeOK, TidInv, SpaceInv, CoverInv, NEW o \in Owners,
           \A b \in Blocks : bmap'.bits[b] \in {Full, bmap.bits[b]},
           NEW c, chain' = [chain EXCEPT ![o] = c],
           c.tid = NextTid \/ c = chain[o],
           c.at \in {Nowhere, chain[o].at} \/ Taken(bmap', c.at),
           o \in update' \/ c = chain[o], update \subseteq update',
           vchain'.modified = vchain.modified \/ vchain'.modified = TRUE,
           UNCHANGED <<voldata, volsync, header, flush, bulk, early>>
    PROVE  CoverInv'
<1>1. /\ GoodTop(chain) /\ GoodTop(voldata.top) /\ GoodTop(volsync.top)
      /\ GoodTop(header.top) /\ chain \in [Owners -> Brefs]
  BY TypeFacts DEF SpaceInv, GoodVolume
<1>2. /\ chain'[o] = c
      /\ \A p \in Owners : p # o => chain'[p] = chain[p]
  BY <1>1
<1>3. \A p \in Owners : /\ Covers(voldata', voldata'.top[p])
                        /\ Covers(volsync', volsync'.top[p])
                        /\ Covers(header', header'.top[p])
  BY DEF CoverInv
<1>4. \A p \in Owners : Covers(voldata', chain'[p])
  <2>1. Covers(voldata, c)
    BY NextIsNewer DEF CoverInv
  <2>2. QED
    BY <1>2, <2>1 DEF CoverInv
<1>5. /\ Kept(bmap', voldata'.top) /\ Kept(bmap', volsync'.top)
      /\ early' \/ Kept(bmap', header'.top)
  BY <1>1, MoreBits DEF CoverInv
<1>6. Kept(bmap', chain')
  <2>1. Kept(bmap', chain)
    BY <1>1, MoreBits DEF CoverInv
  <2>2. QED
    BY <1>2, <2>1, TakenIsNotFree DEF Kept
<1>7. ~vchain'.modified => volsync' = voldata'
  BY DEF CoverInv
<1>8. \A p \in Owners : p \notin update' => chain'[p].at = voldata'.top[p].at
  BY <1>2 DEF CoverInv
<1>9. ASSUME NEW p \in Owners
      PROVE  (Flushed(p) => Flushed(p)') /\ (Snapped(p) => Snapped(p)')
  <2>1. Snapped(p) => Snapped(p)'
    BY <1>1, MoreBits DEF Snapped
  <2>2. Flushed(p) => Flushed(p)'
    <3>1. CASE p = o /\ Taken(bmap', c.at)
      BY <1>2, <3>1 DEF Flushed
    <3>2. CASE p # o \/ c.at = chain[o].at
      BY <1>1, <1>2, <3>2, MoreBits DEF Flushed
    <3>3. CASE p = o /\ c.at = Nowhere
      BY <1>2, <3>3 DEF Flushed
    <3>4. QED
      BY <3>1, <3>2, <3>3
  <2>3. QED
    BY <2>1, <2>2
<1>10. ASSUME bulk.st = "scanned"
       PROVE  /\ Spared(bulk', bmap', voldata'.top) /\ Spared(bulk', bmap', volsync'.top)
              /\ early' \/ Spared(bulk', bmap', header'.top)
              /\ Spared(bulk', bmap', chain')
  <2>1. /\ Spared(bulk, bmap', voldata.top) /\ Spared(bulk, bmap', volsync.top)
        /\ early \/ Spared(bulk, bmap', header.top)
        /\ Spared(bulk, bmap', chain)
    BY <1>1, <1>10, MoreBits DEF CoverInv, PassInv
  <2>2. Spared(bulk, bmap', chain')
    BY <1>2, <2>1 DEF Spared, Taken
  <2>3. QED
    BY <2>1, <2>2
<1>11. PassInv'
  <2>1. /\ bulk'.st = "sync" => flush'.st # "idle"
        /\ flush'.st # "inodes" => flush'.todo = {}
    BY DEF CoverInv, PassInv
  <2>2. bulk'.st = "sync" /\ flush'.st = "inodes" =>
           \A p \in Owners : p \in flush'.todo \/ Flushed(p)'
    BY <1>9 DEF CoverInv, PassInv
  <2>3. bulk'.st = "sync" /\ flush'.st = "volume" => \A p \in Owners : Flushed(p)'
    BY <1>9 DEF CoverInv, PassInv
  <2>4. bulk'.st = "synced" \/ (bulk'.st = "sync" /\ flush'.st = "header") =>
           \A p \in Owners : Flushed(p)' /\ Snapped(p)'
    BY <1>9 DEF CoverInv, PassInv
  <2>5. QED
    BY <1>10, <2>1, <2>2, <2>3, <2>4 DEF PassInv
<1>12. QED
  BY <1>3, <1>4, <1>5, <1>6, <1>7, <1>8, <1>11 DEF CoverInv

\* The frontend.
LEMMA WriteCover ==
    ASSUME TidInv, SpaceInv, CoverInv, NEW o \in Owners, NEW s \in Sizes,
           NEW off \in Offers(bmap, s, FALSE), Write(o, Extent(off, s))
    PROVE  CoverInv'
<1> DEFINE x == Extent(off, s)
           c == [at |-> x, tid |-> NextTid]
<1>1. TypeOK /\ GoodLeaf(bmap)
  BY DEF SpaceInv
<1>3. /\ Apart(x)
      /\ \A b \in Blocks : /\ b \in BlocksOf(x) => Allocated(bmap, x).bits[b] = Full
                           /\ Allocated(bmap, x).bits[b] \in {Full, bmap.bits[b]}
  BY <1>1, AllocatedGood
<1> HIDE DEF x
<1>4. /\ bmap' = Allocated(bmap, x) /\ vchain' \in {vchain, VoldataModified}
      /\ chain' = [chain EXCEPT ![o] = c]
      /\ update' = update \cup {o}
      /\ UNCHANGED <<voldata, volsync, header, flush, bulk, early>>
  BY DEF Write, x
<1>5. c.at = x /\ c.tid = NextTid
  OBVIOUS
<1> HIDE DEF c
<1>6. Taken(bmap', c.at)
  <2>1. BlocksOf(x) \subseteq Blocks
    BY <1>3, PlacedBlocks DEF Apart
  <2>2. QED
    BY <1>3, <1>4, <1>5, <2>1 DEF Taken
<1>7. vchain'.modified = vchain.modified \/ vchain'.modified = TRUE
  BY <1>1, <1>4, ModifiedIs
<1>8. /\ \A b \in Blocks : bmap'.bits[b] \in {Full, bmap.bits[b]}
      /\ c.tid = NextTid \/ c = chain[o]
      /\ c.at \in {Nowhere, chain[o].at} \/ Taken(bmap', c.at)
      /\ o \in update' \/ c = chain[o]
      /\ update \subseteq update'
  BY <1>3, <1>4, <1>5, <1>6
<1>9. QED
  BY <1>1, <1>4, <1>7, <1>8, ChainCover

\* A chain that is modified again or deleted, or ENOSPC.
LEMMA FrontendCover ==
    ASSUME TidInv, SpaceInv, CoverInv, NEW o \in Owners,
           \/ \E s \in Sizes : WriteFails(o, s)
           \/ Rewrite(o) \/ Delete(o)
    PROVE  CoverInv'
<1>1. TypeOK /\ GoodLeaf(bmap) /\ chain \in [Owners -> Brefs]
  BY TypeFacts DEF SpaceInv
<1>3. ASSUME NEW s \in Sizes, WriteFails(o, s)
      PROVE  CoverInv'
  <2>1. /\ bmap'.bits = bmap.bits
        /\ UNCHANGED <<chain, update, vchain, voldata, volsync, header, flush,
                       bulk, early>>
    BY <1>1, <1>3, ExhaustedGood DEF WriteFails
  <2>2. chain' = [chain EXCEPT ![o] = chain[o]]
    BY <1>1, <2>1
  <2>3. QED
    BY <1>1, <2>1, <2>2, ChainCover
<1>4. CASE Delete(o)
  <2> DEFINE c == [at |-> Nowhere, tid |-> NextTid]
  <2>1. /\ chain' = [chain EXCEPT ![o] = c]
        /\ update' = update \cup {o}
        /\ UNCHANGED <<bmap, vchain, voldata, volsync, header, flush, bulk, early>>
    BY <1>4 DEF Delete
  <2>2. c.at = Nowhere /\ c.tid = NextTid
    OBVIOUS
  <2> HIDE DEF c
  <2>3. QED
    BY <1>1, <2>1, <2>2, ChainCover
<1>5. CASE Rewrite(o)
  <2> DEFINE c == [chain[o] EXCEPT !.tid = NextTid]
  <2>1. /\ chain' = [chain EXCEPT ![o] = c]
        /\ UNCHANGED <<bmap, update, vchain, voldata, volsync, header, flush,
                       bulk, early>>
    BY <1>5 DEF Rewrite
  <2>2. c.at = chain[o].at /\ c.tid = NextTid
    BY <1>1 DEF Brefs
  <2> HIDE DEF c
  <2>3. CoverInv'
    <3>1. chain'[o] = c /\ \A p \in Owners : p # o => chain'[p] = chain[p]
      BY <1>1, <2>1
    <3>2. \A p \in Owners : chain'[p].at = chain[p].at
      BY <2>2, <3>1
    <3>3. \A p \in Owners : Covers(voldata', chain'[p])
      <4>1. Covers(voldata, c)
        BY <1>1, <2>2, NextIsNewer
      <4>2. QED
        BY <2>1, <3>1, <4>1 DEF CoverInv
    <3>4. Kept(bmap', chain')
      BY <2>1, <3>2 DEF CoverInv, Kept
    <3>5. \A p \in Owners : Flushed(p)' = Flushed(p) /\ Snapped(p)' = Snapped(p)
      BY <2>1, <3>2 DEF Flushed, Snapped
    <3>6. Spared(bulk', bmap', chain') <=> Spared(bulk, bmap, chain)
      BY <2>1, <3>2 DEF Spared
    <3>7. PassInv'
      BY <2>1, <3>5, <3>6 DEF CoverInv, PassInv
    <3>8. \A p \in Owners : p \notin update' => chain'[p].at = voldata'.top[p].at
      BY <2>1, <3>2 DEF CoverInv
    <3>9. QED
      BY <2>1, <3>3, <3>4, <3>7, <3>8 DEF CoverInv
  <2>4. QED
    BY <2>3
<1>6. QED
  BY <1>3, <1>4, <1>5

\* The flush of an inode: what its chain refers to, the volume now does.
LEMMA OwnerCover ==
    ASSUME TidInv, SpaceInv, CoverInv, NEW o \in Owners, FlushOwner(o)
    PROVE  CoverInv'
<1>1. TypeOK
  BY DEF SpaceInv
<1>2. /\ voldata'.top = [voldata.top EXCEPT ![o] = chain[o]]
      /\ voldata'.leaf = voldata.leaf
      /\ voldata'.freemap_tid = voldata.freemap_tid
      /\ vchain'.modified = TRUE
      /\ flush'.st = flush.st /\ flush'.todo = flush.todo \ {o}
  BY <1>1, OwnerFlushed
<1>3. /\ update' = update \ {o}
      /\ UNCHANGED <<bmap, chain, volsync, header, bulk, early>>
  BY DEF FlushOwner
<1>4. voldata.top \in [Owners -> Brefs]
  BY <1>1, TypeFacts, VolumeFacts
<1>5. /\ voldata'.top[o] = chain[o]
      /\ \A p \in Owners : p # o => voldata'.top[p] = voldata.top[p]
  BY <1>2, <1>4
<1>6. \A bref : Covers(voldata', bref) <=> Covers(voldata, bref)
  BY <1>2 DEF Covers
<1>7. \A p \in Owners : /\ Covers(voldata', voldata'.top[p])
                        /\ Covers(voldata', chain'[p])
                        /\ Covers(volsync', volsync'.top[p])
                        /\ Covers(header', header'.top[p])
  <2>1. \A p \in Owners : voldata'.top[p] \in {chain[p], voldata.top[p]}
    BY <1>5
  <2>2. QED
    BY <1>3, <1>6, <2>1 DEF CoverInv
<1>8. Kept(bmap', voldata'.top)
  BY <1>3, <1>5 DEF CoverInv, Kept
<1>9. ASSUME Spared(bulk, bmap, chain), Spared(bulk, bmap, voldata.top)
      PROVE  Spared(bulk', bmap', voldata'.top)
  BY <1>3, <1>5, <1>9 DEF Spared
<1>10. ASSUME NEW p \in Owners
       PROVE  /\ Flushed(p) => Flushed(p)'
              /\ Flushed(p) /\ Snapped(p) => Snapped(p)'
              /\ p = o => Flushed(p)'
  <2>1. CASE p = o
    BY <1>3, <1>5, <2>1 DEF Flushed, Snapped
  <2>2. CASE p # o
    BY <1>3, <1>5, <2>2 DEF Flushed, Snapped
  <2>3. QED
    BY <2>1, <2>2
<1>11. PassInv'
  <2>1. /\ bulk'.st = "sync" => flush'.st # "idle"
        /\ flush'.st # "inodes" => flush'.todo = {}
    BY <1>2, <1>3 DEF CoverInv, PassInv
  <2>2. bulk'.st = "sync" /\ flush'.st = "inodes" =>
           \A p \in Owners : p \in flush'.todo \/ Flushed(p)'
    BY <1>2, <1>3, <1>10 DEF CoverInv, PassInv
  <2>3. bulk'.st = "sync" /\ flush'.st = "volume" => \A p \in Owners : Flushed(p)'
    BY <1>2, <1>3, <1>10 DEF CoverInv, PassInv
  <2>4. bulk'.st = "synced" \/ (bulk'.st = "sync" /\ flush'.st = "header") =>
           \A p \in Owners : Flushed(p)' /\ Snapped(p)'
    BY <1>2, <1>3, <1>10 DEF CoverInv, PassInv
  <2>5. bulk'.st = "scanned" =>
          /\ Spared(bulk', bmap', chain') /\ Spared(bulk', bmap', voldata'.top)
          /\ Spared(bulk', bmap', volsync'.top)
          /\ early' \/ Spared(bulk', bmap', header'.top)
    BY <1>3, <1>9 DEF CoverInv, PassInv
  <2>6. QED
    BY <2>1, <2>2, <2>3, <2>4, <2>5 DEF PassInv
<1>12. \A p \in Owners : p \notin update' => chain'[p].at = voldata'.top[p].at
  BY <1>3, <1>5 DEF CoverInv
<1>13. QED
  BY <1>2, <1>3, <1>7, <1>8, <1>11, <1>12 DEF CoverInv

\* A flush begins with every inode that differs from the volume in its list.
LEMMA BeginCover ==
    ASSUME CoverInv, FlushBegin \/ BulkSync
    PROVE  CoverInv'
<1>1. /\ UNCHANGED <<bmap, chain, update, voldata, vchain, volsync, header, early>>
      /\ flush.st = "idle" /\ flush'.st = "inodes" /\ flush'.todo = update
      /\ \/ bulk' = bulk
         \/ bulk.st = "idle" /\ bulk'.st = "sync"
  BY DEF FlushBegin, BulkSync, StartFlush, NoFlush, Idle
<1>2. \A o \in Owners : o \in flush'.todo \/ Flushed(o)
  BY <1>1 DEF CoverInv, Flushed
<1>3. \A o \in Owners : Flushed(o)' = Flushed(o) /\ Snapped(o)' = Snapped(o)
  BY <1>1 DEF Flushed, Snapped
<1>4. PassInv'
  <2>1. CASE bulk' = bulk
    BY <1>1, <1>3, <2>1 DEF CoverInv, PassInv
  <2>2. CASE bulk'.st = "sync"
    BY <1>1, <1>2, <1>3, <2>2 DEF PassInv
  <2>3. QED
    BY <1>1, <2>1, <2>2
<1>5. QED
  BY <1>1, <1>4 DEF CoverInv

\* The flush of fchain: the freemap of the memory becomes the volume's.
LEMMA FreemapCover ==
    ASSUME TidInv, SpaceInv, CoverInv, FlushFreemap
    PROVE  CoverInv'
<1>1. TypeOK
  BY DEF SpaceInv
<1>2. /\ UNCHANGED <<bmap, chain, update, volsync, header, bulk, early>>
      /\ flush.st = "inodes" /\ flush.todo = {}
      /\ flush'.st = "volume" /\ flush'.todo = {}
  BY DEF FlushFreemap, Now
<1>3. /\ voldata'.top = voldata.top
      /\ \/ voldata' = voldata /\ vchain' = vchain
         \/ voldata'.leaf = bmap /\ vchain'.modified = TRUE
  <2>1. CASE leafDirty
    BY <1>1, <2>1, FreemapFlushed, ModifiedIs
  <2>2. CASE ~leafDirty
    BY <2>2 DEF FlushFreemap
  <2>3. QED
    BY <2>1, <2>2
<1>4. \A o \in Owners : Covers(voldata', voldata'.top[o]) /\ Covers(voldata', chain'[o])
  <2>1. CASE voldata' = voldata
    BY <1>2, <2>1 DEF CoverInv
  <2>2. CASE voldata'.leaf = bmap
    BY <1>2, <1>3, <2>2 DEF CoverInv, Kept, Covers
  <2>3. QED
    BY <1>3, <2>1, <2>2
<1>5. \A o \in Owners : Flushed(o)' = Flushed(o) /\ Snapped(o)' = Snapped(o)
  BY <1>2, <1>3 DEF Flushed, Snapped
<1>6. PassInv'
  BY <1>2, <1>3, <1>5 DEF CoverInv, PassInv
<1>7. QED
  BY <1>2, <1>3, <1>4, <1>6 DEF CoverInv

\* The flush of vchain: the volume of the memory becomes the snapshot.
LEMMA VolumeCover ==
    ASSUME TidInv, SpaceInv, CoverInv, FlushVolume
    PROVE  CoverInv'
<1>1. TypeOK
  BY DEF SpaceInv
<1>2. /\ UNCHANGED <<bmap, chain, update, header, bulk, early>>
      /\ flush.st = "volume" /\ flush.todo = {}
      /\ flush'.st = "header" /\ flush'.todo = {}
  BY DEF FlushVolume, Now
<1>3. /\ voldata'.top = voldata.top /\ voldata'.leaf = voldata.leaf
      /\ voldata'.freemap_tid = voldata.freemap_tid /\ volsync' = voldata'
  <2>1. CASE vchain.modified
    <3>1. voldata' = Synced /\ volsync' = Synced
      BY <2>1 DEF FlushVolume
    <3>2. QED
      BY <1>1, <3>1, VolSynced
  <2>2. CASE ~vchain.modified
    BY <2>2 DEF FlushVolume, CoverInv
  <2>3. QED
    BY <2>1, <2>2
<1>4. \A bref : /\ Covers(voldata', bref) <=> Covers(voldata, bref)
                /\ Covers(volsync', bref) <=> Covers(voldata, bref)
  BY <1>3 DEF Covers
<1>5. \A o \in Owners : /\ Covers(voldata', voldata'.top[o])
                        /\ Covers(voldata', chain'[o])
                        /\ Covers(volsync', volsync'.top[o])
                        /\ Covers(header', header'.top[o])
  BY <1>2, <1>3, <1>4 DEF CoverInv
<1>6. \A o \in Owners : Flushed(o)' = Flushed(o) /\ Snapped(o)'
  BY <1>2, <1>3 DEF Flushed, Snapped
<1>7. bulk.st = "sync" \/ bulk.st = "synced" => \A o \in Owners : Flushed(o)
  BY <1>2 DEF CoverInv, PassInv
<1>8. bulk'.st = "scanned" =>
        /\ Spared(bulk', bmap', chain') /\ Spared(bulk', bmap', voldata'.top)
        /\ Spared(bulk', bmap', volsync'.top)
        /\ early' \/ Spared(bulk', bmap', header'.top)
  BY <1>2, <1>3 DEF CoverInv, PassInv
<1>9. PassInv'
  BY <1>2, <1>6, <1>7, <1>8 DEF PassInv
<1>10. QED
  BY <1>2, <1>3, <1>5, <1>9 DEF CoverInv

\* The header's own write, or its failure.
LEMMA HeaderCover ==
    ASSUME SpaceInv, CoverInv, WriteHeader \/ HeaderFails
    PROVE  CoverInv'
<1>1. /\ UNCHANGED <<bmap, chain, update, voldata, vchain, volsync, early>>
      /\ flush.st = "header" /\ flush'.st = "idle" /\ flush'.todo = {}
      /\ header' \in {volsync, header}
      /\ \/ bulk.st = "sync" /\ bulk'.st = "synced"
         \/ bulk.st # "sync" /\ bulk' = bulk
  BY DEF WriteHeader, HeaderFails, FlushDone, NoFlush, Now
<1>2. \A o \in Owners : Flushed(o)' = Flushed(o) /\ Snapped(o)' = Snapped(o)
  BY <1>1 DEF Flushed, Snapped
<1>3. \A o \in Owners : Covers(header', header'.top[o])
  BY <1>1 DEF CoverInv
<1>4. early' \/ Kept(bmap', header'.top)
  BY <1>1 DEF CoverInv
<1>5. PassInv'
  <2>1. CASE bulk.st = "sync" /\ bulk'.st = "synced"
    BY <1>1, <1>2, <2>1 DEF CoverInv, PassInv
  <2>2. CASE bulk.st # "sync" /\ bulk' = bulk
    BY <1>1, <1>2, <2>2 DEF CoverInv, PassInv
  <2>3. QED
    BY <1>1, <2>1, <2>2
<1>6. QED
  BY <1>1, <1>3, <1>4, <1>5 DEF CoverInv

\* The scan of volsync sees what is used, but for what has all its bits.
LEMMA ScanCover ==
    ASSUME SpaceInv, CoverInv, BulkScan
    PROVE  CoverInv'
<1>1. PICK l \in ScanLinears(StoredIn(volsync.top)) :
         bulk' = [st |-> "scanned", bits |-> ScanBits(Scanned(volsync.top)),
                  linear |-> l]
  BY DEF BulkScan
<1>2. /\ UNCHANGED <<bmap, chain, update, voldata, vchain, volsync, header, flush>>
      /\ bulk.st = "synced" /\ bulk'.st = "scanned"
      /\ early' = (early \/ volsync # header)
      /\ bulk'.bits = ScanBits(Scanned(volsync.top)) /\ bulk'.linear = l
  BY <1>1 DEF BulkScan
<1>3. \A x \in StoredIn(volsync.top) : \A b \in BlocksOf(x) : bulk'.bits[b] = Full
  BY <1>2, ScanGood DEF SpaceInv, GoodVolume
<1>4. \A o \in Owners : volsync.top[o].at # Nowhere =>
         \A b \in BlocksOf(volsync.top[o].at) : bulk'.bits[b] = Full
  BY <1>3, StoredIs
<1>5. Spared(bulk', bmap, volsync.top)
  BY <1>4 DEF Spared
<1>6. \A o \in Owners : Flushed(o) /\ Snapped(o)
  BY <1>2 DEF CoverInv, PassInv
<1>7. Spared(bulk', bmap, voldata.top)
  BY <1>4, <1>6 DEF Spared, Snapped, Taken
<1>8. Spared(bulk', bmap, chain)
  BY <1>6, <1>7 DEF Spared, Flushed, Taken
<1>9. early' \/ volsync = header
  BY <1>2
<1>10. /\ early' \/ Spared(bulk', bmap, header.top)
       /\ early' \/ Kept(bmap, header.top)
  BY <1>5, <1>9 DEF CoverInv
<1>11. PassInv'
  BY <1>2, <1>5, <1>7, <1>8, <1>10 DEF CoverInv, PassInv
<1>12. QED
  BY <1>2, <1>10, <1>11 DEF CoverInv

\* The merge stages or frees only what nothing refers to.
LEMMA MergeCover ==
    ASSUME TidInv, SpaceInv, CoverInv, BulkMerge
    PROVE  CoverInv'
<1>1. /\ TypeOK /\ GoodLeaf(bmap) /\ bulk \in BulkStates
      /\ GoodTop(chain) /\ GoodTop(voldata.top) /\ GoodTop(volsync.top)
      /\ GoodTop(header.top)
  BY DEF SpaceInv, GoodVolume, TypeOK, BulkStates
<1>2. /\ bulk.st = "scanned" /\ bulk'.st = "idle"
      /\ UNCHANGED <<chain, update, voldata, volsync, header, flush, early>>
      /\ \/ bmap' = bmap /\ vchain' = vchain
         \/ bmap' = Merged(bmap, bulk) /\ vchain' = VoldataModified
  BY DEF BulkMerge, Idle
<1>3. GoodScan(bulk)
  BY <1>1, <1>2, BulkFacts DEF SpaceInv, GoodScan
<1>4. \A b \in Blocks : bmap'.bits[b] = bmap.bits[b]
                        \/ bmap'.bits[b] = NextStage(bmap.bits[b], bulk.bits[b])
  BY <1>1, <1>2, <1>3, MergedGood
<1>5. ASSUME NEW top, GoodTop(top), Kept(bmap, top), Spared(bulk, bmap, top)
      PROVE  Kept(bmap', top)
  <2> SUFFICES ASSUME NEW o \in Owners, top[o].at # Nowhere, Finds(top[o].at),
                      NEW b \in BlocksOf(top[o].at)
               PROVE  bmap'.bits[b] # Free
    BY DEF Kept, NotFree
  <2>1. b \in Blocks
    BY <1>5, PlacedBlocks DEF GoodTop, Apart
  <2>2. bmap.bits[b] # Free /\ (bulk.bits[b] = Full \/ bmap.bits[b] = Full)
    BY <1>5 DEF Kept, NotFree, Spared
  <2>3. NextStage(bmap.bits[b], bulk.bits[b]) # Free
    BY <2>2 DEF NextStage, Full, Staged, Free
  <2>4. QED
    BY <1>4, <2>1, <2>2, <2>3
<1>6. /\ Kept(bmap', chain) /\ Kept(bmap', voldata.top) /\ Kept(bmap', volsync.top)
      /\ early \/ Kept(bmap', header.top)
  BY <1>1, <1>2, <1>5 DEF CoverInv, PassInv
<1>7. ~vchain'.modified => volsync' = voldata'
  <2>1. VoldataModified.modified = TRUE
    BY <1>1, ModifiedIs
  <2>2. QED
    BY <1>2, <2>1 DEF CoverInv
<1>8. PassInv'
  BY <1>2 DEF CoverInv, PassInv
<1>9. QED
  BY <1>2, <1>6, <1>7, <1>8 DEF CoverInv

\* After a crash the entries newer than the freemap are what recovery marks.
LEMMA CrashCover ==
    ASSUME SpaceInv, CoverInv, Crash
    PROVE  CoverInv'
<1>1. /\ bmap' = Recovered(header)
      /\ chain' = header.top /\ voldata' = header /\ volsync' = header
      /\ header' = header /\ update' = {}
      /\ flush'.st = "idle" /\ flush'.todo = {} /\ bulk'.st = "idle"
  BY DEF Crash, NoFlush, Idle
<1>2. Kept(bmap', header.top)
  <2> SUFFICES ASSUME NEW o \in Owners, header.top[o].at # Nowhere,
                      Finds(header.top[o].at)
               PROVE  NotFree(Recovered(header), header.top[o].at)
    BY <1>1 DEF Kept
  <2>1. GoodVolume(header)
    BY DEF SpaceInv
  <2>2. /\ header.top[o].tid \in Nat /\ header.freemap_tid \in Nat
        /\ BlocksOf(header.top[o].at) \subseteq Blocks
    BY <2>1, VolumeFacts, RecoveryAssumption, PlacedBlocks
    DEF GoodVolume, GoodTop, Apart, Brefs, Tids
  <2>3. CASE header.top[o].tid > header.freemap_tid
    BY <2>1, <2>3, RecoveredGood, TakenIsNotFree
  <2>4. CASE header.top[o].tid <= header.freemap_tid
    <3>1. NotFree(header.leaf, header.top[o].at)
      BY <2>4 DEF CoverInv, Covers
    <3>2. \A b \in Blocks : Recovered(header).bits[b] \in {Full, header.leaf.bits[b]}
      BY <2>1, RecoveredGood
    <3>3. QED
      BY <2>2, <3>1, <3>2 DEF NotFree, Full, Free
  <2>5. QED
    BY <2>2, <2>3, <2>4
<1>3. \A o \in Owners : Covers(header, header.top[o])
  BY DEF CoverInv
<1>4. PassInv'
  BY <1>1 DEF PassInv
<1>5. QED
  BY <1>1, <1>2, <1>3, <1>4 DEF CoverInv

\* Every step keeps what is in use allocated.
LEMMA CoverStep ==
    ASSUME TidInv, SpaceInv, CoverInv, [Next]_vars
    PROVE  CoverInv'
<1>1. CASE UNCHANGED vars
  BY <1>1 DEF CoverInv, PassInv, Flushed, Snapped, vars
<1>2. QED
  BY <1>1, StepIs, WriteCover, FrontendCover, OwnerCover, BeginCover,
     FreemapCover, VolumeCover, HeaderCover, ScanCover, MergeCover, CrashCover

-----------------------------------------------------------------------------
(* The theorems.                                                             *)

\* The inductive invariant holds in every reachable state, whatever the
\* geometry of the bitmap (every step of the flush, of bulkfree and of a crash).
THEOREM Invariance == Spec => []Inv
<1>1. Init => Inv
  BY InitSpace, InitCover DEF Inv
<1>2. Inv /\ [Next]_vars => Inv'
  BY TidStep, SpaceStep, CoverStep DEF Inv, SpaceInv
<1>3. QED
  BY <1>1, <1>2, PTL DEF Spec

\* The bits of x are found by the next recovery, or it is in InUse.
Reached(x) == x \in Pinned \/ Finds(x)

\* What hammer2_freemap_adjust can find of the newest header's topology is
\* allocated after a crash now.
ReachedCovered ==
    \A x \in Scanned(header.top) : Reached(x) =>
        \A b \in BlocksOf(x) : Recovered(header).bits[b] # Free

\* ... and is allocated in memory too, unless bulkfree scanned a volsync that
\* was not on the media.
ReachedNotFree ==
    ~early => \A x \in OnMedia : Reached(x) => NotFree(bmap, x)

\* A recovery right after a crash allocates what it finds, and leaves InUse so.
LEMMA HeaderCovered == Inv => ReachedCovered
<1> SUFFICES ASSUME Inv, NEW x \in Scanned(header.top), Reached(x),
                    NEW b \in BlocksOf(x)
             PROVE  Recovered(header).bits[b] # Free
  BY DEF ReachedCovered
<1>1. GoodVolume(header)
  BY DEF Inv, SpaceInv
<1>2. CASE x \in Pinned
  <2>1. b \in InUse
    BY <1>2, PinnedBlock
  <2>2. QED
    BY <1>1, <2>1, RecoveredGood DEF GoodLeaf
<1>3. CASE x \notin Pinned
  <2>1. Finds(x) /\ x # Nowhere
    BY <1>3, StoredIs DEF Reached, Scanned
  <2>2. PICK o \in Owners : x = header.top[o].at
    BY <1>3, StoredIs DEF Scanned
  <2>3. /\ header.top[o].tid \in Nat /\ header.freemap_tid \in Nat
        /\ BlocksOf(x) \subseteq Blocks
    BY <1>1, <2>1, <2>2, VolumeFacts, RecoveryAssumption, PlacedBlocks
    DEF GoodVolume, GoodTop, Apart, Brefs, Tids
  <2>4. CASE header.top[o].tid > header.freemap_tid
    BY <1>1, <2>1, <2>2, <2>4, RecoveredGood, TakenIsNotFree DEF NotFree
  <2>5. CASE header.top[o].tid <= header.freemap_tid
    <3>1. NotFree(header.leaf, x)
      BY <2>1, <2>2, <2>5 DEF Inv, CoverInv, Covers
    <3>2. Recovered(header).bits[b] \in {Full, header.leaf.bits[b]}
      BY <1>1, <2>3, RecoveredGood
    <3>3. QED
      BY <3>1, <3>2 DEF NotFree, Full, Free
  <2>6. QED
    BY <2>3, <2>4, <2>5
<1>4. QED
  BY <1>2, <1>3

\* The bitmap of the memory has what the media refers to.
LEMMA MediaCovered == Inv => ReachedNotFree
<1> SUFFICES ASSUME Inv, ~early, NEW x \in OnMedia, Reached(x)
             PROVE  NotFree(bmap, x)
  BY DEF ReachedNotFree
<1>1. CASE x \in Pinned
  <2>1. \A b \in BlocksOf(x) : b \in InUse
    BY <1>1, PinnedBlock
  <2>2. QED
    BY <2>1 DEF Inv, SpaceInv, GoodLeaf, NotFree
<1>2. CASE x \notin Pinned
  <2>1. Finds(x) /\ x # Nowhere
    BY <1>2, StoredIs DEF Reached, OnMedia, Scanned
  <2>2. PICK o \in Owners : x = header.top[o].at
    BY <1>2, StoredIs DEF OnMedia, Scanned
  <2>3. Kept(bmap, header.top)
    BY DEF Inv, CoverInv
  <2>4. QED
    BY <2>1, <2>2, <2>3 DEF Kept
<1>3. QED
  BY <1>1, <1>2

\* No block that files come to use has its number cut by hammer2_freemap_adjust,
\* which tells apart only the first AdjustBlocks blocks of an element.
RecoveryReaches ==
    \A b \in Blocks \ InUse : b % AdjustBlocks = b % PerElement

\* Then recovery finds every extent that is stored.
LEMMA AllFound ==
    ASSUME RecoveryReaches, NEW x, Apart(x)
    PROVE  Finds(x)
<1> DEFINE b == BlockOf(x.off)
<1>1. b \in Blocks /\ b \notin InUse
  BY PlacedBlocks DEF Apart
<1>2. b \in Nat /\ PerElement \in Nat \ {0}
  BY <1>1, FreemapAssumption DEF Blocks
<1>3. b % AdjustBlocks = b % PerElement
  BY <1>1 DEF RecoveryReaches
<1> HIDE DEF b
<1>4. PerElement * (b \div PerElement) + (b % PerElement) = b
  BY <1>2, DivMod
<1>5. (b \div PerElement) * PerElement = PerElement * (b \div PerElement)
  <2>1. b \div PerElement \in Nat
    BY <1>2, DivMod
  <2>2. QED
    BY <1>2, <2>1
<1>6. (b \div PerElement) * PerElement + (b % AdjustBlocks) = b
  BY <1>3, <1>4, <1>5
<1>7. QED
  BY <1>6 DEF Finds, AdjustTargets, BlocksOf, b

\* Then every extent of a topology is reached.
LEMMA AllReached ==
    ASSUME RecoveryReaches, NEW top, GoodTop(top), NEW x \in Scanned(top)
    PROVE  Reached(x)
  BY StoredIs, AllFound DEF Scanned, Reached

\* The records and stages stay in range, through every recovery: no transaction
\* id passes the bound of the volume's.
THEOREM TypeCorrect == Spec => []TypeOK
  BY Invariance, PTL DEF Inv, SpaceInv

\* voldata.allocator_free's source, avail, counts the free blocks of the bitmap
\* in memory, after allocations, merges and recoveries.
THEOREM AvailIsExact == Spec => []AvailExact
<1>1. Inv => AvailExact
  BY DEF Inv, SpaceInv, GoodLeaf, Exact, AvailExact
<1>2. QED
  BY <1>1, Invariance, PTL

\* Wherever a crash comes, the next mount (hammer2_recovery) has every block of
\* the topology that it can find marked allocated.
THEOREM ReachedIsCovered == Spec => [](ReachedCovered /\ ReachedNotFree)
<1>1. Inv => ReachedCovered /\ ReachedNotFree
  BY HeaderCovered, MediaCovered
<1>2. QED
  BY <1>1, Invariance, PTL

\* Where the recovery can find every block in use, all of the topology is
\* allocated after a crash.
THEOREM CrashIsCovered ==
    ASSUME RecoveryReaches
    PROVE  Spec => []CrashCovered
<1>1. Inv => CrashCovered
  <2> SUFFICES ASSUME Inv, NEW x \in Scanned(header.top), NEW b \in BlocksOf(x)
               PROVE  Recovered(header).bits[b] # Free
    BY DEF CrashCovered
  <2>1. Reached(x)
    BY AllReached DEF Inv, SpaceInv, GoodVolume
  <2>2. QED
    BY <2>1, HeaderCovered DEF ReachedCovered
<1>2. QED
  BY <1>1, Invariance, PTL

\* ... and nothing the header on the media refers to is free in memory, where
\* bulkfree has not scanned a volsync ahead of its header.
THEOREM SpaceIsRecovered ==
    ASSUME RecoveryReaches
    PROVE  Spec => []SpaceRecovered
<1>1. Inv => SpaceRecovered
  <2> SUFFICES ASSUME Inv
               PROVE  SpaceRecovered
    OBVIOUS
  <2>1. TypeOK /\ AvailExact
    BY DEF Inv, SpaceInv, GoodLeaf, Exact, AvailExact
  <2>2. \A x \in OnMedia : Reached(x)
    BY AllReached DEF Inv, SpaceInv, GoodVolume, OnMedia
  <2>3. SnapshotNotFree
    BY <2>2, MediaCovered DEF SnapshotNotFree, MediaNotFree, ReachedNotFree, NotFree
  <2>4. QED
    BY <2>1, <2>3 DEF SpaceRecovered
<1>2. QED
  BY <1>1, Invariance, PTL

\* Every header hammer2_vfs_sync writes has a higher mirror_tid than the one it
\* replaces, which is how a mount tells the newest.
THEOREM HeadersGrow == Spec => HeaderTidGrows
<1>1. Inv /\ [Next]_vars =>
         [header' # header => header'.mirror_tid > header.mirror_tid]_vars
  <2> SUFFICES ASSUME Inv, Next, header' # header
               PROVE  header'.mirror_tid > header.mirror_tid
    OBVIOUS
  <2>1. WriteHeader
    BY DEF Next, Frontend, Write, WriteFails, Rewrite, Delete, FlushOwner,
           FlushBegin, FlushFreemap, FlushVolume, HeaderFails, BulkSync, BulkScan,
           BulkMerge, Crash
  <2>2. pending /\ header' = volsync
    BY <2>1 DEF WriteHeader
  <2>3. QED
    BY <2>2 DEF Inv, TidInv
<1>2. QED
  BY <1>1, Invariance, PTL DEF Spec, HeaderTidGrows

\* What a new allocation of whole blocks takes is apart from what is allocated.
LEMMA WholeBlocksApart ==
    ASSUME NEW m, GoodLeaf(m), NEW s \in Sizes, ~IsFrag(s),
           NEW off \in Offers(m, s, FALSE), NEW y,
           y \in Pinned \/ (Placed(y) /\ NotFree(m, y))
    PROVE  UnitsOf(y) \cap UnitsOf(Extent(off, s)) = {}
<1> DEFINE x == Extent(off, s)
<1>1. Placed(x) /\ \A b \in BlocksOf(x) : m.bits[b] = Free
  BY OfferIs DEF GoodLeaf
<1> HIDE DEF x
<1> SUFFICES ASSUME NEW u \in UnitsOf(y), u \in UnitsOf(x)
             PROVE  FALSE
  BY DEF x
<1>2. m.bits[BlockOf(u)] = Free /\ u \in Offs
  BY <1>1, PlacedBlocks
<1>3. CASE y \in Pinned
  <2>1. PICK b \in InUse : y = [off |-> b * Units, size |-> Units]
    BY <1>3 DEF Pinned
  <2>2. b \in Nat /\ u \in Nat /\ Units \in Nat \ {0} /\ b * Units \in Nat
    BY <1>2, Geometry, RecoveryAssumption DEF Blocks, Offs
  <2>3. b * Units <= u /\ u < b * Units + Units
    BY <2>1, <2>2 DEF UnitsOf
  <2>4. BlockOf(u) = b
    BY <2>2, <2>3, UnitsOfBlock
  <2>5. QED
    BY <1>2, <2>4 DEF GoodLeaf
<1>4. CASE Placed(y) /\ NotFree(m, y)
  BY <1>2, <1>4, PlacedBlocks DEF NotFree
<1>5. QED
  BY <1>3, <1>4

\* hammer2_freemap_alloc of whole blocks never returns units that the header on
\* the media, a chain or a copy of the volume still refers to, across crashes,
\* recoveries and bulkfree passes.
THEOREM NothingIsOverwritten ==
    ASSUME RecoveryReaches, \A s \in Sizes : ~IsFrag(s)
    PROVE  Spec => NeverOverwrites
<1> DEFINE New == ~early => \A o \in Owners :
              chain'[o].at \notin {chain[o].at, header.top[o].at, Nowhere} =>
                 \A x \in OnMedia \cup StoredIn(chain) \cup StoredIn(voldata.top)
                            \cup StoredIn(volsync.top) :
                    UnitsOf(x) \cap UnitsOf(chain'[o].at) = {}
<1>1. ASSUME Inv, Next PROVE New
  <2> SUFFICES ASSUME ~early, NEW o \in Owners,
                      chain'[o].at \notin {chain[o].at, header.top[o].at, Nowhere},
                      NEW x \in OnMedia \cup StoredIn(chain) \cup StoredIn(voldata.top)
                                \cup StoredIn(volsync.top)
               PROVE  UnitsOf(x) \cap UnitsOf(chain'[o].at) = {}
    OBVIOUS
  <2>1. /\ TypeOK /\ GoodLeaf(bmap) /\ GoodTop(chain) /\ GoodTop(voldata.top)
        /\ GoodTop(volsync.top) /\ GoodTop(header.top) /\ chain \in [Owners -> Brefs]
        /\ Kept(bmap, chain) /\ Kept(bmap, voldata.top) /\ Kept(bmap, volsync.top)
        /\ Kept(bmap, header.top)
    BY <1>1, TypeFacts DEF Inv, SpaceInv, CoverInv, GoodVolume
  <2>2. PICK p \in Owners, s \in Sizes :
           \E off \in Offers(bmap, s, FALSE) : Write(p, Extent(off, s))
    <3>1. ~Crash
      BY DEF Crash
    <3>2. ~\E p \in Owners : Delete(p)
      BY <2>1 DEF Delete
    <3>3. ~\E p \in Owners : Rewrite(p)
      <4> SUFFICES ASSUME NEW p \in Owners, Rewrite(p)
                   PROVE  FALSE
        OBVIOUS
      <4>1. chain' = [chain EXCEPT ![p].tid = NextTid]
        BY DEF Rewrite
      <4>2. chain[p] \in Brefs
        BY <2>1
      <4>3. [chain[p] EXCEPT !.tid = NextTid].at = chain[p].at
        BY <4>2 DEF Brefs
      <4>4. QED
        BY <2>1, <4>1, <4>3
    <3>4. chain' # chain
      OBVIOUS
    <3>5. ~UNCHANGED chain
      BY <3>4
    <3>6. QED
      BY <1>1, <3>1, <3>2, <3>3, <3>5
      DEF Next, Frontend, WriteFails, FlushOwner, FlushBegin, FlushFreemap,
          FlushVolume, WriteHeader, HeaderFails, FlushDone, BulkSync, BulkScan,
          BulkMerge, Extent
  <2> PICK off \in Offers(bmap, s, FALSE) : Write(p, Extent(off, s))
    BY <2>2
  <2>3. chain'[o].at = Extent(off, s)
    <3>1. chain' = [chain EXCEPT ![p] = [at |-> Extent(off, s), tid |-> NextTid]]
      BY DEF Write
    <3>2. QED
      BY <2>1, <3>1
  <2>4. x \in Pinned \/ (Placed(x) /\ NotFree(bmap, x))
    <3>1. ASSUME NEW top, GoodTop(top), Kept(bmap, top), x \in StoredIn(top)
          PROVE  Placed(x) /\ NotFree(bmap, x)
      <4>1. PICK q \in Owners : x # Nowhere /\ x = top[q].at
        BY <3>1, StoredIs
      <4>2. Apart(x) /\ Finds(x)
        BY <3>1, <4>1, AllFound DEF GoodTop
      <4>3. QED
        BY <3>1, <4>1, <4>2 DEF Kept, Apart
    <3>2. QED
      BY <2>1, <3>1 DEF OnMedia, Scanned
  <2>5. QED
    BY <2>1, <2>3, <2>4, WholeBlocksApart
<1>2. Inv /\ [Next]_vars => [New]_vars
  BY <1>1
<1>3. QED
  BY <1>2, Invariance, PTL DEF Spec, NeverOverwrites
=============================================================================
