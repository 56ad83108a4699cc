------------------------------- MODULE Freemap -------------------------------
(***************************************************************************)
(* One bitmap of the free block table: the allocator of                    *)
(* hammer2_freemap.c and the merge of hammer2_bulkfree.c, as operators on  *)
(* a record.  Bulkfree and Recovery put them to work.                      *)
(*                                                                         *)
(* A bitmap (hammer2_bmap_data_t) covers 4 MB in 16 KB blocks, two bits    *)
(* per block: 00 free, 10 possibly free, 11 allocated.  It is divided into *)
(* 8 elements of 32 blocks.  An allocation smaller than a block takes the  *)
(* rest of a block that the linear iterator points into, or a free block.  *)
(* Offsets and sizes are counted in units (HAMMER2_ALLOC_MIN, 1 KB).       *)
(*                                                                         *)
(* The class of a bitmap and relaxed mode decide which of several bitmaps  *)
(* an allocation tries; with one bitmap, the last loop of                  *)
(* hammer2_freemap_alloc tries it whatever its class.                      *)
(*                                                                         *)
(* A definition Bug... is a plausible error in the one below it, for the   *)
(* mutation runs; nothing else uses it.                                    *)
(***************************************************************************)
EXTENDS Integers, FiniteSets, SequencesExt

CONSTANTS
    Elements,      \* elements of a bitmap (8)
    PerElement,    \* blocks of an element (32)
    Units,         \* units of a block (16)
    AdjustBlocks,  \* blocks hammer2_freemap_adjust tells apart (16)
    Sizes          \* sizes of allocations, powers of two of units (1..64)

ASSUME FreemapAssumption ==
    /\ {Elements, PerElement, Units, AdjustBlocks} \subseteq Nat \ {0}
    /\ Sizes \subseteq Nat \ {0} /\ IsFiniteSet(Sizes)
    /\ \A s \in Sizes : s < Units \/ s % Units = 0

Blocks == 0 .. Elements * PerElement - 1
SegSize == Elements * PerElement * Units
Offs == 0 .. SegSize - 1

Free == 0
Staged == 2
Full == 3

\* A bitmap, with the bigmask of its leaf's blockref: the sizes for which an
\* allocation may still succeed.  linear is the iterator.
Bmaps == [bits : [Blocks -> {Free, Staged, Full}], linear : 0..SegSize,
          avail : Int, bigmask : SUBSET Sizes]

\* What a blockref's data_off says: where the data is and how large it is.
Extents == [off : Offs, size : Sizes]

IsFrag(s) == s < Units
Span(s) == IF IsFrag(s) THEN 1 ELSE s \div Units
BlockOf(off) == off \div Units
BlocksOf(x) == BlockOf(x.off) .. BlockOf(x.off) + Span(x.size) - 1
UnitsOf(x) == x.off .. x.off + x.size - 1
UnitsIn(b) == b * Units .. (b + 1) * Units - 1
MidBlock(off) == off % Units # 0
RoundUp(off) == ((off + Units - 1) \div Units) * Units

FreeBlocks(bits) == {b \in Blocks : bits[b] = Free}

\* Where size s finds room by the element scan: whole free blocks, aligned.
Slots(bits, s) ==
    {b \in Blocks : /\ b % Span(s) = 0
                    /\ \A i \in 0 .. Span(s) - 1 :
                          b + i \in Blocks /\ bits[b + i] = Free}

-----------------------------------------------------------------------------
(* hammer2_freemap_try_alloc and hammer2_bmap_alloc                          *)

LinearFits(m, s) ==
    /\ MidBlock(m.linear) /\ (m.linear % Units) + s <= Units
    /\ m.linear < SegSize

\* The bigmask test and the availability test of try_alloc.
WorthTrying(m, s) ==
    /\ s \in m.bigmask
    /\ m.avail # 0 \/ (IsFrag(s) /\ MidBlock(m.linear))

\* The offsets an allocation of size s may return.  File data of a block or
\* more goes to the slot its file offset suggests, when that one is free.
Offers(m, s, isData) ==
    IF ~WorthTrying(m, s) THEN {}
    ELSE IF LinearFits(m, s) THEN {m.linear}
    ELSE LET slots == Slots(m.bits, s) IN
         {b * Units : b \in IF isData /\ ~IsFrag(s) THEN slots
                            ELSE {c \in slots : \A e \in slots : c <= e}}

Fill(bits, bs) == [b \in Blocks |-> IF b \in bs THEN Full ELSE bits[b]]

\* Space is accounted for in whole blocks, when a block stops being free.
BugCharge(m, bs) == Units * Cardinality(bs)
Charge(m, bs) == Units * Cardinality(bs \cap FreeBlocks(m.bits))

Iterator(m, x) == IF IsFrag(x.size) THEN x.off + x.size ELSE m.linear

Allocated(m, x) ==
    [bits |-> Fill(m.bits, BlocksOf(x)), linear |-> Iterator(m, x),
     avail |-> m.avail - Charge(m, BlocksOf(x)), bigmask |-> m.bigmask]

\* The scan of the last, relaxed loop found nothing.
Exhausted(m, s) == [m EXCEPT !.bigmask = m.bigmask \ {s}]

-----------------------------------------------------------------------------
(* hammer2_freemap_adjust(HAMMER2_FREEMAP_DORECOVER)                         *)

\* The bits it sets: the block number is cut to AdjustBlocks in the element.
AdjustTargets(x) ==
    LET b == BlockOf(x.off)
        first == (b \div PerElement) * PerElement + (b % AdjustBlocks)
    IN  first .. first + Span(x.size) - 1

Adjusted(m, x) ==
    LET bs == AdjustTargets(x) IN
    IF \A b \in bs : m.bits[b] = Full THEN m
    ELSE [bits |-> Fill(m.bits, bs), linear |-> 0,
          avail |-> m.avail - Charge(m, bs), bigmask |-> Sizes]

-----------------------------------------------------------------------------
(* Bulkfree: the bitmap a scan builds (h2_bulkfree_callback).                *)

ScanBits(found) ==
    [b \in Blocks |-> IF \E x \in found : b \in BlocksOf(x)
                      THEN Full ELSE Free]

\* linear collects the highest end of a fragment; a run of whole blocks that
\* the iterator points into moves it past them.
ScanLinear(l, x) ==
    LET end == x.off + x.size IN
    IF IsFrag(x.size) THEN IF l < end THEN end ELSE l
    ELSE IF x.off <= l /\ l < end THEN end ELSE l

\* The order of the scan is the order of the topology: any.
ScanEnd(order) ==
    LET linear[i \in 0..Len(order)] ==
            IF i = 0 THEN 0 ELSE ScanLinear(linear[i - 1], order[i])
    IN  linear[Len(order)]

ScanLinears(found) == {ScanEnd(order) : order \in SetToSeqs(found)}

-----------------------------------------------------------------------------
(* h2_bulkfree_sync and h2_bulkfree_sync_adjust: merge a scan into a bitmap. *)

\* bigmask_get: the sizes for which the bitmap has a free slot.
BigmaskOf(bits) == {s \in Sizes : Slots(bits, s) # {}}

InSync(m, scan) ==
    /\ m.bits = scan.bits
    /\ m.linear >= scan.linear
    /\ BigmaskOf(scan.bits) \subseteq m.bigmask

\* What a block becomes: found means allocated, otherwise one stage closer to
\* free.
BugNextStage(bit, found) == IF found = Full THEN Full ELSE Free
BugCountDown(bit, found) ==
    IF found = Full THEN Full ELSE IF bit = Free THEN Free ELSE bit - 1
NextStage(bit, found) ==
    IF found = Full THEN Full
    ELSE IF bit = Full THEN Staged ELSE Free

Freed(m, scan) ==
    {b \in Blocks : m.bits[b] = Staged /\ scan.bits[b] = Free}
Unstaged(m, scan) ==
    {b \in Blocks : m.bits[b] = Full /\ scan.bits[b] = Free}
Regained(m, scan) ==
    {b \in Blocks : m.bits[b] = Free /\ scan.bits[b] = Full}

AdjFree(m, scan) ==
    Units * (Cardinality(Freed(m, scan)) - Cardinality(Regained(m, scan)))

Within(n, lo, hi) == IF n < lo THEN lo ELSE IF n > hi THEN hi ELSE n

LastElement == {b \in Blocks : b \div PerElement = Elements - 1}

BugMergedLinear(m, scan, bits) ==
    IF \A b \in Blocks : bits[b] = Free THEN 0
    ELSE IF \E b \in LastElement : bits[b] # Free THEN SegSize
    ELSE m.linear

MergedLinear(m, scan, bits) ==
    IF \A b \in Blocks : bits[b] = Free THEN 0
    ELSE IF \E b \in LastElement : bits[b] # Free THEN SegSize
    ELSE IF m.linear < scan.linear /\ BlockOf(m.linear) = BlockOf(scan.linear)
         THEN scan.linear
    ELSE RoundUp(scan.linear)

BugMerged(m, scan) ==
    LET bits == [b \in Blocks |-> NextStage(m.bits[b], scan.bits[b])] IN
    [bits |-> bits, linear |-> MergedLinear(m, scan, bits),
     avail |-> Within(m.avail + AdjFree(m, scan), 0, SegSize),
     bigmask |-> m.bigmask]

Merged(m, scan) ==
    LET bits == [b \in Blocks |-> NextStage(m.bits[b], scan.bits[b])] IN
    [bits |-> bits, linear |-> MergedLinear(m, scan, bits),
     avail |-> IF FreeBlocks(bits) = Blocks THEN SegSize
               ELSE Within(m.avail + AdjFree(m, scan), 0, SegSize),
     bigmask |-> Sizes]
=============================================================================
