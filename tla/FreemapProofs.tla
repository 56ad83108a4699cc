----------------------------- MODULE FreemapProofs -----------------------------
(***************************************************************************)
(* Lemmas about the operators of Freemap: the arithmetic of units and      *)
(* blocks, what an allocation returns, the accounting of free blocks and   *)
(* the iterator a scan computes.  They hold for every geometry that        *)
(* FreemapAssumption allows; the proofs about Bulkfree cite them.          *)
(***************************************************************************)
EXTENDS Freemap, Counting, FunctionTheorems

-----------------------------------------------------------------------------
(* Numbers.                                                                  *)

\* A number is its quotient and its remainder.
LEMMA DivMod ==
    ASSUME NEW a \in Nat, NEW u \in Nat \ {0}
    PROVE  /\ a \div u \in Nat /\ a % u \in Nat /\ a % u < u
           /\ a = u * (a \div u) + (a % u)
  OBVIOUS

\* The quotient is the one number whose multiples enclose a.
LEMMA DivIs ==
    ASSUME NEW a \in Nat, NEW q \in Nat, NEW u \in Nat \ {0},
           q * u <= a, a < q * u + u
    PROVE  a \div u = q
<1>1. PICK r \in Nat : a = q * u + r /\ r < u
  OBVIOUS
<1>2. QED
  BY <1>1

\* Products and quotients of naturals: the units of a block, and back.
LEMMA TimesMono ==
    ASSUME NEW a \in Nat, NEW b \in Nat, NEW u \in Nat, a <= b
    PROVE  a * u <= b * u
  OBVIOUS

\* A later unit is in no earlier block (BlockOf).
LEMMA DivMono ==
    ASSUME NEW a \in Nat, NEW b \in Nat, NEW u \in Nat \ {0}, a <= b
    PROVE  a \div u <= b \div u
  OBVIOUS

\* A unit of the bitmap is in one of its blocks.
LEMMA DivLess ==
    ASSUME NEW a \in Nat, NEW n \in Nat, NEW u \in Nat \ {0}, a < n * u
    PROVE  a \div u < n
  OBVIOUS

\* The first unit of block q is in block q and starts it.
LEMMA DivOfTimes ==
    ASSUME NEW q \in Nat, NEW u \in Nat \ {0}
    PROVE  (q * u) \div u = q /\ (q * u) % u = 0
  OBVIOUS

\* Block b starts where block b - 1 ends.
LEMMA TimesPrev ==
    ASSUME NEW b \in Nat \ {0}, NEW u \in Nat
    PROVE  (b - 1) * u \in Nat /\ (b - 1) * u + u = b * u
<1>1. b - 1 \in Nat /\ b = (b - 1) + 1
  OBVIOUS
<1>2. ((b - 1) + 1) * u = (b - 1) * u + u
  BY <1>1
<1>3. QED
  BY <1>1, <1>2

\* The iterator of an empty bitmap is inside no block.
LEMMA ZeroMod ==
    ASSUME NEW u \in Nat \ {0}
    PROVE  0 % u = 0
  OBVIOUS

\* A remainder grows with its number until it wraps.
LEMMA RemainderGrows ==
    ASSUME NEW a \in Nat, NEW s \in Nat, NEW u \in Nat \ {0}, (a % u) + s < u
    PROVE  (a + s) % u = (a % u) + s /\ (a + s) \div u = a \div u
<1> DEFINE q == a \div u
           d == a % u
           t == a + s
<1>1. q \in Nat /\ d \in Nat /\ a = u * q + d
  BY DivMod
<1>2. q * u \in Nat /\ q * u = u * q
  BY <1>1
<1>3. t \in Nat /\ q * u <= t /\ t < q * u + u
  BY <1>1, <1>2
<1>4. t \div u = q
  BY <1>1, <1>3, DivIs
<1>5. t = u * q + (t % u) /\ t % u \in Nat
  BY <1>3, <1>4, DivMod
<1>6. QED
  <2> DEFINE p == u * q
             e == t % u
  <2>1. p \in Nat /\ a = p + d /\ t = p + e /\ e \in Nat /\ d \in Nat
    BY <1>1, <1>2, <1>5
  <2>2. t = a + s
    OBVIOUS
  <2> HIDE DEF p, e, d, t
  <2>3. e = d + s
    BY <2>1, <2>2
  <2>4. QED
    BY <2>3, <1>4 DEF e, d, t, q

\* A fragment that fills its block to the end leaves the iterator at a boundary.
LEMMA RemainderWraps ==
    ASSUME NEW a \in Nat, NEW s \in Nat, NEW u \in Nat \ {0}, (a % u) + s = u
    PROVE  (a + s) % u = 0
<1> DEFINE q == a \div u
           d == a % u
<1>1. q \in Nat /\ d \in Nat /\ a = u * q + d
  BY DivMod
<1>2. q * u \in Nat /\ q * u = u * q /\ (q + 1) * u = q * u + u /\ q + 1 \in Nat
  BY <1>1
<1>3. a + s = (q + 1) * u
  BY <1>1, <1>2
<1>4. QED
  BY <1>2, <1>3, DivOfTimes

\* Comparing the first units of two blocks compares the blocks.
LEMMA TimesCancel ==
    ASSUME NEW a \in Nat, NEW b \in Nat, NEW u \in Nat \ {0}, a * u <= b * u
    PROVE  a <= b
<1>1. a * u \in Nat /\ b * u \in Nat
  OBVIOUS
<1>2. (a * u) \div u <= (b * u) \div u
  BY <1>1, DivMono
<1>3. QED
  BY <1>2, DivOfTimes

\* The blocks a run of units lies in.
LEMMA DivInRun ==
    ASSUME NEW c \in Nat, NEW n \in Nat, NEW a \in Nat, NEW u \in Nat \ {0}
    PROVE  (c * u <= a /\ a < (c + n) * u) <=> (c <= a \div u /\ a \div u < c + n)
<1> DEFINE d == a \div u
<1>1. d \in Nat /\ d * u <= a /\ a < d * u + u
  BY DivMod
<1>2. ASSUME c * u <= a, a < (c + n) * u
      PROVE  c <= d /\ d < c + n
  <2>1. c + n \in Nat
    OBVIOUS
  <2>2. d < c + n
    BY <2>1, <1>2, DivLess
  <2>3. c * u \in Nat /\ (c * u) \div u = c
    BY DivOfTimes
  <2>4. c <= d
    BY <2>3, <1>2, DivMono
  <2>5. QED
    BY <2>2, <2>4
<1>3. ASSUME c <= d, d < c + n
      PROVE  c * u <= a /\ a < (c + n) * u
  <2>1. c * u <= d * u
    BY <1>1, <1>3, TimesMono
  <2>2. d + 1 \in Nat /\ c + n \in Nat /\ d + 1 <= c + n
    BY <1>1, <1>3
  <2>3. (d + 1) * u <= (c + n) * u
    BY <2>2, TimesMono
  <2>4. (d + 1) * u = d * u + u
    BY <1>1
  <2>5. c * u \in Nat /\ d * u \in Nat /\ (c + n) * u \in Nat
    BY <1>1
  <2>6. QED
    BY <2>1, <2>3, <2>4, <2>5, <1>1
<1>4. QED
  BY <1>2, <1>3

-----------------------------------------------------------------------------
(* Blocks and units.                                                         *)

\* The numbers of blocks and of units.
LEMMA Geometry ==
    /\ Units \in Nat \ {0} /\ Elements * PerElement \in Nat \ {0}
    /\ SegSize = (Elements * PerElement) * Units /\ SegSize \in Nat
    /\ \A s \in Sizes : s \in Nat \ {0}
    /\ SegSize % Units = 0
<1>1. /\ Units \in Nat \ {0} /\ Elements \in Nat \ {0} /\ PerElement \in Nat \ {0}
      /\ \A s \in Sizes : s \in Nat \ {0}
  BY FreemapAssumption
<1>2. Elements * PerElement \in Nat \ {0}
  BY <1>1
<1>3. SegSize = (Elements * PerElement) * Units /\ SegSize \in Nat
  BY <1>1, <1>2 DEF SegSize
<1>4. QED
  BY <1>1, <1>2, <1>3, DivOfTimes

\* The block of a unit of the bitmap is one of its blocks.
LEMMA BlockOfUnit ==
    ASSUME NEW u \in Offs
    PROVE  BlockOf(u) \in Blocks
<1>1. u \in Nat /\ u < (Elements * PerElement) * Units
  BY Geometry DEF Offs
<1>2. BlockOf(u) < Elements * PerElement /\ BlockOf(u) \in Nat
  BY <1>1, Geometry, DivLess, DivMod DEF BlockOf
<1>3. QED
  BY <1>2, Geometry DEF Blocks

\* Where the units of a block are.
LEMMA UnitsOfBlock ==
    ASSUME NEW b \in Nat, NEW u \in Nat
    PROVE  BlockOf(u) = b <=> (b * Units <= u /\ u < b * Units + Units)
<1>1. ASSUME BlockOf(u) = b
      PROVE  b * Units <= u /\ u < b * Units + Units
  <2>1. u = Units * b + (u % Units) /\ u % Units \in Nat /\ u % Units < Units
    BY <1>1, DivMod, Geometry DEF BlockOf
  <2>2. QED
    BY <2>1, Geometry
<1>2. QED
  BY <1>1, DivIs, Geometry DEF BlockOf

\* An extent as the allocator makes them: inside one block, or whole blocks
\* of the bitmap.
Placed(x) ==
    /\ x \in Extents
    /\ IF IsFrag(x.size) THEN (x.off % Units) + x.size <= Units
       ELSE x.off % Units = 0 /\ x.off + x.size <= SegSize

\* A fragment is in the block its offset is in.
LEMMA PlacedFrag ==
    ASSUME NEW x, Placed(x), IsFrag(x.size)
    PROVE  /\ BlocksOf(x) = {BlockOf(x.off)} /\ BlockOf(x.off) \in Blocks
           /\ \A u \in UnitsOf(x) : u \in Offs /\ BlockOf(u) = BlockOf(x.off)
           /\ x.off + x.size <= BlockOf(x.off) * Units + Units
           /\ BlockOf(x.off) * Units <= x.off
<1> DEFINE c == BlockOf(x.off)
<1>1. x.off \in Offs /\ x.off \in Nat /\ x.size \in Nat \ {0}
  BY Geometry DEF Placed, Extents, Offs
<1>2. c \in Blocks /\ c \in Nat
  BY <1>1, BlockOfUnit DEF Blocks
<1>3. x.off = Units * c + (x.off % Units) /\ x.off % Units \in Nat
  BY <1>1, DivMod, Geometry DEF BlockOf
<1>4. x.off + x.size <= c * Units + Units /\ c * Units <= x.off
  BY <1>1, <1>2, <1>3, Geometry DEF Placed
<1>5. c * Units + Units <= SegSize
  <2>1. c + 1 <= Elements * PerElement
    BY <1>2, Geometry DEF Blocks
  <2>2. (c + 1) * Units <= (Elements * PerElement) * Units
    BY <2>1, <1>2, Geometry, TimesMono
  <2>3. QED
    BY <2>2, <1>2, Geometry
<1>6. ASSUME NEW u \in UnitsOf(x)
      PROVE  u \in Offs /\ BlockOf(u) = c
  <2>1. u \in Nat /\ c * Units <= u /\ u < c * Units + Units
    BY <1>1, <1>2, <1>4, Geometry DEF UnitsOf
  <2>2. QED
    BY <2>1, <1>2, <1>5, UnitsOfBlock, Geometry DEF Offs
<1>7. BlocksOf(x) = {c}
  BY <1>2 DEF BlocksOf, Span
<1>8. QED
  BY <1>2, <1>4, <1>6, <1>7

\* Whole blocks: so many from the first on, and exactly their units.
LEMMA PlacedRun ==
    ASSUME NEW x, Placed(x), ~IsFrag(x.size)
    PROVE  /\ BlocksOf(x) \subseteq Blocks /\ BlockOf(x.off) \in BlocksOf(x)
           /\ \A u \in Nat : u \in UnitsOf(x) <=> BlockOf(u) \in BlocksOf(x)
           /\ UnitsOf(x) \subseteq Offs
           /\ ~MidBlock(x.off) /\ ~MidBlock(x.off + x.size)
           /\ x.off + x.size <= SegSize
<1> DEFINE c == BlockOf(x.off)
           n == Span(x.size)
<1>1. x.off \in Offs /\ x.off \in Nat /\ x.size \in Sizes /\ x.size \in Nat \ {0}
  BY Geometry DEF Placed, Extents, Offs
<1>2. c \in Blocks /\ c \in Nat
  BY <1>1, BlockOfUnit DEF Blocks
<1>3. x.off = c * Units
  <2>1. x.off = Units * c + (x.off % Units)
    BY <1>1, DivMod, Geometry DEF BlockOf
  <2>2. QED
    BY <2>1, <1>2, Geometry DEF Placed
<1>4. n \in Nat /\ x.size = n * Units
  <2>1. x.size % Units = 0
    BY <1>1, FreemapAssumption DEF IsFrag
  <2>2. n \in Nat /\ x.size = Units * n + (x.size % Units)
    BY <1>1, DivMod, Geometry DEF Span
  <2>3. QED
    BY <2>1, <2>2, Geometry
<1>5. n >= 1
  BY <1>1, <1>4, Geometry
<1>6. x.off + x.size = (c + n) * Units
  BY <1>2, <1>3, <1>4, Geometry
<1>7. c + n <= Elements * PerElement
  <2>1. (c + n) * Units <= (Elements * PerElement) * Units
    BY <1>6, Geometry DEF Placed
  <2>2. c + n \in Nat
    BY <1>2, <1>4
  <2>3. QED
    BY <2>1, <2>2, TimesCancel, Geometry
<1>8. BlocksOf(x) = c .. c + n - 1
  BY DEF BlocksOf
<1>9. BlocksOf(x) \subseteq Blocks /\ c \in BlocksOf(x)
  BY <1>2, <1>4, <1>5, <1>7, <1>8, Geometry DEF Blocks
<1>10. ASSUME NEW u \in Nat
       PROVE  u \in UnitsOf(x) <=> BlockOf(u) \in BlocksOf(x)
  <2> DEFINE b == BlockOf(u)
  <2>1. b \in Nat
    BY DivMod, Geometry DEF BlockOf
  <2>2. u \in UnitsOf(x) <=> (x.off <= u /\ u < x.off + x.size)
    BY <1>1 DEF UnitsOf
  <2>4. u \in UnitsOf(x) <=> (c * Units <= u /\ u < (c + n) * Units)
    BY <2>2, <1>3, <1>6
  <2>5. b \in BlocksOf(x) <=> (c <= b /\ b < c + n)
    BY <1>2, <1>4, <1>8, <2>1
  <2>6. QED
    BY <2>4, <2>5, <1>2, <1>4, DivInRun, Geometry DEF BlockOf
<1>11. UnitsOf(x) \subseteq Offs
  BY <1>1, Geometry DEF UnitsOf, Offs, Placed
<1>12. ~MidBlock(x.off) /\ ~MidBlock(x.off + x.size)
  <2>1. c + n \in Nat
    BY <1>2, <1>4
  <2>2. (c * Units) % Units = 0 /\ ((c + n) * Units) % Units = 0
    BY <2>1, <1>2, DivOfTimes, Geometry
  <2>3. QED
    BY <2>2, <1>3, <1>6 DEF MidBlock
<1>13. QED
  BY <1>9, <1>10, <1>11, <1>12 DEF Placed

\* What both kinds have in common.
LEMMA PlacedBlocks ==
    ASSUME NEW x, Placed(x)
    PROVE  /\ x.off \in Offs /\ x.off \in Nat /\ x.size \in Sizes /\ x.size \in Nat \ {0}
           /\ BlocksOf(x) \subseteq Blocks /\ BlockOf(x.off) \in BlocksOf(x)
           /\ BlockOf(x.off) \in Blocks
           /\ x.off \in UnitsOf(x)
           /\ \A u \in UnitsOf(x) : u \in Offs /\ BlockOf(u) \in BlocksOf(x)
           /\ x.off + x.size \in 1..SegSize
<1>1. x.off \in Offs /\ x.off \in Nat /\ x.size \in Sizes /\ x.size \in Nat \ {0}
  BY Geometry DEF Placed, Extents, Offs
<1>2. x.off \in UnitsOf(x)
  BY <1>1 DEF UnitsOf
<1>3. CASE IsFrag(x.size)
  <2>1. x.off + x.size - 1 \in UnitsOf(x)
    BY <1>1 DEF UnitsOf
  <2>2. x.off + x.size - 1 \in Offs
    BY <2>1, <1>3, PlacedFrag
  <2>3. x.off + x.size \in 1..SegSize
    BY <2>2, <1>1, Geometry DEF Offs
  <2>4. QED
    BY <1>1, <1>2, <1>3, <2>3, PlacedFrag
<1>4. CASE ~IsFrag(x.size)
  <2>1. \A u \in UnitsOf(x) : u \in Offs /\ u \in Nat
    BY <1>4, PlacedRun, Geometry DEF Offs
  <2>2. QED
    BY <1>1, <1>2, <1>4, <2>1, PlacedRun, Geometry
<1>5. QED
  BY <1>3, <1>4

\* Every block of an extent has units of it.
LEMMA BlockHasUnits ==
    ASSUME NEW x, Placed(x), NEW b \in BlocksOf(x)
    PROVE  \E u \in UnitsOf(x) : u \in UnitsIn(b) /\ BlockOf(u) = b
<1>1. b \in Nat /\ b * Units \in Nat
  BY PlacedBlocks, Geometry DEF Blocks
<1>2. CASE IsFrag(x.size)
  <2>1. b = BlockOf(x.off) /\ x.off \in Nat
    BY <1>2, PlacedFrag, PlacedBlocks
  <2>2. x.off \in UnitsIn(b)
    BY <1>1, <2>1, UnitsOfBlock, Geometry DEF UnitsIn
  <2>3. QED
    BY <2>1, <2>2, PlacedBlocks
<1>3. CASE ~IsFrag(x.size)
  <2>1. BlockOf(b * Units) = b
    BY <1>1, DivOfTimes, Geometry DEF BlockOf
  <2>2. b * Units \in UnitsOf(x)
    BY <1>1, <1>3, <2>1, PlacedRun
  <2>3. b * Units \in UnitsIn(b)
    BY <1>1, Geometry DEF UnitsIn
  <2>4. QED
    BY <2>1, <2>2, <2>3
<1>4. QED
  BY <1>2, <1>3

-----------------------------------------------------------------------------
(* What the allocator offers.                                                *)

Extent(off, s) == [off |-> off, size |-> s]

\* A slot of the element scan holds an extent of the size asked for.
LEMMA SlotPlaced ==
    ASSUME NEW bits, NEW s \in Sizes, NEW b \in Slots(bits, s)
    PROVE  LET x == Extent(b * Units, s)
           IN  /\ Placed(x) /\ BlockOf(x.off) = b
               /\ \A c \in BlocksOf(x) : bits[c] = Free
<1> DEFINE x == Extent(b * Units, s)
           n == Span(s)
<1>1. b \in Blocks /\ b \in Nat /\ \A i \in 0 .. n - 1 : b + i \in Blocks /\ bits[b + i] = Free
  BY DEF Slots, Blocks
<1>2. x.off = b * Units /\ x.size = s /\ s \in Nat \ {0}
  BY Geometry DEF Extent
<1>3. BlockOf(x.off) = b /\ x.off % Units = 0 /\ x.off \in Nat
  <2>1. b * Units \in Nat
    BY <1>1, Geometry
  <2>2. (b * Units) \div Units = b /\ (b * Units) % Units = 0
    BY <1>1, DivOfTimes, Geometry
  <2>3. QED
    BY <2>1, <2>2, <1>2 DEF BlockOf
<1>4. ASSUME NEW e \in Nat, b + e \in Blocks
      PROVE  b * Units + e * Units + Units <= SegSize
  <2>1. b + e + 1 \in Nat /\ b + e + 1 <= Elements * PerElement
    BY <1>1, <1>4, Geometry DEF Blocks
  <2>2. (b + e + 1) * Units <= (Elements * PerElement) * Units
    BY <2>1, TimesMono, Geometry
  <2>3. (b + e + 1) * Units = b * Units + e * Units + Units
    BY <1>1, Geometry
  <2>4. QED
    BY <2>2, <2>3, Geometry
<1>5. x.off + Units <= SegSize
  <2>1. b + 0 \in Blocks
    BY <1>1
  <2>2. QED
    BY <2>1, <1>4, <1>1, <1>2, Geometry
<1>6. x \in Extents
  BY <1>2, <1>3, <1>5, Geometry DEF Extents, Extent, Offs
<1>7. CASE IsFrag(s)
  <2>1. Placed(x)
    BY <1>2, <1>3, <1>6, <1>7, Geometry DEF Placed, IsFrag
  <2>2. BlocksOf(x) = {b}
    BY <2>1, <1>2, <1>3, <1>7, PlacedFrag
  <2>3. 0 \in 0 .. n - 1 /\ b + 0 = b
    BY <1>1, <1>7 DEF Span
  <2>4. QED
    BY <2>1, <2>2, <2>3, <1>1, <1>3
<1>8. CASE ~IsFrag(s)
  <2>1. s % Units = 0
    BY <1>8, FreemapAssumption DEF IsFrag
  <2>2. n \in Nat /\ s = n * Units
    <3>1. n = s \div Units
      BY <1>8 DEF Span
    <3>2. n \in Nat /\ s = Units * n + (s % Units)
      BY <3>1, <1>2, DivMod, Geometry
    <3>3. QED
      BY <3>2, <2>1, Geometry
  <2>3. n >= 1
    BY <2>2, <1>2, Geometry
  <2>4. n - 1 \in Nat /\ b + (n - 1) \in Blocks
    BY <2>2, <2>3, <1>1
  <2>5. b * Units + (n - 1) * Units + Units <= SegSize
    BY <2>4, <1>4
  <2>6. (n - 1) * Units + Units = s
    BY <2>2, Geometry
  <2>7. x.off + x.size <= SegSize
    BY <2>2, <2>5, <2>6, <1>1, <1>2, Geometry
  <2>8. Placed(x)
    BY <2>7, <1>2, <1>3, <1>6, <1>8 DEF Placed
  <2>9. BlocksOf(x) = b .. b + n - 1
    BY <1>2, <1>3 DEF BlocksOf
  <2>10. ASSUME NEW c \in BlocksOf(x)
         PROVE  bits[c] = Free
    <3>1. c - b \in 0 .. n - 1 /\ b + (c - b) = c
      BY <2>9, <2>10, <2>2, <1>1
    <3>2. QED
      BY <3>1, <1>1
  <2>11. QED
    BY <2>8, <2>10, <1>3
<1>9. QED
  BY <1>7, <1>8

\* The rest of the block the iterator is in holds a fragment.
LEMMA LinearPlaced ==
    ASSUME NEW m \in Bmaps, NEW s \in Sizes, LinearFits(m, s)
    PROVE  Placed(Extent(m.linear, s)) /\ IsFrag(s)
<1>1. m.linear \in Nat /\ m.linear < SegSize /\ s \in Nat \ {0} /\ SegSize \in Nat
  BY Geometry DEF Bmaps, LinearFits
<1>2. m.linear % Units # 0 /\ (m.linear % Units) + s <= Units /\ m.linear % Units \in Nat
  BY <1>1, DivMod, Geometry DEF LinearFits, MidBlock
<1>3. IsFrag(s)
  BY <1>1, <1>2, Geometry DEF IsFrag
<1>4. QED
  BY <1>1, <1>2, <1>3 DEF Placed, Extent, Extents, Offs

\* An offer is the rest of the iterator's block, or free blocks; a fragment
\* gets the first free block.
LEMMA OfferIs ==
    ASSUME NEW m \in Bmaps, NEW s \in Sizes, NEW isData,
           NEW off \in Offers(m, s, isData)
    PROVE  LET x == Extent(off, s)
           IN  /\ Placed(x) /\ s \in m.bigmask
               /\ \/ LinearFits(m, s) /\ IsFrag(s) /\ off = m.linear
                  \/ /\ \A b \in BlocksOf(x) : m.bits[b] = Free
                     /\ BlockOf(off) \in Slots(m.bits, s)
                     /\ off = BlockOf(off) * Units
                     /\ IsFrag(s) => \A c \in Slots(m.bits, s) : BlockOf(off) <= c
<1>1. WorthTrying(m, s) /\ s \in m.bigmask
  BY DEF Offers, WorthTrying
<1>2. CASE LinearFits(m, s)
  <2>1. off = m.linear
    BY <1>1, <1>2 DEF Offers
  <2>2. QED
    BY <1>1, <1>2, <2>1, LinearPlaced
<1>3. CASE ~LinearFits(m, s)
  <2>1. PICK b \in Slots(m.bits, s) :
            off = b * Units /\ (IsFrag(s) => \A c \in Slots(m.bits, s) : b <= c)
    BY <1>1, <1>3 DEF Offers
  <2>2. /\ Placed(Extent(off, s)) /\ BlockOf(Extent(off, s).off) = b
        /\ \A c \in BlocksOf(Extent(off, s)) : m.bits[c] = Free
    BY <2>1, SlotPlaced
  <2>3. BlockOf(off) = b
    BY <2>2 DEF Extent
  <2>4. QED
    BY <1>1, <2>1, <2>2, <2>3
<1>4. QED
  BY <1>2, <1>3

\* For a fragment every free block is a slot.
LEMMA FragSlots ==
    ASSUME NEW bits, NEW s \in Sizes, IsFrag(s)
    PROVE  Slots(bits, s) = FreeBlocks(bits)
<1>1. Span(s) = 1
  BY DEF Span
<1>2. \A b \in Blocks : b \in Nat /\ b % 1 = 0 /\ 0 .. 1 - 1 = {0} /\ b + 0 = b
  BY DEF Blocks
<1>3. QED
  BY <1>1, <1>2 DEF Slots, FreeBlocks

\* Without an offer there is no slot and no room at the iterator, or the
\* bigmask or the count of free space said so.
LEMMA NoOffer ==
    ASSUME NEW m \in Bmaps, NEW s \in Sizes, NEW isData,
           Offers(m, s, isData) = {}
    PROVE  \/ s \notin m.bigmask
           \/ m.avail = 0 /\ ~LinearFits(m, s)
           \/ Slots(m.bits, s) = {} /\ ~LinearFits(m, s)
<1> SUFFICES ASSUME s \in m.bigmask, Slots(m.bits, s) # {} \/ LinearFits(m, s),
                    m.avail # 0 \/ LinearFits(m, s)
             PROVE  FALSE
  OBVIOUS
<1>1. ~LinearFits(m, s)
  <2> SUFFICES ASSUME LinearFits(m, s)
               PROVE  FALSE
    OBVIOUS
  <2>1. IsFrag(s) /\ MidBlock(m.linear)
    BY LinearPlaced DEF LinearFits
  <2>2. QED
    BY <2>1 DEF Offers, WorthTrying
<1>2. WorthTrying(m, s)
  BY <1>1 DEF WorthTrying
<1>3. Slots(m.bits, s) \in SUBSET Nat /\ Slots(m.bits, s) # {}
  BY <1>1 DEF Slots, Blocks
<1>4. PICK b \in Slots(m.bits, s) : \A c \in Slots(m.bits, s) : b <= c
  BY <1>3, LeastNat
<1>5. b * Units \in Offers(m, s, isData)
  BY <1>1, <1>2, <1>4 DEF Offers
<1>6. QED
  BY <1>5

-----------------------------------------------------------------------------
(* The count of free space and the bigmask.                                  *)

\* avail counts the free blocks, in units.
Exact(m) == m.avail = Units * Cardinality(FreeBlocks(m.bits))

\* A size that has a slot, or room at the iterator, is in the bigmask.
Permissive(m) ==
    \A s \in Sizes :
        Slots(m.bits, s) # {} \/ (IsFrag(s) /\ LinearFits(m, s)) => s \in m.bigmask

\* Every set of blocks can be counted (avail, allocator_free).
LEMMA BlocksFinite ==
    /\ IsFiniteSet(Blocks) /\ Cardinality(Blocks) = Elements * PerElement
    /\ \A bs \in SUBSET Blocks : IsFiniteSet(bs) /\ Cardinality(bs) \in Nat
<1>1. IsFiniteSet(Blocks) /\ Cardinality(Blocks) = Elements * PerElement
  <2>1. 0 \in Int /\ Elements * PerElement - 1 \in Int
    BY Geometry
  <2>2. /\ IsFiniteSet(0 .. Elements * PerElement - 1)
        /\ Cardinality(0 .. Elements * PerElement - 1) =
             IF 0 > Elements * PerElement - 1 THEN 0 ELSE Elements * PerElement - 1 - 0 + 1
    BY <2>1, FS_Interval
  <2>3. QED
    BY <2>2, Geometry DEF Blocks
<1>2. QED
  BY <1>1, FS_Subset, FS_CardinalityType

\* Filling blocks takes them, and no others, from the free ones.
LEMMA FillTakes ==
    ASSUME NEW bits \in [Blocks -> {Free, Staged, Full}], NEW bs
    PROVE  /\ Fill(bits, bs) \in [Blocks -> {Free, Staged, Full}]
           /\ \A b \in Blocks : /\ b \in bs => Fill(bits, bs)[b] = Full
                                /\ b \notin bs => Fill(bits, bs)[b] = bits[b]
           /\ FreeBlocks(Fill(bits, bs)) = FreeBlocks(bits) \ bs
  BY DEF Fill, FreeBlocks, Free, Staged, Full

\* hammer2_bmap_alloc: avail goes down by exactly the blocks that stop being
\* free.
LEMMA FillCounts ==
    ASSUME NEW m \in Bmaps, NEW bs, Exact(m)
    PROVE  /\ Charge(m, bs) \in Nat
           /\ m.avail - Charge(m, bs) = Units * Cardinality(FreeBlocks(Fill(m.bits, bs)))
<1> DEFINE F == FreeBlocks(m.bits)
<1>1. m.bits \in [Blocks -> {Free, Staged, Full}] /\ F \in SUBSET Blocks
  BY DEF Bmaps, FreeBlocks
<1>2. IsFiniteSet(F) /\ Cardinality(F) \in Nat
  BY <1>1, BlocksFinite
<1>3. /\ IsFiniteSet(F \ bs) /\ Cardinality(F \ bs) = Cardinality(F) - Cardinality(F \cap bs)
      /\ Cardinality(F \ bs) \in Nat
  BY <1>2, FS_Difference, FS_CardinalityType
<1>4. Cardinality(F \cap bs) \in Nat /\ F \cap bs = bs \cap F
  BY <1>2, FS_Intersection, FS_CardinalityType
<1>5. FreeBlocks(Fill(m.bits, bs)) = F \ bs
  BY <1>1, FillTakes
<1>6. Charge(m, bs) = Units * Cardinality(F \cap bs)
  BY <1>4 DEF Charge
<1>7. m.avail = Units * Cardinality(F)
  BY DEF Exact
<1> HIDE DEF F
<1>8. QED
  BY <1>2, <1>3, <1>4, <1>5, <1>6, <1>7, Geometry

\* Slots only go as blocks fill up.
LEMMA FillSlots ==
    ASSUME NEW bits \in [Blocks -> {Free, Staged, Full}], NEW bs, NEW s
    PROVE  Slots(Fill(bits, bs), s) \subseteq Slots(bits, s)
<1>1. \A b \in Blocks : Fill(bits, bs)[b] = Free => bits[b] = Free
  BY DEF Fill, Free, Full
<1>2. QED
  BY <1>1 DEF Slots

\* hammer2_bmap_alloc keeps the bitmap typed, counted and its bigmask true.
LEMMA AllocatedKeeps ==
    ASSUME NEW m \in Bmaps, NEW s \in Sizes, NEW isData,
           NEW off \in Offers(m, s, isData), Exact(m), Permissive(m)
    PROVE  LET x == Extent(off, s)
           IN  /\ Allocated(m, x) \in Bmaps
               /\ Exact(Allocated(m, x)) /\ Permissive(Allocated(m, x))
               /\ Allocated(m, x).avail = m.avail - Charge(m, BlocksOf(x))
               /\ \A b \in Blocks : /\ b \in BlocksOf(x) => Allocated(m, x).bits[b] = Full
                                    /\ b \notin BlocksOf(x) => Allocated(m, x).bits[b] = m.bits[b]
               /\ Allocated(m, x).linear = IF IsFrag(s) THEN off + s ELSE m.linear
<1> DEFINE x == Extent(off, s)
           bs == BlocksOf(x)
           n == Allocated(m, x)
<1>1. Placed(x) /\ x.off = off /\ x.size = s
  BY OfferIs DEF Extent
<1>2. m.bits \in [Blocks -> {Free, Staged, Full}] /\ m.linear \in 0..SegSize /\ m.avail \in Int
  BY DEF Bmaps
<1>3. /\ n.bits = Fill(m.bits, bs) /\ n.avail = m.avail - Charge(m, bs)
      /\ n.bigmask = m.bigmask
      /\ n.linear = IF IsFrag(s) THEN off + s ELSE m.linear
  BY <1>1 DEF Allocated, Iterator, Bmaps
<1>4. n = [bits |-> n.bits, linear |-> n.linear, avail |-> n.avail, bigmask |-> n.bigmask]
  BY DEF Allocated
<1>5. off + s \in 1..SegSize
  BY <1>1, PlacedBlocks
<1>6. n \in Bmaps
  <2>1. n.bits \in [Blocks -> {Free, Staged, Full}]
    BY <1>2, <1>3, FillTakes
  <2>2. n.linear \in 0..SegSize
    BY <1>2, <1>3, <1>5, Geometry
  <2>3. n.avail \in Int
    BY <1>2, <1>3, FillCounts
  <2>4. n.bigmask \in SUBSET Sizes
    BY <1>3 DEF Bmaps
  <2>5. QED
    BY <1>4, <2>1, <2>2, <2>3, <2>4 DEF Bmaps
<1>7. Exact(n)
  BY <1>3, FillCounts DEF Exact
<1>8. ASSUME NEW r \in Sizes, Slots(n.bits, r) # {} \/ (IsFrag(r) /\ LinearFits(n, r))
      PROVE  r \in n.bigmask
  <2>1. CASE Slots(n.bits, r) # {}
    BY <2>1, <1>2, <1>3, FillSlots DEF Permissive
  <2>2. CASE IsFrag(r) /\ LinearFits(n, r) /\ ~IsFrag(s)
    BY <2>2, <1>3 DEF Permissive, LinearFits
  <2>3. CASE IsFrag(r) /\ LinearFits(n, r) /\ IsFrag(s)
    <3>1. CASE off = m.linear /\ LinearFits(m, s)
      <4>1. n.linear = m.linear + s /\ m.linear \in Nat /\ s \in Nat \ {0} /\ r \in Nat \ {0}
        BY <3>1, <2>3, <1>2, <1>3, Geometry
      <4>2. MidBlock(n.linear) /\ (n.linear % Units) + r <= Units
        BY <2>3 DEF LinearFits
      <4>3. m.linear % Units # 0 /\ (m.linear % Units) + s <= Units
        BY <3>1 DEF LinearFits, MidBlock
      <4>4. (m.linear % Units) + r <= Units
        <5>1. CASE (m.linear % Units) + s < Units
          <6>1. (m.linear + s) % Units = (m.linear % Units) + s
            <7> DEFINE l == m.linear
            <7>1. /\ l \in Nat /\ s \in Nat /\ Units \in Nat \ {0}
                  /\ (l % Units) + s < Units
              BY <5>1, <4>1, Geometry
            <7> HIDE DEF l
            <7>2. (l + s) % Units = (l % Units) + s
              BY <7>1, RemainderGrows
            <7>3. QED
              BY <7>2 DEF l
          <6>2. m.linear % Units \in Nat
            BY <4>1, DivMod, Geometry
          <6>3. QED
            BY <6>1, <6>2, <4>1, <4>2, Geometry
        <5>2. CASE (m.linear % Units) + s = Units
          <6>1. (m.linear + s) % Units = 0
            <7> DEFINE l == m.linear
            <7>1. /\ l \in Nat /\ s \in Nat /\ Units \in Nat \ {0}
                  /\ (l % Units) + s = Units
              BY <5>2, <4>1, Geometry
            <7> HIDE DEF l
            <7>2. (l + s) % Units = 0
              BY <7>1, RemainderWraps
            <7>3. QED
              BY <7>2 DEF l
          <6>2. QED
            BY <6>1, <4>1, <4>2 DEF MidBlock
        <5>3. (m.linear % Units) \in Nat
          BY <4>1, DivMod, Geometry
        <5>4. QED
          BY <5>1, <5>2, <5>3, <4>1, <4>3, Geometry
      <4>5. LinearFits(m, r)
        BY <4>4, <3>1 DEF LinearFits
      <4>6. QED
        BY <4>5, <2>3, <1>3 DEF Permissive
    <3>2. CASE BlockOf(off) \in Slots(m.bits, s)
      BY <3>2, <2>3, <1>3, FragSlots DEF Permissive
    <3>3. QED
      BY <3>1, <3>2, OfferIs
  <2>4. QED
    BY <2>1, <2>2, <2>3, <1>8
<1>9. QED
  BY <1>2, <1>3, <1>6, <1>7, <1>8, FillTakes DEF Permissive

\* A search that fails takes a size from the bigmask that has no room.
LEMMA ExhaustedKeeps ==
    ASSUME NEW m \in Bmaps, NEW s \in Sizes, NEW isData,
           Offers(m, s, isData) = {}, Exact(m), Permissive(m)
    PROVE  /\ Exhausted(m, s) \in Bmaps
           /\ Exact(Exhausted(m, s)) /\ Permissive(Exhausted(m, s))
           /\ Exhausted(m, s).bits = m.bits /\ Exhausted(m, s).linear = m.linear
           /\ Exhausted(m, s).avail = m.avail
<1> DEFINE n == Exhausted(m, s)
<1>1. /\ n.bits = m.bits /\ n.linear = m.linear /\ n.avail = m.avail
      /\ n.bigmask = m.bigmask \ {s} /\ n \in Bmaps
  BY DEF Exhausted, Bmaps
<1>2. s \in m.bigmask => Slots(m.bits, s) = {} /\ ~LinearFits(m, s)
  <2>1. CASE m.avail = 0 /\ ~LinearFits(m, s)
    <3>1. FreeBlocks(m.bits) \in SUBSET Blocks
      BY DEF FreeBlocks
    <3>2. IsFiniteSet(FreeBlocks(m.bits)) /\ Cardinality(FreeBlocks(m.bits)) \in Nat
      BY <3>1, BlocksFinite
    <3>3. Units * Cardinality(FreeBlocks(m.bits)) = 0
      BY <2>1 DEF Exact
    <3>4. Cardinality(FreeBlocks(m.bits)) = 0
      BY <3>2, <3>3, Geometry
    <3>5. FreeBlocks(m.bits) = {}
      BY <3>2, <3>4, FS_EmptySet
    <3>6. Slots(m.bits, s) = {}
      <4> SUFFICES ASSUME NEW b \in Slots(m.bits, s)
                   PROVE  FALSE
        OBVIOUS
      <4>1. BlockOf(b * Units) \in BlocksOf(Extent(b * Units, s))
        BY SlotPlaced, PlacedBlocks DEF Extent
      <4>2. BlockOf(b * Units) \in FreeBlocks(m.bits)
        BY <4>1, SlotPlaced, PlacedBlocks DEF FreeBlocks
      <4>3. QED
        BY <4>2, <3>5
    <3>7. QED
      BY <3>6, <2>1
  <2>2. QED
    BY <2>1, NoOffer
<1>3. \A r : LinearFits(n, r) <=> LinearFits(m, r)
  BY <1>1 DEF LinearFits
<1>4. Permissive(n)
  BY <1>1, <1>2, <1>3 DEF Permissive
<1>5. QED
  BY <1>1, <1>4 DEF Exact

\* hammer2_freemap_adjust keeps the bitmap typed, counted and its bigmask true,
\* and sets bits only.
LEMMA AdjustedKeeps ==
    ASSUME NEW m \in Bmaps, NEW x, Exact(m), Permissive(m)
    PROVE  /\ Adjusted(m, x) \in Bmaps
           /\ Exact(Adjusted(m, x)) /\ Permissive(Adjusted(m, x))
           /\ Adjusted(m, x).avail = m.avail - Charge(m, AdjustTargets(x))
           /\ \A b \in Blocks : Adjusted(m, x).bits[b] \in {Full, m.bits[b]}
<1> DEFINE bs == AdjustTargets(x)
           n == Adjusted(m, x)
<1>1. m.bits \in [Blocks -> {Free, Staged, Full}] /\ m.avail \in Int
  BY DEF Bmaps
<1>2. CASE \A b \in bs : m.bits[b] = Full
  <2>1. n = m
    BY <1>2 DEF Adjusted
  <2>2. bs \cap FreeBlocks(m.bits) = {}
    BY <1>2 DEF FreeBlocks, Free, Full
  <2>3. Charge(m, bs) = 0
    <3>1. Cardinality({}) = 0
      BY FS_EmptySet
    <3>2. Charge(m, bs) = Units * 0
      BY <2>2, <3>1 DEF Charge
    <3>3. QED
      BY <3>2, Geometry
  <2>4. QED
    BY <2>1, <2>3, <1>1
<1>3. CASE ~(\A b \in bs : m.bits[b] = Full)
  <2>1. n = [bits |-> Fill(m.bits, bs), linear |-> 0,
             avail |-> m.avail - Charge(m, bs), bigmask |-> Sizes]
    BY <1>3 DEF Adjusted
  <2>2. /\ n.bits = Fill(m.bits, bs) /\ n.avail = m.avail - Charge(m, bs)
        /\ n.bigmask = Sizes
    BY <2>1
  <2>3. /\ Fill(m.bits, bs) \in [Blocks -> {Free, Staged, Full}]
        /\ \A b \in Blocks : Fill(m.bits, bs)[b] \in {Full, m.bits[b]}
    BY <1>1, FillTakes
  <2>4. n.avail = Units * Cardinality(FreeBlocks(n.bits)) /\ Charge(m, bs) \in Nat
    BY <2>2, FillCounts
  <2>5. m.avail - Charge(m, bs) \in Int
    BY <2>4, <1>1
  <2>6. 0 \in 0..SegSize
    BY Geometry
  <2>7. n \in Bmaps
    BY <2>1, <2>3, <2>5, <2>6 DEF Bmaps
  <2>8. QED
    BY <2>2, <2>3, <2>4, <2>7 DEF Exact, Permissive
<1>4. QED
  BY <1>2, <1>3

-----------------------------------------------------------------------------
(* The merge.                                                                *)

\* Where an iterator goes that is moved to the next block.
LEMMA RoundedUp ==
    ASSUME NEW l \in 0..SegSize
    PROVE  /\ RoundUp(l) \in 0..SegSize /\ ~MidBlock(RoundUp(l))
           /\ MidBlock(l) => RoundUp(l) = BlockOf(l) * Units + Units /\ l \in Offs
           /\ ~MidBlock(l) => RoundUp(l) = l
<1> DEFINE d == BlockOf(l)
           r == l % Units
           e == Elements * PerElement
<1>1. l \in Nat /\ Units \in Nat \ {0} /\ e \in Nat /\ SegSize = e * Units
  BY Geometry
<1>2. d \in Nat /\ r \in Nat /\ r < Units /\ l = Units * d + r
  BY <1>1, DivMod DEF BlockOf
<1>3. d * Units \in Nat /\ d * Units = Units * d /\ (d + 1) * Units = d * Units + Units
  BY <1>1, <1>2
<1>4. CASE r = 0
  <2>1. (l + Units - 1) \div Units = d
    <3>1. /\ l + Units - 1 \in Nat
          /\ d * Units <= l + Units - 1 /\ l + Units - 1 < d * Units + Units
      BY <1>1, <1>2, <1>3, <1>4
    <3>2. QED
      BY <3>1, <1>1, <1>2, DivIs
  <2>2. RoundUp(l) = l
    BY <2>1, <1>2, <1>3, <1>4 DEF RoundUp
  <2>3. QED
    BY <2>2, <1>4 DEF MidBlock
<1>5. CASE r # 0
  <2>1. (l + Units - 1) \div Units = d + 1
    <3>1. /\ l + Units - 1 \in Nat /\ d + 1 \in Nat
          /\ (d + 1) * Units <= l + Units - 1 /\ l + Units - 1 < (d + 1) * Units + Units
      BY <1>1, <1>2, <1>3, <1>5
    <3>2. QED
      BY <3>1, <1>1, DivIs
  <2>2. RoundUp(l) = (d + 1) * Units
    BY <2>1 DEF RoundUp
  <2>3. (d + 1) * Units \in Nat /\ ((d + 1) * Units) % Units = 0
    BY <1>1, <1>2, DivOfTimes
  <2>4. l # SegSize
    BY <1>5, Geometry
  <2>5. l < e * Units /\ l \in Offs
    BY <2>4, <1>1 DEF Offs
  <2>6. d + 1 <= e
    BY <2>5, <1>1, <1>2, DivLess DEF BlockOf
  <2>7. (d + 1) * Units <= e * Units
    BY <2>6, <1>1, <1>2, TimesMono
  <2>8. QED
    BY <2>2, <2>3, <2>5, <2>7, <1>1, <1>3, <1>5 DEF MidBlock
<1>6. QED
  BY <1>4, <1>5

\* A merge keeps the bitmap typed and exactly counted: h2_bulkfree_sync_adjust
\* never clamps avail.
LEMMA MergedKeeps ==
    ASSUME NEW m \in Bmaps, Exact(m), NEW scan,
           scan.bits \in [Blocks -> {Free, Full}], scan.linear \in 0..SegSize
    PROVE  LET n == Merged(m, scan)
           IN  /\ n \in Bmaps /\ Exact(n) /\ Permissive(n)
               /\ n.avail = m.avail + AdjFree(m, scan)
               /\ \A b \in Blocks : n.bits[b] = NextStage(m.bits[b], scan.bits[b])
               /\ n.linear = MergedLinear(m, scan, n.bits)
<1> DEFINE bits == [b \in Blocks |-> NextStage(m.bits[b], scan.bits[b])]
           n == Merged(m, scan)
           F == FreeBlocks(m.bits)
           up == Freed(m, scan)
           down == Regained(m, scan)
           G == FreeBlocks(bits)
<1>1. m.bits \in [Blocks -> {Free, Staged, Full}] /\ m.avail \in Int /\ m.linear \in 0..SegSize
  BY DEF Bmaps
<1>2. bits \in [Blocks -> {Free, Staged, Full}]
  BY DEF NextStage
<1>3. G = (F \ down) \cup up /\ down \subseteq F /\ up \cap F = {}
  BY <1>1 DEF FreeBlocks, Freed, Regained, NextStage, Free, Staged, Full
<1>4. /\ F \in SUBSET Blocks /\ up \in SUBSET Blocks /\ down \in SUBSET Blocks /\ G \in SUBSET Blocks
  BY DEF FreeBlocks, Freed, Regained
<1>5. /\ IsFiniteSet(F) /\ IsFiniteSet(up) /\ IsFiniteSet(down) /\ IsFiniteSet(G)
      /\ Cardinality(F) \in Nat /\ Cardinality(up) \in Nat
      /\ Cardinality(down) \in Nat /\ Cardinality(G) \in Nat
  BY <1>4, BlocksFinite
<1>6. Cardinality(G) = Cardinality(F) - Cardinality(down) + Cardinality(up)
  <2>1. IsFiniteSet(F \ down) /\ Cardinality(F \ down) = Cardinality(F) - Cardinality(F \cap down)
    BY <1>5, FS_Difference
  <2>2. F \cap down = down
    BY <1>3
  <2>3. Cardinality((F \ down) \cup up) =
           Cardinality(F \ down) + Cardinality(up) - Cardinality((F \ down) \cap up)
    BY <2>1, <1>5, FS_Union
  <2>4. (F \ down) \cap up = {}
    BY <1>3
  <2>5. Cardinality((F \ down) \cap up) = 0
    BY <2>4, FS_EmptySet
  <2>6. QED
    BY <2>1, <2>2, <2>3, <2>5, <1>3, <1>5
<1>7. Cardinality(G) <= Elements * PerElement
  BY <1>4, BlocksFinite, FS_Subset
<1>8. m.avail + AdjFree(m, scan) = Units * Cardinality(G)
  <2>1. m.avail = Units * Cardinality(F)
    BY DEF Exact
  <2>2. AdjFree(m, scan) = Units * (Cardinality(up) - Cardinality(down))
    BY DEF AdjFree
  <2> HIDE DEF F, up, down, G
  <2>3. QED
    BY <2>1, <2>2, <1>5, <1>6, Geometry
<1>9. Units * Cardinality(G) \in 0..SegSize
  <2>1. Cardinality(G) * Units <= (Elements * PerElement) * Units
    BY <1>5, <1>7, Geometry, TimesMono
  <2> HIDE DEF G
  <2>2. Cardinality(G) * Units \in Nat /\ Cardinality(G) * Units = Units * Cardinality(G)
    BY <1>5, Geometry
  <2>3. QED
    BY <2>1, <2>2, Geometry
<1>10. n = [bits |-> bits, linear |-> MergedLinear(m, scan, bits),
            avail |-> Units * Cardinality(G), bigmask |-> Sizes]
  <2>1. CASE G = Blocks
    <3>1. Units * Cardinality(G) = SegSize
      BY <2>1, BlocksFinite, Geometry
    <3>2. QED
      BY <2>1, <3>1 DEF Merged
  <2>2. CASE G # Blocks
    <3>1. Within(m.avail + AdjFree(m, scan), 0, SegSize) = Units * Cardinality(G)
      BY <1>8, <1>9, Geometry DEF Within
    <3>2. QED
      BY <2>2, <3>1 DEF Merged
  <2>3. QED
    BY <2>1, <2>2
<1>11. MergedLinear(m, scan, bits) \in 0..SegSize
  BY <1>1, RoundedUp, Geometry DEF MergedLinear
<1>12. n \in Bmaps
  BY <1>2, <1>9, <1>10, <1>11 DEF Bmaps
<1>13. n.avail = m.avail + AdjFree(m, scan) /\ n.bits = bits
       /\ n.linear = MergedLinear(m, scan, n.bits) /\ n.bigmask = Sizes
       /\ n.avail = Units * Cardinality(G)
  BY <1>8, <1>10
<1>14. QED
  BY <1>12, <1>13 DEF Exact, Permissive

-----------------------------------------------------------------------------
(* What a scan finds.                                                        *)

\* A block is allocated in the scan's bitmap when something found is in it.
LEMMA ScanBitsAre ==
    ASSUME NEW found
    PROVE  /\ ScanBits(found) \in [Blocks -> {Free, Full}]
           /\ \A b \in Blocks :
                 ScanBits(found)[b] = Full <=> \E x \in found : b \in BlocksOf(x)
  BY DEF ScanBits, Free, Full

\* One extent of the scan moves the iterator to its end, or leaves it.
LEMMA ScanLinearIs ==
    ASSUME NEW l \in 0..SegSize, NEW x, Placed(x)
    PROVE  /\ ScanLinear(l, x) \in 0..SegSize /\ l <= ScanLinear(l, x)
           /\ ScanLinear(l, x) \in {l, x.off + x.size}
           /\ IsFrag(x.size) => x.off + x.size <= ScanLinear(l, x)
<1>1. x.off + x.size \in 0..SegSize /\ x.off \in Nat /\ x.size \in Nat
  BY PlacedBlocks, Geometry
<1>2. l \in Nat /\ SegSize \in Nat
  BY Geometry
<1>3. QED
  BY <1>1, <1>2 DEF ScanLinear

\* The scan's iterator as a function of how much has been scanned.
ScanSteps(order) ==
    CHOOSE g : g = [i \in 0..Len(order) |->
                       IF i = 0 THEN 0 ELSE ScanLinear(g[i - 1], order[i])]

\* The recursive definition of the steps of a scan (h2_bulkfree_callback)
\* determines them.
LEMMA ScanStepsExist ==
    ASSUME NEW order, Len(order) \in Nat
    PROVE  /\ ScanSteps(order)[0] = 0
           /\ \A i \in 1..Len(order) :
                 ScanSteps(order)[i] = ScanLinear(ScanSteps(order)[i - 1], order[i])
<1> DEFINE F(g, n) == [i \in 0..n |-> IF i = 0 THEN 0 ELSE ScanLinear(g[i - 1], order[i])]
           T == {n \in Nat : ~\E g : g = F(g, n)}
<1>1. T = {}
  <2> SUFFICES ASSUME T # {}
               PROVE  FALSE
    OBVIOUS
  <2>1. PICK n \in T : \A k \in T : n <= k
    BY LeastNat
  <2>2. CASE n = 0
    <3> DEFINE g == [i \in 0..0 |-> 0]
    <3>1. g = F(g, 0)
      BY \A i \in 0..0 : i = 0
    <3>2. QED
      BY <3>1, <2>1, <2>2
  <2>3. CASE n > 0
    <3>1. n - 1 \in Nat /\ n - 1 \notin T
      BY <2>1, <2>3
    <3>2. PICK h : h = F(h, n - 1)
      BY <3>1
    <3> DEFINE g == [i \in 0..n |-> IF i = n THEN ScanLinear(h[n - 1], order[n]) ELSE h[i]]
    <3>3. \A i \in 0..n - 1 : g[i] = h[i] /\ i # n /\ i \in 0..n
      BY <2>1
    <3>4. \A i \in 0..n - 1 : i # 0 => i - 1 \in 0..n - 1
      OBVIOUS
    <3>5. \A i \in 0..n : g[i] = IF i = 0 THEN 0 ELSE ScanLinear(g[i - 1], order[i])
      <4> SUFFICES ASSUME NEW i \in 0..n
                   PROVE  g[i] = IF i = 0 THEN 0 ELSE ScanLinear(g[i - 1], order[i])
        OBVIOUS
      <4>1. CASE i = n
        <5>1. g[n] = ScanLinear(h[n - 1], order[n]) /\ n - 1 \in 0..n - 1
          BY <2>1, <2>3
        <5>2. g[n - 1] = h[n - 1]
          BY <5>1, <3>3
        <5>3. QED
          BY <4>1, <5>1, <5>2, <2>3
      <4>2. CASE i # n
        <5>1. i \in 0..n - 1
          BY <4>2, <2>1
        <5>2. h[i] = IF i = 0 THEN 0 ELSE ScanLinear(h[i - 1], order[i])
          BY <5>1, <3>2
        <5>3. QED
          BY <5>1, <5>2, <3>3, <3>4
      <4>3. QED
        BY <4>1, <4>2
    <3>6. g = F(g, n)
      BY <3>5
    <3>7. QED
      BY <3>6, <2>1
  <2>4. QED
    BY <2>1, <2>2, <2>3
<1>2. \E g : g = F(g, Len(order))
  BY <1>1
<1>3. ScanSteps(order) = F(ScanSteps(order), Len(order))
  BY <1>2 DEF ScanSteps
<1>4. QED
  BY <1>3

\* ScanEnd is the last step of the scan.
LEMMA ScanEndIs ==
    ASSUME NEW order
    PROVE  ScanEnd(order) = ScanSteps(order)[Len(order)]
  BY DEF ScanEnd, ScanSteps

\* The iterator a scan computes, whatever the order: at or after the end of
\* every fragment found, and the end of something found unless it is zero.
LEMMA ScanLinearsAre ==
    ASSUME NEW found, IsFiniteSet(found), \A x \in found : Placed(x),
           NEW l \in ScanLinears(found)
    PROVE  /\ l \in 0..SegSize
           /\ \A x \in found : IsFrag(x.size) => x.off + x.size <= l
           /\ l > 0 => \E x \in found : l = x.off + x.size
<1> DEFINE N == Cardinality(found)
<1>1. N \in Nat
  BY FS_CardinalityType
<1>2. PICK order : /\ order \in [1..N -> found] /\ l = ScanEnd(order)
                   /\ \A i, j \in 1..N : i # j => order[i] # order[j]
  BY DEF ScanLinears, SetToSeqs
<1>3. Len(order) = N
  BY <1>1, <1>2
<1>4. \A x \in found : \E i \in 1..N : order[i] = x
  <2>1. order \in Injection(1..N, found)
    BY <1>2 DEF Injection, IsInjective
  <2>2. Cardinality(1..N) = N
    BY <1>1, FS_Interval
  <2>3. order \in Surjection(1..N, found)
    BY <2>1, <2>2, FS_Injection
  <2>4. QED
    BY <2>3 DEF Surjection
<1> DEFINE f == ScanSteps(order)
           P(i) == /\ f[i] \in 0..SegSize
                   /\ \A j \in 1..i : IsFrag(order[j].size) => order[j].off + order[j].size <= f[i]
                   /\ f[i] > 0 => \E x \in found : f[i] = x.off + x.size
           T == {i \in 0..N : ~P(i)}
<1>5. f[0] = 0 /\ \A i \in 1..N : f[i] = ScanLinear(f[i - 1], order[i])
  BY <1>1, <1>3, ScanStepsExist
<1> HIDE DEF f
<1>6. T = {}
  <2> SUFFICES ASSUME T # {}
               PROVE  FALSE
    OBVIOUS
  <2>1. T \in SUBSET Nat
    BY <1>1
  <2>2. PICK n \in T : \A k \in T : n <= k
    BY <2>1, LeastNat
  <2>3. n # 0
    <3>1. P(0)
      BY <1>5, Geometry
    <3>2. QED
      BY <3>1, <2>2
  <2>4. n \in 1..N /\ n - 1 \in 0..N /\ n - 1 \notin T
    BY <1>1, <2>2, <2>3
  <2>5. P(n - 1)
    BY <2>4
  <2>6. order[n] \in found /\ Placed(order[n])
    BY <2>4, <1>2
  <2>7. /\ f[n] \in 0..SegSize /\ f[n - 1] <= f[n]
        /\ f[n] \in {f[n - 1], order[n].off + order[n].size}
        /\ IsFrag(order[n].size) => order[n].off + order[n].size <= f[n]
    BY <1>5, <2>4, <2>5, <2>6, ScanLinearIs
  <2>8. ASSUME NEW j \in 1..n, IsFrag(order[j].size)
        PROVE  order[j].off + order[j].size <= f[n]
    <3>1. CASE j = n
      BY <3>1, <2>7, <2>8
    <3>2. CASE j # n
      <4>1. j \in 1..n - 1 /\ j \in 1..N
        BY <3>2, <2>4, <1>1
      <4>2. order[j].off + order[j].size <= f[n - 1]
        BY <4>1, <2>5, <2>8
      <4>3. order[j].off + order[j].size \in Nat /\ f[n] \in Nat /\ f[n - 1] \in Nat
        BY <4>1, <1>2, <2>5, <2>7, PlacedBlocks, Geometry
      <4>4. QED
        BY <4>2, <4>3, <2>7
    <3>3. QED
      BY <3>1, <3>2
  <2>9. f[n] > 0 => \E x \in found : f[n] = x.off + x.size
    BY <2>5, <2>6, <2>7
  <2>10. P(n)
    BY <2>7, <2>8, <2>9
  <2>11. QED
    BY <2>10, <2>2
<1>7. P(N)
  BY <1>1, <1>6
<1>8. l = f[N]
  BY <1>2, <1>3, ScanEndIs DEF f
<1>9. QED
  BY <1>2, <1>4, <1>7, <1>8
=============================================================================
