------------------------------- MODULE Counting -------------------------------
(***************************************************************************)
(* Numbers: the least and the greatest of a set, and a sum.                *)
(* The sum of a function with small values over a finite set, as the       *)
(* number of tokens <<x, i>> with i up to the value at x: what a reference *)
(* count counts.  A sum by recursion over the set is out of the provers'   *)
(* reach; a cardinality is not.                                            *)
(***************************************************************************)
EXTENDS Integers, FiniteSets, FiniteSetTheorems, WellFoundedInduction, TLAPS

\* A set of naturals has a least element: the induction of these proofs.
LEMMA LeastNat ==
    ASSUME NEW T \in SUBSET Nat, T # {}
    PROVE  \E m \in T : \A k \in T : m <= k
<1> DEFINE Below(n) == 0..(n - 1)
           B == {Below(n) : n \in T}
<1>1. B \subseteq FiniteSubsetsOf(Nat) /\ B # {}
  <2>1. \A n \in T : Below(n) \in SUBSET Nat /\ IsFiniteSet(Below(n))
    BY FS_Interval
  <2>2. QED
    BY <2>1 DEF FiniteSubsetsOf
<1>2. PICK M \in B : \A K \in B : <<K, M>> \notin StrictSubsetOrdering(Nat)
  BY <1>1, WFMin, FS_StrictSubsetOrderingWellFounded
<1>3. PICK m \in T : M = Below(m)
  OBVIOUS
<1>4. ASSUME NEW k \in T, k < m
      PROVE  FALSE
  <2>1. Below(k) \subseteq Below(m) /\ k \in Below(m) /\ k \notin Below(k)
    BY <1>4
  <2>2. <<Below(k), Below(m)>> \in StrictSubsetOrdering(Nat)
    BY <2>1 DEF StrictSubsetOrdering
  <2>3. QED
    BY <2>2, <1>2, <1>3
<1>5. QED
  BY <1>4

\* A set of naturals that has a bound has a greatest element.
LEMMA GreatestNat ==
    ASSUME NEW n \in Nat, NEW T \in SUBSET (0..n), T # {}
    PROVE  \E m \in T : \A k \in T : k <= m
<1> DEFINE D == {d \in 0..n : n - d \in T}
<1>1. D \in SUBSET Nat /\ D # {}
  <2>1. PICK t \in T : TRUE
    OBVIOUS
  <2>2. n - t \in 0..n /\ n - (n - t) = t
    OBVIOUS
  <2>3. n - t \in D
    BY <2>1, <2>2
  <2>4. QED
    BY <2>3
<1>2. PICK d \in D : \A e \in D : d <= e
  BY <1>1, LeastNat
<1>3. n - d \in T
  BY <1>2
<1>4. ASSUME NEW k \in T
      PROVE  k <= n - d
  <2>1. n - k \in 0..n /\ n - (n - k) = k
    OBVIOUS
  <2>2. n - k \in D
    BY <2>1
  <2>3. d <= n - k /\ d \in 0..n
    BY <1>2, <2>2
  <2>4. QED
    BY <2>1, <2>3
<1>5. QED
  BY <1>3, <1>4

Tokens(S, k, f) == {p \in S \X (1..k) : p[2] <= f[p[1]]}
Total(S, k, f) == Cardinality(Tokens(S, k, f))

\* The tokens can be counted.
LEMMA TokensFinite ==
    ASSUME NEW S, IsFiniteSet(S), NEW k \in Nat, NEW f
    PROVE  IsFiniteSet(Tokens(S, k, f)) /\ Total(S, k, f) \in Nat
<1> DEFINE N == 1..k
<1>0. IsFiniteSet(N)
  BY FS_Interval
<1> HIDE DEF N
<1>1. IsFiniteSet(S \X N)
  BY <1>0, FS_Product
<1>2. IsFiniteSet(Tokens(S, k, f))
  BY <1>1, FS_Subset DEF Tokens, N
<1>3. QED
  BY <1>2, FS_CardinalityType DEF Total

\* One more at x is one more in all.
LEMMA TotalUp ==
    ASSUME NEW S, IsFiniteSet(S), NEW k \in Nat, NEW f \in [S -> 0..k], NEW g \in [S -> 0..k],
           NEW x \in S, g[x] = f[x] + 1, \A y \in S \ {x} : g[y] = f[y]
    PROVE  Total(S, k, g) = Total(S, k, f) + 1
<1>1. IsFiniteSet(Tokens(S, k, f))
  BY TokensFinite
<1>2. f[x] \in 0..k /\ g[x] \in 0..k
  OBVIOUS
<1>3. <<x, g[x]>> \notin Tokens(S, k, f)
  BY <1>2 DEF Tokens
<1>4. Tokens(S, k, g) = Tokens(S, k, f) \cup {<<x, g[x]>>}
  <2>1. ASSUME NEW p \in S \X (1..k)
        PROVE  p[2] <= g[p[1]] <=> p[2] <= f[p[1]] \/ p = <<x, g[x]>>
    <3>1. PICK y \in S, i \in 1..k : p = <<y, i>>
      OBVIOUS
    <3>2. CASE y = x
      BY <3>1, <3>2, <1>2
    <3>3. CASE y # x
      BY <3>1, <3>3
    <3>4. QED
      BY <3>2, <3>3
  <2>2. <<x, g[x]>> \in S \X (1..k)
    BY <1>2
  <2>3. QED
    BY <2>1, <2>2 DEF Tokens
<1>5. QED
  BY <1>1, <1>3, <1>4, FS_AddElement DEF Total

\* A function that is nowhere larger does not have more in all.
LEMMA TotalMono ==
    ASSUME NEW S, IsFiniteSet(S), NEW k \in Nat, NEW f \in [S -> 0..k], NEW g \in [S -> 0..k],
           \A y \in S : g[y] <= f[y]
    PROVE  Total(S, k, g) <= Total(S, k, f)
<1>1. IsFiniteSet(Tokens(S, k, f))
  BY TokensFinite
<1>2. ASSUME NEW p \in Tokens(S, k, g) PROVE p \in Tokens(S, k, f)
  <2>1. PICK y \in S, i \in 1..k : p = <<y, i>> /\ i <= g[y]
    BY DEF Tokens
  <2>2. f[y] \in 0..k /\ g[y] \in 0..k /\ g[y] <= f[y]
    OBVIOUS
  <2>3. i <= f[y]
    BY <2>1, <2>2
  <2>4. QED
    BY <2>1, <2>3 DEF Tokens
<1>3. Tokens(S, k, g) \in SUBSET Tokens(S, k, f)
  BY <1>2
<1>4. QED
  BY <1>1, <1>3, FS_Subset DEF Total

\* What counts nothing has nothing anywhere.
LEMMA TotalZero ==
    ASSUME NEW S, IsFiniteSet(S), NEW k \in Nat, NEW f \in [S -> 0..k]
    PROVE  Total(S, k, f) = 0 <=> \A x \in S : f[x] = 0
<1>1. Total(S, k, f) = 0 <=> Tokens(S, k, f) = {}
  BY TokensFinite, FS_EmptySet DEF Total
<1>2. ASSUME NEW x \in S, f[x] # 0 PROVE Tokens(S, k, f) # {}
  <2>1. f[x] \in 1..k
    BY <1>2
  <2>2. <<x, f[x]>> \in Tokens(S, k, f)
    BY <2>1 DEF Tokens
  <2>3. QED
    BY <2>2
<1>3. ASSUME \A x \in S : f[x] = 0 PROVE Tokens(S, k, f) = {}
  BY <1>3 DEF Tokens
<1>4. QED
  BY <1>1, <1>2, <1>3

\* A count of one is one at one place.
LEMMA TotalOne ==
    ASSUME NEW S, IsFiniteSet(S), NEW k \in Nat, NEW f \in [S -> 0..k],
           Total(S, k, f) = 1, NEW x \in S, f[x] > 0
    PROVE  f[x] = 1 /\ \A y \in S \ {x} : f[y] = 0
<1>1. PICK q : Tokens(S, k, f) = {q}
  BY TokensFinite, FS_Singleton DEF Total
<1>2. ASSUME NEW y \in S, NEW i \in 1..k, i <= f[y] PROVE <<y, i>> = q
  BY <1>1, <1>2 DEF Tokens
<1>3. f[x] \in 1..k /\ 1 \in 1..k
  OBVIOUS
<1>4. <<x, 1>> = q
  BY <1>2, <1>3
<1>5. f[x] = 1
  BY <1>2, <1>3, <1>4
<1>6. ASSUME NEW y \in S \ {x} PROVE f[y] = 0
  <2>1. f[y] \in 0..k
    OBVIOUS
  <2>2. ~(1 <= f[y])
    BY <1>2, <1>3, <1>4
  <2>3. QED
    BY <2>1, <2>2
<1>7. QED
  BY <1>5, <1>6
=============================================================================
