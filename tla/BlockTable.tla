----------------------------- MODULE BlockTable -----------------------------
(***************************************************************************)
(* The block array of a chain (hammer2_base_find, hammer2_base_insert,     *)
(* hammer2_base_delete in hammer2_chain.c): references sorted by key, with *)
(* holes anywhere, of which live_zero bounds the used part and cache_index *)
(* is where the last search ended.  Positions count from 0 as in the code. *)
(***************************************************************************)
EXTENDS Integers, FiniteSets

CONSTANTS Places,     \* references the array has room for
          TableRefs   \* references, as the ranges <<first key, last key>>

ASSUME BlockTableAssumption ==
    /\ Places \in 1..64
    /\ \A r \in TableRefs : r[1] \in 0..255 /\ r[2] \in r[1]..255

VARIABLES base,         \* position -> reference or Empty
          live_zero,    \* positions from here on are empty
          cache_index,  \* where the last search ended
          held          \* references inserted and not deleted

tableVars == <<base, live_zero, cache_index, held>>

Positions == 0..(Places - 1)
Empty == <<-1, -1>>
Overlap(q, r) == q[1] <= r[2] /\ r[1] <= q[2]
Least(S) == CHOOSE i \in S : \A j \in S : i <= j
Greatest(S) == CHOOSE i \in S : \A j \in S : j <= i

(***************************************************************************)
(* hammer2_base_find: from the cached position back to a reference that    *)
(* starts at or before the key, then forward to the first that ends at or  *)
(* after it.  Places stands for "none", and nothing is found from          *)
(* live_zero on.                                                           *)
(***************************************************************************)
\* The backward search taking a hole for a place to stop at.
BugBack(cached, key) ==
    LET from == IF cached < live_zero THEN cached
                ELSE IF live_zero = 0 THEN 0 ELSE live_zero - 1
        S == {i \in 1..from : base[i][1] <= key}
    IN  IF S = {} THEN 0 ELSE Greatest(S)

Back(cached, key) ==
    LET from == IF cached < live_zero THEN cached
                ELSE IF live_zero = 0 THEN 0 ELSE live_zero - 1
        S == {i \in 1..from : base[i] # Empty /\ base[i][1] <= key}
    IN  IF S = {} THEN 0 ELSE Greatest(S)

Hit(cached, key) ==
    Least({i \in Back(cached, key)..(Places - 1) :
               base[i] # Empty /\ base[i][2] >= key} \cup {Places})

base_find(cached, key) ==
    IF Hit(cached, key) < live_zero THEN Hit(cached, key) ELSE Places

CacheAfter(cached, key) ==
    IF Hit(cached, key) < live_zero THEN Hit(cached, key) ELSE Back(cached, key)

\* A lookup moves the cached position and nothing else.
find(key) ==
    /\ cache_index' = CacheAfter(cache_index, key)
    /\ cache_index' # cache_index
    /\ UNCHANGED <<base, live_zero, held>>

(***************************************************************************)
(* hammer2_base_insert: appended, or put where the next greater one is by  *)
(* moving the references between there and the nearest hole, one before    *)
(* preferred to one after.                                                 *)
(***************************************************************************)
Hole(i) ==
    LET near(d) == {h \in {i - d, i + d} \cap Positions : base[h] = Empty}
        d == Least({n \in 1..Places : near(n) # {}})
    IN  Least(near(d))

Place(i, h, r) ==
    [p \in Positions |->
        CASE h < i /\ p \in h..(i - 2) -> base[p + 1]
          [] h < i /\ p = i - 1 -> r
          [] h > i /\ p \in (i + 1)..h -> base[p - 1]
          [] h > i /\ p = i -> r
          [] OTHER -> base[p]]

\* live_zero left alone when references move up into the hole.
BugZero(h) == live_zero

Zero(h) == IF live_zero <= h THEN h + 1 ELSE live_zero

base_insert(r) ==
    LET i == base_find(cache_index, r[1])
    IN  /\ \A q \in held : ~Overlap(q, r)
        /\ Cardinality(held) < Places
        /\ cache_index' = CacheAfter(cache_index, r[1])
        /\ held' = held \cup {r}
        /\ IF i = Places /\ live_zero < Places
           THEN /\ base' = [base EXCEPT ![live_zero] = r]
                /\ live_zero' = live_zero + 1
           ELSE /\ base' = Place(i, Hole(i), r)
                /\ live_zero' = IF Hole(i) > i THEN Zero(Hole(i)) ELSE live_zero

(***************************************************************************)
(* hammer2_base_delete: live_zero falls to the last reference left when it *)
(* was the last one that went.                                             *)
(***************************************************************************)
base_delete(r) ==
    LET i == base_find(cache_index, r[1])
        used == {p \in 0..(i - 1) : base[p] # Empty}
    IN  /\ r \in held
        /\ base' = [base EXCEPT ![i] = Empty]
        /\ live_zero' = IF live_zero # i + 1 THEN live_zero
                        ELSE IF used = {} THEN 0 ELSE Greatest(used) + 1
        /\ cache_index' = CacheAfter(cache_index, r[1])
        /\ held' = held \ {r}

\* The chain is dropped and loaded again: hammer2_chain_countbrefs.
countbrefs ==
    LET used == {p \in Positions : base[p] # Empty}
    IN  /\ live_zero' = IF used = {} THEN 0 ELSE Greatest(used) + 1
        /\ cache_index' = 0
        /\ cache_index # 0
        /\ UNCHANGED <<base, held>>

TableInit ==
    /\ base = [p \in Positions |-> Empty] /\ held = {}
    /\ live_zero = 0 /\ cache_index = 0

TableNext ==
    \/ \E r \in TableRefs : base_insert(r) \/ base_delete(r) \/ find(r[1])
    \/ countbrefs

TableSpec == TableInit /\ [][TableNext]_tableVars

(***************************************************************************)
(* Properties.                                                             *)
(***************************************************************************)
TableTypeOK ==
    /\ base \in [Positions -> TableRefs \cup {Empty}]
    /\ live_zero \in 0..Places /\ cache_index \in Positions
    /\ held \subseteq TableRefs

\* The array holds the references put in and not taken out, in the order of
\* their keys, and live_zero is the end of the used part: no reference is
\* lost or overwritten when others are moved aside (the validation at the
\* end of hammer2_base_insert).
TableExact ==
    LET used == {p \in Positions : base[p] # Empty}
    IN  /\ {base[p] : p \in used} = held
        /\ \A p, q \in used : p < q => base[p][2] < base[q][1]
        /\ used \subseteq 0..(live_zero - 1)
        /\ live_zero # 0 => live_zero - 1 \in used

\* Wherever the last search, perhaps of another thread, left cache_index
\* ("SMP RACE OK"), hammer2_base_find gives the reference with the smallest
\* keys that ends at or after the key asked for.
FindsNearest ==
    \A c \in Positions : \A k \in {r[1] : r \in TableRefs} :
        base_find(c, k) =
            Least({p \in Positions : base[p] # Empty /\ base[p][2] >= k}
                      \cup {Places})

\* A block array (hammer2_base_insert, hammer2_base_delete) that is exact and
\* in which every search, from wherever it starts, finds the nearest reference.
TableSound == TableTypeOK /\ TableExact /\ FindsNearest
=============================================================================
