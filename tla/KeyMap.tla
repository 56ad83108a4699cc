------------------------------- MODULE KeyMap -------------------------------
(***************************************************************************)
(* What the chain topology of one inode promises its callers: a map from   *)
(* keys to contents of which each call changes one key at most, and which  *)
(* nothing but a call changes - no load or drop of a chain, no split,      *)
(* collapse or flush.                                                      *)
(***************************************************************************)
EXTENDS Naturals

CONSTANTS Keys, Contents, Absent
VARIABLES map,   \* key -> contents
          done   \* calls made so far

KeyMapInit == map \in [Keys -> Contents \cup {Absent}] /\ done = 0

Create(k) == /\ map[k] = Absent
             /\ \E v \in Contents : map' = [map EXCEPT ![k] = v]

Change(k) == /\ map[k] # Absent
             /\ \E v \in Contents : map' = [map EXCEPT ![k] = v]

Remove(k) == /\ map[k] # Absent
             /\ map' = [map EXCEPT ![k] = Absent]

Look == UNCHANGED map

KeyMapNext == /\ \/ \E k \in Keys : Create(k) \/ Change(k) \/ Remove(k)
                 \/ Look
              /\ done' = done + 1

KeyMapSpec == KeyMapInit /\ [][KeyMapNext]_<<map, done>>
=============================================================================
