----------------------------- MODULE CacheProofs -----------------------------
(***************************************************************************)
(* Proofs about the buffers: Dio for any number of threads, buffers and    *)
(* dio structures; and Throttle, the limit on what writers leave unclean,  *)
(* for any number of mounts, files and writers.  There each mount is taken *)
(* alone (Alone), and what the writers leave in the buffer cache is        *)
(* bounded with those that no longer look at it (UncleanInv).              *)
(***************************************************************************)
EXTENDS Dio, Throttle, Counting

\* A step of the specification; the fairness plays no part in safety.
Step == [Next]_vars

Flags == {"GOOD", "DIRTY", "FLUSH"}
MyState == [dio : Dios \cup {NoDio}, b : Bufs \cup {NoBuf}, op : Ops]

-----------------------------------------------------------------------------
(* Type correctness.                                                         *)

\* The file system starts with an empty cache.
LEMMA TypeInit == Init => TypeOK
  BY DioAssumption DEF Init, TypeOK, NotADio, DioState, BufState, PCs, Nothing, Ops

\* A dio structure of the right type stays so, whichever fields are set.
LEMMA EditLock ==
  ASSUME NEW r \in DioState, NEW l \in Threads \cup {NoThread}
  PROVE  [r EXCEPT !.lock = l] \in DioState
  BY DEF DioState

\* A new reference count.
LEMMA EditRefs ==
  ASSUME NEW r \in DioState, NEW n \in Nat
  PROVE  [r EXCEPT !.refs = n] \in DioState
  BY DEF DioState

\* A new activity.
LEMMA EditAct ==
  ASSUME NEW r \in DioState, NEW a \in 0..ActMax
  PROVE  [r EXCEPT !.act = a] \in DioState
  BY DEF DioState

\* More flags.
LEMMA EditMarked ==
  ASSUME NEW r \in DioState, NEW fl \in SUBSET Flags
  PROVE  Marked(r, fl) \in DioState
  BY DEF DioState, Flags, Marked

\* The end of getblk.
LEMMA EditUnlocked ==
  ASSUME NEW r \in DioState, NEW hasbp \in BOOLEAN
  PROVE  Unlocked(r, hasbp) \in DioState
  BY DEF DioState, Unlocked

\* The last drop.
LEMMA EditDropped ==
  ASSUME NEW r \in DioState, NEW l \in Threads \cup {NoThread}
  PROVE  Dropped(r, l) \in DioState
  BY DEF DioState, Dropped

\* The lookup.
LEMMA EditTaken ==
  ASSUME NEW r \in DioState, NEW t \in Threads
  PROVE  Taken(r, t) \in DioState
<1>1. Bump(r.act) \in 0..ActMax /\ r.refs + 1 \in Nat
  BY DioAssumption DEF DioState, Bump
<1> QED BY <1>1 DEF DioState, Taken

\* So does a buffer of the system.
LEMMA EditBuf ==
  ASSUME NEW w \in BufState
  PROVE  /\ [w EXCEPT !.cur = TRUE] \in BufState
         /\ [w EXCEPT !.st = "idle"] \in BufState
         /\ [w EXCEPT !.st = "writing", !.delwri = FALSE] \in BufState
         /\ [w EXCEPT !.st = "none", !.cur = FALSE] \in BufState
  BY DEF BufState

\* A buffer a getblk or a read hands out.
LEMMA EditBusy ==
  ASSUME NEW w \in BufState, NEW c \in BOOLEAN
  PROVE  [w EXCEPT !.st = "busy", !.cur = c] \in BufState
  BY DEF BufState

\* And what a thread remembers of its lookup.
LEMMA MyEdits ==
  ASSUME NEW m \in MyState, NEW d \in Dios
  PROVE  [m EXCEPT !.dio = d] \in MyState
  BY DEF MyState

\* What every way out of getblk does to the types.
LEMMA ReturnTypes ==
  ASSUME TypeOK, NEW t \in Threads, NEW where \in PCs,
         NEW set \in SUBSET Flags, NEW hasbp,
         my[t].dio \in Dios => hasbp \in BOOLEAN, Return(t, where, set, hasbp)
  PROVE  /\ dio' \in [Dios -> DioState] /\ my' \in [Threads -> MyState]
         /\ pc' \in [Threads -> PCs]
         /\ hashed' = hashed /\ iohash' = iohash /\ iofree' = iofree
<1>1. ASSUME NEW r \in DioState, hasbp \in BOOLEAN
      PROVE Unlocked(Marked(r, set), hasbp) \in DioState
  BY <1>1, EditMarked, EditUnlocked
<1>2. dio' \in [Dios -> DioState]
  BY <1>1 DEF TypeOK, Return
<1>3. my' \in [Threads -> MyState]
  <2>1. "READ" \in Ops /\ my \in [Threads -> MyState]
    BY DEF Ops, TypeOK, MyState
  <2>2. [my[t] EXCEPT !.op = "READ"] \in MyState
    BY <2>1 DEF MyState
  <2> QED BY <2>1, <2>2 DEF Return
<1> QED BY <1>2, <1>3 DEF TypeOK, Return, Goto

\* What the last drop does to the types, whoever keeps the dio locked.
LEMMA LastDropTypes ==
  ASSUME TypeOK, NEW t \in Threads, NEW o \in Threads \cup {NoThread},
         LastDrop(t, o)
  PROVE  /\ dio' \in [Dios -> DioState] /\ buf' \in [Bufs -> BufState]
         /\ hashed' = hashed /\ iohash' = iohash /\ disk' = disk
<1>1. ASSUME NEW r \in DioState PROVE Dropped(r, o) \in DioState
  BY EditDropped
<1>2. ASSUME NEW w \in BufState, NEW fl PROVE Disposed(w, fl) \in BufState
  <2>1. /\ [w EXCEPT !.st = "writing", !.delwri = FALSE] \in BufState
        /\ [w EXCEPT !.st = "idle", !.delwri = TRUE] \in BufState
        /\ [w EXCEPT !.st = "idle"] \in BufState
    BY DEF BufState
  <2> QED BY <2>1 DEF Disposed
<1>3. dio' \in [Dios -> DioState]
  BY <1>1 DEF TypeOK, LastDrop
<1>4. buf' \in [Bufs -> BufState]
  BY <1>2 DEF TypeOK, LastDrop
<1> QED BY <1>3, <1>4 DEF LastDrop

\* A cleanup frees dios of the hash, and forgets no other.
LEMMA CleanupTypes ==
  ASSUME TypeOK, NEW scanned \in SUBSET Unused,
         NEW age \in [scanned -> 0..ActMax], Cleanup(scanned, age)
  PROVE  /\ dio' \in [Dios -> DioState]
         /\ hashed' \subseteq hashed /\ iofree' \in Int
<1>1. NotADio \in DioState
  BY DioAssumption DEF NotADio, DioState
<1>2. ASSUME NEW r \in DioState, NEW a \in 0..ActMax
      PROVE [r EXCEPT !.act = a] \in DioState
  BY EditAct
<1>3. ASSUME NEW d \in Dios PROVE dio'[d] \in DioState
  BY <1>1, <1>2 DEF Cleanup, Unused, TypeOK
<1>4. dio' \in [Dios -> DioState]
  BY <1>3 DEF Cleanup
<1>5. IsFiniteSet({d \in scanned : age[d] = 0})
  BY DioAssumption, FS_Subset DEF Unused, TypeOK
<1> QED BY <1>4, <1>5, FS_CardinalityType DEF Cleanup, Free, TypeOK

\* Every step keeps the types.
LEMMA TypeStep == ASSUME TypeOK, Step PROVE TypeOK'
<1> USE DioAssumption DEF TypeOK, MyState
<1>my. ASSUME NEW t \in Threads, my' = [my EXCEPT ![t] = Nothing]
       PROVE my' \in [Threads -> MyState]
  BY <1>my DEF Nothing, Ops
<1>1. ASSUME NEW t \in Threads, Inside(t) PROVE TypeOK'
  <2>1. CASE LockHash(t)
    BY <2>1 DEF LockHash, Goto, bioVars, PCs
  <2>2. CASE LookupMiss(t)
    BY <2>2 DEF LookupMiss, Goto, bioVars, PCs
  <2>3. CASE LookupNone(t)
    BY <2>3, <1>my DEF LookupNone, Leave, Goto, bioVars, PCs
  <2>4. ASSUME NEW d \in Dios, LookupHit(t, d) PROVE TypeOK'
    <3>1. dio' \in [Dios -> DioState]
      BY <2>4, EditTaken DEF LookupHit
    <3>2. my' \in [Threads -> MyState]
      BY <2>4, MyEdits DEF LookupHit
    <3> QED BY <2>4, <3>1, <3>2 DEF LookupHit, Goto, bioVars, PCs
  <2>5. ASSUME NEW d \in Dios, LookupCreate(t, d) PROVE TypeOK'
    <3>1. Bump(ActInit) \in 0..ActMax
      BY DEF Bump
    <3>2. dio' \in [Dios -> DioState]
      BY <2>5, <3>1 DEF LookupCreate, DioState
    <3>3. my' \in [Threads -> MyState]
      BY <2>5, MyEdits DEF LookupCreate
    <3> QED BY <2>5, <3>2, <3>3 DEF LookupCreate, Goto, bioVars, PCs
  <2>6. CASE GetGood(t)
    <3>1. buf' \in [Bufs -> BufState] /\ disk' \in [Bufs -> BOOLEAN]
      <4>1. CASE my[t].op \in {"NEW", "NEWFULL"}
        <5>1. /\ buf' = [buf EXCEPT ![my[t].b] = [buf[my[t].b] EXCEPT !.cur = TRUE]]
              /\ disk' = [disk EXCEPT ![my[t].b] = FALSE]
          BY <2>6, <4>1 DEF GetGood
        <5> QED BY <5>1, EditBuf
      <4>2. CASE my[t].op \in {"READ", "READQ"}
        BY <2>6, <4>2 DEF GetGood, bioVars
      <4> QED BY <2>6, <4>1, <4>2 DEF GetGood
    <3>2. \E set \in SUBSET Flags : Return(t, "held", set, dio[my[t].dio].bp)
      BY <2>6 DEF GetGood, Flags
    <3>3. my[t].dio \in Dios => dio[my[t].dio].bp \in BOOLEAN
      BY DEF DioState
    <3> QED BY <3>1, <3>2, <3>3, ReturnTypes DEF PCs
  <2>7. CASE GetNew(t)
    <3>1. buf' \in [Bufs -> BufState] /\ disk' \in [Bufs -> BOOLEAN]
      BY <2>7 DEF GetNew, BufState
    <3>2. Return(t, "held", {"DIRTY", "GOOD"}, TRUE)
      BY <2>7 DEF GetNew
    <3> QED BY <3>1, <3>2, ReturnTypes DEF PCs, Flags
  <2>8. CASE GetRead(t)
    <3>1. buf' \in [Bufs -> BufState] /\ disk' \in [Bufs -> BOOLEAN]
      <4>1. PICK c \in BOOLEAN, e \in BOOLEAN :
              /\ buf' = [buf EXCEPT ![my[t].b] =
                            [buf[my[t].b] EXCEPT !.st = "busy", !.cur = c]]
              /\ disk' = [disk EXCEPT ![my[t].b] = e]
        BY <2>8, Zenon DEF GetRead
      <4>2. my[t].b \in Bufs => buf[my[t].b] \in BufState
        OBVIOUS
      <4>3. buf' \in [Bufs -> BufState]
        BY <4>1, <4>2, EditBusy
      <4> QED BY <4>1, <4>3
    <3>2. \E set \in SUBSET Flags : Return(t, "held", set, TRUE)
      BY <2>8 DEF GetRead, Flags
    <3> QED BY <3>1, <3>2, ReturnTypes DEF PCs
  <2>9. CASE GetError(t)
    BY <2>9, ReturnTypes DEF GetError, bioVars, PCs, Flags
  <2>10. CASE GetDedup(t)
    <3>1. my[t].dio \in Dios => dio[my[t].dio].bp \in BOOLEAN
      BY DEF DioState
    <3> QED BY <2>10, <3>1, ReturnTypes DEF GetDedup, bioVars, PCs, Flags
  <2>11. CASE PutShared(t)
    <3>1. my[t].dio \in Dios =>
            [dio[my[t].dio] EXCEPT !.refs = dio[my[t].dio].refs - 1] \in DioState
      <4>1. my[t].dio \in Dios => dio[my[t].dio].refs - 1 \in Nat
        BY <2>11 DEF PutShared, DioState
      <4> QED BY <4>1, EditRefs
    <3>2. dio' \in [Dios -> DioState]
      BY <2>11, <3>1 DEF PutShared
    <3> QED BY <2>11, <3>2, <1>my DEF PutShared, Leave, Goto, bioVars, PCs
  <2>12. CASE PutLastWrite(t)
    BY <2>12, LastDropTypes DEF PutLastWrite, Goto, PCs
  <2>13. CASE PutLast(t)
    <3>1. iofree' \in Int
      BY <2>13 DEF PutLast
    <3> QED BY <2>13, <3>1, <1>my, LastDropTypes DEF PutLast, Goto, PCs
  <2>14. CASE PutDone(t)
    <3>1. dio' \in [Dios -> DioState]
      BY <2>14, EditLock DEF PutDone
    <3>2. iofree' \in Int
      BY <2>14 DEF PutDone
    <3> QED BY <2>14, <3>1, <3>2, <1>my DEF PutDone, Goto, bioVars, PCs
  <2>15. CASE PutClean(t)
    <3>1. dio' \in [Dios -> DioState] /\ hashed' \subseteq hashed /\ iofree' \in Int
      BY <2>15, CleanupTypes DEF PutClean
    <3> QED BY <2>15, <3>1, <1>my DEF PutClean, Leave, Goto, bioVars, PCs
  <2> QED BY <1>1, <2>1, <2>2, <2>3, <2>4, <2>5, <2>6, <2>7, <2>8, <2>9, <2>10,
             <2>11, <2>12, <2>13, <2>14, <2>15 DEF Inside
<1>2. ASSUME NEW t \in Threads, Outside(t) PROVE TypeOK'
  <2>1. ASSUME NEW b \in Bufs, NEW op \in Ops, GetBlk(t, b, op) PROVE TypeOK'
    BY <2>1 DEF GetBlk, Goto, bioVars, PCs
  <2>2. CASE Store(t)
    <3>1. buf' \in [Bufs -> BufState]
      BY <2>2, EditBuf DEF Store
    <3>2. pc' \in [Threads -> PCs]
      BY <2>2 DEF Store, Goto, PCs
    <3> QED BY <2>2, <3>1, <3>2 DEF Store
  <2>3. CASE SetDirty(t)
    <3>1. dio' \in [Dios -> DioState]
      BY <2>3, EditMarked DEF SetDirty, Flags
    <3> QED BY <2>3, <3>1 DEF SetDirty, Goto, bioVars, PCs
  <2>4. ASSUME NEW mark \in {{}, {"DIRTY"}, {"DIRTY", "FLUSH"}},
               Release(t, mark) PROVE TypeOK'
    <3>1. dio' \in [Dios -> DioState]
      BY <2>4, EditMarked DEF Release, Flags
    <3> QED BY <2>4, <3>1 DEF Release, Goto, bioVars, PCs
  <2> QED BY <1>2, <2>1, <2>2, <2>3, <2>4 DEF Outside
<1>3. ASSUME NEW b \in Bufs, Bio(b) PROVE TypeOK'
  <2>1. buf' \in [Bufs -> BufState]
    <3>1. \E w \in BufState : buf' = [buf EXCEPT ![b] = w]
      BY <1>3, EditBuf DEF Bio, WriteDone, StartDelayed, Evict
    <3> QED BY <3>1
  <2>2. disk' \in [Bufs -> BOOLEAN]
    BY <1>3 DEF Bio, WriteDone, StartDelayed, Evict, BufState
  <2> QED BY <1>3, <2>1, <2>2 DEF Bio, WriteDone, StartDelayed, Evict
<1>4. CASE CleanupAll
  <2>1. dio' \in [Dios -> DioState]
    BY <1>4 DEF CleanupAll, NotADio, DioState
  <2>2. iofree' \in Int
    BY <1>4, FS_Subset, FS_CardinalityType DEF CleanupAll, Free
  <2> QED BY <1>4, <2>1, <2>2 DEF CleanupAll, Free, bioVars
<1>5. CASE UNCHANGED vars
  BY <1>5 DEF vars, bioVars
<1> QED BY <1>1, <1>2, <1>3, <1>4, <1>5 DEF Step, Next

\* Every variable keeps its type, with any number of threads and buffers.
THEOREM TypeCorrect == Spec => []TypeOK
  BY TypeInit, TypeStep, PTL DEF Spec, Step

-----------------------------------------------------------------------------
(* The hash: one dio per buffer.                                             *)

HashInv == HashOwner /\ MissStands /\ OneDioPerBuffer

\* A step that adds no dio and moves no thread to the entry keeps the hash.
LEMMA HashKept ==
  ASSUME HashInv, hashed' \subseteq hashed,
         \A d \in hashed' : dio'[d].pbase = dio[d].pbase,
         iohash' = iohash,
         \A u \in Threads : pc'[u] \in {"lookup", "create"} =>
            pc'[u] = pc[u] /\ my'[u].b = my[u].b
  PROVE  HashInv'
  BY DEF HashInv, HashOwner, MissStands, OneDioPerBuffer

\* The same when the owner gives the hash lock back.
LEMMA HashReleased ==
  ASSUME TypeOK, HashInv, NEW t \in Threads,
         pc[t] \in {"lookup", "create"}, pc'[t] \notin {"lookup", "create"},
         \A u \in Threads \ {t} : pc'[u] = pc[u] /\ my'[u] = my[u],
         OneDioPerBuffer'
  PROVE  HashInv'
  BY DEF HashInv, HashOwner, MissStands

\* A cleanup ages the dios it keeps, and the ones it frees had no references.
LEMMA CleanupKeeps ==
  ASSUME TypeOK, NEW t \in Threads, PutClean(t)
  PROVE  /\ hashed' \subseteq hashed
         /\ iofree' = iofree - Cardinality(hashed \ hashed')
         /\ \A d \in hashed \ hashed' : dio[d].refs = 0
         /\ \A d \in hashed' : /\ dio'[d].pbase = dio[d].pbase
                              /\ dio'[d].refs = dio[d].refs
                              /\ dio'[d].flags = dio[d].flags
                              /\ dio'[d].bp = dio[d].bp
<1>1. CASE UNCHANGED <<dio, hashed, iofree>>
  <2>1. hashed \ hashed' = {}
    BY <1>1
  <2>2. iofree' = iofree - 0
    BY <1>1 DEF TypeOK
  <2> QED BY <1>1, <2>1, <2>2, FS_EmptySet
<1>2. CASE \E scanned \in SUBSET Unused :
             \E age \in [scanned -> 0..ActMax] : Cleanup(scanned, age)
  <2>1. PICK scanned \in SUBSET Unused :
          \E age \in [scanned -> 0..ActMax] : Cleanup(scanned, age)
    BY <1>2
  <2>2. PICK age \in [scanned -> 0..ActMax] : Cleanup(scanned, age)
    BY <2>1
  <2> DEFINE F == {d \in scanned : age[d] = 0}
  <2>3. /\ hashed' = hashed \ F /\ iofree' = iofree - Cardinality(F)
        /\ \A d \in hashed' : dio'[d] = dio[d]
              \/ dio'[d] = [dio[d] EXCEPT !.act = age[d]]
    BY <2>2 DEF Cleanup, Free, TypeOK
  <2>4. F \subseteq hashed /\ \A d \in F : dio[d].refs = 0
    BY DEF Unused
  <2> HIDE DEF F
  <2>5. hashed \ hashed' = F
    BY <2>3, <2>4
  <2>6. ASSUME NEW d \in hashed', NEW x,
               dio'[d] = dio[d] \/ dio'[d] = [dio[d] EXCEPT !.act = x]
        PROVE  /\ dio'[d].pbase = dio[d].pbase /\ dio'[d].refs = dio[d].refs
               /\ dio'[d].flags = dio[d].flags /\ dio'[d].bp = dio[d].bp
    BY <2>3, <2>6 DEF TypeOK, DioState
  <2> QED BY <2>3, <2>4, <2>5, <2>6
<1> QED BY <1>1, <1>2 DEF PutClean

\* Every step keeps the hash free of duplicates.
LEMMA HashStep == ASSUME TypeOK, HashInv, Step PROVE HashInv'
<1> USE DioAssumption
<1>ret. ASSUME NEW t \in Threads, NEW where \in {"held", "put"}, NEW set,
               NEW hasbp, pc[t] = "getblk", Return(t, where, set, hasbp)
        PROVE  HashInv'
  BY <1>ret, HashKept DEF Return, Marked, Unlocked, Goto, TypeOK, DioState
<1>1. ASSUME NEW t \in Threads, Inside(t) PROVE HashInv'
  <2>1. CASE LockHash(t)
    BY <2>1 DEF LockHash, Goto, HashInv, HashOwner, MissStands,
                OneDioPerBuffer, TypeOK
  <2>2. CASE LookupMiss(t)
    BY <2>2 DEF LookupMiss, Miss, Goto, HashInv, HashOwner, MissStands,
                OneDioPerBuffer, TypeOK
  <2>3. CASE LookupNone(t)
    <3>1. OneDioPerBuffer'
      BY <2>3 DEF LookupNone, HashInv, OneDioPerBuffer
    <3> QED BY <2>3, <3>1, HashReleased DEF LookupNone, Miss, Leave, Goto, TypeOK
  <2>4. ASSUME NEW d \in Dios, LookupHit(t, d) PROVE HashInv'
    <3>1. \A e \in hashed : dio'[e].pbase = dio[e].pbase
      BY <2>4 DEF LookupHit, Taken, TypeOK, DioState
    <3>2. OneDioPerBuffer'
      BY <2>4, <3>1 DEF LookupHit, HashInv, OneDioPerBuffer
    <3> QED BY <2>4, <3>2, HashReleased DEF LookupHit, Goto, TypeOK
  <2>5. ASSUME NEW d \in Dios, LookupCreate(t, d) PROVE HashInv'
    <3>1. /\ dio'[d].pbase = my[t].b
          /\ \A e \in hashed : dio'[e].pbase = dio[e].pbase
      BY <2>5 DEF LookupCreate, TypeOK
    <3>2. OneDioPerBuffer'
      BY <2>5, <3>1 DEF LookupCreate, HashInv, OneDioPerBuffer, MissStands
    <3> QED BY <2>5, <3>2, HashReleased DEF LookupCreate, Goto, TypeOK
  <2>6. CASE GetGood(t) \/ GetNew(t) \/ GetRead(t) \/ GetError(t) \/ GetDedup(t)
    BY <2>6, <1>ret DEF GetGood, GetNew, GetRead, GetError, GetDedup
  <2>7. CASE PutShared(t)
    BY <2>7, HashKept DEF PutShared, Leave, Goto, TypeOK, DioState
  <2>8. ASSUME NEW o, LastDrop(t, o)
        PROVE  hashed' = hashed /\ iohash' = iohash
               /\ \A d \in hashed : dio'[d].pbase = dio[d].pbase
    BY <2>8 DEF LastDrop, Dropped, TypeOK, DioState
  <2>9. CASE PutLastWrite(t)
    BY <2>8, <2>9, HashKept DEF PutLastWrite, Goto, TypeOK
  <2>10. CASE PutLast(t)
    BY <2>8, <2>10, HashKept DEF PutLast, Goto, TypeOK
  <2>11. CASE PutDone(t)
    BY <2>11, HashKept DEF PutDone, Goto, TypeOK, DioState
  <2>12. CASE PutClean(t)
    BY <2>12, CleanupKeeps, HashKept DEF PutClean, Leave, Goto, TypeOK
  <2> QED BY <1>1, <2>1, <2>2, <2>3, <2>4, <2>5, <2>6, <2>7, <2>9, <2>10,
             <2>11, <2>12 DEF Inside
<1>2. ASSUME NEW t \in Threads, Outside(t) PROVE HashInv'
  <2>1. ASSUME NEW b \in Bufs, NEW op \in Ops, GetBlk(t, b, op) PROVE HashInv'
    BY <2>1, HashKept DEF GetBlk, Goto, TypeOK
  <2>2. CASE Store(t)
    BY <2>2, HashKept DEF Store, Goto, TypeOK
  <2>3. CASE SetDirty(t)
    BY <2>3, HashKept DEF SetDirty, Marked, Goto, TypeOK, DioState
  <2>4. ASSUME NEW mark, Release(t, mark) PROVE HashInv'
    BY <2>4, HashKept DEF Release, Marked, Goto, TypeOK, DioState
  <2> QED BY <1>2, <2>1, <2>2, <2>3, <2>4 DEF Outside
<1>3. ASSUME NEW b \in Bufs, Bio(b) PROVE HashInv'
  BY <1>3, HashKept DEF Bio, WriteDone, StartDelayed, Evict
<1>4. CASE CleanupAll
  BY <1>4, HashKept DEF CleanupAll, Free
<1>5. CASE UNCHANGED vars
  BY <1>5, HashKept DEF vars
<1> QED BY <1>1, <1>2, <1>3, <1>4, <1>5 DEF Step, Next

\* No two dios of the hash stand for the same buffer, however many threads
\* look buffers up at once.
THEOREM OneDio == Spec => []OneDioPerBuffer
<1>1. Init => HashInv
  BY DEF Init, HashInv, HashOwner, MissStands, OneDioPerBuffer
<1>2. TypeOK /\ HashInv /\ Step => HashInv'
  BY HashStep
<1>3. HashInv => OneDioPerBuffer
  BY DEF HashInv
<1> QED BY <1>1, <1>2, <1>3, TypeCorrect, PTL DEF Spec, Step

-----------------------------------------------------------------------------
(* References: dio->refs counts the threads that hold the dio.               *)

RefInv == HoldersHashed /\ RefsAreHolders

\* Finitely many threads hold a dio.
LEMMA FiniteHolders == ASSUME NEW d PROVE IsFiniteSet(Holders(d))
  BY DioAssumption, FS_Subset DEF Holders

\* A step after which the same threads hold the same dios.
LEMMA RefsKept ==
  ASSUME RefInv, hashed' \subseteq hashed,
         \A d \in hashed' : dio'[d].refs = dio[d].refs,
         \A d \in hashed \ hashed' : dio[d].refs = 0,
         \A u \in Threads : pc'[u] \in HasRef <=> pc[u] \in HasRef,
         \A u \in Threads : pc[u] \in HasRef => my'[u].dio = my[u].dio
  PROVE  RefInv'
<1>1. \A d : Holders(d)' = Holders(d)
  BY DEF Holders
<1>2. ASSUME NEW t \in Threads, pc'[t] \in HasRef PROVE my'[t].dio \in hashed'
  <2>1. my[t].dio \in hashed /\ my'[t].dio = my[t].dio
    BY <1>2 DEF RefInv, HoldersHashed
  <2>2. Holders(my[t].dio) # {}
    BY <1>2 DEF Holders
  <2>3. dio[my[t].dio].refs # 0
    BY <2>1, <2>2, FiniteHolders, FS_EmptySet DEF RefInv, RefsAreHolders
  <2> QED BY <2>1, <2>3
<1> QED BY <1>1, <1>2 DEF RefInv, HoldersHashed, RefsAreHolders

\* A step by which one thread takes one reference.
LEMMA RefTaken ==
  ASSUME TypeOK, RefInv, NEW t \in Threads, NEW d \in hashed',
         hashed' \subseteq hashed \cup {d}, hashed \subseteq hashed',
         \A e \in hashed : e # d => dio'[e].refs = dio[e].refs,
         \A u \in Threads \ {t} : pc'[u] = pc[u] /\ my'[u] = my[u],
         pc[t] \notin HasRef, pc'[t] \in HasRef, my'[t].dio = d,
         dio'[d].refs = Cardinality(Holders(d)) + 1
  PROVE  RefInv'
<1>1. Holders(d)' = Holders(d) \cup {t} /\ t \notin Holders(d)
  BY DEF Holders
<1>2. \A e : e # d => Holders(e)' = Holders(e)
  BY DEF Holders
<1>3. Cardinality(Holders(d) \cup {t}) = Cardinality(Holders(d)) + 1
  BY <1>1, FiniteHolders, FS_AddElement
<1>4. ASSUME NEW e \in hashed'
      PROVE  dio'[e].refs = Cardinality(Holders(e)')
  <2>1. CASE e = d
    BY <2>1, <1>1, <1>3
  <2>2. CASE e # d
    BY <2>2, <1>2 DEF RefInv, RefsAreHolders
  <2> QED BY <2>1, <2>2
<1> QED BY <1>4 DEF RefInv, HoldersHashed, RefsAreHolders

\* The step that gives one back.
LEMMA RefDropped ==
  ASSUME TypeOK, RefInv, NEW t \in Threads, pc[t] \in HasRef,
         pc'[t] \notin HasRef, hashed' = hashed,
         NEW d, my[t].dio = d, dio'[d].refs = dio[d].refs - 1,
         \A e \in hashed : e # d => dio'[e].refs = dio[e].refs,
         \A u \in Threads \ {t} : pc'[u] = pc[u] /\ my'[u] = my[u]
  PROVE  RefInv'
<1>1. Holders(d)' = Holders(d) \ {t} /\ t \in Holders(d)
  BY DEF Holders
<1>2. \A e : e # d => Holders(e)' = Holders(e)
  BY DEF Holders
<1>3. Cardinality(Holders(d) \ {t}) = Cardinality(Holders(d)) - 1
  BY <1>1, FiniteHolders, FS_RemoveElement
<1>4. ASSUME NEW e \in hashed
      PROVE  dio'[e].refs = Cardinality(Holders(e)')
  <2>1. CASE e = d
    BY <2>1, <1>1, <1>3 DEF RefInv, RefsAreHolders
  <2>2. CASE e # d
    BY <2>2, <1>2 DEF RefInv, RefsAreHolders
  <2> QED BY <2>1, <2>2
<1> QED BY <1>4 DEF RefInv, HoldersHashed, RefsAreHolders

\* A thread about to put has its dio in the hash; the last one drops it to zero.
LEMMA LastDropRefs ==
  ASSUME TypeOK, RefInv, NEW t \in Threads, NEW o, LastDrop(t, o)
  PROVE  /\ hashed' = hashed /\ my[t].dio \in hashed
         /\ dio[my[t].dio].refs = 1 /\ dio'[my[t].dio].refs = 0
         /\ \A e \in hashed : e # my[t].dio => dio'[e].refs = dio[e].refs
<1>1. my[t].dio \in hashed
  BY DEF LastDrop, RefInv, HoldersHashed, HasRef
<1> QED BY <1>1 DEF LastDrop, Dropped, TypeOK, DioState

\* Every step keeps the references counted.
LEMMA RefStep == ASSUME TypeOK, RefInv, Step PROVE RefInv'
<1> USE DioAssumption
<1>ret. ASSUME NEW t \in Threads, NEW where \in {"held", "put"}, NEW set,
               NEW hasbp, pc[t] = "getblk", Return(t, where, set, hasbp)
        PROVE  RefInv'
  <2>1. \A d \in hashed : dio'[d].refs = dio[d].refs
    BY <1>ret DEF Return, Marked, Unlocked, TypeOK, DioState
  <2> QED BY <1>ret, <2>1, RefsKept DEF Return, Goto, TypeOK, HasRef
<1>1. ASSUME NEW t \in Threads, Inside(t) PROVE RefInv'
  <2>1. CASE LockHash(t) \/ LookupMiss(t)
    BY <2>1, RefsKept DEF LockHash, LookupMiss, Miss, Goto, HasRef, TypeOK
  <2>2. CASE LookupNone(t)
    BY <2>2, RefsKept DEF LookupNone, Miss, Leave, Goto, HasRef, TypeOK
  <2>3. ASSUME NEW d \in Dios, LookupHit(t, d) PROVE RefInv'
    <3>1. dio'[d].refs = dio[d].refs + 1
      BY <2>3 DEF LookupHit, Taken, TypeOK, DioState
    <3>2. dio[d].refs = Cardinality(Holders(d))
      BY <2>3 DEF LookupHit, RefInv, RefsAreHolders
    <3> QED BY <2>3, <3>1, <3>2, RefTaken DEF LookupHit, Goto, HasRef, TypeOK
  <2>4. ASSUME NEW d \in Dios, LookupCreate(t, d) PROVE RefInv'
    <3>1. Holders(d) = {}
      BY <2>4 DEF LookupCreate, Holders
    <3>2. dio'[d].refs = Cardinality(Holders(d)) + 1
      BY <2>4, <3>1, FS_EmptySet DEF LookupCreate, TypeOK
    <3> QED BY <2>4, <3>2, RefTaken DEF LookupCreate, Goto, HasRef, TypeOK
  <2>5. CASE GetGood(t) \/ GetNew(t) \/ GetRead(t) \/ GetError(t) \/ GetDedup(t)
    BY <2>5, <1>ret DEF GetGood, GetNew, GetRead, GetError, GetDedup
  <2>6. CASE PutShared(t)
    <3>1. dio'[my[t].dio].refs = dio[my[t].dio].refs - 1
      BY <2>6 DEF PutShared, TypeOK, DioState, RefInv, HoldersHashed, HasRef
    <3> QED BY <2>6, <3>1, RefDropped DEF PutShared, Leave, Goto, HasRef, TypeOK
  <2>7. CASE PutLastWrite(t)
    <3> DEFINE d == my[t].dio
    <3>1. LastDrop(t, t) /\ pc[t] = "put" /\ Goto(t, "dispose")
          /\ \A u \in Threads \ {t} : my'[u] = my[u]
      BY <2>7 DEF PutLastWrite, LastDrop, TypeOK
    <3>2. /\ hashed' = hashed /\ dio'[d].refs = dio[d].refs - 1
          /\ \A e \in hashed : e # d => dio'[e].refs = dio[e].refs
      BY <3>1, LastDropRefs
    <3>3. /\ pc[t] \in HasRef /\ pc'[t] \notin HasRef
          /\ \A u \in Threads \ {t} : pc'[u] = pc[u]
      BY <3>1 DEF Goto, HasRef, TypeOK
    <3> HIDE DEF d
    <3>4. my[t].dio = d
      BY DEF d
    <3> QED BY <3>1, <3>2, <3>3, <3>4, RefDropped
  <2>8. CASE PutLast(t)
    <3> DEFINE d == my[t].dio
    <3>1. LastDrop(t, NoThread) /\ pc[t] = "put" /\ Goto(t, "clean")
          /\ \A u \in Threads \ {t} : my'[u] = my[u]
      BY <2>8 DEF PutLast, LastDrop, TypeOK
    <3>2. /\ hashed' = hashed /\ dio'[d].refs = dio[d].refs - 1
          /\ \A e \in hashed : e # d => dio'[e].refs = dio[e].refs
      BY <3>1, LastDropRefs
    <3>3. /\ pc[t] \in HasRef /\ pc'[t] \notin HasRef
          /\ \A u \in Threads \ {t} : pc'[u] = pc[u]
      BY <3>1 DEF Goto, HasRef, TypeOK
    <3> HIDE DEF d
    <3>4. my[t].dio = d
      BY DEF d
    <3> QED BY <3>1, <3>2, <3>3, <3>4, RefDropped
  <2>9. CASE PutDone(t)
    BY <2>9, RefsKept DEF PutDone, Goto, HasRef, TypeOK, DioState
  <2>10. CASE PutClean(t)
    BY <2>10, CleanupKeeps, RefsKept DEF PutClean, Leave, Goto, HasRef, TypeOK
  <2> QED BY <1>1, <2>1, <2>2, <2>3, <2>4, <2>5, <2>6, <2>7, <2>8, <2>9, <2>10
          DEF Inside
<1>2. ASSUME NEW t \in Threads, Outside(t) PROVE RefInv'
  <2>1. ASSUME NEW b \in Bufs, NEW op \in Ops, GetBlk(t, b, op) PROVE RefInv'
    BY <2>1, RefsKept DEF GetBlk, Goto, HasRef, TypeOK
  <2>2. CASE Store(t)
    BY <2>2, RefsKept DEF Store, Goto, HasRef, TypeOK
  <2>3. CASE SetDirty(t)
    BY <2>3, RefsKept DEF SetDirty, Marked, Goto, HasRef, TypeOK, DioState
  <2>4. ASSUME NEW mark, Release(t, mark) PROVE RefInv'
    BY <2>4, RefsKept DEF Release, Marked, Goto, HasRef, TypeOK, DioState
  <2> QED BY <1>2, <2>1, <2>2, <2>3, <2>4 DEF Outside
<1>3. ASSUME NEW b \in Bufs, Bio(b) PROVE RefInv'
  BY <1>3, RefsKept DEF Bio, WriteDone, StartDelayed, Evict
<1>4. CASE CleanupAll
  BY <1>4 DEF CleanupAll, Free, RefInv, HoldersHashed, RefsAreHolders, HasRef
<1>5. CASE UNCHANGED vars
  BY <1>5, RefsKept DEF vars
<1> QED BY <1>1, <1>2, <1>3, <1>4, <1>5 DEF Step, Next

\* dio->refs is the number of threads between their lookup and their put, so
\* the "lost race" return of hammer2_io_putblk is never taken.
THEOREM RefsExact == Spec => []RefsAreHolders
<1>1. Init => RefInv
  BY DEF Init, RefInv, HoldersHashed, RefsAreHolders, HasRef
<1>2. TypeOK /\ RefInv /\ Step => RefInv'
  BY RefStep
<1>3. RefInv => RefsAreHolders
  BY DEF RefInv
<1> QED BY <1>1, <1>2, <1>3, TypeCorrect, PTL DEF Spec, Step

\* A dio that some thread references is never freed nor taken out of the hash,
\* though hammer2_io_hash_cleanup only holds the hash lock.
THEOREM ReferencedStays == Spec => []HoldersHashed
<1>1. Init => RefInv
  BY DEF Init, RefInv, HoldersHashed, RefsAreHolders, HasRef
<1>2. TypeOK /\ RefInv /\ Step => RefInv'
  BY RefStep
<1>3. RefInv => HoldersHashed
  BY DEF RefInv
<1> QED BY <1>1, <1>2, <1>3, TypeCorrect, PTL DEF Spec, Step

-----------------------------------------------------------------------------
(* iofree_count.                                                             *)

\* The sets that are counted are finite.
LEMMA FiniteCounts ==
  ASSUME TypeOK PROVE IsFiniteSet(Unused) /\ IsFiniteSet(Disposing)
<1>1. Unused \subseteq Dios /\ Disposing \subseteq Threads
  BY DEF Unused, Disposing, TypeOK
<1> QED BY <1>1, DioAssumption, FS_Subset

\* A step that neither drops a last reference nor takes a first one.
LEMMA CountKept ==
  ASSUME IofreeCounts, iofree' = iofree, hashed' = hashed,
         \A d \in hashed : dio'[d].refs = 0 <=> dio[d].refs = 0,
         \A u \in Threads : pc'[u] = "dispose" <=> pc[u] = "dispose"
  PROVE  IofreeCounts'
<1>1. Unused' = Unused /\ Disposing' = Disposing
  BY DEF Unused, Disposing
<1> QED BY <1>1 DEF IofreeCounts

\* The lookup of an unused dio takes it out of the count.
LEMMA CountHit ==
  ASSUME TypeOK, IofreeCounts, NEW t \in Threads, NEW d \in Dios,
         LookupHit(t, d)
  PROVE  IofreeCounts'
<1>1. /\ d \in hashed /\ dio'[d].refs = dio[d].refs + 1 /\ dio[d].refs \in Nat
      /\ \A e \in hashed : e # d => dio'[e].refs = dio[e].refs
      /\ hashed' = hashed
  BY DEF LookupHit, Taken, TypeOK, DioState
<1>2. Disposing' = Disposing
  BY DEF LookupHit, Goto, Disposing, TypeOK
<1>3. CASE dio[d].refs = 0
  <2>1. d \in Unused /\ Unused' = Unused \ {d} /\ iofree' = iofree - 1
    BY <1>1, <1>3 DEF Unused, LookupHit
  <2>2. Cardinality(Unused \ {d}) = Cardinality(Unused) - 1
    BY <2>1, FiniteCounts, FS_RemoveElement
  <2>3. Cardinality(Unused) \in Nat /\ Cardinality(Disposing) \in Nat
    BY FiniteCounts, FS_CardinalityType
  <2> QED BY <1>2, <2>1, <2>2, <2>3 DEF IofreeCounts
<1>4. CASE dio[d].refs # 0
  <2>1. Unused' = Unused /\ iofree' = iofree
    BY <1>1, <1>4 DEF Unused, LookupHit
  <2> QED BY <1>2, <2>1 DEF IofreeCounts
<1> QED BY <1>3, <1>4

\* The last drop makes one more dio unused.
LEMMA UnusedGrows ==
  ASSUME TypeOK, RefInv, NEW t \in Threads, NEW o, LastDrop(t, o)
  PROVE  Cardinality(Unused') = Cardinality(Unused) + 1
<1>1. Unused' = Unused \cup {my[t].dio} /\ my[t].dio \notin Unused
  BY LastDropRefs DEF Unused
<1> QED BY <1>1, FiniteCounts, FS_AddElement

\* A cleanup lowers the count by the dios it freed, all of them unused.
LEMMA CountCleanup ==
  ASSUME TypeOK, IofreeCounts, NEW t \in Threads, PutClean(t)
  PROVE  IofreeCounts'
<1> DEFINE F == hashed \ hashed'
<1>1. /\ hashed' \subseteq hashed /\ iofree' = iofree - Cardinality(F)
      /\ \A d \in F : dio[d].refs = 0
      /\ \A d \in hashed' : dio'[d].refs = dio[d].refs
  BY CleanupKeeps
<1>2. F \subseteq Unused /\ Unused' = Unused \ F
  BY <1>1 DEF Unused
<1>3. Disposing' = Disposing
  BY DEF PutClean, Leave, Goto, Disposing, TypeOK
<1>4. IsFiniteSet(F) /\ IsFiniteSet(Unused)
  BY <1>2, FiniteCounts, FS_Subset
<1> HIDE DEF F
<1>5. Cardinality(Unused \ F) = Cardinality(Unused) - Cardinality(F)
  <2>1. Unused \cap F = F
    BY <1>2
  <2> QED BY <2>1, <1>4, FS_Difference
<1>6. /\ Cardinality(Unused) \in Nat /\ Cardinality(F) \in Nat
      /\ Cardinality(Disposing) \in Nat
  BY <1>4, FiniteCounts, FS_CardinalityType
<1> QED BY <1>1, <1>2, <1>3, <1>5, <1>6 DEF IofreeCounts

\* Every step keeps the count, whatever cleanup runs during a last drop.
LEMMA CountStep ==
  ASSUME TypeOK, RefInv, IofreeCounts, Step PROVE IofreeCounts'
<1> USE DioAssumption
<1>n. Cardinality(Unused) \in Nat /\ Cardinality(Disposing) \in Nat
  BY FiniteCounts, FS_CardinalityType
<1>ret. ASSUME NEW t \in Threads, NEW where \in {"held", "put"}, NEW set,
               NEW hasbp, pc[t] = "getblk", Return(t, where, set, hasbp)
        PROVE  IofreeCounts'
  <2>1. \A d \in hashed : dio'[d].refs = dio[d].refs
    BY <1>ret DEF Return, Marked, Unlocked, TypeOK, DioState
  <2> QED BY <1>ret, <2>1, CountKept DEF Return, Goto, TypeOK
<1>1. ASSUME NEW t \in Threads, Inside(t) PROVE IofreeCounts'
  <2>1. CASE LockHash(t) \/ LookupMiss(t)
    BY <2>1, CountKept DEF LockHash, LookupMiss, Miss, Goto, TypeOK
  <2>2. CASE LookupNone(t)
    BY <2>2, CountKept DEF LookupNone, Miss, Leave, Goto, TypeOK
  <2>3. ASSUME NEW d \in Dios, LookupHit(t, d) PROVE IofreeCounts'
    BY <2>3, CountHit
  <2>4. ASSUME NEW d \in Dios, LookupCreate(t, d) PROVE IofreeCounts'
    <3>1. dio'[d].refs = 1 /\ \A e \in hashed : dio'[e] = dio[e]
      BY <2>4 DEF LookupCreate, TypeOK
    <3>2. Unused' = Unused /\ Disposing' = Disposing /\ iofree' = iofree
      BY <2>4, <3>1 DEF LookupCreate, Unused, Disposing, Goto, TypeOK
    <3> QED BY <3>2 DEF IofreeCounts
  <2>5. CASE GetGood(t) \/ GetNew(t) \/ GetRead(t) \/ GetError(t) \/ GetDedup(t)
    BY <2>5, <1>ret DEF GetGood, GetNew, GetRead, GetError, GetDedup
  <2>6. CASE PutShared(t)
    <3>1. \A d \in hashed : dio'[d].refs = 0 <=> dio[d].refs = 0
      BY <2>6 DEF PutShared, TypeOK, DioState
    <3> QED BY <2>6, <3>1, CountKept DEF PutShared, Leave, Goto, TypeOK
  <2>7. CASE PutLastWrite(t)
    <3>1. Cardinality(Unused') = Cardinality(Unused) + 1
      BY <2>7, UnusedGrows DEF PutLastWrite
    <3>2. Disposing' = Disposing \cup {t} /\ t \notin Disposing
      BY <2>7 DEF PutLastWrite, LastDrop, Goto, Disposing, TypeOK
    <3>3. Cardinality(Disposing') = Cardinality(Disposing) + 1
      BY <3>2, FiniteCounts, FS_AddElement
    <3> QED BY <2>7, <3>1, <3>3, <1>n DEF PutLastWrite, IofreeCounts
  <2>8. CASE PutLast(t)
    <3>1. Cardinality(Unused') = Cardinality(Unused) + 1
      BY <2>8, UnusedGrows DEF PutLast
    <3>2. Disposing' = Disposing /\ iofree' = iofree + 1
      BY <2>8 DEF PutLast, LastDrop, Goto, Disposing, TypeOK
    <3> QED BY <3>1, <3>2, <1>n DEF IofreeCounts
  <2>9. CASE PutDone(t)
    <3>1. \A d \in hashed : dio'[d].refs = dio[d].refs
      BY <2>9 DEF PutDone, TypeOK, DioState
    <3>2. Unused' = Unused /\ iofree' = iofree + 1
      BY <2>9, <3>1 DEF PutDone, Unused
    <3>3. Disposing' = Disposing \ {t} /\ t \in Disposing
      BY <2>9 DEF PutDone, Goto, Disposing, TypeOK
    <3>4. Cardinality(Disposing') = Cardinality(Disposing) - 1
      BY <3>3, FiniteCounts, FS_RemoveElement
    <3> QED BY <3>2, <3>4, <1>n DEF IofreeCounts
  <2>10. CASE PutClean(t)
    BY <2>10, CountCleanup
  <2> QED BY <1>1, <2>1, <2>2, <2>3, <2>4, <2>5, <2>6, <2>7, <2>8, <2>9, <2>10
          DEF Inside
<1>2. ASSUME NEW t \in Threads, Outside(t) PROVE IofreeCounts'
  <2>1. ASSUME NEW b \in Bufs, NEW op \in Ops, GetBlk(t, b, op)
        PROVE IofreeCounts'
    BY <2>1, CountKept DEF GetBlk, Goto, TypeOK
  <2>2. CASE Store(t)
    BY <2>2, CountKept DEF Store, Goto, TypeOK
  <2>3. CASE SetDirty(t)
    BY <2>3, CountKept DEF SetDirty, Marked, Goto, TypeOK, DioState
  <2>4. ASSUME NEW mark, Release(t, mark) PROVE IofreeCounts'
    BY <2>4, CountKept DEF Release, Marked, Goto, TypeOK, DioState
  <2> QED BY <1>2, <2>1, <2>2, <2>3, <2>4 DEF Outside
<1>3. ASSUME NEW b \in Bufs, Bio(b) PROVE IofreeCounts'
  BY <1>3, CountKept DEF Bio, WriteDone, StartDelayed, Evict
<1>4. CASE CleanupAll
  <2>1. \A d : Holders(d) = {}
    BY <1>4 DEF CleanupAll, Holders, HasRef
  <2>2. Unused = hashed
    BY <2>1, FS_EmptySet DEF Unused, RefInv, RefsAreHolders
  <2>3. Disposing' = Disposing /\ Unused' = {}
    BY <1>4 DEF CleanupAll, Free, Disposing, Unused
  <2>4. iofree' = iofree - Cardinality(Unused)
    BY <1>4, <2>2 DEF CleanupAll, Free
  <2> QED BY <2>3, <2>4, <1>n, FS_EmptySet DEF IofreeCounts
<1>5. CASE UNCHANGED vars
  BY <1>5, CountKept DEF vars
<1> QED BY <1>1, <1>2, <1>3, <1>4, <1>5 DEF Step, Next

\* hmp->iofree_count is the number of unreferenced dios of the hash, less the
\* last drops under way: concurrent lookups, drops and cleanups lose no count.
THEOREM IofreeExact == Spec => []IofreeCounts
<1>1. Init => IofreeCounts
  <2>1. Init => Unused = {} /\ Disposing = {}
    BY DEF Init, Unused, Disposing
  <2> QED BY <2>1, FS_EmptySet DEF Init, IofreeCounts
<1>2. Init => RefInv
  BY DEF Init, RefInv, HoldersHashed, RefsAreHolders, HasRef
<1>3. TypeOK /\ RefInv /\ Step => RefInv'
  BY RefStep
<1>4. TypeOK /\ RefInv /\ IofreeCounts /\ Step => IofreeCounts'
  BY CountStep
<1> QED BY <1>1, <1>2, <1>3, <1>4, TypeCorrect, PTL DEF Spec, Step

-----------------------------------------------------------------------------
(* The buffers.                                                              *)

\* A dio of the hash with GOOD owns its buffer, and only a referenced one does.
BusyOwned ==
    \A d \in hashed :
        /\ dio[d].pbase \in Bufs
        /\ ("GOOD" \in dio[d].flags) <=> dio[d].bp
        /\ dio[d].bp => dio[d].refs # 0 /\ buf[dio[d].pbase].st = "busy"

\* A thread refers to the dio of the buffer it asked for, and has GOOD while it
\* uses the contents.
Reached(t) ==
    /\ pc[t] \in {"hash", "lookup", "create"} => my[t].b \in Bufs
    /\ pc[t] \in HasRef => dio[my[t].dio].pbase = my[t].b
    /\ pc[t] \in {"held", "wrote"} => "GOOD" \in dio[my[t].dio].flags
Reaching == \A t \in Threads : Reached(t)

\* A buffer the system caches has the newest contents.
Cached == \A b \in Bufs : buf[b].cur <=> buf[b].st # "none"

\* Somebody still knows that the busy buffer has to be written: the dio, or a
\* thread that has stored and not yet called setdirty or a bdwrite.
Unwritten(b) ==
    \/ \E d \in hashed : /\ dio[d].pbase = b /\ dio[d].bp
                         /\ "DIRTY" \in dio[d].flags
    \/ \E t \in Threads : pc[t] = "wrote" /\ my[t].b = b

\* What the device lacks is on its way to it.
Saved(b) ==
    \/ disk[b]
    \/ buf[b].st # "none" /\ buf[b].delwri
    \/ buf[b].st = "writing"
    \/ buf[b].st = "busy" /\ Unwritten(b)
WillReach == \A b \in Bufs : Saved(b)

BufInv == BusyOwned /\ Reaching /\ Cached /\ WillReach

\* A thread whose place, dio and flags do not move keeps its bearings.
LEMMA ReachedKept ==
  ASSUME RefInv, NEW t \in Threads, Reached(t),
         \A d \in hashed : d \in hashed' =>
            /\ dio'[d].pbase = dio[d].pbase
            /\ "GOOD" \in dio[d].flags => "GOOD" \in dio'[d].flags,
         pc[t] \in HasRef => my[t].dio \in hashed',
         \/ pc'[t] = pc[t]
         \/ pc'[t] \in HasRef \ {"held", "wrote"} /\ pc[t] \in HasRef
         \/ pc'[t] \notin HasRef \cup {"hash", "lookup", "create"},
         \/ my'[t].b = my[t].b /\ my'[t].dio = my[t].dio
         \/ pc'[t] \notin HasRef \cup {"hash", "lookup", "create"}
  PROVE  Reached(t)'
  BY DEF Reached, RefInv, HoldersHashed, HasRef

\* A step that leaves the buffers alone and forgets neither a dirty mark nor a
\* store.
LEMMA BufCalm ==
  ASSUME TypeOK, RefInv, BufInv, UNCHANGED bioVars, hashed' \subseteq hashed,
         \A d \in hashed \ hashed' : dio[d].refs = 0,
         \A d \in hashed' :
            /\ dio'[d].pbase = dio[d].pbase /\ dio'[d].bp = dio[d].bp
            /\ "GOOD" \in dio'[d].flags <=> "GOOD" \in dio[d].flags
            /\ "DIRTY" \in dio[d].flags => "DIRTY" \in dio'[d].flags
            /\ dio[d].refs # 0 => dio'[d].refs # 0,
         \A u \in Threads : pc[u] = "wrote" =>
            \/ pc'[u] = "wrote" /\ my'[u].b = my[u].b
            \/ /\ my[u].dio \in hashed'
               /\ "DIRTY" \in dio'[my[u].dio].flags,
         Reaching'
  PROVE  BufInv'
<1>1. BusyOwned' /\ Cached'
  BY DEF BufInv, BusyOwned, Cached, bioVars
<1>2. ASSUME NEW b \in Bufs, Unwritten(b) PROVE Unwritten(b)'
  <2>1. ASSUME NEW d \in hashed, dio[d].pbase = b, dio[d].bp,
               "DIRTY" \in dio[d].flags
        PROVE  Unwritten(b)'
    BY <2>1 DEF BufInv, BusyOwned, Unwritten
  <2>2. ASSUME NEW u \in Threads, pc[u] = "wrote", my[u].b = b
        PROVE  Unwritten(b)'
    BY <2>2 DEF BufInv, BusyOwned, Reaching, Reached, HasRef, Unwritten
  <2> QED BY <1>2, <2>1, <2>2 DEF Unwritten
<1>3. WillReach'
  BY <1>2 DEF BufInv, WillReach, Saved, bioVars
<1> QED BY <1>1, <1>3 DEF BufInv

\* A holder fills its busy buffer; the dio is marked or the thread remembers.
LEMMA BufFilled ==
  ASSUME TypeOK, HashInv, RefInv, BufInv, NEW t \in Threads,
         pc[t] \in HasRef, hashed' = hashed,
         buf'[my[t].b].cur, buf'[my[t].b].st = "busy",
         \A c \in Bufs : c # my[t].b => buf'[c] = buf[c] /\ disk'[c] = disk[c],
         Saved(my[t].b)',
         \A d \in hashed : d # my[t].dio => dio'[d] = dio[d],
         dio'[my[t].dio].pbase = dio[my[t].dio].pbase,
         dio'[my[t].dio].refs = dio[my[t].dio].refs,
         dio'[my[t].dio].bp, "GOOD" \in dio'[my[t].dio].flags,
         "DIRTY" \in dio[my[t].dio].flags => "DIRTY" \in dio'[my[t].dio].flags,
         dio[my[t].dio].refs # 0,
         \A u \in Threads : u # t => pc'[u] = pc[u] /\ my'[u] = my[u],
         pc'[t] \in {"held", "wrote"}, my'[t].b = my[t].b,
         my'[t].dio = my[t].dio
  PROVE  BufInv'
<1> DEFINE b == my[t].b  d == my[t].dio
<1>1. d \in hashed /\ dio[d].pbase = b /\ b \in Bufs
  BY DEF RefInv, HoldersHashed, BufInv, BusyOwned, Reaching, Reached
<1>2. BusyOwned'
  BY <1>1 DEF BufInv, BusyOwned, HashInv, OneDioPerBuffer
<1>3. ASSUME NEW u \in Threads PROVE Reached(u)'
  BY <1>1 DEF BufInv, Reaching, Reached, RefInv, HoldersHashed, HasRef
<1>4. Cached'
  BY <1>1 DEF BufInv, Cached
<1>5. ASSUME NEW c \in Bufs, c # b PROVE Saved(c)'
  <2>1. Unwritten(c) => Unwritten(c)'
    BY <1>1, <1>5 DEF Unwritten
  <2> QED BY <1>5, <2>1 DEF BufInv, WillReach, Saved
<1> QED BY <1>2, <1>3, <1>4, <1>5 DEF BufInv, Reaching, WillReach

\* While one thread holds the last reference nobody else holds one.
LEMMA LastIsAlone ==
  ASSUME TypeOK, RefInv, NEW t \in Threads, pc[t] \in HasRef,
         dio[my[t].dio].refs = 1, NEW u \in Threads, pc[u] \in HasRef,
         my[u].dio = my[t].dio
  PROVE  u = t
<1> DEFINE d == my[t].dio  H == Holders(d)
<1>1. d \in hashed /\ Cardinality(H) = 1
  BY DEF RefInv, HoldersHashed, RefsAreHolders
<1>2. t \in H /\ u \in H
  BY DEF Holders
<1>3. IsFiniteSet(H)
  BY FiniteHolders
<1> HIDE DEF H
<1>4. SUFFICES ASSUME u # t PROVE FALSE
  OBVIOUS
<1>5. IsFiniteSet(H \ {t}) /\ Cardinality(H \ {t}) = 0
  BY <1>1, <1>2, <1>3, FS_RemoveElement
<1>6. H \ {t} = {}
  BY <1>5, FS_EmptySet
<1> QED BY <1>2, <1>4, <1>6

\* How the contents and the delayed write fare when a buffer is handed back.
LEMMA DisposedIs ==
  ASSUME NEW w \in BufState, NEW fl
  PROVE  /\ Disposed(w, fl).st # "none" /\ Disposed(w, fl).cur = w.cur
         /\ "DIRTY" \in fl => \/ Disposed(w, fl).st = "writing"
                              \/ Disposed(w, fl).delwri
         /\ "DIRTY" \notin fl => Disposed(w, fl).delwri = w.delwri
<1>1. CASE "DIRTY" \in fl /\ "FLUSH" \in fl
  <2>1. Disposed(w, fl) = [w EXCEPT !.st = "writing", !.delwri = FALSE]
    BY <1>1 DEF Disposed
  <2> QED BY <1>1, <2>1 DEF BufState
<1>2. CASE "DIRTY" \in fl /\ "FLUSH" \notin fl
  <2>1. Disposed(w, fl) = [w EXCEPT !.st = "idle", !.delwri = TRUE]
    BY <1>2 DEF Disposed
  <2> QED BY <1>2, <2>1 DEF BufState
<1>3. CASE "DIRTY" \notin fl
  <2>1. Disposed(w, fl) = [w EXCEPT !.st = "idle"]
    BY <1>3 DEF Disposed
  <2> QED BY <1>3, <2>1 DEF BufState
<1> QED BY <1>1, <1>2, <1>3

\* The last drop hands the buffer back: written, delayed, or with nothing new.
LEMMA BufLastDrop ==
  ASSUME TypeOK, HashInv, RefInv, BufInv, NEW t \in Threads,
         NEW o \in Threads \cup {NoThread}, LastDrop(t, o),
         \A u \in Threads : u # t => pc'[u] = pc[u] /\ my'[u] = my[u],
         pc'[t] \in {"dispose", "clean"}
  PROVE  BufInv'
<1> DEFINE d == my[t].dio
<1>b. PICK b \in Bufs : b = my[t].b
  BY DEF LastDrop, RefInv, HoldersHashed, BufInv, BusyOwned, Reaching, Reached,
         HasRef
<1>1. /\ pc[t] = "put" /\ d \in hashed /\ dio[d].pbase = b /\ b \in Bufs
      /\ hashed' = hashed /\ disk' = disk /\ dio[d].refs = 1
  BY <1>b DEF LastDrop, RefInv, HoldersHashed, BufInv, Reaching, Reached, HasRef
<1>2. /\ dio' = [dio EXCEPT ![d] = Dropped(@, o)]
      /\ buf' = IF dio[d].bp
                THEN [buf EXCEPT ![b] = Disposed(@, dio[d].flags)] ELSE buf
  BY <1>1 DEF LastDrop
<1>3. /\ dio'[d].pbase = b /\ dio'[d].refs = 0 /\ ~dio'[d].bp
      /\ "GOOD" \notin dio'[d].flags
      /\ \A e \in hashed : e # d => dio'[e] = dio[e]
  BY <1>1, <1>2 DEF Dropped, TypeOK, DioState
<1>4. /\ buf \in [Bufs -> BufState] /\ buf[b] \in BufState
      /\ \A c \in Bufs : c # b => buf'[c] = buf[c]
  BY <1>1, <1>2 DEF TypeOK
<1>5. /\ ~dio[d].bp => buf'[b] = buf[b]
      /\ dio[d].bp => buf'[b] = Disposed(buf[b], dio[d].flags)
  BY <1>1, <1>2, <1>4
<1>6. BusyOwned'
  BY <1>1, <1>3, <1>4 DEF BufInv, BusyOwned, HashInv, OneDioPerBuffer
<1>7. ASSUME NEW u \in Threads, u # t, pc[u] \in HasRef PROVE my[u].dio # d
  BY <1>1, <1>7, LastIsAlone DEF HasRef
<1>8. ASSUME NEW u \in Threads PROVE Reached(u)'
  <2>1. CASE u = t
    BY <2>1 DEF Reached, HasRef
  <2>2. CASE u # t
    BY <1>1, <1>3, <1>7, <2>2
       DEF BufInv, Reaching, Reached, RefInv, HoldersHashed, HasRef
  <2> QED BY <2>1, <2>2
<1>9. Cached'
  <2>1. dio[d].bp => buf[b].st = "busy" /\ buf[b].cur
    BY <1>1 DEF BufInv, BusyOwned, Cached
  <2>2. dio[d].bp => buf'[b].cur /\ buf'[b].st # "none"
    BY <1>4, <1>5, <2>1, DisposedIs
  <2> QED BY <1>1, <1>4, <1>5, <2>2 DEF BufInv, Cached
<1>10. ASSUME NEW c \in Bufs, c # b PROVE Saved(c)'
  <2>1. Unwritten(c) => Unwritten(c)'
    BY <1>1, <1>3, <1>10 DEF Unwritten
  <2> QED BY <1>1, <1>4, <1>10, <2>1 DEF BufInv, WillReach, Saved
<1>11. Saved(b)'
  <2>1. Unwritten(b) => dio[d].bp /\ "DIRTY" \in dio[d].flags
    <3>1. ASSUME NEW e \in hashed, dio[e].pbase = b PROVE e = d
      BY <1>1, <3>1 DEF HashInv, OneDioPerBuffer
    <3>2. ASSUME NEW u \in Threads, pc[u] = "wrote", my[u].b = b PROVE FALSE
      <4>1. my[u].dio \in hashed /\ dio[my[u].dio].pbase = b /\ u # t
        BY <1>1, <3>2 DEF RefInv, HoldersHashed, BufInv, Reaching, Reached, HasRef
      <4> QED BY <3>1, <3>2, <4>1, <1>7 DEF HasRef
    <3> QED BY <3>1, <3>2 DEF Unwritten
  <2>2. Saved(b)
    BY <1>1 DEF BufInv, WillReach
  <2>3. CASE dio[d].bp
    <3>1. buf[b].st = "busy"
      BY <1>1, <2>3 DEF BufInv, BusyOwned
    <3>2. /\ buf'[b].st # "none"
          /\ "DIRTY" \in dio[d].flags => buf'[b].st = "writing" \/ buf'[b].delwri
          /\ "DIRTY" \notin dio[d].flags => buf'[b].delwri = buf[b].delwri
      BY <1>4, <1>5, <2>3, DisposedIs
    <3>3. disk'[b] = disk[b]
      BY <1>1
    <3>4. CASE "DIRTY" \in dio[d].flags
      BY <3>2, <3>4 DEF Saved
    <3>5. CASE "DIRTY" \notin dio[d].flags
      BY <2>1, <2>2, <3>1, <3>2, <3>3, <3>5 DEF Saved
    <3> QED BY <3>4, <3>5
  <2>4. CASE ~dio[d].bp
    <3>1. ~Unwritten(b) /\ buf'[b] = buf[b]
      BY <2>1, <2>4, <1>5
    <3>2. disk'[b] = disk[b]
      BY <1>1
    <3> QED BY <2>2, <3>1, <3>2 DEF Saved
  <2> QED BY <2>3, <2>4
<1>12. WillReach'
  <2>1. \A c \in Bufs : Saved(c)'
    BY <1>10, <1>11
  <2> QED BY <2>1 DEF WillReach
<1> QED BY <1>6, <1>8, <1>9, <1>12 DEF BufInv, Reaching

\* The buffer cache writes and reclaims only buffers no dio owns.
LEMMA BufBio ==
  ASSUME TypeOK, BufInv, NEW b \in Bufs, Bio(b) PROVE BufInv'
<1>1. /\ UNCHANGED <<hashed, dio, pc, my>> /\ buf[b] \in BufState
      /\ buf[b].st # "busy"
      /\ \A c \in Bufs : c # b => buf'[c] = buf[c] /\ disk'[c] = disk[c]
  BY DEF Bio, WriteDone, StartDelayed, Evict, TypeOK
<1>2. BusyOwned' /\ Reaching'
  BY <1>1 DEF BufInv, BusyOwned, Reaching, Reached
<1>3. /\ buf'[b].cur <=> buf'[b].st # "none"
      /\ \/ disk'[b] \/ buf'[b].st = "writing"
         \/ buf'[b].st # "none" /\ buf'[b].delwri
  <2>1. buf[b].cur <=> buf[b].st # "none"
    BY DEF BufInv, Cached
  <2>2. \/ disk[b] \/ buf[b].st = "writing"
        \/ buf[b].st # "none" /\ buf[b].delwri
    BY <1>1 DEF BufInv, WillReach, Saved
  <2>3. CASE WriteDone(b)
    BY <2>1, <2>2, <2>3 DEF WriteDone, TypeOK, BufState
  <2>4. CASE StartDelayed(b)
    BY <2>1, <2>2, <2>4 DEF StartDelayed, TypeOK, BufState
  <2>5. CASE Evict(b)
    BY <2>1, <2>2, <2>5 DEF Evict, TypeOK, BufState
  <2> QED BY <2>3, <2>4, <2>5 DEF Bio
<1>4. \A c : Unwritten(c)' <=> Unwritten(c)
  BY <1>1 DEF Unwritten
<1>5. Cached' /\ WillReach'
  BY <1>1, <1>3, <1>4 DEF BufInv, Cached, WillReach, Saved
<1> QED BY <1>2, <1>5 DEF BufInv

\* Every step keeps the buffers with their dios.
LEMMA BufStep ==
  ASSUME TypeOK, HashInv, RefInv, BufInv, Step PROVE BufInv'
<1> USE DioAssumption
<1>others. ASSUME NEW t \in Threads, NEW where, Goto(t, where)
           PROVE  /\ pc'[t] = where
                  /\ \A u \in Threads : u # t => pc'[u] = pc[u]
  BY <1>others DEF Goto, TypeOK
<1>mine. ASSUME NEW t \in Threads, pc[t] \in HasRef
         PROVE  /\ my[t].dio \in hashed /\ dio[my[t].dio] \in DioState
                /\ my[t].b \in Bufs /\ dio[my[t].dio].pbase = my[t].b
                /\ dio[my[t].dio].refs # 0
  <2>1. my[t].dio \in hashed /\ t \in Holders(my[t].dio)
    BY <1>mine DEF RefInv, HoldersHashed, Holders
  <2>2. dio[my[t].dio].refs # 0
    BY <2>1, FiniteHolders, FS_EmptySet DEF RefInv, RefsAreHolders
  <2> QED BY <1>mine, <2>1, <2>2 DEF BufInv, BusyOwned, Reaching, Reached, TypeOK
<1>ret. ASSUME NEW t \in Threads, NEW where \in {"held", "put"}, NEW set,
               pc[t] = "getblk", UNCHANGED bioVars,
               Return(t, where, set, dio[my[t].dio].bp),
               "GOOD" \in set => "GOOD" \in dio[my[t].dio].flags,
               where = "held" => "GOOD" \in dio[my[t].dio].flags
        PROVE  BufInv'
  <2> DEFINE d == my[t].dio
  <2>1. /\ d \in hashed /\ hashed' = hashed /\ dio[d] \in DioState
        /\ \A e \in hashed : e # d => dio'[e] = dio[e]
        /\ dio'[d].pbase = dio[d].pbase /\ dio'[d].bp = dio[d].bp
        /\ dio'[d].refs = dio[d].refs /\ dio'[d].flags = dio[d].flags \cup set
    BY <1>ret, <1>mine DEF Return, Marked, Unlocked, TypeOK, DioState, HasRef
  <2>2. /\ pc'[t] = where /\ \A u \in Threads : u # t => pc'[u] = pc[u]
        /\ \A u \in Threads : my'[u].b = my[u].b /\ my'[u].dio = my[u].dio
    BY <1>ret DEF Return, Goto, TypeOK
  <2> HIDE DEF d
  <2>3. ASSUME NEW u \in Threads PROVE Reached(u)'
    <3>1. CASE u = t
      BY <1>ret, <2>1, <2>2, <3>1 DEF BufInv, Reaching, Reached, HasRef, d
    <3>2. CASE u # t
      BY <2>1, <2>2, <3>2 DEF BufInv, Reaching, Reached, RefInv, HoldersHashed,
         HasRef
    <3> QED BY <3>1, <3>2
  <2>4. Reaching'
    BY <2>3 DEF Reaching
  <2>5. \A e \in hashed :
            /\ dio'[e].pbase = dio[e].pbase /\ dio'[e].bp = dio[e].bp
            /\ "GOOD" \in dio'[e].flags <=> "GOOD" \in dio[e].flags
            /\ "DIRTY" \in dio[e].flags => "DIRTY" \in dio'[e].flags
            /\ dio[e].refs # 0 => dio'[e].refs # 0
    BY <1>ret, <2>1 DEF d
  <2> QED BY <1>ret, <2>1, <2>2, <2>4, <2>5, BufCalm
<1>fill. ASSUME NEW t \in Threads, NEW set, pc[t] = "getblk",
                Return(t, "held", set, TRUE),
                "GOOD" \in dio[my[t].dio].flags \cup set,
                buf'[my[t].b].cur, buf'[my[t].b].st = "busy",
                \/ "DIRTY" \in set
                \/ disk'[my[t].b]
                \/ buf'[my[t].b].delwri,
                \A c \in Bufs : c # my[t].b =>
                   buf'[c] = buf[c] /\ disk'[c] = disk[c]
         PROVE  BufInv'
  <2> DEFINE d == my[t].dio
  <2>1. /\ d \in hashed /\ hashed' = hashed /\ dio[d] \in DioState
        /\ \A e \in hashed : e # d => dio'[e] = dio[e]
        /\ dio'[d].pbase = dio[d].pbase /\ dio'[d].bp = TRUE
        /\ dio'[d].refs = dio[d].refs /\ dio'[d].flags = dio[d].flags \cup set
    BY <1>fill, <1>mine DEF Return, Marked, Unlocked, TypeOK, DioState, HasRef
  <2>2. /\ pc'[t] = "held" /\ \A u \in Threads : u # t => pc'[u] = pc[u]
        /\ \A u \in Threads : u # t => my'[u] = my[u]
        /\ my'[t].b = my[t].b /\ my'[t].dio = my[t].dio
    BY <1>fill DEF Return, Goto, TypeOK
  <2>3. dio[d].pbase = my[t].b /\ dio[d].refs # 0
    BY <1>fill, <1>mine DEF HasRef
  <2> HIDE DEF d
  <2>4. "DIRTY" \in set => Unwritten(my[t].b)'
    BY <2>1, <2>2, <2>3 DEF Unwritten
  <2>5. Saved(my[t].b)'
    BY <1>fill, <2>2, <2>4 DEF Saved
  <2>6. \A e \in hashed : e # my[t].dio => dio'[e] = dio[e]
    BY <2>1 DEF d
  <2>7. pc[t] \in HasRef
    BY <1>fill DEF HasRef
  <2> QED BY <1>fill, <2>1, <2>2, <2>3, <2>5, <2>6, <2>7, BufFilled DEF d
<1>1. ASSUME NEW t \in Threads, Inside(t) PROVE BufInv'
  <2>1. CASE LockHash(t) \/ LookupMiss(t)
    <3>1. /\ UNCHANGED <<hashed, dio, my, bioVars>>
          /\ \A u \in Threads : u # t => pc'[u] = pc[u]
          /\ pc[t] \in {"hash", "lookup"} /\ pc'[t] \in {"lookup", "create"}
      BY <2>1, <1>others DEF LockHash, LookupMiss, Miss
    <3>2. Reaching'
      BY <3>1 DEF BufInv, Reaching, Reached, HasRef
    <3> QED BY <3>1, <3>2, BufCalm
  <2>2. CASE LookupNone(t)
    <3>1. /\ UNCHANGED <<hashed, dio, bioVars>> /\ pc'[t] = "idle"
          /\ \A u \in Threads : u # t => pc'[u] = pc[u] /\ my'[u] = my[u]
          /\ pc[t] = "lookup"
      BY <2>2, <1>others DEF LookupNone, Miss, Leave, TypeOK
    <3>2. Reaching'
      BY <3>1 DEF BufInv, Reaching, Reached, HasRef
    <3> QED BY <3>1, <3>2, BufCalm
  <2>3. ASSUME NEW d \in Dios, LookupHit(t, d) PROVE BufInv'
    <3>1. /\ UNCHANGED <<hashed, bioVars>> /\ d \in hashed
          /\ pc[t] = "lookup" /\ pc'[t] = "getblk"
          /\ \A u \in Threads : u # t => pc'[u] = pc[u] /\ my'[u] = my[u]
          /\ my'[t].dio = d /\ my'[t].b = my[t].b /\ dio[d].pbase = my[t].b
      BY <2>3, <1>others DEF LookupHit, TypeOK
    <3>2. /\ dio'[d].pbase = dio[d].pbase /\ dio'[d].bp = dio[d].bp
          /\ dio'[d].flags = dio[d].flags /\ dio'[d].refs # 0
          /\ \A e \in hashed : e # d => dio'[e] = dio[e]
      BY <2>3 DEF LookupHit, Taken, TypeOK, DioState
    <3>3. Reaching'
      BY <3>1, <3>2 DEF BufInv, Reaching, Reached, RefInv, HoldersHashed, HasRef
    <3> QED BY <3>1, <3>2, <3>3, BufCalm
  <2>4. ASSUME NEW d \in Dios, LookupCreate(t, d) PROVE BufInv'
    <3>1. /\ hashed' = hashed \cup {d} /\ d \notin hashed /\ UNCHANGED bioVars
          /\ pc[t] = "create" /\ pc'[t] = "getblk"
          /\ \A u \in Threads : u # t => pc'[u] = pc[u] /\ my'[u] = my[u]
          /\ my'[t].dio = d /\ my'[t].b = my[t].b
      BY <2>4, <1>others DEF LookupCreate, TypeOK
    <3>2. /\ dio'[d].pbase = my[t].b /\ ~dio'[d].bp /\ dio'[d].flags = {}
          /\ \A e \in hashed : dio'[e] = dio[e]
      BY <2>4 DEF LookupCreate, TypeOK
    <3>3. my[t].b \in Bufs
      BY <3>1 DEF BufInv, Reaching, Reached
    <3>4. BusyOwned' /\ Cached'
      BY <3>1, <3>2, <3>3 DEF BufInv, BusyOwned, Cached, bioVars
    <3>5. Reaching'
      BY <3>1, <3>2 DEF BufInv, Reaching, Reached, RefInv, HoldersHashed, HasRef
    <3>6. ASSUME NEW b \in Bufs, Unwritten(b) PROVE Unwritten(b)'
      BY <3>1, <3>2, <3>6 DEF Unwritten
    <3>7. WillReach'
      BY <3>1, <3>6 DEF BufInv, WillReach, Saved, bioVars
    <3> QED BY <3>4, <3>5, <3>7 DEF BufInv
  <2>5. CASE GetGood(t)
    <3>1. /\ pc[t] = "getblk" /\ "GOOD" \in dio[my[t].dio].flags
          /\ my[t].b \in Bufs /\ dio[my[t].dio].bp /\ buf[my[t].b].st = "busy"
      BY <2>5, <1>mine DEF GetGood, HasRef, BufInv, BusyOwned
    <3>2. CASE my[t].op \in {"NEW", "NEWFULL"}
      <4>1. /\ buf' = [buf EXCEPT ![my[t].b].cur = TRUE]
            /\ disk' = [disk EXCEPT ![my[t].b] = FALSE]
            /\ Return(t, "held", {"DIRTY"}, dio[my[t].dio].bp)
        BY <2>5, <3>2 DEF GetGood
      <4>2. dio[my[t].dio].bp = TRUE
        BY <3>1, <1>mine DEF HasRef, DioState
      <4>3. /\ buf'[my[t].b].cur /\ buf'[my[t].b].st = "busy"
            /\ \A c \in Bufs : c # my[t].b =>
                  buf'[c] = buf[c] /\ disk'[c] = disk[c]
        BY <3>1, <4>1 DEF TypeOK, BufState
      <4> QED BY <3>1, <4>1, <4>2, <4>3, <1>fill
    <3>3. CASE my[t].op \in {"READ", "READQ"}
      <4>1. Return(t, "held", {}, dio[my[t].dio].bp) /\ UNCHANGED bioVars
        BY <2>5, <3>3 DEF GetGood
      <4> QED BY <3>1, <4>1, <1>ret
    <3> QED BY <2>5, <3>2, <3>3 DEF GetGood
  <2>6. CASE GetNew(t)
    <3>1. /\ pc[t] = "getblk" /\ my[t].b \in Bufs
          /\ Return(t, "held", {"DIRTY", "GOOD"}, TRUE)
      BY <2>6, <1>mine DEF GetNew, HasRef
    <3>2. /\ buf'[my[t].b].cur /\ buf'[my[t].b].st = "busy"
          /\ \A c \in Bufs : c # my[t].b =>
                buf'[c] = buf[c] /\ disk'[c] = disk[c]
      BY <2>6, <3>1 DEF GetNew, TypeOK, BufState
    <3> QED BY <3>1, <3>2, <1>fill
  <2>7. CASE GetRead(t)
    <3> DEFINE b == my[t].b  isNew == my[t].op = "NEW"
               set == IF isNew THEN {"GOOD", "DIRTY"} ELSE {"GOOD"}
    <3>1. /\ pc[t] = "getblk" /\ b \in Bufs /\ buf[b].st \in {"none", "idle"}
          /\ Return(t, "held", set, TRUE)
      BY <2>7, <1>mine DEF GetRead, HasRef
    <3>2. /\ isNew => "DIRTY" \in set
          /\ "GOOD" \in set
      OBVIOUS
    <3>3. /\ disk' = [disk EXCEPT ![b] = disk[b] /\ ~isNew]
          /\ buf' = [buf EXCEPT ![b] =
                       [buf[b] EXCEPT !.st = "busy",
                                 !.cur = \/ isNew \/ buf[b].cur
                                         \/ buf[b].st = "none" /\ disk[b]]]
      BY <2>7, Zenon DEF GetRead
    <3>4. \/ disk[b]
          \/ buf[b].st # "none" /\ buf[b].delwri
      BY <3>1 DEF BufInv, WillReach, Saved
    <3>5. buf[b].cur <=> buf[b].st # "none"
      BY <3>1 DEF BufInv, Cached
    <3>6. disk'[b] <=> disk[b] /\ ~isNew
      BY <3>1, <3>3, Zenon DEF TypeOK
    <3>7. \/ isNew \/ buf[b].cur
          \/ buf[b].st = "none" /\ disk[b]
      BY <3>4, <3>5
    <3> DEFINE c0 == \/ isNew \/ buf[b].cur
                     \/ buf[b].st = "none" /\ disk[b]
    <3>8. c0
      BY <3>7
    <3>9. buf' = [buf EXCEPT ![b] = [buf[b] EXCEPT !.st = "busy", !.cur = c0]]
      BY <3>3, Zenon
    <3> HIDE DEF c0, isNew, set
    <3>10. /\ buf'[b].cur /\ buf'[b].st = "busy"
           /\ buf'[b].delwri = buf[b].delwri
           /\ \A c \in Bufs : c # b => buf'[c] = buf[c]
      BY <3>1, <3>8, <3>9 DEF TypeOK, BufState
    <3>11. \A c \in Bufs : c # b => disk'[c] = disk[c]
      BY <3>3, Zenon DEF TypeOK
    <3>12. \/ "DIRTY" \in set
           \/ disk'[b]
           \/ buf'[b].delwri
      BY <3>2, <3>4, <3>6, <3>10
    <3> QED BY <3>1, <3>2, <3>10, <3>11, <3>12, <1>fill
  <2>8. CASE GetError(t)
    <3>1. /\ pc[t] = "getblk" /\ UNCHANGED bioVars
          /\ Return(t, "put", {}, FALSE) /\ ~dio[my[t].dio].bp
      BY <2>8, <1>mine DEF GetError, HasRef, BufInv, BusyOwned
    <3>2. dio[my[t].dio].bp = FALSE
      BY <3>1, <1>mine DEF HasRef, DioState
    <3> QED BY <3>1, <3>2, <1>ret
  <2>9. CASE GetDedup(t)
    BY <2>9, <1>ret DEF GetDedup
  <2>10. CASE PutShared(t)
    <3> DEFINE d == my[t].dio
    <3>1. /\ d \in hashed /\ hashed' = hashed /\ UNCHANGED bioVars
          /\ pc[t] = "put" /\ pc'[t] = "idle" /\ dio[d] \in DioState
          /\ \A u \in Threads : u # t => pc'[u] = pc[u] /\ my'[u] = my[u]
      BY <2>10, <1>mine, <1>others DEF PutShared, Leave, TypeOK, HasRef
    <3>2. /\ dio'[d].pbase = dio[d].pbase /\ dio'[d].bp = dio[d].bp
          /\ dio'[d].flags = dio[d].flags /\ dio'[d].refs # 0
          /\ \A e \in hashed : e # d => dio'[e] = dio[e]
      BY <2>10, <3>1 DEF PutShared, TypeOK, DioState
    <3> HIDE DEF d
    <3>3. Reaching'
      BY <3>1, <3>2 DEF BufInv, Reaching, Reached, RefInv, HoldersHashed, HasRef
    <3> QED BY <3>1, <3>2, <3>3, BufCalm
  <2>11. CASE PutLastWrite(t)
    <3>1. LastDrop(t, t) /\ pc'[t] = "dispose"
      BY <2>11, <1>others DEF PutLastWrite
    <3>2. \A u \in Threads : u # t => pc'[u] = pc[u] /\ my'[u] = my[u]
      BY <2>11, <1>others DEF PutLastWrite
    <3> QED BY <3>1, <3>2, BufLastDrop
  <2>12. CASE PutLast(t)
    <3>1. LastDrop(t, NoThread) /\ pc'[t] = "clean"
      BY <2>12, <1>others DEF PutLast
    <3>2. \A u \in Threads : u # t => pc'[u] = pc[u] /\ my'[u] = my[u]
      BY <2>12, <1>others DEF PutLast, TypeOK
    <3> QED BY <3>1, <3>2, BufLastDrop
  <2>13. CASE PutDone(t)
    <3>1. /\ hashed' = hashed /\ UNCHANGED bioVars
          /\ pc[t] = "dispose" /\ pc'[t] = "clean"
          /\ \A u \in Threads : u # t => pc'[u] = pc[u] /\ my'[u] = my[u]
      BY <2>13, <1>others DEF PutDone, TypeOK
    <3>2. \A e \in hashed : /\ dio'[e].pbase = dio[e].pbase
                            /\ dio'[e].bp = dio[e].bp
                            /\ dio'[e].flags = dio[e].flags
                            /\ dio'[e].refs = dio[e].refs
      BY <2>13 DEF PutDone, TypeOK, DioState
    <3>3. Reaching'
      BY <3>1, <3>2 DEF BufInv, Reaching, Reached, RefInv, HoldersHashed, HasRef
    <3> QED BY <3>1, <3>2, <3>3, BufCalm
  <2>14. CASE PutClean(t)
    <3>1. /\ UNCHANGED bioVars /\ pc[t] = "clean" /\ pc'[t] = "idle"
          /\ \A u \in Threads : u # t => pc'[u] = pc[u] /\ my'[u] = my[u]
      BY <2>14, <1>others DEF PutClean, Leave, TypeOK
    <3>2. /\ hashed' \subseteq hashed
          /\ \A d \in hashed \ hashed' : dio[d].refs = 0
          /\ \A d \in hashed' : /\ dio'[d].pbase = dio[d].pbase
                               /\ dio'[d].refs = dio[d].refs
                               /\ dio'[d].flags = dio[d].flags
                               /\ dio'[d].bp = dio[d].bp
      BY <2>14, CleanupKeeps
    <3>3. ASSUME NEW u \in Threads, pc[u] \in HasRef PROVE my[u].dio \in hashed'
      BY <3>2, <3>3, <1>mine
    <3>4. Reaching'
      BY <3>1, <3>2, <3>3 DEF BufInv, Reaching, Reached, HasRef
    <3>5. \A u \in Threads : pc[u] = "wrote" =>
             pc'[u] = "wrote" /\ my'[u].b = my[u].b
      BY <3>1
    <3> QED BY <3>1, <3>2, <3>4, <3>5, BufCalm
  <2> QED BY <1>1, <2>1, <2>2, <2>3, <2>4, <2>5, <2>6, <2>7, <2>8, <2>9, <2>10,
             <2>11, <2>12, <2>13, <2>14 DEF Inside
<1>2. ASSUME NEW t \in Threads, Outside(t) PROVE BufInv'
  <2>1. ASSUME NEW b \in Bufs, NEW op \in Ops, GetBlk(t, b, op) PROVE BufInv'
    <3>1. /\ UNCHANGED <<hashed, dio, bioVars>>
          /\ pc[t] = "idle" /\ pc'[t] = "hash" /\ my'[t].b = b
          /\ \A u \in Threads : u # t => pc'[u] = pc[u] /\ my'[u] = my[u]
      BY <2>1, <1>others DEF GetBlk, TypeOK
    <3>2. Reaching'
      BY <3>1 DEF BufInv, Reaching, Reached, HasRef
    <3> QED BY <3>1, <3>2, BufCalm
  <2>2. CASE Store(t)
    <3>1. /\ pc[t] = "held" /\ pc'[t] = "wrote" /\ my' = my /\ hashed' = hashed
          /\ \A u \in Threads : u # t => pc'[u] = pc[u]
          /\ dio' = dio /\ my[t].b \in Bufs /\ dio[my[t].dio].refs # 0
          /\ my[t].dio \in hashed /\ pc[t] \in HasRef
          /\ dio[my[t].dio].pbase = my[t].b
      BY <2>2, <1>mine, <1>others DEF Store, HasRef
    <3>2. /\ "GOOD" \in dio[my[t].dio].flags /\ dio[my[t].dio].bp
          /\ buf[my[t].b].st = "busy"
      BY <3>1 DEF BufInv, Reaching, Reached, BusyOwned
    <3>3. /\ buf'[my[t].b].cur /\ buf'[my[t].b].st = "busy"
          /\ \A c \in Bufs : c # my[t].b =>
                buf'[c] = buf[c] /\ disk'[c] = disk[c]
      BY <2>2, <3>1, <3>2 DEF Store, TypeOK, BufState
    <3>4. Saved(my[t].b)'
      BY <3>1, <3>3 DEF Saved, Unwritten
    <3> QED BY <3>1, <3>2, <3>3, <3>4, BufFilled
  <2>mark. ASSUME NEW mark \in SUBSET {"DIRTY", "FLUSH"},
                  pc[t] \in {"held", "wrote"}, pc[t] = "wrote" => "DIRTY" \in mark,
                  dio' = [dio EXCEPT ![my[t].dio] = Marked(@, mark)],
                  UNCHANGED <<hashed, my, bioVars>>,
                  pc'[t] \in {"held", "put"},
                  \A u \in Threads : u # t => pc'[u] = pc[u]
           PROVE  BufInv'
    <3> DEFINE d == my[t].dio
    <3>1. d \in hashed /\ dio[d] \in DioState
      BY <2>mark, <1>mine DEF HasRef
    <3>2. /\ dio'[d].pbase = dio[d].pbase /\ dio'[d].bp = dio[d].bp
          /\ dio'[d].refs = dio[d].refs /\ dio'[d].flags = dio[d].flags \cup mark
          /\ \A e \in hashed : e # d => dio'[e] = dio[e]
      BY <2>mark, <3>1 DEF Marked, TypeOK, DioState
    <3>3. Reaching'
      BY <2>mark, <3>1, <3>2
         DEF BufInv, Reaching, Reached, RefInv, HoldersHashed, HasRef
    <3>4. "GOOD" \in dio'[d].flags <=> "GOOD" \in dio[d].flags
      BY <2>mark, <3>2
    <3>5. \A u \in Threads : pc[u] = "wrote" =>
            \/ pc'[u] = "wrote" /\ my'[u].b = my[u].b
            \/ /\ my[u].dio \in hashed'
               /\ "DIRTY" \in dio'[my[u].dio].flags
      BY <2>mark, <3>1, <3>2
    <3>6. \A e \in hashed :
            /\ dio'[e].pbase = dio[e].pbase /\ dio'[e].bp = dio[e].bp
            /\ "GOOD" \in dio'[e].flags <=> "GOOD" \in dio[e].flags
            /\ "DIRTY" \in dio[e].flags => "DIRTY" \in dio'[e].flags
            /\ dio[e].refs # 0 => dio'[e].refs # 0
      BY <3>2, <3>4
    <3> QED BY <2>mark, <3>3, <3>5, <3>6, BufCalm
  <2>3. CASE SetDirty(t)
    <3> DEFINE mark == {"DIRTY"}
    <3>1. /\ mark \in SUBSET {"DIRTY", "FLUSH"}
          /\ pc[t] \in {"held", "wrote"} /\ "DIRTY" \in mark
          /\ dio' = [dio EXCEPT ![my[t].dio] = Marked(@, mark)]
          /\ UNCHANGED <<hashed, my, bioVars>>
      BY <2>3 DEF SetDirty
    <3>2. pc'[t] \in {"held", "put"} /\ \A u \in Threads : u # t => pc'[u] = pc[u]
      BY <2>3, <1>others DEF SetDirty, Goto, TypeOK
    <3> HIDE DEF mark
    <3> QED BY <3>1, <3>2, <2>mark
  <2>4. ASSUME NEW mark \in {{}, {"DIRTY"}, {"DIRTY", "FLUSH"}},
               Release(t, mark) PROVE BufInv'
    <3>1. /\ mark \in SUBSET {"DIRTY", "FLUSH"}
          /\ pc[t] \in {"held", "wrote"} /\ (pc[t] = "wrote" => "DIRTY" \in mark)
          /\ dio' = [dio EXCEPT ![my[t].dio] = Marked(@, mark)]
          /\ UNCHANGED <<hashed, my, bioVars>>
      BY <2>4 DEF Release
    <3>2. pc'[t] \in {"held", "put"} /\ \A u \in Threads : u # t => pc'[u] = pc[u]
      BY <2>4, <1>others DEF Release, Goto, TypeOK
    <3> QED BY <3>1, <3>2, <2>mark
  <2> QED BY <1>2, <2>1, <2>2, <2>3, <2>4 DEF Outside
<1>3. ASSUME NEW b \in Bufs, Bio(b) PROVE BufInv'
  BY <1>3, BufBio
<1>4. CASE CleanupAll
  <2>1. /\ hashed' = {} /\ UNCHANGED <<bioVars, pc, my>>
        /\ \A t \in Threads : pc[t] = "idle"
    BY <1>4 DEF CleanupAll, Free
  <2>2. \A d \in hashed : dio[d].refs = 0
    <3>1. \A d : Holders(d) = {}
      BY <2>1 DEF Holders, HasRef
    <3> QED BY <3>1, FS_EmptySet DEF RefInv, RefsAreHolders
  <2>3. Reaching'
    BY <2>1 DEF Reaching, Reached, HasRef
  <2> QED BY <2>1, <2>2, <2>3, BufCalm
<1>5. CASE UNCHANGED vars
  <2>1. UNCHANGED <<hashed, dio, bioVars, pc, my>>
    BY <1>5 DEF vars
  <2>2. Reaching'
    BY <2>1 DEF BufInv, Reaching, Reached
  <2> QED BY <2>1, <2>2, BufCalm
<1> QED BY <1>1, <1>2, <1>3, <1>4, <1>5 DEF Step, Next

\* A dio with GOOD owns its buffer, a holder reads the newest contents, and what
\* was stored through any reference is on the device or will be written, whatever
\* order the holders drop the dio in (hammer2_io_getblk, hammer2_io_putblk).
THEOREM BuffersAreKept == Spec => []BuffersHold
<1>1. Init => BufInv
  BY DEF Init, BufInv, BusyOwned, Reaching, Reached, Cached, WillReach, Saved,
         HasRef
<1>2. Init => RefInv /\ HashInv
  BY DEF Init, RefInv, HoldersHashed, RefsAreHolders, HasRef, HashInv, HashOwner,
         MissStands, OneDioPerBuffer
<1>3. TypeOK /\ RefInv /\ Step => RefInv'
  BY RefStep
<1>4. TypeOK /\ HashInv /\ Step => HashInv'
  BY HashStep
<1>5. TypeOK /\ HashInv /\ RefInv /\ BufInv /\ Step => BufInv'
  BY BufStep
<1>6. TypeOK /\ RefInv /\ BufInv => BuffersHold
  <2> SUFFICES ASSUME TypeOK, RefInv, BufInv PROVE BuffersHold
    OBVIOUS
  <2>1. GoodHasBuffer
    BY DEF BufInv, BusyOwned, GoodHasBuffer
  <2>2. StoresSurvive
    <3>1. ASSUME NEW b \in Bufs, ~disk[b]
          PROVE  /\ buf[b].st # "none"
                 /\ buf[b].st \in {"busy", "writing"} \/ buf[b].delwri
      BY <3>1 DEF BufInv, WillReach, Saved
    <3> QED BY <3>1 DEF BufInv, Cached, StoresSurvive
  <2>3. HoldersReadNewest
    <3>1. ASSUME NEW t \in Threads, pc[t] = "held"
          PROVE  my[t].b \in Bufs /\ buf[my[t].b].st = "busy"
      BY <3>1 DEF BufInv, Reaching, Reached, BusyOwned, RefInv, HoldersHashed,
                  HasRef
    <3> QED BY <3>1 DEF BufInv, Cached, HoldersReadNewest
  <2> QED BY <2>1, <2>2, <2>3 DEF BuffersHold
<1> QED BY <1>1, <1>2, <1>3, <1>4, <1>5, <1>6, TypeCorrect, PTL DEF Spec, Step

-----------------------------------------------------------------------------
(* Writers, syncs and flush threads.                                         *)

Inodes == Files \cup {NoOne}
Points == {"idle", "start", "h2pmp_tr", "queue", "pass", "lock", "flush", "h2syndel", "root"}
SyncState == [at : Points, pfs : Pfss, syncq : SUBSET Inodes, ip : Inodes,
              restart : BOOLEAN, delay : BOOLEAN]
TransState == [isflush : BOOLEAN, waiting : BOOLEAN, count : Int]

TypeInv ==
    /\ sy \in [Syncs -> SyncState] /\ trans \in [Pfss -> TransState]
    /\ wr \in [Writers -> {"idle", "check", "h2memw", "go", "writing"}]
    /\ sideq \subseteq Inodes

\* The writers that have called write for a file, and those that no longer
\* look at the pressure.
Busy(f) == {w \in Writers : FileOf[w] = f /\ wr[w] # "idle"}
Through == {w \in Writers : wr[w] \in {"go", "writing"}}

\* A write that is counted is still under way or has left one buffer.
WritesInv == \A f \in Files : buffers[f] + Cardinality(Busy(f)) <= writes

UncleanInv ==
    ~GiveUps => Count(buffers) + Cardinality(Through) < HiDirty + Cardinality(Writers)

BuffersInv ==
    /\ buffers \in [Files -> 0..MaxWrites] /\ writes \in 0..MaxWrites
    /\ wr \in [Writers -> {"idle", "check", "h2memw", "go", "writing"}]
    /\ WritesInv /\ UncleanInv

ThrottleInv == TypeInv /\ FlushersAlone /\ BuffersInv

-----------------------------------------------------------------------------
(* Types, and where a step leaves each sync and each transaction.            *)

\* Only sync a moves, to point x of mount p.
Moved(s, u, a, x, p) ==
    /\ u \in [Syncs -> SyncState]
    /\ u[a].at = x /\ u[a].pfs = p
    /\ \A b \in Syncs \ {a} : u[b] = s[b]

\* A sync goes on to another point.
LEMMA AtIs ==
    ASSUME NEW s \in [Syncs -> SyncState], NEW a \in Syncs, NEW x \in Points
    PROVE  Moved(s, [s EXCEPT ![a].at = x], a, x, s[a].pfs)
  BY DEF SyncState, Moved

\* A sync is put in another state.
LEMMA PutIs ==
    ASSUME NEW s \in [Syncs -> SyncState], NEW a \in Syncs, NEW r \in SyncState
    PROVE  Moved(s, [s EXCEPT ![a] = r], a, r.at, r.pfs)
  BY DEF Moved

\* hammer2_vfs_sync_pmp remembers that it has to start over.
LEMMA AgainIs ==
    ASSUME NEW s \in [Syncs -> SyncState], NEW a \in Syncs
    PROVE  Moved(s, [s EXCEPT ![a].at = "pass", ![a].restart = TRUE], a, "pass", s[a].pfs)
<1> DEFINE u == [s EXCEPT ![a].at = "pass", ![a].restart = TRUE]
           r == [s[a] EXCEPT !.at = "pass", !.restart = TRUE]
<1>1. r \in SyncState
  BY DEF SyncState, Points
<1>2. u = [s EXCEPT ![a] = r]
  BY DEF SyncState
<1>3. r.at = "pass" /\ r.pfs = s[a].pfs
  BY DEF SyncState
<1> HIDE DEF u, r
<1>4. Moved(s, u, a, "pass", s[a].pfs)
  BY <1>1, <1>2, <1>3, PutIs
<1>5. QED
  BY <1>4 DEF u

\* The syncer goes on to another mount.
LEMMA MountIs ==
    ASSUME NEW s \in [Syncs -> SyncState], NEW a \in Syncs, NEW p \in Pfss
    PROVE  Moved(s, [s EXCEPT ![a].at = "start", ![a].pfs = p], a, "start", p)
<1> DEFINE u == [s EXCEPT ![a].at = "start", ![a].pfs = p]
           r == [s[a] EXCEPT !.at = "start", !.pfs = p]
<1>1. r \in SyncState
  BY DEF SyncState, Points
<1>2. u = [s EXCEPT ![a] = r]
  BY DEF SyncState
<1>3. r.at = "start" /\ r.pfs = p
  BY DEF SyncState
<1> HIDE DEF u, r
<1>4. Moved(s, u, a, "start", p)
  BY <1>1, <1>2, <1>3, PutIs
<1>5. QED
  BY <1>4 DEF u

\* Only transaction p of the mounts changes.
Set(u, p, f, w, n) ==
    /\ u \in [Pfss -> TransState]
    /\ u[p].isflush = f /\ u[p].waiting = w /\ u[p].count = n
    /\ \A q \in Pfss \ {p} : u[q] = trans[q]

\* hammer2_trans_init: the flush begins, or waits.
LEMMA TransIs ==
    ASSUME TypeInv, NEW p \in Pfss
    PROVE  /\ Set([trans EXCEPT ![p].isflush = TRUE, ![p].count = trans[p].count + 1],
                  p, TRUE, trans[p].waiting, trans[p].count + 1)
           /\ Set([trans EXCEPT ![p].count = trans[p].count + 1],
                  p, trans[p].isflush, trans[p].waiting, trans[p].count + 1)
           /\ \A w \in BOOLEAN : Set([trans EXCEPT ![p].waiting = w],
                  p, trans[p].isflush, w, trans[p].count)
<1> USE DEF TypeInv, TransState, Set
<1>1. Set([trans EXCEPT ![p].isflush = TRUE, ![p].count = trans[p].count + 1],
          p, TRUE, trans[p].waiting, trans[p].count + 1)
  <2> DEFINE u == [trans EXCEPT ![p].isflush = TRUE, ![p].count = trans[p].count + 1]
             r == [trans[p] EXCEPT !.isflush = TRUE, !.count = trans[p].count + 1]
  <2>0. trans[p] \in TransState /\ trans[p].count + 1 \in Int
    OBVIOUS
  <2>1. r \in TransState
    BY <2>0
  <2>2. u = [trans EXCEPT ![p] = r]
    OBVIOUS
  <2>3. r.isflush = TRUE /\ r.waiting = trans[p].waiting /\ r.count = trans[p].count + 1
    OBVIOUS
  <2> HIDE DEF u, r
  <2>4. Set(u, p, TRUE, trans[p].waiting, trans[p].count + 1)
    BY <2>1, <2>2, <2>3
  <2>5. QED
    BY <2>4 DEF u
<1>2. Set([trans EXCEPT ![p].count = trans[p].count + 1],
          p, trans[p].isflush, trans[p].waiting, trans[p].count + 1)
  OBVIOUS
<1>3. \A w \in BOOLEAN : Set([trans EXCEPT ![p].waiting = w],
          p, trans[p].isflush, w, trans[p].count)
  OBVIOUS
<1>4. QED
  BY <1>1, <1>2, <1>3

\* hammer2_trans_done.
LEMMA DoneIs ==
    ASSUME TypeInv, NEW p \in Pfss, NEW flush \in BOOLEAN
    PROVE  LET d == Done(trans[p], flush) IN
           Set([trans EXCEPT ![p] = d], p, trans[p].isflush /\ ~flush,
               trans[p].waiting /\ ~flush /\ ~(trans[p].isflush /\ trans[p].count = 2),
               trans[p].count - 1)
<1>1. Done(trans[p], flush) \in TransState
  BY DEF TypeInv, TransState, Done
<1>2. QED
  BY <1>1 DEF TypeInv, Set, Done

\* hammer2_trans_init after a wakeup: the sleepers on p try again.
LEMMA WokenIs ==
    ASSUME NEW s \in [Syncs -> SyncState], NEW p \in Pfss
    PROVE  /\ Woken(s, p) \in [Syncs -> SyncState]
           /\ \A a \in Syncs :
                 /\ Woken(s, p)[a].pfs = s[a].pfs
                 /\ Woken(s, p)[a].at =
                       IF s[a].at = "h2pmp_tr" /\ s[a].pfs = p THEN "start" ELSE s[a].at
<1>1. ASSUME NEW a \in Syncs
      PROVE  [s[a] EXCEPT !.at = "start"] \in SyncState
             /\ [s[a] EXCEPT !.at = "start"].at = "start"
             /\ [s[a] EXCEPT !.at = "start"].pfs = s[a].pfs
  BY DEF SyncState, Points
<1>2. QED
  BY <1>1 DEF Woken

-----------------------------------------------------------------------------
(* Flushes of a mount exclude each other.                                    *)

Within == Points \ {"idle", "start", "h2pmp_tr"}
In(p) == {a \in Syncs : InFlush(a, p)}
Writing(p) == {w \in Writers : wr[w] = "writing" /\ PfsOf[FileOf[w]] = p}
Sleepers(p) == {a \in Syncs : sy[a].pfs = p /\ sy[a].at = "h2pmp_tr"}

Alone(p) ==
    /\ Cardinality(In(p)) <= 1 /\ (trans[p].isflush <=> In(p) # {})
    /\ trans[p].count = Cardinality(In(p)) + Cardinality(Writing(p))
    /\ Sleepers(p) # {} => trans[p].waiting

\* The property, mount by mount.
LEMMA AloneIs == FlushersAlone <=> \A p \in Pfss : Alone(p)
  BY DEF FlushersAlone, Alone, In, Writing, Sleepers

\* There are finitely many to count.
LEMMA Finite ==
    ASSUME NEW p
    PROVE  /\ IsFiniteSet(In(p)) /\ Cardinality(In(p)) \in Nat
           /\ IsFiniteSet(Writing(p)) /\ Cardinality(Writing(p)) \in Nat
<1>1. IsFiniteSet(Syncs)
  BY FS_AddElement, ThrottleAssumption DEF Syncs
<1>2. In(p) \subseteq Syncs /\ Writing(p) \subseteq Writers
  BY DEF In, Writing
<1>3. IsFiniteSet(In(p)) /\ IsFiniteSet(Writing(p))
  BY <1>1, <1>2, FS_Subset, ThrottleAssumption
<1>4. QED
  BY <1>3, FS_CardinalityType

\* A mount nobody enters or leaves.
LEMMA AloneStays ==
    ASSUME NEW p \in Pfss, Alone(p), In(p)' = In(p), Writing(p)' = Writing(p),
           trans'[p].isflush = trans[p].isflush, trans'[p].count = trans[p].count,
           Sleepers(p)' # {} => trans'[p].waiting
    PROVE  Alone(p)'
  BY DEF Alone

\* A sync that moves neither into a flush nor out of it.
LEMMA MovedStays ==
    ASSUME TypeInv, NEW a \in Syncs, NEW x, NEW p, Moved(sy, sy', a, x, p),
           \/ sy[a].at \notin Within /\ x \notin Within
           \/ sy[a].at \in Within /\ x \in Within /\ p = sy[a].pfs,
           NEW q \in Pfss
    PROVE  /\ In(q)' = In(q)
           /\ x # "h2pmp_tr" \/ p # q => Sleepers(q)' \subseteq Sleepers(q)
<1>1. ASSUME NEW b \in Syncs
      PROVE  InFlush(b, q)' <=> InFlush(b, q)
  BY <1>1 DEF Moved, InFlush, Within, TypeInv, SyncState
<1>2. QED
  BY <1>1 DEF In, Sleepers, Moved

\* The steps of a sync between trans_init and trans_done, or before them.
LEMMA QuietSync ==
    ASSUME TypeInv, FlushersAlone, NEW a \in Syncs,
           \/ Pick(a) \/ GetVnode(a) \/ FlushInode(a) \/ PassEnd(a) \/ Delay(a)
           \/ a \in Pfss /\ FlushThread(a)
           \/ a = Syncer /\ NextMount
    PROVE  FlushersAlone' /\ sy' \in [Syncs -> SyncState] /\ UNCHANGED <<trans, wr>>
<1>0. sy \in [Syncs -> SyncState] /\ sy[a] \in SyncState /\ Pfss \subseteq Syncs
  BY DEF TypeInv, Syncs
<1>1. UNCHANGED <<trans, wr>>
  BY DEF Pick, GetVnode, FlushInode, PassEnd, Delay, FlushThread, NextMount
<1>2. \E x \in Points \ {"h2pmp_tr"}, p \in Pfss :
         /\ Moved(sy, sy', a, x, p)
         /\ \/ sy[a].at \notin Within /\ x \notin Within
            \/ sy[a].at \in Within /\ x \in Within /\ p = sy[a].pfs
  <2>0. sy[a].pfs \in Pfss
    BY <1>0 DEF SyncState
  <2>1. CASE Pick(a)
    <3>1. PICK f \in sy[a].syncq :
             sy' = [sy EXCEPT ![a] = [sy[a] EXCEPT !.at = "lock", !.ip = f,
                      !.syncq = sy[a].syncq \ {f}, !.delay = sy[a].delay \/ f \in pass2]]
      BY <2>1 DEF Pick
    <3> DEFINE r == [sy[a] EXCEPT !.at = "lock", !.ip = f,
                      !.syncq = sy[a].syncq \ {f}, !.delay = sy[a].delay \/ f \in pass2]
    <3>2. r \in SyncState /\ r.at = "lock" /\ r.pfs = sy[a].pfs
      BY <1>0 DEF SyncState, Points
    <3>3. sy' = [sy EXCEPT ![a] = r]
      BY <3>1
    <3> HIDE DEF r
    <3>4. Moved(sy, sy', a, "lock", sy[a].pfs)
      BY <1>0, <3>2, <3>3, PutIs
    <3>5. QED
      BY <2>0, <2>1, <3>4 DEF Within, Points, Pick
  <2>2. CASE GetVnode(a)
    <3>1. CASE sy' = [sy EXCEPT ![a].at = "pass", ![a].restart = TRUE]
      <4>1. Moved(sy, sy', a, "pass", sy[a].pfs)
        BY <1>0, <3>1, AgainIs
      <4>2. QED
        BY <2>0, <2>2, <4>1 DEF Within, Points, GetVnode
    <3>2. CASE sy' = [sy EXCEPT ![a].at = "flush"]
      <4>1. Moved(sy, sy', a, "flush", sy[a].pfs)
        BY <1>0, <3>2, AtIs DEF Points
      <4>2. QED
        BY <2>0, <2>2, <4>1 DEF Within, Points, GetVnode
    <3>3. QED
      BY <2>2, <3>1, <3>2 DEF GetVnode
  <2>3. CASE FlushInode(a) \/ Delay(a)
    <3>1. PICK x \in {"pass", "queue"} : sy' = [sy EXCEPT ![a].at = x]
      BY <2>3 DEF FlushInode, Delay
    <3>2. Moved(sy, sy', a, x, sy[a].pfs)
      BY <1>0, <3>1, AtIs DEF Points
    <3>3. QED
      BY <2>0, <2>3, <3>2 DEF Within, Points, FlushInode, Delay
  <2>4. CASE PassEnd(a)
    <3>1. PICK x \in {"root", "h2syndel", "queue"} : sy' = [sy EXCEPT ![a].at = x]
      BY <2>4 DEF PassEnd
    <3>2. Moved(sy, sy', a, x, sy[a].pfs)
      BY <1>0, <3>1, AtIs DEF Points
    <3>3. QED
      BY <2>0, <2>4, <3>2 DEF Within, Points, PassEnd
  <2>5. CASE a \in Pfss /\ FlushThread(a)
    <3>1. Moved(sy, sy', a, "start", sy[a].pfs)
      BY <1>0, <2>5, AtIs DEF Points, FlushThread
    <3>2. QED
      BY <2>0, <2>5, <3>1 DEF Within, Points, FlushThread
  <2>6. CASE a = Syncer /\ NextMount
    <3>1. PICK p \in Pfss : sy' = [sy EXCEPT ![a].at = "start", ![a].pfs = p]
      BY <2>6 DEF NextMount
    <3>2. Moved(sy, sy', a, "start", p)
      BY <1>0, <3>1, MountIs
    <3>3. QED
      BY <2>6, <3>2 DEF Within, Points, NextMount
  <2>7. QED
    BY <2>1, <2>2, <2>3, <2>4, <2>5, <2>6
<1>3. PICK x \in Points \ {"h2pmp_tr"}, p \in Pfss :
         /\ Moved(sy, sy', a, x, p)
         /\ \/ sy[a].at \notin Within /\ x \notin Within
            \/ sy[a].at \in Within /\ x \in Within /\ p = sy[a].pfs
  BY <1>2
<1>4. ASSUME NEW q \in Pfss PROVE Alone(q)'
  <2>1. In(q)' = In(q) /\ Sleepers(q)' \subseteq Sleepers(q)
    BY <1>3, MovedStays
  <2>2. Alone(q) /\ Writing(q)' = Writing(q)
    BY <1>1, AloneIs DEF Writing
  <2>3. Sleepers(q)' # {} => trans'[q].waiting
    BY <1>1, <2>1, <2>2 DEF Alone
  <2>4. QED
    BY <1>1, <2>1, <2>2, <2>3, AloneStays
<1>5. FlushersAlone'
  BY <1>4 DEF FlushersAlone, Alone, In, Writing, Sleepers
<1>6. QED
  BY <1>1, <1>3, <1>5 DEF Moved

\* The same, for the state after a step.
LEMMA AloneIsNext == FlushersAlone' <=> \A p \in Pfss : Alone(p)'
  BY DEF FlushersAlone, Alone, In, Writing, Sleepers

\* hammer2_trans_init of a flush: it waits, with WAITING set, or is alone.
LEMMA TransInitAlone ==
    ASSUME TypeInv, FlushersAlone, NEW a \in Syncs, TransInit(a)
    PROVE  FlushersAlone' /\ sy' \in [Syncs -> SyncState] /\ trans' \in [Pfss -> TransState]
<1>. PICK p \in Pfss : p = sy[a].pfs
  BY DEF TypeInv, SyncState
<1>0. /\ sy \in [Syncs -> SyncState] /\ p \in Pfss /\ sy[a].at = "start" /\ wr' = wr
      /\ trans[p].waiting \in BOOLEAN
  BY DEF TypeInv, SyncState, TransState, TransInit
<1>1. \A q \in Pfss : Alone(q) /\ Writing(q)' = Writing(q)
  BY <1>0, AloneIs DEF Writing
<1>2. CASE MustWait(trans[p])
  <2>1. sy' = [sy EXCEPT ![a].at = "h2pmp_tr"] /\ trans' = [trans EXCEPT ![p].waiting = TRUE]
    BY <1>2 DEF TransInit
  <2>2. Moved(sy, sy', a, "h2pmp_tr", p)
    BY <1>0, <2>1, AtIs DEF Points
  <2>3. Set(trans', p, trans[p].isflush, TRUE, trans[p].count)
    BY <1>0, <2>1, TransIs
  <2>4. ASSUME NEW q \in Pfss PROVE Alone(q)'
    <3>1. /\ In(q)' = In(q)
          /\ p # q => Sleepers(q)' \subseteq Sleepers(q)
      <4>1. sy[a].at \notin Within /\ "h2pmp_tr" \notin Within
        BY <1>0 DEF Within
      <4>2. QED
        BY <2>2, <4>1, MovedStays
    <3>2. CASE q = p
      BY <1>1, <2>3, <3>1, <3>2, AloneStays DEF Set
    <3>3. CASE q # p
      <4>1. trans'[q] = trans[q] /\ Sleepers(q)' \subseteq Sleepers(q)
        BY <2>3, <3>1, <3>3 DEF Set
      <4>2. Sleepers(q)' # {} => trans'[q].waiting
        BY <1>1, <4>1 DEF Alone
      <4>3. QED
        BY <1>1, <3>1, <4>1, <4>2, AloneStays
    <3>4. QED
      BY <3>2, <3>3
  <2>5. QED
    BY <2>2, <2>3, <2>4, AloneIsNext DEF Moved, Set
<1>3. CASE ~MustWait(trans[p])
  <2>1. /\ sy' = [sy EXCEPT ![a].at = "queue"]
        /\ trans' = [trans EXCEPT ![p].isflush = TRUE, ![p].count = trans[p].count + 1]
    BY <1>3 DEF TransInit
  <2>2. Moved(sy, sy', a, "queue", p)
    BY <1>0, <2>1, AtIs DEF Points
  <2>3. Set(trans', p, TRUE, trans[p].waiting, trans[p].count + 1)
    BY <1>0, <2>1, TransIs
  <2>4. \A q \in Pfss : Sleepers(q)' \subseteq Sleepers(q)
    BY <1>0, <2>2 DEF Moved, Sleepers
  <2>5. Alone(p)'
    <3>1. In(p) = {}
      BY <1>0, <1>1, <1>3 DEF MustWait, Alone
    <3>2. In(p)' = {a}
      BY <1>0, <2>2, <3>1 DEF In, InFlush, Moved
    <3>3. Cardinality(In(p)') = 1 /\ Cardinality(In(p)) = 0
      BY <3>1, <3>2, FS_Singleton, FS_EmptySet
    <3>4. Cardinality(Writing(p)) \in Nat /\ trans[p].count = 0 + Cardinality(Writing(p))
      BY <1>0, <1>1, <3>3, Finite DEF Alone
    <3>5. Sleepers(p)' # {} => trans'[p].waiting
      BY <1>0, <1>1, <2>3, <2>4 DEF Alone, Set
    <3>6. QED
      BY <1>0, <1>1, <2>3, <3>2, <3>3, <3>4, <3>5 DEF Alone, Set
  <2>6. ASSUME NEW q \in Pfss, q # p PROVE Alone(q)'
    <3>1. In(q)' = In(q)
      BY <1>0, <2>2, <2>6 DEF In, InFlush, Moved
    <3>2. trans'[q] = trans[q]
      BY <2>3, <2>6 DEF Set
    <3>3. Sleepers(q)' # {} => trans'[q].waiting
      BY <1>1, <2>4, <3>2 DEF Alone
    <3>4. QED
      BY <1>1, <3>1, <3>2, <3>3, AloneStays
  <2>7. QED
    BY <2>2, <2>3, <2>5, <2>6, AloneIsNext DEF Moved, Set
<1>4. QED
  BY <1>2, <1>3

\* Who is woken leaves no sleeper behind, and is not in a flush.
LEMMA WokenStays ==
    ASSUME NEW s \in [Syncs -> SyncState], NEW p \in Pfss, sy' = Woken(s, p)
    PROVE  /\ sy' \in [Syncs -> SyncState]
           /\ \A q : In(q)' = {b \in Syncs : s[b].pfs = q /\ s[b].at \notin {"idle", "start", "h2pmp_tr"}}
           /\ Sleepers(p)' = {}
           /\ \A q : Sleepers(q)' \subseteq {b \in Syncs : s[b].pfs = q /\ s[b].at = "h2pmp_tr"}
<1>1. ASSUME NEW q, NEW b \in Syncs
      PROVE  /\ InFlush(b, q)' <=> (s[b].pfs = q /\ s[b].at \notin {"idle", "start", "h2pmp_tr"})
             /\ sy'[b].pfs = q /\ sy'[b].at = "h2pmp_tr" =>
                   s[b].pfs = q /\ s[b].at = "h2pmp_tr" /\ q # p
  BY WokenIs DEF InFlush
<1>2. QED
  BY <1>1, WokenIs DEF In, Sleepers

\* hammer2_trans_clearflags(WAITING): whoever sleeps is woken.
LEMMA QueueAlone ==
    ASSUME TypeInv, FlushersAlone, NEW a \in Syncs, Queue(a)
    PROVE  /\ FlushersAlone' /\ sy' \in [Syncs -> SyncState] /\ trans' \in [Pfss -> TransState]
           /\ sideq' \subseteq Inodes
<1>. PICK p \in Pfss : p = sy[a].pfs
  BY DEF TypeInv, SyncState
<1> DEFINE Mine == {f \in sideq : PfsOf[f] = p}
           Served == IF sy[a].restart THEN Mine \cap pass2 ELSE Mine
           r == [sy[a] EXCEPT !.at = "pass", !.restart = FALSE,
                     !.delay = FALSE, !.syncq = sy[a].syncq \cup Served]
           s == [sy EXCEPT ![a] = r]
<1>0. /\ sy \in [Syncs -> SyncState] /\ p \in Pfss /\ sy[a].at = "queue" /\ wr' = wr
      /\ sy[a] \in SyncState
      /\ trans[p].waiting \in BOOLEAN
  BY DEF TypeInv, SyncState, TransState, Queue
<1>1. \A q \in Pfss : Alone(q) /\ Writing(q)' = Writing(q)
  BY <1>0, AloneIs DEF Writing
<1>2. Served \subseteq Inodes
  BY DEF TypeInv
<1>3. r \in SyncState /\ r.at = "pass" /\ r.pfs = p
  BY <1>0, <1>2 DEF SyncState, Points
<1>4. sy' = Unwaited(trans[p], s, p) /\ trans' = [trans EXCEPT ![p].waiting = FALSE]
      /\ sideq' \subseteq sideq
  BY DEF Queue
<1> HIDE DEF r, s
<1>5. Moved(sy, s, a, "pass", p)
  BY <1>0, <1>3, PutIs DEF s
<1>6. Set(trans', p, trans[p].isflush, FALSE, trans[p].count)
  BY <1>0, <1>4, TransIs
<1>7. \A q \in Pfss : /\ In(q) = {b \in Syncs : s[b].pfs = q /\ s[b].at \notin {"idle", "start", "h2pmp_tr"}}
                      /\ Sleepers(q) = {b \in Syncs : s[b].pfs = q /\ s[b].at = "h2pmp_tr"}
  BY <1>0, <1>5 DEF Moved, In, InFlush, Sleepers
<1>8. /\ sy' \in [Syncs -> SyncState]
      /\ \A q \in Pfss : In(q)' = In(q) /\ Sleepers(q)' \subseteq Sleepers(q)
      /\ Sleepers(p)' = {}
  <2>1. CASE trans[p].waiting
    <3>1. sy' = Woken(s, p) /\ s \in [Syncs -> SyncState]
      BY <1>4, <1>5, <2>1 DEF Unwaited, Moved
    <3>2. \A q : In(q)' = {b \in Syncs : s[b].pfs = q /\ s[b].at \notin {"idle", "start", "h2pmp_tr"}}
      BY <1>0, <3>1, WokenStays
    <3>3. \A q : Sleepers(q)' \subseteq {b \in Syncs : s[b].pfs = q /\ s[b].at = "h2pmp_tr"}
      BY <1>0, <3>1, WokenStays
    <3>4. sy' \in [Syncs -> SyncState] /\ Sleepers(p)' = {}
      BY <1>0, <3>1, WokenStays
    <3>5. QED
      BY <1>7, <3>2, <3>3, <3>4
  <2>2. CASE ~trans[p].waiting
    <3>1. sy' = s /\ Sleepers(p) = {}
      BY <1>0, <1>1, <1>4, <2>2 DEF Unwaited, Alone
    <3>2. \A q \in Pfss : In(q)' = In(q) /\ Sleepers(q)' = Sleepers(q)
      BY <1>7, <3>1 DEF In, InFlush, Sleepers
    <3>3. QED
      BY <1>0, <1>5, <3>1, <3>2 DEF Moved
  <2>3. QED
    BY <2>1, <2>2
<1>9. ASSUME NEW q \in Pfss PROVE Alone(q)'
  <2>1. CASE q = p
    BY <1>1, <1>6, <1>8, <2>1, AloneStays DEF Set
  <2>2. CASE q # p
    <3>1. trans'[q] = trans[q]
      BY <1>6, <2>2 DEF Set
    <3>2. Sleepers(q)' # {} => trans'[q].waiting
      BY <1>1, <1>8, <3>1 DEF Alone
    <3>3. QED
      BY <1>1, <1>8, <3>1, <3>2, AloneStays
  <2>3. QED
    BY <2>1, <2>2
<1>10. sideq' \subseteq Inodes
  BY <1>4 DEF TypeInv
<1>11. QED
  BY <1>6, <1>8, <1>9, <1>10, AloneIsNext DEF Set

\* hammer2_trans_done: whoever sleeps keeps the promise of a wakeup, or is woken.
LEMMA WokeStays ==
    ASSUME TypeInv, FlushersAlone, NEW s \in [Syncs -> SyncState], NEW p \in Pfss,
           NEW flush \in BOOLEAN, sy' = Woke(trans[p], flush, s, p),
           trans' = [trans EXCEPT ![p] = Done(trans[p], flush)],
           \A q, b \in Syncs : s[b].at = "h2pmp_tr" => s[b] = sy[b]
    PROVE  /\ sy' \in [Syncs -> SyncState] /\ trans' \in [Pfss -> TransState]
           /\ \A q : In(q)' = {b \in Syncs : s[b].pfs = q /\ s[b].at \notin {"idle", "start", "h2pmp_tr"}}
           /\ trans'[p].isflush = (trans[p].isflush /\ ~flush)
           /\ trans'[p].count = trans[p].count - 1
           /\ \A q \in Pfss \ {p} : trans'[q] = trans[q]
           /\ \A q \in Pfss : Sleepers(q)' # {} => trans'[q].waiting
<1> DEFINE d == Done(trans[p], flush)
<1>1. Set(trans', p, trans[p].isflush /\ ~flush,
          trans[p].waiting /\ ~flush /\ ~(trans[p].isflush /\ trans[p].count = 2),
          trans[p].count - 1)
  BY DoneIs
<1>2. trans'[p] = d
  BY DEF TypeInv
<1>3. sy' = IF trans[p].waiting /\ ~d.waiting THEN Woken(s, p) ELSE s
  BY DEF Woke
<1> HIDE DEF d
<1>4. /\ sy' \in [Syncs -> SyncState]
      /\ \A q : In(q)' = {b \in Syncs : s[b].pfs = q /\ s[b].at \notin {"idle", "start", "h2pmp_tr"}}
      /\ \A q : Sleepers(q)' \subseteq {b \in Syncs : s[b].pfs = q /\ s[b].at = "h2pmp_tr"}
      /\ trans[p].waiting /\ ~d.waiting => Sleepers(p)' = {}
  <2>1. CASE trans[p].waiting /\ ~d.waiting
    <3>1. sy' = Woken(s, p)
      BY <1>3, <2>1
    <3>2. QED
      BY <3>1, WokenStays
  <2>2. CASE ~(trans[p].waiting /\ ~d.waiting)
    <3>1. sy' = s
      BY <1>3, <2>2
    <3>2. QED
      BY <2>2, <3>1 DEF In, InFlush, Sleepers
  <2>3. QED
    BY <2>1, <2>2
<1>5. \A q \in Pfss : Sleepers(q)' \subseteq Sleepers(q)
  BY <1>4 DEF Sleepers
<1>6. \A q \in Pfss : Sleepers(q) # {} => trans[q].waiting
  BY AloneIs DEF Alone
<1>7. \A q \in Pfss : Sleepers(q)' # {} => trans'[q].waiting
  BY <1>1, <1>2, <1>4, <1>5, <1>6 DEF Set
<1>8. QED
  BY <1>1, <1>4, <1>7 DEF Set

\* hammer2_trans_done of the flush.
LEMMA SyncDoneAlone ==
    ASSUME TypeInv, FlushersAlone, NEW a \in Syncs, SyncDone(a)
    PROVE  FlushersAlone' /\ sy' \in [Syncs -> SyncState] /\ trans' \in [Pfss -> TransState]
<1>. PICK p \in Pfss : p = sy[a].pfs
  BY DEF TypeInv, SyncState
<1> DEFINE s == [sy EXCEPT ![a] = SyncIdle(p)]
<1>0. /\ sy \in [Syncs -> SyncState] /\ sy[a].at = "root" /\ wr' = wr
      /\ SyncIdle(p) \in SyncState /\ SyncIdle(p).at = "idle"
  BY DEF TypeInv, SyncState, SyncDone, SyncIdle, Points, Inodes
<1>1. \A q \in Pfss : Alone(q) /\ Writing(q)' = Writing(q)
  BY <1>0, AloneIs DEF Writing
<1>2. s \in [Syncs -> SyncState] /\ \A b \in Syncs : s[b] = IF b = a THEN SyncIdle(p) ELSE sy[b]
  BY <1>0
<1>3. sy' = Woke(trans[p], TRUE, s, p) /\ trans' = [trans EXCEPT ![p] = Done(trans[p], TRUE)]
  BY DEF SyncDone
<1> HIDE DEF s
<1>4. \A q, b \in Syncs : s[b].at = "h2pmp_tr" => s[b] = sy[b]
  BY <1>0, <1>2
<1>typed. TypeInv /\ FlushersAlone /\ p \in Pfss /\ TRUE \in BOOLEAN
  BY DEF TypeInv, SyncState
<1>5. /\ sy' \in [Syncs -> SyncState] /\ trans' \in [Pfss -> TransState]
      /\ \A q : In(q)' = {b \in Syncs : s[b].pfs = q /\ s[b].at \notin {"idle", "start", "h2pmp_tr"}}
      /\ trans'[p].isflush = (trans[p].isflush /\ ~TRUE)
      /\ trans'[p].count = trans[p].count - 1
      /\ \A q \in Pfss \ {p} : trans'[q] = trans[q]
      /\ \A q \in Pfss : Sleepers(q)' # {} => trans'[q].waiting
  BY <1>2, <1>3, <1>4, <1>typed, WokeStays
<1>6. a \in In(p)
  BY <1>0 DEF In, InFlush
<1>7. In(p) = {a}
  <2>1. Cardinality(In(p)) = 1
    BY <1>1, <1>6, Finite, FS_EmptySet DEF Alone
  <2>2. QED
    BY <1>6, <2>1, Finite, FS_Singleton
<1>8. In(p)' = {}
  <2>1. ASSUME NEW b \in Syncs, s[b].pfs = p, s[b].at \notin {"idle", "start", "h2pmp_tr"}
        PROVE  FALSE
    <3>1. b # a
      BY <1>0, <1>2, <2>1
    <3>2. b \in In(p)
      BY <1>2, <2>1, <3>1 DEF In, InFlush
    <3>3. QED
      BY <1>7, <3>1, <3>2
  <2>2. QED
    BY <1>5, <2>1
<1>9. Alone(p)'
  <2>1. Cardinality(In(p)) = 1 /\ Cardinality(In(p)') = 0
    BY <1>7, <1>8, FS_Singleton, FS_EmptySet
  <2>2. Cardinality(Writing(p)) \in Nat /\ trans[p].count = 1 + Cardinality(Writing(p))
    BY <1>1, <2>1, Finite DEF Alone
  <2>3. trans'[p].count = 0 + Cardinality(Writing(p))
    BY <1>5, <2>2
  <2>4. ~trans'[p].isflush
    BY <1>5
  <2>5. QED
    BY <1>1, <1>5, <1>8, <2>1, <2>3, <2>4 DEF Alone
<1>10. ASSUME NEW q \in Pfss, q # p PROVE Alone(q)'
  <2>1. In(q)' = In(q)
    BY <1>0, <1>2, <1>5, <1>10 DEF In, InFlush
  <2>2. trans'[q] = trans[q]
    BY <1>5, <1>10
  <2>3. QED
    BY <1>1, <1>5, <2>1, <2>2, AloneStays
<1>11. QED
  BY <1>5, <1>9, <1>10, AloneIsNext

\* hammer2_trans_init of a write: one more in its transaction.
LEMMA WriteBeginAlone ==
    ASSUME TypeInv, FlushersAlone, NEW w \in Writers, WriteBegin(w)
    PROVE  FlushersAlone' /\ sy' \in [Syncs -> SyncState] /\ trans' \in [Pfss -> TransState]
<1> DEFINE p == PfsOf[FileOf[w]]
<1>0. p \in Pfss /\ wr[w] = "go" /\ wr' = [wr EXCEPT ![w] = "writing"] /\ sy' = sy
  BY ThrottleAssumption DEF WriteBegin
<1>1. \A q \in Pfss : Alone(q) /\ In(q)' = In(q) /\ Sleepers(q)' = Sleepers(q)
  BY <1>0, AloneIs DEF In, InFlush, Sleepers
<1>2. Set(trans', p, trans[p].isflush, trans[p].waiting, trans[p].count + 1)
  BY <1>0, TransIs DEF WriteBegin
<1>3. Writing(p)' = Writing(p) \cup {w} /\ w \notin Writing(p)
      /\ \A q \in Pfss \ {p} : Writing(q)' = Writing(q)
  BY <1>0 DEF Writing, TypeInv
<1> HIDE DEF p
<1>4. Cardinality(Writing(p)') = Cardinality(Writing(p)) + 1
  BY <1>3, Finite, FS_AddElement
<1>5. Alone(p)'
  <2>1. Cardinality(In(p)) \in Nat /\ Cardinality(Writing(p)) \in Nat
    BY Finite
  <2>2. trans'[p].count = Cardinality(In(p)) + Cardinality(Writing(p)')
    BY <1>0, <1>1, <1>2, <1>4, <2>1 DEF Set, Alone
  <2>3. QED
    BY <1>0, <1>1, <1>2, <2>2 DEF Set, Alone
<1>6. ASSUME NEW q \in Pfss, q # p PROVE Alone(q)'
  <2>1. trans'[q] = trans[q]
    BY <1>2, <1>6 DEF Set
  <2>2. QED
    BY <1>1, <1>3, <1>6, <2>1, AloneStays DEF Alone
<1>7. QED
  BY <1>0, <1>2, <1>5, <1>6, AloneIsNext DEF Set, TypeInv

\* hammer2_trans_done of a write.
LEMMA WriteEndAlone ==
    ASSUME TypeInv, FlushersAlone, NEW w \in Writers, WriteEnd(w)
    PROVE  FlushersAlone' /\ sy' \in [Syncs -> SyncState] /\ trans' \in [Pfss -> TransState]
<1> DEFINE p == PfsOf[FileOf[w]]
<1>0. p \in Pfss /\ wr[w] = "writing" /\ wr' = [wr EXCEPT ![w] = "idle"]
      /\ sy \in [Syncs -> SyncState]
      /\ sy' = Woke(trans[p], FALSE, sy, p) /\ trans' = [trans EXCEPT ![p] = Done(trans[p], FALSE)]
  BY ThrottleAssumption DEF WriteEnd, TypeInv
<1>1. \A q \in Pfss : Alone(q)
  BY AloneIs
<1>2. Writing(p)' = Writing(p) \ {w} /\ w \in Writing(p)
      /\ \A q \in Pfss \ {p} : Writing(q)' = Writing(q)
  BY <1>0 DEF Writing, TypeInv
<1> HIDE DEF p
<1>3. /\ sy' \in [Syncs -> SyncState] /\ trans' \in [Pfss -> TransState]
      /\ \A q : In(q)' = {b \in Syncs : sy[b].pfs = q /\ sy[b].at \notin {"idle", "start", "h2pmp_tr"}}
      /\ trans'[p].isflush = (trans[p].isflush /\ ~FALSE)
      /\ trans'[p].count = trans[p].count - 1
      /\ \A q \in Pfss \ {p} : trans'[q] = trans[q]
      /\ \A q \in Pfss : Sleepers(q)' # {} => trans'[q].waiting
  BY <1>0, WokeStays
<1>4. \A q \in Pfss : In(q)' = In(q)
  BY <1>3 DEF In, InFlush
<1>5. Cardinality(Writing(p)') = Cardinality(Writing(p)) - 1
  BY <1>2, Finite, FS_RemoveElement
<1>6. Alone(p)'
  <2>1. Cardinality(In(p)) \in Nat /\ Cardinality(Writing(p)) \in Nat
    BY Finite
  <2>2. trans'[p].count = Cardinality(In(p)) + Cardinality(Writing(p)')
    <3>1. trans[p].count = Cardinality(In(p)) + Cardinality(Writing(p))
      BY <1>0, <1>1 DEF Alone
    <3>2. QED
      BY <1>3, <1>5, <2>1, <3>1
  <2>3. trans'[p].isflush <=> trans[p].isflush
    BY <1>3
  <2>4. QED
    BY <1>0, <1>1, <1>3, <1>4, <2>2, <2>3 DEF Alone
<1>7. ASSUME NEW q \in Pfss, q # p PROVE Alone(q)'
  BY <1>1, <1>2, <1>3, <1>4, <1>7, AloneStays
<1>8. QED
  BY <1>3, <1>6, <1>7, AloneIsNext

-----------------------------------------------------------------------------
(* The writers and what they leave in the buffer cache.                      *)

\* What the writers are stalled by, as a sum over the files.
LEMMA CountIs ==
    ASSUME NEW n
    PROVE  Count(n) = Total(Files, MaxWrites, n) /\ Count(n) \in Nat
<1>1. Count(n) = Total(Files, MaxWrites, n)
  BY DEF Count, Total, Tokens
<1>2. QED
  BY <1>1, TokensFinite, ThrottleAssumption

\* The writers can be counted.
LEMMA FiniteWriters ==
    /\ IsFiniteSet(Through) /\ Cardinality(Through) \in Nat
    /\ \A f \in Files : IsFiniteSet(Busy(f)) /\ Cardinality(Busy(f)) \in Nat
    /\ Cardinality(Writers) \in Nat
<1>1. Through \subseteq Writers /\ \A f \in Files : Busy(f) \subseteq Writers
  BY DEF Through, Busy
<1>2. QED
  BY <1>1, FS_Subset, FS_CardinalityType, ThrottleAssumption

\* A strategy write or vflushbuf only takes buffers away.
LEMMA Drains ==
    ASSUME BuffersInv, UNCHANGED <<wr, writes>>, buffers' \in [Files -> 0..MaxWrites],
           \A f \in Files : buffers'[f] <= buffers[f]
    PROVE  BuffersInv'
<1>1. Count(buffers') <= Count(buffers)
  BY CountIs, TotalMono, ThrottleAssumption DEF BuffersInv
<1>2. Through' = Through /\ \A f \in Files : Busy(f)' = Busy(f)
  BY DEF Through, Busy
<1>3. WritesInv'
  <2>1. ASSUME NEW f \in Files PROVE buffers'[f] + Cardinality(Busy(f)') <= writes'
    <3>1. Cardinality(Busy(f)) \in Nat /\ buffers[f] \in Nat /\ buffers'[f] \in Nat
      BY FiniteWriters DEF BuffersInv
    <3>2. buffers[f] + Cardinality(Busy(f)) <= writes /\ writes \in Nat
      BY DEF BuffersInv, WritesInv
    <3>3. QED
      BY <1>2, <3>1, <3>2
  <2>2. QED
    BY <2>1 DEF WritesInv
<1>4. UncleanInv'
  <2>1. Count(buffers') \in Nat /\ Count(buffers) \in Nat /\ Cardinality(Through) \in Nat
        /\ Cardinality(Writers) \in Nat /\ HiDirty \in Nat
    BY CountIs, FiniteWriters, ThrottleAssumption
  <2>2. ~GiveUps => Count(buffers) + Cardinality(Through) < HiDirty + Cardinality(Writers)
    BY DEF BuffersInv, UncleanInv
  <2>3. ~GiveUps => Count(buffers') + Cardinality(Through) < HiDirty + Cardinality(Writers)
    BY <1>1, <2>1, <2>2
  <2>4. QED
    BY <1>2, <2>3 DEF UncleanInv, Count
<1>5. QED
  BY <1>3, <1>4 DEF BuffersInv

\* hammer2_pfs_memory_wait: a writer goes on to another point; it may only go
\* through while the buffers are under the mark.
LEMMA WriterMoves ==
    ASSUME BuffersInv, NEW w \in Writers, NEW x \in {"check", "h2memw", "go", "writing"},
           wr' = [wr EXCEPT ![w] = x], wr[w] # "idle", UNCHANGED <<buffers, writes>>,
           x \in {"go", "writing"} => \/ wr[w] \in {"go", "writing"}
                                      \/ GiveUps \/ Count(buffers) < HiDirty
    PROVE  BuffersInv'
<1>0. wr' \in [Writers -> {"idle", "check", "h2memw", "go", "writing"}]
  BY DEF BuffersInv
<1>1. \A f \in Files : Busy(f)' = Busy(f)
  BY DEF Busy, BuffersInv
<1>2. WritesInv'
  BY <1>1 DEF WritesInv, BuffersInv
<1>3. Count(buffers) \in Nat /\ Cardinality(Through) \in Nat
      /\ Cardinality(Writers) \in Nat /\ HiDirty \in Nat
  BY CountIs, FiniteWriters, ThrottleAssumption
<1>4. ~GiveUps => Count(buffers) + Cardinality(Through) < HiDirty + Cardinality(Writers)
  BY DEF BuffersInv, UncleanInv
<1>5. ~GiveUps => Count(buffers) + Cardinality(Through') < HiDirty + Cardinality(Writers)
  <2>1. CASE x \in {"go", "writing"} /\ wr[w] \notin {"go", "writing"}
    <3>1. Through' = Through \cup {w} /\ w \notin Through /\ Through' \subseteq Writers
      BY <2>1 DEF Through, BuffersInv
    <3>2. Cardinality(Through') = Cardinality(Through) + 1
      BY <3>1, FiniteWriters, FS_AddElement
    <3>3. Cardinality(Through') <= Cardinality(Writers)
      BY <3>1, FS_Subset, ThrottleAssumption
    <3>4. QED
      BY <1>3, <2>1, <3>2, <3>3
  <2>2. CASE ~(x \in {"go", "writing"} /\ wr[w] \notin {"go", "writing"})
    <3>1. Through' \subseteq Through
      BY <2>2 DEF Through, BuffersInv
    <3>2. Cardinality(Through') <= Cardinality(Through) /\ Cardinality(Through') \in Nat
      BY <3>1, FiniteWriters, FS_Subset, FS_CardinalityType
    <3>3. QED
      BY <1>3, <1>4, <3>2
  <2>3. QED
    BY <2>1, <2>2
<1>6. QED
  BY <1>0, <1>2, <1>5 DEF BuffersInv, UncleanInv

\* vn_write: one more write.
LEMMA VnWriteBuffers ==
    ASSUME BuffersInv, NEW w \in Writers, VnWrite(w)
    PROVE  BuffersInv'
<1>0. /\ wr[w] = "idle" /\ wr' = [wr EXCEPT ![w] = "check"] /\ buffers' = buffers
      /\ writes < MaxWrites /\ writes' = writes + 1
  BY DEF VnWrite
<1>1. Through' = Through
  BY <1>0 DEF Through, BuffersInv
<1>2. ASSUME NEW f \in Files PROVE buffers'[f] + Cardinality(Busy(f)') <= writes'
  <2>1. Busy(f)' \subseteq Busy(f) \cup {w}
    BY <1>0 DEF Busy, BuffersInv
  <2>2. IsFiniteSet(Busy(f) \cup {w}) /\ Cardinality(Busy(f) \cup {w}) <= Cardinality(Busy(f)) + 1
        /\ Cardinality(Busy(f)) \in Nat
    <3>1. IsFiniteSet(Busy(f)) /\ Cardinality(Busy(f)) \in Nat
      BY FiniteWriters
    <3>2. IsFiniteSet(Busy(f) \cup {w})
          /\ Cardinality(Busy(f) \cup {w}) \in {Cardinality(Busy(f)), Cardinality(Busy(f)) + 1}
      BY <3>1, FS_AddElement
    <3>3. QED
      BY <3>1, <3>2
  <2>3. Cardinality(Busy(f)') <= Cardinality(Busy(f) \cup {w}) /\ Cardinality(Busy(f)') \in Nat
        /\ Cardinality(Busy(f) \cup {w}) \in Nat
    BY <2>1, <2>2, FS_Subset, FS_CardinalityType
  <2>4. buffers[f] \in Nat /\ writes \in Nat /\ buffers[f] + Cardinality(Busy(f)) <= writes
    BY DEF BuffersInv, WritesInv
  <2>5. QED
    BY <1>0, <2>2, <2>3, <2>4
<1>3. writes' \in 0..MaxWrites
  BY <1>0, ThrottleAssumption DEF BuffersInv
<1>4. wr' \in [Writers -> {"idle", "check", "h2memw", "go", "writing"}]
  BY <1>0 DEF BuffersInv
<1>5. UncleanInv'
  BY <1>0, <1>1 DEF BuffersInv, UncleanInv
<1>6. WritesInv'
  BY <1>2 DEF WritesInv
<1>7. QED
  BY <1>0, <1>3, <1>4, <1>5, <1>6 DEF BuffersInv

\* hammer2_write leaves one buffer more, and one writer less is through.
LEMMA WriteEndBuffers ==
    ASSUME BuffersInv, NEW w \in Writers, WriteEnd(w)
    PROVE  BuffersInv'
<1> DEFINE g == FileOf[w]
<1>0. /\ wr[w] = "writing" /\ wr' = [wr EXCEPT ![w] = "idle"] /\ writes' = writes
      /\ g \in Files /\ buffers' = [buffers EXCEPT ![g] = buffers[g] + 1]
  BY ThrottleAssumption DEF WriteEnd
<1>1. Through' = Through \ {w} /\ w \in Through
  BY <1>0 DEF Through, BuffersInv
<1>2. Busy(g)' = Busy(g) \ {w} /\ w \in Busy(g)
      /\ \A f \in Files \ {g} : Busy(f)' = Busy(f)
  BY <1>0 DEF Busy, BuffersInv
<1> HIDE DEF g
<1>3. Cardinality(Through') = Cardinality(Through) - 1
  BY <1>1, FiniteWriters, FS_RemoveElement
<1>4. Cardinality(Busy(g)') = Cardinality(Busy(g)) - 1 /\ Cardinality(Busy(g)) \in Nat \ {0}
  <2>1. IsFiniteSet(Busy(g)) /\ Cardinality(Busy(g)) \in Nat
    BY <1>0, FiniteWriters
  <2>2. Cardinality(Busy(g)) # 0
    BY <1>2, <2>1, FS_EmptySet
  <2>3. Cardinality(Busy(g) \ {w}) = Cardinality(Busy(g)) - 1
    BY <1>2, <2>1, FS_RemoveElement
  <2>4. QED
    BY <1>2, <2>1, <2>2, <2>3
<1>5. \A f \in Files : buffers[f] \in Nat /\ buffers[f] + Cardinality(Busy(f)) <= writes
      /\ Cardinality(Busy(f)) \in Nat
  BY FiniteWriters DEF BuffersInv, WritesInv
<1>6. writes \in Nat /\ writes <= MaxWrites /\ MaxWrites \in Nat
  BY ThrottleAssumption DEF BuffersInv
<1>7. buffers[g] + 1 \in 0..MaxWrites
  BY <1>0, <1>4, <1>5, <1>6
<1>8. buffers' \in [Files -> 0..MaxWrites] /\ buffers'[g] = buffers[g] + 1
      /\ \A f \in Files \ {g} : buffers'[f] = buffers[f]
  BY <1>0, <1>7 DEF BuffersInv
<1>9. WritesInv'
  <2>1. ASSUME NEW f \in Files PROVE buffers'[f] + Cardinality(Busy(f)') <= writes'
    <3>1. CASE f = g
      BY <1>0, <1>4, <1>5, <1>6, <1>8, <3>1
    <3>2. CASE f # g
      BY <1>0, <1>2, <1>5, <1>8, <3>2
    <3>3. QED
      BY <3>1, <3>2
  <2>2. QED
    BY <2>1 DEF WritesInv
<1>10. Count(buffers') = Count(buffers) + 1
  <2>1. buffers \in [Files -> 0..MaxWrites] /\ IsFiniteSet(Files)
    BY ThrottleAssumption DEF BuffersInv
  <2>2. Total(Files, MaxWrites, buffers') = Total(Files, MaxWrites, buffers) + 1
    <3>1. g \in Files /\ MaxWrites \in Nat
      BY <1>0, <1>6
    <3>2. \A S, k, f, h, x : IsFiniteSet(S) /\ k \in Nat /\ f \in [S -> 0..k] /\ h \in [S -> 0..k]
             /\ x \in S /\ h[x] = f[x] + 1 /\ (\A y \in S \ {x} : h[y] = f[y])
             => Total(S, k, h) = Total(S, k, f) + 1
      BY TotalUp
    <3>3. QED
      BY <1>8, <2>1, <3>1, <3>2
  <2>3. QED
    BY <2>2, CountIs
<1>11. UncleanInv'
  <2>1. Count(buffers) \in Nat /\ Cardinality(Through) \in Nat
    BY CountIs, FiniteWriters
  <2>2. Count(buffers') + Cardinality(Through') = Count(buffers) + Cardinality(Through)
    BY <1>3, <1>10, <2>1
  <2>3. QED
    BY <2>2 DEF BuffersInv, UncleanInv
<1>12. wr' \in [Writers -> {"idle", "check", "h2memw", "go", "writing"}]
  BY <1>0 DEF BuffersInv
<1>13. QED
  BY <1>0, <1>8, <1>9, <1>11, <1>12 DEF BuffersInv

\* No step disturbs the bound of the buffer cache.
LEMMA BuffersNext ==
    ASSUME BuffersInv, [ThrottleNext]_throttleVars
    PROVE  BuffersInv'
<1>1. CASE UNCHANGED <<wr, writes, buffers>>
  BY <1>1, Drains DEF BuffersInv
<1>2. ASSUME NEW a \in Syncs, FlushInode(a) PROVE BuffersInv'
  <2>1. /\ buffers' = [buffers EXCEPT ![sy[a].ip] = 0] /\ UNCHANGED <<wr, writes>>
        /\ buffers \in [Files -> 0..MaxWrites] /\ MaxWrites \in Nat
    BY <1>2, ThrottleAssumption DEF FlushInode, BuffersInv
  <2>2. buffers' \in [Files -> 0..MaxWrites]
    <3>1. PICK x : x = sy[a].ip
      OBVIOUS
    <3>2. buffers' = [buffers EXCEPT ![x] = 0] /\ 0 \in 0..MaxWrites
      BY <2>1, <3>1
    <3>3. QED
      BY <2>1, <3>2
  <2>3. ASSUME NEW f \in Files PROVE buffers'[f] <= buffers[f]
    <3>1. buffers[f] \in Nat /\ buffers'[f] \in {0, buffers[f]}
      BY <2>1
    <3>2. QED
      BY <3>1
  <2>4. QED
    BY <2>1, <2>2, <2>3, Drains
<1>3. ASSUME NEW f \in Files, Clean(f) PROVE BuffersInv'
  <2>1. /\ buffers' = [buffers EXCEPT ![f] = buffers[f] - 1] /\ UNCHANGED <<wr, writes>>
        /\ buffers[f] > 0 /\ buffers \in [Files -> 0..MaxWrites] /\ MaxWrites \in Nat
    BY <1>3, ThrottleAssumption DEF Clean, BuffersInv
  <2>2. buffers' \in [Files -> 0..MaxWrites] /\ \A q \in Files : buffers'[q] <= buffers[q]
    BY <2>1
  <2>3. QED
    BY <2>1, <2>2, Drains
<1>4. ASSUME NEW w \in Writers, MemoryWait(w) PROVE BuffersInv'
  BY <1>4, WriterMoves DEF MemoryWait
<1>5. ASSUME NEW w \in Writers, LookAgain(w) PROVE BuffersInv'
  <2>1. PICK x \in {"check"} \cup (IF GiveUps THEN {"go"} ELSE {}) : wr' = [wr EXCEPT ![w] = x]
    BY <1>5 DEF LookAgain
  <2>2. x \in {"check", "go"} /\ (x = "go" => GiveUps)
    BY <2>1
  <2>3. QED
    BY <1>5, <2>1, <2>2, WriterMoves DEF LookAgain
<1>6. ASSUME NEW w \in Writers, MayGo(w) PROVE BuffersInv'
  <2>1. Count(buffers) < HiDirty
    BY <1>6, CountIs, ThrottleAssumption DEF MayGo, MustPark, Pressure
  <2>2. QED
    BY <1>6, <2>1, WriterMoves DEF MayGo
<1>7. ASSUME NEW w \in Writers, WriteBegin(w) PROVE BuffersInv'
  BY <1>7, WriterMoves DEF WriteBegin
<1>8. CASE ThrottleNext
  BY <1>1, <1>2, <1>3, <1>4, <1>5, <1>6, <1>7, <1>8, VnWriteBuffers, WriteEndBuffers
  DEF ThrottleNext, Sync, Writer, TransInit, Queue, Pick, GetVnode, PassEnd, Delay, SyncDone,
      FlushThread, NextMount
<1>9. QED
  BY <1>1, <1>8 DEF throttleVars

-----------------------------------------------------------------------------
(* The theorems.                                                             *)

\* Who queues what for the next sync.
LEMMA SideqNext ==
    ASSUME TypeInv, [ThrottleNext]_throttleVars
    PROVE  sideq' \subseteq Inodes
<1>1. CASE sideq' \subseteq sideq
  BY <1>1 DEF TypeInv
<1>2. ASSUME NEW a \in Syncs, GetVnode(a) PROVE sideq' \subseteq Inodes
  <2>1. sy[a].ip \in Inodes /\ sideq \subseteq Inodes
    BY DEF TypeInv, SyncState
  <2>2. sideq' \subseteq sideq \cup {sy[a].ip}
    BY <1>2 DEF GetVnode
  <2>3. QED
    BY <2>1, <2>2
<1>3. ASSUME NEW w \in Writers, WriteEnd(w) PROVE sideq' \subseteq Inodes
  <2>1. FileOf[w] \in Inodes /\ sideq \subseteq Inodes
    BY ThrottleAssumption DEF Inodes, TypeInv
  <2>2. sideq' \subseteq sideq \cup {FileOf[w]}
    BY <1>3 DEF WriteEnd
  <2>3. QED
    BY <2>1, <2>2
<1>4. QED
  BY <1>1, <1>2, <1>3
  DEF ThrottleNext, Sync, Writer, TransInit, Queue, Pick, FlushInode, PassEnd, Delay, SyncDone,
      FlushThread, NextMount, Clean, VnWrite, MemoryWait, LookAgain, MayGo, WriteBegin, throttleVars

\* No step disturbs the exclusion of flushes.
LEMMA AloneNext ==
    ASSUME TypeInv, FlushersAlone, [ThrottleNext]_throttleVars
    PROVE  FlushersAlone' /\ sy' \in [Syncs -> SyncState] /\ trans' \in [Pfss -> TransState]
<1>1. ASSUME NEW a \in Syncs, Sync(a)
      PROVE  FlushersAlone' /\ sy' \in [Syncs -> SyncState] /\ trans' \in [Pfss -> TransState]
  <2>1. CASE TransInit(a)
    BY <2>1, TransInitAlone
  <2>2. CASE Queue(a)
    BY <2>2, QueueAlone
  <2>3. CASE SyncDone(a)
    BY <2>3, SyncDoneAlone
  <2>4. CASE \/ Pick(a) \/ GetVnode(a) \/ FlushInode(a) \/ PassEnd(a) \/ Delay(a)
             \/ a \in Pfss /\ FlushThread(a)
             \/ a = Syncer /\ NextMount
    <3>1. FlushersAlone' /\ sy' \in [Syncs -> SyncState] /\ trans' = trans
      BY <2>4, QuietSync
    <3>2. QED
      BY <3>1 DEF TypeInv
  <2>5. QED
    BY <1>1, <2>1, <2>2, <2>3, <2>4 DEF Sync
<1>2. ASSUME UNCHANGED <<sy, trans>>, \A q \in Pfss : Writing(q)' = Writing(q)
      PROVE  FlushersAlone' /\ sy' \in [Syncs -> SyncState] /\ trans' \in [Pfss -> TransState]
  <2>1. ASSUME NEW q \in Pfss PROVE Alone(q)'
    <3>1. In(q)' = In(q) /\ Sleepers(q)' = Sleepers(q) /\ Alone(q)
      BY <1>2, AloneIs DEF In, InFlush, Sleepers
    <3>2. QED
      BY <1>2, <3>1 DEF Alone
  <2>2. QED
    BY <1>2, <2>1, AloneIsNext DEF TypeInv
<1>3. ASSUME NEW f \in Files, Clean(f)
      PROVE  FlushersAlone' /\ sy' \in [Syncs -> SyncState] /\ trans' \in [Pfss -> TransState]
  BY <1>2, <1>3 DEF Clean, Writing
<1>4. ASSUME NEW w \in Writers,
             VnWrite(w) \/ MemoryWait(w) \/ LookAgain(w) \/ MayGo(w)
      PROVE  FlushersAlone' /\ sy' \in [Syncs -> SyncState] /\ trans' \in [Pfss -> TransState]
  <2>1. /\ UNCHANGED <<sy, trans>>
        /\ wr[w] # "writing"
        /\ \E x \in {"check", "h2memw", "go"} : wr' = [wr EXCEPT ![w] = x]
    BY <1>4 DEF VnWrite, MemoryWait, LookAgain, MayGo
  <2>2. \A q \in Pfss : Writing(q)' = Writing(q)
    BY <2>1 DEF Writing, TypeInv
  <2>3. QED
    BY <1>2, <2>1, <2>2
<1>5. CASE UNCHANGED throttleVars
  BY <1>2, <1>5 DEF Writing, throttleVars
<1>6. QED
  BY <1>1, <1>3, <1>4, <1>5, WriteBeginAlone, WriteEndAlone DEF ThrottleNext, Writer

\* Nobody syncs or writes yet.
LEMMA InvInit ==
    ASSUME ThrottleInit
    PROVE  ThrottleInv
<1> USE DEF ThrottleInit
<1>1. /\ sy \in [Syncs -> {SyncIdle(p) : p \in Pfss}]
      /\ \A p \in Pfss : SyncIdle(p) \in SyncState /\ SyncIdle(p).at = "idle"
  BY DEF SyncIdle, SyncState, Points, Inodes
<1>2. sy \in [Syncs -> SyncState] /\ \A a \in Syncs : sy[a].at = "idle"
  BY <1>1
<1>3. TypeInv
  <2>1. trans \in [Pfss -> TransState]
    BY DEF TransState
  <2>2. wr \in [Writers -> {"idle", "check", "h2memw", "go", "writing"}]
    OBVIOUS
  <2>3. QED
    BY <1>2, <2>1, <2>2 DEF TypeInv
<1>4. FlushersAlone
  <2>1. \A q \in Pfss : In(q) = {} /\ Writing(q) = {} /\ Sleepers(q) = {}
    BY <1>2 DEF In, InFlush, Writing, Sleepers
  <2>2. \A q \in Pfss : ~trans[q].isflush /\ trans[q].count = 0
    OBVIOUS
  <2>3. Cardinality({}) = 0
    BY FS_EmptySet
  <2>4. ASSUME NEW q \in Pfss PROVE Alone(q)
    <3>1. Cardinality(In(q)) = 0 /\ Cardinality(Writing(q)) = 0
      BY <2>1, <2>3
    <3>2. ~trans[q].isflush /\ trans[q].count = 0 /\ In(q) = {} /\ Sleepers(q) = {}
      BY <2>1, <2>2
    <3> HIDE DEF ThrottleInit
    <3>3. QED
      BY <3>1, <3>2 DEF Alone
  <2>5. QED
    BY <2>4, AloneIs
<1>5. BuffersInv
  <2>0. MaxWrites \in Nat /\ HiDirty \in Nat \ {0}
    BY ThrottleAssumption
  <2>1. buffers \in [Files -> 0..MaxWrites] /\ writes \in 0..MaxWrites
    BY <2>0
  <2>2. Through = {} /\ \A f \in Files : Busy(f) = {} /\ buffers[f] = 0
    BY DEF Through, Busy
  <2>3. WritesInv
    <3>1. \A f \in Files : buffers[f] = 0 /\ Cardinality(Busy(f)) = 0
      BY <2>2, FS_EmptySet
    <3>2. QED
      BY <2>0, <3>1 DEF WritesInv
  <2>4. Count(buffers) = 0
    BY <2>0, <2>1, <2>2, CountIs, TotalZero, ThrottleAssumption
  <2>5. UncleanInv
    BY <2>0, <2>2, <2>4, FS_EmptySet, FiniteWriters DEF UncleanInv
  <2>6. QED
    BY <1>3, <2>1, <2>3, <2>5 DEF BuffersInv, TypeInv
<1>6. QED
  BY <1>3, <1>4, <1>5 DEF ThrottleInv

\* The invariant holds, however syncs, writers and the cleaner interleave.
THEOREM Invariance == ThrottleSpec => []ThrottleInv
<1>1. ThrottleInit => ThrottleInv
  BY InvInit
<1>2. ThrottleInv /\ [ThrottleNext]_throttleVars => ThrottleInv'
  <2> SUFFICES ASSUME ThrottleInv, [ThrottleNext]_throttleVars PROVE ThrottleInv'
    OBVIOUS
  <2>1. TypeInv /\ FlushersAlone /\ BuffersInv
    BY DEF ThrottleInv
  <2>2. BuffersInv' /\ sideq' \subseteq Inodes
    BY <2>1, BuffersNext, SideqNext
  <2>3. FlushersAlone' /\ sy' \in [Syncs -> SyncState] /\ trans' \in [Pfss -> TransState]
    BY <2>1, AloneNext
  <2>4. QED
    BY <2>2, <2>3 DEF ThrottleInv, TypeInv, BuffersInv
<1>3. QED
  BY <1>1, <1>2, PTL DEF ThrottleSpec

\* One sync of a mount at a time is in its flush, the count of transactions is
\* exact, and whoever sleeps for it is promised a wakeup (hammer2_trans_init,
\* hammer2_trans_done); unless it gives up, the stall keeps the buffer cache
\* within one write of each writer above the mark (hammer2_pfs_memory_wait).
THEOREM ThrottleIsSound == ThrottleSpec => []ThrottleSound
<1>1. ThrottleInv => ThrottleSound
  <2> SUFFICES ASSUME ThrottleInv PROVE ThrottleSound
    OBVIOUS
  <2>1. Count(buffers) \in Nat /\ Cardinality(Through) \in Nat /\ Cardinality(Writers) \in Nat
        /\ HiDirty \in Nat
    BY CountIs, FiniteWriters, ThrottleAssumption
  <2>2. UncleanBounded
    BY <2>1 DEF ThrottleInv, BuffersInv, UncleanInv, UncleanBounded
  <2>3. QED
    BY <2>2 DEF ThrottleInv, ThrottleSound
<1>2. QED
  BY <1>1, Invariance, PTL
=============================================================================
