-------------------------------- MODULE Dio --------------------------------
(***************************************************************************)
(* The device-buffer cache of sys/hammer2/hammer2_io.c.                    *)
(*                                                                         *)
(* A dio stands for one 64 KB device buffer (HAMMER2_PBUFSIZE).  Threads   *)
(* look dios up in the per-device hash, hold references to them while they *)
(* work on the buffer, and drop the references; the last drop hands the    *)
(* system buffer back (written, delayed or clean) and leaves the dio in    *)
(* the hash with no references, until a cleanup pass frees it.             *)
(*                                                                         *)
(* Two sleeping locks serialise the work: hmp->iohash_lock over the hash   *)
(* and dio->lock over one dio, taken in that order.  All kernel threads    *)
(* run under the kernel lock, so a step extends to the next point where a  *)
(* thread may sleep: a lock acquisition, a read, or a write of a buffer.   *)
(*                                                                         *)
(* What a buffer contains is abstracted to one bit per copy: does this     *)
(* copy hold the newest contents the file system has written there?        *)
(***************************************************************************)
EXTENDS Integers, FiniteSets

CONSTANTS
    Threads,     \* kernel threads using the cache
    Bufs,        \* physical buffer offsets (pbase)
    Dios,        \* the memory the allocator returns for dio structures
    NoThread,    \* no lock owner
    NoDio,       \* a NULL dio pointer
    NoBuf,       \* no buffer asked for
    ActInit,     \* dio->act of a new dio (5)
    ActMax,      \* the ceiling dio->act is bumped to (10)
    DioLimit,    \* hammer2_dio_limit after its clamping (256 or more)
    CleanSlack   \* how far below the limit a cleanup aims (32)

ASSUME DioAssumption ==
    /\ NoThread \notin Threads /\ NoDio \notin Dios /\ NoBuf \notin Bufs
    /\ IsFiniteSet(Threads) /\ IsFiniteSet(Dios)
    /\ ActInit \in Nat /\ ActMax \in Nat /\ ActInit < ActMax
    /\ DioLimit \in Nat /\ CleanSlack \in Nat

\* Why a thread takes a dio: the HAMMER2_DOP_* codes, NEWFULL being a NEW or
\* NEWNZ of the whole buffer, plus the two dedup calls that want no buffer.
Ops == {"READ", "READQ", "NEW", "NEWFULL", "DEDUP_SET", "DEDUP_DELETE"}
Quick == {"READQ", "DEDUP_DELETE"}           \* never create a dio
NoBuffer == {"DEDUP_SET", "DEDUP_DELETE"}    \* never read a buffer in

VARIABLES
    hashed,    \* the dios linked into hmp->iohash
    dio,       \* the contents of each dio structure
    iohash,    \* owner of hmp->iohash_lock
    iofree,    \* hmp->iofree_count
    buf,       \* the system's buffer for each pbase (vfs_bio)
    disk,      \* does the device hold the newest contents
    pc,        \* where each thread is
    my         \* the dio, and the buffer and operation, each thread is after

bioVars == <<buf, disk>>
vars == <<hashed, dio, iohash, iofree, bioVars, pc, my>>

\* refs is split into the count (DIO_MASK) and the flag bits; bp tells whether
\* dio->bp is set; lock is the owner of dio->lock.
DioState == [pbase : Bufs \cup {NoBuf}, refs : Nat,
             flags : SUBSET {"GOOD", "DIRTY", "FLUSH"}, bp : BOOLEAN,
             act : 0..ActMax, lock : Threads \cup {NoThread}]

\* Memory that is not a dio: never allocated, or freed.
NotADio == [pbase |-> NoBuf, refs |-> 0, flags |-> {}, bp |-> FALSE,
            act |-> 0, lock |-> NoThread]

\* A system buffer: idle in the cache (or not there), held by a dio, or being
\* written.  delwri is B_DELWRI; it stays set while a dio holds the buffer.
BufState == [st : {"none", "idle", "busy", "writing"},
             cur : BOOLEAN, delwri : BOOLEAN]

PCs == {"idle", "hash", "lookup", "create", "getblk", "held", "wrote",
        "put", "dispose", "clean"}

Nothing == [dio |-> NoDio, b |-> NoBuf, op |-> "READ"]

\* A thread owns a reference from the lookup that took it to the put.
HasRef == {"getblk", "held", "wrote", "put"}
Holders(d) == {t \in Threads : my[t].dio = d /\ pc[t] \in HasRef}

\* Fields of the structures in range: refs never goes below zero, act never past
\* its ceiling.
TypeOK ==
    /\ hashed \in SUBSET Dios
    /\ dio \in [Dios -> DioState]
    /\ iohash \in Threads \cup {NoThread}
    /\ iofree \in Int
    /\ buf \in [Bufs -> BufState]
    /\ disk \in [Bufs -> BOOLEAN]
    /\ pc \in [Threads -> PCs]
    /\ my \in [Threads -> [dio : Dios \cup {NoDio}, b : Bufs \cup {NoBuf},
                           op : Ops]]

Init ==
    /\ hashed = {}
    /\ dio = [d \in Dios |-> NotADio]
    /\ iohash = NoThread
    /\ iofree = 0
    /\ buf = [b \in Bufs |-> [st |-> "none", cur |-> FALSE, delwri |-> FALSE]]
    /\ disk = [b \in Bufs |-> TRUE]
    /\ pc = [t \in Threads |-> "idle"]
    /\ my = [t \in Threads |-> Nothing]

-----------------------------------------------------------------------------
(* hammer2_io_getblk: the entry, and hammer2_io_alloc under the hash lock.   *)

Goto(t, where) == pc' = [pc EXCEPT ![t] = where]

\* The thread leaves hammer2_io.c with no dio.
Leave(t) == Goto(t, "idle") /\ my' = [my EXCEPT ![t] = Nothing]

\* A thread calls io_bread, io_new, io_newnz, io_getquick or a dedup routine.
GetBlk(t, b, op) ==
    /\ pc[t] = "idle"
    /\ my' = [my EXCEPT ![t] = [dio |-> NoDio, b |-> b, op |-> op]]
    /\ Goto(t, "hash")
    /\ UNCHANGED <<hashed, dio, iohash, iofree, bioVars>>

\* Operators named Bug... are wrong variants of the definition after them, as a
\* slip in the code would make it; no specification uses them.
BugLockHash(t) ==
    /\ pc[t] = "hash"
    /\ iohash' = t
    /\ Goto(t, "lookup")
    /\ UNCHANGED <<hashed, dio, iofree, bioVars, my>>

LockHash(t) ==
    /\ pc[t] = "hash"
    /\ iohash = NoThread
    /\ iohash' = t
    /\ Goto(t, "lookup")
    /\ UNCHANGED <<hashed, dio, iofree, bioVars, my>>

BugBump(a) == a + 1

Bump(a) == IF a < ActMax THEN a + 1 ELSE a

BugTaken(r, t) == [r EXCEPT !.lock = t, !.act = Bump(r.act)]

Taken(r, t) ==
    [r EXCEPT !.lock = t, !.refs = r.refs + 1, !.act = Bump(r.act)]

\* hammer2_io_hash_lookup finds the dio; it waits for dio->lock while it holds
\* the hash lock, then takes a reference.
LookupHit(t, d) ==
    /\ pc[t] = "lookup"
    /\ d \in hashed /\ dio[d].pbase = my[t].b
    /\ dio[d].lock = NoThread
    /\ dio' = [dio EXCEPT ![d] = Taken(@, t)]
    /\ iofree' = IF dio[d].refs = 0 THEN iofree - 1 ELSE iofree
    /\ iohash' = NoThread
    /\ my' = [my EXCEPT ![t].dio = d]
    /\ Goto(t, "getblk")
    /\ UNCHANGED <<hashed, bioVars>>

Miss(t) == pc[t] = "lookup" /\ \A d \in hashed : dio[d].pbase # my[t].b

\* createit: the new dio is allocated, which may sleep, under the hash lock.
LookupMiss(t) ==
    /\ Miss(t) /\ my[t].op \notin Quick
    /\ Goto(t, "create")
    /\ UNCHANGED <<hashed, dio, iohash, iofree, bioVars, my>>

\* The zeroed dio is entered into the hash, referenced and locked.  The memory
\* is some that no thread still points to.
LookupCreate(t, d) ==
    /\ pc[t] = "create"
    /\ d \in Dios \ hashed /\ \A u \in Threads : my[u].dio # d
    /\ hashed' = hashed \cup {d}
    /\ dio' = [dio EXCEPT ![d] =
                 [pbase |-> my[t].b, refs |-> 1, flags |-> {}, bp |-> FALSE,
                  act |-> Bump(ActInit), lock |-> t]]
    /\ iohash' = NoThread
    /\ my' = [my EXCEPT ![t].dio = d]
    /\ Goto(t, "getblk")
    /\ UNCHANGED <<iofree, bioVars>>

BugLookupNone(t) ==
    /\ Miss(t) /\ my[t].op \in Quick
    /\ Leave(t)
    /\ UNCHANGED <<hashed, dio, iohash, iofree, bioVars>>

LookupNone(t) ==
    /\ Miss(t) /\ my[t].op \in Quick
    /\ iohash' = NoThread
    /\ Leave(t)
    /\ UNCHANGED <<hashed, dio, iofree, bioVars>>

-----------------------------------------------------------------------------
(* hammer2_io_getblk with the dio locked, up to its return.                  *)

Marked(r, fl) == [r EXCEPT !.flags = r.flags \cup fl]

Unlocked(r, hasbp) == [r EXCEPT !.bp = hasbp, !.lock = NoThread]

\* Return from getblk: DIO_* flags are set, the dio is unlocked.
Return(t, where, set, hasbp) ==
    /\ dio' = [dio EXCEPT ![my[t].dio] = Unlocked(Marked(@, set), hasbp)]
    /\ my' = [my EXCEPT ![t].op = "READ"]
    /\ Goto(t, where)
    /\ UNCHANGED <<hashed, iohash, iofree>>

\* DIO_GOOD: the buffer is there; NEW and NEWNZ mark it dirty.
GetGood(t) ==
    LET d == my[t].dio  b == my[t].b IN
    /\ pc[t] = "getblk" /\ my[t].op \notin NoBuffer
    /\ "GOOD" \in dio[d].flags
    /\ \/ /\ my[t].op \in {"NEW", "NEWFULL"}
          /\ buf' = [buf EXCEPT ![b].cur = TRUE]
          /\ disk' = [disk EXCEPT ![b] = FALSE]
          /\ Return(t, "held", {"DIRTY"}, dio[d].bp)
       \/ /\ my[t].op \in {"READ", "READQ"}
          /\ Return(t, "held", {}, dio[d].bp)
          /\ UNCHANGED bioVars

\* getblk(9) without a read: the caller replaces the whole buffer.
GetNew(t) ==
    LET d == my[t].dio  b == my[t].b IN
    /\ pc[t] = "getblk" /\ my[t].op = "NEWFULL"
    /\ "GOOD" \notin dio[d].flags
    /\ buf[b].st \in {"none", "idle"}
    /\ buf' = [buf EXCEPT ![b] = [@ EXCEPT !.st = "busy", !.cur = TRUE]]
    /\ disk' = [disk EXCEPT ![b] = FALSE]
    /\ Return(t, "held", {"DIRTY", "GOOD"}, TRUE)

\* bread(9) succeeds: from the cache if the buffer is there, else from disk.
GetRead(t) ==
    LET d == my[t].dio  b == my[t].b  isNew == my[t].op = "NEW" IN
    /\ pc[t] = "getblk" /\ my[t].op \in {"READ", "READQ", "NEW"}
    /\ "GOOD" \notin dio[d].flags
    /\ buf[b].st \in {"none", "idle"}
    /\ buf' = [buf EXCEPT ![b] =
                 [@ EXCEPT !.st = "busy",
                           !.cur = \/ isNew \/ buf[b].cur
                                   \/ buf[b].st = "none" /\ disk[b]]]
    /\ disk' = [disk EXCEPT ![b] = @ /\ ~isNew]
    /\ Return(t, "held", IF isNew THEN {"GOOD", "DIRTY"} ELSE {"GOOD"}, TRUE)

\* bread(9) fails: no buffer, DIO_GOOD stays clear, the caller sees the error
\* and gives the dio back.
GetError(t) ==
    /\ pc[t] = "getblk" /\ my[t].op \in {"READ", "READQ", "NEW"}
    /\ "GOOD" \notin dio[my[t].dio].flags
    /\ buf[my[t].b].st = "none"
    /\ Return(t, "put", {}, FALSE)
    /\ UNCHANGED bioVars

\* hammer2_io_dedup_set, _delete and _assert work on the dio itself only.
GetDedup(t) ==
    /\ pc[t] = "getblk" /\ my[t].op \in NoBuffer
    /\ Return(t, "put", {}, dio[my[t].dio].bp)
    /\ UNCHANGED bioVars

-----------------------------------------------------------------------------
(* What a holder of the buffer does.                                         *)

\* Store into the buffer.  hammer2_chain_modify copies first and calls
\* hammer2_io_setdirty afterwards, with a release of another dio in between.
Store(t) ==
    /\ pc[t] = "held"
    /\ buf' = [buf EXCEPT ![my[t].b].cur = TRUE]
    /\ disk' = [disk EXCEPT ![my[t].b] = FALSE]
    /\ Goto(t, "wrote")
    /\ UNCHANGED <<hashed, dio, iohash, iofree, my>>

BugSetDirty(t) ==
    /\ pc[t] = "wrote"
    /\ Goto(t, "held")
    /\ UNCHANGED <<hashed, dio, iohash, iofree, bioVars, my>>

\* hammer2_io_setdirty
SetDirty(t) ==
    /\ pc[t] = "wrote"
    /\ dio' = [dio EXCEPT ![my[t].dio] = Marked(@, {"DIRTY"})]
    /\ Goto(t, "held")
    /\ UNCHANGED <<hashed, iohash, iofree, bioVars, my>>

\* io_bqrelse, io_brelse, io_bdwrite, io_bawrite and io_bwrite up to the wait
\* for dio->lock; a thread with unmarked stores calls one of the last three.
Release(t, mark) ==
    /\ \/ pc[t] = "held" /\ mark = {}
       \/ pc[t] = "wrote" /\ mark \in {{"DIRTY"}, {"DIRTY", "FLUSH"}}
    /\ dio' = [dio EXCEPT ![my[t].dio] = Marked(@, mark)]
    /\ Goto(t, "put")
    /\ UNCHANGED <<hashed, iohash, iofree, bioVars, my>>

-----------------------------------------------------------------------------
(* hammer2_io_putblk                                                         *)

PutShared(t) ==
    LET d == my[t].dio  r == dio[d] IN
    /\ pc[t] = "put" /\ dio[d].lock = NoThread
    /\ dio[d].refs > 1
    /\ dio' = [dio EXCEPT ![d] = [r EXCEPT !.refs = r.refs - 1]]
    /\ Leave(t)
    /\ UNCHANGED <<hashed, iohash, iofree, bioVars>>

BugDisposed(w, fl) ==
    IF {"DIRTY", "FLUSH"} \subseteq fl
    THEN [w EXCEPT !.st = "writing", !.delwri = FALSE]
    ELSE [w EXCEPT !.st = "idle"]

\* How the buffer leaves the dio: bawrite, bdwrite or bqrelse.
Disposed(w, fl) ==
    IF "DIRTY" \in fl
    THEN IF "FLUSH" \in fl THEN [w EXCEPT !.st = "writing", !.delwri = FALSE]
                           ELSE [w EXCEPT !.st = "idle", !.delwri = TRUE]
    ELSE [w EXCEPT !.st = "idle"]

BugDropped(r, owner) ==
    [r EXCEPT !.refs = 0, !.bp = FALSE, !.lock = owner,
              !.flags = r.flags \ {"DIRTY"}]

Dropped(r, owner) ==
    [r EXCEPT !.refs = 0, !.bp = FALSE, !.lock = owner,
              !.flags = r.flags \ {"GOOD", "DIRTY"}]

\* The 1->0 transition: GOOD and DIRTY are cleared (FLUSH is not) and the
\* buffer is handed back.
LastDrop(t, owner) ==
    LET d == my[t].dio  b == dio[d].pbase IN
    /\ pc[t] = "put" /\ dio[d].lock = NoThread
    /\ dio[d].refs = 1
    /\ dio' = [dio EXCEPT ![d] = Dropped(@, owner)]
    /\ buf' = IF dio[d].bp
              THEN [buf EXCEPT ![b] = Disposed(@, dio[d].flags)]
              ELSE buf
    /\ UNCHANGED <<hashed, iohash, disk>>

WriteOut(t) == {"GOOD", "DIRTY", "FLUSH"} \subseteq dio[my[t].dio].flags

\* bawrite sleeps when the device's queue is congested: dio->lock stays held
\* and iofree_count is not updated yet.
PutLastWrite(t) ==
    /\ LastDrop(t, t)
    /\ WriteOut(t)
    /\ Goto(t, "dispose")
    /\ UNCHANGED <<iofree, my>>

\* bdwrite, bqrelse and brelse do not sleep.
PutLast(t) ==
    /\ LastDrop(t, NoThread)
    /\ ~WriteOut(t)
    /\ iofree' = iofree + 1
    /\ my' = [my EXCEPT ![t] = Nothing]
    /\ Goto(t, "clean")

\* The write call returned.
PutDone(t) ==
    /\ pc[t] = "dispose"
    /\ iofree' = iofree + 1
    /\ dio' = [dio EXCEPT ![my[t].dio].lock = NoThread]
    /\ my' = [my EXCEPT ![t] = Nothing]
    /\ Goto(t, "clean")
    /\ UNCHANGED <<hashed, iohash, bioVars>>

BugUnused == {d \in hashed : dio[d].flags = {}}

Unused == {d \in hashed : dio[d].refs = 0}

BugFree(freed) == hashed' = hashed \ freed /\ UNCHANGED iofree

Free(freed) ==
    /\ hashed' = hashed \ freed
    /\ iofree' = iofree - Cardinality(freed)

\* hammer2_io_hash_cleanup: buckets are scanned until enough dios are freed or
\* all were seen.  A scan lowers act by one and by the seconds since last use,
\* which leaves act at age[d].
Cleanup(scanned, age) ==
    LET freed == {d \in scanned : age[d] = 0} IN
    /\ \A d \in scanned : age[d] < dio[d].act \/ age[d] = 0
    /\ scanned = Unused \/
          Cardinality(freed) >= iofree - DioLimit + CleanSlack
    /\ dio' = [d \in Dios |-> IF d \in freed THEN NotADio
                              ELSE IF d \in scanned
                              THEN [dio[d] EXCEPT !.act = age[d]]
                              ELSE dio[d]]
    /\ Free(freed)

\* The tail of hammer2_io_putblk: keep the number of unused dios in check.
PutClean(t) ==
    /\ pc[t] = "clean"
    /\ iohash = NoThread
    /\ \/ /\ iofree > DioLimit
          /\ \E scanned \in SUBSET Unused :
               \E age \in [scanned -> 0..ActMax] : Cleanup(scanned, age)
       \/ /\ iofree <= DioLimit
          /\ UNCHANGED <<dio, hashed, iofree>>
    /\ Leave(t)
    /\ UNCHANGED <<iohash, bioVars>>

\* hammer2_io_hash_cleanup_all, on the last unmount: nobody uses the device.
CleanupAll ==
    /\ \A t \in Threads : pc[t] = "idle"
    /\ hashed # {}
    /\ dio' = [d \in Dios |-> NotADio]
    /\ Free(hashed)
    /\ UNCHANGED <<iohash, bioVars, pc, my>>

-----------------------------------------------------------------------------
(* The system buffer cache (vfs_bio), as far as hammer2_io.c relies on it.   *)

\* An asynchronous write completes.
WriteDone(b) ==
    /\ buf[b].st = "writing"
    /\ buf' = [buf EXCEPT ![b].st = "idle"]
    /\ disk' = [disk EXCEPT ![b] = buf[b].cur]
    /\ UNCHANGED <<hashed, dio, iohash, iofree, pc, my>>

\* The syncer starts the write of a delayed buffer.
StartDelayed(b) ==
    /\ buf[b].st = "idle" /\ buf[b].delwri
    /\ buf' = [buf EXCEPT ![b] = [@ EXCEPT !.st = "writing", !.delwri = FALSE]]
    /\ UNCHANGED <<hashed, dio, iohash, iofree, disk, pc, my>>

\* A clean buffer is reclaimed.
Evict(b) ==
    /\ buf[b].st = "idle" /\ ~buf[b].delwri
    /\ buf' = [buf EXCEPT ![b] = [@ EXCEPT !.st = "none", !.cur = FALSE]]
    /\ UNCHANGED <<hashed, dio, iohash, iofree, disk, pc, my>>

-----------------------------------------------------------------------------
Inside(t) ==
    \/ LockHash(t) \/ LookupMiss(t) \/ LookupNone(t)
    \/ \E d \in Dios : LookupHit(t, d) \/ LookupCreate(t, d)
    \/ GetGood(t) \/ GetNew(t) \/ GetRead(t) \/ GetError(t) \/ GetDedup(t)
    \/ PutShared(t) \/ PutLastWrite(t) \/ PutLast(t) \/ PutDone(t) \/ PutClean(t)

Outside(t) ==
    \/ \E b \in Bufs, op \in Ops : GetBlk(t, b, op)
    \/ Store(t) \/ SetDirty(t)
    \/ \E mark \in {{}, {"DIRTY"}, {"DIRTY", "FLUSH"}} : Release(t, mark)

Bio(b) == WriteDone(b) \/ StartDelayed(b) \/ Evict(b)

Next ==
    \/ \E t \in Threads : Inside(t) \/ Outside(t)
    \/ \E b \in Bufs : Bio(b)
    \/ CleanupAll

\* A thread inside hammer2_io.c runs on whenever it can, and the device
\* completes writes; nothing is promised about the callers.
Fairness ==
    /\ \A t \in Threads : WF_vars(Inside(t))
    /\ \A b \in Bufs : WF_vars(WriteDone(b))

Spec == Init /\ [][Next]_vars /\ Fairness

-----------------------------------------------------------------------------
(* Properties                                                                *)

\* dio->refs counts exactly the threads that took the dio and have not put it
\* back, so no put ever finds a count of zero ("lost race" in io_putblk).
RefsAreHolders == \A d \in hashed : dio[d].refs = Cardinality(Holders(d))

\* No two dios of the hash stand for the same buffer: hammer2_io_hash_enter
\* never finds the entry it was told is missing.
OneDioPerBuffer ==
    \A d, e \in hashed : dio[d].pbase = dio[e].pbase => d = e

\* iofree_count is the number of cached dios nobody references, short of the
\* ones whose last drop is still under way.
Disposing == {t \in Threads : pc[t] = "dispose"}
IofreeCounts == iofree = Cardinality(Unused) - Cardinality(Disposing)

\* GOOD says that the dio owns its buffer, and only a dio with GOOD does.
GoodHasBuffer ==
    \A d \in hashed :
        /\ ("GOOD" \in dio[d].flags) <=> dio[d].bp
        /\ dio[d].bp => buf[dio[d].pbase].st = "busy"

\* A buffer the dio layer let go of is on disk, or will be written: stores
\* made through any reference survive the last drop, whoever performs it.
StoresSurvive ==
    \A b \in Bufs :
        \/ disk[b]
        \/ /\ buf[b].cur
           /\ buf[b].st \in {"busy", "writing"} \/ buf[b].delwri

\* A holder reads the newest contents, however the buffer came back.
HoldersReadNewest ==
    \A t \in Threads : pc[t] = "held" => buf[my[t].b].cur

\* Together: a dio and its buffer belong to each other, and what was stored is
\* what is read and what reaches the disk (hammer2_io_getblk, io_putblk).
BuffersHold == GoodHasBuffer /\ StoresSurvive /\ HoldersReadNewest

\* "Update iofree_count before disposing of the dio." (hammer2_io.c:444): a dio
\* is not freed before its last drop has added it to the count.  The flags for
\* this, INPROG ("bio in progress") and WAITING ("wait on INPROG"), are still in
\* hammer2.h:317-319.
CountedBeforeFreed ==
    \A t \in Threads : pc[t] = "dispose" => my[t].dio \in hashed

\* A dio that a thread references stays in the hash: no cleanup frees it, though
\* one runs with only the hash lock held while others get and put.
HoldersHashed == \A t \in Threads : pc[t] \in HasRef => my[t].dio \in hashed

\* What makes the hash inductive: whoever is between the lookup and the entry
\* owns the hash lock, and what it did not find stays missing.
HashOwner == \A t \in Threads : pc[t] \in {"lookup", "create"} => iohash = t
MissStands ==
    \A t \in Threads : pc[t] = "create" =>
        \A d \in hashed : dio[d].pbase # my[t].b

\* The lookup waits for dio->lock with the hash lock held.  However the other
\* threads interleave, the hash lock is given back every time.
HashLockReleased == (iohash # NoThread) ~> (iohash = NoThread)
=============================================================================
