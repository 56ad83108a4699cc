------------------------------- MODULE ChainLock -------------------------------
(***************************************************************************)
(* The locks of one hammer2_chain and the life of its data                 *)
(* (hammer2_chain.c: hammer2_chain_lock, _load_data, _unlock, _unhold,     *)
(* _drop, _lastdrop, over the lock shims of hammer2_os.h).                 *)
(*                                                                         *)
(* The chain's mutex is OpenBSD's rrwlock.  lockcnt counts the locks held, *)
(* waited for and the holds; whoever takes it from 1 to 0 releases the     *)
(* device buffer.  Threads run under the kernel lock, so that a step goes  *)
(* on to the next point where the code may sleep: the polls of the shims,  *)
(* the read of the block, the wait for another thread's read, the release  *)
(* of the buffer and the spin locks (sleeping rwlocks here) of lastdrop.   *)
(***************************************************************************)
EXTENDS Integers, FiniteSets

CONSTANTS Threads, None, MaxLocks

ASSUME LockAssumption == IsFiniteSet(Threads) /\ None \notin Threads /\ MaxLocks \in Nat

VARIABLES
    tree,      \* the chain is in its parent's rbtree (HAMMER2_CHAIN_ONRBTREE)
    refs, lockcnt,
    wr,        \* the thread that owns the mutex exclusively
    mine,      \* the locks each thread has on the chain, shared unless wr
    data,      \* chain->dio and chain->data are set
    bufs,      \* references the chain has taken on the device buffer
    inprog,    \* HAMMER2_CHAIN_IOINPROG
    signal,    \* HAMMER2_CHAIN_IOSIGNAL
    pc, how,   \* of each thread: where it sleeps, and the lock it asks for
    has,       \* the references of each thread
    hold,      \* the holds of each thread (hammer2_chain_ref_hold)
    given,     \* the thread has been given data it may still use
    locks      \* calls made so far

lockVars == <<tree, refs, lockcnt, wr, mine, data, bufs, inprog, signal,
              pc, how, has, hold, given, locks>>

\* The flags of hammer2_chain_lock: shared, RESOLVE_ALWAYS, NONBLOCK, LOCKAGAIN.
How == [sh : BOOLEAN, always : BOOLEAN, nonblock : BOOLEAN, again : BOOLEAN]
NoHow == [sh |-> FALSE, always |-> FALSE, nonblock |-> FALSE, again |-> FALSE]

LockInit ==
    /\ tree = FALSE /\ refs = 0 /\ lockcnt = 0 /\ wr = None
    /\ mine = [t \in Threads |-> 0]
    /\ data = FALSE /\ bufs = 0 /\ inprog = FALSE /\ signal = FALSE
    /\ pc = [t \in Threads |-> "run"] /\ how = [t \in Threads |-> NoHow]
    /\ has = [t \in Threads |-> 0] /\ hold = [t \in Threads |-> 0]
    /\ given = [t \in Threads |-> FALSE] /\ locks = 0

-----------------------------------------------------------------------------
(* rrwlock: a reader is kept out by a writer and by one that waits inside    *)
(* rrw_enter; a writer by everybody else, and by its own shared lock.        *)

CanRead == wr = None /\ \A u \in Threads : pc[u] # "exblock"
CanWrite(t) == wr = t \/ (wr = None /\ \A u \in Threads : mine[u] = 0)

Grants(t, h) == IF h.sh /\ wr # t THEN CanRead ELSE CanWrite(t)
Granted(t) ==
    /\ mine' = [mine EXCEPT ![t] = @ + 1]
    /\ wr' = IF how'[t].sh THEN wr ELSE t

\* After the lock: data that is there, or not asked for, ends the call.
Locked(t) ==
    /\ Granted(t)
    /\ IF data \/ ~how'[t].always
       THEN /\ pc' = [pc EXCEPT ![t] = "run"]
            /\ given' = [given EXCEPT ![t] = @ \/ (data /\ how'[t].always)]
       ELSE pc' = [pc EXCEPT ![t] = "load"] /\ UNCHANGED given

\* The caller may have no lock, an exclusive one, or ask for its shared lock
\* once more.
Legal(t, h) ==
    /\ has[t] > 0 /\ hold[t] = 0
    /\ h.again => h.sh /\ mine[t] = 1 /\ wr # t
    /\ ~h.again => mine[t] = 0 \/ (wr = t /\ mine[t] = 1)

\* hammer2_chain_lock; a failing NONBLOCK goes through hammer2_chain_unhold.
hammer2_chain_lock(t) ==
    /\ pc[t] = "run" /\ locks < MaxLocks
    /\ \E h \in How :
        /\ Legal(t, h)
        /\ how' = [how EXCEPT ![t] = h]
        /\ lockcnt' = lockcnt + 1
        /\ \/ Grants(t, h) /\ Locked(t)
           \/ /\ ~Grants(t, h) /\ (h.again \/ ~h.nonblock)
              /\ pc' = [pc EXCEPT ![t] = IF h.sh THEN "shwait" ELSE "exwait"]
              /\ UNCHANGED <<mine, wr, given>>
           \/ /\ ~Grants(t, h) /\ h.nonblock /\ ~h.again
              /\ pc' = [pc EXCEPT ![t] = "unhold"]
              /\ UNCHANGED <<mine, wr, given>>
    /\ locks' = locks + 1
    /\ UNCHANGED <<tree, refs, data, bufs, inprog, signal, has, hold>>

\* _hammer2_mtx_ex and _hammer2_mtx_sh poll for the lock, and after some
\* seconds sleep inside rrw_enter.
Poll(t) ==
    /\ pc[t] \in {"exwait", "shwait", "exblock", "shblock"}
    /\ Grants(t, how[t]) \/ (pc[t] = "exblock" /\ CanWrite(t))
    /\ UNCHANGED how
    /\ Locked(t)
    /\ UNCHANGED <<tree, refs, lockcnt, data, bufs, inprog, signal, has, hold, locks>>

Stall(t) ==
    /\ pc[t] \in {"exwait", "shwait"} /\ ~Grants(t, how[t])
    /\ pc' = [pc EXCEPT ![t] = IF @ = "exwait" THEN "exblock" ELSE "shblock"]
    /\ UNCHANGED <<tree, refs, lockcnt, wr, mine, data, bufs, inprog, signal, how,
                   has, hold, given, locks>>

-----------------------------------------------------------------------------
(* hammer2_chain_load_data                                                   *)

BugNeedsRead == TRUE
NeedsRead == ~data

\* IOINPROG is taken, or waited for.
LoadStart(t) ==
    /\ pc[t] = "load"
    /\ \/ /\ inprog
          /\ signal' = TRUE /\ pc' = [pc EXCEPT ![t] = "iowait"]
          /\ UNCHANGED <<inprog, given>>
       \/ /\ ~inprog /\ NeedsRead
          /\ inprog' = TRUE /\ pc' = [pc EXCEPT ![t] = "io"]
          /\ UNCHANGED <<signal, given>>
       \/ /\ ~inprog /\ ~NeedsRead
          /\ pc' = [pc EXCEPT ![t] = "run"] /\ given' = [given EXCEPT ![t] = TRUE]
          /\ UNCHANGED <<inprog, signal>>
    /\ UNCHANGED <<tree, refs, lockcnt, wr, mine, data, bufs, how, has, hold, locks>>

\* The read has ended; waiters try again.
LoadEnd(t) ==
    /\ pc[t] = "io"
    /\ \/ data' = TRUE /\ bufs' = bufs + 1 /\ given' = [given EXCEPT ![t] = TRUE]
       \/ UNCHANGED <<data, bufs, given>>      \* HAMMER2_ERROR_EIO
    /\ inprog' = FALSE /\ signal' = FALSE
    /\ pc' = [u \in Threads |->
                IF u = t THEN "run"
                ELSE IF signal /\ pc[u] = "iowait" THEN "load" ELSE pc[u]]
    /\ UNCHANGED <<tree, refs, lockcnt, wr, mine, how, has, hold, locks>>

-----------------------------------------------------------------------------
(* Unlocks, holds and drops                                                  *)

\* hammer2_chain_drop_data by the thread that has the mutex exclusively and
\* takes lockcnt to 0: the buffer is released under the mutex.
LastUnlock(t) ==
    /\ lockcnt' = 0 /\ data' = FALSE
    /\ wr' = t /\ mine' = [mine EXCEPT ![t] = 0]
    /\ pc' = [pc EXCEPT ![t] = IF data THEN "relse" ELSE "mtxunlock"]

BugLast(t) == mine[t] = 1
Last(t) == lockcnt = 1

\* hammer2_mtx_upgrade_try lets go of the shared lock and tries.
hammer2_chain_unlock(t) ==
    /\ pc[t] = "run" /\ mine[t] > 0
    /\ \/ /\ ~Last(t)
          /\ lockcnt' = lockcnt - 1
          /\ mine' = [mine EXCEPT ![t] = @ - 1]
          /\ wr' = IF wr = t /\ mine[t] = 1 THEN None ELSE wr
          /\ UNCHANGED <<data, pc>>
       \/ /\ Last(t) /\ \A u \in Threads \ {t} : mine[u] = 0
          /\ LastUnlock(t)
    /\ given' = [given EXCEPT ![t] = @ /\ (mine[t] > 1 \/ hold[t] = 1)]
    /\ UNCHANGED <<tree, refs, bufs, inprog, signal, how, has, hold, locks>>

\* hammer2_io_bqrelse, then the mutex.
Release(t) ==
    /\ pc[t] \in {"relse", "mtxunlock"}
    /\ bufs' = IF pc[t] = "relse" THEN bufs - 1 ELSE bufs
    /\ wr' = None /\ pc' = [pc EXCEPT ![t] = "run"]
    /\ UNCHANGED <<tree, refs, lockcnt, mine, data, inprog, signal, how, has, hold,
                   given, locks>>

\* hammer2_chain_ref_hold: the data stays over an unlock, for what the caller
\* has seen of it.
hammer2_chain_ref_hold(t) ==
    /\ pc[t] = "run" /\ mine[t] = 1 /\ has[t] = 1
    /\ hold' = [hold EXCEPT ![t] = 1]
    /\ lockcnt' = lockcnt + 1 /\ refs' = refs + 1
    /\ has' = [has EXCEPT ![t] = @ + 1]
    /\ UNCHANGED <<tree, wr, mine, data, bufs, inprog, signal, pc, how, given, locks>>

\* hammer2_chain_unhold, of a hold or of a lock that was not granted.
hammer2_chain_unhold(t) ==
    /\ pc[t] = "unhold" \/ (pc[t] = "run" /\ mine[t] = 0 /\ hold[t] = 1)
    /\ \/ /\ lockcnt > 1
          /\ lockcnt' = lockcnt - 1 /\ pc' = [pc EXCEPT ![t] = "run"]
          /\ UNCHANGED <<data, wr, mine>>
       \/ lockcnt = 1 /\ CanWrite(t) /\ LastUnlock(t)
    /\ hold' = [hold EXCEPT ![t] = 0] /\ given' = [given EXCEPT ![t] = FALSE]
    /\ UNCHANGED <<tree, refs, bufs, inprog, signal, how, has, locks>>

\* hammer2_chain_drop; only the last reference needs the mutex.
hammer2_chain_drop(t) ==
    /\ pc[t] \in {"run", "drop"} /\ mine[t] = 0 /\ hold[t] = 0 /\ has[t] > 0
    /\ \/ /\ refs > 1
          /\ refs' = refs - 1 /\ has' = [has EXCEPT ![t] = @ - 1]
          /\ pc' = [pc EXCEPT ![t] = "run"] /\ UNCHANGED wr
       \/ /\ refs = 1 /\ CanWrite(t)
          /\ wr' = t /\ pc' = [pc EXCEPT ![t] = "lastdrop"]
          /\ UNCHANGED <<refs, has>>
    /\ UNCHANGED <<tree, lockcnt, mine, data, bufs, inprog, signal, how, hold, given, locks>>

\* hammer2_chain_lastdrop with both spin locks: the chain leaves the tree and
\* is freed, or another thread has found it meanwhile.
BugDropsLast(t) == TRUE
DropsLast(t) == refs = 1
hammer2_chain_lastdrop(t) ==
    /\ pc[t] = "lastdrop"
    /\ wr' = None
    /\ \/ /\ DropsLast(t)
          /\ refs' = 0 /\ tree' = FALSE /\ has' = [has EXCEPT ![t] = 0]
          /\ pc' = [pc EXCEPT ![t] = "run"]
       \/ /\ ~DropsLast(t)
          /\ pc' = [pc EXCEPT ![t] = "drop"] /\ UNCHANGED <<refs, tree, has>>
    /\ UNCHANGED <<lockcnt, mine, data, bufs, inprog, signal, how, hold, given, locks>>

\* hammer2_chain_get under the parent's spin lock: the chain that is in the
\* tree, or a new one.
hammer2_chain_get(t) ==
    /\ pc[t] = "run" /\ has[t] = 0 /\ locks < MaxLocks
    /\ locks' = locks + 1
    /\ tree' = TRUE /\ refs' = IF tree THEN refs + 1 ELSE 1
    /\ has' = [has EXCEPT ![t] = 1]
    /\ UNCHANGED <<lockcnt, wr, mine, data, bufs, inprog, signal, pc, how, hold, given>>

-----------------------------------------------------------------------------
Waits(t) == Poll(t) \/ LoadStart(t) \/ LoadEnd(t) \/ Release(t) \/ hammer2_chain_lastdrop(t)
Ends(t) == hammer2_chain_unlock(t) \/ hammer2_chain_unhold(t) \/ hammer2_chain_drop(t)

LockNext ==
    \E t \in Threads :
        \/ hammer2_chain_get(t) \/ hammer2_chain_lock(t) \/ Stall(t)
        \/ hammer2_chain_ref_hold(t) \/ Waits(t) \/ Ends(t)

\* Sleepers wake, and callers unlock and drop what they have.
LockFairness ==
    \A t \in Threads : WF_lockVars(Waits(t)) /\ WF_lockVars(Ends(t))

LockSpec == LockInit /\ [][LockNext]_lockVars /\ LockFairness

-----------------------------------------------------------------------------
LockTypeOK ==
    /\ \A n \in {refs, lockcnt, bufs, locks} : n \in Nat
    /\ wr \in Threads \cup {None}
    /\ \A t \in Threads : mine[t] \in 0..2 /\ has[t] \in 0..2 /\ hold[t] \in 0..1

\* Data that a lock has given a thread stays until that thread has unlocked,
\* whoever else locks, loads, fails to lock or unlocks meanwhile ("Once data is
\* assigned it will not be removed until the last unlock").
DataStays ==
    \A t \in Threads : given[t] /\ (mine[t] > 0 \/ hold[t] > 0) => data /\ bufs > 0

\* The device buffer is released exactly once: while the chain has data it
\* has one reference, and none once nobody locks, waits for or holds the chain
\* and the last unlock is through (hammer2_chain_load_data's IOINPROG,
\* hammer2_chain_unlock's 1->0 transition).
BufferReleased ==
    /\ lockcnt = 0 /\ wr = None => bufs = 0 /\ ~data
    /\ data => bufs = 1

\* A chain that has left its parent's tree and is freed is known to no thread
\* (hammer2_chain_lastdrop against hammer2_chain_get).
FreedUnused == ~tree => \A t \in Threads : has[t] = 0 /\ mine[t] = 0 /\ hold[t] = 0

\* The locks, the data and the life of a chain together.
LockSound == LockTypeOK /\ DataStays /\ BufferReleased /\ FreedUnused

\* hammer2_chain_lock's comment on LOCKAGAIN: "LOCKAGAIN must always succeed
\* without blocking, even if NONBLOCK is specified".
LockAgainSucceeds == \A t \in Threads : how[t].again => pc[t] \notin {"shwait", "shblock"}

\* Every request for the lock is answered in the end.
LocksEnd ==
    \A t \in Threads : pc[t] \in {"shwait", "exwait", "shblock", "exblock"} ~> pc[t] = "run"
=============================================================================
