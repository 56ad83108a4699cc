------------------------------ MODULE ChainProofs ------------------------------
(***************************************************************************)
(* Theorems about one chain, its lock and its data (ChainLock), about the  *)
(* block array of a chain (BlockTable), and about the data chains and the  *)
(* buffers of files (FileData), for any number of threads, an array of any *)
(* size, any references, and any files, blocks and writes.                 *)
(*                                                                         *)
(* The invariant of the lock says what refs and lockcnt count (CountInv),  *)
(* who may be where in which call (CallInv), and what holds chain->data    *)
(* and its device buffer (DataInv).  That of the array is its shape        *)
(* (TableInv).  That of the files says of each unit, in use or not, what   *)
(* its buffer and what the media hold (ContentOK), and which blocks may be *)
(* written in place (SharingOK).                                           *)
(***************************************************************************)
EXTENDS ChainLock, BlockTable, FileData, Counting, FunctionTheorems

Waiting == {"exwait", "shwait", "exblock", "shblock"}
Asking == Waiting \cup {"unhold"}              \* counted by lockcnt already
Loading == {"load", "io", "iowait"}
Ending == {"relse", "mtxunlock", "lastdrop"}   \* the mutex alone
Points == {"run", "drop"} \cup Asking \cup Loading \cup Ending

\* What a thread has in lockcnt.
Share(t) == mine[t] + hold[t] + (IF pc[t] \in Asking THEN 1 ELSE 0)
Shares == [t \in Threads |-> Share(t)]

TypeInv ==
    /\ refs \in Nat /\ lockcnt \in Nat /\ bufs \in Nat /\ locks \in Nat
    /\ wr \in Threads \cup {None}
    /\ mine \in [Threads -> 0..2] /\ has \in [Threads -> 0..2]
    /\ hold \in [Threads -> 0..1] /\ pc \in [Threads -> Points]
    /\ given \in [Threads -> BOOLEAN] /\ how \in [Threads -> How]
    /\ tree \in BOOLEAN /\ data \in BOOLEAN /\ inprog \in BOOLEAN /\ signal \in BOOLEAN

CountInv ==
    /\ refs = Total(Threads, 4, has)
    /\ lockcnt = Total(Threads, 4, Shares)
    /\ ~tree => refs = 0

CallInv ==
    /\ \A t \in Threads : wr = t => \A u \in Threads \ {t} : mine[u] = 0
    /\ \A t \in Threads :
          /\ pc[t] \in Ending => wr = t /\ mine[t] = 0
          /\ pc[t] \in Waiting => mine[t] <= 1
          /\ pc[t] = "unhold" => mine[t] = 0
          /\ pc[t] \in Asking \cup {"lastdrop"} => hold[t] = 0 /\ has[t] > 0
          /\ pc[t] \in Loading => mine[t] > 0
          /\ hold[t] = 1 => has[t] = 2
          /\ mine[t] > 0 => has[t] > 0

DataInv ==
    /\ \A t \in Threads :
          /\ pc[t] = "io" => inprog /\ ~data
          /\ \A u \in Threads : pc[t] = "io" /\ pc[u] = "io" => t = u
          /\ pc[t] = "relse" => ~data
          /\ given[t] => data /\ mine[t] + hold[t] > 0
    /\ bufs = IF data \/ \E t \in Threads : pc[t] = "relse" THEN 1 ELSE 0
    /\ data => lockcnt > 0

LockInv == TypeInv /\ CountInv /\ CallInv /\ DataInv

Action(t) ==
    \/ hammer2_chain_get(t) \/ hammer2_chain_lock(t) \/ Stall(t)
    \/ hammer2_chain_ref_hold(t) \/ Poll(t) \/ LoadStart(t) \/ LoadEnd(t) \/ Release(t)
    \/ hammer2_chain_lastdrop(t) \/ hammer2_chain_unlock(t) \/ hammer2_chain_unhold(t)
    \/ hammer2_chain_drop(t)

\* Every step is an operation of one thread.
LEMMA Steps ==
    ASSUME LockNext
    PROVE  \E t \in Threads : Action(t)
  BY DEF LockNext, Waits, Ends, Action

-----------------------------------------------------------------------------
(* What lockcnt and refs count.                                              *)

\* A thread has at most four in lockcnt.
LEMMA SharesType ==
    ASSUME TypeInv
    PROVE  /\ Shares \in [Threads -> 0..4]
           /\ has \in [Threads -> 0..4]
           /\ \A t \in Threads : Share(t) \in 0..4 /\ Shares[t] = Share(t)
<1>1. ASSUME NEW t \in Threads PROVE Share(t) \in 0..4
  <2>1. mine[t] \in 0..2 /\ hold[t] \in 0..1
    BY DEF TypeInv
  <2>2. QED
    BY <2>1 DEF Share
<1>2. has \in [Threads -> 0..4]
  BY DEF TypeInv
<1>3. QED
  BY <1>1, <1>2 DEF Shares

\* The same after a step.
LEMMA SharesTypeNext ==
    ASSUME TypeInv'
    PROVE  /\ Shares' \in [Threads -> 0..4]
           /\ has' \in [Threads -> 0..4]
           /\ \A t \in Threads : Shares'[t] = Share(t)'
<1>1. ASSUME NEW t \in Threads PROVE Share(t)' \in 0..4
  <2>1. mine'[t] \in 0..2 /\ hold'[t] \in 0..1
    BY DEF TypeInv
  <2>2. QED
    BY <2>1 DEF Share
<1>2. has' \in [Threads -> 0..4]
  BY DEF TypeInv
<1>3. QED
  BY <1>1, <1>2 DEF Shares

\* hammer2_chain_lock and hammer2_chain_ref_hold count the lock, the request
\* for it, or the hold.
LEMMA ShareCounted ==
    ASSUME TypeInv, CountInv, NEW t \in Threads, Share(t) > 0
    PROVE  /\ lockcnt > 0
           /\ lockcnt = 1 => Share(t) = 1 /\ \A u \in Threads \ {t} : Share(u) = 0
<1>1. lockcnt = Total(Threads, 4, Shares) /\ lockcnt \in Nat
  BY DEF CountInv, TypeInv
<1>2. lockcnt # 0
  BY <1>1, SharesType, TotalZero, LockAssumption
<1>3. lockcnt = 1 => Shares[t] = 1 /\ \A u \in Threads \ {t} : Shares[u] = 0
  BY <1>1, SharesType, TotalOne, LockAssumption
<1>4. QED
  BY <1>1, <1>2, <1>3, SharesType

-----------------------------------------------------------------------------
(* Types.                                                                    *)

\* No operation leaves the types: no counter is taken below zero.
LEMMA TypeNext ==
    ASSUME TypeInv, CountInv, CallInv, DataInv, NEW t \in Threads, Action(t)
    PROVE  TypeInv'
<1> USE DEF TypeInv, Points, Waiting, Asking, Loading, Ending
<1>1. CASE hammer2_chain_get(t)
  BY <1>1 DEF hammer2_chain_get
<1>2. CASE hammer2_chain_lock(t)
  BY <1>2 DEF hammer2_chain_lock, Legal, Locked, Granted
<1>3. CASE Stall(t)
  BY <1>3 DEF Stall
<1>4. CASE hammer2_chain_ref_hold(t)
  BY <1>4 DEF hammer2_chain_ref_hold
<1>5. CASE Poll(t)
  BY <1>5 DEF Poll, Locked, Granted, CallInv
<1>6. CASE LoadStart(t)
  BY <1>6 DEF LoadStart
<1>7. CASE LoadEnd(t)
  <2>1. pc' \in [Threads -> Points]
    BY <1>7 DEF LoadEnd
  <2>2. bufs' \in Nat
    BY <1>7 DEF LoadEnd
  <2>3. given' \in [Threads -> BOOLEAN] /\ data' \in BOOLEAN
    BY <1>7 DEF LoadEnd
  <2>4. QED
    BY <1>7, <2>1, <2>2, <2>3 DEF LoadEnd
<1>8. CASE Release(t)
  <2>1. bufs' \in Nat
    BY <1>8 DEF Release, DataInv
  <2>2. QED
    BY <1>8, <2>1 DEF Release
<1>9. CASE hammer2_chain_lastdrop(t)
  <2>1. has' \in [Threads -> 0..2] /\ pc' \in [Threads -> Points]
    BY <1>9 DEF hammer2_chain_lastdrop
  <2>2. refs' \in Nat
    BY <1>9 DEF hammer2_chain_lastdrop
  <2>3. tree' \in BOOLEAN
    BY <1>9 DEF hammer2_chain_lastdrop
  <2>4. QED
    BY <1>9, <2>1, <2>2, <2>3 DEF hammer2_chain_lastdrop
<1>10. CASE hammer2_chain_unlock(t)
  <2>1. mine' \in [Threads -> 0..2] /\ pc' \in [Threads -> Points]
    BY <1>10 DEF hammer2_chain_unlock, LastUnlock
  <2>2. lockcnt' \in Nat
    <3>1. Share(t) > 0
      BY <1>10 DEF hammer2_chain_unlock, Share
    <3>2. lockcnt > 0
      BY <3>1, ShareCounted
    <3>3. QED
      BY <1>10, <3>2 DEF hammer2_chain_unlock, LastUnlock
  <2>3. given' \in [Threads -> BOOLEAN] /\ data' \in BOOLEAN
    BY <1>10 DEF hammer2_chain_unlock, LastUnlock
  <2>4. wr' \in Threads \cup {None}
    BY <1>10 DEF hammer2_chain_unlock, LastUnlock
  <2>5. QED
    BY <1>10, <2>1, <2>2, <2>3, <2>4 DEF hammer2_chain_unlock
<1>11. CASE hammer2_chain_unhold(t)
  <2>1. mine' \in [Threads -> 0..2] /\ hold' \in [Threads -> 0..1]
    BY <1>11 DEF hammer2_chain_unhold, LastUnlock
  <2>2. lockcnt' \in Nat /\ pc' \in [Threads -> Points]
    BY <1>11 DEF hammer2_chain_unhold, LastUnlock
  <2>3. given' \in [Threads -> BOOLEAN] /\ data' \in BOOLEAN
    BY <1>11 DEF hammer2_chain_unhold, LastUnlock
  <2>4. wr' \in Threads \cup {None}
    BY <1>11 DEF hammer2_chain_unhold, LastUnlock
  <2>5. QED
    BY <1>11, <2>1, <2>2, <2>3, <2>4 DEF hammer2_chain_unhold
<1>12. CASE hammer2_chain_drop(t)
  <2>1. has' \in [Threads -> 0..2] /\ pc' \in [Threads -> Points]
    BY <1>12 DEF hammer2_chain_drop
  <2>2. refs' \in Nat /\ wr' \in Threads \cup {None}
    BY <1>12 DEF hammer2_chain_drop
  <2>3. QED
    BY <1>12, <2>1, <2>2 DEF hammer2_chain_drop
<1>13. QED
  BY <1>1, <1>2, <1>3, <1>4, <1>5, <1>6, <1>7, <1>8, <1>9, <1>10, <1>11, <1>12 DEF Action

-----------------------------------------------------------------------------
(* Every step counts what it adds and takes away.                            *)

\* One thread's share of lockcnt changes with lockcnt.
LEMMA ShareMoves ==
    ASSUME TypeInv, TypeInv', CountInv, NEW t \in Threads,
           \A u \in Threads \ {t} : Share(u)' = Share(u),
           \/ Share(t)' = Share(t) /\ lockcnt' = lockcnt
           \/ Share(t)' = Share(t) + 1 /\ lockcnt' = lockcnt + 1
           \/ Share(t) = Share(t)' + 1 /\ lockcnt' = lockcnt - 1
    PROVE  lockcnt' = Total(Threads, 4, Shares')
<1>1. Shares \in [Threads -> 0..4] /\ \A u \in Threads : Shares[u] = Share(u)
  BY SharesType
<1>2. Shares' \in [Threads -> 0..4] /\ \A u \in Threads : Shares'[u] = Share(u)'
  BY SharesTypeNext
<1>3. lockcnt = Total(Threads, 4, Shares) /\ lockcnt \in Nat
  BY DEF CountInv, TypeInv
<1>4. CASE Share(t)' = Share(t) /\ lockcnt' = lockcnt
  <2>1. Shares' = Shares
    BY <1>1, <1>2, <1>4
  <2>2. QED
    BY <1>3, <1>4, <2>1
<1>5. CASE Share(t)' = Share(t) + 1 /\ lockcnt' = lockcnt + 1
  <2>1. Total(Threads, 4, Shares') = Total(Threads, 4, Shares) + 1
    BY <1>1, <1>2, <1>5, TotalUp, LockAssumption
  <2>2. QED
    BY <1>3, <1>5, <2>1
<1>6. CASE Share(t) = Share(t)' + 1 /\ lockcnt' = lockcnt - 1
  <2>1. Total(Threads, 4, Shares) = Total(Threads, 4, Shares') + 1
    BY <1>1, <1>2, <1>6, TotalUp, LockAssumption
  <2>2. Total(Threads, 4, Shares') \in Nat
    BY TokensFinite, LockAssumption
  <2>3. QED
    BY <1>3, <1>6, <2>1, <2>2
<1>7. QED
  BY <1>4, <1>5, <1>6

\* One thread's references change with refs.
LEMMA HasMoves ==
    ASSUME TypeInv, TypeInv', CountInv, NEW t \in Threads,
           \A u \in Threads \ {t} : has'[u] = has[u],
           \/ has'[t] = has[t] + 1 /\ refs' = refs + 1
           \/ has[t] = has'[t] + 1 /\ refs' = refs - 1
    PROVE  refs' = Total(Threads, 4, has')
<1>1. has \in [Threads -> 0..4] /\ has' \in [Threads -> 0..4]
  BY SharesType, SharesTypeNext
<1>2. refs = Total(Threads, 4, has) /\ refs \in Nat
  BY DEF CountInv, TypeInv
<1>3. CASE has'[t] = has[t] + 1 /\ refs' = refs + 1
  <2>1. Total(Threads, 4, has') = Total(Threads, 4, has) + 1
    BY <1>1, <1>3, TotalUp, LockAssumption
  <2>2. QED
    BY <1>2, <1>3, <2>1
<1>4. CASE has[t] = has'[t] + 1 /\ refs' = refs - 1
  <2>1. Total(Threads, 4, has) = Total(Threads, 4, has') + 1
    BY <1>1, <1>4, TotalUp, LockAssumption
  <2>2. Total(Threads, 4, has') \in Nat
    BY TokensFinite, LockAssumption
  <2>3. QED
    BY <1>2, <1>4, <2>1, <2>2
<1>5. QED
  BY <1>3, <1>4

\* A chain that is known is counted, and the last reference is somebody's.
LEMMA RefCounted ==
    ASSUME TypeInv, CountInv
    PROVE  /\ refs = 0 => \A u \in Threads : has[u] = 0
           /\ \A t \in Threads : refs = 1 /\ has[t] > 0 =>
                 has[t] = 1 /\ \A u \in Threads \ {t} : has[u] = 0
<1>1. refs = Total(Threads, 4, has) /\ has \in [Threads -> 0..4]
  BY SharesType DEF CountInv
<1>2. refs = 0 => \A u \in Threads : has[u] = 0
  BY <1>1, TotalZero, LockAssumption
<1>3. ASSUME NEW t \in Threads, refs = 1, has[t] > 0
      PROVE  has[t] = 1 /\ \A u \in Threads \ {t} : has[u] = 0
  BY <1>1, <1>3, TotalOne, LockAssumption
<1>4. QED
  BY <1>2, <1>3

\* lockcnt goes up with each lock, request and hold, and down with the unlock or
\* the unhold that ends it (hammer2_chain_lock, _unlock, _ref_hold, _unhold).
LEMMA ShareNext ==
    ASSUME TypeInv, TypeInv', CountInv, CallInv, NEW t \in Threads, Action(t)
    PROVE  lockcnt' = Total(Threads, 4, Shares')
<1> USE DEF Share, TypeInv, Points, Waiting, Asking, Loading, Ending
<1> SUFFICES /\ \A u \in Threads \ {t} : Share(u)' = Share(u)
             /\ \/ Share(t)' = Share(t) /\ lockcnt' = lockcnt
                \/ Share(t)' = Share(t) + 1 /\ lockcnt' = lockcnt + 1
                \/ Share(t) = Share(t)' + 1 /\ lockcnt' = lockcnt - 1
  BY ShareMoves
<1>1. CASE hammer2_chain_get(t)
  BY <1>1 DEF hammer2_chain_get
<1>2. CASE hammer2_chain_lock(t)
  BY <1>2 DEF hammer2_chain_lock, Legal, Locked, Granted
<1>3. CASE Stall(t)
  BY <1>3 DEF Stall
<1>4. CASE hammer2_chain_ref_hold(t)
  BY <1>4 DEF hammer2_chain_ref_hold, CallInv
<1>5. CASE Poll(t)
  BY <1>5 DEF Poll, Locked, Granted, CallInv
<1>6. CASE LoadStart(t)
  BY <1>6 DEF LoadStart
<1>7. CASE LoadEnd(t)
  BY <1>7 DEF LoadEnd
<1>8. CASE Release(t)
  BY <1>8 DEF Release
<1>9. CASE hammer2_chain_lastdrop(t)
  BY <1>9 DEF hammer2_chain_lastdrop
<1>10. CASE hammer2_chain_unlock(t)
  <2>1. CASE ~Last(t)
    BY <1>10, <2>1 DEF hammer2_chain_unlock
  <2>2. CASE Last(t)
    <3>1. mine[t] > 0 /\ lockcnt = 1 /\ Share(t) > 0
      BY <1>10, <2>2 DEF hammer2_chain_unlock, Last
    <3>2. Share(t) = 1
      BY <3>1, ShareCounted
    <3>3. mine[t] = 1 /\ hold[t] = 0
      BY <3>1, <3>2
    <3>4. QED
      BY <1>10, <2>2, <3>1, <3>3 DEF hammer2_chain_unlock, LastUnlock
  <2>3. QED
    BY <2>1, <2>2
<1>11. CASE hammer2_chain_unhold(t)
  <2>1. mine[t] = 0 /\ Share(t) = 1
    BY <1>11 DEF hammer2_chain_unhold, CallInv
  <2>2. Share(t)' = 0
    BY <1>11, <2>1 DEF hammer2_chain_unhold, LastUnlock
  <2>3. lockcnt' = lockcnt - 1
    BY <1>11 DEF hammer2_chain_unhold, LastUnlock
  <2>4. \A u \in Threads \ {t} : Share(u)' = Share(u)
    BY <1>11 DEF hammer2_chain_unhold, LastUnlock
  <2>5. QED
    BY <2>1, <2>2, <2>3, <2>4
<1>12. CASE hammer2_chain_drop(t)
  BY <1>12 DEF hammer2_chain_drop
<1>13. QED
  BY <1>1, <1>2, <1>3, <1>4, <1>5, <1>6, <1>7, <1>8, <1>9, <1>10, <1>11, <1>12 DEF Action

\* refs counts the references of all threads, and a chain that has left the tree
\* has none (hammer2_chain_get, _ref_hold, _drop, _lastdrop).
LEMMA CountNext ==
    ASSUME TypeInv, TypeInv', CountInv, CallInv, NEW t \in Threads, Action(t)
    PROVE  CountInv'
<1> USE DEF TypeInv
<1> SUFFICES /\ refs' = Total(Threads, 4, has')
             /\ ~tree' => refs' = 0
  BY ShareNext DEF CountInv
<1>1. CASE hammer2_chain_get(t)
  <2>1. ~tree => refs = 0
    BY DEF CountInv
  <2>2. tree' /\ refs' = refs + 1
    BY <1>1, <2>1 DEF hammer2_chain_get
  <2>3. has'[t] = has[t] + 1 /\ \A u \in Threads \ {t} : has'[u] = has[u]
    BY <1>1 DEF hammer2_chain_get
  <2>4. QED
    BY <2>2, <2>3, HasMoves
<1>2. CASE hammer2_chain_ref_hold(t)
  <2>1. refs' = refs + 1 /\ tree' = tree
    BY <1>2 DEF hammer2_chain_ref_hold
  <2>2. has'[t] = has[t] + 1 /\ \A u \in Threads \ {t} : has'[u] = has[u]
    BY <1>2 DEF hammer2_chain_ref_hold
  <2>3. tree
    BY <1>2, RefCounted DEF CountInv, hammer2_chain_ref_hold
  <2>4. QED
    BY <2>1, <2>2, <2>3, HasMoves
<1>3. CASE hammer2_chain_lastdrop(t)
  <2>1. CASE DropsLast(t)
    <3>1. has[t] > 0 /\ refs = 1
      BY <1>3, <2>1 DEF hammer2_chain_lastdrop, DropsLast, CallInv
    <3>2. has[t] = 1
      BY <3>1, RefCounted
    <3>3. refs' = refs - 1 /\ has[t] = has'[t] + 1
      BY <1>3, <2>1, <3>1, <3>2 DEF hammer2_chain_lastdrop
    <3>4. \A u \in Threads \ {t} : has'[u] = has[u]
      BY <1>3, <2>1 DEF hammer2_chain_lastdrop
    <3>5. refs' = 0
      BY <3>1, <3>3
    <3>6. QED
      BY <3>3, <3>4, <3>5, HasMoves
  <2>2. CASE ~DropsLast(t)
    BY <1>3, <2>2 DEF hammer2_chain_lastdrop, CountInv
  <2>3. QED
    BY <2>1, <2>2
<1>4. CASE hammer2_chain_drop(t)
  <2>1. CASE refs > 1 /\ refs' = refs - 1 /\ has' = [has EXCEPT ![t] = @ - 1]
    <3>1. has[t] = has'[t] + 1 /\ \A u \in Threads \ {t} : has'[u] = has[u]
      BY <1>4, <2>1 DEF hammer2_chain_drop
    <3>2. tree' = tree /\ tree
      BY <1>4, <2>1 DEF hammer2_chain_drop, CountInv
    <3>3. QED
      BY <2>1, <3>1, <3>2, HasMoves
  <2>2. CASE UNCHANGED <<refs, has>>
    BY <1>4, <2>2 DEF hammer2_chain_drop, CountInv
  <2>3. QED
    BY <1>4, <2>1, <2>2 DEF hammer2_chain_drop
<1>5. CASE UNCHANGED <<tree, refs, has>>
  BY <1>5 DEF CountInv
<1>6. QED
  BY <1>1, <1>2, <1>3, <1>4, <1>5
  DEF Action, hammer2_chain_lock, Stall, Poll, LoadStart, LoadEnd, Release,
      hammer2_chain_unlock, hammer2_chain_unhold

-----------------------------------------------------------------------------
(* Who may be where in which call.                                           *)

\* The mutex keeps everybody else out.
LEMMA MutexNext ==
    ASSUME TypeInv, CallInv, NEW t \in Threads, Action(t)
    PROVE  \A w \in Threads : wr' = w => \A u \in Threads \ {w} : mine'[u] = 0
<1> USE DEF TypeInv, LockAssumption
<1>0. \A w \in Threads : wr = w => \A u \in Threads \ {w} : mine[u] = 0
  BY DEF CallInv
<1>1. CASE hammer2_chain_lock(t)
  BY <1>0, <1>1, LockAssumption
  DEF hammer2_chain_lock, Legal, Locked, Granted, Grants, CanRead, CanWrite
<1>2. CASE Poll(t)
  BY <1>0, <1>2, LockAssumption DEF Poll, Locked, Granted, Grants, CanRead, CanWrite
<1>3. CASE hammer2_chain_unlock(t)
  BY <1>0, <1>3, LockAssumption DEF hammer2_chain_unlock, LastUnlock
<1>4. CASE hammer2_chain_unhold(t)
  BY <1>0, <1>4, LockAssumption DEF hammer2_chain_unhold, LastUnlock, CanWrite
<1>5. CASE hammer2_chain_drop(t)
  BY <1>0, <1>5, LockAssumption DEF hammer2_chain_drop, CanWrite
<1>6. CASE Release(t) \/ hammer2_chain_lastdrop(t)
  BY <1>0, <1>6, LockAssumption DEF Release, hammer2_chain_lastdrop
<1>7. CASE UNCHANGED <<wr, mine>>
  BY <1>0, <1>7
<1>8. QED
  BY <1>1, <1>2, <1>3, <1>4, <1>5, <1>6, <1>7
  DEF Action, hammer2_chain_get, Stall, LoadStart, LoadEnd, hammer2_chain_ref_hold

\* What a thread may have at each point of a call.
Placed(t) ==
    /\ pc[t] \in Ending => wr = t /\ mine[t] = 0
    /\ pc[t] \in Waiting => mine[t] <= 1
    /\ pc[t] = "unhold" => mine[t] = 0
    /\ pc[t] \in Asking \cup {"lastdrop"} => hold[t] = 0 /\ has[t] > 0
    /\ pc[t] \in Loading => mine[t] > 0
    /\ hold[t] = 1 => has[t] = 2
    /\ mine[t] > 0 => has[t] > 0

\* Nobody takes the mutex from a thread that has it.
LEMMA OwnerStays ==
    ASSUME TypeInv, CallInv, NEW t \in Threads, Action(t), NEW u \in Threads, u # t, wr = u
    PROVE  wr' = u
<1>1. mine[t] = 0 /\ wr # None /\ ~CanWrite(t) /\ ~CanRead
  BY LockAssumption DEF CallInv, CanWrite, CanRead
<1>2. ~(pc[t] \in Ending)
  BY DEF CallInv
<1>3. QED
  BY <1>1, <1>2 DEF Action, hammer2_chain_get, Stall, LoadStart, LoadEnd, hammer2_chain_ref_hold,
     hammer2_chain_lock, Poll, Locked, Granted, Grants, hammer2_chain_unlock, LastUnlock,
     hammer2_chain_unhold, hammer2_chain_drop, Release, hammer2_chain_lastdrop, Ending, Legal, TypeInv

\* A step leaves the others where they are, except that a read wakes those
\* that wait for it.
LEMMA OthersStay ==
    ASSUME TypeInv, CallInv, NEW t \in Threads, Action(t), NEW u \in Threads, u # t
    PROVE  /\ mine'[u] = mine[u] /\ hold'[u] = hold[u] /\ has'[u] = has[u]
           /\ pc'[u] = pc[u] \/ (pc[u] = "iowait" /\ pc'[u] = "load")
           /\ given'[u] = given[u]
  BY DEF Action, hammer2_chain_get, Stall, LoadStart, LoadEnd, hammer2_chain_ref_hold,
     hammer2_chain_lock, Poll, Locked, Granted, hammer2_chain_unlock, LastUnlock,
     hammer2_chain_unhold, hammer2_chain_drop, Release, hammer2_chain_lastdrop, TypeInv

\* Each operation leaves its thread with what the next one expects.
LEMMA PlacedNext ==
    ASSUME TypeInv, CallInv, NEW t \in Threads, Action(t)
    PROVE  Placed(t)'
<1> USE DEF TypeInv, Placed, Points, Waiting, Asking, Loading, Ending
<1>0. Placed(t)
  BY DEF CallInv
<1>1. CASE hammer2_chain_get(t)
  BY <1>0, <1>1 DEF hammer2_chain_get
<1>2. CASE hammer2_chain_lock(t)
  <2>1. PICK h \in How : Legal(t, h) /\ how' = [how EXCEPT ![t] = h]
        /\ \/ Grants(t, h) /\ Locked(t)
           \/ /\ ~Grants(t, h) /\ (h.again \/ ~h.nonblock)
              /\ pc' = [pc EXCEPT ![t] = IF h.sh THEN "shwait" ELSE "exwait"]
              /\ UNCHANGED <<mine, wr, given>>
           \/ /\ ~Grants(t, h) /\ h.nonblock /\ ~h.again
              /\ pc' = [pc EXCEPT ![t] = "unhold"]
              /\ UNCHANGED <<mine, wr, given>>
    BY <1>2 DEF hammer2_chain_lock
  <2>2. CASE Locked(t)
    BY <1>0, <1>2, <2>1, <2>2 DEF Locked, Granted, hammer2_chain_lock, Legal
  <2>3. CASE UNCHANGED mine /\ pc'[t] \in {"shwait", "exwait"}
    BY <1>0, <1>2, <2>1, <2>3 DEF hammer2_chain_lock, Legal
  <2>4. CASE UNCHANGED mine /\ pc'[t] = "unhold" /\ ~Grants(t, h) /\ ~h.again
    <3>1. mine[t] = 0
      BY <2>1, <2>4 DEF Legal, Grants, CanWrite
    <3>2. QED
      BY <1>0, <1>2, <2>1, <2>4, <3>1 DEF hammer2_chain_lock, Legal
  <2>5. QED
    BY <2>1, <2>2, <2>3, <2>4
<1>3. CASE Stall(t)
  BY <1>0, <1>3 DEF Stall
<1>4. CASE hammer2_chain_ref_hold(t)
  BY <1>0, <1>4 DEF hammer2_chain_ref_hold
<1>5. CASE Poll(t)
  BY <1>0, <1>5 DEF Poll, Locked, Granted
<1>6. CASE LoadStart(t)
  BY <1>0, <1>6 DEF LoadStart
<1>7. CASE LoadEnd(t)
  BY <1>0, <1>7 DEF LoadEnd
<1>8. CASE Release(t)
  BY <1>0, <1>8 DEF Release
<1>9. CASE hammer2_chain_lastdrop(t)
  BY <1>0, <1>9 DEF hammer2_chain_lastdrop
<1>10. CASE hammer2_chain_unlock(t)
  BY <1>0, <1>10 DEF hammer2_chain_unlock, LastUnlock
<1>11. CASE hammer2_chain_unhold(t)
  BY <1>0, <1>11 DEF hammer2_chain_unhold, LastUnlock
<1>12. CASE hammer2_chain_drop(t)
  BY <1>0, <1>12 DEF hammer2_chain_drop
<1>13. QED
  BY <1>1, <1>2, <1>3, <1>4, <1>5, <1>6, <1>7, <1>8, <1>9, <1>10, <1>11, <1>12 DEF Action

\* No operation disturbs CallInv, of its thread or of another.
LEMMA CallNext ==
    ASSUME TypeInv, CallInv, NEW t \in Threads, Action(t)
    PROVE  CallInv'
<1>1. Placed(t)'
  BY PlacedNext
<1>2. ASSUME NEW u \in Threads, u # t PROVE Placed(u)'
  BY <1>2, OthersStay, OwnerStays
  DEF Placed, CallInv, Ending, Waiting, Asking, Loading
<1>3. QED
  BY <1>1, <1>2, MutexNext DEF CallInv, Placed

-----------------------------------------------------------------------------
(* The data and its buffer.                                                  *)

\* Only one thread releases the buffer, and nobody reads meanwhile.
LEMMA ReleaseAlone ==
    ASSUME CallInv, NEW t \in Threads, pc[t] = "relse"
    PROVE  /\ \A u \in Threads : pc[u] = "relse" => u = t
           /\ \A u \in Threads : pc[u] # "io"
  BY DEF CallInv, Ending, Loading, TypeInv

\* A lock that is granted hands out data only when it is there.
LEMMA LockedGives ==
    ASSUME NEW t \in Threads, mine \in [Threads -> 0..2], given \in [Threads -> BOOLEAN],
           hold \in [Threads -> 0..1], hold' = hold, Locked(t)
    PROVE  (given'[t] => given[t] \/ data) /\ mine'[t] + hold'[t] > 0
<1>1. mine'[t] = mine[t] + 1
  BY DEF Locked, Granted
<1>2. given'[t] => given[t] \/ data
  BY DEF Locked
<1>3. QED
  BY <1>1, <1>2

\* Data stays until the last unlock; the read is made once.
LEMMA DataNext ==
    ASSUME TypeInv, TypeInv', CountInv, CallInv, DataInv, NEW t \in Threads, Action(t)
    PROVE  DataInv'
<1> USE DEF TypeInv, Points, Waiting, Asking, Loading, Ending
<1> DEFINE Released == \E u \in Threads : pc[u] = "relse"
<1>0. /\ bufs = IF data \/ Released THEN 1 ELSE 0
      /\ data => lockcnt > 0
      /\ \A u \in Threads : /\ pc[u] = "io" => inprog /\ ~data
                            /\ \A v \in Threads : pc[u] = "io" /\ pc[v] = "io" => u = v
                            /\ pc[u] = "relse" => ~data
                            /\ given[u] => data /\ mine[u] + hold[u] > 0
  BY DEF DataInv
<1>1. \A u \in Threads \ {t} : /\ mine'[u] = mine[u] /\ hold'[u] = hold[u]
                               /\ pc'[u] = pc[u] \/ (pc[u] = "iowait" /\ pc'[u] = "load")
                               /\ given'[u] = given[u]
  BY OthersStay
<1>2. ASSUME UNCHANGED <<data, bufs, inprog>>, pc[t] \notin {"io", "relse"},
             pc'[t] \notin {"io", "relse"}, lockcnt' >= lockcnt,
             given'[t] => data /\ mine'[t] + hold'[t] > 0
      PROVE  DataInv'
  <2>1. Released' <=> Released
    BY <1>1, <1>2
  <2>2. \A u \in Threads : pc'[u] = "io" <=> pc[u] = "io"
    BY <1>1, <1>2
  <2>3. \A u \in Threads : pc'[u] = "relse" <=> pc[u] = "relse"
    BY <1>1, <1>2
  <2>4. \A u \in Threads : given'[u] => data /\ mine'[u] + hold'[u] > 0
    BY <1>0, <1>1, <1>2
  <2>5. data' => lockcnt' > 0
    BY <1>0, <1>2
  <2>6. QED
    BY <1>0, <1>2, <2>1, <2>2, <2>3, <2>4, <2>5 DEF DataInv
<1>3. CASE hammer2_chain_get(t)
  BY <1>0, <1>2, <1>3 DEF hammer2_chain_get
<1>4. CASE hammer2_chain_lock(t)
  <2>1. given'[t] => data /\ mine'[t] + hold'[t] > 0
    <3>1. CASE Locked(t)
      BY <1>0, <1>4, <3>1, LockedGives DEF hammer2_chain_lock
    <3>2. CASE UNCHANGED <<mine, given>>
      BY <1>0, <1>4, <3>2 DEF hammer2_chain_lock
    <3>3. QED
      BY <1>4, <3>1, <3>2 DEF hammer2_chain_lock
  <2>2. QED
    BY <1>2, <1>4, <2>1 DEF hammer2_chain_lock, Locked
<1>5. CASE Stall(t)
  BY <1>0, <1>2, <1>5 DEF Stall
<1>6. CASE hammer2_chain_ref_hold(t)
  BY <1>0, <1>2, <1>6 DEF hammer2_chain_ref_hold
<1>7. CASE Poll(t)
  <2>1. given'[t] => data /\ mine'[t] + hold'[t] > 0
    BY <1>0, <1>7, LockedGives DEF Poll
  <2>2. QED
    BY <1>2, <1>7, <2>1 DEF Poll, Locked
<1>8. CASE LoadStart(t)
  <2>1. mine[t] > 0
    BY <1>8 DEF LoadStart, CallInv
  <2>2. CASE ~inprog /\ NeedsRead /\ inprog' = TRUE /\ pc' = [pc EXCEPT ![t] = "io"]
    <3>1. \A u \in Threads : pc'[u] = "io" => u = t
      BY <1>0, <2>2
    <3>2. Released' <=> Released
      BY <1>8, <2>2 DEF LoadStart
    <3>3. ~data /\ data' = data /\ bufs' = bufs /\ given' = given
      BY <1>8, <2>2 DEF LoadStart, NeedsRead
    <3>4. QED
      BY <1>0, <1>1, <1>8, <2>2, <3>1, <3>2, <3>3 DEF DataInv, LoadStart
  <2>3. CASE pc'[t] # "io"
    <3>1. given'[t] => data /\ mine'[t] + hold'[t] > 0
      BY <1>0, <1>8, <2>1, <2>3 DEF LoadStart, NeedsRead
    <3>2. QED
      BY <1>2, <1>8, <2>3, <3>1 DEF LoadStart
  <2>4. QED
    BY <1>8, <2>2, <2>3 DEF LoadStart
<1>9. CASE LoadEnd(t)
  <2>1. mine[t] > 0 /\ pc[t] = "io" /\ ~data /\ ~Released /\ bufs = 0
    BY <1>0, <1>9, ReleaseAlone DEF LoadEnd, CallInv
  <2>2. \A u \in Threads : pc'[u] # "io" /\ pc'[u] # "relse"
    BY <1>0, <1>9, <2>1 DEF LoadEnd
  <2>3. lockcnt' > 0
    <3>1. Share(t) > 0
      BY <2>1 DEF Share
    <3>2. QED
      BY <1>9, <3>1, ShareCounted DEF LoadEnd
  <2>4. \A u \in Threads : given'[u] => data' /\ mine'[u] + hold'[u] > 0
    BY <1>0, <1>9, <2>1 DEF LoadEnd
  <2>5. bufs' = IF data' THEN 1 ELSE 0
    BY <1>9, <2>1 DEF LoadEnd
  <2>6. QED
    BY <2>2, <2>3, <2>4, <2>5 DEF DataInv
<1>10. CASE Release(t)
  <2>1. wr = t /\ mine[t] = 0
    BY <1>10 DEF Release, CallInv
  <2>2. \A u \in Threads : pc'[u] # "relse"
    BY <1>1, <1>10, <2>1, LockAssumption DEF Release, CallInv
  <2>3. bufs' = IF data THEN 1 ELSE 0
    <3>1. CASE pc[t] = "relse"
      BY <1>0, <1>10, <3>1 DEF Release
    <3>2. CASE pc[t] = "mtxunlock"
      <4>1. ~Released
        BY <2>1, <3>2 DEF CallInv
      <4>2. QED
        BY <1>0, <1>10, <3>2, <4>1 DEF Release
    <3>3. QED
      BY <1>10, <3>1, <3>2 DEF Release
  <2>4. \A u \in Threads : pc'[u] = "io" => pc[u] = "io"
    BY <1>1, <1>10 DEF Release
  <2>5. QED
    BY <1>0, <1>10, <2>2, <2>3, <2>4 DEF DataInv, Release
<1>11. CASE hammer2_chain_lastdrop(t)
  BY <1>0, <1>2, <1>11 DEF hammer2_chain_lastdrop
<1>12. CASE hammer2_chain_drop(t)
  BY <1>0, <1>2, <1>12 DEF hammer2_chain_drop
<1>13. ASSUME lockcnt = 1, LastUnlock(t), ~given'[t], Share(t) > 0, UNCHANGED <<bufs, inprog>>,
              pc[t] \notin {"io", "relse"}
       PROVE  DataInv'
  <2>1. \A u \in Threads \ {t} : Share(u) = 0
    BY <1>13, ShareCounted
  <2>2. \A u \in Threads \ {t} : mine[u] + hold[u] = 0
    BY <2>1 DEF Share
  <2>3. \A u \in Threads : ~given'[u]
    BY <1>0, <1>1, <1>13, <2>2
  <2>4. data' = FALSE /\ pc' = [pc EXCEPT ![t] = IF data THEN "relse" ELSE "mtxunlock"]
    BY <1>13 DEF LastUnlock
  <2>5. \A u \in Threads : pc'[u] = "io" => pc[u] = "io"
    BY <2>4
  <2>6. Released' <=> data \/ Released
    BY <1>13, <2>4
  <2>7. QED
    BY <1>0, <1>13, <2>3, <2>4, <2>5, <2>6 DEF DataInv
<1>14. CASE hammer2_chain_unlock(t)
  <2>0. Share(t) > 0 /\ mine[t] > 0 /\ pc[t] = "run"
    BY <1>14 DEF hammer2_chain_unlock, Share
  <2>10. given'[t] <=> given[t] /\ (mine[t] > 1 \/ hold[t] = 1)
    BY <1>14, Zenon DEF hammer2_chain_unlock
  <2>1. CASE Last(t)
    <3>1. lockcnt = 1 /\ LastUnlock(t) /\ UNCHANGED <<bufs, inprog>>
      BY <1>14, <2>1 DEF hammer2_chain_unlock, Last
    <3>2. mine[t] = 1 /\ hold[t] = 0
      <4>1. Share(t) = 1
        BY <2>0, <3>1, ShareCounted
      <4>2. QED
        BY <2>0, <4>1 DEF Share
    <3>3. ~given'[t]
      BY <2>10, <3>2
    <3>4. QED
      BY <1>13, <2>0, <3>1, <3>3
  <2>2. CASE ~Last(t)
    <3>1. lockcnt > 1 /\ lockcnt' = lockcnt - 1 /\ UNCHANGED <<data, pc, bufs, inprog>>
      BY <1>14, <2>0, <2>2, ShareCounted DEF hammer2_chain_unlock, Last
    <3>2. given'[t] => data /\ mine'[t] + hold'[t] > 0
      <4>1. mine'[t] = mine[t] - 1 /\ hold'[t] = hold[t]
        BY <1>14, <2>2 DEF hammer2_chain_unlock
      <4>2. QED
        BY <1>0, <2>0, <2>10, <4>1
    <3>3. \A u \in Threads : given'[u] => data /\ mine'[u] + hold'[u] > 0
      BY <1>0, <1>1, <3>2
    <3>4. QED
      BY <1>0, <3>1, <3>3 DEF DataInv
  <2>3. QED
    BY <2>1, <2>2
<1>15. CASE hammer2_chain_unhold(t)
  <2>0. Share(t) > 0 /\ pc[t] \in {"run", "unhold"} /\ ~given'[t] /\ UNCHANGED <<bufs, inprog>>
    BY <1>15 DEF hammer2_chain_unhold, Share
  <2>1. CASE lockcnt = 1 /\ LastUnlock(t)
    BY <1>13, <2>0, <2>1
  <2>2. CASE lockcnt > 1 /\ lockcnt' = lockcnt - 1 /\ pc' = [pc EXCEPT ![t] = "run"]
             /\ UNCHANGED data
    <3>1. \A u \in Threads : given'[u] => data /\ mine'[u] + hold'[u] > 0
      BY <1>0, <1>1, <2>0
    <3>2. Released' <=> Released
      BY <2>0, <2>2
    <3>3. \A u \in Threads : pc'[u] = "io" => pc[u] = "io"
      BY <2>2
    <3>4. QED
      BY <1>0, <2>0, <2>2, <3>1, <3>2, <3>3 DEF DataInv
  <2>3. QED
    BY <1>15, <2>1, <2>2 DEF hammer2_chain_unhold
<1>16. QED
  BY <1>3, <1>4, <1>5, <1>6, <1>7, <1>8, <1>9, <1>10, <1>11, <1>12, <1>14, <1>15 DEF Action

-----------------------------------------------------------------------------
(* The theorems.                                                             *)

\* A chain nobody knows.
LEMMA InvInit ==
    ASSUME LockInit
    PROVE  LockInv
<1> USE DEF LockInit
<1>1. TypeInv
  <2>1. how \in [Threads -> How]
    BY DEF NoHow, How
  <2>2. pc \in [Threads -> Points]
    BY DEF Points
  <2>3. given \in [Threads -> BOOLEAN]
    OBVIOUS
  <2>4. mine \in [Threads -> 0..2] /\ has \in [Threads -> 0..2] /\ hold \in [Threads -> 0..1]
    OBVIOUS
  <2>5. tree \in BOOLEAN /\ data \in BOOLEAN /\ inprog \in BOOLEAN /\ signal \in BOOLEAN
    OBVIOUS
  <2>6. QED
    BY <2>1, <2>2, <2>3, <2>4, <2>5 DEF TypeInv
<1>2. Shares \in [Threads -> 0..4] /\ \A t \in Threads : Shares[t] = 0
  BY <1>1, SharesType DEF Share, Asking, Waiting
<1>3. has \in [Threads -> 0..4] /\ \A t \in Threads : has[t] = 0
  BY <1>1, SharesType
<1>4. CountInv
  BY <1>2, <1>3, TotalZero, LockAssumption DEF CountInv
<1>5. CallInv
  BY LockAssumption DEF CallInv, Asking, Waiting, Loading, Ending
<1>6. DataInv
  BY DEF DataInv
<1>7. QED
  BY <1>1, <1>4, <1>5, <1>6 DEF LockInv

\* The invariant holds, however the operations of any number of threads
\* interleave.
THEOREM Invariance == LockSpec => []LockInv
<1>1. LockInit => LockInv
  BY InvInit
<1>2. LockInv /\ [LockNext]_lockVars => LockInv'
  <2>1. CASE LockNext
    BY <2>1, Steps, TypeNext, CountNext, CallNext, DataNext DEF LockInv
  <2>2. CASE UNCHANGED lockVars
    BY <2>2 DEF LockInv, TypeInv, CountInv, CallInv, DataInv, Shares, Share, lockVars
  <2>3. QED
    BY <2>1, <2>2
<1>3. QED
  BY <1>1, <1>2, PTL DEF LockSpec

\* Data a thread was given stays until it has unlocked; the device buffer is
\* released once, by the unlock or unhold that takes lockcnt to 0; and a chain
\* that is freed is known to nobody (hammer2_chain_load_data, _unlock, _unhold,
\* _lastdrop).
THEOREM LocksAreSound == LockSpec => []LockSound
<1>1. LockInv => LockSound
  <2> SUFFICES ASSUME LockInv PROVE LockSound
    OBVIOUS
  <2>1. LockTypeOK
    BY DEF LockInv, TypeInv, LockTypeOK
  <2>2. DataStays
    BY DEF LockInv, DataInv, DataStays
  <2>3. BufferReleased
    BY LockAssumption DEF LockInv, DataInv, CallInv, Ending, BufferReleased
  <2>4. FreedUnused
    BY RefCounted DEF LockInv, CountInv, CallInv, TypeInv, FreedUnused
  <2>5. QED
    BY <2>1, <2>2, <2>3, <2>4 DEF LockSound
<1>2. QED
  BY <1>1, Invariance, PTL

-----------------------------------------------------------------------------
(* The block array of a chain.                                               *)

TableInv == TableTypeOK /\ TableExact

Used(p) == p \in Positions /\ base[p] # Empty
Nearest(key) ==
    Least({p \in Positions : base[p] # Empty /\ base[p][2] >= key} \cup {Places})

\* A reference is a range of keys, and not an empty place.
LEMMA RefFacts ==
    /\ Places \in Nat /\ 1 <= Places /\ Positions = 0..(Places - 1)
    /\ Empty \notin TableRefs
    /\ \A r \in TableRefs : r[1] \in Nat /\ r[2] \in Nat /\ r[1] <= r[2]
<1>1. /\ Places \in Nat /\ 1 <= Places
      /\ \A r \in TableRefs : r[1] \in Nat /\ r[2] \in Nat /\ r[1] <= r[2]
  BY BlockTableAssumption
<1>2. Empty[1] = -1
  BY DEF Empty
<1>3. Empty \notin TableRefs
  BY <1>1, <1>2
<1>4. QED
  BY <1>1, <1>3 DEF Positions

\* The least of a set of naturals, and the greatest of one that is bounded.
LEMMA LeastIs ==
    ASSUME NEW S \in SUBSET Nat, S # {}
    PROVE  Least(S) \in S /\ \A j \in S : Least(S) <= j
<1>1. \E i \in S : \A j \in S : i <= j
  BY LeastNat
<1>2. QED
  BY <1>1 DEF Least

\* ... the greatest.
LEMMA GreatestIs ==
    ASSUME NEW n \in Nat, NEW S \in SUBSET (0..n), S # {}
    PROVE  Greatest(S) \in S /\ \A j \in S : j <= Greatest(S)
<1>1. \E i \in S : \A j \in S : j <= i
  BY GreatestNat
<1>2. QED
  BY <1>1 DEF Greatest

\* What the array holds, one place at a time.
LEMMA TableFacts ==
    ASSUME TableInv
    PROVE  /\ \A p \in Positions : Used(p) => /\ base[p] \in TableRefs /\ base[p] \in held
                                              /\ base[p][1] \in Nat /\ base[p][2] \in Nat
                                              /\ base[p][1] <= base[p][2] /\ p < live_zero
           /\ \A r \in held : \E p \in Positions : Used(p) /\ base[p] = r
           /\ \A p, q \in Positions : Used(p) /\ Used(q) /\ p < q => base[p][2] < base[q][1]
           /\ live_zero # 0 => live_zero - 1 \in Positions /\ Used(live_zero - 1)
           /\ live_zero \in 0..Places /\ cache_index \in Positions
           /\ Positions \subseteq Int
<1> DEFINE used == {p \in Positions : base[p] # Empty}
<1>1. /\ base \in [Positions -> TableRefs \cup {Empty}]
      /\ live_zero \in 0..Places /\ cache_index \in Positions
      /\ {base[p] : p \in used} = held
      /\ \A p, q \in used : p < q => base[p][2] < base[q][1]
      /\ used \subseteq 0..(live_zero - 1)
      /\ live_zero # 0 => live_zero - 1 \in used
  BY DEF TableInv, TableTypeOK, TableExact
<1>2. \A p \in Positions : Used(p) <=> p \in used
  BY DEF Used
<1> HIDE DEF used
<1>3. ASSUME NEW p \in Positions, Used(p)
      PROVE  /\ base[p] \in TableRefs /\ base[p] \in held
             /\ base[p][1] \in Nat /\ base[p][2] \in Nat
             /\ base[p][1] <= base[p][2] /\ p < live_zero
  <2>1. p \in used /\ base[p] # Empty
    BY <1>2, <1>3 DEF Used
  <2>2. base[p] \in TableRefs /\ base[p] \in held
    BY <1>1, <2>1
  <2>3. p \in 0..(live_zero - 1)
    BY <1>1, <2>1
  <2>4. QED
    BY <1>1, <2>2, <2>3, RefFacts
<1>4. \A r \in held : \E p \in Positions : Used(p) /\ base[p] = r
  <2>1. \A r \in held : \E p \in used : base[p] = r
    BY <1>1
  <2>2. \A p \in used : p \in Positions
    BY DEF used
  <2>3. QED
    BY <1>2, <2>1, <2>2
<1>5. live_zero # 0 => live_zero - 1 \in Positions /\ Used(live_zero - 1)
  BY <1>1 DEF Used, used
<1>6. Positions \subseteq Int
  BY RefFacts
<1>7. QED
  BY <1>1, <1>2, <1>3, <1>4, <1>5, <1>6

\* The nearest reference: used, at or behind the key, with none before it that is.
LEMMA NearestIs ==
    ASSUME TableInv, NEW key \in Int
    PROVE  /\ Nearest(key) \in 0..Places
           /\ Nearest(key) # Places => Used(Nearest(key)) /\ base[Nearest(key)][2] >= key
           /\ \A p \in Positions : Used(p) /\ p < Nearest(key) => base[p][2] < key
<1> DEFINE S == {p \in Positions : base[p] # Empty /\ base[p][2] >= key} \cup {Places}
           n == Nearest(key)
<1>1. S \in SUBSET Nat /\ S # {} /\ S \subseteq 0..Places
  BY RefFacts
<1>2. n = Least(S)
  BY DEF Nearest
<1> HIDE DEF n
<1>3. n \in S /\ \A j \in S : n <= j
  <2> HIDE DEF S
  <2>1. QED
    BY <1>1, <1>2, LeastIs
<1>4. n \in 0..Places /\ (n # Places => Used(n) /\ base[n][2] >= key)
  BY <1>1, <1>3 DEF Used
<1>5. ASSUME NEW p \in Positions, Used(p), p < n
      PROVE  base[p][2] < key
  <2>1. p \notin S /\ base[p][2] \in Nat
    BY <1>1, <1>3, <1>5, TableFacts
  <2>2. ~(base[p][2] >= key)
    BY <1>5, <2>1 DEF Used
  <2>3. QED
    BY <2>1, <2>2
<1>6. QED
  BY <1>4, <1>5 DEF n

\* Wherever it starts, the search ends at the nearest reference.
LEMMA FindIsNearest ==
    ASSUME TableInv, NEW c \in Positions, NEW key \in Int
    PROVE  /\ base_find(c, key) = Nearest(key)
           /\ CacheAfter(c, key) \in Positions
<1> DEFINE from == IF c < live_zero THEN c ELSE IF live_zero = 0 THEN 0 ELSE live_zero - 1
           S == {i \in 1..from : base[i] # Empty /\ base[i][1] <= key}
           b == Back(c, key)
<1>1. from \in Positions /\ from \in Nat
  BY TableFacts, RefFacts
<1>2. S \subseteq Positions /\ S \in SUBSET (0..from)
  <2> HIDE DEF from
  <2>1. QED
    BY <1>1, RefFacts
<1>3. b = IF S = {} THEN 0 ELSE Greatest(S)
  BY DEF Back
<1>4. b \in Positions /\ (b # 0 => Used(b) /\ base[b][1] <= key)
  <2>1. CASE S = {}
    BY <1>3, <2>1, RefFacts
  <2>2. CASE S # {}
    <3> HIDE DEF S, from, b
    <3>1. b \in S
      BY <1>1, <1>2, <1>3, <2>2, GreatestIs
    <3>2. QED
      BY <1>2, <3>1 DEF S, Used
  <2>3. QED
    BY <2>1, <2>2
<1> HIDE DEF b, S, from
<1>5. \A p \in Positions : Used(p) /\ p < b => base[p][2] < key
  <2> SUFFICES ASSUME NEW p \in Positions, Used(p), p < b  PROVE base[p][2] < key
    OBVIOUS
  <2>1. b # 0 /\ p \in Nat /\ b \in Nat
    BY <1>4, RefFacts
  <2>2. Used(b) /\ base[b][1] <= key
    BY <1>4, <2>1
  <2>3. base[p][2] < base[b][1] /\ base[b][1] \in Nat /\ base[p][2] \in Nat
    BY <1>4, <2>2, TableFacts
  <2>4. QED
    BY <2>2, <2>3
<1>6. {i \in b..(Places - 1) : base[i] # Empty /\ base[i][2] >= key}
         = {p \in Positions : base[p] # Empty /\ base[p][2] >= key}
  <2>1. ASSUME NEW p \in Positions, base[p] # Empty, base[p][2] >= key
        PROVE  p \in b..(Places - 1)
    <3>1. ~(p < b)
      <4>1. Used(p) /\ base[p][2] \in Nat
        BY <2>1, TableFacts DEF Used
      <4>2. QED
        BY <1>5, <2>1, <4>1
    <3>2. QED
      BY <1>4, <3>1, RefFacts
  <2>2. b..(Places - 1) \subseteq Positions
    BY <1>4, RefFacts
  <2>3. QED
    BY <2>1, <2>2
<1>7. Hit(c, key) = Nearest(key)
  BY <1>6 DEF Hit, Nearest, b
<1>8. Nearest(key) < live_zero \/ Nearest(key) = Places
  BY NearestIs, TableFacts DEF Used
<1>9. /\ base_find(c, key) = Nearest(key)
      /\ CacheAfter(c, key) \in Positions
  <2> DEFINE n == Nearest(key)
  <2>1. /\ n \in 0..Places /\ (n < live_zero \/ n = Places) /\ live_zero \in 0..Places
    BY <1>8, NearestIs, TableFacts
  <2>2. /\ base_find(c, key) = IF n < live_zero THEN n ELSE Places
        /\ CacheAfter(c, key) = IF n < live_zero THEN n ELSE b
    BY <1>7 DEF base_find, CacheAfter, b
  <2> HIDE DEF n
  <2>3. base_find(c, key) = n
    BY <2>1, <2>2
  <2>4. CacheAfter(c, key) \in Positions
    BY <1>4, <2>1, <2>2, RefFacts
  <2>5. QED
    BY <2>3, <2>4 DEF n
<1>10. QED
  BY <1>9

\* With fewer references than places there is a hole.
LEMMA HoleExists ==
    ASSUME TableInv, Cardinality(held) < Places
    PROVE  \E h \in Positions : base[h] = Empty
<1> SUFFICES ASSUME \A h \in Positions : Used(h)  PROVE FALSE
  BY DEF Used
<1>1. base \in [Positions -> held]
  <2>1. \A p \in Positions : base[p] \in held
    BY TableFacts
  <2>2. base = [p \in Positions |-> base[p]]
    BY DEF TableInv, TableTypeOK
  <2>3. QED
    BY <2>1, <2>2
<1>2. \A p, q \in Positions : base[p] = base[q] => p = q
  <2> SUFFICES ASSUME NEW p \in Positions, NEW q \in Positions, base[p] = base[q], p < q
               PROVE  FALSE
    <3>1. \A p, q \in Positions : p < q \/ q < p \/ p = q
      BY RefFacts
    <3>2. QED
      BY <3>1
  <2>1. base[p][2] < base[q][1] /\ base[q][1] <= base[q][2] /\ base[q][1] \in Nat /\ base[q][2] \in Nat
    BY TableFacts
  <2>2. QED
    BY <2>1
<1>3. \A r \in held : \E p \in Positions : base[p] = r
  BY TableFacts
<1>4. base \in Surjection(Positions, held) /\ base \in Injection(Positions, held)
  BY <1>1, <1>2, <1>3 DEF Surjection, Injection, IsInjective
<1>5. IsFiniteSet(Positions) /\ Cardinality(Positions) = Places
  <2>1. IsFiniteSet(0..(Places - 1)) /\ Cardinality(0..(Places - 1)) = IF 0 > Places - 1 THEN 0 ELSE (Places - 1) - 0 + 1
    BY RefFacts, FS_Interval
  <2>2. QED
    BY <2>1, RefFacts
<1>6. Cardinality(held) = Cardinality(Positions)
  BY <1>4, <1>5, FS_Surjection
<1>7. QED
  BY <1>5, <1>6, RefFacts

\* The nearest hole: none but used places between it and the place to fill.
LEMMA HoleIs ==
    ASSUME TableInv, Cardinality(held) < Places, NEW i \in 0..Places, i # Places => Used(i)
    PROVE  /\ Hole(i) \in Positions /\ base[Hole(i)] = Empty /\ Hole(i) # i
           /\ \A p \in Positions : i <= p /\ p < Hole(i) => Used(p)
<1> DEFINE near(d) == {h \in {i - d, i + d} \cap Positions : base[h] = Empty}
           S == {n \in 1..Places : near(n) # {}}
           d == Least(S)
           h == Hole(i)
<1>1. PICK g \in Positions : base[g] = Empty
  BY HoleExists
<1>2. g # i
  BY <1>1, RefFacts DEF Used
<1>3. S # {} /\ S \in SUBSET Nat
  <2>1. CASE g < i
    <3>1. i - g \in 1..Places /\ i - (i - g) = g
      BY <1>1, <2>1, RefFacts
    <3>2. g \in near(i - g)
      BY <1>1, <3>1
    <3>3. QED
      BY <3>1, <3>2
  <2>2. CASE i < g
    <3>1. g - i \in 1..Places /\ i + (g - i) = g
      BY <1>1, <2>2, RefFacts
    <3>2. g \in near(g - i)
      BY <1>1, <3>1
    <3>3. QED
      BY <3>1, <3>2
  <2>3. QED
    BY <1>1, <1>2, <2>1, <2>2, RefFacts
<1>4. d \in S /\ \A n \in S : d <= n
  <2> HIDE DEF S
  <2>1. QED
    BY <1>3, LeastIs
<1>5. d \in 1..Places /\ near(d) # {}
  BY <1>4
<1>6. h = Least(near(d))
  BY DEF Hole
<1> HIDE DEF d
<1>7. near(d) \in SUBSET Nat
  BY RefFacts
<1>8. h \in near(d)
  <2> HIDE DEF near, h
  <2>1. QED
    BY <1>5, <1>6, <1>7, LeastIs
<1>9. h \in Positions /\ base[h] = Empty /\ (h = i - d \/ h = i + d)
  BY <1>8
<1> HIDE DEF h
<1>10. ASSUME NEW p \in Positions, i <= p, p < h
       PROVE  Used(p)
  <2>1. CASE p = i
    BY <2>1, RefFacts
  <2>2. CASE p # i
    <3>1. h = i + d /\ p - i \in 1..Places /\ p - i < d /\ i + (p - i) = p
      BY <1>5, <1>9, <1>10, <2>2, RefFacts
    <3>2. p - i \notin S
      BY <1>4, <1>5, <3>1
    <3>3. p \notin near(p - i)
      BY <3>1, <3>2
    <3>4. QED
      BY <3>1, <3>3 DEF Used
  <2>3. QED
    BY <2>1, <2>2
<1>11. QED
  BY <1>5, <1>9, <1>10, RefFacts DEF h

\* The array with a reference put in the right place is the array with it.
LEMMA TableBy ==
    ASSUME TableInv, NEW r \in TableRefs, \A q \in held : ~Overlap(q, r),
           held' = held \cup {r},
           base' \in [Positions -> TableRefs \cup {Empty}],
           live_zero' \in 0..Places, cache_index' \in Positions,
           NEW at \in Positions, base'[at] = r,
           NEW src \in [Positions -> Positions],
           \A p \in Positions : p # at => base'[p] = base[src[p]],
           \A p \in Positions : Used(p) => \E q \in Positions : q # at /\ src[q] = p,
           \A p, q \in Positions : p # at /\ q # at /\ p < q => src[p] < src[q],
           \A p \in Positions : p < at /\ Used(src[p]) => base[src[p]][2] < r[1],
           \A p \in Positions : at < p /\ Used(src[p]) => r[2] < base[src[p]][1],
           \A p \in Positions : base'[p] # Empty => p < live_zero',
           live_zero' # 0 => live_zero' - 1 \in Positions /\ base'[live_zero' - 1] # Empty
    PROVE  TableInv'
<1>1. r # Empty
  BY RefFacts
<1>2. held' \subseteq TableRefs
  BY DEF TableInv, TableTypeOK
<1>3. TableTypeOK'
  BY <1>2 DEF TableTypeOK
<1> DEFINE used == {p \in Positions : base'[p] # Empty}
<1>4. {base'[p] : p \in used} = held'
  <2>1. ASSUME NEW p \in used
        PROVE  base'[p] \in held'
    <3>1. CASE p = at
      BY <3>1
    <3>2. CASE p # at
      <4>1. Used(src[p]) /\ base'[p] = base[src[p]]
        BY <2>1, <3>2 DEF Used
      <4>2. QED
        BY <4>1, TableFacts
    <3>3. QED
      BY <3>1, <3>2
  <2>2. ASSUME NEW x \in held'
        PROVE  \E p \in used : base'[p] = x
    <3>1. CASE x = r
      BY <1>1, <3>1
    <3>2. CASE x \in held
      <4>1. PICK p \in Positions : Used(p) /\ base[p] = x
        BY <3>2, TableFacts
      <4>2. PICK q \in Positions : q # at /\ src[q] = p
        BY <4>1
      <4>3. base'[q] = x /\ x # Empty
        BY <4>1, <4>2 DEF Used
      <4>4. QED
        BY <4>2, <4>3
    <3>3. QED
      BY <3>1, <3>2
  <2>3. QED
    BY <2>1, <2>2
<1>5. ASSUME NEW p \in used, NEW q \in used, p < q
      PROVE  base'[p][2] < base'[q][1]
  <2>1. p \in Positions /\ q \in Positions
    OBVIOUS
  <2>2. CASE p = at
    <3>0. q # at /\ base'[q] # Empty
      BY <1>5, <2>1, <2>2, RefFacts
    <3>1. Used(src[q]) /\ base'[q] = base[src[q]]
      BY <2>1, <3>0 DEF Used
    <3>2. QED
      BY <1>5, <2>1, <2>2, <3>1
  <2>3. CASE q = at
    <3>0. p # at /\ base'[p] # Empty
      BY <1>5, <2>1, <2>3, RefFacts
    <3>1. Used(src[p]) /\ base'[p] = base[src[p]]
      BY <2>1, <3>0 DEF Used
    <3>2. QED
      BY <1>5, <2>1, <2>3, <3>1
  <2>4. CASE p # at /\ q # at
    <3>1. /\ Used(src[p]) /\ base'[p] = base[src[p]]
          /\ Used(src[q]) /\ base'[q] = base[src[q]]
      BY <2>1, <2>4 DEF Used
    <3>2. src[p] < src[q] /\ src[p] \in Positions /\ src[q] \in Positions
      BY <1>5, <2>1, <2>4, <3>1 DEF Used
    <3>3. QED
      BY <3>1, <3>2, TableFacts
  <2>5. QED
    BY <2>2, <2>3, <2>4
<1>6. used \subseteq 0..(live_zero' - 1)
  BY RefFacts
<1>7. live_zero' # 0 => live_zero' - 1 \in used
  OBVIOUS
<1>8. TableExact'
  BY <1>4, <1>5, <1>6, <1>7 DEF TableExact
<1>9. QED
  BY <1>3, <1>8 DEF TableInv

\* hammer2_base_insert loses and disorders nothing.
LEMMA InsertKeeps ==
    ASSUME TableInv, NEW r \in TableRefs, base_insert(r)
    PROVE  TableInv'
<1> DEFINE i == base_find(cache_index, r[1])
<1>1. /\ \A q \in held : ~Overlap(q, r)
      /\ Cardinality(held) < Places
      /\ held' = held \cup {r}
      /\ cache_index' = CacheAfter(cache_index, r[1])
      /\ IF i = Places /\ live_zero < Places
         THEN base' = [base EXCEPT ![live_zero] = r] /\ live_zero' = live_zero + 1
         ELSE /\ base' = Place(i, Hole(i), r)
              /\ live_zero' = IF Hole(i) > i THEN Zero(Hole(i)) ELSE live_zero
  BY DEF base_insert
<1>2. r[1] \in Nat /\ r[2] \in Nat /\ r[1] <= r[2] /\ cache_index \in Positions /\ r # Empty
  BY TableFacts, RefFacts
<1>3. i = Nearest(r[1]) /\ cache_index' \in Positions
  BY <1>1, <1>2, FindIsNearest
<1> HIDE DEF i
<1>4. /\ i \in 0..Places /\ (i # Places => Used(i) /\ base[i][2] >= r[1])
      /\ \A p \in Positions : Used(p) /\ p < i => base[p][2] < r[1]
  BY <1>2, <1>3, NearestIs
<1>5. base \in [Positions -> TableRefs \cup {Empty}] /\ live_zero \in 0..Places /\ Places \in Nat
      /\ Positions = 0..(Places - 1)
  BY TableFacts, RefFacts DEF TableInv, TableTypeOK
<1>6. \A p \in Positions : Used(p) /\ i <= p => r[2] < base[p][1]
  <2> SUFFICES ASSUME NEW p \in Positions, Used(p), i <= p  PROVE r[2] < base[p][1]
    OBVIOUS
  <2>1. i \in Positions /\ Used(i) /\ base[i][2] >= r[1]
    BY <1>4, <1>5
  <2>2. base[i] \in held /\ base[i][1] \in Nat /\ base[i][2] \in Nat
    BY <2>1, TableFacts
  <2>3. r[2] < base[i][1]
    BY <1>1, <1>2, <2>1, <2>2 DEF Overlap
  <2>4. CASE p = i
    BY <2>3, <2>4
  <2>5. CASE p # i
    <3>1. i < p
      BY <1>4, <1>5, <2>5
    <3>2. base[i][2] < base[p][1] /\ base[i][1] <= base[i][2] /\ base[p][1] \in Nat
      BY <2>1, <3>1, TableFacts
    <3>3. QED
      BY <1>2, <2>2, <2>3, <3>2
  <2>6. QED
    BY <2>4, <2>5
<1>7. CASE i = Places /\ live_zero < Places
  <2> DEFINE src == [p \in Positions |-> p]
             at == live_zero
  <2>1. base' = [base EXCEPT ![at] = r] /\ live_zero' = live_zero + 1 /\ at \in Positions
    BY <1>1, <1>5, <1>7
  <2>2. /\ base' \in [Positions -> TableRefs \cup {Empty}] /\ base'[at] = r
        /\ \A p \in Positions : p # at => base'[p] = base[p]
    BY <1>5, <2>1
  <2>3. src \in [Positions -> Positions] /\ \A p \in Positions : src[p] = p
    OBVIOUS
  <2>4. \A p \in Positions : Used(p) => p < at
    BY TableFacts
  <2> HIDE DEF src
  <2>5. \A p \in Positions : base'[p] # Empty => p < live_zero'
    <3> SUFFICES ASSUME NEW p \in Positions, base'[p] # Empty  PROVE p < live_zero'
      OBVIOUS
    <3>1. p = at \/ Used(p)
      BY <2>2 DEF Used
    <3>2. QED
      BY <1>5, <2>1, <2>4, <3>1
  <2>6. live_zero' - 1 = at /\ live_zero' \in 0..Places /\ base'[at] # Empty
    BY <1>2, <1>5, <1>7, <2>1, <2>2
  <2>7. \A p \in Positions : p < at /\ Used(src[p]) => base[src[p]][2] < r[1]
    <3>1. \A p \in Positions : p < Places
      BY <1>5
    <3>2. QED
      BY <1>4, <1>7, <2>3, <3>1
  <2>8. \A p \in Positions : at < p /\ Used(src[p]) => r[2] < base[src[p]][1]
    <3>1. \A p \in Positions : at < p => ~(p < at)
      BY <1>5
    <3>2. QED
      BY <2>3, <2>4, <3>1
  <2>9. \A p \in Positions : Used(p) => \E q \in Positions : q # at /\ src[q] = p
    <3>1. at \notin {p \in Positions : p < at}
      BY <1>5
    <3>2. QED
      BY <2>3, <2>4, <3>1
  <2>10. \A p \in Positions : p # at => base'[p] = base[src[p]]
    BY <2>2, <2>3
  <2>11. \A p, q \in Positions : p # at /\ q # at /\ p < q => src[p] < src[q]
    BY <2>3
  <2> HIDE DEF at
  <2>12. QED
    BY <1>1, <1>3, <2>1, <2>2, <2>3, <2>5, <2>6, <2>7, <2>8, <2>9, <2>10, <2>11, TableBy
<1>8. CASE ~(i = Places /\ live_zero < Places)
  <2> DEFINE h == Hole(i)
  <2>1. /\ h \in Positions /\ base[h] = Empty /\ h # i
        /\ \A p \in Positions : i <= p /\ p < h => Used(p)
    BY <1>1, <1>4, HoleIs
  <2>2. base' = Place(i, h, r) /\ live_zero' = IF h > i THEN Zero(h) ELSE live_zero
    BY <1>1, <1>8
  <2>3. /\ \A p \in Positions : Used(p) => p < live_zero
        /\ live_zero # 0 => live_zero - 1 \in Positions /\ Used(live_zero - 1)
    BY TableFacts
  <2>4. i <= live_zero
    BY <1>4, <1>5, <1>8, <2>3
  <2> HIDE DEF h
  <2>5. CASE h < i
    <3> DEFINE at == i - 1
               src == [p \in Positions |-> IF p \in h..(i - 2) THEN p + 1 ELSE p]
    <3>1. at \in Positions /\ h <= at
      BY <1>4, <1>5, <2>1, <2>5
    <3>2. /\ src \in [Positions -> Positions]
          /\ \A p \in Positions : p < h \/ at < p => src[p] = p
          /\ \A p \in Positions : h <= p /\ p < at => src[p] = p + 1
      BY <1>4, <1>5, <2>1, <2>5
    <3>3. /\ base'[at] = r
          /\ \A p \in Positions : p # at => base'[p] = base[src[p]]
      <4>1. \A p \in Positions : base'[p] =
               CASE h < i /\ p \in h..(i - 2) -> base[p + 1]
                 [] h < i /\ p = i - 1 -> r
                 [] h > i /\ p \in (i + 1)..h -> base[p - 1]
                 [] h > i /\ p = i -> r
                 [] OTHER -> base[p]
        BY <2>2 DEF Place
      <4>2. ~(h > i)
        BY <1>4, <1>5, <2>1, <2>5
      <4>3. i - 1 \notin h..(i - 2)
        BY <1>4, <1>5
      <4>4. \A p \in Positions : base'[p] = IF p \in h..(i - 2) THEN base[p + 1]
                                           ELSE IF p = i - 1 THEN r ELSE base[p]
        BY <2>5, <4>1, <4>2, <4>3
      <4>5. QED
        BY <3>1, <4>3, <4>4
    <3>4. base' \in [Positions -> TableRefs \cup {Empty}]
      <4>1. \A p \in Positions : base'[p] \in TableRefs \cup {Empty}
        BY <1>5, <3>2, <3>3
      <4>2. base' = [p \in Positions |-> base'[p]]
        BY <2>2 DEF Place
      <4>3. QED
        BY <4>1, <4>2
    <3> HIDE DEF src
    <3>5. \A p \in Positions : Used(p) => \E q \in Positions : q # at /\ src[q] = p
      <4> SUFFICES ASSUME NEW p \in Positions, Used(p)
                   PROVE  \E q \in Positions : q # at /\ src[q] = p
        OBVIOUS
      <4>1. p # h
        BY <2>1 DEF Used
      <4>2. CASE p < h \/ at < p
        <5>1. p # at
          BY <1>5, <2>1, <3>1, <4>2
        <5>2. src[p] = p
          BY <3>2, <4>2
        <5>3. QED
          BY <5>1, <5>2
      <4>3. CASE h < p /\ p <= at
        <5>1. p - 1 \in Positions /\ h <= p - 1 /\ p - 1 < at /\ (p - 1) + 1 = p
          BY <1>5, <2>1, <3>1, <4>3
        <5>2. src[p - 1] = p /\ p - 1 # at
          BY <1>5, <3>1, <3>2, <5>1
        <5>3. QED
          BY <5>1, <5>2
      <4>4. QED
        BY <1>5, <2>1, <3>1, <4>1, <4>2, <4>3
    <3>6. \A p, q \in Positions : p # at /\ q # at /\ p < q => src[p] < src[q]
      <4> SUFFICES ASSUME NEW p \in Positions, NEW q \in Positions, p # at, q # at, p < q
                   PROVE  src[p] < src[q]
        OBVIOUS
      <4>1. /\ p < h \/ at < p \/ (h <= p /\ p < at)
            /\ q < h \/ at < q \/ (h <= q /\ q < at)
        BY <1>5, <2>1, <3>1
      <4>2. \/ src[p] = p /\ (p < h \/ at < p)
            \/ src[p] = p + 1 /\ h <= p /\ p < at
        BY <3>2, <4>1
      <4>3. \/ src[q] = q /\ (q < h \/ at < q)
            \/ src[q] = q + 1 /\ h <= q /\ q < at
        BY <3>2, <4>1
      <4>4. p \in Int /\ q \in Int /\ h \in Int /\ at \in Int
        BY <1>5, <2>1, <3>1
      <4>5. QED
        BY <4>2, <4>3, <4>4
    <3>7. \A p \in Positions : p < at /\ Used(src[p]) => base[src[p]][2] < r[1]
      <4> SUFFICES ASSUME NEW p \in Positions, p < at  PROVE src[p] \in Positions /\ src[p] < i
        BY <1>4
      <4>1. p < h \/ h <= p
        BY <1>5, <2>1
      <4>2. (src[p] = p \/ src[p] = p + 1) /\ src[p] \in Positions
        BY <3>2, <4>1
      <4>3. p \in Int /\ i \in Int /\ p + 1 <= at /\ at < i
        BY <1>4, <1>5
      <4>4. QED
        BY <4>2, <4>3
    <3>8. \A p \in Positions : at < p /\ Used(src[p]) => r[2] < base[src[p]][1]
      <4>1. \A p \in Positions : at < p => i <= p
        BY <1>4, <1>5
      <4>2. QED
        BY <1>6, <3>2, <4>1
    <3>9. live_zero' = live_zero
      BY <1>4, <1>5, <2>1, <2>2, <2>5
    <3>10. \A p \in Positions : base'[p] # Empty => p < live_zero'
      <4> SUFFICES ASSUME NEW p \in Positions, base'[p] # Empty  PROVE p < live_zero
        BY <3>9
      <4>1. CASE p = at
        BY <1>4, <1>5, <2>4, <4>1
      <4>2. CASE p # at
        <5>1. src[p] \in Positions /\ src[p] < live_zero
          BY <2>3, <3>2, <3>3, <4>2 DEF Used
        <5>2. p < h \/ at < p \/ (h <= p /\ p < at)
          BY <1>5, <2>1, <3>1, <4>2
        <5>3. p <= src[p]
          BY <1>5, <3>2, <5>2
        <5>4. QED
          BY <1>5, <5>1, <5>3
      <4>3. QED
        BY <4>1, <4>2
    <3>11. live_zero' # 0 => live_zero' - 1 \in Positions /\ base'[live_zero' - 1] # Empty
      <4> SUFFICES ASSUME live_zero # 0  PROVE base'[live_zero - 1] # Empty
        BY <2>3, <3>9
      <4>1. live_zero - 1 \in Positions /\ Used(live_zero - 1)
        BY <2>3
      <4>2. CASE live_zero - 1 = at
        BY <1>2, <3>3, <4>2
      <4>3. CASE live_zero - 1 # at
        <5>1. at < live_zero - 1
          BY <1>4, <1>5, <2>4, <4>3
        <5>2. src[live_zero - 1] = live_zero - 1
          BY <3>2, <4>1, <5>1
        <5>3. QED
          BY <3>3, <4>1, <4>3, <5>2 DEF Used
      <4>4. QED
        BY <4>2, <4>3
    <3> HIDE DEF at
    <3>12. live_zero' \in 0..Places
      BY <1>5, <3>9
    <3>13. QED
      BY <1>1, <1>3, <3>1, <3>2, <3>3, <3>4, <3>5, <3>6, <3>7, <3>8, <3>10, <3>11, <3>12,
         TableBy
  <2>6. CASE i < h
    <3> DEFINE src == [p \in Positions |-> IF p \in (i + 1)..h THEN p - 1 ELSE p]
    <3>1. i \in Positions /\ Used(i)
      BY <1>4, <1>5, <2>1, <2>6
    <3>2. /\ src \in [Positions -> Positions]
          /\ \A p \in Positions : p < i \/ h < p => src[p] = p
          /\ \A p \in Positions : i < p /\ p <= h => src[p] = p - 1
      BY <1>4, <1>5, <2>1, <2>6
    <3>3. /\ base'[i] = r
          /\ \A p \in Positions : p # i => base'[p] = base[src[p]]
      <4>1. \A p \in Positions : base'[p] =
               CASE h < i /\ p \in h..(i - 2) -> base[p + 1]
                 [] h < i /\ p = i - 1 -> r
                 [] h > i /\ p \in (i + 1)..h -> base[p - 1]
                 [] h > i /\ p = i -> r
                 [] OTHER -> base[p]
        BY <2>2 DEF Place
      <4>2. ~(h < i) /\ h > i
        BY <1>4, <1>5, <2>1, <2>6
      <4>3. i \notin (i + 1)..h
        BY <1>4, <1>5
      <4>4. \A p \in Positions : base'[p] = IF p \in (i + 1)..h THEN base[p - 1]
                                           ELSE IF p = i THEN r ELSE base[p]
        BY <4>1, <4>2, <4>3
      <4>5. QED
        BY <3>1, <4>3, <4>4
    <3>4. base' \in [Positions -> TableRefs \cup {Empty}]
      <4>1. \A p \in Positions : base'[p] \in TableRefs \cup {Empty}
        BY <1>5, <3>2, <3>3
      <4>2. base' = [p \in Positions |-> base'[p]]
        BY <2>2 DEF Place
      <4>3. QED
        BY <4>1, <4>2
    <3> HIDE DEF src
    <3>5. \A p \in Positions : Used(p) => \E q \in Positions : q # i /\ src[q] = p
      <4> SUFFICES ASSUME NEW p \in Positions, Used(p)
                   PROVE  \E q \in Positions : q # i /\ src[q] = p
        OBVIOUS
      <4>1. p # h
        BY <2>1 DEF Used
      <4>2. CASE p < i \/ h < p
        <5>1. p # i
          BY <1>5, <2>1, <2>6, <3>1, <4>2
        <5>2. src[p] = p
          BY <3>2, <4>2
        <5>3. QED
          BY <5>1, <5>2
      <4>3. CASE i <= p /\ p < h
        <5>1. p + 1 \in Positions /\ i < p + 1 /\ p + 1 <= h /\ (p + 1) - 1 = p
          BY <1>5, <2>1, <3>1, <4>3
        <5>2. src[p + 1] = p /\ p + 1 # i
          BY <1>5, <3>1, <3>2, <5>1
        <5>3. QED
          BY <5>1, <5>2
      <4>4. QED
        BY <1>5, <2>1, <3>1, <4>1, <4>2, <4>3
    <3>6. \A p, q \in Positions : p # i /\ q # i /\ p < q => src[p] < src[q]
      <4> SUFFICES ASSUME NEW p \in Positions, NEW q \in Positions, p # i, q # i, p < q
                   PROVE  src[p] < src[q]
        OBVIOUS
      <4>1. /\ p < i \/ h < p \/ (i < p /\ p <= h)
            /\ q < i \/ h < q \/ (i < q /\ q <= h)
        BY <1>5, <2>1, <3>1
      <4>2. \/ src[p] = p /\ (p < i \/ h < p)
            \/ src[p] = p - 1 /\ i < p /\ p <= h
        BY <3>2, <4>1
      <4>3. \/ src[q] = q /\ (q < i \/ h < q)
            \/ src[q] = q - 1 /\ i < q /\ q <= h
        BY <3>2, <4>1
      <4>4. p \in Int /\ q \in Int /\ h \in Int /\ i \in Int
        BY <1>5, <2>1, <3>1
      <4>5. QED
        BY <4>2, <4>3, <4>4
    <3>7. \A p \in Positions : p < i /\ Used(src[p]) => base[src[p]][2] < r[1]
      BY <1>4, <3>2
    <3>8. \A p \in Positions : i < p /\ Used(src[p]) => r[2] < base[src[p]][1]
      <4> SUFFICES ASSUME NEW p \in Positions, i < p  PROVE src[p] \in Positions /\ i <= src[p]
        BY <1>6
      <4>1. h < p \/ p <= h
        BY <1>5, <2>1
      <4>2. QED
        BY <1>5, <3>1, <3>2, <4>1
    <3>9. live_zero' = IF live_zero <= h THEN h + 1 ELSE live_zero
      BY <1>5, <2>1, <2>2, <2>6, <3>1 DEF Zero
    <3>10. \A p \in Positions : base'[p] # Empty => p < live_zero'
      <4> SUFFICES ASSUME NEW p \in Positions, base'[p] # Empty  PROVE p < live_zero'
        OBVIOUS
      <4>1. h < live_zero' /\ i < live_zero' /\ live_zero <= live_zero'
        BY <1>5, <2>1, <2>6, <3>1, <3>9
      <4>2. CASE p <= h
        BY <1>5, <2>1, <3>9, <4>1, <4>2
      <4>3. CASE h < p
        <5>1. p # i /\ src[p] = p
          BY <1>5, <2>1, <2>6, <3>1, <3>2, <4>3
        <5>2. p < live_zero
          BY <2>3, <3>3, <5>1 DEF Used
        <5>3. QED
          BY <1>5, <3>9, <4>1, <5>2
      <4>4. QED
        BY <1>5, <2>1, <4>2, <4>3
    <3>11. live_zero' # 0 => live_zero' - 1 \in Positions /\ base'[live_zero' - 1] # Empty
      <4>1. CASE live_zero <= h
        <5>1. live_zero' - 1 = h
          BY <1>5, <2>1, <3>9, <4>1
        <5>2. h - 1 \in Positions /\ i <= h - 1 /\ h - 1 < h /\ i < h /\ h <= h
          BY <1>5, <2>1, <2>6, <3>1
        <5>3. Used(h - 1) /\ src[h] = h - 1
          BY <2>1, <3>2, <5>2
        <5>4. base'[h] # Empty
          BY <2>1, <3>3, <5>3 DEF Used
        <5>5. QED
          BY <2>1, <5>1, <5>4
      <4>2. CASE ~(live_zero <= h)
        <5>1. live_zero' = live_zero /\ live_zero - 1 \in Positions /\ Used(live_zero - 1)
          BY <1>5, <2>1, <2>3, <3>9, <4>2
        <5>2. live_zero - 1 # h
          BY <2>1, <5>1 DEF Used
        <5>3. h < live_zero - 1 /\ i # live_zero - 1
          BY <1>5, <2>1, <2>6, <3>1, <4>2, <5>2
        <5>4. src[live_zero - 1] = live_zero - 1
          BY <3>2, <5>1, <5>3
        <5>5. QED
          BY <3>3, <5>1, <5>3, <5>4 DEF Used
      <4>3. QED
        BY <4>1, <4>2
    <3>12. live_zero' \in 0..Places
      BY <1>5, <2>1, <3>9
    <3>13. QED
      BY <1>1, <1>3, <3>1, <3>2, <3>3, <3>4, <3>5, <3>6, <3>7, <3>8, <3>10, <3>11, <3>12,
         TableBy
  <2>7. QED
    BY <1>4, <1>5, <2>1, <2>5, <2>6
<1>9. QED
  BY <1>7, <1>8

\* hammer2_base_delete takes out the reference asked for, and no other.
LEMMA DeleteKeeps ==
    ASSUME TableInv, NEW r \in TableRefs, base_delete(r)
    PROVE  TableInv'
<1> DEFINE i == base_find(cache_index, r[1])
           u == {p \in 0..(i - 1) : base[p] # Empty}
           used == {p \in Positions : base'[p] # Empty}
<1>1. /\ r \in held
      /\ base' = [base EXCEPT ![i] = Empty]
      /\ live_zero' = IF live_zero # i + 1 THEN live_zero
                      ELSE IF u = {} THEN 0 ELSE Greatest(u) + 1
      /\ cache_index' = CacheAfter(cache_index, r[1])
      /\ held' = held \ {r}
  BY DEF base_delete
<1>2. r[1] \in Nat /\ r[2] \in Nat /\ r[1] <= r[2] /\ cache_index \in Positions
  BY TableFacts, RefFacts
<1>3. i = Nearest(r[1]) /\ cache_index' \in Positions
  BY <1>1, <1>2, FindIsNearest
<1> HIDE DEF i
<1>4. /\ i \in 0..Places /\ (i # Places => Used(i) /\ base[i][2] >= r[1])
      /\ \A p \in Positions : Used(p) /\ p < i => base[p][2] < r[1]
  BY <1>2, <1>3, NearestIs
<1>5. base \in [Positions -> TableRefs \cup {Empty}] /\ live_zero \in 0..Places /\ Places \in Nat
      /\ Positions = 0..(Places - 1) /\ held \subseteq TableRefs
  BY TableFacts, RefFacts DEF TableInv, TableTypeOK
<1>6. i \in Positions /\ Used(i) /\ base[i] = r
  <2>1. PICK p \in Positions : Used(p) /\ base[p] = r
    BY <1>1, TableFacts
  <2>2. ~(p < i)
    BY <1>2, <1>4, <2>1
  <2>3. i \in Positions /\ Used(i) /\ base[i][2] >= r[1] /\ base[i][2] \in Nat
    BY <1>4, <1>5, <2>1, <2>2, TableFacts
  <2>4. ~(i < p)
    <3>1. i < p => base[i][2] < r[1]
      BY <2>1, <2>3, TableFacts
    <3>2. QED
      BY <1>2, <2>3, <3>1
  <2>5. QED
    BY <1>5, <2>1, <2>2, <2>3, <2>4
<1>7. /\ base'[i] = Empty /\ \A p \in Positions : p # i => base'[p] = base[p]
      /\ base' \in [Positions -> TableRefs \cup {Empty}]
  BY <1>1, <1>5, <1>6
<1>8. \A p \in Positions : p \in used <=> Used(p) /\ p # i
  BY <1>7 DEF Used
<1>9. used \subseteq Positions
  OBVIOUS
<1>10. /\ live_zero' \in 0..Places /\ used \subseteq 0..(live_zero' - 1)
       /\ live_zero' # 0 => live_zero' - 1 \in used
  <2>1. CASE live_zero # i + 1
    <3>1. live_zero' = live_zero
      BY <1>1, <2>1
    <3>2. \A p \in Positions : Used(p) => p < live_zero
      BY TableFacts
    <3>3. live_zero # 0 => live_zero - 1 \in Positions /\ Used(live_zero - 1) /\ live_zero - 1 # i
      BY <1>5, <1>6, <2>1, TableFacts
    <3> HIDE DEF used
    <3>4. used \subseteq 0..(live_zero - 1)
      BY <1>5, <1>8, <1>9, <3>2
    <3>5. QED
      BY <1>5, <1>8, <3>1, <3>3, <3>4
  <2>2. CASE live_zero = i + 1
    <3>1. \A p \in Positions : Used(p) /\ p # i => p \in u
      <4>1. \A p \in Positions : Used(p) => p < live_zero
        BY TableFacts
      <4>2. QED
        BY <1>5, <1>6, <2>2, <4>1 DEF Used
    <3>2. \A p \in u : p \in Positions /\ Used(p) /\ p # i
      BY <1>5, <1>6 DEF Used
    <3>3. used = u
      <4> HIDE DEF used, u
      <4>1. \A p \in u : p \in used
        BY <1>8, <3>2
      <4>2. \A p \in used : p \in u
        BY <1>8, <1>9, <3>1
      <4>3. QED
        BY <4>1, <4>2
    <3>4. u \in SUBSET (0..i) /\ i \in Nat /\ u \subseteq 0..(i - 1) /\ i + 1 <= Places
      BY <1>5, <1>6
    <3>5. live_zero' = IF u = {} THEN 0 ELSE Greatest(u) + 1
      BY <1>1, <2>2
    <3>6. CASE u = {}
      BY <1>5, <3>3, <3>5, <3>6
    <3>7. CASE u # {}
      <4> HIDE DEF used, u
      <4>1. Greatest(u) \in u /\ \A j \in u : j <= Greatest(u)
        BY <3>4, <3>7, GreatestIs
      <4>2. PICK g \in u : g = Greatest(u) /\ \A j \in u : j <= g
        BY <4>1
      <4>3. live_zero' = g + 1 /\ g \in 0..(i - 1)
        BY <3>4, <3>5, <3>7, <4>2
      <4>4. \A j \in u : j \in 0..g
        BY <3>4, <4>2
      <4>5. QED
        BY <1>5, <3>3, <3>4, <4>2, <4>3, <4>4
    <3>8. QED
      BY <3>6, <3>7
  <2>3. QED
    BY <2>1, <2>2
<1>11. TableTypeOK'
  BY <1>1, <1>3, <1>5, <1>7, <1>10 DEF TableTypeOK
<1>12. {base'[p] : p \in used} = held'
  <2>1. ASSUME NEW p \in used
        PROVE  base'[p] \in held'
    <3>1. Used(p) /\ p # i /\ base'[p] = base[p] /\ p \in Positions
      BY <1>7, <1>8
    <3>2. base[p] \in held
      BY <3>1, TableFacts
    <3>3. base[p] # r
      <4>1. p < i \/ i < p
        BY <1>5, <1>6, <3>1
      <4>2. /\ p < i => base[p][2] < base[i][1]
            /\ i < p => base[i][2] < base[p][1]
            /\ base[p][1] \in Nat /\ base[p][2] \in Nat /\ base[p][1] <= base[p][2]
        BY <1>6, <3>1, TableFacts
      <4>3. QED
        BY <1>2, <1>6, <4>1, <4>2
    <3>4. QED
      BY <1>1, <3>1, <3>2, <3>3
  <2>2. ASSUME NEW x \in held'
        PROVE  \E p \in used : base'[p] = x
    <3>1. x \in held /\ x # r
      BY <1>1, <2>2
    <3>2. PICK p \in Positions : Used(p) /\ base[p] = x
      BY <3>1, TableFacts
    <3>3. p # i
      BY <1>6, <3>1, <3>2
    <3>4. QED
      BY <1>7, <1>8, <3>2, <3>3
  <2>3. QED
    BY <2>1, <2>2
<1>13. \A p, q \in used : p < q => base'[p][2] < base'[q][1]
  BY <1>7, <1>8, TableFacts
<1>14. TableExact'
  BY <1>10, <1>12, <1>13 DEF TableExact
<1>15. QED
  BY <1>11, <1>14 DEF TableInv

\* A search, and the loading of the array again, change none of it.
LEMMA TableRests ==
    ASSUME TableInv, \/ \E r \in TableRefs : find(r[1])
                     \/ countbrefs
                     \/ UNCHANGED tableVars
    PROVE  TableInv'
<1>1. CASE \E r \in TableRefs : find(r[1])
  <2>1. PICK r \in TableRefs : find(r[1])
    BY <1>1
  <2>2. CacheAfter(cache_index, r[1]) \in Positions
    <3>1. r[1] \in Int /\ cache_index \in Positions
      BY RefFacts, TableFacts
    <3>2. QED
      BY <3>1, FindIsNearest
  <2>3. cache_index' \in Positions /\ UNCHANGED <<base, live_zero, held>>
    BY <2>1, <2>2 DEF find
  <2>4. QED
    BY <2>3 DEF TableInv, TableTypeOK, TableExact
<1>2. CASE countbrefs
  <2> DEFINE used == {p \in Positions : base[p] # Empty}
  <2>1. /\ live_zero' = IF used = {} THEN 0 ELSE Greatest(used) + 1
        /\ cache_index' = 0 /\ UNCHANGED <<base, held>>
    BY <1>2 DEF countbrefs
  <2>2. /\ \A p \in used : p \in Positions /\ p < live_zero
        /\ live_zero # 0 => live_zero - 1 \in used
        /\ live_zero \in 0..Places
    BY TableFacts DEF Used
  <2>3. live_zero' = live_zero
    <3>1. CASE live_zero = 0
      <4>1. used = {}
        BY <2>2, <3>1, RefFacts
      <4>2. QED
        BY <2>1, <3>1, <4>1
    <3>2. CASE live_zero # 0
      <4> HIDE DEF used
      <4>1. used # {} /\ used \in SUBSET (0..Places) /\ Places \in Nat
        BY <2>2, <3>2, RefFacts
      <4>2. PICK g \in used : g = Greatest(used) /\ \A j \in used : j <= g
        BY <4>1, GreatestIs
      <4>3. g = live_zero - 1
        BY <2>2, <3>2, <4>1, <4>2
      <4>4. QED
        BY <2>1, <2>2, <4>1, <4>2, <4>3
    <3>3. QED
      BY <3>1, <3>2
  <2>4. 0 \in Positions
    BY RefFacts
  <2>5. QED
    BY <2>1, <2>3, <2>4 DEF TableInv, TableTypeOK, TableExact
<1>3. CASE UNCHANGED tableVars
  BY <1>3 DEF tableVars, TableInv, TableTypeOK, TableExact
<1>4. QED
  BY <1>1, <1>2, <1>3

\* The block array keeps exactly the references put in and not taken out, sorted,
\* and each search finds the nearest one, wherever the last one ended.
THEOREM TablesAreSound == TableSpec => []TableSound
<1>1. TableInit => TableInv
  <2> SUFFICES ASSUME TableInit  PROVE TableInv
    OBVIOUS
  <2>1. TableTypeOK
    BY RefFacts DEF TableInit, TableTypeOK
  <2>2. {p \in Positions : base[p] # Empty} = {}
    BY DEF TableInit
  <2>3. TableExact
    BY <2>2 DEF TableInit, TableExact
  <2>4. QED
    BY <2>1, <2>3 DEF TableInv
<1>2. TableInv /\ [TableNext]_tableVars => TableInv'
  BY InsertKeeps, DeleteKeeps, TableRests DEF TableNext
<1>3. TableInv => TableSound
  <2> SUFFICES ASSUME TableInv, NEW c \in Positions, NEW k \in {r[1] : r \in TableRefs}
               PROVE  base_find(c, k) =
                         Least({p \in Positions : base[p] # Empty /\ base[p][2] >= k}
                                   \cup {Places})
    BY DEF TableSound, TableInv, FindsNearest
  <2>1. k \in Int
    BY RefFacts
  <2>2. base_find(c, k) = Nearest(k)
    BY <2>1, FindIsNearest
  <2>3. QED
    BY <2>2 DEF Nearest
<1>4. QED
  BY <1>1, <1>2, <1>3, PTL DEF TableSpec

-----------------------------------------------------------------------------
(* The data of files.                                                        *)

\* The function g with v for f.
With(g, f, v) == [g EXCEPT ![f] = v]

\* Only files with check codes, or only files without: what dedup has recorded
\* is never written in place.
NoMix == CheckNone \in {{}, Files}

\* What a file's parts hold: inode, chains, buffers, last writes, media.
FileTyped(f, p, c, bf, w) ==
    /\ p \in [size : Nat, direct : BOOLEAN, data : Data] /\ p.size <= SizeMax[f]
    /\ c \in [Blocks(f) -> [off : Offs \cup {0}, method : Methods,
                            modified : BOOLEAN, dedupable : BOOLEAN]]
    /\ bf \in [Blocks(f) -> [data : Data, st : {"none", "clean", "dirty"}]]
    /\ w \in [Units(f) -> Values \cup {0, Cut}]
Fetched(c, b, m) == IF c[b].off = 0 THEN Zeros ELSE decompress(m[c[b].off], c[b].method)
Stored(p, c, b, m) == IF p.direct /\ b = 0 THEN p.data ELSE Fetched(c, b, m)
DirectOK(f, p, c, bf) ==
    p.direct => /\ p.size <= Embedded
                /\ \A b \in Blocks(f) : c[b].off = 0 /\ (b # 0 => bf[b].st = "none")
BeyondOK(f, p, w) == \A u \in Units(f) : u >= p.size => w[u] \in {0, Cut}
MethodOK(f, c, m) ==
    \A b \in Blocks(f) : c[b].off # 0 => m[c[b].off].method = c[b].method
UnitOK(p, c, bf, w, m, u) ==
    LET b == BlockOf(u)  i == u % BlockSize IN
    w[u] # Cut => /\ bf[b].st # "none" => bf[b].data[i] = w[u]
                  /\ bf[b].st # "dirty" => Stored(p, c, b, m)[i] = w[u]
ContentOK(f, p, c, bf, w, m) == \A u \in Units(f) : UnitOK(p, c, bf, w, m, u)
FileOK(f, p, c, bf, w, m) ==
    /\ FileTyped(f, p, c, bf, w)
    /\ DirectOK(f, p, c, bf) /\ BeyondOK(f, p, w) /\ MethodOK(f, c, m)
    /\ ContentOK(f, p, c, bf, w, m)
Packet == [method : Methods, data : Data]

\* A unit lies in one block, at one place.
LEMMA UnitFacts ==
    ASSUME NEW f \in Files, NEW u \in Units(f)
    PROVE  /\ u \in Nat /\ u < SizeMax[f]
           /\ BlockOf(u) \in Blocks(f) /\ u % BlockSize \in 0 .. BlockSize - 1
           /\ BlockOf(u) \in Nat
           /\ u = BlockOf(u) * BlockSize + (u % BlockSize)
<1>1. SizeMax[f] \in Nat /\ BlockSize \in Nat \ {0}
  BY FileAssumption
<1>2. u \in Nat /\ u < SizeMax[f]
  BY <1>1 DEF Units
<1> DEFINE S == SizeMax[f]  B == BlockSize
<1>3. S \in Nat /\ B \in Nat \ {0} /\ u < S
  BY <1>1, <1>2
<1> HIDE DEF S, B
<1>4. u \div B \in Nat /\ u % B \in 0 .. B - 1 /\ u = (u \div B) * B + (u % B)
  BY <1>2, <1>3
<1>5. u \div B <= (S + B - 1) \div B - 1
  BY <1>2, <1>3
<1>6. (S + B - 1) \div B \in Int
  BY <1>3
<1>7. u \div B \in 0 .. (S + B - 1) \div B - 1
  BY <1>4, <1>5, <1>6
<1>8. QED
  BY <1>2, <1>4, <1>7 DEF S, B, BlockOf, Blocks

\* A block beyond the first lies beyond what an inode can embed.
LEMMA BlockFacts ==
    ASSUME NEW f \in Files, NEW b \in Blocks(f)
    PROVE  b \in Nat /\ b * BlockSize \in Nat /\ (b # 0 => BlockSize <= b * BlockSize)
<1>1. SizeMax[f] \in Nat /\ BlockSize \in Nat \ {0}
  BY FileAssumption
<1>2. b \in Nat
  BY <1>1 DEF Blocks
<1>3. QED
  BY <1>1, <1>2

\* Everything a read may return has the shape of a block.
LEMMA StoredIsData ==
    ASSUME NEW f \in Files, NEW p, NEW c, NEW bf, NEW w, NEW m \in [Offs -> Packet],
           FileOK(f, p, c, bf, w, m), NEW b \in Blocks(f)
    PROVE  Zeros \in Data /\ p.data \in Data /\ Fetched(c, b, m) \in Data
           /\ Stored(p, c, b, m) \in Data
<1>1. Zeros \in Data
  BY DEF Zeros, Data
<1>2. p.data \in Data
  BY DEF FileOK, FileTyped
<1>3. c[b].off \in Offs \cup {0}
  BY DEF FileOK, FileTyped
<1>4. CASE c[b].off = 0
  BY <1>1, <1>2, <1>4 DEF Fetched, Stored
<1>5. CASE c[b].off # 0
  <2>1. m[c[b].off] \in Packet /\ m[c[b].off].method = c[b].method
    BY <1>3, <1>5 DEF FileOK, MethodOK
  <2>2. QED
    BY <1>1, <1>2, <1>5, <2>1 DEF Fetched, Stored, decompress, Packet
<1>6. QED
  BY <1>4, <1>5

\* A file does not see what other blocks of the media hold.
LEMMA MediaFrame ==
    ASSUME NEW f \in Files, NEW p, NEW c, NEW bf, NEW w, NEW m, NEW n,
           FileOK(f, p, c, bf, w, m),
           \A b \in Blocks(f) : c[b].off # 0 => n[c[b].off] = m[c[b].off]
    PROVE  FileOK(f, p, c, bf, w, n)
<1>1. \A b \in Blocks(f) : Stored(p, c, b, n) = Stored(p, c, b, m)
  BY DEF Stored, Fetched
<1>2. MethodOK(f, c, n)
  BY DEF FileOK, MethodOK
<1>3. ContentOK(f, p, c, bf, w, n)
  BY <1>1, UnitFacts DEF FileOK, ContentOK, UnitOK
<1>4. QED
  BY <1>2, <1>3 DEF FileOK

\* A clean buffer holds what is stored (hammer2_read_file, strategy_read).
LEMMA ReadKeeps ==
    ASSUME NEW f \in Files, NEW p, NEW c, NEW bf, NEW w, NEW m \in [Offs -> Packet],
           FileOK(f, p, c, bf, w, m), NEW b \in Blocks(f), bf[b].st = "none",
           b * BlockSize < p.size
    PROVE  FileOK(f, p, c, [bf EXCEPT ![b] = [data |-> Stored(p, c, b, m), st |-> "clean"]], w, m)
<1> DEFINE q == [bf EXCEPT ![b] = [data |-> Stored(p, c, b, m), st |-> "clean"]]
<1>1. Stored(p, c, b, m) \in Data
  BY StoredIsData
<1>2. bf \in [Blocks(f) -> [data : Data, st : {"none", "clean", "dirty"}]]
  BY DEF FileOK, FileTyped
<1>3. /\ q \in [Blocks(f) -> [data : Data, st : {"none", "clean", "dirty"}]]
      /\ q[b].data = Stored(p, c, b, m) /\ q[b].st = "clean"
      /\ \A d \in Blocks(f) \ {b} : q[d] = bf[d]
  BY <1>1, <1>2
<1> HIDE DEF q
<1>4. p.direct => b = 0
  <2>1. b # 0 => BlockSize <= b * BlockSize /\ b * BlockSize \in Nat
    BY BlockFacts
  <2>2. BlockSize \in Nat /\ Embedded \in Nat /\ Embedded < BlockSize /\ p.size \in Nat
    BY FileAssumption DEF FileOK, FileTyped
  <2>3. p.direct => p.size <= Embedded
    BY DEF FileOK, DirectOK
  <2>4. QED
    BY <2>1, <2>2, <2>3
<1>5. DirectOK(f, p, c, q)
  BY <1>3, <1>4 DEF FileOK, DirectOK
<1>6. ContentOK(f, p, c, q, w, m)
  <2>1. ASSUME NEW u \in Units(f) PROVE UnitOK(p, c, q, w, m, u)
    <3>1. BlockOf(u) \in Blocks(f) /\ UnitOK(p, c, bf, w, m, u)
      BY UnitFacts DEF FileOK, ContentOK
    <3>2. CASE BlockOf(u) = b
      BY <1>3, <3>1, <3>2 DEF UnitOK
    <3>3. CASE BlockOf(u) # b
      BY <1>3, <3>1, <3>3 DEF UnitOK
    <3>4. QED
      BY <3>2, <3>3
  <2>2. QED
    BY <2>1 DEF ContentOK
<1>7. QED
  BY <1>3, <1>5, <1>6 DEF FileOK, FileTyped, q

\* A clean buffer may go.
LEMMA ReuseKeeps ==
    ASSUME NEW f \in Files, NEW p, NEW c, NEW bf, NEW w, NEW m,
           FileOK(f, p, c, bf, w, m), NEW b \in Blocks(f), bf[b].st = "clean"
    PROVE  FileOK(f, p, c, [bf EXCEPT ![b] = NoBuf], w, m)
<1> DEFINE q == [bf EXCEPT ![b] = NoBuf]
<1>1. NoBuf \in [data : Data, st : {"none", "clean", "dirty"}] /\ NoBuf.st = "none"
  BY DEF NoBuf, Zeros, Data
<1>2. bf \in [Blocks(f) -> [data : Data, st : {"none", "clean", "dirty"}]]
  BY DEF FileOK, FileTyped
<1>3. /\ q \in [Blocks(f) -> [data : Data, st : {"none", "clean", "dirty"}]]
      /\ q[b].st = "none"
      /\ \A d \in Blocks(f) \ {b} : q[d] = bf[d]
  BY <1>1, <1>2
<1> HIDE DEF q
<1>4. DirectOK(f, p, c, q)
  BY <1>3 DEF FileOK, DirectOK
<1>5. ContentOK(f, p, c, q, w, m)
  <2>1. ASSUME NEW u \in Units(f) PROVE UnitOK(p, c, q, w, m, u)
    <3>1. BlockOf(u) \in Blocks(f) /\ UnitOK(p, c, bf, w, m, u)
      BY UnitFacts DEF FileOK, ContentOK
    <3>2. CASE BlockOf(u) = b
      BY <1>3, <3>1, <3>2 DEF UnitOK
    <3>3. CASE BlockOf(u) # b
      BY <1>3, <3>1, <3>3 DEF UnitOK
    <3>4. QED
      BY <3>2, <3>3
  <2>2. QED
    BY <2>1 DEF ContentOK
<1>6. QED
  BY <1>3, <1>4, <1>5 DEF FileOK, FileTyped, q

\* Chains that change only their flags hold the same.
LEMMA FlagsKeep ==
    ASSUME NEW f \in Files, NEW p, NEW c, NEW bf, NEW w, NEW m, NEW e,
           FileOK(f, p, c, bf, w, m),
           e \in [Blocks(f) -> [off : Offs \cup {0}, method : Methods,
                                modified : BOOLEAN, dedupable : BOOLEAN]],
           \A b \in Blocks(f) : e[b].off = c[b].off /\ e[b].method = c[b].method
    PROVE  FileOK(f, p, e, bf, w, m)
<1>1. \A b \in Blocks(f) : Stored(p, e, b, m) = Stored(p, c, b, m)
  BY DEF Stored, Fetched
<1>2. DirectOK(f, p, e, bf) /\ MethodOK(f, e, m)
  BY DEF FileOK, DirectOK, MethodOK
<1>3. ContentOK(f, p, e, bf, w, m)
  BY <1>1, UnitFacts DEF FileOK, ContentOK, UnitOK
<1>4. QED
  BY <1>2, <1>3 DEF FileOK, FileTyped

\* A dirty buffer is written back: what is stored becomes what it holds
\* (strategy_write: into a hole, or a block that now has its data).
LEMMA WrittenBack ==
    ASSUME NEW f \in Files, NEW p, NEW c, NEW bf, NEW w, NEW m, NEW n,
           NEW b \in Blocks(f), NEW x,
           FileOK(f, p, c, bf, w, m), ~p.direct, bf[b].st = "dirty",
           x \in [off : Offs \cup {0}, method : Methods, modified : BOOLEAN, dedupable : BOOLEAN],
           x.off = 0 => bf[b].data = Zeros,
           x.off # 0 => n[x.off].method = x.method /\ n[x.off].data = bf[b].data,
           \A d \in Blocks(f) \ {b} : c[d].off # 0 => n[c[d].off] = m[c[d].off]
    PROVE  FileOK(f, p, With(c, b, x), With(bf, b, Wrote(bf[b])), w, n)
<1> USE DEF With
<1> DEFINE e == With(c, b, x)
           q == With(bf, b, Wrote(bf[b]))
<1>1. c \in [Blocks(f) -> [off : Offs \cup {0}, method : Methods,
                           modified : BOOLEAN, dedupable : BOOLEAN]]
      /\ bf \in [Blocks(f) -> [data : Data, st : {"none", "clean", "dirty"}]]
  BY DEF FileOK, FileTyped
<1>2. /\ e \in [Blocks(f) -> [off : Offs \cup {0}, method : Methods,
                              modified : BOOLEAN, dedupable : BOOLEAN]]
      /\ e[b] = x /\ \A d \in Blocks(f) \ {b} : e[d] = c[d]
  BY <1>1
<1>3. /\ q \in [Blocks(f) -> [data : Data, st : {"none", "clean", "dirty"}]]
      /\ q[b].data = bf[b].data /\ q[b].st = "clean"
      /\ \A d \in Blocks(f) \ {b} : q[d] = bf[d]
  BY <1>1 DEF Wrote
<1> HIDE DEF e, q
<1>4. DirectOK(f, p, e, q)
  BY DEF DirectOK
<1>5. MethodOK(f, e, n)
  BY <1>2 DEF FileOK, MethodOK
<1>6. Stored(p, e, b, n) = bf[b].data
  BY <1>2 DEF Stored, Fetched, decompress
<1>7. ContentOK(f, p, e, q, w, n)
  <2>1. ASSUME NEW u \in Units(f) PROVE UnitOK(p, e, q, w, n, u)
    <3>1. BlockOf(u) \in Blocks(f) /\ UnitOK(p, c, bf, w, m, u)
      BY UnitFacts DEF FileOK, ContentOK
    <3>2. CASE BlockOf(u) = b
      BY <1>3, <1>6, <3>1, <3>2 DEF UnitOK
    <3>3. CASE BlockOf(u) # b
      <4>1. Stored(p, e, BlockOf(u), n) = Stored(p, c, BlockOf(u), m)
        BY <1>2, <3>1, <3>3 DEF Stored, Fetched
      <4>2. QED
        BY <1>3, <3>1, <3>3, <4>1 DEF UnitOK
    <3>4. QED
      BY <3>2, <3>3
  <2>2. QED
    BY <2>1 DEF ContentOK
<1>8. QED
  BY <1>2, <1>3, <1>4, <1>5, <1>7 DEF FileOK, FileTyped, e, q

\* The same for an inode that embeds its data: it keeps all that is in use.
LEMMA WrittenInside ==
    ASSUME NEW f \in Files, NEW p, NEW c, NEW bf, NEW w, NEW m, NEW b \in Blocks(f),
           FileOK(f, p, c, bf, w, m), p.direct, bf[b].st = "dirty"
    PROVE  FileOK(f, [p EXCEPT !.data = [i \in 0 .. BlockSize - 1 |->
                            IF i < Embedded THEN bf[b].data[i] ELSE 0]],
                  c, [bf EXCEPT ![b] = Wrote(@)], w, m)
<1> DEFINE d == [i \in 0 .. BlockSize - 1 |-> IF i < Embedded THEN bf[b].data[i] ELSE 0]
           r == [p EXCEPT !.data = d]
           q == [bf EXCEPT ![b] = Wrote(@)]
<1>1. bf \in [Blocks(f) -> [data : Data, st : {"none", "clean", "dirty"}]]
      /\ p \in [size : Nat, direct : BOOLEAN, data : Data] /\ p.size <= Embedded /\ b = 0
      /\ w \in [Units(f) -> Values \cup {0, Cut}]
  BY DEF FileOK, FileTyped, DirectOK
<1>2. d \in Data /\ \A i \in 0 .. BlockSize - 1 : d[i] = IF i < Embedded THEN bf[b].data[i] ELSE 0
  <2> DEFINE g == bf[b].data
  <2>1. g \in [0 .. BlockSize - 1 -> Values \cup {0}]
    BY <1>1 DEF Data
  <2> HIDE DEF g
  <2>2. d \in [0 .. BlockSize - 1 -> Values \cup {0}]
        /\ \A i \in 0 .. BlockSize - 1 : d[i] = IF i < Embedded THEN g[i] ELSE 0
    BY <2>1 DEF d, g
  <2>3. QED
    BY <2>2 DEF Data, g
<1> HIDE DEF d
<1>3. /\ r \in [size : Nat, direct : BOOLEAN, data : Data]
      /\ r.size = p.size /\ r.direct = p.direct /\ r.data = d
  BY <1>1, <1>2
<1>4. /\ q \in [Blocks(f) -> [data : Data, st : {"none", "clean", "dirty"}]]
      /\ q[b].data = bf[b].data /\ q[b].st = "clean"
      /\ \A k \in Blocks(f) \ {b} : q[k] = bf[k]
  BY <1>1 DEF Wrote
<1> HIDE DEF r, q
<1>5. DirectOK(f, r, c, q) /\ BeyondOK(f, r, w)
  BY <1>1, <1>3, <1>4 DEF FileOK, DirectOK, BeyondOK
<1>6. ContentOK(f, r, c, q, w, m)
  <2>1. ASSUME NEW u \in Units(f) PROVE UnitOK(r, c, q, w, m, u)
    <3>1. BlockOf(u) \in Blocks(f) /\ UnitOK(p, c, bf, w, m, u)
      BY UnitFacts DEF FileOK, ContentOK
    <3>2. CASE BlockOf(u) = b
      <4>1. u % BlockSize = u /\ u \in 0 .. BlockSize - 1
        BY <1>1, <3>2, UnitFacts, FileAssumption
      <4>2. Stored(r, c, BlockOf(u), m) = d
        BY <1>1, <1>3, <3>2 DEF Stored
      <4>3. CASE u < Embedded
        BY <1>2, <1>4, <3>1, <3>2, <4>1, <4>2, <4>3 DEF UnitOK
      <4>4. CASE ~(u < Embedded)
        <5>1. u >= p.size
          BY <1>1, <4>1, <4>4, FileAssumption
        <5>2. w[u] \in {0, Cut}
          BY <5>1 DEF FileOK, BeyondOK
        <5>3. d[u] = 0
          BY <1>2, <4>1, <4>4
        <5>4. QED
          BY <1>4, <3>1, <3>2, <4>1, <4>2, <5>2, <5>3 DEF UnitOK
      <4>5. QED
        BY <4>3, <4>4
    <3>3. CASE BlockOf(u) # b
      <4>1. Stored(r, c, BlockOf(u), m) = Stored(p, c, BlockOf(u), m)
        BY <1>1, <3>3 DEF Stored
      <4>2. QED
        BY <1>4, <3>1, <3>3, <4>1 DEF UnitOK
    <3>4. QED
      BY <3>2, <3>3
  <2>2. QED
    BY <2>1 DEF ContentOK
<1>7. QED
  BY <1>3, <1>4, <1>5, <1>6 DEF FileOK, FileTyped, r, q, d

\* Blocks follow the order of their units.
LEMMA BlockOrder ==
    ASSUME NEW x \in Nat, NEW y \in Nat, x <= y
    PROVE  BlockOf(x) <= BlockOf(y) /\ BlockOf(x) \in Nat /\ BlockOf(y) \in Nat
<1> DEFINE B == BlockSize
<1>1. B \in Nat \ {0}
  BY FileAssumption
<1> HIDE DEF B
<1>2. x \div B <= y \div B /\ x \div B \in Nat /\ y \div B \in Nat
  BY <1>1
<1>3. QED
  BY <1>2 DEF B, BlockOf

\* The first block of a file that has any.
LEMMA FirstBlock ==
    ASSUME NEW f \in Files, SizeMax[f] > 0
    PROVE  0 \in Blocks(f)
<1>1. 0 \in Units(f) /\ BlockSize \in Nat \ {0}
  BY FileAssumption DEF Units
<1>2. BlockOf(0) = 0
  BY <1>1 DEF BlockOf
<1>3. QED
  BY <1>1, <1>2, UnitFacts

\* A file grows: what it embedded moves to a buffer, what is new reads zero
\* (hammer2_extend_file, hammer2_inode_chain_sync).
LEMMA ExtendKeeps ==
    ASSUME NEW f \in Files, NEW n \in Nat, n <= SizeMax[f], ip[f].size < n,
           media \in [Offs -> Packet],
           FileOK(f, ip[f], chain[f], buf[f], want[f], media)
    PROVE  FileOK(f, InodeSynced(f, n), chain[f], Extended(f, n), want[f], media)
           /\ InodeSynced(f, n).size = n
<1> DEFINE p == ip[f]  c == chain[f]  bf == buf[f]  w == want[f]  m == media
           r == InodeSynced(f, n)  q == Extended(f, n)
<1>0. SizeMax[f] \in Nat /\ Embedded \in Nat /\ 0 < Embedded
  BY FileAssumption
<1>1. /\ p \in [size : Nat, direct : BOOLEAN, data : Data]
      /\ c \in [Blocks(f) -> [off : Offs \cup {0}, method : Methods,
                              modified : BOOLEAN, dedupable : BOOLEAN]]
      /\ bf \in [Blocks(f) -> [data : Data, st : {"none", "clean", "dirty"}]]
      /\ w \in [Units(f) -> Values \cup {0, Cut}]
  BY DEF FileOK, FileTyped
<1>2. 0 \in Blocks(f)
  BY <1>0, <1>1, FirstBlock
<1>3. Zeros \in Data /\ Stored(p, c, 0, m) \in Data
  BY <1>2, StoredIsData
<1>4. strategy_read(f, 0, p) = Stored(p, c, 0, m)
  BY DEF strategy_read, Stored, Fetched
<1> DEFINE d == IF bf[0].st = "none" THEN Stored(p, c, 0, m) ELSE bf[0].data
<1>5. d \in Data /\ bread(f, 0) = d
  BY <1>1, <1>2, <1>3, <1>4 DEF bread
<1>6. /\ r \in [size : Nat, direct : BOOLEAN, data : Data] /\ r.size = n
      /\ r.direct = (p.direct /\ ~(n > Embedded))
      /\ r.direct => r.data = p.data
  BY <1>1, <1>3 DEF InodeSynced
<1> DEFINE Moves == p.size \in 1..Embedded /\ n > Embedded
<1>7. /\ q \in [Blocks(f) -> [data : Data, st : {"none", "clean", "dirty"}]]
      /\ \A b \in Blocks(f) : b # 0 \/ ~Moves => q[b] = bf[b]
      /\ Moves => q[0].data = d /\ q[0].st = "dirty"
  BY <1>1, <1>2, <1>5 DEF Extended
<1> HIDE DEF d, r, q, p, c, bf, w, m
<1>8. FileOK(f, p, c, bf, w, m)
  BY DEF p, c, bf, w, m
<1>9. DirectOK(f, r, c, q)
  <2>1. r.direct => p.direct /\ n <= Embedded /\ ~Moves
    BY <1>0, <1>6
  <2>2. QED
    BY <1>6, <1>7, <1>8, <2>1 DEF FileOK, DirectOK
<1>10. BeyondOK(f, r, w)
  <2>1. ASSUME NEW u \in Units(f), u >= n PROVE u >= p.size
    BY <1>0, <1>1, <2>1 DEF Units, p
  <2>2. QED
    BY <1>6, <1>8, <2>1 DEF FileOK, BeyondOK
<1>11. ContentOK(f, r, c, q, w, m)
  <2>1. ASSUME NEW u \in Units(f), w[u] # Cut PROVE UnitOK(r, c, q, w, m, u)
    <3> DEFINE b == BlockOf(u)  i == u % BlockSize
    <3>1. b \in Blocks(f) /\ i \in 0 .. BlockSize - 1 /\ u \in Nat
          /\ u = b * BlockSize + i
      BY UnitFacts
    <3>2. /\ bf[b].st # "none" => bf[b].data[i] = w[u]
          /\ bf[b].st # "dirty" => Stored(p, c, b, m)[i] = w[u]
      BY <1>8, <2>1 DEF FileOK, ContentOK, UnitOK
    <3>3. Zeros[i] = 0
      BY <3>1 DEF Zeros
    <3> DEFINE OK == /\ q[b].st # "none" => q[b].data[i] = w[u]
                     /\ q[b].st # "dirty" => Stored(r, c, b, m)[i] = w[u]
    <3>4. CASE Moves /\ b = 0
      <4>1. bf[0].st \in {"none", "clean", "dirty"}
        BY <1>1, <1>2
      <4>2. d[i] = w[u]
        BY <3>2, <3>4, <4>1 DEF d
      <4>3. QED
        BY <1>7, <3>4, <4>2 DEF UnitOK
    <3>5. CASE ~(Moves /\ b = 0) /\ (r.direct <=> p.direct)
      <4>1. Stored(r, c, b, m) = Stored(p, c, b, m)
        BY <1>6, <3>5 DEF Stored
      <4>2. q[b] = bf[b]
        BY <1>7, <3>1, <3>5
      <4>3. QED
        BY <3>2, <4>1, <4>2 DEF UnitOK
    <3>6. CASE ~(Moves /\ b = 0) /\ p.direct /\ ~r.direct
      <4>1. n > Embedded /\ p.size <= Embedded /\ c[b].off = 0
        BY <1>0, <1>6, <1>8, <3>1, <3>6 DEF FileOK, DirectOK
      <4>2. u >= p.size
        <5>1. CASE b = 0
          BY <1>1, <3>1, <3>6, <4>1, <5>1, <1>0 DEF p
        <5>2. CASE b # 0
          BY <1>0, <1>1, <3>1, <4>1, <5>2, BlockFacts, FileAssumption DEF p
        <5>3. QED
          BY <5>1, <5>2
      <4>3. w[u] = 0
        BY <1>8, <2>1, <4>2 DEF FileOK, BeyondOK
      <4>4. Stored(r, c, b, m) = Zeros
        BY <3>6, <4>1 DEF Stored, Fetched
      <4>5. q[b] = bf[b]
        BY <1>7, <3>1, <3>6
      <4>6. QED
        BY <3>2, <3>3, <4>3, <4>4, <4>5 DEF UnitOK
    <3>7. r.direct => p.direct
      BY <1>6
    <3>8. r.direct \in BOOLEAN /\ p.direct \in BOOLEAN
      BY <1>6, <1>1 DEF p
    <3>9. QED
      BY <3>4, <3>5, <3>6, <3>7, <3>8
  <2>2. QED
    BY <2>1 DEF ContentOK, UnitOK
<1>12. QED
  BY <1>6, <1>7, <1>8, <1>9, <1>10, <1>11 DEF FileOK, FileTyped, r, q, p, c, bf, w, m

\* A file shrinks: what is cut off may hold anything
\* (hammer2_truncate_file, hammer2_inode_chain_sync).
LEMMA TruncateKeeps ==
    ASSUME NEW f \in Files, NEW n \in Nat, n < ip[f].size,
           FileOK(f, ip[f], chain[f], buf[f], want[f], media)
    PROVE  FileOK(f, [ip[f] EXCEPT !.size = n], ChainsSynced(f, n), buf[f],
                  [u \in Units(f) |-> IF u >= n /\ u < ip[f].size THEN Cut ELSE want[f][u]], media)
<1> DEFINE p == ip[f]  c == chain[f]  bf == buf[f]  w == want[f]  m == media
           r == [p EXCEPT !.size = n]  e == ChainsSynced(f, n)
           x == [u \in Units(f) |-> IF u >= n /\ u < p.size THEN Cut ELSE w[u]]
<1>0. SizeMax[f] \in Nat /\ Embedded \in Nat /\ 0 < Embedded
  BY FileAssumption
<1>1. /\ p \in [size : Nat, direct : BOOLEAN, data : Data] /\ p.size <= SizeMax[f]
      /\ c \in [Blocks(f) -> [off : Offs \cup {0}, method : Methods,
                              modified : BOOLEAN, dedupable : BOOLEAN]]
      /\ bf \in [Blocks(f) -> [data : Data, st : {"none", "clean", "dirty"}]]
      /\ w \in [Units(f) -> Values \cup {0, Cut}]
  BY DEF FileOK, FileTyped
<1>2. /\ r \in [size : Nat, direct : BOOLEAN, data : Data] /\ r.size = n /\ n < p.size
      /\ r.direct = p.direct /\ r.data = p.data
  BY <1>1
<1>3. NoBlock \in [off : Offs \cup {0}, method : Methods,
                   modified : BOOLEAN, dedupable : BOOLEAN] /\ NoBlock.off = 0
  BY DEF NoBlock, Methods
<1>4. /\ e \in [Blocks(f) -> [off : Offs \cup {0}, method : Methods,
                              modified : BOOLEAN, dedupable : BOOLEAN]]
      /\ \A b \in Blocks(f) : \/ e[b] = c[b]
                              \/ e[b].off = 0 /\ ~p.direct /\ b * BlockSize >= n
  BY <1>1, <1>3 DEF ChainsSynced
<1>5. /\ x \in [Units(f) -> Values \cup {0, Cut}]
      /\ \A u \in Units(f) : x[u] = IF u >= n /\ u < p.size THEN Cut ELSE w[u]
  BY <1>1
<1> HIDE DEF r, p, c, bf, w, m, e, x
<1>6. FileOK(f, p, c, bf, w, m)
  BY DEF p, c, bf, w, m
<1>7. DirectOK(f, r, e, bf)
  <2>1. p.direct => n <= Embedded
    BY <1>0, <1>1, <1>2, <1>6 DEF FileOK, DirectOK
  <2>2. QED
    BY <1>2, <1>4, <1>6, <2>1 DEF FileOK, DirectOK
<1>8. BeyondOK(f, r, x)
  BY <1>1, <1>2, <1>5, <1>6, UnitFacts DEF FileOK, BeyondOK
<1>9. MethodOK(f, e, m)
  BY <1>4, <1>6 DEF FileOK, MethodOK
<1>10. ContentOK(f, r, e, bf, x, m)
  <2>1. ASSUME NEW u \in Units(f), x[u] # Cut PROVE UnitOK(r, e, bf, x, m, u)
    <3> DEFINE b == BlockOf(u)  i == u % BlockSize
    <3>1. b \in Blocks(f) /\ i \in 0 .. BlockSize - 1 /\ u \in Nat /\ b \in Nat
          /\ u = b * BlockSize + i /\ b * BlockSize \in Nat
      BY UnitFacts, BlockFacts
    <3>2. x[u] = w[u] /\ w[u] # Cut /\ ~(u >= n /\ u < p.size)
      BY <1>5, <2>1
    <3>3. /\ bf[b].st # "none" => bf[b].data[i] = w[u]
          /\ bf[b].st # "dirty" => Stored(p, c, b, m)[i] = w[u]
      BY <1>6, <3>2 DEF FileOK, ContentOK, UnitOK
    <3>4. CASE e[b] = c[b]
      <4>1. Stored(r, e, b, m) = Stored(p, c, b, m)
        BY <1>2, <3>4 DEF Stored, Fetched
      <4>2. QED
        BY <3>2, <3>3, <4>1 DEF UnitOK
    <3>5. CASE e[b].off = 0 /\ ~p.direct /\ b * BlockSize >= n
      <4>1. u >= n
        BY <3>1, <3>5
      <4>2. u >= p.size
        BY <1>1, <3>1, <3>2, <4>1
      <4>3. w[u] = 0
        BY <1>6, <3>2, <4>2 DEF FileOK, BeyondOK
      <4>4. Stored(r, e, b, m) = Zeros /\ Zeros[i] = 0
        BY <1>2, <3>1, <3>5 DEF Stored, Fetched, Zeros
      <4>5. QED
        BY <3>2, <3>3, <4>3, <4>4 DEF UnitOK
    <3>6. QED
      BY <1>4, <3>1, <3>4, <3>5
  <2>2. QED
    BY <2>1 DEF ContentOK, UnitOK
<1>11. n <= SizeMax[f]
  BY <1>0, <1>1, <1>2
<1>12. QED
  BY <1>1, <1>2, <1>4, <1>5, <1>7, <1>8, <1>9, <1>10, <1>11 DEF FileOK, FileTyped, r, p, c, bf, w, m, e, x

\* The units o..e-1 are now v; and block b of the buffers q is that of bf with
\* them written over filled.
Marked(f, w, o, e, v) == [u \in Units(f) |-> IF u >= o /\ u < e THEN v ELSE w[u]]
Filled(p, c, bf, m, o, e, v, q, filled, b) ==
    IF BlockOf(o) <= b /\ b <= BlockOf(e - 1)
    THEN /\ q[b].st = "dirty"
         /\ \A i \in 0 .. BlockSize - 1 : q[b].data[i] =
               IF b * BlockSize + i >= o /\ b * BlockSize + i < e THEN v ELSE filled[b][i]
         /\ \/ o <= b * BlockSize /\ b * BlockSize + BlockSize <= e
            \/ filled[b] = Zeros /\ b = 0 /\ o = 0 /\ e = p.size
            \/ filled[b] = (IF bf[b].st = "none" THEN Stored(p, c, b, m) ELSE bf[b].data)
    ELSE q[b] = bf[b]

\* The units o..e-1 are written into the buffers of their blocks, over what
\* was there unless that is covered or beyond the end (hammer2_write_file).
LEMMA WriteKeeps ==
    ASSUME NEW f \in Files, NEW p, NEW c, NEW bf, NEW w, NEW m \in [Offs -> Packet],
           FileOK(f, p, c, bf, w, m),
           NEW o \in Nat, NEW e \in Nat, NEW v \in Values \cup {0}, o < e, e <= p.size,
           NEW q, NEW filled,
           q \in [Blocks(f) -> [data : Data, st : {"none", "clean", "dirty"}]],
           \A b \in Blocks(f) : Filled(p, c, bf, m, o, e, v, q, filled, b)
    PROVE  FileOK(f, p, c, q, Marked(f, w, o, e, v), m)
<1> USE DEF Filled
<1> DEFINE x == Marked(f, w, o, e, v)
<1>0. /\ p.size \in Nat /\ p.size <= SizeMax[f] /\ SizeMax[f] \in Nat
      /\ w \in [Units(f) -> Values \cup {0, Cut}] /\ p.direct \in BOOLEAN
      /\ bf \in [Blocks(f) -> [data : Data, st : {"none", "clean", "dirty"}]]
      /\ Embedded \in Nat /\ BlockSize \in Nat /\ Embedded < BlockSize
      /\ Values \subseteq Nat \ {0}
  BY FileAssumption DEF FileOK, FileTyped
<1>1. /\ x \in [Units(f) -> Values \cup {0, Cut}]
      /\ \A u \in Units(f) : x[u] = IF u >= o /\ u < e THEN v ELSE w[u]
  BY <1>0 DEF Marked
<1> HIDE DEF x
<1>2. DirectOK(f, p, c, q)
  <2>1. ASSUME p.direct, NEW b \in Blocks(f), b # 0
        PROVE  ~(BlockOf(o) <= b /\ b <= BlockOf(e - 1))
    <3>1. p.size <= Embedded
      BY <2>1 DEF FileOK, DirectOK
    <3>2. e - 1 \in Nat /\ e - 1 < BlockSize
      BY <1>0, <3>1
    <3>3. BlockOf(e - 1) = 0
      <4> DEFINE y == e - 1  B == BlockSize
      <4>1. y \in Nat /\ B \in Nat \ {0} /\ y < B
        BY <3>2, <1>0
      <4> HIDE DEF y, B
      <4>2. y \div B = 0
        BY <4>1
      <4>3. QED
        BY <4>2 DEF BlockOf, y, B
    <3>4. b \in Nat /\ b # 0
      BY <2>1, BlockFacts
    <3>5. QED
      BY <3>3, <3>4
  <2>2. QED
    BY <2>1 DEF FileOK, DirectOK
<1>3. BeyondOK(f, p, x)
  BY <1>0, <1>1, UnitFacts DEF FileOK, BeyondOK
<1>4. ContentOK(f, p, c, q, x, m)
  <2>1. ASSUME NEW u \in Units(f), x[u] # Cut PROVE UnitOK(p, c, q, x, m, u)
    <3> DEFINE b == BlockOf(u)  i == u % BlockSize
               In == BlockOf(o) <= b /\ b <= BlockOf(e - 1)
    <3>1. /\ b \in Blocks(f) /\ i \in 0 .. BlockSize - 1 /\ u \in Nat /\ b \in Nat
          /\ u = b * BlockSize + i /\ b * BlockSize \in Nat
      BY UnitFacts, BlockFacts
    <3>2. ASSUME u >= o /\ u < e PROVE In
      <4>1. e - 1 \in Nat /\ u <= e - 1 /\ o <= u
        BY <3>1, <3>2
      <4>2. QED
        BY <3>1, <4>1, BlockOrder
    <3>3. w[u] # Cut =>
            /\ bf[b].st # "none" => bf[b].data[i] = w[u]
            /\ bf[b].st # "dirty" => Stored(p, c, b, m)[i] = w[u]
      BY DEF FileOK, ContentOK, UnitOK
    <3>4. CASE ~In
      <4>1. x[u] = w[u] /\ q[b] = bf[b]
        BY <1>1, <3>1, <3>2, <3>4
      <4>2. QED
        BY <2>1, <3>3, <4>1 DEF UnitOK
    <3>5. CASE In
      <4>1. /\ q[b].st = "dirty"
            /\ q[b].data[i] = IF u >= o /\ u < e THEN v ELSE filled[b][i]
        BY <3>1, <3>5
      <4>2. CASE u >= o /\ u < e
        BY <1>1, <4>1, <4>2 DEF UnitOK
      <4>3. CASE ~(u >= o /\ u < e)
        <5>1. x[u] = w[u] /\ w[u] # Cut
          BY <1>1, <2>1, <4>3
        <5>2. ~(o <= b * BlockSize /\ b * BlockSize + BlockSize <= e)
          BY <3>1, <4>3, <1>0
        <5>3. CASE filled[b] = Zeros /\ b = 0 /\ o = 0 /\ e = p.size
          <6>1. u >= p.size
            BY <3>1, <4>3, <5>3
          <6>2. w[u] = 0
            BY <5>1, <6>1 DEF FileOK, BeyondOK
          <6>3. Zeros[i] = 0
            BY <3>1 DEF Zeros
          <6>4. QED
            BY <4>1, <4>3, <5>1, <5>3, <6>2, <6>3 DEF UnitOK
        <5>4. CASE filled[b] = (IF bf[b].st = "none" THEN Stored(p, c, b, m) ELSE bf[b].data)
          <6>1. filled[b][i] = w[u]
            BY <3>3, <5>1, <5>4
          <6>2. QED
            BY <4>1, <4>3, <5>1, <6>1 DEF UnitOK
        <5>5. QED
          BY <3>1, <3>5, <5>2, <5>3, <5>4
      <4>4. QED
        BY <4>2, <4>3
    <3>6. QED
      BY <3>4, <3>5
  <2>2. QED
    BY <2>1 DEF ContentOK, UnitOK
<1>5. QED
  BY <1>1, <1>2, <1>3, <1>4 DEF FileOK, FileTyped, x

\* What is written in place nobody shares: with check codes nothing is written
\* in place, and without them dedup records and finds nothing.
SharingOK ==
    IF CheckNone = {}
    THEN \A f \in Files : \A b \in Blocks(f) :
            chain[f][b].modified => chain[f][b].dedupable
    ELSE /\ dedup = {}
         /\ \A f \in Files : \A b \in Blocks(f) :
              /\ ~chain[f][b].dedupable
              /\ \A g \in Files : \A d \in Blocks(g) :
                   chain[f][b].off # 0 /\ chain[g][d].off = chain[f][b].off => g = f /\ d = b

Whole(g) == g = [f \in Files |-> g[f]]
FileInv ==
    /\ Whole(ip) /\ Whole(chain) /\ Whole(buf) /\ Whole(want)
    /\ media \in [Offs -> Packet] /\ dedup \subseteq Offs
    /\ \A f \in Files : FileOK(f, ip[f], chain[f], buf[f], want[f], media)
    /\ SharingOK

\* FileOK of a file in the next state is about that file's state there.
LEMMA FileLater ==
    ASSUME NEW g \in Files
    PROVE  FileOK(g, ip[g], chain[g], buf[g], want[g], media)'
             <=> FileOK(g, ip'[g], chain'[g], buf'[g], want'[g], media')
<1>1. FileTyped(g, ip[g], chain[g], buf[g], want[g])'
        <=> FileTyped(g, ip'[g], chain'[g], buf'[g], want'[g])
  BY DEF FileTyped, Blocks, Units, Data
<1>2. DirectOK(g, ip[g], chain[g], buf[g])' <=> DirectOK(g, ip'[g], chain'[g], buf'[g])
  BY DEF DirectOK, Blocks
<1>3. BeyondOK(g, ip[g], want[g])' <=> BeyondOK(g, ip'[g], want'[g])
  BY DEF BeyondOK, Units
<1>4. MethodOK(g, chain[g], media)' <=> MethodOK(g, chain'[g], media')
  BY DEF MethodOK, Blocks
<1>5. ContentOK(g, ip[g], chain[g], buf[g], want[g], media)'
        <=> ContentOK(g, ip'[g], chain'[g], buf'[g], want'[g], media')
  BY DEF ContentOK, UnitOK, Stored, Fetched, Zeros, BlockOf, Units, decompress
<1>6. QED
  BY <1>1, <1>2, <1>3, <1>4, <1>5 DEF FileOK

\* An action of one file that leaves the media and what its chains share alone.
LEMMA OneFile ==
    ASSUME FileInv, NEW f \in Files, NEW p, NEW c, NEW bf, NEW w,
           FileOK(f, p, c, bf, w, media),
           ip' = With(ip, f, p), chain' = With(chain, f, c),
           buf' = With(buf, f, bf), want' = With(want, f, w),
           UNCHANGED <<media, dedup>>,
           \A b \in Blocks(f) :
              \/ c[b].off = 0 /\ ~c[b].modified /\ ~c[b].dedupable
              \/ /\ c[b].off = chain[f][b].off
                 /\ c[b].modified => chain[f][b].modified /\ c[b] = chain[f][b]
                 /\ c[b].dedupable => chain[f][b].dedupable
    PROVE  FileInv'
<1>1. /\ ip' = [g \in Files |-> IF g = f THEN p ELSE ip[g]]
      /\ chain' = [g \in Files |-> IF g = f THEN c ELSE chain[g]]
      /\ buf' = [g \in Files |-> IF g = f THEN bf ELSE buf[g]]
      /\ want' = [g \in Files |-> IF g = f THEN w ELSE want[g]]
  BY DEF FileInv, Whole, With
<1>2. Whole(ip)' /\ Whole(chain)' /\ Whole(buf)' /\ Whole(want)'
  BY <1>1 DEF Whole
<1>3. \A g \in Files : FileOK(g, ip[g], chain[g], buf[g], want[g], media)'
  <2>1. ASSUME NEW g \in Files
        PROVE  FileOK(g, ip'[g], chain'[g], buf'[g], want'[g], media)
    <3>1. CASE g = f
      BY <1>1, <3>1
    <3>2. CASE g # f
      BY <1>1, <3>2 DEF FileInv
    <3>3. QED
      BY <3>1, <3>2
  <2>2. QED
    BY <2>1, FileLater
<1>4. SharingOK'
  <2>0. chain'[f] = c /\ \A g \in Files : g # f => chain'[g] = chain[g]
    BY <1>1
  <2>1. CASE CheckNone = {}
    <3>1. \A g \in Files : \A b \in Blocks(g) : chain[g][b].modified => chain[g][b].dedupable
      BY <2>1 DEF FileInv, SharingOK
    <3>2. ASSUME NEW g \in Files, NEW b \in Blocks(g), chain'[g][b].modified
          PROVE  chain'[g][b].dedupable
      <4>1. CASE g = f
        BY <2>0, <3>1, <3>2, <4>1
      <4>2. CASE g # f
        BY <2>0, <3>1, <3>2, <4>2
      <4>3. QED
        BY <4>1, <4>2
    <3>3. QED
      BY <2>1, <3>2 DEF SharingOK, Blocks
  <2>2. CASE CheckNone # {}
    <3>1. /\ dedup = {}
          /\ \A g \in Files : \A b \in Blocks(g) :
              /\ ~chain[g][b].dedupable
              /\ \A h \in Files : \A d \in Blocks(h) :
                   chain[g][b].off # 0 /\ chain[h][d].off = chain[g][b].off => h = g /\ d = b
      BY <2>2 DEF FileInv, SharingOK
    <3>2. ASSUME NEW g \in Files, NEW b \in Blocks(g)
          PROVE  /\ ~chain'[g][b].dedupable
                 /\ chain'[g][b].off = 0 \/ chain'[g][b].off = chain[g][b].off
      <4>1. CASE g = f
        BY <2>0, <3>1, <4>1
      <4>2. CASE g # f
        BY <2>0, <3>1, <4>2
      <4>3. QED
        BY <4>1, <4>2
    <3>3. ASSUME NEW g \in Files, NEW b \in Blocks(g), NEW h \in Files, NEW d \in Blocks(h),
                 chain'[g][b].off # 0, chain'[h][d].off = chain'[g][b].off
          PROVE  h = g /\ d = b
      BY <3>1, <3>2, <3>3
    <3>4. QED
      BY <2>2, <3>1, <3>2, <3>3 DEF SharingOK, Blocks
  <2>3. QED
    BY <2>1, <2>2
<1>5. QED
  BY <1>2, <1>3, <1>4 DEF FileInv, Packet, Data

\* What the inductive invariant says of one file.
LEMMA FileHas ==
    ASSUME FileInv, NEW f \in Files
    PROVE  /\ FileOK(f, ip[f], chain[f], buf[f], want[f], media)
           /\ media \in [Offs -> Packet]
           /\ ip[f] \in [size : Nat, direct : BOOLEAN, data : Data] /\ ip[f].size <= SizeMax[f]
           /\ chain[f] \in [Blocks(f) -> [off : Offs \cup {0}, method : Methods,
                                          modified : BOOLEAN, dedupable : BOOLEAN]]
           /\ buf[f] \in [Blocks(f) -> [data : Data, st : {"none", "clean", "dirty"}]]
           /\ want[f] \in [Units(f) -> Values \cup {0, Cut}]
           /\ ip = With(ip, f, ip[f]) /\ chain = With(chain, f, chain[f])
           /\ buf = With(buf, f, buf[f]) /\ want = With(want, f, want[f])
<1>1. ip = With(ip, f, ip[f]) /\ chain = With(chain, f, chain[f])
      /\ buf = With(buf, f, buf[f]) /\ want = With(want, f, want[f])
  BY DEF FileInv, Whole, With
<1>2. QED
  BY <1>1 DEF FileInv, FileOK, FileTyped

\* hammer2_read_file and the loss of a clean buffer.
LEMMA CacheStep ==
    ASSUME FileInv, NEW f \in Files, NEW b \in Blocks(f), read_file(f, b) \/ Reuse(f, b)
    PROVE  FileInv'
<1>0. /\ FileOK(f, ip[f], chain[f], buf[f], want[f], media)
      /\ ip = With(ip, f, ip[f]) /\ chain = With(chain, f, chain[f])
      /\ want = With(want, f, want[f]) /\ media \in [Offs -> Packet]
  BY FileHas
<1>1. CASE read_file(f, b)
  <2>1. b * BlockSize < ip[f].size /\ buf[f][b].st = "none"
    BY <1>1 DEF read_file
  <2>2. ip[f].direct => b = 0
    <3>1. ip[f].direct => ip[f].size <= Embedded
      BY <1>0 DEF FileOK, DirectOK
    <3>2. ip[f].size \in Nat
      BY FileHas
    <3>3. QED
      BY <2>1, <3>1, <3>2, BlockFacts, FileAssumption
  <2>3. bread(f, b) = Stored(ip[f], chain[f], b, media)
    BY <2>1, <2>2 DEF bread, strategy_read, Stored, Fetched
  <2> DEFINE q == [buf[f] EXCEPT ![b] = [data |-> Stored(ip[f], chain[f], b, media), st |-> "clean"]]
  <2>4. FileOK(f, ip[f], chain[f], q, want[f], media)
    BY <1>0, <2>1, ReadKeeps
  <2>5. buf' = With(buf, f, q)
    BY <1>1, <2>3 DEF read_file, With
  <2> HIDE DEF q
  <2>6. UNCHANGED <<ip, chain, media, dedup, want>>
    BY <1>1 DEF read_file
  <2>7. QED
    BY <1>0, <2>4, <2>5, <2>6, OneFile
<1>2. CASE Reuse(f, b)
  <2> DEFINE q == [buf[f] EXCEPT ![b] = NoBuf]
  <2>1. FileOK(f, ip[f], chain[f], q, want[f], media)
    BY <1>0, <1>2, ReuseKeeps DEF Reuse
  <2>2. buf' = With(buf, f, q) /\ UNCHANGED <<ip, chain, media, dedup, want>>
    BY <1>2 DEF Reuse, With
  <2> HIDE DEF q
  <2>3. QED
    BY <1>0, <2>1, <2>2, OneFile
<1>3. QED
  BY <1>1, <1>2

\* file_flush and chain_drop change flags alone.
LEMMA FlagStep ==
    ASSUME FileInv, NEW f \in Files,
           file_flush(f) \/ \E b \in Blocks(f) : chain_drop(f, b)
    PROVE  FileInv'
<1>0. /\ FileOK(f, ip[f], chain[f], buf[f], want[f], media)
      /\ chain[f] \in [Blocks(f) -> [off : Offs \cup {0}, method : Methods,
                                     modified : BOOLEAN, dedupable : BOOLEAN]]
      /\ ip = With(ip, f, ip[f]) /\ buf = With(buf, f, buf[f])
      /\ want = With(want, f, want[f])
  BY FileHas
<1>1. PICK e : /\ chain' = With(chain, f, e)
               /\ e \in [Blocks(f) -> [off : Offs \cup {0}, method : Methods,
                                       modified : BOOLEAN, dedupable : BOOLEAN]]
               /\ \A b \in Blocks(f) :
                    /\ e[b].off = chain[f][b].off /\ e[b].method = chain[f][b].method
                    /\ e[b].modified => chain[f][b].modified /\ e[b] = chain[f][b]
                    /\ e[b].dedupable => chain[f][b].dedupable
  <2>1. CASE file_flush(f)
    <3> DEFINE e == [b \in Blocks(f) |-> [chain[f][b] EXCEPT !.modified = FALSE]]
    <3>1. chain' = With(chain, f, e)
      BY <2>1 DEF file_flush, With
    <3>2. /\ e \in [Blocks(f) -> [off : Offs \cup {0}, method : Methods,
                                  modified : BOOLEAN, dedupable : BOOLEAN]]
          /\ \A b \in Blocks(f) :
               /\ e[b].off = chain[f][b].off /\ e[b].method = chain[f][b].method
               /\ e[b].modified => chain[f][b].modified /\ e[b] = chain[f][b]
               /\ e[b].dedupable => chain[f][b].dedupable
      BY <1>0
    <3> HIDE DEF e
    <3>3. QED
      BY <3>1, <3>2
  <2>2. ASSUME NEW d \in Blocks(f), chain_drop(f, d)
        PROVE  \E e : /\ chain' = With(chain, f, e)
               /\ e \in [Blocks(f) -> [off : Offs \cup {0}, method : Methods,
                                       modified : BOOLEAN, dedupable : BOOLEAN]]
               /\ \A b \in Blocks(f) :
                    /\ e[b].off = chain[f][b].off /\ e[b].method = chain[f][b].method
                    /\ e[b].modified => chain[f][b].modified /\ e[b] = chain[f][b]
                    /\ e[b].dedupable => chain[f][b].dedupable
    <3> DEFINE x == [chain[f][d] EXCEPT !.dedupable = FALSE]
               e == [chain[f] EXCEPT ![d] = x]
    <3>1. chain' = With(chain, f, e) /\ ~chain[f][d].modified
      BY <2>2 DEF chain_drop, With
    <3>2. /\ x \in [off : Offs \cup {0}, method : Methods, modified : BOOLEAN, dedupable : BOOLEAN]
          /\ x.off = chain[f][d].off /\ x.method = chain[f][d].method
          /\ ~x.modified /\ ~x.dedupable
      BY <1>0, <3>1
    <3> HIDE DEF x
    <3>3. /\ e \in [Blocks(f) -> [off : Offs \cup {0}, method : Methods,
                                  modified : BOOLEAN, dedupable : BOOLEAN]]
          /\ e[d] = x /\ \A b \in Blocks(f) : b # d => e[b] = chain[f][b]
      BY <1>0, <3>2
    <3> HIDE DEF e
    <3>4. QED
      BY <3>1, <3>2, <3>3
  <2>3. QED
    BY <2>1, <2>2
<1>2. FileOK(f, ip[f], e, buf[f], want[f], media)
  BY <1>0, <1>1, FlagsKeep
<1>3. UNCHANGED <<ip, buf, media, dedup, want>>
  BY DEF file_flush, chain_drop
<1> DEFINE p == ip[f]  q == buf[f]  w == want[f]
<1>4. /\ FileOK(f, p, e, q, w, media)
      /\ ip' = With(ip, f, p) /\ chain' = With(chain, f, e)
      /\ buf' = With(buf, f, q) /\ want' = With(want, f, w)
      /\ UNCHANGED <<media, dedup>>
  BY <1>0, <1>1, <1>2, <1>3
<1> HIDE DEF p, q, w
<1>5. QED
  BY <1>1, <1>4, OneFile

\* Changes of size.
LEMMA SizeStep ==
    ASSUME FileInv, NEW f \in Files, NEW n \in Sizes[f], extend_file(f, n) \/ truncate_file(f, n)
    PROVE  FileInv'
<1>0. /\ FileOK(f, ip[f], chain[f], buf[f], want[f], media) /\ media \in [Offs -> Packet]
      /\ ip[f].size \in Nat
      /\ ip = With(ip, f, ip[f]) /\ buf = With(buf, f, buf[f])
      /\ chain = With(chain, f, chain[f]) /\ want = With(want, f, want[f])
  BY FileHas
<1>1. n \in Nat /\ n <= SizeMax[f]
  BY FileAssumption
<1>2. CASE extend_file(f, n)
  <2>1. /\ ip[f].size < n
        /\ buf' = With(buf, f, Extended(f, n))
        /\ ip' = With(ip, f, InodeSynced(f, n))
        /\ UNCHANGED <<chain, media, dedup, want>>
    BY <1>2 DEF extend_file, With
  <2>2. FileOK(f, InodeSynced(f, n), chain[f], Extended(f, n), want[f], media)
    BY <1>0, <1>1, <2>1, ExtendKeeps
  <2> DEFINE p == InodeSynced(f, n)  q == Extended(f, n)  c == chain[f]  w == want[f]
  <2>3. /\ FileOK(f, p, c, q, w, media)
        /\ ip' = With(ip, f, p) /\ chain' = With(chain, f, c)
        /\ buf' = With(buf, f, q) /\ want' = With(want, f, w)
        /\ UNCHANGED <<media, dedup>> /\ \A b \in Blocks(f) : c[b] = chain[f][b]
    BY <1>0, <2>1, <2>2
  <2> HIDE DEF p, q, c, w
  <2>4. QED
    BY <2>3, OneFile
<1>3. CASE truncate_file(f, n)
  <2> DEFINE p == [ip[f] EXCEPT !.size = n]  c == ChainsSynced(f, n)
             w == [u \in Units(f) |-> IF u >= n /\ u < ip[f].size THEN Cut ELSE want[f][u]]
  <2>1. /\ n < ip[f].size
        /\ chain' = With(chain, f, c) /\ ip' = With(ip, f, p)
        /\ want' = With(want, f, w)
        /\ UNCHANGED <<buf, media, dedup>>
    BY <1>3 DEF truncate_file, With
  <2>2. FileOK(f, p, c, buf[f], w, media)
    BY <1>0, <1>1, <2>1, TruncateKeeps
  <2>3. ASSUME NEW b \in Blocks(f)
        PROVE  \/ c[b].off = 0 /\ ~c[b].modified /\ ~c[b].dedupable
               \/ c[b] = chain[f][b]
    BY DEF ChainsSynced, NoBlock
  <2> HIDE DEF p, c, w
  <2>4. QED
    BY <1>0, <2>1, <2>2, <2>3, OneFile
<1>4. QED
  BY <1>2, <1>3

\* Writes.
LEMMA WriteStep ==
    ASSUME FileInv, NEW f \in Files, NEW o \in Nat, NEW e \in Nat, NEW v \in Values \cup {0},
           e <= SizeMax[f], write_file(f, o, e, v)
    PROVE  FileInv'
<1> DEFINE eof == IF e > ip[f].size THEN e ELSE ip[f].size
           old == IF e > ip[f].size THEN Extended(f, e) ELSE buf[f]
           p == InodeSynced(f, eof)  c == chain[f]  w == want[f]
           Touched(b) == BlockOf(o) <= b /\ b <= BlockOf(e - 1)
           q == [b \in Blocks(f) |->
                   IF Touched(b) THEN Written(f, b, o, e, v, old[b], eof) ELSE old[b]]
           x == Marked(f, w, o, e, v)
<1>0. /\ FileOK(f, ip[f], c, buf[f], w, media) /\ media \in [Offs -> Packet]
      /\ ip[f] \in [size : Nat, direct : BOOLEAN, data : Data] /\ ip[f].size <= SizeMax[f]
      /\ chain = With(chain, f, c)
  BY FileHas
<1>1. /\ o < e
      /\ buf' = With(buf, f, q) /\ ip' = With(ip, f, p) /\ want' = With(want, f, x)
      /\ UNCHANGED <<chain, media, dedup>>
  BY DEF write_file, With, Marked
<1>2. FileOK(f, p, c, old, w, media) /\ p.size = eof
  <2>1. CASE e > ip[f].size
    BY <1>0, <1>1, <2>1, ExtendKeeps
  <2>2. CASE ~(e > ip[f].size)
    <3>1. ip[f].direct => ip[f].size <= Embedded
      BY <1>0 DEF FileOK, DirectOK
    <3>2. p = ip[f]
      BY <1>0, <2>2, <3>1, FileAssumption DEF InodeSynced
    <3>3. QED
      BY <1>0, <2>2, <3>2
  <2>3. QED
    BY <2>1, <2>2
<1>3. /\ old \in [Blocks(f) -> [data : Data, st : {"none", "clean", "dirty"}]]
      /\ p.direct \in BOOLEAN /\ e <= p.size /\ p.size = eof
  BY <1>0, <1>1, <1>2 DEF FileOK, FileTyped
<1>4. /\ \A b \in Blocks(f) : ~Touched(b) => q[b] = old[b]
      /\ \A b \in Blocks(f) : Touched(b) => q[b] = Written(f, b, o, e, v, old[b], eof)
  OBVIOUS
<1>5. q = [b \in Blocks(f) |-> q[b]]
  OBVIOUS
<1> HIDE DEF q, old, p, eof, x, c, w
<1> DEFINE Trivial(b) == \/ o <= b * BlockSize /\ b * BlockSize + BlockSize <= e
                         \/ b * BlockSize = 0 /\ o = 0 /\ e = eof
           filled == [b \in Blocks(f) |->
                      IF Trivial(b) THEN Zeros
                      ELSE IF old[b].st = "none" THEN strategy_read(f, b, p) ELSE old[b].data]
           Spot(b, i) == b * BlockSize + i
<1>6. ASSUME NEW b \in Blocks(f), Touched(b)
      PROVE  /\ q[b] \in [data : Data, st : {"none", "clean", "dirty"}] /\ q[b].st = "dirty"
             /\ \A i \in 0 .. BlockSize - 1 : q[b].data[i] =
                   IF Spot(b, i) >= o /\ Spot(b, i) < e THEN v ELSE filled[b][i]
             /\ \/ o <= b * BlockSize /\ b * BlockSize + BlockSize <= e
                \/ filled[b] = Zeros /\ b = 0 /\ o = 0 /\ e = p.size
                \/ filled[b] = (IF old[b].st = "none" THEN Stored(p, c, b, media) ELSE old[b].data)
  <2>1. p.direct => b = 0
    <3>1. p.direct => p.size <= Embedded
      BY <1>2 DEF FileOK, DirectOK
    <3> DEFINE z == e - 1  B == BlockSize
    <3>2. p.direct => z \in Nat /\ B \in Nat \ {0} /\ z < B
      <4>1. p.size \in Nat
        BY <1>2 DEF FileOK, FileTyped
      <4>2. QED
        BY <1>1, <1>3, <3>1, <4>1, FileAssumption
    <3> HIDE DEF z, B
    <3>3. p.direct => z \div B = 0
      BY <3>2
    <3>4. p.direct => BlockOf(e - 1) = 0
      BY <3>3 DEF z, B, BlockOf
    <3>5. b \in Nat
      BY BlockFacts
    <3>6. QED
      BY <1>6, <3>4, <3>5
  <2>2. strategy_read(f, b, p) = Stored(p, c, b, media)
    BY <2>1 DEF strategy_read, Stored, Fetched, c
  <2>3. Zeros \in Data /\ Stored(p, c, b, media) \in Data
    BY <1>0, <1>2, StoredIsData
  <2> DEFINE z == IF Trivial(b) THEN Zeros
                  ELSE IF old[b].st = "none" THEN strategy_read(f, b, p) ELSE old[b].data
             d == [i \in 0 .. BlockSize - 1 |->
                     IF Spot(b, i) >= o /\ Spot(b, i) < e THEN v ELSE z[i]]
  <2>4. filled[b] = z
    OBVIOUS
  <2>5. z \in Data
    BY <1>3, <2>2, <2>3
  <2>6. q[b] = [data |-> d, st |-> "dirty"]
    BY <1>4, <1>6 DEF Written, p
  <2>7. \/ o <= b * BlockSize /\ b * BlockSize + BlockSize <= e
        \/ z = Zeros /\ b = 0 /\ o = 0 /\ e = p.size
        \/ z = (IF old[b].st = "none" THEN Stored(p, c, b, media) ELSE old[b].data)
    <3>1. b * BlockSize = 0 => b = 0
      BY BlockFacts, FileAssumption
    <3>2. QED
      BY <1>3, <2>2, <3>1
  <2> HIDE DEF z, filled
  <2>8. z \in [0 .. BlockSize - 1 -> Values \cup {0}]
    BY <2>5 DEF Data
  <2>9. \A i \in 0 .. BlockSize - 1 :
           (IF Spot(b, i) >= o /\ Spot(b, i) < e THEN v ELSE z[i]) \in Values \cup {0}
    BY <2>8
  <2>10. d \in Data /\ \A i \in 0 .. BlockSize - 1 : d[i] =
                   IF Spot(b, i) >= o /\ Spot(b, i) < e THEN v ELSE z[i]
    BY <2>9 DEF Data
  <2> HIDE DEF d
  <2>11. QED
    BY <2>4, <2>6, <2>7, <2>10
<1> HIDE DEF filled
<1>7. q \in [Blocks(f) -> [data : Data, st : {"none", "clean", "dirty"}]]
  <2>1. ASSUME NEW b \in Blocks(f) PROVE q[b] \in [data : Data, st : {"none", "clean", "dirty"}]
    <3>1. CASE Touched(b)
      BY <1>6, <3>1
    <3>2. CASE ~Touched(b)
      BY <1>3, <1>4, <3>2
    <3>3. QED
      BY <3>1, <3>2
  <2>2. QED
    BY <1>5, <2>1
<1>8. \A b \in Blocks(f) : Filled(p, c, old, media, o, e, v, q, filled, b)
  BY <1>4, <1>6 DEF Filled
<1>9. FileOK(f, p, c, q, x, media)
  BY <1>0, <1>1, <1>2, <1>3, <1>7, <1>8, WriteKeeps DEF x
<1>10. /\ chain' = With(chain, f, c) /\ \A b \in Blocks(f) : c[b] = chain[f][b]
       /\ buf' = With(buf, f, q) /\ ip' = With(ip, f, p) /\ want' = With(want, f, x)
       /\ UNCHANGED <<media, dedup>>
  BY <1>0, <1>1 DEF c
<1>11. QED
  BY <1>9, <1>10, OneFile

\* A block of its own, or one that dedup found, is given to a dirty buffer.
LEMMA StoreStep ==
    ASSUME FileInv, NEW f \in Files, NEW b \in Blocks(f), NEW x, NEW n \in [Offs -> Packet],
           buf[f][b].st = "dirty", ~ip[f].direct,
           x \in [off : Offs \cup {0}, method : Methods, modified : BOOLEAN, dedupable : BOOLEAN],
           x.off # 0, n[x.off].method = x.method /\ n[x.off].data = buf[f][b].data,
           \A g \in Files : \A d \in Blocks(g) :
              chain[g][d].off # 0 /\ ~(g = f /\ d = b) => n[chain[g][d].off] = media[chain[g][d].off],
           chain' = With(chain, f, With(chain[f], b, x)),
           buf' = With(buf, f, With(buf[f], b, Wrote(buf[f][b]))),
           media' = n, dedup' \subseteq Offs, UNCHANGED <<ip, want>>,
           IF CheckNone = {} THEN x.modified => x.dedupable
           ELSE /\ dedup' = {} /\ ~x.dedupable
                /\ \A g \in Files : \A d \in Blocks(g) :
                     chain[g][d].off = x.off => g = f /\ d = b
    PROVE  FileInv'
<1> DEFINE c == With(chain[f], b, x)  q == With(buf[f], b, Wrote(buf[f][b]))
<1>0. /\ FileOK(f, ip[f], chain[f], buf[f], want[f], media)
      /\ chain[f] \in [Blocks(f) -> [off : Offs \cup {0}, method : Methods,
                                     modified : BOOLEAN, dedupable : BOOLEAN]]
  BY FileHas
<1>1. FileOK(f, ip[f], c, q, want[f], n)
  <2> DEFINE p == ip[f]  k == chain[f]  r == buf[f]  w == want[f]  m == media
  <2>1. /\ FileOK(f, p, k, r, w, m) /\ ~p.direct /\ r[b].st = "dirty"
        /\ n[x.off].method = x.method /\ n[x.off].data = r[b].data
        /\ \A d \in Blocks(f) \ {b} : k[d].off # 0 => n[k[d].off] = m[k[d].off]
    BY <1>0
  <2> HIDE DEF p, k, r, w, m
  <2>2. FileOK(f, p, With(k, b, x), With(r, b, Wrote(r[b])), w, n)
    BY <2>1, WrittenBack
  <2>3. QED
    BY <2>2 DEF p, k, r, w, m
<1>2. c[b] = x /\ \A d \in Blocks(f) : d # b => c[d] = chain[f][d]
  BY <1>0 DEF With
<1> HIDE DEF c, q
<1>3. /\ chain' = [g \in Files |-> IF g = f THEN c ELSE chain[g]]
      /\ buf' = [g \in Files |-> IF g = f THEN q ELSE buf[g]]
  BY DEF FileInv, Whole, With, c, q
<1>4. Whole(ip)' /\ Whole(chain)' /\ Whole(buf)' /\ Whole(want)'
  BY <1>3 DEF Whole, FileInv
<1>5. \A g \in Files : FileOK(g, ip'[g], chain'[g], buf'[g], want'[g], n)
  <2>1. ASSUME NEW g \in Files, g # f
        PROVE  FileOK(g, ip[g], chain[g], buf[g], want[g], n)
    <3>1. FileOK(g, ip[g], chain[g], buf[g], want[g], media)
      BY DEF FileInv
    <3>2. \A d \in Blocks(g) : chain[g][d].off # 0 => n[chain[g][d].off] = media[chain[g][d].off]
      BY <2>1
    <3>3. QED
      BY <3>1, <3>2, MediaFrame
  <2>2. QED
    BY <1>1, <1>3, <2>1
<1>6. SharingOK'
  <2>0. chain'[f] = c /\ \A g \in Files : g # f => chain'[g] = chain[g]
    BY <1>3
  <2>1. CASE CheckNone = {}
    <3>1. \A g \in Files : \A d \in Blocks(g) : chain[g][d].modified => chain[g][d].dedupable
      BY <2>1 DEF FileInv, SharingOK
    <3>2. ASSUME NEW g \in Files, NEW d \in Blocks(g), chain'[g][d].modified
          PROVE  chain'[g][d].dedupable
      <4>1. CASE g = f /\ d = b
        BY <1>2, <2>0, <2>1, <3>2, <4>1
      <4>2. CASE ~(g = f /\ d = b)
        BY <1>2, <2>0, <3>1, <3>2, <4>2
      <4>3. QED
        BY <4>1, <4>2
    <3>3. QED
      BY <2>1, <3>2 DEF SharingOK, Blocks
  <2>2. CASE CheckNone # {}
    <3>1. \A g \in Files : \A d \in Blocks(g) :
              /\ ~chain[g][d].dedupable
              /\ \A h \in Files : \A k \in Blocks(h) :
                   chain[g][d].off # 0 /\ chain[h][k].off = chain[g][d].off => h = g /\ k = d
      BY <2>2 DEF FileInv, SharingOK
    <3>2. ASSUME NEW g \in Files, NEW d \in Blocks(g)
          PROVE  /\ ~chain'[g][d].dedupable
                 /\ chain'[g][d] = IF g = f /\ d = b THEN x ELSE chain[g][d]
      <4>1. CASE g = f /\ d = b
        BY <1>2, <2>0, <2>2, <4>1
      <4>2. CASE ~(g = f /\ d = b)
        BY <1>2, <2>0, <3>1, <4>2
      <4>3. QED
        BY <4>1, <4>2
    <3>3. ASSUME NEW g \in Files, NEW d \in Blocks(g), NEW h \in Files, NEW k \in Blocks(h),
                 chain'[g][d].off # 0, chain'[h][k].off = chain'[g][d].off
          PROVE  h = g /\ k = d
      <4>1. \A u \in Files : \A v \in Blocks(u) : chain[u][v].off = x.off => u = f /\ v = b
        BY <1>2, <2>2
      <4>2. chain'[g][d] = (IF g = f /\ d = b THEN x ELSE chain[g][d])
            /\ chain'[h][k] = (IF h = f /\ k = b THEN x ELSE chain[h][k])
        BY <3>2
      <4>3. CASE g = f /\ d = b
        BY <3>3, <4>1, <4>2, <4>3
      <4>4. CASE h = f /\ k = b
        BY <3>3, <4>1, <4>2, <4>4
      <4>5. CASE ~(g = f /\ d = b) /\ ~(h = f /\ k = b)
        BY <3>1, <3>3, <4>2, <4>5
      <4>6. QED
        BY <4>3, <4>4, <4>5
    <3>4. QED
      BY <2>2, <3>2, <3>3 DEF SharingOK, Blocks
  <2>3. QED
    BY <2>1, <2>2
<1>7. \A g \in Files : FileOK(g, ip[g], chain[g], buf[g], want[g], media)'
  BY <1>2, <1>5, FileLater
<1>8. QED
  BY <1>4, <1>6, <1>7 DEF FileInv, Packet, Data

\* A dirty buffer goes into the inode, or becomes a hole.
LEMMA PlainStep ==
    ASSUME FileInv, NEW f \in Files, NEW b \in Blocks(f),
           strategy_write_inode(f, b) \/ zero_write(f, b)
    PROVE  FileInv'
<1> DEFINE q == [buf[f] EXCEPT ![b] = Wrote(@)]
<1>0. /\ FileOK(f, ip[f], chain[f], buf[f], want[f], media)
      /\ chain[f] \in [Blocks(f) -> [off : Offs \cup {0}, method : Methods,
                                     modified : BOOLEAN, dedupable : BOOLEAN]]
      /\ ip = With(ip, f, ip[f]) /\ chain = With(chain, f, chain[f])
      /\ want = With(want, f, want[f])
  BY FileHas
<1>1. CASE strategy_write_inode(f, b)
  <2> DEFINE p == [ip[f] EXCEPT !.data = [i \in 0 .. BlockSize - 1 |->
                                    IF i < Embedded THEN buf[f][b].data[i] ELSE 0]]
             c == chain[f]  w == want[f]
  <2>1. FileOK(f, p, c, q, w, media)
    BY <1>0, <1>1, WrittenInside DEF strategy_write_inode
  <2>2. /\ ip' = With(ip, f, p) /\ buf' = With(buf, f, q)
        /\ chain' = With(chain, f, c) /\ want' = With(want, f, w) /\ UNCHANGED <<media, dedup>>
        /\ \A d \in Blocks(f) : c[d] = chain[f][d]
    BY <1>0, <1>1 DEF strategy_write_inode, With
  <2> HIDE DEF p, q, c, w
  <2>3. QED
    BY <2>1, <2>2, OneFile
<1>2. CASE zero_write(f, b)
  <2> DEFINE c == With(chain[f], b, NoBlock)  p == ip[f]  w == want[f]
             r == With(buf[f], b, Wrote(buf[f][b]))
  <2>1. /\ NoBlock \in [off : Offs \cup {0}, method : Methods,
                        modified : BOOLEAN, dedupable : BOOLEAN]
        /\ NoBlock.off = 0 /\ ~NoBlock.modified /\ ~NoBlock.dedupable
    BY DEF NoBlock, Methods
  <2>2. buf[f][b].st = "dirty" /\ ~ip[f].direct /\ buf[f][b].data = Zeros
    BY <1>2 DEF zero_write
  <2>3. FileOK(f, p, c, r, w, media)
    BY <1>0, <2>1, <2>2, WrittenBack
  <2>4. /\ ip' = With(ip, f, p) /\ buf' = With(buf, f, r)
        /\ chain' = With(chain, f, c) /\ want' = With(want, f, w) /\ UNCHANGED <<media, dedup>>
    BY <1>0, <1>2 DEF zero_write, With
  <2>5. c[b] = NoBlock /\ \A d \in Blocks(f) : d # b => c[d] = chain[f][d]
    BY <1>0 DEF With
  <2> HIDE DEF p, r, c, w
  <2>6. QED
    BY <2>1, <2>3, <2>4, <2>5, OneFile
<1>3. QED
  BY <1>1, <1>2

\* The least of some blocks.
LEMMA LeastBlock ==
    ASSUME NEW S \in SUBSET Offs, S # {}
    PROVE  (CHOOSE o \in S : \A p \in S : o <= p) \in S
<1>1. S \in SUBSET Nat
  BY FileAssumption
<1>2. QED
  BY <1>1, LeastNat

\* a is a chain to write d to, on a block nobody else has, or one that names a
\* block that holds d.
Assigned(f, b, d, a) ==
    /\ a.chain \in [off : Offs \cup {0}, method : Methods, modified : BOOLEAN, dedupable : BOOLEAN]
    /\ a.chain.off # 0 /\ a.write \in BOOLEAN
    /\ ~a.write => /\ CheckNone = {} /\ ~a.chain.modified /\ a.chain.dedupable
                   /\ media[a.chain.off] = compress(d)
    /\ a.write => /\ \A g \in Files : \A k \in Blocks(g) :
                        chain[g][k].off = a.chain.off => g = f /\ k = b
                  /\ f \notin CheckNone \/ ~a.chain.dedupable

\* hammer2_assign_physical in a state of the invariant: the chain is to be
\* written to a block nobody else has, or names one that holds the data.
LEMMA AssignFacts ==
    ASSUME FileInv, NoMix, NEW f \in Files, NEW b \in Blocks(f), NEW d,
           Cardinality(InUse \ {0}) < Cardinality(Offs)
    PROVE  Assigned(f, b, d, assign_physical(f, chain[f][b], d))
<1> USE DEF Assigned
<1> DEFINE c == chain[f][b]  a == assign_physical(f, c, d)  x == a.chain
           hit == dedup_lookup(d)
<1>0. /\ c \in [off : Offs \cup {0}, method : Methods, modified : BOOLEAN, dedupable : BOOLEAN]
      /\ 0 \notin Offs /\ IsFiniteSet(Offs)
      /\ \A g \in Files : \A k \in Blocks(g) : chain[g][k].off \in Offs \cup {0}
  BY FileHas, FileAssumption
<1>1. hit # 0 => hit \in dedup /\ media[hit] = compress(d)
  <2> DEFINE hits == {o \in dedup : media[o] = compress(d)}
  <2>1. hits \in SUBSET Offs
    BY DEF FileInv
  <2>2. hits # {} => hit \in hits
    BY <2>1, LeastBlock DEF dedup_lookup
  <2>3. hits = {} => hit = 0
    BY DEF dedup_lookup
  <2>4. QED
    BY <2>2, <2>3
<1> HIDE DEF hit
<1>2. NewBlock(InUse) \in Offs \ InUse
  <2>1. InUse \ {0} \subseteq Offs
    BY <1>0 DEF InUse
  <2>2. Cardinality(Offs) \in Nat
    BY <1>0, FS_CardinalityType
  <2>3. ASSUME Offs \ InUse = {} PROVE FALSE
    <3>1. InUse \ {0} = Offs
      BY <1>0, <2>1, <2>3
    <3>2. QED
      BY <2>2, <3>1
  <2>4. QED
    BY <2>3, LeastBlock DEF NewBlock
<1>3. \A g \in Files : \A k \in Blocks(g) : chain[g][k].off \in InUse
  BY DEF InUse
<1>4. CASE c.off # 0 /\ InPlace(f, c)
  <2>1. CheckNone # {} /\ ~c.dedupable
    BY <1>4 DEF InPlace, FileInv, SharingOK
  <2>2. hit = 0
    BY <1>1, <2>1 DEF FileInv, SharingOK
  <2>3. a = [chain |-> [c EXCEPT !.modified = TRUE], write |-> TRUE]
    BY <1>4, <2>2 DEF assign_physical, hit
  <2>4. /\ x \in [off : Offs \cup {0}, method : Methods, modified : BOOLEAN, dedupable : BOOLEAN]
        /\ x.off = c.off /\ x.dedupable = c.dedupable /\ a.write = TRUE
    <3> DEFINE r == [c EXCEPT !.modified = TRUE]
    <3>1. /\ r \in [off : Offs \cup {0}, method : Methods, modified : BOOLEAN, dedupable : BOOLEAN]
          /\ r.off = c.off /\ r.dedupable = c.dedupable
      BY <1>0
    <3>2. a = [chain |-> r, write |-> TRUE]
      BY <2>3
    <3> HIDE DEF a, r
    <3>3. QED
      BY <3>1, <3>2
  <2>5. \A g \in Files : \A k \in Blocks(g) : chain[g][k].off = c.off => g = f /\ k = b
    BY <1>4, <2>1 DEF FileInv, SharingOK
  <2> HIDE DEF a
  <2>6. QED
    BY <1>4, <2>1, <2>4, <2>5 DEF a
<1>5. CASE ~(c.off # 0 /\ InPlace(f, c)) /\ hit # 0
  <2>1. a = [chain |-> [c EXCEPT !.off = hit, !.modified = FALSE, !.dedupable = TRUE],
             write |-> FALSE]
    BY <1>5 DEF assign_physical, hit
  <2>2. hit \in Offs /\ CheckNone = {}
    BY <1>1, <1>5 DEF FileInv, SharingOK
  <2>3. /\ x \in [off : Offs \cup {0}, method : Methods, modified : BOOLEAN, dedupable : BOOLEAN]
        /\ x.off = hit /\ ~x.modified /\ x.dedupable /\ a.write = FALSE
    <3> DEFINE r == [c EXCEPT !.off = hit, !.modified = FALSE, !.dedupable = TRUE]
    <3>1. /\ r \in [off : Offs \cup {0}, method : Methods, modified : BOOLEAN, dedupable : BOOLEAN]
          /\ r.off = hit /\ ~r.modified /\ r.dedupable
      BY <1>0, <2>2
    <3>2. a = [chain |-> r, write |-> FALSE]
      BY <2>1
    <3> HIDE DEF a, r
    <3>3. QED
      BY <3>1, <3>2
  <2> HIDE DEF a
  <2>4. QED
    BY <1>1, <1>5, <2>2, <2>3 DEF a
<1>6. CASE ~(c.off # 0 /\ InPlace(f, c)) /\ hit = 0
  <2>1. a = [chain |-> [c EXCEPT !.off = NewBlock(InUse), !.modified = TRUE, !.dedupable = FALSE],
             write |-> TRUE]
    BY <1>6 DEF assign_physical, hit
  <2> DEFINE o == NewBlock(InUse)
  <2>2. o \in Offs /\ o # 0 /\ o \notin InUse
    BY <1>0, <1>2
  <2> HIDE DEF o
  <2>3. /\ x \in [off : Offs \cup {0}, method : Methods, modified : BOOLEAN, dedupable : BOOLEAN]
        /\ x.off = o /\ ~x.dedupable /\ a.write = TRUE
    <3> DEFINE r == [c EXCEPT !.off = o, !.modified = TRUE, !.dedupable = FALSE]
    <3>1. /\ r \in [off : Offs \cup {0}, method : Methods, modified : BOOLEAN, dedupable : BOOLEAN]
          /\ r.off = o /\ ~r.dedupable
      BY <1>0, <2>2
    <3>2. a = [chain |-> r, write |-> TRUE]
      BY <2>1 DEF o
    <3> HIDE DEF a, r
    <3>3. QED
      BY <3>1, <3>2
  <2> HIDE DEF a
  <2>4. QED
    BY <1>3, <2>2, <2>3 DEF a
<1>7. QED
  BY <1>4, <1>5, <1>6

\* A dirty buffer is compressed, deduplicated and written.
LEMMA CompressStep ==
    ASSUME FileInv, NoMix, NEW f \in Files, NEW b \in Blocks(f), compress_and_write(f, b)
    PROVE  FileInv'
<1> DEFINE d == buf[f][b].data  y == compress(d)
           a == assign_physical(f, chain[f][b], d)
           c == [a.chain EXCEPT !.method = y.method]
           Chain(x) == x \in [off : Offs \cup {0}, method : Methods,
                              modified : BOOLEAN, dedupable : BOOLEAN]
<1>0. /\ buf[f] \in [Blocks(f) -> [data : Data, st : {"none", "clean", "dirty"}]]
      /\ buf[f][b].st = "dirty" /\ ~ip[f].direct /\ media \in [Offs -> Packet]
      /\ Cardinality(InUse \ {0}) < Cardinality(Offs) /\ 0 \notin Offs
  BY FileHas, FileAssumption DEF compress_and_write
<1>1. /\ y \in Packet /\ y.data = d /\ y.method \in Methods
  BY <1>0 DEF compress, Packet, Methods
<1>2. /\ Chain(a.chain) /\ a.chain.off # 0 /\ a.write \in BOOLEAN
      /\ ~a.write => /\ CheckNone = {} /\ ~a.chain.modified /\ a.chain.dedupable
                     /\ media[a.chain.off] = y
      /\ a.write => /\ \A g \in Files : \A k \in Blocks(g) :
                          chain[g][k].off = a.chain.off => g = f /\ k = b
                    /\ f \notin CheckNone \/ ~a.chain.dedupable
  <2>1. Assigned(f, b, d, a)
    BY <1>0, AssignFacts
  <2> HIDE DEF a, d
  <2>2. QED
    BY <2>1 DEF Assigned
<1>3. /\ buf' = With(buf, f, With(buf[f], b, Wrote(buf[f][b]))) /\ UNCHANGED <<ip, want>>
      /\ a.write => /\ media' = [media EXCEPT ![c.off] = y]
                    /\ dedup' = IF f \in CheckNone THEN dedup \ {c.off} ELSE dedup \cup {c.off}
                    /\ chain' = With(chain, f, With(chain[f], b, Recorded(f, c)))
      /\ ~a.write => /\ chain' = With(chain, f, With(chain[f], b, c))
                     /\ UNCHANGED <<media, dedup>>
  BY DEF compress_and_write, With
<1> HIDE DEF a, y
<1>4. /\ Chain(c) /\ c.off = a.chain.off /\ c.method = y.method
      /\ c.modified = a.chain.modified /\ c.dedupable = a.chain.dedupable
  BY <1>1, <1>2
<1> HIDE DEF c
<1>5. CASE a.write
  <2> DEFINE x == Recorded(f, c)  n == [media EXCEPT ![c.off] = y]
  <2>1. /\ Chain(x) /\ x.off = c.off /\ x.method = y.method
        /\ x.dedupable = (f \notin CheckNone)
    BY <1>4 DEF Recorded
  <2>2. c.off \in Offs
    BY <1>2, <1>4
  <2>3. n \in [Offs -> Packet] /\ n[c.off] = y /\ \A o \in Offs : o # c.off => n[o] = media[o]
    BY <1>0, <1>1, <2>2
  <2> HIDE DEF x, n
  <2>4. \A g \in Files : \A k \in Blocks(g) :
           chain[g][k].off # 0 /\ ~(g = f /\ k = b)
              => n[chain[g][k].off] = media[chain[g][k].off]
    <3>1. ASSUME NEW g \in Files, NEW k \in Blocks(g), chain[g][k].off # 0, ~(g = f /\ k = b)
          PROVE  n[chain[g][k].off] = media[chain[g][k].off]
      <4>1. chain[g][k].off \in Offs
        BY <3>1, FileHas
      <4>2. chain[g][k].off # c.off
        BY <1>2, <1>4, <1>5, <3>1
      <4>3. QED
        BY <2>3, <4>1, <4>2
    <3>2. QED
      BY <3>1
  <2>5. dedup' \subseteq Offs
    BY <1>3, <1>5, <2>2 DEF FileInv
  <2>6. IF CheckNone = {} THEN x.modified => x.dedupable
        ELSE /\ dedup' = {} /\ ~x.dedupable
             /\ \A g \in Files : \A k \in Blocks(g) :
                  chain[g][k].off = x.off => g = f /\ k = b
    <3>1. CASE CheckNone = {}
      BY <2>1, <3>1
    <3>2. CASE CheckNone # {}
      <4>1. f \in CheckNone /\ dedup = {}
        BY <3>2 DEF NoMix, FileInv, SharingOK
      <4>2. dedup' = {}
        BY <1>3, <1>5, <4>1
      <4>3. QED
        BY <1>2, <1>4, <1>5, <2>1, <3>2, <4>1, <4>2
    <3>3. QED
      BY <3>1, <3>2
  <2>7. /\ x.off # 0 /\ n[x.off].method = x.method /\ n[x.off].data = buf[f][b].data
        /\ chain' = With(chain, f, With(chain[f], b, x)) /\ media' = n
    BY <1>1, <1>2, <1>3, <1>4, <1>5, <2>1, <2>3 DEF x, n
  <2>8. QED
    BY <1>0, <1>3, <2>1, <2>3, <2>4, <2>5, <2>6, <2>7, StoreStep
<1>6. CASE ~a.write
  <2>1. /\ chain' = With(chain, f, With(chain[f], b, c)) /\ media' = media /\ dedup' = dedup
        /\ CheckNone = {} /\ ~c.modified
        /\ c.off # 0 /\ media[c.off].method = c.method /\ media[c.off].data = buf[f][b].data
    BY <1>1, <1>2, <1>3, <1>4, <1>6
  <2>2. dedup' \subseteq Offs
    BY <2>1 DEF FileInv
  <2>3. QED
    BY <1>0, <1>3, <1>4, <2>1, <2>2, StoreStep
<1>7. QED
  BY <1>2, <1>5, <1>6

\* Init => Inv
LEMMA FileInit1 == FileInit => FileInv
<1> SUFFICES ASSUME FileInit PROVE FileInv
  OBVIOUS
<1>1. Zeros \in Data /\ NoBlock.off = 0 /\ ~NoBlock.modified /\ ~NoBlock.dedupable
      /\ NoBlock \in [off : Offs \cup {0}, method : Methods, modified : BOOLEAN, dedupable : BOOLEAN]
      /\ NoBuf \in [data : Data, st : {"none", "clean", "dirty"}] /\ NoBuf.st = "none"
      /\ [method |-> "none", data |-> Zeros] \in Packet
  BY DEF Zeros, Data, NoBlock, NoBuf, Methods, Packet
<1>2. Whole(ip) /\ Whole(chain) /\ Whole(buf) /\ Whole(want)
  BY DEF Whole, FileInit
<1>3. media \in [Offs -> Packet] /\ dedup \subseteq Offs
  BY <1>1 DEF FileInit
<1>4. ASSUME NEW f \in Files PROVE FileOK(f, ip[f], chain[f], buf[f], want[f], media)
  <2> DEFINE p == ip[f]  c == chain[f]  bf == buf[f]  w == want[f]
  <2>1. /\ p = [size |-> 0, direct |-> TRUE, data |-> Zeros]
        /\ c = [b \in Blocks(f) |-> NoBlock] /\ bf = [b \in Blocks(f) |-> NoBuf]
        /\ w = [u \in Units(f) |-> 0]
    BY DEF FileInit
  <2> HIDE DEF p, c, bf, w
  <2>2. FileTyped(f, p, c, bf, w)
    <3>1. 0 <= SizeMax[f]
      BY FileAssumption
    <3>2. p \in [size : Nat, direct : BOOLEAN, data : Data] /\ p.size = 0
      BY <1>1, <2>1
    <3>3. QED
      BY <1>1, <2>1, <3>1, <3>2 DEF FileTyped
  <2>3. DirectOK(f, p, c, bf) /\ BeyondOK(f, p, w) /\ MethodOK(f, c, media)
    BY <1>1, <2>1, FileAssumption DEF DirectOK, BeyondOK, MethodOK
  <2>4. ContentOK(f, p, c, bf, w, media)
    <3>1. ASSUME NEW u \in Units(f) PROVE UnitOK(p, c, bf, w, media, u)
      <4>1. BlockOf(u) \in Blocks(f) /\ u % BlockSize \in 0 .. BlockSize - 1
        BY UnitFacts
      <4>2. Stored(p, c, BlockOf(u), media) = Zeros
        BY <1>1, <2>1, <4>1 DEF Stored, Fetched
      <4>3. Zeros[u % BlockSize] = 0 /\ w[u] = 0 /\ bf[BlockOf(u)].st = "none"
        BY <1>1, <2>1, <4>1 DEF Zeros
      <4>4. QED
        BY <4>2, <4>3 DEF UnitOK
    <3>2. QED
      BY <3>1 DEF ContentOK
  <2>5. QED
    BY <2>2, <2>3, <2>4 DEF FileOK, p, c, bf, w
<1>5. SharingOK
  BY <1>1 DEF FileInit, SharingOK
<1>6. QED
  BY <1>2, <1>3, <1>4, <1>5 DEF FileInv

\* A step keeps it.
LEMMA FileStep == ASSUME FileInv, NoMix, [FileNext]_fileVars PROVE FileInv'
<1>1. CASE UNCHANGED fileVars
  <2>1. UNCHANGED <<ip, chain, buf, want, media, dedup>>
    BY <1>1 DEF fileVars
  <2>2. Whole(ip)' /\ Whole(chain)' /\ Whole(buf)' /\ Whole(want)'
        /\ (media \in [Offs -> Packet])' /\ dedup' \subseteq Offs
    BY <2>1 DEF FileInv, Whole, Packet, Data
  <2>3. \A g \in Files : FileOK(g, ip[g], chain[g], buf[g], want[g], media)'
    BY <2>1, FileLater DEF FileInv
  <2>4. SharingOK'
    BY <2>1 DEF FileInv, SharingOK, Blocks
  <2>5. QED
    BY <2>2, <2>3, <2>4 DEF FileInv
<1>2. CASE FileNext
  <2>1. PICK f \in Files :
          \/ \E w \in Writes[f] : write_file(f, w[1], w[2], w[3])
          \/ \E n \in Sizes[f] : extend_file(f, n) \/ truncate_file(f, n)
          \/ file_flush(f)
          \/ \E b \in Blocks(f) :
               \/ read_file(f, b) \/ Reuse(f, b) \/ chain_drop(f, b)
               \/ strategy_write_inode(f, b) \/ zero_write(f, b) \/ compress_and_write(f, b)
    BY <1>2 DEF FileNext
  <2>2. ASSUME NEW w \in Writes[f], write_file(f, w[1], w[2], w[3]) PROVE FileInv'
    <3>1. /\ w[1] \in 0 .. SizeMax[f] /\ w[2] \in 0 .. SizeMax[f] /\ w[3] \in Values \cup {0}
          /\ SizeMax[f] \in Nat
      BY FileAssumption
    <3>2. QED
      BY <2>2, <3>1, WriteStep
  <2>3. QED
    BY <2>1, <2>2, SizeStep, FlagStep, CacheStep, PlainStep, CompressStep
<1>3. QED
  BY <1>1, <1>2

\* What the invariant says of reads.
LEMMA FileInvSound == FileInv => FileSound
<1> SUFFICES ASSUME FileInv PROVE FileSound
  OBVIOUS
<1>1. FileTypeOK
  <2>1. ip \in [Files -> [size : Nat, direct : BOOLEAN, data : Data]]
    <3>1. \A f \in Files : ip[f] \in [size : Nat, direct : BOOLEAN, data : Data]
      BY FileHas
    <3>2. QED
      BY <3>1 DEF FileInv, Whole
  <2>2. QED
    BY <2>1, FileHas DEF FileTypeOK, FileInv, Packet
<1>2. ASSUME NEW f \in Files, NEW u \in Units(f), u < ip[f].size, want[f][u] # Cut
      PROVE  bread(f, BlockOf(u))[u % BlockSize] = want[f][u]
  <2> DEFINE b == BlockOf(u)
  <2>1. /\ FileOK(f, ip[f], chain[f], buf[f], want[f], media) /\ ip[f].size \in Nat
        /\ buf[f] \in [Blocks(f) -> [data : Data, st : {"none", "clean", "dirty"}]]
    BY FileHas
  <2>2. /\ u \in Nat /\ b \in Blocks(f) /\ b \in Nat /\ u % BlockSize \in 0 .. BlockSize - 1
        /\ u = b * BlockSize + (u % BlockSize)
    BY UnitFacts
  <2>3. ip[f].direct => b = 0
    <3>1. ip[f].direct => ip[f].size <= Embedded
      BY <2>1 DEF FileOK, DirectOK
    <3>2. b # 0 => BlockSize <= u
      BY <2>2, BlockFacts, FileAssumption
    <3>3. QED
      BY <1>2, <2>1, <2>2, <3>1, <3>2, FileAssumption
  <2>4. strategy_read(f, b, ip[f]) = Stored(ip[f], chain[f], b, media)
    BY <2>3 DEF strategy_read, Stored, Fetched
  <2>5. UnitOK(ip[f], chain[f], buf[f], want[f], media, u)
    BY <2>1 DEF FileOK, ContentOK
  <2>6. QED
    BY <1>2, <2>1, <2>2, <2>4, <2>5 DEF UnitOK, bread
<1>3. QED
  BY <1>1, <1>2 DEF FileSound, ReadsLastWritten

\* FileInv holds after any writes, flushes, truncations and evictions, when the
\* files are all with check codes or all without (hammer2_strategy_write and its
\* helpers).
THEOREM FileInvariance == ASSUME NoMix PROVE FileSpec => []FileInv
<1>1. FileInit => FileInv
  BY FileInit1
<1>2. FileInv /\ [FileNext]_fileVars => FileInv'
  BY FileStep
<1>3. QED
  BY <1>1, <1>2, PTL DEF FileSpec

\* A unit below the size reads as it was last written, from its buffer or from
\* the media, and so do the blocks that another file's write was deduplicated
\* against (hammer2_strategy_read_completion, hammer2_write_file_core,
\* hammer2_assign_physical): no file is overwritten through a block it shares.
THEOREM FilesAreSound == ASSUME NoMix PROVE FileSpec => []FileSound
<1>1. FileInv => FileSound
  BY FileInvSound
<1>2. QED
  BY <1>1, FileInvariance, PTL
================================================================================
