-------------------------------- MODULE Xop --------------------------------
(***************************************************************************)
(* XOPs (hammer2_admin.c, and the logical reads and writes of              *)
(* hammer2_strategy.c): a frontend queues an operation to one worker       *)
(* thread per node of the cluster, each feeds the chains it finds into a   *)
(* fifo of its own, and the frontend collects what a quorum agrees on.  An *)
(* asynchronous read or write has no frontend left: the worker whose       *)
(* collect is satisfied completes the buffer and retires the frontend's    *)
(* bit.  Kernel threads run under one lock, so a step reaches from one     *)
(* place that may sleep to the next.                                       *)
(***************************************************************************)
EXTENDS Cluster

CONSTANTS Xops,       \* slots of the pool of XOPs
          VOP,        \* the frontend's bit of run_mask
          NoXop,
          FifoSize,   \* HAMMER2_XOPFIFO
          XopKinds,   \* the kinds of operation each slot is used for
          Answers     \* what the nodes may have to say to a scan, by rising keys

Kinds == {"scan", "flush", "read", "write"}

ASSUME XopAssumption ==
    /\ VOP \notin Nodes /\ NoXop \notin Xops
    /\ FifoSize \in Nat \ {0}
    /\ XopKinds \in [Xops -> SUBSET Kinds]
    /\ Answers \subseteq [Nodes -> Seq(Chain)]
    /\ \A a \in Answers : \A n \in Nodes : \A i, j \in 1..Len(a[n]) :
          i < j => a[n][i].key < a[n][j].key

VARIABLES
    head,    \* hammer2_xop_head_t, and the fields of hammer2_xop_strategy_t
    fifo,    \* collect[clindex] of each XOP
    clu,     \* its cluster.array
    xopq,    \* thr->xopq, per node
    wk,      \* the worker of each node
    fe,      \* the frontend of each XOP
    answer,  \* what each node will feed
    got,     \* what collect has returned to the frontend
    bp       \* how often the buffer of an asynchronous XOP was completed

xopVars == <<head, fifo, clu, xopq, wk, fe, answer, got, bp>>

\* fresh: run_mask is still what the collector read, its FEED count included;
\* pos: the slot the collector is at, 0 when it has yet to read run_mask.
HeadState == [kind : Kinds, mask : SUBSET (Nodes \cup {VOP}), wait : BOOLEAN,
              fresh : BOOLEAN, size : Nat, ckey : 0..KeyMax,
              finished : BOOLEAN, lock : Nodes \cup {0}, pos : Nat]

\* The array of a fifo; entries never fed hold a NULL chain and no error.
Entry == [chain : Chain \cup {NoChain}, err : Errors]
NullEntry == [chain |-> NoChain, err |-> "0"]
FifoState == [array : Seq(Entry), ri : Nat, wi : Nat]
NewFifo == [array |-> [i \in 1..FifoSize |-> NullEntry], ri |-> 0, wi |-> 0]

WorkerPCs == {"drain", "asleep", "copy", "feed", "race", "collect",
              "complete", "done"}

XopTypeOK ==
    /\ head \in [Xops -> HeadState]
    /\ fifo \in [Xops -> [Nodes -> FifoState]]
    /\ clu \in [Xops -> [Nodes -> Slot]]
    /\ xopq \in [Nodes -> Seq(Xops)]
    /\ wk \in [Nodes -> [pc : WorkerPCs, x : Xops \cup {NoXop}]]
    /\ fe \in [Xops -> {"none", "collect", "asleep", "ready"}]
    /\ answer \in [Xops -> [Nodes -> Seq(Chain)]]
    /\ got \in [Xops -> Seq([err : Errors, key : 0..KeyMax, tid : 0..TidMax])]
    /\ bp \in [Xops -> 0..2]

Fresh(kind, mask) ==
    [kind |-> kind, mask |-> mask, wait |-> FALSE, fresh |-> FALSE,
     size |-> FifoSize, ckey |-> 0, finished |-> FALSE, lock |-> 0, pos |-> 0]

XopInit ==
    /\ head = [x \in Xops |-> Fresh("scan", {})]
    /\ fifo = [x \in Xops |-> [n \in Nodes |-> NewFifo]]
    /\ clu = [x \in Xops |-> [n \in Nodes |-> EmptySlot]]
    /\ xopq = [n \in Nodes |-> <<>>]
    /\ wk = [n \in Nodes |-> [pc |-> "drain", x |-> NoXop]]
    /\ fe = [x \in Xops |-> "none"]
    /\ answer = [x \in Xops |-> [n \in Nodes |-> <<>>]]
    /\ got = [x \in Xops |-> <<>>]
    /\ bp = [x \in Xops |-> 0]

Async(x) == head[x].kind \in {"read", "write"}

-----------------------------------------------------------------------------
(* hammer2_xop_alloc, hammer2_xop_start_except, hammer2_thr_signal           *)

\* The signal wakes a worker that waits; one at work looks at its queue again
\* before it sleeps, and the lock of the kernel lies over that last look.
BugSignalled(w) == w
Signalled(w) == [w EXCEPT !.pc = IF @ = "asleep" THEN "drain" ELSE @]

\* Modifying operations go to the masters; reads, and the flush, to all.
Targets(kind) == IF kind = "write" /\ Cardinality(Nodes) >= 2 THEN Masters ELSE Nodes

xop_start(x, kind) ==
    /\ head[x].mask = {}
    /\ head' = [head EXCEPT ![x] = Fresh(kind, Targets(kind) \cup {VOP})]
    /\ xopq' = [n \in Nodes |->
                  IF n \in Targets(kind) THEN Append(xopq[n], x) ELSE xopq[n]]
    /\ wk' = [n \in Nodes |-> Signalled(wk[n])]
    /\ fe' = [fe EXCEPT ![x] = IF kind \in {"scan", "flush"} THEN "collect" ELSE "none"]
    /\ IF kind \in {"scan", "read"}
       THEN \E a \in Answers : answer' = [answer EXCEPT ![x] = a]
       ELSE UNCHANGED answer
    /\ UNCHANGED <<fifo, clu, got, bp>>

-----------------------------------------------------------------------------
(* hammer2_xop_retire.  The last bit taken away disposes of the XOP; the     *)
(* last backend wakes a waiting frontend.                                    *)

Retired(h, bit) == [h EXCEPT !.mask = @ \ {bit}, !.fresh = FALSE]

\* A retirement by a backend that takes the frontend's bit for gone.
Bugxop_retire(x, bit) ==
    IF head[x].mask \ {VOP} \subseteq {bit}
    THEN /\ head' = [head EXCEPT ![x] = Fresh("scan", {})]
         /\ fifo' = [fifo EXCEPT ![x] = [n \in Nodes |-> NewFifo]]
         /\ clu' = [clu EXCEPT ![x] = [n \in Nodes |-> EmptySlot]]
         /\ answer' = [answer EXCEPT ![x] = [n \in Nodes |-> <<>>]]
         /\ got' = [got EXCEPT ![x] = <<>>]
         /\ bp' = [bp EXCEPT ![x] = 0]
    ELSE /\ head' = [head EXCEPT ![x] = Retired(@, bit)]
         /\ UNCHANGED <<fifo, clu, answer, got, bp>>
xop_retire(x, bit) ==
    IF head[x].mask = {bit}
    THEN /\ head' = [head EXCEPT ![x] = Fresh("scan", {})]
         /\ fifo' = [fifo EXCEPT ![x] = [n \in Nodes |-> NewFifo]]
         /\ clu' = [clu EXCEPT ![x] = [n \in Nodes |-> EmptySlot]]
         /\ answer' = [answer EXCEPT ![x] = [n \in Nodes |-> <<>>]]
         /\ got' = [got EXCEPT ![x] = <<>>]
         /\ bp' = [bp EXCEPT ![x] = 0]
    ELSE /\ head' = [head EXCEPT ![x] = Retired(@, bit)]
         /\ UNCHANGED <<fifo, clu, answer, got, bp>>

WokenByRetire(x, bit) ==
    IF bit # VOP /\ head[x].mask = {VOP, bit} /\ head[x].wait /\ fe[x] = "asleep"
    THEN [fe EXCEPT ![x] = "collect"] ELSE fe

-----------------------------------------------------------------------------
(* hammer2_xop_feed.  The fifo grows when it is full, by doubling the size   *)
(* all fifos of the XOP share.                                               *)

Full(x, n) == fifo[x][n].wi - fifo[x][n].ri = head[x].size

Grown(a, size) == [i \in 1..size |-> IF i <= Len(a) THEN a[i] ELSE NullEntry]

Put(f, e, size) ==
    LET a == IF f.wi - f.ri = size THEN Grown(f.array, 2 * size) ELSE f.array
        i == f.wi % (IF f.wi - f.ri = size THEN 2 * size ELSE size)
    IN [f EXCEPT !.array = [a EXCEPT ![i + 1] = e], !.wi = @ + 1]

\* FEED is added to run_mask and a waiting collector woken.
Fed(h, full) ==
    [h EXCEPT !.fresh = FALSE, !.wait = FALSE, !.size = IF full THEN 2 * @ ELSE @]

xop_feed(x, n, e) ==
    /\ fifo' = [fifo EXCEPT ![x][n] = Put(@, e, head[x].size)]
    /\ head' = [head EXCEPT ![x] = Fed(@, Full(x, n))]
    /\ fe' = IF head[x].wait /\ fe[x] = "asleep"
             THEN [fe EXCEPT ![x] = "collect"] ELSE fe

\* The i-th thing node n feeds: the chains of its scan, then the end of it;
\* the one chain of a read; nothing but its end for a write or a flush.
Response(x, n, i) ==
    IF head[x].kind \in {"scan", "read"} /\ i < Len(answer[x][n])
    THEN [chain |-> answer[x][n][i + 1], err |-> answer[x][n][i + 1].err]
    ELSE NullEntry
LastResponse(x, n, i) == head[x].kind # "scan" \/ i = Len(answer[x][n])

-----------------------------------------------------------------------------
(* hammer2_primary_xops_thread, hammer2_xop_next, hammer2_xop_dequeue        *)

Run(n, pc) == wk' = [wk EXCEPT ![n].pc = pc]

\* hammer2_xop_next: the thread is alone on its queue and takes the oldest.
\* A frontend that has left already makes it skip the storage function.
WorkerNext(n) ==
    /\ wk[n].pc = "drain" /\ xopq[n] # <<>>
    /\ LET x == Head(xopq[n])
           pc == IF VOP \notin head[x].mask THEN "done"
                 ELSE IF head[x].kind = "write" THEN "copy" ELSE "feed"
       IN wk' = [wk EXCEPT ![n].pc = pc, ![n].x = x]
    /\ UNCHANGED <<head, fifo, clu, xopq, fe, answer, got, bp>>

WorkerSleep(n) ==
    /\ wk[n].pc = "drain" /\ xopq[n] = <<>>
    /\ Run(n, "asleep")
    /\ UNCHANGED <<head, fifo, clu, xopq, fe, answer, got, bp>>

\* The poll every 30 seconds.
WorkerTimeout(n) ==
    /\ wk[n].pc = "asleep"
    /\ Run(n, "drain")
    /\ UNCHANGED <<head, fifo, clu, xopq, fe, answer, got, bp>>

\* A storage function feeds what it has found so far; when the frontend has
\* left, hammer2_xop_feed returns ABORTED and the scan ends.
WorkerFeed(n) ==
    LET x == wk[n].x  i == fifo[x][n].wi IN
    /\ wk[n].pc = "feed"
    /\ IF VOP \notin head[x].mask
       THEN Run(n, IF Async(x) THEN "race" ELSE "done") /\ UNCHANGED <<head, fifo, fe>>
       ELSE /\ xop_feed(x, n, Response(x, n, i))
            /\ Run(n, IF Async(x) THEN "race"
                      ELSE IF LastResponse(x, n, i) THEN "done" ELSE "feed")
    /\ UNCHANGED <<clu, xopq, answer, got, bp>>

\* The storage function of a write copies the buffer while nobody has
\* completed it (strategy_write takes xop->lock shared for the copy).
WorkerCopy(n) ==
    LET x == wk[n].x IN
    /\ wk[n].pc = "copy"
    /\ head[x].finished \/ head[x].lock = 0
    /\ Run(n, IF head[x].finished THEN "done" ELSE "feed")
    /\ UNCHANGED <<head, fifo, clu, xopq, fe, answer, got, bp>>

\* The race to finish: xop->lock exclusively, finished tested before and after.
BugWorkerRace(n) ==
    LET x == wk[n].x IN
    /\ wk[n].pc = "race"
    /\ head[x].lock = 0
    /\ Run(n, "collect")
    /\ head' = [head EXCEPT ![x].lock = n, ![x].pos = 0]
    /\ UNCHANGED <<fifo, clu, xopq, fe, answer, got, bp>>
WorkerRace(n) ==
    LET x == wk[n].x IN
    /\ wk[n].pc = "race"
    /\ head[x].finished \/ head[x].lock = 0
    /\ IF head[x].finished
       THEN Run(n, "done") /\ UNCHANGED head
       ELSE /\ Run(n, "collect")
            /\ head' = [head EXCEPT ![x].lock = n, ![x].pos = 0]
    /\ UNCHANGED <<fifo, clu, xopq, fe, answer, got, bp>>

\* biodone, then the frontend's bit is retired for it.
WorkerComplete(n) ==
    LET x == wk[n].x IN
    /\ wk[n].pc = "complete"
    /\ bp' = [bp EXCEPT ![x] = IF @ < 2 THEN @ + 1 ELSE @]
    /\ head' = [head EXCEPT ![x] = Retired(@, VOP)]
    /\ Run(n, "done")
    /\ UNCHANGED <<fifo, clu, xopq, fe, answer, got>>

\* hammer2_xop_dequeue and the retirement of the node's bit.
WorkerDone(n) ==
    LET x == wk[n].x IN
    /\ wk[n].pc = "done"
    /\ xopq' = [xopq EXCEPT ![n] = Tail(@)]
    /\ wk' = [wk EXCEPT ![n] = [pc |-> "drain", x |-> NoXop]]
    /\ xop_retire(x, n)
    /\ fe' = WokenByRetire(x, n)

-----------------------------------------------------------------------------
(* hammer2_xop_collect, by the frontend or by the worker that holds          *)
(* xop->lock.                                                                *)

Collecting(x) == fe[x] = "collect" \/ \E n \in Nodes : wk[n].x = x /\ wk[n].pc = "collect"

CollectRead(x) ==
    /\ Collecting(x) /\ head[x].pos = 0
    /\ head' = [head EXCEPT ![x].pos = 1, ![x].fresh = TRUE]
    /\ UNCHANGED <<fifo, clu, xopq, wk, fe, answer, got, bp>>

\* One slot: a chain below collect_key is dropped, which may sleep, and the
\* next entry of the node's fifo, if there is one, takes its place.
CollectSlot(x) ==
    LET n == head[x].pos  s == clu[x][n]  f == fifo[x][n]
        e == f.array[(f.ri % head[x].size) + 1]
        advance == s.chain = NoChain \/ s.chain.key < head[x].ckey
    IN
    /\ Collecting(x) /\ n \in Nodes
    /\ IF advance /\ f.ri # f.wi
       THEN /\ clu' = [clu EXCEPT ![x][n] =
                         [chain |-> e.chain, err |-> e.err,
                          null |-> s.null \/ e.chain = NoChain]]
            /\ fifo' = [fifo EXCEPT ![x][n].ri = @ + 1]
            /\ UNCHANGED head
       ELSE /\ clu' = [clu EXCEPT ![x][n].chain = IF advance THEN NoChain ELSE @]
            /\ head' = [head EXCEPT ![x].pos = n + 1]
            /\ UNCHANGED fifo
    /\ UNCHANGED <<xopq, wk, fe, answer, got, bp>>

\* COLLECT_WAITALL: the mask that was read had backends in it.
BackendsLeft(x) == ~(head[x].fresh /\ head[x].mask = {VOP})

Verdict(x) == IF head[x].kind = "flush" /\ BackendsLeft(x)
              THEN Result("EINPROGRESS", 0, 0) ELSE cluster_check(clu[x])
Skips(x) == /\ Verdict(x).err \in {"ESRCH", "EDEADLK"} /\ LowKey(clu[x]) # KeyMax

AtCheck(x) == Collecting(x) /\ head[x].pos = Max(Nodes) + 1

\* No valid element at this key: skip it and look again.
CollectSkip(x) ==
    /\ AtCheck(x) /\ Skips(x)
    /\ head' = [head EXCEPT ![x].ckey = LowKey(clu[x]) + 1, ![x].pos = 0]
    /\ UNCHANGED <<fifo, clu, xopq, wk, fe, answer, got, bp>>

\* Not enough answers yet: sleep if run_mask is still what was read, else
\* start over (compare-and-set of WAIT, then tsleep).
CollectWait(x) ==
    /\ AtCheck(x) /\ fe[x] = "collect" /\ Verdict(x).err = "EINPROGRESS"
    /\ head' = [head EXCEPT ![x].pos = 0, ![x].wait = @ \/ head[x].fresh]
    /\ fe' = IF head[x].fresh THEN [fe EXCEPT ![x] = "asleep"] ELSE fe
    /\ UNCHANGED <<fifo, clu, xopq, wk, answer, got, bp>>

\* COLLECT_NOWAIT: the worker gives the lock back and leaves the buffer to
\* whoever comes after it.
CollectNowait(x) ==
    /\ AtCheck(x) /\ fe[x] # "collect" /\ Verdict(x).err = "EINPROGRESS"
    /\ LET n == head[x].lock
       IN /\ head' = [head EXCEPT ![x].pos = 0, ![x].lock = 0]
          /\ Run(n, "done")
    /\ UNCHANGED <<fifo, clu, xopq, fe, answer, got, bp>>

\* A verdict: the frontend gets it, or the worker is the one to complete.
CollectReturn(x) ==
    LET v == Verdict(x)
        err == IF v.err = "ESRCH" THEN "ENOENT" ELSE v.err
        key == LowKey(clu[x])
        h == [head[x] EXCEPT !.pos = 0,
                             !.ckey = IF key = KeyMax THEN key ELSE key + 1]
    IN
    /\ AtCheck(x) /\ v.err # "EINPROGRESS" /\ ~Skips(x)
    /\ got' = [got EXCEPT ![x] = Append(@, [err |-> err, key |-> key, tid |-> v.tid])]
    /\ IF fe[x] = "collect"
       THEN /\ fe' = [fe EXCEPT ![x] = "ready"]
            /\ head' = [head EXCEPT ![x] = h]
            /\ UNCHANGED wk
       ELSE /\ head' = [head EXCEPT ![x] = [h EXCEPT !.finished = TRUE, !.lock = 0]]
            /\ Run(head[x].lock, "complete")
            /\ UNCHANGED fe
    /\ UNCHANGED <<fifo, clu, xopq, answer, bp>>

CollectTimeout(x) ==
    /\ fe[x] = "asleep"
    /\ fe' = [fe EXCEPT ![x] = "collect"]
    /\ UNCHANGED <<head, fifo, clu, xopq, wk, answer, got, bp>>

\* The caller goes on with its scan, or leaves: at the end, on an error, or
\* because it has enough.
FrontAgain(x) ==
    /\ fe[x] = "ready" /\ Last(got[x]).err = "0"
    /\ fe' = [fe EXCEPT ![x] = "collect"]
    /\ UNCHANGED <<head, fifo, clu, xopq, wk, answer, got, bp>>
FrontRetire(x) ==
    /\ fe[x] = "ready"
    /\ xop_retire(x, VOP)
    /\ fe' = [fe EXCEPT ![x] = "none"]
    /\ UNCHANGED <<xopq, wk>>

-----------------------------------------------------------------------------
Worker(n) ==
    \/ WorkerNext(n) \/ WorkerSleep(n) \/ WorkerFeed(n)
    \/ WorkerCopy(n) \/ WorkerRace(n) \/ WorkerComplete(n) \/ WorkerDone(n)
Collect(x) ==
    \/ CollectRead(x) \/ CollectSlot(x) \/ CollectSkip(x) \/ CollectWait(x)
    \/ CollectNowait(x) \/ CollectReturn(x)

XopNext ==
    \/ \E x \in Xops :
          \/ \E kind \in XopKinds[x] : xop_start(x, kind)
          \/ Collect(x) \/ CollectTimeout(x) \/ FrontAgain(x) \/ FrontRetire(x)
    \/ \E n \in Nodes : Worker(n) \/ WorkerTimeout(n)

\* Threads run on when they can.  Nothing is promised of the timeouts: no
\* operation may need one to finish.
XopFairness ==
    /\ \A n \in Nodes : WF_xopVars(Worker(n))
    /\ \A x \in Xops : WF_xopVars(Collect(x)) /\ WF_xopVars(FrontRetire(x))

XopSpec == XopInit /\ [][XopNext]_xopVars /\ XopFairness

-----------------------------------------------------------------------------
\* A scan returns the keys a quorum of the masters agrees on, each with the
\* agreed tid and in order, whatever the order the nodes answered in and
\* whatever else slaves or a minority hold; it ends with ENOENT only when
\* none is left (hammer2_xop_collect and hammer2_cluster_check together).
\* Everything it is collected from is of its type.
Delivered(x) == {<<got[x][i].key, got[x][i].tid>> :
                   i \in {j \in DOMAIN got[x] : got[x][j].err = "0"}}
CollectsQuorum ==
    /\ XopTypeOK
    /\ \A x \in Xops : fe[x] = "ready" /\ head[x].kind = "scan" =>
        LET all == QuorumKeys(answer[x]) IN
        /\ Delivered(x) \subseteq all
        /\ \A i, j \in DOMAIN got[x] : i < j => got[x][i].key < got[x][j].key
        /\ \A kt \in all :
              \/ kt \in Delivered(x) \/ kt[1] > Last(got[x]).key
              \/ kt[1] = Last(got[x]).key /\ Last(got[x]).err # "0"
        /\ Last(got[x]).err = "ENOENT" => Delivered(x) = all

\* The XOP outlives everyone who uses it: whoever runs, queues or collects it
\* still has a bit of run_mask, so the last retirement frees it under nobody.
UsersHoldBits ==
    /\ \A n \in Nodes : \A i \in DOMAIN xopq[n] : n \in head[xopq[n][i]].mask
    /\ \A n \in Nodes : wk[n].x # NoXop => xopq[n] # <<>> /\ wk[n].x = Head(xopq[n])
    /\ \A x \in Xops : fe[x] # "none" => VOP \in head[x].mask

\* What a fifo holds between ri and wi is what was fed, in that order, also
\* after hammer2_xop_feed has let it grow ("Responses are collected into a
\* cohesive response >= collect_key").
FifoKeepsAnswers ==
    \A x \in Xops, n \in Nodes : head[x].mask # {} =>
        LET f == fifo[x][n] IN
        \A i \in f.ri .. f.wi - 1 :
            LET slot == (i % head[x].size) + 1
            IN slot <= Len(f.array) /\ f.array[slot] = Response(x, n, i)

\* The buffer of a logical read or write is completed exactly once, by the
\* worker whose collect was satisfied.
BufferOnce ==
    \A x \in Xops : Async(x) =>
        /\ bp[x] = IF VOP \in head[x].mask THEN 0 ELSE 1
        /\ \A n \in Nodes : wk[n].x = x /\ wk[n].pc = "complete" => bp[x] = 0

\* Who uses an XOP, and its buffer, has it while it does.
XopSound == UsersHoldBits /\ BufferOnce

\* Every XOP that is started is disposed of in the end.
XopEnds == \A x \in Xops : head[x].mask # {} ~> head[x].mask = {}

=============================================================================
