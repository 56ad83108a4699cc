------------------------------ MODULE XopProofs ------------------------------
(***************************************************************************)
(* Theorems about the operations of a cluster (Xop): for every number of   *)
(* nodes and of XOPs, an XOP outlives its users, a buffer is completed     *)
(* exactly once, and with one master a scan collects what the master has.  *)
(***************************************************************************)
EXTENDS Xop, Counting

-----------------------------------------------------------------------------
(* The inductive invariant.                                                  *)

\* The index of a node is never 0, which stands for no node.
LEMMA NodesAre ==
    Nodes \subseteq Nat \ {0} /\ IsFiniteSet(Nodes)
<1>1. IsFiniteSet(Nodes) /\ Nodes = 1..Cardinality(Nodes)
  BY ClusterAssumption
<1>2. Cardinality(Nodes) \in Nat
  BY <1>1, FS_CardinalityType
<1>3. QED
  BY <1>1, <1>2

\* The fields of an XOP that decide who uses it; size, ckey and pos are data of
\* the collector.
HeadIs(h) ==
    h \in [kind : Kinds, mask : SUBSET (Nodes \cup {VOP}), wait : BOOLEAN,
           fresh : BOOLEAN, size : {h.size}, ckey : {h.ckey},
           finished : BOOLEAN, lock : Nodes \cup {0}, pos : {h.pos}]

FrontStates == {"none", "collect", "asleep", "ready"}

ControlOK ==
    /\ head = [x \in Xops |-> head[x]] /\ \A x \in Xops : HeadIs(head[x])
    /\ xopq \in [Nodes -> Seq(Xops)]
    /\ wk \in [Nodes -> [pc : WorkerPCs, x : Xops \cup {NoXop}]]
    /\ fe \in [Xops -> FrontStates]
    /\ bp \in [Xops -> 0..2]

\* A queue holds an XOP once, and a worker at work is at the head of its queue.
QueueInv ==
    /\ \A n \in Nodes : \A i, j \in DOMAIN xopq[n] : xopq[n][i] = xopq[n][j] => i = j
    /\ \A n \in Nodes : wk[n].x = NoXop <=> wk[n].pc \in {"drain", "asleep"}

Works(n, x, pc) == wk[n].x = x /\ wk[n].pc = pc

\* The buffer of an asynchronous XOP: whoever holds the lock is the one to
\* finish it, and whoever finished it the one to complete it.
BufferOf(x) ==
    /\ head[x].mask = {} => ~Async(x)
    /\ ~Async(x) => /\ bp[x] = 0
                    /\ \A n \in Nodes : wk[n].x = x =>
                          wk[n].pc \notin {"race", "collect", "complete"}
    /\ Async(x) => /\ fe[x] = "none"
                   /\ bp[x] = IF VOP \in head[x].mask THEN 0 ELSE 1
                   /\ VOP \notin head[x].mask => head[x].finished
    /\ \A n \in Nodes : Works(n, x, "collect") =>
          head[x].lock = n /\ ~head[x].finished
    /\ \A n \in Nodes : Works(n, x, "complete") =>
          head[x].finished /\ VOP \in head[x].mask
    /\ \A m, n \in Nodes : Works(m, x, "complete") /\ Works(n, x, "complete")
          => m = n
BufferInv == \A x \in Xops : BufferOf(x)

UseInv == ControlOK /\ UsersHoldBits /\ QueueInv /\ BufferInv

-----------------------------------------------------------------------------
(* The records.                                                              *)

\* A new XOP, and one disposed of.
LEMMA FreshIs ==
    ASSUME NEW kind \in Kinds, NEW mask \in SUBSET (Nodes \cup {VOP})
    PROVE  /\ HeadIs(Fresh(kind, mask))
           /\ Fresh(kind, mask).kind = kind /\ Fresh(kind, mask).mask = mask
           /\ Fresh(kind, mask).finished = FALSE /\ Fresh(kind, mask).lock = 0
  BY DEF HeadIs, Fresh

\* hammer2_xop_retire takes one bit and makes a collector look again.
LEMMA RetiredIs ==
    ASSUME NEW h, HeadIs(h), NEW bit
    PROVE  /\ HeadIs(Retired(h, bit))
           /\ Retired(h, bit).mask = h.mask \ {bit} /\ Retired(h, bit).kind = h.kind
           /\ Retired(h, bit).finished = h.finished /\ Retired(h, bit).lock = h.lock
  BY DEF HeadIs, Retired

\* hammer2_xop_feed wakes and may grow the fifos.
LEMMA FedIs ==
    ASSUME NEW h, HeadIs(h), NEW full \in BOOLEAN
    PROVE  /\ HeadIs(Fed(h, full))
           /\ Fed(h, full).mask = h.mask /\ Fed(h, full).kind = h.kind
           /\ Fed(h, full).finished = h.finished /\ Fed(h, full).lock = h.lock
  BY DEF HeadIs, Fed

\* The collector's place, key and view of run_mask.
LEMMA CollectorIs ==
    ASSUME NEW h, HeadIs(h), NEW p, NEW k, NEW w \in BOOLEAN, NEW f \in BOOLEAN,
           NEW d \in BOOLEAN, NEW l \in Nodes \cup {0}
    PROVE  /\ HeadIs([h EXCEPT !.pos = p]) /\ HeadIs([h EXCEPT !.pos = p, !.fresh = f])
           /\ HeadIs([h EXCEPT !.ckey = k, !.pos = p])
           /\ HeadIs([h EXCEPT !.pos = p, !.wait = w])
           /\ HeadIs([h EXCEPT !.lock = l, !.pos = p])
           /\ HeadIs([h EXCEPT !.finished = d, !.lock = l])
  BY DEF HeadIs

\* Changing one XOP's head.
LEMMA HeadWith ==
    ASSUME ControlOK, NEW x \in Xops, NEW h, HeadIs(h), head' = [head EXCEPT ![x] = h]
    PROVE  /\ head' = [y \in Xops |-> head'[y]] /\ \A y \in Xops : HeadIs(head'[y])
           /\ head'[x] = h /\ \A y \in Xops : y # x => head'[y] = head[y]
<1>1. head = [y \in Xops |-> head[y]] /\ \A y \in Xops : HeadIs(head[y])
  BY DEF ControlOK
<1>2. DOMAIN head = Xops
  BY <1>1
<1>3. head' = [y \in Xops |-> IF y = x THEN h ELSE head[y]]
  BY <1>2
<1>4. head'[x] = h /\ \A y \in Xops : y # x => head'[y] = head[y]
  BY <1>3
<1>5. head' = [y \in Xops |-> head'[y]]
  BY <1>3
<1>6. QED
  BY <1>1, <1>4, <1>5

\* A queue of XOPs, and a worker.
LEMMA ControlFacts ==
    ASSUME ControlOK, NEW n \in Nodes
    PROVE  /\ xopq[n] \in Seq(Xops) /\ wk[n].x \in Xops \cup {NoXop}
           /\ wk[n].pc \in WorkerPCs
           /\ wk[n] \in [pc : WorkerPCs, x : Xops \cup {NoXop}]
           /\ \A i \in DOMAIN xopq[n] : xopq[n][i] \in Xops
           /\ xopq[n] # <<>> => Head(xopq[n]) \in Xops /\ 1 \in DOMAIN xopq[n]
                                /\ Head(xopq[n]) = xopq[n][1]
           /\ NoXop \notin Xops
<1>1. NoXop \notin Xops
  BY XopAssumption
<1>2. xopq[n] \in Seq(Xops) /\ wk[n] \in [pc : WorkerPCs, x : Xops \cup {NoXop}]
  BY DEF ControlOK
<1>3. QED
  BY <1>1, <1>2

\* Who uses an XOP has a bit in its mask.
LEMMA UserFacts ==
    ASSUME UseInv, NEW n \in Nodes, wk[n].x # NoXop
    PROVE  /\ wk[n].x \in Xops /\ n \in head[wk[n].x].mask
           /\ xopq[n] # <<>> /\ wk[n].x = Head(xopq[n])
           /\ wk[n].pc \notin {"drain", "asleep"}
<1>1. ControlOK /\ UsersHoldBits /\ QueueInv
  BY DEF UseInv
<1>2. xopq[n] # <<>> /\ wk[n].x = Head(xopq[n])
  BY <1>1 DEF UsersHoldBits
<1>3. wk[n].x = xopq[n][1] /\ 1 \in DOMAIN xopq[n] /\ wk[n].x \in Xops
  BY <1>1, <1>2, ControlFacts
<1>4. n \in head[wk[n].x].mask
  BY <1>1, <1>3 DEF UsersHoldBits
<1>5. QED
  BY <1>1, <1>2, <1>3, <1>4 DEF QueueInv

\* A step that concerns only the collector of an XOP, or the frontend's wait.
LEMMA OnlyCollector ==
    ASSUME UseInv, head' = [y \in Xops |-> head'[y]],
           \A y \in Xops : /\ HeadIs(head'[y])
                           /\ head'[y].kind = head[y].kind /\ head'[y].mask = head[y].mask
                           /\ head'[y].finished = head[y].finished
                           /\ head'[y].lock = head[y].lock,
           fe' \in [Xops -> FrontStates],
           \A y \in Xops : fe'[y] = "none" <=> fe[y] = "none",
           UNCHANGED <<xopq, wk, bp>>
    PROVE  UseInv'
<1>1. ControlOK'
  BY DEF UseInv, ControlOK
<1>2. UsersHoldBits'
  <2>1. \A n \in Nodes : \A i \in DOMAIN xopq[n] : xopq[n][i] \in Xops
    BY ControlFacts DEF UseInv
  <2>2. QED
    BY <2>1 DEF UseInv, UsersHoldBits
<1>3. QueueInv'
  BY DEF UseInv, QueueInv
<1>4. BufferInv'
  <2>1. \A y \in Xops : Async(y)' = Async(y)
    BY DEF Async
  <2>2. QED
    BY <2>1 DEF UseInv, BufferInv, BufferOf, Works
<1>5. QED
  BY <1>1, <1>2, <1>3, <1>4 DEF UseInv

\* ... or a worker that goes on to a place where it holds nothing.
LEMMA OnlyWorker ==
    ASSUME UseInv, head' = [y \in Xops |-> head'[y]],
           \A y \in Xops : /\ HeadIs(head'[y])
                           /\ head'[y].kind = head[y].kind /\ head'[y].mask = head[y].mask
                           /\ head'[y].finished = head[y].finished
                           /\ head'[y].lock = head[y].lock,
           fe' \in [Xops -> FrontStates],
           \A y \in Xops : fe'[y] = "none" <=> fe[y] = "none",
           NEW n \in Nodes, wk[n].x # NoXop, NEW pc \in {"feed", "race", "done"},
           pc = "race" => Async(wk[n].x),
           wk' = [wk EXCEPT ![n].pc = pc],
           UNCHANGED <<xopq, bp>>
    PROVE  UseInv'
<1>1. /\ wk \in [Nodes -> [pc : WorkerPCs, x : Xops \cup {NoXop}]]
      /\ \A m \in Nodes : /\ wk'[m].x = wk[m].x
                          /\ m # n => wk'[m].pc = wk[m].pc
      /\ wk'[n].pc = pc
      /\ wk' \in [Nodes -> [pc : WorkerPCs, x : Xops \cup {NoXop}]]
  <2>1. wk \in [Nodes -> [pc : WorkerPCs, x : Xops \cup {NoXop}]]
    BY DEF UseInv, ControlOK
  <2>2. pc \in WorkerPCs
    BY DEF WorkerPCs
  <2>3. wk[n] \in [pc : WorkerPCs, x : Xops \cup {NoXop}]
    BY <2>1
  <2>4. QED
    BY <2>1, <2>2, <2>3
<1>2. ControlOK'
  BY <1>1 DEF UseInv, ControlOK
<1>3. UsersHoldBits'
  <2>1. \A m \in Nodes : \A i \in DOMAIN xopq[m] : xopq[m][i] \in Xops
    BY ControlFacts DEF UseInv
  <2>2. QED
    BY <1>1, <2>1 DEF UseInv, UsersHoldBits
<1>4. QueueInv'
  <2>1. wk[n].pc \notin {"drain", "asleep"}
    BY UserFacts
  <2>2. QED
    BY <1>1, <2>1 DEF UseInv, QueueInv
<1>5. BufferInv'
  <2>1. \A y \in Xops : Async(y)' = Async(y)
    BY DEF Async
  <2>2. \A m \in Nodes, y \in Xops :
           /\ Works(m, y, "collect")' => Works(m, y, "collect")
           /\ Works(m, y, "complete")' => Works(m, y, "complete")
    BY <1>1 DEF Works
  <2>3. \A y \in Xops : ~Async(y) => \A m \in Nodes : wk'[m].x = y =>
           wk'[m].pc \notin {"race", "collect", "complete"}
    BY <1>1 DEF UseInv, BufferInv, BufferOf
  <2>4. QED
    BY <2>1, <2>2, <2>3 DEF UseInv, BufferInv, BufferOf
<1>6. QED
  BY <1>2, <1>3, <1>4, <1>5 DEF UseInv

-----------------------------------------------------------------------------
(* The steps.                                                                *)

\* hammer2_xop_alloc and hammer2_xop_start_except: the slot was free, so no
\* queue and no thread has it.
LEMMA StartKeeps ==
    ASSUME UseInv, NEW x \in Xops, NEW kind \in Kinds, xop_start(x, kind)
    PROVE  UseInv'
<1>1. ControlOK /\ UsersHoldBits /\ QueueInv /\ BufferInv
  BY DEF UseInv
<1>2. /\ head[x].mask = {}
      /\ head' = [head EXCEPT ![x] = Fresh(kind, Targets(kind) \cup {VOP})]
      /\ xopq' = [n \in Nodes |->
                    IF n \in Targets(kind) THEN Append(xopq[n], x) ELSE xopq[n]]
      /\ wk' = [n \in Nodes |-> Signalled(wk[n])]
      /\ fe' = [fe EXCEPT ![x] = IF kind \in {"scan", "flush"} THEN "collect" ELSE "none"]
      /\ bp' = bp
  BY DEF xop_start
<1>3. Targets(kind) \subseteq Nodes /\ VOP \notin Nodes
  BY ClusterAssumption, XopAssumption DEF Targets
<1>4. /\ head' = [y \in Xops |-> head'[y]] /\ \A y \in Xops : HeadIs(head'[y])
      /\ head'[x].kind = kind /\ head'[x].mask = Targets(kind) \cup {VOP}
      /\ head'[x].finished = FALSE
      /\ \A y \in Xops : y # x => head'[y] = head[y]
  <2> DEFINE m == Targets(kind) \cup {VOP}
             h == Fresh(kind, m)
  <2>2. head' = [head EXCEPT ![x] = h]
    BY <1>2
  <2>4. m \in SUBSET (Nodes \cup {VOP}) /\ m = Targets(kind) \cup {VOP}
    BY <1>3
  <2> HIDE DEF m
  <2>1. /\ HeadIs(h) /\ h.kind = kind /\ h.mask = Targets(kind) \cup {VOP}
        /\ h.finished = FALSE
    BY <2>4, FreshIs
  <2> HIDE DEF h
  <2>3. QED
    BY <1>1, <2>1, <2>2, HeadWith
<1>5. \A n \in Nodes : /\ wk[n].x # x
                       /\ \A i \in DOMAIN xopq[n] : xopq[n][i] # x
  <2>1. \A n \in Nodes : \A i \in DOMAIN xopq[n] : xopq[n][i] # x
    BY <1>1, <1>2 DEF UsersHoldBits
  <2>2. \A n \in Nodes : wk[n].x # NoXop => n \in head[wk[n].x].mask
    BY UserFacts
  <2>3. QED
    BY <1>2, <2>1, <2>2, XopAssumption
<1>6. /\ fe[x] = "none" /\ ~Async(x) /\ bp[x] = 0
  BY <1>1, <1>2 DEF UsersHoldBits, BufferInv, BufferOf
<1>7. \A n \in Nodes :
         /\ wk'[n] \in [pc : WorkerPCs, x : Xops \cup {NoXop}]
         /\ wk'[n].x = wk[n].x
         /\ wk'[n].pc \in {"drain", "asleep"} <=> wk[n].pc \in {"drain", "asleep"}
         /\ wk'[n].pc \notin {"drain", "asleep"} => wk'[n].pc = wk[n].pc
  <2> SUFFICES ASSUME NEW n \in Nodes
               PROVE  /\ wk'[n] \in [pc : WorkerPCs, x : Xops \cup {NoXop}]
                      /\ wk'[n].x = wk[n].x
                      /\ wk'[n].pc = IF wk[n].pc = "asleep" THEN "drain" ELSE wk[n].pc
    OBVIOUS
  <2>1. wk[n] \in [pc : WorkerPCs, x : Xops \cup {NoXop}]
    BY <1>1, ControlFacts
  <2>2. wk'[n] = [wk[n] EXCEPT !.pc = IF wk[n].pc = "asleep" THEN "drain" ELSE wk[n].pc]
    BY <1>2 DEF Signalled
  <2>3. QED
    BY <2>1, <2>2 DEF WorkerPCs
<1>8. \A n \in Nodes :
         /\ xopq'[n] \in Seq(Xops)
         /\ xopq[n] # <<>> => xopq'[n] # <<>> /\ Head(xopq'[n]) = Head(xopq[n])
         /\ \A i \in DOMAIN xopq'[n] :
               \/ i \in DOMAIN xopq[n] /\ xopq'[n][i] = xopq[n][i]
               \/ /\ i = Len(xopq[n]) + 1 /\ xopq'[n][i] = x /\ n \in Targets(kind)
  <2> SUFFICES ASSUME NEW n \in Nodes
               PROVE  /\ xopq'[n] \in Seq(Xops)
                      /\ xopq[n] # <<>> => xopq'[n] # <<>> /\ Head(xopq'[n]) = Head(xopq[n])
                      /\ \A i \in DOMAIN xopq'[n] :
                            \/ i \in DOMAIN xopq[n] /\ xopq'[n][i] = xopq[n][i]
                            \/ i = Len(xopq[n]) + 1 /\ xopq'[n][i] = x
                                 /\ n \in Targets(kind)
    OBVIOUS
  <2>1. xopq[n] \in Seq(Xops)
    BY <1>1, ControlFacts
  <2>2. CASE n \in Targets(kind)
    <3>1. xopq'[n] = Append(xopq[n], x)
      BY <1>2, <2>2
    <3>2. QED
      BY <2>1, <2>2, <3>1
  <2>3. CASE n \notin Targets(kind)
    BY <1>2, <2>1, <2>3
  <2>4. QED
    BY <2>2, <2>3
<1>9. fe' \in [Xops -> FrontStates] /\ \A y \in Xops : y # x => fe'[y] = fe[y]
  BY <1>1, <1>2 DEF ControlOK, FrontStates
<1>10. fe'[x] = IF kind \in {"scan", "flush"} THEN "collect" ELSE "none"
  BY <1>1, <1>2 DEF ControlOK
<1>11. ControlOK'
  <2>1. xopq' \in [Nodes -> Seq(Xops)]
    BY <1>2, <1>8
  <2>2. wk' \in [Nodes -> [pc : WorkerPCs, x : Xops \cup {NoXop}]]
    BY <1>2, <1>7
  <2>3. QED
    BY <1>1, <1>2, <1>4, <1>9, <2>1, <2>2 DEF ControlOK
<1>12. UsersHoldBits'
  <2>1. ASSUME NEW n \in Nodes, NEW i \in DOMAIN xopq'[n]
        PROVE  n \in head'[xopq'[n][i]].mask
    <3>1. CASE i \in DOMAIN xopq[n] /\ xopq'[n][i] = xopq[n][i]
      <4>1. xopq[n][i] \in Xops /\ xopq[n][i] # x
        BY <1>1, <1>5, <3>1, ControlFacts
      <4>2. QED
        BY <1>1, <1>4, <3>1, <4>1 DEF UsersHoldBits
    <3>2. CASE xopq'[n][i] = x /\ n \in Targets(kind)
      BY <1>4, <3>2
    <3>3. QED
      BY <1>8, <2>1, <3>1, <3>2
  <2>2. \A n \in Nodes : wk'[n].x # NoXop => xopq'[n] # <<>> /\ wk'[n].x = Head(xopq'[n])
    BY <1>1, <1>7, <1>8 DEF UsersHoldBits
  <2>3. \A y \in Xops : fe'[y] # "none" => VOP \in head'[y].mask
    BY <1>1, <1>4, <1>9 DEF UsersHoldBits
  <2>4. QED
    BY <2>1, <2>2, <2>3 DEF UsersHoldBits
<1>13. QueueInv'
  <2>1. ASSUME NEW n \in Nodes, NEW i \in DOMAIN xopq'[n], NEW j \in DOMAIN xopq'[n],
               xopq'[n][i] = xopq'[n][j]
        PROVE  i = j
    BY <1>1, <1>5, <1>8, <2>1 DEF QueueInv
  <2>2. QED
    BY <1>1, <1>7, <2>1 DEF QueueInv
<1>14. BufferInv'
  <2> SUFFICES ASSUME NEW y \in Xops  PROVE  BufferOf(y)'
    BY DEF BufferInv
  <2>1. CASE y = x
    <3>1. \A n \in Nodes : wk'[n].x # x
      BY <1>5, <1>7
    <3>2. bp'[x] = 0 /\ VOP \in head'[x].mask /\ head'[x].mask # {}
      BY <1>2, <1>4, <1>6
    <3>3. Async(x)' => fe'[x] = "none"
      BY <1>4, <1>10 DEF Async
    <3>4. \A m \in Nodes, pc \in {"collect", "complete"} : ~Works(m, x, pc)'
      BY <3>1 DEF Works
    <3>5. QED
      BY <2>1, <3>1, <3>2, <3>3, <3>4 DEF BufferOf
  <2>2. CASE y # x
    <3>1. /\ head'[y] = head[y] /\ fe'[y] = fe[y] /\ bp'[y] = bp[y]
          /\ Async(y)' = Async(y)
      BY <1>2, <1>4, <1>9, <2>2 DEF Async
    <3>2. \A n \in Nodes, pc \in {"race", "collect", "complete"} :
             wk'[n].pc = pc => wk[n].pc = pc
      BY <1>7
    <3>3. \A n \in Nodes, pc \in {"race", "collect", "complete"} :
             Works(n, y, pc)' => Works(n, y, pc)
      BY <1>7, <3>2 DEF Works
    <3>4. \A n \in Nodes : wk'[n].x = y /\ ~Async(y) =>
             wk'[n].pc \notin {"race", "collect", "complete"}
      BY <1>1, <1>7, <3>2 DEF BufferInv, BufferOf
    <3>5. QED
      BY <1>1, <3>1, <3>3, <3>4 DEF BufferInv, BufferOf
  <2>3. QED
    BY <2>1, <2>2
<1>15. QED
  BY <1>11, <1>12, <1>13, <1>14 DEF UseInv

\* A worker takes up an XOP.
LEMMA WorkerIs ==
    ASSUME NEW w \in [pc : WorkerPCs, x : Xops \cup {NoXop}], NEW pc, NEW x
    PROVE  [w EXCEPT !.pc = pc, !.x = x] = [pc |-> pc, x |-> x]
<1> DEFINE v == [w EXCEPT !.pc = pc]
<1>1. v = [pc |-> pc, x |-> w.x]
  OBVIOUS
<1>2. [v EXCEPT !.x = x] = [w EXCEPT !.pc = pc, !.x = x]
  OBVIOUS
<1> HIDE DEF v
<1>3. v \in [pc : {pc}, x : {w.x}]
  BY <1>1
<1>4. [v EXCEPT !.x = x] = [pc |-> pc, x |-> x]
  BY <1>3
<1>5. QED
  BY <1>2, <1>4

\* hammer2_xop_next, and the sleep and the poll of an idle worker.
LEMMA IdleKeeps ==
    ASSUME UseInv, NEW n \in Nodes, WorkerNext(n) \/ WorkerSleep(n) \/ WorkerTimeout(n)
    PROVE  UseInv'
<1>1. ControlOK /\ UsersHoldBits /\ QueueInv /\ BufferInv
  BY DEF UseInv
<1>2. wk[n].pc \in {"drain", "asleep"} /\ wk[n].x = NoXop
  BY <1>1 DEF QueueInv, WorkerNext, WorkerSleep, WorkerTimeout
<1>3. UNCHANGED <<head, xopq, fe, bp>>
  BY DEF WorkerNext, WorkerSleep, WorkerTimeout
<1>4. PICK pc \in {"done", "copy", "feed", "asleep", "drain"}, x \in Xops \cup {NoXop} :
         /\ wk' = [wk EXCEPT ![n] = [pc |-> pc, x |-> x]]
         /\ x = NoXop <=> pc \in {"drain", "asleep"}
         /\ x # NoXop => xopq[n] # <<>> /\ x = Head(xopq[n])
  <2>1. wk[n] \in [pc : WorkerPCs, x : Xops \cup {NoXop}] /\ NoXop \notin Xops
    BY <1>1, ControlFacts
  <2>2. CASE WorkerNext(n)
    <3>1. PICK pc \in {"done", "copy", "feed"} :
             wk' = [wk EXCEPT ![n].pc = pc, ![n].x = Head(xopq[n])]
      BY <2>2 DEF WorkerNext
    <3>2. xopq[n] # <<>> /\ Head(xopq[n]) \in Xops
      BY <1>1, <2>2, ControlFacts DEF WorkerNext
    <3>3. wk' = [wk EXCEPT ![n] = [pc |-> pc, x |-> Head(xopq[n])]]
      <4>1. [wk[n] EXCEPT !.pc = pc, !.x = Head(xopq[n])]
               = [pc |-> pc, x |-> Head(xopq[n])]
        BY <2>1, WorkerIs
      <4>2. wk' = [wk EXCEPT ![n] = [wk[n] EXCEPT !.pc = pc, !.x = Head(xopq[n])]]
        BY <3>1, <1>1 DEF ControlOK
      <4>3. QED
        BY <4>1, <4>2
    <3>4. QED
      BY <2>1, <3>2, <3>3
  <2>3. CASE WorkerSleep(n) \/ WorkerTimeout(n)
    <3>1. PICK pc \in {"asleep", "drain"} : wk' = [wk EXCEPT ![n].pc = pc]
      BY <2>3 DEF WorkerSleep, WorkerTimeout, Run
    <3>2. [wk[n] EXCEPT !.pc = pc] = [pc |-> pc, x |-> NoXop]
      BY <1>2, <2>1
    <3>3. wk' = [wk EXCEPT ![n] = [pc |-> pc, x |-> NoXop]]
      BY <3>1, <3>2
    <3>4. QED
      BY <3>3
  <2>4. QED
    BY <2>2, <2>3
<1>5. /\ wk' \in [Nodes -> [pc : WorkerPCs, x : Xops \cup {NoXop}]]
      /\ wk'[n].pc = pc /\ wk'[n].x = x
      /\ \A m \in Nodes : m # n => wk'[m] = wk[m]
  BY <1>1, <1>4 DEF ControlOK, WorkerPCs
<1>6. ControlOK'
  BY <1>1, <1>3, <1>5 DEF ControlOK
<1>7. UsersHoldBits'
  <2>1. \A m \in Nodes : \A i \in DOMAIN xopq[m] : xopq[m][i] \in Xops
    BY <1>1, ControlFacts
  <2>2. \A m \in Nodes : wk'[m].x # NoXop => xopq[m] # <<>> /\ wk'[m].x = Head(xopq[m])
    BY <1>1, <1>4, <1>5 DEF UsersHoldBits
  <2>3. QED
    BY <1>1, <1>3, <2>2 DEF UsersHoldBits
<1>8. QueueInv'
  BY <1>1, <1>3, <1>4, <1>5 DEF QueueInv
<1>9. BufferInv'
  <2>1. \A y \in Xops : Async(y)' = Async(y)
    BY <1>3 DEF Async
  <2>2. \A m \in Nodes : wk'[m].pc \in {"race", "collect", "complete"} => wk'[m] = wk[m]
    BY <1>4, <1>5
  <2>3. \A m \in Nodes, y \in Xops, p \in {"collect", "complete"} :
           Works(m, y, p)' => Works(m, y, p)
    BY <2>2 DEF Works
  <2>4. \A y \in Xops : ~Async(y) => \A m \in Nodes : wk'[m].x = y =>
           wk'[m].pc \notin {"race", "collect", "complete"}
    BY <1>1, <2>2 DEF BufferInv, BufferOf
  <2>5. QED
    BY <1>1, <1>3, <2>1, <2>3, <2>4 DEF BufferInv, BufferOf
<1>10. QED
  BY <1>6, <1>7, <1>8, <1>9 DEF UseInv

\* The heads as they are.
LEMMA HeadsAre ==
    ASSUME UseInv
    PROVE  head = [y \in Xops |-> head[y]] /\ \A y \in Xops : HeadIs(head[y])
  BY DEF UseInv, ControlOK

\* hammer2_xop_feed by a storage function.
LEMMA FeedKeeps ==
    ASSUME UseInv, NEW n \in Nodes, WorkerFeed(n)
    PROVE  UseInv'
<1> DEFINE x == wk[n].x
<1>1. wk[n].pc = "feed" /\ x # NoXop /\ x \in Xops
  <2>1. wk[n].pc = "feed"
    BY DEF WorkerFeed
  <2>2. QED
    BY <2>1, UserFacts DEF UseInv, QueueInv
<1>2. PICK pc \in {"feed", "race", "done"} :
         /\ wk' = [wk EXCEPT ![n].pc = pc]
         /\ pc = "race" => Async(x)
  BY DEF WorkerFeed, Run
<1>3. UNCHANGED <<xopq, bp>>
  BY DEF WorkerFeed
<1>4. CASE UNCHANGED <<head, fe>>
  BY <1>1, <1>2, <1>3, <1>4, HeadsAre, OnlyWorker DEF UseInv, ControlOK
<1>5. CASE \E e : xop_feed(x, n, e)
  <2>1. /\ head' = [head EXCEPT ![x] = Fed(head[x], Full(x, n))]
        /\ fe' = fe \/ (fe[x] = "asleep" /\ fe' = [fe EXCEPT ![x] = "collect"])
    BY <1>5 DEF xop_feed
  <2>2. Full(x, n) \in BOOLEAN
    BY DEF Full
  <2>3. HeadIs(head[x])
    BY <1>1, HeadsAre
  <2> DEFINE h == Fed(head[x], Full(x, n))
  <2>4. /\ HeadIs(h) /\ h.mask = head[x].mask /\ h.kind = head[x].kind
        /\ h.finished = head[x].finished /\ h.lock = head[x].lock
    BY <2>2, <2>3, FedIs
  <2> HIDE DEF h
  <2>5. /\ head' = [y \in Xops |-> head'[y]] /\ \A y \in Xops : HeadIs(head'[y])
        /\ head'[x] = h /\ \A y \in Xops : y # x => head'[y] = head[y]
    BY <1>1, <2>1, <2>4, HeadWith DEF UseInv, h
  <2>6. /\ fe' \in [Xops -> FrontStates]
        /\ \A y \in Xops : fe'[y] = "none" <=> fe[y] = "none"
    BY <2>1, <1>1 DEF UseInv, ControlOK, FrontStates
  <2> HIDE DEF x
  <2>7. QED
    BY <1>1, <1>2, <1>3, <2>4, <2>5, <2>6, OnlyWorker DEF x
<1>6. QED
  BY <1>4, <1>5 DEF WorkerFeed

\* The copy of a buffer to write.
LEMMA CopyKeeps ==
    ASSUME UseInv, NEW n \in Nodes, WorkerCopy(n)
    PROVE  UseInv'
<1>1. /\ wk[n].pc = "copy" /\ UNCHANGED <<head, xopq, fe, bp>>
      /\ \E pc \in {"feed", "done"} : wk' = [wk EXCEPT ![n].pc = pc]
  BY DEF WorkerCopy, Run
<1>2. wk[n].x # NoXop
  BY <1>1 DEF UseInv, QueueInv
<1>3. PICK pc \in {"feed", "done"} : wk' = [wk EXCEPT ![n].pc = pc]
  BY <1>1
<1>4. QED
  BY <1>1, <1>2, <1>3, HeadsAre, OnlyWorker DEF UseInv, ControlOK

\* An XOP that the step does not touch.
LEMMA OtherBuffer ==
    ASSUME NEW y \in Xops, BufferOf(y),
           head'[y] = head[y] /\ fe'[y] = fe[y] /\ bp'[y] = bp[y],
           \A m \in Nodes : /\ wk'[m].x = y <=> wk[m].x = y
                            /\ wk[m].x = y => wk'[m].pc = wk[m].pc
    PROVE  BufferOf(y)'
<1>1. Async(y)' <=> Async(y)
  BY DEF Async
<1>2. \A m \in Nodes, pc \in {"collect", "complete"} : Works(m, y, pc)' <=> Works(m, y, pc)
  BY DEF Works
<1>3. QED
  BY <1>1, <1>2 DEF BufferOf

\* A worker moves on in the same XOP.
LEMMA Moves ==
    ASSUME UseInv, NEW n \in Nodes, NEW pc \in WorkerPCs, wk' = [wk EXCEPT ![n].pc = pc]
    PROVE  /\ wk' \in [Nodes -> [pc : WorkerPCs, x : Xops \cup {NoXop}]]
           /\ wk'[n].pc = pc
           /\ \A m \in Nodes : /\ wk'[m].x = wk[m].x
                               /\ m # n => wk'[m].pc = wk[m].pc
<1>1. wk \in [Nodes -> [pc : WorkerPCs, x : Xops \cup {NoXop}]]
  BY DEF UseInv, ControlOK
<1>2. wk[n] \in [pc : WorkerPCs, x : Xops \cup {NoXop}]
  BY <1>1
<1>3. QED
  BY <1>1, <1>2

\* A step of a worker that keeps the masks and the queues: what is left to show
\* concerns the buffer.
LEMMA AtWork ==
    ASSUME UseInv, NEW n \in Nodes, wk[n].x # NoXop,
           NEW pc \in WorkerPCs \ {"drain", "asleep"}, wk' = [wk EXCEPT ![n].pc = pc],
           NEW h, HeadIs(h), head' = [head EXCEPT ![wk[n].x] = h],
           h.mask = head[wk[n].x].mask \/ (h.mask = head[wk[n].x].mask \ {VOP}
                                             /\ fe[wk[n].x] = "none"),
           UNCHANGED <<xopq, fe>>, bp' \in [Xops -> 0..2]
    PROVE  ControlOK' /\ UsersHoldBits' /\ QueueInv'
<1> DEFINE x == wk[n].x
<1>1. ControlOK /\ UsersHoldBits /\ QueueInv
  BY DEF UseInv
<1>2. x \in Xops /\ wk[n].pc \notin {"drain", "asleep"}
  BY UserFacts
<1>3. /\ wk' \in [Nodes -> [pc : WorkerPCs, x : Xops \cup {NoXop}]]
      /\ wk'[n].pc = pc
      /\ \A m \in Nodes : /\ wk'[m].x = wk[m].x
                          /\ m # n => wk'[m].pc = wk[m].pc
  BY Moves
<1> HIDE DEF x
<1>4. /\ head' = [y \in Xops |-> head'[y]] /\ \A y \in Xops : HeadIs(head'[y])
      /\ head'[x] = h /\ \A y \in Xops : y # x => head'[y] = head[y]
  BY <1>1, <1>2, HeadWith DEF x
<1>5. ControlOK'
  BY <1>1, <1>3, <1>4 DEF ControlOK
<1>6. UsersHoldBits'
  <2>1. VOP \notin Nodes
    BY XopAssumption
  <2>2. \A m \in Nodes, y \in Xops : m \in head[y].mask => m \in head'[y].mask
    BY <1>4, <2>1 DEF x
  <2>3. \A m \in Nodes : \A i \in DOMAIN xopq[m] : xopq[m][i] \in Xops
    BY <1>1, ControlFacts
  <2>4. \A m \in Nodes : \A i \in DOMAIN xopq'[m] : m \in head'[xopq'[m][i]].mask
    BY <1>1, <2>2, <2>3 DEF UsersHoldBits
  <2>5. \A m \in Nodes : wk'[m].x # NoXop => xopq'[m] # <<>> /\ wk'[m].x = Head(xopq'[m])
    BY <1>1, <1>3 DEF UsersHoldBits
  <2>6. \A y \in Xops : fe'[y] # "none" => VOP \in head'[y].mask
    <3>1. \A y \in Xops : fe[y] # "none" => VOP \in head[y].mask
      BY <1>1 DEF UsersHoldBits
    <3>2. QED
      BY <3>1, <1>4, <1>2 DEF x
  <2>7. QED
    BY <2>4, <2>5, <2>6 DEF UsersHoldBits
<1>7. QueueInv'
  BY <1>1, <1>2, <1>3 DEF QueueInv
<1>8. QED
  BY <1>5, <1>6, <1>7

\* The race to finish: the worker that takes the lock finds the buffer still to
\* be completed.
LEMMA RaceKeeps ==
    ASSUME UseInv, NEW n \in Nodes, WorkerRace(n)
    PROVE  UseInv'
<1>2. wk[n].pc = "race" /\ wk[n].x # NoXop
  BY DEF WorkerRace, UseInv, QueueInv
<1>7. PICK x \in Xops : x = wk[n].x
  BY <1>2, UserFacts
<1>1. /\ UNCHANGED <<xopq, fe, bp>>
      /\ head[x].finished \/ head[x].lock = 0
  BY <1>7 DEF WorkerRace
<1>3. HeadIs(head[x]) /\ Async(x)
  BY <1>2, <1>7, HeadsAre DEF UseInv, BufferInv, BufferOf
<1>4. CASE head[x].finished
  <2>1. wk' = [wk EXCEPT ![n].pc = "done"] /\ head' = head
    BY <1>4, <1>7 DEF WorkerRace, Run
  <2>2. QED
    BY <1>1, <1>2, <2>1, HeadsAre, OnlyWorker DEF UseInv, ControlOK
<1>5. CASE ~head[x].finished
  <2> DEFINE h == [head[x] EXCEPT !.lock = n, !.pos = 0]
  <2>1. /\ wk' = [wk EXCEPT ![n].pc = "collect"]
        /\ head' = [head EXCEPT ![x].lock = n, ![x].pos = 0]
    BY <1>5, <1>7 DEF WorkerRace, Run
  <2>2. head' = [head EXCEPT ![x] = h]
    BY <1>3, <2>1, HeadsAre
  <2>3. HeadIs(h) /\ h.mask = head[x].mask /\ h.lock = n
          /\ h.kind = head[x].kind /\ h.finished = FALSE
    BY <1>3, <1>5 DEF HeadIs
  <2> HIDE DEF h
  <2>4. ControlOK' /\ UsersHoldBits' /\ QueueInv'
    <3>1. "collect" \in WorkerPCs \ {"drain", "asleep"}
      BY DEF WorkerPCs
    <3>2. bp' \in [Xops -> 0..2]
      BY <1>1 DEF UseInv, ControlOK
    <3>3. QED
      BY <1>1, <1>2, <1>7, <2>1, <2>2, <2>3, <3>1, <3>2, AtWork
  <2>5. /\ head'[x] = h /\ \A y \in Xops : y # x => head'[y] = head[y]
    BY <1>3, <2>2, <2>3, HeadWith DEF UseInv
  <2>6. /\ wk'[n].pc = "collect"
        /\ \A m \in Nodes : /\ wk'[m].x = wk[m].x
                            /\ m # n => wk'[m].pc = wk[m].pc
    BY <2>1, Moves DEF WorkerPCs
  <2>7. head[x].lock = 0 /\ 0 \notin Nodes
    BY <1>1, <1>5, NodesAre
  <2>8. \A m \in Nodes : ~Works(m, x, "collect") /\ ~Works(m, x, "complete")
    BY <1>3, <1>5, <2>7 DEF UseInv, BufferInv, BufferOf
  <2>9. \A y \in Xops : Async(y)' = Async(y)
    BY <2>3, <2>5 DEF Async
  <2>10. BufferInv'
    <3> SUFFICES ASSUME NEW y \in Xops  PROVE  BufferOf(y)'
      BY DEF BufferInv
    <3>1. CASE y = x
      <4>1. \A m \in Nodes : /\ Works(m, x, "collect")' => m = n
                             /\ ~Works(m, x, "complete")'
        BY <1>7, <2>6, <2>8 DEF Works
      <4>2. /\ fe[x] = "none" /\ bp[x] = IF VOP \in head[x].mask THEN 0 ELSE 1
            /\ VOP \in head[x].mask /\ head[x].mask # {}
        BY <1>3, <1>5 DEF UseInv, BufferInv, BufferOf
      <4>3. /\ head'[x].mask = head[x].mask /\ head'[x].lock = n
            /\ head'[x].finished = FALSE
        BY <2>3, <2>5
      <4>4. fe'[x] = "none" /\ bp'[x] = bp[x] /\ Async(x)'
        BY <1>1, <1>3, <2>9, <4>2
      <4>5. QED
        BY <3>1, <4>1, <4>2, <4>3, <4>4 DEF BufferOf
    <3>2. CASE y # x
      <4>1. BufferOf(y)
        BY DEF UseInv, BufferInv
      <4>2. QED
        BY <1>1, <1>7, <2>5, <2>6, <3>2, <4>1, OtherBuffer
    <3>3. QED
      BY <3>1, <3>2
  <2>11. QED
    BY <2>4, <2>10 DEF UseInv
<1>6. QED
  BY <1>4, <1>5

\* biodone: nobody else completes the buffer, and the frontend's bit that goes
\* was the worker's to take.
LEMMA CompleteKeeps ==
    ASSUME UseInv, NEW n \in Nodes, WorkerComplete(n)
    PROVE  UseInv'
<1>1. wk[n].pc = "complete" /\ wk[n].x # NoXop
  BY DEF WorkerComplete, UseInv, QueueInv
<1>2. PICK x \in Xops : x = wk[n].x
  BY <1>1, UserFacts
<1>3. /\ bp' = [bp EXCEPT ![x] = IF bp[x] < 2 THEN bp[x] + 1 ELSE bp[x]]
      /\ head' = [head EXCEPT ![x] = Retired(head[x], VOP)]
      /\ wk' = [wk EXCEPT ![n].pc = "done"]
      /\ UNCHANGED <<xopq, fe>>
  BY <1>2 DEF WorkerComplete, Run
<1>4. /\ BufferOf(x) /\ Works(n, x, "complete") /\ ControlOK /\ HeadIs(head[x])
      /\ n \in head[x].mask /\ VOP \notin Nodes
  BY <1>1, <1>2, HeadsAre, UserFacts, XopAssumption DEF UseInv, BufferInv, Works
<1>5. Async(x) /\ fe[x] = "none" /\ bp[x] = 0 /\ head[x].finished
  BY <1>1, <1>2, <1>4 DEF BufferOf
<1>6. bp' \in [Xops -> 0..2] /\ bp'[x] = 1 /\ \A y \in Xops : y # x => bp'[y] = bp[y]
  BY <1>3, <1>4, <1>5 DEF ControlOK
<1> DEFINE h == Retired(head[x], VOP)
<1>7. /\ HeadIs(h) /\ h.mask = head[x].mask \ {VOP} /\ h.kind = head[x].kind
      /\ h.finished = head[x].finished /\ h.lock = head[x].lock
  BY <1>4, RetiredIs
<1> HIDE DEF h
<1>8. ControlOK' /\ UsersHoldBits' /\ QueueInv'
  <2>1. "done" \in WorkerPCs \ {"drain", "asleep"}
    BY DEF WorkerPCs
  <2>2. head' = [head EXCEPT ![wk[n].x] = h]
    BY <1>2, <1>3 DEF h
  <2>3. h.mask = head[wk[n].x].mask \ {VOP} /\ fe[wk[n].x] = "none"
    BY <1>2, <1>5, <1>7
  <2>4. wk' = [wk EXCEPT ![n].pc = "done"] /\ UNCHANGED <<xopq, fe>>
    BY <1>3
  <2>5. QED
    BY <1>1, <1>6, <1>7, <2>1, <2>2, <2>3, <2>4, AtWork
<1>9. /\ head'[x] = h /\ \A y \in Xops : y # x => head'[y] = head[y]
  BY <1>3, <1>4, <1>7, HeadWith DEF h
<1>10. /\ wk'[n].pc = "done"
       /\ \A m \in Nodes : /\ wk'[m].x = wk[m].x
                           /\ m # n => wk'[m].pc = wk[m].pc
  BY <1>3, Moves DEF WorkerPCs
<1>11. BufferInv'
  <2> SUFFICES ASSUME NEW y \in Xops  PROVE  BufferOf(y)'
    BY DEF BufferInv
  <2>1. CASE y = x
    <3>1. \A m \in Nodes : ~Works(m, x, "complete")'
      BY <1>2, <1>4, <1>10 DEF BufferOf, Works
    <3>2. \A m \in Nodes : ~Works(m, x, "collect")'
      BY <1>4, <1>5, <1>10 DEF BufferOf, Works
    <3>3. /\ Async(x)' /\ fe'[x] = "none" /\ head'[x].finished
          /\ VOP \notin head'[x].mask /\ n \in head'[x].mask
      BY <1>3, <1>4, <1>5, <1>7, <1>9 DEF Async
    <3>4. QED
      BY <1>6, <2>1, <3>1, <3>2, <3>3 DEF BufferOf
  <2>2. CASE y # x
    <3>1. BufferOf(y)
      BY DEF UseInv, BufferInv
    <3>2. QED
      BY <1>2, <1>3, <1>6, <1>9, <1>10, <2>2, <3>1, OtherBuffer
  <2>3. QED
    BY <2>1, <2>2
<1>12. QED
  BY <1>8, <1>11 DEF UseInv

\* hammer2_xop_retire, by a node or by the frontend: the bits of the others
\* stay, and the XOP is disposed of with the last one.
LEMMA RetireIs ==
    ASSUME UseInv, NEW x \in Xops, NEW bit, xop_retire(x, bit)
    PROVE  /\ head' = [y \in Xops |-> head'[y]] /\ \A y \in Xops : HeadIs(head'[y])
           /\ head'[x].mask = head[x].mask \ {bit}
           /\ bp' \in [Xops -> 0..2]
           /\ \A y \in Xops : y # x => head'[y] = head[y] /\ bp'[y] = bp[y]
           /\ \/ /\ head'[x].mask = {} /\ head'[x].kind = "scan" /\ bp'[x] = 0
              \/ /\ head'[x].mask # {} \/ head[x].mask = {}
                 /\ head'[x].kind = head[x].kind
                 /\ head'[x].finished = head[x].finished
                 /\ head'[x].lock = head[x].lock /\ bp'[x] = bp[x]
<1>1. ControlOK /\ HeadIs(head[x])
  BY HeadsAre DEF UseInv
<1>2. CASE head[x].mask = {bit}
  <2> DEFINE h == Fresh("scan", {})
  <2>1. head' = [head EXCEPT ![x] = h] /\ bp' = [bp EXCEPT ![x] = 0]
    BY <1>2 DEF xop_retire
  <2>2. HeadIs(h) /\ h.mask = {} /\ h.kind = "scan"
    BY FreshIs DEF Kinds
  <2> HIDE DEF h
  <2>3. /\ head' = [y \in Xops |-> head'[y]] /\ \A y \in Xops : HeadIs(head'[y])
        /\ head'[x] = h /\ \A y \in Xops : y # x => head'[y] = head[y]
    BY <1>1, <2>1, <2>2, HeadWith
  <2>4. bp' \in [Xops -> 0..2] /\ bp'[x] = 0 /\ \A y \in Xops : y # x => bp'[y] = bp[y]
    BY <1>1, <2>1 DEF ControlOK
  <2>5. QED
    BY <1>2, <2>2, <2>3, <2>4
<1>3. CASE head[x].mask # {bit}
  <2> DEFINE h == Retired(head[x], bit)
  <2>1. head' = [head EXCEPT ![x] = h] /\ bp' = bp
    BY <1>3 DEF xop_retire
  <2>2. /\ HeadIs(h) /\ h.mask = head[x].mask \ {bit} /\ h.kind = head[x].kind
        /\ h.finished = head[x].finished /\ h.lock = head[x].lock
    BY <1>1, RetiredIs
  <2> HIDE DEF h
  <2>3. /\ head' = [y \in Xops |-> head'[y]] /\ \A y \in Xops : HeadIs(head'[y])
        /\ head'[x] = h /\ \A y \in Xops : y # x => head'[y] = head[y]
    BY <1>1, <2>1, <2>2, HeadWith
  <2>4. bp' \in [Xops -> 0..2]
    BY <1>1, <2>1 DEF ControlOK
  <2>5. h.mask # {} \/ head[x].mask = {}
    BY <1>3, <2>2
  <2>6. QED
    BY <2>1, <2>2, <2>3, <2>4, <2>5
<1>4. QED
  BY <1>2, <1>3

\* What a retirement leaves of an XOP nobody is about to finish.
LEMMA RetireBuffer ==
    ASSUME UseInv, NEW x \in Xops, NEW bit \in Nodes \cup {VOP}, xop_retire(x, bit),
           bit \in head[x].mask, bit = VOP => ~Async(x),
           fe'[x] = "none" <=> fe[x] = "none" \/ bit = VOP,
           \A m \in Nodes : wk'[m].x = x => m \in head'[x].mask,
           \A m \in Nodes : wk'[m].x = x => wk'[m] = wk[m]
    PROVE  BufferOf(x)'
<1>1. BufferOf(x) /\ VOP \notin Nodes
  BY XopAssumption DEF UseInv, BufferInv
<1>2. head'[x].mask = head[x].mask \ {bit}
  BY RetireIs
<1>3. CASE head'[x].mask = {} /\ head'[x].kind = "scan" /\ bp'[x] = 0
  <2>1. ~Async(x)'
    BY <1>3 DEF Async
  <2>2. \A m \in Nodes : wk'[m].x # x
    BY <1>3
  <2>3. QED
    BY <1>3, <2>1, <2>2 DEF BufferOf, Works
<1>4. CASE /\ head'[x].mask # {} /\ head'[x].kind = head[x].kind
           /\ head'[x].finished = head[x].finished
           /\ head'[x].lock = head[x].lock /\ bp'[x] = bp[x]
  <2>1. Async(x)' <=> Async(x)
    BY <1>4 DEF Async
  <2>2. \A m \in Nodes, pc \in {"collect", "complete"} : Works(m, x, pc)' => Works(m, x, pc)
    BY DEF Works
  <2>3. \A m \in Nodes : ~Async(x) /\ wk'[m].x = x =>
           wk'[m].pc \notin {"race", "collect", "complete"}
    BY <1>1 DEF BufferOf
  <2>4. Async(x) => bit # VOP /\ (VOP \in head'[x].mask <=> VOP \in head[x].mask)
    BY <1>2
  <2>5. \A m \in Nodes : Works(m, x, "complete") => Async(x)
    BY <1>1 DEF BufferOf, Works
  <2>6. Async(x) => /\ fe'[x] = "none"
                    /\ bp'[x] = IF VOP \in head'[x].mask THEN 0 ELSE 1
                    /\ VOP \notin head'[x].mask => head'[x].finished
    BY <1>1, <1>4, <2>4 DEF BufferOf
  <2>7. ~Async(x) => bp'[x] = 0
    BY <1>1, <1>4 DEF BufferOf
  <2>8. \A m \in Nodes : Works(m, x, "collect")' =>
           head'[x].lock = m /\ ~head'[x].finished
    BY <1>1, <1>4, <2>2 DEF BufferOf
  <2>9. \A m \in Nodes : Works(m, x, "complete")' =>
           head'[x].finished /\ VOP \in head'[x].mask
    BY <1>1, <1>4, <2>2, <2>4, <2>5 DEF BufferOf
  <2>10. \A l, m \in Nodes : Works(l, x, "complete")' /\ Works(m, x, "complete")' => l = m
    BY <1>1, <2>2 DEF BufferOf
  <2>11. QED
    BY <1>4, <2>1, <2>3, <2>6, <2>7, <2>8, <2>9, <2>10 DEF BufferOf
<1>5. QED
  BY <1>3, <1>4, RetireIs

\* hammer2_xop_dequeue and the retirement of the node's bit: the XOP stands in
\* the queue once, so the node has nothing more to do with it.
LEMMA DoneKeeps ==
    ASSUME UseInv, NEW n \in Nodes, WorkerDone(n)
    PROVE  UseInv'
<1>1. wk[n].pc = "done" /\ wk[n].x # NoXop
  BY DEF WorkerDone, UseInv, QueueInv
<1>2. PICK x \in Xops : x = wk[n].x
  BY <1>1, UserFacts
<1>3. /\ xopq' = [xopq EXCEPT ![n] = Tail(xopq[n])]
      /\ wk' = [wk EXCEPT ![n] = [pc |-> "drain", x |-> NoXop]]
      /\ xop_retire(x, n)
      /\ fe' = WokenByRetire(x, n)
  BY <1>2 DEF WorkerDone
<1>4. /\ ControlOK /\ UsersHoldBits /\ QueueInv
      /\ n \in head[x].mask /\ VOP \notin Nodes /\ NoXop \notin Xops
      /\ xopq[n] \in Seq(Xops) /\ xopq[n] # <<>> /\ xopq[n][1] = x
  BY <1>1, <1>2, UserFacts, ControlFacts, XopAssumption DEF UseInv
<1>5. /\ head' = [y \in Xops |-> head'[y]] /\ \A y \in Xops : HeadIs(head'[y])
      /\ head'[x].mask = head[x].mask \ {n} /\ bp' \in [Xops -> 0..2]
      /\ \A y \in Xops : y # x => head'[y] = head[y] /\ bp'[y] = bp[y]
  BY <1>3, RetireIs
<1>6. /\ fe' \in [Xops -> FrontStates]
      /\ \A y \in Xops : fe'[y] = "none" <=> fe[y] = "none"
      /\ \A y \in Xops : y # x => fe'[y] = fe[y]
  <2>1. fe \in [Xops -> FrontStates]
    BY <1>4 DEF ControlOK
  <2>2. CASE fe' = fe
    BY <2>1, <2>2
  <2>3. CASE fe[x] = "asleep" /\ fe' = [fe EXCEPT ![x] = "collect"]
    BY <2>1, <2>3 DEF FrontStates
  <2>4. QED
    BY <1>3, <2>2, <2>3 DEF WokenByRetire
<1>7. /\ wk' \in [Nodes -> [pc : WorkerPCs, x : Xops \cup {NoXop}]]
      /\ wk'[n].pc = "drain" /\ wk'[n].x = NoXop
      /\ \A m \in Nodes : m # n => wk'[m] = wk[m]
  BY <1>3, <1>4 DEF ControlOK, WorkerPCs
<1>8. /\ xopq' \in [Nodes -> Seq(Xops)]
      /\ \A m \in Nodes : m # n => xopq'[m] = xopq[m]
      /\ \A i \in DOMAIN xopq'[n] : i + 1 \in DOMAIN xopq[n] /\ i + 1 # 1
                                      /\ xopq'[n][i] = xopq[n][i + 1]
  <2>1. Tail(xopq[n]) \in Seq(Xops)
    BY <1>4
  <2>2. xopq' \in [Nodes -> Seq(Xops)]
    BY <1>3, <1>4, <2>1 DEF ControlOK
  <2>3. xopq'[n] = Tail(xopq[n]) /\ \A m \in Nodes : m # n => xopq'[m] = xopq[m]
    BY <1>3, <1>4 DEF ControlOK
  <2>4. \A i \in DOMAIN Tail(xopq[n]) : /\ i + 1 \in DOMAIN xopq[n] /\ i + 1 # 1
                                        /\ Tail(xopq[n])[i] = xopq[n][i + 1]
    BY <1>4
  <2>5. QED
    BY <2>2, <2>3, <2>4
<1>9. ControlOK'
  BY <1>5, <1>6, <1>7, <1>8 DEF ControlOK
<1>10. UsersHoldBits'
  <2>1. ASSUME NEW m \in Nodes, NEW i \in DOMAIN xopq'[m]
        PROVE  m \in head'[xopq'[m][i]].mask
    <3>1. CASE m = n
      <4>1. /\ i + 1 \in DOMAIN xopq[n] /\ 1 \in DOMAIN xopq[n]
            /\ xopq'[n][i] = xopq[n][i + 1] /\ i + 1 # 1
        BY <1>4, <1>8, <2>1, <3>1
      <4>2. xopq[n][i + 1] # x /\ xopq[n][i + 1] \in Xops
        BY <1>4, <4>1 DEF QueueInv
      <4>3. QED
        BY <1>4, <1>5, <3>1, <4>1, <4>2 DEF UsersHoldBits
    <3>2. CASE m # n
      <4>1. i \in DOMAIN xopq[m] /\ xopq'[m][i] = xopq[m][i] /\ xopq[m][i] \in Xops
        BY <1>4, <1>8, <2>1, <3>2, ControlFacts
      <4>2. m \in head[xopq[m][i]].mask
        BY <1>4, <4>1 DEF UsersHoldBits
      <4>3. QED
        BY <1>5, <3>2, <4>1, <4>2
    <3>3. QED
      BY <3>1, <3>2
  <2>2. \A m \in Nodes : wk'[m].x # NoXop => xopq'[m] # <<>> /\ wk'[m].x = Head(xopq'[m])
    BY <1>4, <1>7, <1>8 DEF UsersHoldBits
  <2>3. \A y \in Xops : fe'[y] # "none" => VOP \in head'[y].mask
    BY <1>4, <1>5, <1>6 DEF UsersHoldBits
  <2>4. QED
    BY <2>1, <2>2, <2>3 DEF UsersHoldBits
<1>11. QueueInv'
  <2>1. ASSUME NEW m \in Nodes, NEW i \in DOMAIN xopq'[m], NEW j \in DOMAIN xopq'[m],
               xopq'[m][i] = xopq'[m][j]
        PROVE  i = j
    <3>1. CASE m = n
      <4>1. i \in Int /\ j \in Int
        BY <1>8, <2>1
      <4>2. i + 1 = j + 1
        BY <1>4, <1>8, <2>1, <3>1 DEF QueueInv
      <4>3. QED
        BY <4>1, <4>2
    <3>2. CASE m # n
      BY <1>4, <1>8, <2>1, <3>2 DEF QueueInv
    <3>3. QED
      BY <3>1, <3>2
  <2>2. \A m \in Nodes : wk'[m].x = NoXop <=> wk'[m].pc \in {"drain", "asleep"}
    BY <1>4, <1>7 DEF QueueInv
  <2>3. QED
    BY <2>1, <2>2 DEF QueueInv
<1>12. BufferInv'
  <2> SUFFICES ASSUME NEW y \in Xops  PROVE  BufferOf(y)'
    BY DEF BufferInv
  <2>1. \A m \in Nodes : wk'[m].x = y => wk'[m] = wk[m] /\ m # n
    BY <1>4, <1>7
  <2>2. CASE y = x
    <3>1. \A m \in Nodes : wk'[m].x = x => m \in head'[x].mask
      <4>1. \A m \in Nodes : wk[m].x = x => m \in head[x].mask
        BY <1>4, UserFacts
      <4>2. QED
        BY <1>5, <2>1, <2>2, <4>1
    <3>2. QED
      BY <1>3, <1>4, <1>6, <2>1, <2>2, <3>1, RetireBuffer
  <2>3. CASE y # x
    <3>1. BufferOf(y)
      BY DEF UseInv, BufferInv
    <3>2. \A m \in Nodes : /\ wk'[m].x = y <=> wk[m].x = y
                           /\ wk[m].x = y => wk'[m].pc = wk[m].pc
      BY <1>2, <1>4, <1>7, <2>3
    <3>3. QED
      BY <1>5, <1>6, <2>3, <3>1, <3>2, OtherBuffer
  <2>4. QED
    BY <2>2, <2>3
<1>13. QED
  BY <1>9, <1>10, <1>11, <1>12 DEF UseInv

\* The frontend leaves: the workers that are left keep the XOP.
LEMMA LeaveKeeps ==
    ASSUME UseInv, NEW x \in Xops, FrontRetire(x)
    PROVE  UseInv'
<1>1. /\ fe[x] = "ready" /\ xop_retire(x, VOP)
      /\ fe' = [fe EXCEPT ![x] = "none"] /\ UNCHANGED <<xopq, wk>>
  BY DEF FrontRetire
<1>2. /\ ControlOK /\ UsersHoldBits /\ QueueInv /\ VOP \notin Nodes
      /\ VOP \in head[x].mask /\ ~Async(x)
  BY <1>1, XopAssumption DEF UseInv, UsersHoldBits, BufferInv, BufferOf
<1>3. /\ head' = [y \in Xops |-> head'[y]] /\ \A y \in Xops : HeadIs(head'[y])
      /\ head'[x].mask = head[x].mask \ {VOP} /\ bp' \in [Xops -> 0..2]
      /\ \A y \in Xops : y # x => head'[y] = head[y] /\ bp'[y] = bp[y]
  BY <1>1, RetireIs
<1>4. /\ fe' \in [Xops -> FrontStates] /\ fe'[x] = "none"
      /\ \A y \in Xops : y # x => fe'[y] = fe[y]
  BY <1>1, <1>2 DEF ControlOK, FrontStates
<1>5. ControlOK'
  BY <1>1, <1>2, <1>3, <1>4 DEF ControlOK
<1>6. UsersHoldBits'
  <2>1. \A m \in Nodes, y \in Xops : m \in head[y].mask => m \in head'[y].mask
    BY <1>2, <1>3
  <2>2. \A m \in Nodes : \A i \in DOMAIN xopq[m] : xopq[m][i] \in Xops
    BY <1>2, ControlFacts
  <2>3. \A m \in Nodes : \A i \in DOMAIN xopq[m] : m \in head'[xopq[m][i]].mask
    BY <1>2, <2>1, <2>2 DEF UsersHoldBits
  <2>4. \A y \in Xops : fe'[y] # "none" => VOP \in head'[y].mask
    BY <1>2, <1>3, <1>4 DEF UsersHoldBits
  <2>5. QED
    BY <1>1, <1>2, <2>3, <2>4 DEF UsersHoldBits
<1>7. QueueInv'
  BY <1>1, <1>2 DEF QueueInv
<1>8. BufferInv'
  <2> SUFFICES ASSUME NEW y \in Xops  PROVE  BufferOf(y)'
    BY DEF BufferInv
  <2>1. CASE y = x
    <3>1. \A m \in Nodes : wk[m].x = x => m \in head[x].mask
      BY <1>2, UserFacts, XopAssumption
    <3>2. \A m \in Nodes : wk'[m].x = x => m \in head'[x].mask
      BY <1>1, <1>2, <1>3, <3>1
    <3>3. \A m \in Nodes : wk'[m].x = x => wk'[m] = wk[m]
      BY <1>1
    <3>4. QED
      BY <1>1, <1>2, <1>4, <2>1, <3>2, <3>3, RetireBuffer
  <2>2. CASE y # x
    <3>1. BufferOf(y)
      BY DEF UseInv, BufferInv
    <3>2. QED
      BY <1>1, <1>3, <1>4, <2>2, <3>1, OtherBuffer
  <2>3. QED
    BY <2>1, <2>2
<1>9. QED
  BY <1>5, <1>6, <1>7, <1>8 DEF UseInv

\* A step of the collector that keeps all but its own fields.
LEMMA CollectorKeeps ==
    ASSUME UseInv, NEW x \in Xops, NEW h, HeadIs(h),
           h.kind = head[x].kind, h.mask = head[x].mask,
           h.finished = head[x].finished, h.lock = head[x].lock,
           head' = [head EXCEPT ![x] = h],
           fe' = fe \/ (fe[x] # "none" /\ \E s \in FrontStates \ {"none"} :
                                            fe' = [fe EXCEPT ![x] = s]),
           UNCHANGED <<xopq, wk, bp>>
    PROVE  UseInv'
<1>1. /\ head' = [y \in Xops |-> head'[y]] /\ \A y \in Xops : HeadIs(head'[y])
      /\ head'[x] = h /\ \A y \in Xops : y # x => head'[y] = head[y]
  BY HeadWith DEF UseInv
<1>2. fe' \in [Xops -> FrontStates] /\ \A y \in Xops : fe'[y] = "none" <=> fe[y] = "none"
  <2>1. fe \in [Xops -> FrontStates]
    BY DEF UseInv, ControlOK
  <2>2. QED
    BY <2>1
<1>3. QED
  BY <1>1, <1>2, OnlyCollector

\* hammer2_xop_collect up to its verdict, and what the frontend does between.
LEMMA CollectKeeps ==
    ASSUME UseInv, NEW x \in Xops,
           \/ CollectRead(x) \/ CollectSlot(x) \/ CollectSkip(x) \/ CollectWait(x)
           \/ CollectTimeout(x) \/ FrontAgain(x)
    PROVE  UseInv'
<1>1. UNCHANGED <<xopq, wk, bp>>
  BY DEF CollectRead, CollectSlot, CollectSkip, CollectWait, CollectTimeout, FrontAgain
<1>2. HeadIs(head[x]) /\ fe \in [Xops -> FrontStates]
      /\ head = [y \in Xops |-> head[y]] /\ \A y \in Xops : HeadIs(head[y])
  BY HeadsAre DEF UseInv, ControlOK
<1>3. ASSUME NEW h, HeadIs(h), h.kind = head[x].kind, h.mask = head[x].mask,
             h.finished = head[x].finished, h.lock = head[x].lock,
             head' = [head EXCEPT ![x] = h],
             fe' = fe \/ (fe[x] = "collect" /\ fe' = [fe EXCEPT ![x] = "asleep"])
      PROVE  UseInv'
  BY <1>1, <1>3, CollectorKeeps DEF FrontStates
<1>4. CASE CollectRead(x)
  <2> DEFINE h == [head[x] EXCEPT !.pos = 1, !.fresh = TRUE]
  <2>1. head' = [head EXCEPT ![x] = h] /\ fe' = fe
    BY <1>2, <1>4 DEF CollectRead
  <2>2. /\ HeadIs(h) /\ h.kind = head[x].kind /\ h.mask = head[x].mask
        /\ h.finished = head[x].finished /\ h.lock = head[x].lock
    BY <1>2 DEF HeadIs
  <2> HIDE DEF h
  <2>3. QED
    BY <1>3, <2>1, <2>2
<1>5. CASE CollectSlot(x)
  <2>1. CASE head' = head
    <3>1. fe' = fe
      BY <1>5 DEF CollectSlot
    <3>2. QED
      BY <1>1, <1>2, <2>1, <3>1, OnlyCollector
  <2>2. CASE head' = [head EXCEPT ![x].pos = head[x].pos + 1]
    <3> DEFINE h == [head[x] EXCEPT !.pos = head[x].pos + 1]
    <3>1. head' = [head EXCEPT ![x] = h] /\ fe' = fe
      BY <1>2, <1>5, <2>2 DEF CollectSlot
    <3>2. /\ HeadIs(h) /\ h.kind = head[x].kind /\ h.mask = head[x].mask
          /\ h.finished = head[x].finished /\ h.lock = head[x].lock
      BY <1>2 DEF HeadIs
    <3> HIDE DEF h
    <3>3. QED
      BY <1>3, <3>1, <3>2
  <2>3. QED
    BY <1>5, <2>1, <2>2 DEF CollectSlot
<1>6. CASE CollectSkip(x)
  <2> DEFINE h == [head[x] EXCEPT !.ckey = LowKey(clu[x]) + 1, !.pos = 0]
  <2>1. head' = [head EXCEPT ![x] = h] /\ fe' = fe
    BY <1>2, <1>6 DEF CollectSkip
  <2>2. /\ HeadIs(h) /\ h.kind = head[x].kind /\ h.mask = head[x].mask
        /\ h.finished = head[x].finished /\ h.lock = head[x].lock
    BY <1>2 DEF HeadIs
  <2> HIDE DEF h
  <2>3. QED
    BY <1>3, <2>1, <2>2
<1>7. CASE CollectWait(x)
  <2> DEFINE h == [head[x] EXCEPT !.pos = 0, !.wait = head[x].wait \/ head[x].fresh]
  <2>1. head' = [head EXCEPT ![x] = h]
    BY <1>2, <1>7 DEF CollectWait
  <2>2. /\ HeadIs(h) /\ h.kind = head[x].kind /\ h.mask = head[x].mask
        /\ h.finished = head[x].finished /\ h.lock = head[x].lock
    <3>1. (head[x].wait \/ head[x].fresh) \in BOOLEAN
      OBVIOUS
    <3> DEFINE w == head[x].wait \/ head[x].fresh
    <3> HIDE DEF w
    <3>2. [head[x] EXCEPT !.pos = 0, !.wait = w] = h
      BY DEF w
    <3>3. w \in BOOLEAN
      BY <3>1 DEF w
    <3> DEFINE g == [head[x] EXCEPT !.pos = 0, !.wait = w]
    <3>4. /\ HeadIs(g) /\ g.kind = head[x].kind /\ g.mask = head[x].mask
          /\ g.finished = head[x].finished /\ g.lock = head[x].lock
      BY <1>2, <3>3 DEF HeadIs
    <3>5. g = h
      BY <3>2
    <3> HIDE DEF g, h
    <3>6. QED
      BY <3>4, <3>5
  <2>3. fe' = fe \/ (fe[x] = "collect" /\ fe' = [fe EXCEPT ![x] = "asleep"])
    BY <1>7 DEF CollectWait
  <2> HIDE DEF h
  <2>4. QED
    BY <1>3, <2>1, <2>2, <2>3
<1>8. CASE CollectTimeout(x) \/ FrontAgain(x)
  <2>1. /\ head' = head /\ fe[x] \in {"asleep", "ready"}
        /\ fe' = [fe EXCEPT ![x] = "collect"]
    BY <1>8 DEF CollectTimeout, FrontAgain
  <2>2. fe' \in [Xops -> FrontStates] /\ \A y \in Xops : fe'[y] = "none" <=> fe[y] = "none"
    BY <1>2, <2>1 DEF FrontStates
  <2>3. QED
    BY <1>1, <1>2, <2>1, <2>2, OnlyCollector
<1>9. QED
  BY <1>4, <1>5, <1>6, <1>7, <1>8

\* COLLECT_NOWAIT, or a verdict for the worker: it holds the lock, and leaves
\* with it or completes the buffer.
LEMMA LockHolder ==
    ASSUME UseInv, NEW x \in Xops, fe[x] # "collect", Collecting(x)
    PROVE  /\ head[x].lock \in Nodes /\ ~head[x].finished /\ Async(x)
           /\ Works(head[x].lock, x, "collect") /\ VOP \in head[x].mask
           /\ \A m \in Nodes : Works(m, x, "collect") => m = head[x].lock
           /\ \A m \in Nodes : ~Works(m, x, "complete")
<1>1. PICK n \in Nodes : Works(n, x, "collect")
  BY DEF Collecting, Works
<1>2. BufferOf(x)
  BY DEF UseInv, BufferInv
<1>3. head[x].lock = n /\ ~head[x].finished
  BY <1>1, <1>2 DEF BufferOf
<1>4. Async(x)
  BY <1>1, <1>2 DEF BufferOf, Works
<1>5. QED
  BY <1>1, <1>2, <1>3, <1>4 DEF BufferOf

\* A worker that collects for a buffer, whether it leaves it to another (COLLECT_NOWAIT)
\* or completes it.
LEMMA WorkerCollectKeeps ==
    ASSUME UseInv, NEW x \in Xops, fe[x] # "collect",
           CollectNowait(x) \/ CollectReturn(x)
    PROVE  UseInv'
<1>1. Collecting(x)
  BY DEF CollectNowait, CollectReturn, AtCheck
<1>2. PICK n \in Nodes : n = head[x].lock
  BY <1>1, LockHolder
<1>3. /\ ~head[x].finished /\ Async(x) /\ Works(n, x, "collect") /\ VOP \in head[x].mask
      /\ \A m \in Nodes : Works(m, x, "collect") => m = n
      /\ \A m \in Nodes : ~Works(m, x, "complete")
  BY <1>1, <1>2, LockHolder
<1>4. HeadIs(head[x]) /\ BufferOf(x) /\ wk[n].x = x /\ x # NoXop /\ ControlOK
  BY <1>3, HeadsAre, XopAssumption DEF UseInv, BufferInv, Works
<1> DEFINE Leaves(pc, h) ==
      /\ HeadIs(h) /\ h.mask = head[x].mask /\ h.kind = head[x].kind
      /\ pc = "complete" => h.finished = TRUE
      /\ head' = [head EXCEPT ![x] = h]
      /\ wk' = [wk EXCEPT ![n].pc = pc]
<1>12. \E pc \in {"done", "complete"} : \E h : Leaves(pc, h)
  <2>1. CASE CollectNowait(x)
    <3> DEFINE g == [head[x] EXCEPT !.pos = 0, !.lock = 0]
    <3>1. head' = [head EXCEPT ![x] = g] /\ wk' = [wk EXCEPT ![n].pc = "done"]
      BY <1>2, <1>4, <2>1 DEF CollectNowait, Run, ControlOK
    <3>2. HeadIs(g) /\ g.mask = head[x].mask /\ g.kind = head[x].kind
      BY <1>4 DEF HeadIs
    <3> HIDE DEF g
    <3>3. Leaves("done", g)
      BY <3>1, <3>2
    <3> HIDE DEF Leaves
    <3>4. QED
      BY <3>3
  <2>2. CASE CollectReturn(x)
    <3> DEFINE k == IF LowKey(clu[x]) = KeyMax THEN LowKey(clu[x]) ELSE LowKey(clu[x]) + 1
               g1 == [head[x] EXCEPT !.pos = 0, !.ckey = k]
               g == [g1 EXCEPT !.finished = TRUE, !.lock = 0]
    <3>1. head' = [head EXCEPT ![x] = g] /\ wk' = [wk EXCEPT ![n].pc = "complete"]
      BY <1>2, <2>2 DEF CollectReturn, Run
    <3> HIDE DEF k
    <3>2. HeadIs(g1) /\ g1.mask = head[x].mask /\ g1.kind = head[x].kind
      BY <1>4 DEF HeadIs
    <3> HIDE DEF g1
    <3>3. HeadIs(g) /\ g.mask = g1.mask /\ g.kind = g1.kind /\ g.finished = TRUE
      BY <3>2 DEF HeadIs
    <3> HIDE DEF g
    <3>4. Leaves("complete", g)
      BY <3>1, <3>2, <3>3
    <3> HIDE DEF Leaves
    <3>5. QED
      BY <3>4
  <2>3. QED
    BY <2>1, <2>2
<1>13. PICK pc \in {"done", "complete"} : \E h : Leaves(pc, h)
  BY <1>12
<1>14. PICK h : Leaves(pc, h)
  BY <1>13
<1>5. /\ HeadIs(h) /\ h.mask = head[x].mask /\ h.kind = head[x].kind
      /\ pc = "complete" => h.finished = TRUE
      /\ head' = [head EXCEPT ![x] = h]
      /\ wk' = [wk EXCEPT ![n].pc = pc]
  BY <1>14
<1>6. UNCHANGED <<xopq, fe, bp>>
  BY DEF CollectNowait, CollectReturn
<1>7. ControlOK' /\ UsersHoldBits' /\ QueueInv'
  <2>1. pc \in WorkerPCs \ {"drain", "asleep"} /\ wk[n].x # NoXop
    BY <1>4 DEF WorkerPCs
  <2>2. bp' \in [Xops -> 0..2]
    BY <1>4, <1>6 DEF ControlOK
  <2>3. head' = [head EXCEPT ![wk[n].x] = h] /\ h.mask = head[wk[n].x].mask
    BY <1>4, <1>5
  <2>4. QED
    BY <1>5, <1>6, <2>1, <2>2, <2>3, AtWork
<1>8. /\ head'[x] = h /\ \A y \in Xops : y # x => head'[y] = head[y]
  BY <1>4, <1>5, HeadWith
<1>9. /\ wk'[n].pc = pc
      /\ \A m \in Nodes : /\ wk'[m].x = wk[m].x
                          /\ m # n => wk'[m].pc = wk[m].pc
  BY <1>5, Moves DEF WorkerPCs
<1>10. BufferInv'
  <2> SUFFICES ASSUME NEW y \in Xops  PROVE  BufferOf(y)'
    BY DEF BufferInv
  <2>1. CASE y = x
    <3>1. \A m \in Nodes : /\ ~Works(m, x, "collect")'
                           /\ Works(m, x, "complete")' => m = n /\ pc = "complete"
      BY <1>3, <1>9 DEF Works
    <3>2. Async(x)' /\ VOP \in head'[x].mask /\ (pc = "complete" => head'[x].finished)
      BY <1>3, <1>5, <1>8 DEF Async
    <3>3. fe'[x] = "none" /\ bp'[x] = 0
      BY <1>3, <1>4, <1>6 DEF BufferOf
    <3>4. QED
      BY <2>1, <3>1, <3>2, <3>3 DEF BufferOf
  <2>2. CASE y # x
    <3>1. BufferOf(y)
      BY DEF UseInv, BufferInv
    <3>2. QED
      BY <1>4, <1>6, <1>8, <1>9, <2>2, <3>1, OtherBuffer
  <2>3. QED
    BY <2>1, <2>2
<1>11. QED
  BY <1>7, <1>10 DEF UseInv

\* A verdict for the frontend.
LEMMA ReturnKeeps ==
    ASSUME UseInv, NEW x \in Xops, CollectNowait(x) \/ CollectReturn(x)
    PROVE  UseInv'
<1>1. CASE fe[x] # "collect"
  BY <1>1, WorkerCollectKeeps
<1>2. CASE fe[x] = "collect"
  <2> DEFINE k == IF LowKey(clu[x]) = KeyMax THEN LowKey(clu[x]) ELSE LowKey(clu[x]) + 1
             h == [head[x] EXCEPT !.pos = 0, !.ckey = k]
  <2>1. /\ head' = [head EXCEPT ![x] = h] /\ fe' = [fe EXCEPT ![x] = "ready"]
        /\ UNCHANGED <<xopq, wk, bp>>
    BY <1>2 DEF CollectNowait, CollectReturn
  <2> HIDE DEF k
  <2>2. /\ HeadIs(h) /\ h.kind = head[x].kind /\ h.mask = head[x].mask
        /\ h.finished = head[x].finished /\ h.lock = head[x].lock
    BY HeadsAre DEF HeadIs
  <2> HIDE DEF h
  <2>3. "ready" \in FrontStates \ {"none"}
    BY DEF FrontStates
  <2>4. QED
    BY <1>2, <2>1, <2>2, <2>3, CollectorKeeps
<1>3. QED
  BY <1>1, <1>2

-----------------------------------------------------------------------------
(* The theorems.                                                             *)

\* Whoever uses an XOP holds a bit of its mask, in every reachable state.
THEOREM Invariance == XopSpec => []UseInv
<1>1. XopInit => UseInv
  <2> SUFFICES ASSUME XopInit PROVE UseInv
    OBVIOUS
  <2>1. HeadIs(Fresh("scan", {})) /\ Fresh("scan", {}).mask = {}
          /\ Fresh("scan", {}).kind = "scan"
    BY FreshIs DEF Kinds
  <2>2. head = [y \in Xops |-> Fresh("scan", {})]
    BY DEF XopInit
  <2>3. wk = [n \in Nodes |-> [pc |-> "drain", x |-> NoXop]]
    BY DEF XopInit
  <2>4. /\ xopq = [n \in Nodes |-> <<>>] /\ fe = [y \in Xops |-> "none"]
        /\ bp = [y \in Xops |-> 0]
    BY DEF XopInit
  <2>5. ControlOK
    BY <2>1, <2>2, <2>3, <2>4 DEF ControlOK, WorkerPCs, FrontStates
  <2>6. UsersHoldBits /\ QueueInv
    BY <2>3, <2>4 DEF UsersHoldBits, QueueInv
  <2>7. BufferInv
    BY <2>1, <2>2, <2>3, <2>4, XopAssumption DEF BufferInv, BufferOf, Works, Async
  <2>8. QED
    BY <2>5, <2>6, <2>7 DEF UseInv
<1>2. UseInv /\ [XopNext]_xopVars => UseInv'
  <2> SUFFICES ASSUME UseInv, [XopNext]_xopVars PROVE UseInv'
    OBVIOUS
  <2>1. CASE UNCHANGED xopVars
    BY <2>1, HeadsAre, OnlyCollector DEF xopVars, UseInv, ControlOK
  <2>2. ASSUME NEW x \in Xops, NEW kind \in XopKinds[x], xop_start(x, kind)
        PROVE  UseInv'
    <3>1. kind \in Kinds
      BY XopAssumption
    <3>2. QED
      BY <2>2, <3>1, StartKeeps
  <2>3. ASSUME NEW x \in Xops,
               Collect(x) \/ CollectTimeout(x) \/ FrontAgain(x) \/ FrontRetire(x)
        PROVE  UseInv'
    BY <2>3, CollectKeeps, ReturnKeeps, LeaveKeeps DEF Collect
  <2>4. ASSUME NEW n \in Nodes, Worker(n) \/ WorkerTimeout(n)
        PROVE  UseInv'
    BY <2>4, IdleKeeps, FeedKeeps, CopyKeeps, RaceKeeps, CompleteKeeps, DoneKeeps
       DEF Worker
  <2>5. QED
    BY <2>1, <2>2, <2>3, <2>4 DEF XopNext
<1>3. QED
  BY <1>1, <1>2, PTL DEF XopSpec

\* hammer2_xop_retire and hammer2_strategy.c: the last retirement frees an XOP
\* under nobody, and whichever worker wins the race, the buffer of a logical
\* read or write is completed once and the frontend's bit goes with it.
THEOREM XopsAreSound == XopSpec => []XopSound
<1>1. UseInv => XopSound
  <2> SUFFICES ASSUME UseInv PROVE XopSound
    OBVIOUS
  <2>1. \A x \in Xops : BufferOf(x)
    BY DEF UseInv, BufferInv
  <2>2. BufferOnce
    BY <2>1 DEF BufferOnce, BufferOf, Works
  <2>3. QED
    BY <2>2 DEF UseInv, XopSound
<1>2. QED
  BY <1>1, Invariance, PTL

-----------------------------------------------------------------------------
(* What a scan of a cluster collects: the fifos hold what was fed, a slot     *)
(* the chain taken last, and the frontend what is agreed on up to collect_key.*)

\* What the theorem about a collect is about: one master, and no fifo that has
\* to grow after it has wrapped.
OneMaster == pfs_nmasters <= 1 /\ \E m \in Nodes : Masters = {m}
AnswersFit ==
    \A a \in Answers : \A n \in Nodes :
        /\ Len(a[n]) <= FifoSize
        /\ Len(a[n]) = FifoSize => \A m \in Nodes \ {n} : Len(a[m]) < FifoSize

\* What a node feeds to XOP h with answer a: how many entries, and the i-th.
Entries(h, a) == IF h.kind = "scan" THEN Len(a) + 1 ELSE 1
Said(h, a, i) ==
    IF h.kind \in {"scan", "read"} /\ i < Len(a)
    THEN [chain |-> a[i + 1], err |-> a[i + 1].err] ELSE NullEntry

HeadOK(h) == h.size \in {FifoSize, 2 * FifoSize} /\ h.ckey \in 0..KeyMax /\ h.pos \in Nat

\* The answer of an XOP that is free, or was started with none, is empty.
AnswerOK(a) == a = [n \in Nodes |-> <<>>] \/ a \in Answers

\* A fifo holds what was fed and not yet taken; whoever still feeds after a
\* fifo has grown stays below the old size.
FifoOK(h, f, a) ==
    /\ f.ri <= f.wi /\ f.wi <= Entries(h, a) /\ FifoSize <= Len(f.array)
    /\ \A i \in f.ri .. f.wi - 1 :
          LET slot == (i % h.size) + 1
          IN slot <= Len(f.array) /\ f.array[slot] = Said(h, a, i)
    /\ h.size = 2 * FifoSize => f.wi = Entries(h, a) \/ Entries(h, a) <= FifoSize

\* The slot of a node: the chain taken last, while its key is not yet passed.
SlotOK(h, f, s, a) ==
    /\ s.err \in {"0", "EIO"}
    /\ h.kind = "scan" =>
          /\ s.chain # NoChain => f.ri \in 1..Len(a) /\ s.chain = a[f.ri]
          /\ s.null => f.ri = Len(a) + 1
          /\ \A i \in 1..Len(a) : i <= f.ri /\ (i = f.ri => s.chain = NoChain)
                                    => a[i].key < h.ckey

\* The collector has brought the slots it has seen up to collect_key.
PassOK(h, c) == \A n \in Nodes : n < h.pos => c[n].chain.key >= h.ckey

\* The frontend has what is agreed below collect_key, or below the key at which
\* the scan ended.
Given(g) == {<<g[i].key, g[i].tid>> : i \in {j \in DOMAIN g : g[j].err = "0"}}
AgreedBelow(a, key) == {kt \in QuorumKeys(a) : kt[1] < key}
GotOK(h, g, a, state) ==
    h.kind = "scan" /\ state # "none" =>
        /\ \A i, j \in DOMAIN g : i < j => g[i].key < g[j].key
        /\ state = "ready" => g # <<>>
        /\ IF state = "ready" /\ g[Len(g)].err # "0"
           THEN /\ Given(g) = AgreedBelow(a, g[Len(g)].key)
                /\ g[Len(g)].err = "ENOENT" => g[Len(g)].key = KeyMax
           ELSE /\ Given(g) = AgreedBelow(a, h.ckey)
                /\ \A i \in DOMAIN g : g[i].err = "0" /\ g[i].key < h.ckey
                /\ state = "ready" => g[Len(g)].key + 1 = h.ckey

Rested(x) ==
    /\ \A n \in Nodes : fifo[x][n] = NewFifo /\ clu[x][n] = EmptySlot
    /\ got[x] = <<>> /\ answer[x] = [n \in Nodes |-> <<>>]

\* A worker that has yet to feed.
FeederOK(x, n) ==
    /\ wk[n].x = x /\ wk[n].pc \in {"copy", "feed"} =>
          fifo[x][n].wi < Entries(head[x], answer[x][n])
    /\ n \in head[x].mask /\ wk[n].x # x => fifo[x][n].wi = 0

DataOf(x) ==
    /\ HeadOK(head[x]) /\ AnswerOK(answer[x])
    /\ \A n \in Nodes : /\ FifoOK(head[x], fifo[x][n], answer[x][n])
                        /\ SlotOK(head[x], fifo[x][n], clu[x][n], answer[x][n])
                        /\ FeederOK(x, n)
    /\ PassOK(head[x], clu[x]) /\ GotOK(head[x], got[x], answer[x], fe[x])
    /\ head[x].mask = {} => Rested(x)

GotState == [err : Errors, key : 0..KeyMax, tid : 0..TidMax]
DataTypes ==
    /\ fifo \in [Xops -> [Nodes -> FifoState]]
    /\ clu \in [Xops -> [Nodes -> Slot]]
    /\ answer \in [Xops -> [Nodes -> Seq(Chain)]]
    /\ got \in [Xops -> Seq(GotState)]
DataInv == DataTypes /\ \A x \in Xops : DataOf(x)

-----------------------------------------------------------------------------
\* A finite set of naturals has a greatest element, and Max names it.
LEMMA MaxIs ==
    ASSUME NEW S \in SUBSET Nat, IsFiniteSet(S), S # {}
    PROVE  Max(S) \in S /\ \A k \in S : k <= Max(S)
<1> DEFINE Above(m) == {k \in S : k > m}
           B == {Above(m) : m \in S}
<1>1. B \subseteq FiniteSubsetsOf(S) /\ B # {}
  <2>1. \A m \in S : Above(m) \in SUBSET S /\ IsFiniteSet(Above(m))
    BY FS_Subset
  <2>2. QED
    BY <2>1 DEF FiniteSubsetsOf
<1>2. PICK M \in B : \A K \in B : <<K, M>> \notin StrictSubsetOrdering(S)
  BY <1>1, WFMin, FS_StrictSubsetOrderingWellFounded
<1>3. PICK m \in S : M = Above(m)
  OBVIOUS
<1>4. ASSUME NEW k \in S, k > m
      PROVE  FALSE
  <2>0. k \in Nat /\ m \in Nat /\ S \subseteq Nat
    OBVIOUS
  <2>4. Above(k) \subseteq Above(m)
    <3>1. ASSUME NEW j \in S, j > k
          PROVE  j > m
      <4>1. j \in Nat
        BY <2>0
      <4>2. QED
        BY <1>4, <2>0, <3>1, <4>1
    <3>2. QED
      BY <3>1
  <2>1. Above(k) \subseteq Above(m) /\ k \in Above(m) /\ k \notin Above(k)
    BY <1>4, <2>0, <2>4
  <2>2. <<Above(k), Above(m)>> \in StrictSubsetOrdering(S)
    BY <2>1 DEF StrictSubsetOrdering
  <2>3. QED
    BY <2>2, <1>2, <1>3
<1>5. \A k \in S : m >= k
  BY <1>4
<1>6. QED
  BY <1>5 DEF Max

\* The bounds on keys and modify_tids: no chain has the key of NoChain.
LEMMA KeyBounds ==
    /\ KeyMax \in Nat \ {0} /\ \A k \in Keys : k \in Nat /\ k < KeyMax
    /\ TidMax \in Nat \ {0} /\ \A t \in Tids : t \in Nat /\ t < TidMax
    /\ NoChain \notin Chain /\ NoChain.key = KeyMax /\ NoChain.err = "0"
    /\ \A c \in Chain : /\ c.key \in Keys /\ c.tid \in Tids /\ c.err \in {"0", "EIO"}
                        /\ c # NoChain
<1>1. /\ Max(Keys) \in Keys /\ \A k \in Keys : k <= Max(Keys)
      /\ Max(Tids) \in Tids /\ \A t \in Tids : t <= Max(Tids)
      /\ Keys \subseteq Nat /\ Tids \subseteq Nat
  BY ClusterAssumption, MaxIs
<1>2. /\ KeyMax \in Nat \ {0} /\ \A k \in Keys : k \in Nat /\ k < KeyMax
      /\ TidMax \in Nat \ {0} /\ \A t \in Tids : t \in Nat /\ t < TidMax
  <2>1. ASSUME NEW S \in SUBSET Nat, NEW m \in S, \A k \in S : k <= m
        PROVE  1 + m \in Nat \ {0} /\ \A k \in S : k \in Nat /\ k < 1 + m
    BY <2>1
  <2>2. KeyMax \in Nat \ {0} /\ \A k \in Keys : k \in Nat /\ k < KeyMax
    BY <1>1, <2>1 DEF KeyMax
  <2>3. TidMax \in Nat \ {0} /\ \A t \in Tids : t \in Nat /\ t < TidMax
    BY <1>1, <2>1 DEF TidMax
  <2>4. QED
    BY <2>2, <2>3
<1>3. \A c \in Chain : c.key \in Keys /\ c.tid \in Tids /\ c.err \in {"0", "EIO"}
  BY DEF Chain
<1>4. NoChain.key = KeyMax /\ NoChain.err = "0"
  BY DEF NoChain
<1>5. QED
  BY <1>2, <1>3, <1>4

\* The key of a slot.
LEMMA SlotIs ==
    ASSUME NEW s \in Slot
    PROVE  /\ s.chain \in Chain \/ s.chain = NoChain
           /\ s.chain.key \in 0..KeyMax /\ (s.chain.key = KeyMax <=> s.chain = NoChain)
           /\ s.err \in Errors /\ s.null \in BOOLEAN
<1>1. /\ s.chain \in Chain \/ s.chain = NoChain
      /\ s.err \in Errors /\ s.null \in BOOLEAN
  BY DEF Slot
<1>2. QED
  BY <1>1, KeyBounds

\* LowKey is the least key of the slots.
LEMMA LowKeyIs ==
    ASSUME NEW arr \in [Nodes -> Slot]
    PROVE  /\ LowKey(arr) \in Keys \cup {KeyMax} /\ LowKey(arr) \in 0..KeyMax
           /\ \E n \in Nodes : arr[n].chain.key = LowKey(arr)
           /\ \A n \in Nodes : LowKey(arr) <= arr[n].chain.key
<1> DEFINE S == {arr[n].chain.key : n \in Nodes}
<1>1. \A n \in Nodes : arr[n].chain.key \in 0..KeyMax
                       /\ arr[n].chain.key \in Keys \cup {KeyMax}
  BY SlotIs, KeyBounds
<1>2. S \in SUBSET Nat /\ S # {} /\ S \subseteq 0..KeyMax /\ S \subseteq Keys \cup {KeyMax}
  BY <1>1, ClusterAssumption, KeyBounds
<1>3. PICK m \in S : \A k \in S : m <= k
  BY <1>2, LeastNat
<1>4. Min(S) \in S /\ \A k \in S : Min(S) <= k
  BY <1>3 DEF Min
<1>5. LowKey(arr) = Min(S)
  BY DEF LowKey
<1>6. QED
  BY <1>2, <1>4, <1>5

\* With pfs_nmasters never set, one master makes a quorum.
LEMMA QuorumIs ==
    ASSUME OneMaster
    PROVE  Quorum = 1 /\ Majority = 1
<1>1. Cardinality(Masters) = 1
  BY FS_Singleton DEF OneMaster
<1>2. pfs_nmasters = 0 \/ pfs_nmasters = 1
  BY ClusterAssumption DEF OneMaster
<1>3. QED
  BY <1>1, <1>2 DEF Quorum, Majority

\* Pass 2 with one master: its tid if it is at the key, and none otherwise.
LEMMA RoundsAre ==
    ASSUME OneMaster, NEW M \in Nodes, Masters = {M}, NEW arr \in [Nodes -> Slot],
           NEW key \in Keys
    PROVE  IF arr[M].chain.key = key
           THEN Rounds(arr, key).tid = arr[M].chain.tid /\ Rounds(arr, key).n = 1
           ELSE Rounds(arr, key).tid = 0 /\ Rounds(arr, key).n = 0
<1> DEFINE at == AtKey(arr, key)
           tidOf(last) == BestBelow(arr, key, last)
           nOf(last) == Cardinality(Agreeing(arr, key, tidOf(last)))
           D == Tids \cup {0, TidMax}
           one(last) == [tid |-> tidOf(last), n |-> nOf(last),
                         focus |-> Focus(arr, key, last)]
           f == [last \in D |-> one(last)]
<1>1. Quorum = 1
  BY QuorumIs
<1>2. at = IF arr[M].chain.key = key THEN {M} ELSE {}
  BY KeyBounds, SlotIs DEF AtKey
<1>3. ASSUME NEW last \in D
      PROVE  \/ /\ arr[M].chain.key = key /\ arr[M].chain.tid < last
                /\ tidOf(last) = arr[M].chain.tid /\ nOf(last) = 1
             \/ /\ ~(arr[M].chain.key = key /\ arr[M].chain.tid < last)
                /\ tidOf(last) = 0
  <2> DEFINE S == {0} \cup {t \in {arr[m].chain.tid : m \in at} : t < last}
  <2>1. tidOf(last) = Max(S)
    BY DEF BestBelow
  <2>2. CASE arr[M].chain.key = key /\ arr[M].chain.tid < last
    <3>1. arr[M].chain.tid \in Nat /\ at = {M}
      BY <1>2, <2>2, SlotIs, KeyBounds
    <3>2. S = {0, arr[M].chain.tid}
      BY <3>1, <2>2
    <3>4. Max(S) = arr[M].chain.tid
      BY <3>1, <3>2 DEF Max
    <3>5. Agreeing(arr, key, arr[M].chain.tid) = {M}
      BY <3>1 DEF Agreeing
    <3>6. QED
      BY <2>1, <2>2, <3>4, <3>5, FS_Singleton
  <2>3. CASE ~(arr[M].chain.key = key /\ arr[M].chain.tid < last)
    <3>1. S = {0}
      BY <1>2, <2>3
    <3>2. Max(S) = 0
      BY <3>1 DEF Max
    <3>3. QED
      BY <2>1, <2>3, <3>2
  <2>4. QED
    BY <2>2, <2>3
<1>4. \A last \in D : nOf(last) >= Quorum \/ tidOf(last) = 0
  BY <1>1, <1>3
<1> DEFINE body(r) == [last \in D |->
              IF nOf(last) >= Quorum \/ tidOf(last) = 0 THEN one(last)
              ELSE [r[tidOf(last)] EXCEPT !.focus = IF @ = 0 THEN Focus(arr, key, last)
                                                    ELSE @]]
<1>5. Rounds(arr, key) = (CHOOSE r : r = body(r))[TidMax]
  BY DEF Rounds
<1>6. \A r : body(r) = f
  BY <1>4
<1> HIDE DEF body, f
<1>7. (CHOOSE r : r = body(r)) = f
  BY <1>6
<1>8. Rounds(arr, key) = one(TidMax)
  BY <1>5, <1>7 DEF f
<1>9. CASE arr[M].chain.key = key
  <2>1. arr[M].chain.tid < TidMax
    BY <1>9, SlotIs, KeyBounds
  <2>2. QED
    BY <1>3, <1>8, <1>9, <2>1
<1>10. CASE arr[M].chain.key # key
  <2>1. tidOf(TidMax) = 0
    BY <1>3, <1>10
  <2>2. Agreeing(arr, key, 0) = {}
    BY <1>2, <1>10 DEF Agreeing
  <2>3. nOf(TidMax) = 0
    BY <2>1, <2>2, FS_EmptySet
  <2>4. QED
    BY <1>8, <1>10, <2>1, <2>3
<1>11. QED
  BY <1>9, <1>10

\* hammer2_cluster_check with one master: the master's chain if the key is its
\* own, to be awaited while the master is under way, and to be skipped if it has
\* gone past; the end of the scan when the master is there.
LEMMA CheckIs ==
    ASSUME OneMaster, NEW M \in Nodes, Masters = {M}, NEW arr \in [Nodes -> Slot],
           \A n \in Nodes : arr[n].err \in {"0", "EIO"}
    PROVE  LET v == cluster_check(arr)  k == LowKey(arr) IN
           /\ v.err \in Errors /\ v.tid \in 0..TidMax
           /\ InProgress(arr[M]) => v.err = "EINPROGRESS"
           /\ ~InProgress(arr[M]) =>
                 IF k = KeyMax THEN v.err \in {"ENOENT", "EIO"}
                 ELSE IF arr[M].chain.key = k
                      THEN /\ v.err \in {"0", "EIO"}
                           /\ v.err = "0" => v.tid = arr[M].chain.tid
                      ELSE v.err = "ESRCH"
<1> DEFINE v == cluster_check(arr)
           k == LowKey(arr)
           unknown == {m \in Masters : InProgress(arr[m])}
<1>1. Quorum = 1
  BY QuorumIs
<1>2. unknown = IF InProgress(arr[M]) THEN {M} ELSE {}
  OBVIOUS
<1>3. Cardinality({M}) = 1 /\ Cardinality({}) = 0
  BY FS_Singleton, FS_EmptySet
<1>4. \A S \in SUBSET Nodes : FirstError(arr, S) \in {"0", "EIO"}
  <2> SUFFICES ASSUME NEW S \in SUBSET Nodes
               PROVE  FirstError(arr, S) \in {"0", "EIO"}
    OBVIOUS
  <2> DEFINE E == {n \in S : arr[n].err # "0"}
  <2>1. CASE E = {}
    BY <2>1 DEF FirstError
  <2>2. CASE E # {}
    <3>1. E \in SUBSET Nat /\ E \in SUBSET Nodes
      BY NodesAre
    <3>2. PICK m \in E : \A j \in E : m <= j
      BY <2>2, <3>1, LeastNat
    <3>3. Min(E) \in E
      BY <3>2 DEF Min
    <3>4. FirstError(arr, S) = arr[Min(E)].err
      BY <2>2 DEF FirstError
    <3>5. QED
      BY <3>1, <3>3, <3>4
  <2>3. QED
    BY <2>1, <2>2
<1>5. CASE k = KeyMax
  <2> DEFINE in == {m \in Masters : arr[m].chain = NoChain /\ arr[m].null}
             e == FirstError(arr, in)
  <2>1. arr[M].chain = NoChain
    <3>1. LowKey(arr) <= arr[M].chain.key /\ arr[M] \in Slot
      BY LowKeyIs
    <3>2. arr[M].chain.key \in 0..KeyMax /\ LowKey(arr) = KeyMax
      BY <1>5, <3>1, SlotIs
    <3>3. arr[M].chain.key = KeyMax
      BY <3>1, <3>2, KeyBounds
    <3>4. QED
      BY <3>1, <3>3, SlotIs
  <2>2. v = CheckEnd(arr)
    BY <1>5 DEF cluster_check
  <2>3. CASE InProgress(arr[M])
    <3>1. in = {} /\ unknown = {M} /\ in \cup unknown = {M}
      BY <2>3, <1>2 DEF InProgress
    <3>5. Cardinality(in) = 0 /\ Cardinality(in \cup unknown) = 1
      BY <1>3, <3>1
    <3>4. Cardinality(in) < Quorum /\ Cardinality(in \cup unknown) >= Quorum
      BY <1>1, <3>5
    <3>2. v = Result("EINPROGRESS", 0, 0)
      BY <2>2, <3>4 DEF CheckEnd
    <3>3. QED
      BY <2>3, <3>2, KeyBounds DEF Result, Errors
  <2>4. CASE ~InProgress(arr[M])
    <3>0. arr[M].null
      BY <2>1, <2>4, SlotIs DEF InProgress
    <3>1. in = {M} /\ in \in SUBSET Nodes
      BY <2>1, <3>0
    <3>2. e \in {"0", "EIO"}
      BY <1>4, <3>1
    <3>6. Cardinality(in) = 1
      BY <1>3, <3>1
    <3>5. ~(Cardinality(in) < Quorum)
      BY <1>1, <3>6
    <3>3. v = Result(IF e = "0" THEN "ENOENT" ELSE e, 0, 0)
      BY <2>2, <3>5 DEF CheckEnd
    <3>4. QED
      BY <1>5, <2>4, <3>2, <3>3, KeyBounds DEF Result, Errors
  <2>5. QED
    BY <2>3, <2>4
<1>6. CASE k # KeyMax
  <2> DEFINE r == Rounds(arr, k)
             match == {n \in Nodes : arr[n].chain # NoChain /\ arr[n].chain.key = k
                                       /\ arr[n].chain.tid = r.tid}
             at == AtKey(arr, k)
  <2>1. k \in Keys /\ v = CheckKey(arr, k)
    BY <1>6, LowKeyIs DEF cluster_check
  <2>2. IF arr[M].chain.key = k THEN r.tid = arr[M].chain.tid /\ r.n = 1
                                ELSE r.tid = 0 /\ r.n = 0
    BY <2>1, RoundsAre
  <2>3. FirstError(arr, match) \in {"0", "EIO"}
    BY <1>4
  <2>4. CASE arr[M].chain.key = k
    <3>1. /\ arr[M].chain # NoChain /\ arr[M].chain.tid \in Tids
          /\ arr[M].chain.tid \in 0..TidMax
      BY <2>1, <2>4, SlotIs, KeyBounds
    <3>2. ~InProgress(arr[M])
      BY <3>1 DEF InProgress
    <3>3. r.tid = arr[M].chain.tid /\ ~(r.n < Quorum)
      BY <1>1, <2>2, <2>4
    <3>4. v = IF r.focus = 0 THEN Result("EIO", 0, 0)
              ELSE Result(FirstError(arr, match), r.focus, r.tid)
      BY <2>1, <3>3 DEF CheckKey
    <3>5. v.err \in {"0", "EIO"} /\ (v.err = "0" => v.tid = r.tid) /\ v.tid \in {0, r.tid}
      BY <2>3, <3>4 DEF Result
    <3>6. QED
      BY <1>6, <2>4, <3>1, <3>2, <3>3, <3>5, KeyBounds DEF Errors
  <2>5. CASE arr[M].chain.key # k
    <3>1. at = {}
      BY <2>5 DEF AtKey
    <3>4. r.n = 0 /\ Cardinality(at) = 0
      BY <1>3, <2>2, <2>5, <3>1
    <3>5. Cardinality(unknown) = IF InProgress(arr[M]) THEN 1 ELSE 0
      BY <1>2, <1>3
    <3>6. /\ r.n < Quorum /\ Cardinality(at) < Quorum
          /\ r.n + Cardinality(unknown) >= Quorum <=> InProgress(arr[M])
      BY <1>1, <3>4, <3>5
    <3>2. v = Result(IF InProgress(arr[M]) THEN "EINPROGRESS" ELSE "ESRCH", 0, 0)
      BY <2>1, <3>6 DEF CheckKey
    <3>3. QED
      BY <1>6, <2>5, <3>2, KeyBounds DEF Result, Errors
  <2>6. QED
    BY <2>4, <2>5
<1>7. QED
  BY <1>5, <1>6

-----------------------------------------------------------------------------
\* The place of an entry in a fifo that has not wrapped, or has just done so.
LEMMA Places ==
    ASSUME NEW s \in Nat \ {0}
    PROVE  /\ \A i \in Nat : i < s => i % s = i
           /\ s % s = 0
           /\ \A i \in Nat : i % s \in Nat /\ i % s < s
<1>1. ASSUME NEW i \in Nat, i < s
      PROVE  i % s = i
  BY <1>1
<1>2. s % s = 0
  OBVIOUS
<1>3. \A i \in Nat : i % s \in Nat /\ i % s < s
  OBVIOUS
<1>4. QED
  BY <1>1, <1>2, <1>3

\* Nothing is agreed on below key 0.
LEMMA NoneBelow ==
    ASSUME NEW a
    PROVE  /\ AgreedBelow(a, 0) = {} /\ QuorumKeys(a) \subseteq Keys \X Tids
           /\ \A kt \in QuorumKeys(a) : kt[1] \in Nat
<1>1. QuorumKeys(a) \subseteq Keys \X Tids
  BY DEF QuorumKeys
<1>2. \A kt \in Keys \X Tids : kt[1] \in Nat
  BY ClusterAssumption
<1>3. \A kt \in QuorumKeys(a) : kt[1] \in Nat /\ ~(kt[1] < 0)
  BY <1>1, <1>2
<1>4. QED
  BY <1>1, <1>3 DEF AgreedBelow

\* What a node says is an entry of the fifo, a chain of its answer or the end.
LEMMA SaidIs ==
    ASSUME NEW h, NEW a \in Seq(Chain), NEW i \in Nat
    PROVE  /\ Said(h, a, i) \in Entry /\ Said(h, a, i).err \in {"0", "EIO"}
           /\ h.kind = "scan" => Said(h, a, i).chain =
                                   IF i < Len(a) THEN a[i + 1] ELSE NoChain
<1>1. NullEntry \in Entry /\ NullEntry.err = "0" /\ NullEntry.chain = NoChain
  BY DEF NullEntry, Entry, Errors
<1>2. CASE i < Len(a) /\ h.kind \in {"scan", "read"}
  <2>1. a[i + 1] \in Chain
    BY <1>2
  <2>2. Said(h, a, i) = [chain |-> a[i + 1], err |-> a[i + 1].err]
    BY <1>2 DEF Said
  <2>3. a[i + 1].err \in {"0", "EIO"}
    BY <2>1, KeyBounds
  <2>4. QED
    BY <1>2, <2>1, <2>2, <2>3 DEF Entry, Errors
<1>3. CASE ~(i < Len(a) /\ h.kind \in {"scan", "read"})
  <2>1. Said(h, a, i) = NullEntry
    BY <1>3 DEF Said
  <2>2. QED
    BY <1>1, <1>3, <2>1
<1>4. QED
  BY <1>2, <1>3

\* How many entries a node has.
LEMMA EntriesAre ==
    ASSUME AnswersFit, NEW h, NEW a, AnswerOK(a), NEW n \in Nodes
    PROVE  /\ a[n] \in Seq(Chain) /\ Len(a[n]) \in Nat
           /\ \A i \in 1..Len(a[n]) : a[n][i] \in Chain /\ a[n][i].key \in Nat
           /\ Entries(h, a[n]) \in Nat /\ Entries(h, a[n]) \in 1..FifoSize + 1
           /\ Entries(h, a[n]) = FifoSize + 1 =>
                 /\ h.kind = "scan"
                 /\ \A m \in Nodes : m # n => Entries(h, a[m]) <= FifoSize
           /\ \A i, j \in 1..Len(a[n]) : i < j => a[n][i].key < a[n][j].key
<1>1. FifoSize \in Nat \ {0} /\ \A c \in Chain : c.key \in Nat
  BY XopAssumption, KeyBounds
<1>2. CASE a = [m \in Nodes |-> <<>>]
  BY <1>1, <1>2 DEF Entries
<1>3. CASE a \in Answers
  <2>1. \A m \in Nodes : a[m] \in Seq(Chain) /\ Len(a[m]) \in Nat
    BY <1>3, XopAssumption
  <2>2. /\ Len(a[n]) <= FifoSize
        /\ Len(a[n]) = FifoSize => \A m \in Nodes \ {n} : Len(a[m]) < FifoSize
    BY <1>3 DEF AnswersFit
  <2>3. \A i, j \in 1..Len(a[n]) : i < j => a[n][i].key < a[n][j].key
    BY <1>3, XopAssumption
  <2>4. QED
    BY <1>1, <2>1, <2>2, <2>3 DEF Entries
<1>4. QED
  BY <1>2, <1>3 DEF AnswerOK

\* Every node has something to feed, if only the end.
LEMMA SomeEntries ==
    ASSUME AnswersFit, NEW h, NEW a, AnswerOK(a), NEW n \in Nodes
    PROVE  Entries(h, a[n]) > 0
<1>1. Entries(h, a[n]) \in 1..FifoSize + 1 /\ FifoSize \in Nat
  BY EntriesAre, XopAssumption
<1>2. QED
  BY <1>1

\* What a fifo is when an entry may be put into it, and once it was.
NewSize(f, s) == IF f.wi - f.ri = s THEN 2 * s ELSE s
MayPut(f, e, s) ==
    /\ f \in FifoState /\ e \in Entry /\ s \in {FifoSize, 2 * FifoSize}
    /\ f.ri <= f.wi /\ f.wi <= FifoSize /\ FifoSize <= Len(f.array)
    /\ s = 2 * FifoSize => f.wi < FifoSize
HasPut(f, e, s, g, t) ==
    /\ g \in FifoState /\ g.ri = f.ri /\ g.wi = f.wi + 1
    /\ FifoSize <= Len(g.array)
    /\ \A i \in f.ri..f.wi - 1 :
          /\ (i % s) + 1 <= Len(f.array) /\ (i % t) + 1 <= Len(g.array)
          /\ g.array[(i % t) + 1] = f.array[(i % s) + 1]
    /\ (f.wi % t) + 1 <= Len(g.array) /\ g.array[(f.wi % t) + 1] = e

\* hammer2_xop_feed puts an entry behind those that are there, which keep their
\* places or, when the fifo grows before it has wrapped, are copied to them.
LEMMA PutIs ==
    ASSUME NEW f, NEW e, NEW s, MayPut(f, e, s)
    PROVE  HasPut(f, e, s, Put(f, e, s), NewSize(f, s))
<1> DEFINE t == NewSize(f, s)
           g == Put(f, e, s)
           full == f.wi - f.ri = s
           a == IF full THEN Grown(f.array, t) ELSE f.array
           p == f.wi % t
           b == [a EXCEPT ![p + 1] = e]
<1>1. /\ FifoSize \in Nat \ {0} /\ s \in Nat \ {0} /\ t \in Nat \ {0}
      /\ f.ri \in Nat /\ f.wi \in Nat /\ f.array \in Seq(Entry) /\ Len(f.array) \in Nat
      /\ f \in FifoState /\ e \in Entry /\ s \in {FifoSize, 2 * FifoSize}
      /\ f.ri <= f.wi /\ f.wi <= FifoSize /\ FifoSize <= Len(f.array)
      /\ s = 2 * FifoSize => f.wi < FifoSize
      /\ t = IF full THEN 2 * s ELSE s
  BY XopAssumption DEF FifoState, MayPut, NewSize
<1> HIDE DEF t
<1>2. /\ full => s = FifoSize /\ t = 2 * FifoSize /\ f.ri = 0 /\ f.wi = FifoSize
      /\ ~full => t = s
  BY <1>1
<1>3. /\ a \in Seq(Entry) /\ Len(a) \in Nat /\ FifoSize <= Len(a)
      /\ full => Len(a) = 2 * FifoSize
      /\ \A i \in 1..FifoSize : a[i] = f.array[i]
  <2>1. CASE full
    <3>1. a = [i \in 1..2 * FifoSize |-> IF i <= Len(f.array) THEN f.array[i] ELSE NullEntry]
      BY <1>2, <2>1 DEF Grown
    <3>2. NullEntry \in Entry
      BY DEF NullEntry, Entry, Errors
    <3> HIDE DEF a
    <3>3. \A i \in 1..2 * FifoSize : a[i] \in Entry
      BY <1>1, <3>1, <3>2
    <3>4. 2 * FifoSize \in Nat /\ a \in [1..2 * FifoSize -> Entry]
      BY <1>1, <3>1, <3>3
    <3>5. a \in Seq(Entry) /\ Len(a) = 2 * FifoSize
      BY <3>4
    <3>6. \A i \in 1..FifoSize : a[i] = f.array[i]
      BY <1>1, <3>1
    <3>7. QED
      BY <1>1, <3>5, <3>6
  <2>2. CASE ~full
    BY <1>1, <2>2
  <2>3. QED
    BY <2>1, <2>2
<1>4. g = [f EXCEPT !.array = b, !.wi = f.wi + 1]
  BY <1>1 DEF Put
<1> HIDE DEF a, b, p, g
<1>5. /\ p \in Nat /\ p + 1 \in 1..Len(a)
      /\ \A i \in f.ri..f.wi - 1 : i # p
  <2>1. CASE full
    <3>1. f.wi \in Nat /\ f.wi < t
      BY <1>1, <1>2, <2>1
    <3>2. p = f.wi
      BY <1>1, <3>1, Places DEF p
    <3>3. QED
      BY <1>1, <1>2, <1>3, <2>1, <3>2
  <2>2. CASE ~full /\ f.wi < FifoSize
    <3>1. f.wi \in Nat /\ f.wi < t
      BY <1>1, <1>2, <2>2
    <3>2. p = f.wi
      BY <1>1, <3>1, Places DEF p
    <3>3. QED
      BY <1>1, <1>3, <2>2, <3>2
  <2>3. CASE ~full /\ f.wi = FifoSize
    <3>1. t = FifoSize /\ f.wi = t /\ f.ri # 0
      BY <1>1, <1>2, <2>3
    <3>2. p = 0
      BY <1>1, <3>1, Places DEF p
    <3>3. QED
      BY <1>1, <1>3, <3>1, <3>2
  <2>4. QED
    BY <1>1, <2>1, <2>2, <2>3
<1>6. /\ b \in Seq(Entry) /\ Len(b) = Len(a) /\ b[p + 1] = e
      /\ \A i \in 1..Len(a) : i # p + 1 => b[i] = a[i]
  BY <1>1, <1>3, <1>5 DEF b
<1>7. g \in FifoState /\ g.ri = f.ri /\ g.wi = f.wi + 1 /\ g.array = b
  <2>1. f = [array |-> f.array, ri |-> f.ri, wi |-> f.wi]
    BY <1>1 DEF FifoState
  <2>2. g = [array |-> b, ri |-> f.ri, wi |-> f.wi + 1]
    BY <1>4, <2>1
  <2>3. QED
    BY <1>1, <1>6, <2>2 DEF FifoState
<1>8. ASSUME NEW i \in f.ri..f.wi - 1
      PROVE  /\ (i % s) + 1 <= Len(f.array) /\ (i % t) + 1 <= Len(g.array)
             /\ g.array[(i % t) + 1] = f.array[(i % s) + 1]
  <2>1. i \in Nat /\ i < s /\ i < t /\ i + 1 \in 1..FifoSize
    BY <1>1, <1>2
  <2>2. i % s = i /\ i % t = i
    BY <1>1, <2>1, Places
  <2>3. i + 1 \in 1..Len(a) /\ i + 1 # p + 1
    BY <1>1, <1>3, <1>5, <2>1
  <2>4. g.array[i + 1] = f.array[i + 1]
    BY <1>3, <1>6, <1>7, <2>1, <2>3
  <2>5. i + 1 <= Len(f.array) /\ i + 1 <= Len(g.array)
    BY <1>1, <1>3, <1>6, <1>7, <2>1
  <2>6. QED
    BY <2>2, <2>4, <2>5
<1>9. p + 1 <= Len(g.array) /\ g.array[p + 1] = e /\ FifoSize <= Len(g.array)
  BY <1>3, <1>5, <1>6, <1>7
<1>10. QED
  BY <1>7, <1>8, <1>9 DEF p, g, t, HasPut

\* A storage function feeds what is its turn: its own fifo and, when that makes
\* all fifos grow, those of the others still hold what they held.
LEMMA FeedFits ==
    ASSUME AnswersFit, NEW F \in [Nodes -> FifoState], NEW a, AnswerOK(a),
           NEW h, HeadOK(h), \A m \in Nodes : FifoOK(h, F[m], a[m]),
           NEW n \in Nodes, F[n].wi < Entries(h, a[n]),
           NEW h2, h2.kind = h.kind,
           h2.size = IF F[n].wi - F[n].ri = h.size THEN 2 * h.size ELSE h.size,
           NEW g, g = Put(F[n], Said(h, a[n], F[n].wi), h.size)
    PROVE  /\ g \in FifoState /\ g.ri = F[n].ri /\ g.wi = F[n].wi + 1
           /\ h2.size \in {FifoSize, 2 * FifoSize} /\ FifoOK(h2, g, a[n])
           /\ \A m \in Nodes : m # n => FifoOK(h2, F[m], a[m])
<1> DEFINE full == F[n].wi - F[n].ri = h.size
<1>1. /\ FifoSize \in Nat \ {0} /\ h.size \in {FifoSize, 2 * FifoSize}
      /\ \A m \in Nodes : F[m].ri \in Nat /\ F[m].wi \in Nat /\ F[m].array \in Seq(Entry)
  BY XopAssumption DEF FifoState, HeadOK
<1>2. \A m \in Nodes :
         /\ Entries(h, a[m]) \in 1..FifoSize + 1 /\ Entries(h2, a[m]) = Entries(h, a[m])
         /\ \A i : Said(h2, a[m], i) = Said(h, a[m], i)
  BY EntriesAre DEF Entries, Said
<1>3. /\ F[n].ri <= F[n].wi /\ F[n].wi <= FifoSize /\ FifoSize <= Len(F[n].array)
      /\ h.size = 2 * FifoSize => F[n].wi < FifoSize
  BY <1>1, <1>2 DEF FifoOK
<1> DEFINE e == Said(h, a[n], F[n].wi)
<1>4. e \in Entry
  BY <1>1, SaidIs, EntriesAre
<1> HIDE DEF e
<1>5. /\ g \in FifoState /\ g.ri = F[n].ri /\ g.wi = F[n].wi + 1
      /\ FifoSize <= Len(g.array)
      /\ \A i \in F[n].ri..F[n].wi - 1 :
            /\ (i % h.size) + 1 <= Len(F[n].array) /\ (i % h2.size) + 1 <= Len(g.array)
            /\ g.array[(i % h2.size) + 1] = F[n].array[(i % h.size) + 1]
      /\ (F[n].wi % h2.size) + 1 <= Len(g.array) /\ g.array[(F[n].wi % h2.size) + 1] = e
  <2>1. g = Put(F[n], e, h.size)
    BY DEF e
  <2>2. F[n] \in FifoState
    OBVIOUS
  <2>3. QED
    <3>1. MayPut(F[n], e, h.size)
      BY <1>1, <1>3, <1>4 DEF MayPut
    <3>2. h2.size = NewSize(F[n], h.size)
      BY DEF NewSize
    <3>3. HasPut(F[n], e, h.size, g, h2.size)
      BY <2>1, <3>1, <3>2, PutIs
    <3>4. QED
      BY <3>3 DEF HasPut
<1>6. full => /\ h.size = FifoSize /\ h2.size = 2 * FifoSize
              /\ F[n].wi = FifoSize /\ Entries(h, a[n]) = FifoSize + 1
  BY <1>1, <1>2, <1>3
<1>7. h2.size \in {FifoSize, 2 * FifoSize}
  BY <1>1, <1>6
<1>8. FifoOK(h2, g, a[n])
  <2>1. \A i \in g.ri..g.wi - 1 :
           (i % h2.size) + 1 <= Len(g.array) /\ g.array[(i % h2.size) + 1] = Said(h2, a[n], i)
    <3> TAKE i \in g.ri..g.wi - 1
    <3>1. CASE i = F[n].wi
      BY <1>2, <1>5, <3>1 DEF e
    <3>2. CASE i # F[n].wi
      <4>1. i \in F[n].ri..F[n].wi - 1
        BY <1>1, <1>5, <3>2
      <4>2. F[n].array[(i % h.size) + 1] = Said(h, a[n], i)
        BY <4>1 DEF FifoOK
      <4>3. QED
        BY <1>2, <1>5, <4>1, <4>2
    <3>3. QED
      BY <3>1, <3>2
  <2>2. h2.size = 2 * FifoSize => g.wi = Entries(h2, a[n]) \/ Entries(h2, a[n]) <= FifoSize
    <3>1. CASE full
      BY <1>1, <1>2, <1>5, <1>6, <3>1
    <3>2. CASE ~full
      <4>1. h2.size = h.size
        BY <3>2
      <4>2. h.size = 2 * FifoSize => Entries(h, a[n]) <= FifoSize
        BY <1>1, <1>2 DEF FifoOK
      <4>3. QED
        BY <1>2, <4>1, <4>2
    <3>3. QED
      BY <3>1, <3>2
  <2>3. g.ri <= g.wi /\ g.wi <= Entries(h2, a[n])
    BY <1>1, <1>2, <1>3, <1>5
  <2>4. QED
    BY <1>5, <2>1, <2>2, <2>3 DEF FifoOK
<1>9. ASSUME NEW m \in Nodes, m # n
      PROVE  FifoOK(h2, F[m], a[m])
  <2>1. FifoOK(h, F[m], a[m])
    OBVIOUS
  <2>2. CASE ~full
    <3>1. h2.size = h.size
      BY <2>2
    <3>2. QED
      BY <1>2, <2>1, <3>1 DEF FifoOK
  <2>3. CASE full
    <3>1. Entries(h, a[m]) <= FifoSize
      BY <1>6, <1>9, <2>3, EntriesAre
    <3>2. F[m].wi <= FifoSize
      BY <1>1, <1>2, <2>1, <3>1 DEF FifoOK
    <3>3. ASSUME NEW i \in F[m].ri..F[m].wi - 1
          PROVE  i % h.size = i /\ i % h2.size = i
      <4>1. i \in Nat /\ i < h.size /\ i < h2.size
        BY <1>1, <1>6, <2>3, <3>2
      <4>2. h.size \in Nat \ {0} /\ h2.size \in Nat \ {0}
        BY <1>1, <1>7
      <4>3. QED
        BY <4>1, <4>2, Places
    <3>4. QED
      BY <1>2, <2>1, <3>1, <3>3 DEF FifoOK
  <2>4. QED
    BY <2>2, <2>3
<1>10. QED
  BY <1>5, <1>7, <1>8, <1>9

\* A slot and its fifo; a slot the collector advances, and what it then takes.
SlotFits(h, f, s, b) ==
    f \in FifoState /\ FifoOK(h, f, b) /\ s \in Slot /\ SlotOK(h, f, s, b)
Passed(h, s) == s.chain = NoChain \/ s.chain.key < h.ckey
Taken(h, f, s) ==
    LET e == f.array[(f.ri % h.size) + 1]
    IN [chain |-> e.chain, err |-> e.err, null |-> s.null \/ e.chain = NoChain]

\* One slot: a chain that collect_key has passed makes room for the next entry.
LEMMA AdvanceIs ==
    ASSUME NEW h, HeadOK(h), NEW b \in Seq(Chain), NEW f, NEW s, SlotFits(h, f, s, b),
           Passed(h, s)
    PROVE  /\ f.ri # f.wi => /\ SlotFits(h, [f EXCEPT !.ri = @ + 1], Taken(h, f, s), b)
                             /\ [f EXCEPT !.ri = @ + 1].wi = f.wi
           /\ SlotFits(h, f, [s EXCEPT !.chain = NoChain], b)
           /\ [s EXCEPT !.chain = NoChain].chain = NoChain
<1>1. /\ Len(b) \in Nat /\ Entries(h, b) \in Nat
      /\ f \in FifoState /\ FifoOK(h, f, b) /\ s \in Slot /\ SlotOK(h, f, s, b)
      /\ s.chain = NoChain \/ s.chain.key < h.ckey
  BY DEF Entries, SlotFits, Passed
<1>2. /\ f.ri \in Nat /\ f.wi \in Nat /\ f.array \in Seq(Entry)
      /\ h.size \in Nat \ {0} /\ h.ckey \in Nat /\ f.ri <= f.wi
  BY <1>1, XopAssumption, KeyBounds DEF FifoState, HeadOK, FifoOK
<1>3. /\ \A i \in 1..Len(b) : b[i] \in Chain /\ b[i].key \in Nat
      /\ NoChain \notin Chain
  BY <1>1, KeyBounds
<1>4. h.kind = "scan" => \A i \in 1..Len(b) : i <= f.ri => b[i].key < h.ckey
  <2> SUFFICES ASSUME h.kind = "scan", NEW i \in 1..Len(b), i <= f.ri
               PROVE  b[i].key < h.ckey
    OBVIOUS
  <2>1. CASE s.chain = NoChain \/ i # f.ri
    BY <1>1, <2>1 DEF SlotOK
  <2>2. CASE s.chain # NoChain /\ i = f.ri
    BY <1>1, <2>2 DEF SlotOK
  <2>3. QED
    BY <2>1, <2>2
<1>5. ASSUME f.ri # f.wi
      PROVE  /\ SlotFits(h, [f EXCEPT !.ri = @ + 1], Taken(h, f, s), b)
             /\ [f EXCEPT !.ri = @ + 1].wi = f.wi
  <2> DEFINE e == f.array[(f.ri % h.size) + 1]
             t == Taken(h, f, s)
             g == [f EXCEPT !.ri = @ + 1]
  <2>1. f.ri \in f.ri..f.wi - 1 /\ f.ri + 1 <= f.wi
    BY <1>2, <1>5
  <2>2. e = Said(h, b, f.ri)
    BY <1>1, <2>1 DEF FifoOK
  <2>3. /\ e \in Entry /\ e.err \in {"0", "EIO"}
        /\ h.kind = "scan" => e.chain = IF f.ri < Len(b) THEN b[f.ri + 1] ELSE NoChain
    <3>1. b \in Seq(Chain) /\ f.ri \in Nat
      BY <1>1, <1>2
    <3> DEFINE u == Said(h, b, f.ri)
    <3>2. /\ u \in Entry /\ u.err \in {"0", "EIO"}
          /\ h.kind = "scan" => u.chain = IF f.ri < Len(b) THEN b[f.ri + 1] ELSE NoChain
      BY <3>1, SaidIs
    <3> HIDE DEF e, u
    <3>3. e = u
      BY <2>2 DEF u
    <3>4. QED
      BY <3>2, <3>3
  <2>7. /\ t = [chain |-> e.chain, err |-> e.err, null |-> s.null \/ e.chain = NoChain]
        /\ t.chain = e.chain /\ t.err = e.err /\ t.null = (s.null \/ e.chain = NoChain)
    BY DEF Taken
  <2>5. g \in FifoState /\ g.wi = f.wi /\ g.ri = f.ri + 1 /\ g.array = f.array
    BY <1>1, <1>2 DEF FifoState
  <2> HIDE DEF e, t, g
  <2>4. t \in Slot
    BY <1>1, <2>3, <2>7 DEF Slot, Entry
  <2>6. FifoOK(h, g, b)
    <3>1. \A i \in g.ri..g.wi - 1 : i \in f.ri..f.wi - 1
      BY <1>2, <2>5
    <3>2. QED
      BY <1>1, <2>1, <2>5, <3>1 DEF FifoOK
  <2>8. SlotOK(h, g, t, b)
    <3>1. t.err \in {"0", "EIO"}
      BY <2>3, <2>7
    <3>2. ASSUME h.kind = "scan"
          PROVE  /\ t.chain # NoChain => g.ri \in 1..Len(b) /\ t.chain = b[g.ri]
                 /\ t.null => g.ri = Len(b) + 1
                 /\ \A i \in 1..Len(b) : i <= g.ri /\ (i = g.ri => t.chain = NoChain)
                                               => b[i].key < h.ckey
      <4>1. f.ri <= Len(b) /\ f.ri < Len(b) + 1
        BY <1>1, <1>2, <2>1, <3>2 DEF FifoOK, Entries
      <4>2. ~s.null
        BY <1>1, <1>2, <3>2, <4>1 DEF SlotOK
      <4>3. CASE f.ri < Len(b)
        <5>4. f.ri + 1 \in 1..Len(b) /\ t.chain = b[f.ri + 1]
          BY <1>1, <1>2, <2>3, <2>7, <3>2, <4>3
        <5>5. t.chain # NoChain /\ e.chain # NoChain
          BY <1>3, <2>7, <5>4
        <5>1. /\ f.ri + 1 \in 1..Len(b) /\ t.chain = b[f.ri + 1]
              /\ t.chain # NoChain /\ ~t.null
          BY <2>7, <4>2, <5>4, <5>5
        <5>2. \A i \in 1..Len(b) : i <= g.ri /\ i # g.ri => i <= f.ri
          BY <1>1, <1>2, <2>5
        <5>3. QED
          BY <1>4, <2>5, <3>2, <5>1, <5>2
      <4>4. CASE f.ri = Len(b)
        <5>1. t.chain = NoChain /\ g.ri = Len(b) + 1
          BY <1>1, <1>2, <2>3, <2>5, <2>7, <3>2, <4>4
        <5>2. \A i \in 1..Len(b) : i <= f.ri
          BY <1>1, <4>4
        <5>3. QED
          BY <1>4, <3>2, <5>1, <5>2
      <4>5. QED
        BY <1>1, <1>2, <4>1, <4>3, <4>4
    <3>3. QED
      BY <3>1, <3>2 DEF SlotOK
  <2>9. QED
    BY <2>4, <2>5, <2>6, <2>8 DEF t, g, SlotFits
<1>6. /\ SlotFits(h, f, [s EXCEPT !.chain = NoChain], b)
      /\ [s EXCEPT !.chain = NoChain].chain = NoChain
  <2> DEFINE t == [s EXCEPT !.chain = NoChain]
  <2>1. t \in Slot /\ t.chain = NoChain /\ t.err = s.err /\ t.null = s.null
    BY <1>1 DEF Slot
  <2> HIDE DEF t
  <2>2. SlotOK(h, f, t, b)
    BY <1>1, <1>4, <2>1 DEF SlotOK
  <2>3. QED
    BY <1>1, <2>1, <2>2 DEF t, SlotFits
<1>7. QED
  BY <1>5, <1>6

\* The master's slot once its answer is in: all it has to say below the chain
\* it is at, and everything when it is at its end, collect_key has passed.
LEMMA MasterAt ==
    ASSUME AnswersFit, NEW a, AnswerOK(a), NEW n \in Nodes, NEW h, HeadOK(h),
           NEW f \in FifoState, NEW s \in Slot, SlotOK(h, f, s, a[n]),
           h.kind = "scan", ~InProgress(s), NEW i \in 1..Len(a[n])
    PROVE  /\ a[n][i].key \in Nat
           /\ \/ a[n][i].key < h.ckey
              \/ /\ s.chain # NoChain /\ f.ri \in 1..Len(a[n]) /\ s.chain = a[n][f.ri]
                 /\ a[n][i].key >= s.chain.key
                 /\ a[n][i].key = s.chain.key => i = f.ri
<1>1. /\ a[n] \in Seq(Chain) /\ Len(a[n]) \in Nat
      /\ \A j \in 1..Len(a[n]) : a[n][j].key \in Nat
      /\ \A j, k \in 1..Len(a[n]) : j < k => a[n][j].key < a[n][k].key
  BY EntriesAre
<1>2. f.ri \in Nat
  BY DEF FifoState
<1>3. CASE s.chain = NoChain
  <2>1. f.ri = Len(a[n]) + 1
    BY <1>3 DEF InProgress, SlotOK
  <2>2. QED
    BY <1>1, <1>3, <2>1 DEF SlotOK
<1>4. CASE s.chain # NoChain /\ i < f.ri
  BY <1>1, <1>2, <1>4 DEF SlotOK
<1>5. CASE s.chain # NoChain /\ i >= f.ri
  <2>1. f.ri \in 1..Len(a[n]) /\ s.chain = a[n][f.ri]
    BY <1>5 DEF SlotOK
  <2>2. i = f.ri \/ a[n][i].key > a[n][f.ri].key
    BY <1>1, <1>2, <1>5, <2>1
  <2>3. QED
    BY <1>1, <1>5, <2>1, <2>2
<1>6. QED
  BY <1>1, <1>2, <1>3, <1>4, <1>5

\* What is agreed with one master is what the master says.
LEMMA AgreedIs ==
    ASSUME OneMaster, NEW M \in Nodes, Masters = {M}, NEW a
    PROVE  QuorumKeys(a) = {kt \in Keys \X Tids : \E i \in DOMAIN a[M] :
                                 a[M][i].key = kt[1] /\ a[M][i].tid = kt[2]}
<1>1. Majority = 1
  BY QuorumIs
<1>2. ASSUME NEW k \in Keys, NEW t \in Tids
      PROVE  Agreed(a, k, t) <=> \E i \in DOMAIN a[M] : a[M][i].key = k /\ a[M][i].tid = t
  <2> DEFINE S == {m \in Masters : \E i \in DOMAIN a[m] :
                       a[m][i].key = k /\ a[m][i].tid = t}
  <2>1. S = IF \E i \in DOMAIN a[M] : a[M][i].key = k /\ a[M][i].tid = t
            THEN {M} ELSE {}
    OBVIOUS
  <2>2. Cardinality({M}) = 1 /\ Cardinality({}) = 0
    BY FS_Singleton, FS_EmptySet
  <2>3. Agreed(a, k, t) <=> Cardinality(S) >= 1
    BY <1>1 DEF Agreed
  <2> HIDE DEF S
  <2>4. QED
    BY <2>1, <2>2, <2>3
<1>3. \A kt \in Keys \X Tids :
         Agreed(a, kt[1], kt[2]) <=> \E i \in DOMAIN a[M] : a[M][i].key = kt[1]
                                                          /\ a[M][i].tid = kt[2]
  BY <1>2
<1>4. QED
  BY <1>3 DEF QuorumKeys

\* What the master has to say from collect_key on starts at the lowest key, or
\* there is nothing more; the verdict tells which.
LEMMA VerdictIs ==
    ASSUME OneMaster, AnswersFit, NEW a, AnswerOK(a), NEW h, HeadOK(h), h.kind = "scan",
           NEW F \in [Nodes -> FifoState], NEW arr \in [Nodes -> Slot],
           \A n \in Nodes : /\ SlotOK(h, F[n], arr[n], a[n])
                            /\ arr[n].chain.key >= h.ckey,
           cluster_check(arr).err # "EINPROGRESS"
    PROVE  LET v == cluster_check(arr)  k == LowKey(arr) IN
           /\ k \in h.ckey..KeyMax /\ v.tid \in 0..TidMax
           /\ AgreedBelow(a, k) = AgreedBelow(a, h.ckey)
           /\ IF k = KeyMax THEN v.err \in {"ENOENT", "EIO"}
              ELSE \/ v.err = "ESRCH" /\ AgreedBelow(a, k + 1) = AgreedBelow(a, h.ckey)
                   \/ v.err = "EIO"
                   \/ /\ v.err = "0"
                      /\ AgreedBelow(a, k + 1) = AgreedBelow(a, h.ckey) \cup {<<k, v.tid>>}
<1>1. PICK M \in Nodes : Masters = {M}
  BY DEF OneMaster
<1> DEFINE v == cluster_check(arr)
           k == LowKey(arr)
           s == arr[M]
           f == F[M]
           Q == QuorumKeys(a)
<1>2. /\ k \in 0..KeyMax /\ k \in Keys \cup {KeyMax}
      /\ \A n \in Nodes : k <= arr[n].chain.key
      /\ \E n \in Nodes : arr[n].chain.key = k
  BY LowKeyIs
<1>3. KeyMax \in Nat /\ h.ckey \in Nat /\ s.chain.key \in Nat /\ s \in Slot /\ f \in FifoState
  BY SlotIs, KeyBounds DEF HeadOK
<1>4. k >= h.ckey
  <2>1. PICK n \in Nodes : arr[n].chain.key = k
    BY <1>2
  <2>2. arr[n].chain.key >= h.ckey
    OBVIOUS
  <2>3. QED
    BY <2>1, <2>2
<1>5. /\ v.err \in Errors /\ v.tid \in 0..TidMax /\ ~InProgress(s)
      /\ IF k = KeyMax THEN v.err \in {"ENOENT", "EIO"}
         ELSE IF s.chain.key = k
              THEN /\ v.err \in {"0", "EIO"}
                   /\ v.err = "0" => v.tid = s.chain.tid
              ELSE v.err = "ESRCH"
  <2>1. \A n \in Nodes : arr[n].err \in {"0", "EIO"}
    BY DEF SlotOK
  <2>2. QED
    BY <1>1, <2>1, CheckIs
<1>6. SlotOK(h, f, s, a[M])
  OBVIOUS
<1>7. a[M] \in Seq(Chain) /\ DOMAIN a[M] = 1..Len(a[M])
  BY EntriesAre
<1>8. Q = {kt \in Keys \X Tids : \E i \in 1..Len(a[M]) :
                a[M][i].key = kt[1] /\ a[M][i].tid = kt[2]}
  BY <1>1, <1>7, AgreedIs
<1>9. ASSUME NEW i \in 1..Len(a[M])
      PROVE  /\ a[M][i] \in Chain /\ a[M][i].key \in Nat
             /\ \/ a[M][i].key < h.ckey
                \/ /\ s.chain # NoChain /\ f.ri \in 1..Len(a[M]) /\ s.chain = a[M][f.ri]
                   /\ a[M][i].key >= s.chain.key
                   /\ a[M][i].key = s.chain.key => i = f.ri
  BY <1>3, <1>5, <1>6, <1>7, MasterAt
<1> HIDE DEF v, k, s, f, Q
<1>10. ASSUME NEW kt \in Q
       PROVE  /\ kt[1] \in Nat
              /\ kt[1] < h.ckey \/ kt[1] > k \/ (kt = <<k, s.chain.tid>> /\ s.chain.key = k)
  <2>1. PICK i \in 1..Len(a[M]) : a[M][i].key = kt[1] /\ a[M][i].tid = kt[2]
    BY <1>8
  <2>2. kt = <<a[M][i].key, a[M][i].tid>>
    BY <1>8, <2>1
  <2>3. k <= s.chain.key
    BY <1>1, <1>2 DEF s
  <2>4. CASE a[M][i].key < h.ckey
    BY <1>9, <2>1, <2>4
  <2>5. CASE a[M][i].key >= s.chain.key /\ a[M][i].key > k
    BY <1>9, <2>1, <2>5
  <2>6. CASE /\ a[M][i].key >= s.chain.key /\ a[M][i].key <= k
             /\ s.chain = a[M][f.ri] /\ (a[M][i].key = s.chain.key => i = f.ri)
    <3>1. a[M][i].key = k /\ s.chain.key = k /\ i = f.ri
      BY <1>2, <1>3, <1>9, <2>3, <2>6
    <3>2. QED
      BY <1>9, <2>1, <2>2, <2>6, <3>1
  <2>7. a[M][i].key \in Nat /\ (a[M][i].key > k \/ a[M][i].key <= k)
    BY <1>2, <1>9
  <2>8. QED
    BY <1>9, <2>4, <2>5, <2>6, <2>7
<1>11. AgreedBelow(a, k) = AgreedBelow(a, h.ckey)
  <2>1. \A kt \in Q : kt[1] < k <=> kt[1] < h.ckey
    BY <1>2, <1>3, <1>4, <1>10
  <2>2. QED
    BY <2>1 DEF AgreedBelow, Q
<1>12. ASSUME k # KeyMax, s.chain.key = k
       PROVE  AgreedBelow(a, k + 1) = AgreedBelow(a, h.ckey) \cup {<<k, s.chain.tid>>}
  <2>1. s.chain \in Chain /\ s.chain # NoChain
    BY <1>3, <1>12, SlotIs
  <2>2. f.ri \in 1..Len(a[M]) /\ s.chain = a[M][f.ri] /\ k \in Keys /\ s.chain.tid \in Tids
    BY <1>2, <1>6, <1>12, <2>1, KeyBounds DEF SlotOK, s, f
  <2>3. <<k, s.chain.tid>> \in Q
    BY <1>8, <1>12, <2>2
  <2>4. \A kt \in Q : kt[1] < k + 1 <=> kt[1] < h.ckey \/ kt = <<k, s.chain.tid>>
    BY <1>2, <1>3, <1>4, <1>10
  <2>5. QED
    BY <2>3, <2>4 DEF AgreedBelow, Q
<1>13. ASSUME k # KeyMax, s.chain.key # k
       PROVE  AgreedBelow(a, k + 1) = AgreedBelow(a, h.ckey)
  <2>1. \A kt \in Q : kt[1] < k + 1 <=> kt[1] < h.ckey
    BY <1>2, <1>3, <1>4, <1>10, <1>13
  <2>2. QED
    BY <2>1 DEF AgreedBelow, Q
<1>14. k \in h.ckey..KeyMax
  BY <1>2, <1>3, <1>4
<1>15. QED
  <2>1. CASE k = KeyMax
    BY <1>5, <1>11, <1>14, <2>1 DEF k, v
  <2>2. CASE k # KeyMax /\ s.chain.key = k
    BY <1>5, <1>11, <1>12, <1>14, <2>2 DEF k, v
  <2>3. CASE k # KeyMax /\ s.chain.key # k
    BY <1>5, <1>11, <1>13, <1>14, <2>3 DEF k, v
  <2>4. QED
    BY <2>1, <2>2, <2>3

-----------------------------------------------------------------------------
\* How the frontend of an XOP and a worker may go on without collecting or
\* feeding.
FrontGoes(y) ==
    \/ fe'[y] \in {"none", fe[y]}
    \/ {fe[y], fe'[y]} = {"collect", "asleep"}
    \/ fe[y] = "ready" /\ fe'[y] = "collect" /\ got[y][Len(got[y])].err = "0"
WorkerGoes(y, n) ==
    /\ wk'[n].x = y /\ wk'[n].pc \in {"copy", "feed"} =>
          IF wk[n].x = y THEN wk[n].pc \in {"copy", "feed"} ELSE n \in head[y].mask
    /\ wk'[n].x # y => wk[n].x # y \/ n \notin head'[y].mask

\* A step that leaves what an XOP has collected alone: the collector starts a
\* pass over, a user leaves, a worker moves on or takes the XOP up.
LEMMA DataKept ==
    ASSUME AnswersFit, NEW y \in Xops, DataOf(y),
           fifo'[y] = fifo[y], clu'[y] = clu[y], answer'[y] = answer[y], got'[y] = got[y],
           head'[y].kind = head[y].kind, head'[y].size = head[y].size,
           head'[y].ckey = head[y].ckey, head'[y].pos \in {head[y].pos, 0, 1},
           head'[y].mask \subseteq head[y].mask,
           head'[y].mask = {} => head[y].mask = {},
           FrontGoes(y), \A n \in Nodes : WorkerGoes(y, n)
    PROVE  DataOf(y)'
<1>1. HeadOK(head[y])'
  BY DEF DataOf, HeadOK
<1>2. AnswerOK(answer[y])'
  BY DEF DataOf, AnswerOK
<1>3. \A n \in Nodes : /\ FifoOK(head[y], fifo[y][n], answer[y][n])'
                       /\ SlotOK(head[y], fifo[y][n], clu[y][n], answer[y][n])'
  <2> TAKE n \in Nodes
  <2>1. /\ FifoOK(head[y], fifo[y][n], answer[y][n])
        /\ SlotOK(head[y], fifo[y][n], clu[y][n], answer[y][n])
    BY DEF DataOf
  <2>2. FifoOK(head[y], fifo[y][n], answer[y][n])'
    BY <2>1 DEF FifoOK, Entries, Said
  <2>3. SlotOK(head[y], fifo[y][n], clu[y][n], answer[y][n])'
    BY <2>1 DEF SlotOK
  <2>4. QED
    BY <2>2, <2>3
<1>4. ASSUME NEW n \in Nodes
      PROVE  FeederOK(y, n)'
  <2>1. FeederOK(y, n) /\ WorkerGoes(y, n) /\ AnswerOK(answer[y])
    BY DEF DataOf
  <2>2. Entries(head[y], answer[y][n]) > 0
    BY <2>1, SomeEntries
  <2>3. Entries(head'[y], answer'[y][n]) = Entries(head[y], answer[y][n])
    BY DEF Entries
  <2>4. QED
    BY <2>1, <2>2, <2>3 DEF FeederOK, WorkerGoes
<1>5. PassOK(head[y], clu[y])'
  <2>1. \A n \in Nodes : n \in Nat \ {0}
    BY NodesAre
  <2>2. QED
    BY <2>1 DEF DataOf, PassOK
<1>6. GotOK(head[y], got[y], answer[y], fe[y])'
  <2>1. GotOK(head[y], got[y], answer[y], fe[y])
    BY DEF DataOf
  <2>2. CASE fe'[y] = "none"
    BY <2>2 DEF GotOK
  <2>3. CASE fe'[y] # "none" /\ fe[y] # "none" /\ (fe'[y] = "ready" => fe[y] = "ready")
             /\ (fe[y] = "ready" /\ fe'[y] # "ready" => got[y][Len(got[y])].err = "0")
    BY <2>1, <2>3 DEF GotOK
  <2>4. QED
    BY <2>2, <2>3 DEF FrontGoes
<1>7. head'[y].mask = {} => Rested(y)'
  BY DEF DataOf, Rested
<1>8. QED
  BY <1>1, <1>2, <1>3, <1>4, <1>5, <1>6, <1>7 DEF DataOf

\* An XOP that the step does not touch.
LEMMA OtherData ==
    ASSUME AnswersFit, NEW y \in Xops, DataOf(y), head'[y] = head[y], fe'[y] = fe[y],
           fifo'[y] = fifo[y], clu'[y] = clu[y], answer'[y] = answer[y], got'[y] = got[y],
           \A n \in Nodes : /\ wk'[n].x = y <=> wk[n].x = y
                            /\ wk[n].x = y => wk'[n].pc = wk[n].pc
    PROVE  DataOf(y)'
<1>1. FrontGoes(y) /\ \A n \in Nodes : WorkerGoes(y, n)
  BY DEF FrontGoes, WorkerGoes
<1>2. QED
  BY <1>1, DataKept

\* An XOP that is started finds everything as it is in a free one.
LEMMA StartData ==
    ASSUME AnswersFit, DataInv, UseInv, NEW x \in Xops, NEW kind \in Kinds,
           xop_start(x, kind)
    PROVE  DataInv'
<1> DEFINE h == Fresh(kind, Targets(kind) \cup {VOP})
           new == IF kind \in {"scan", "read"} THEN answer'[x] \in Answers
                  ELSE answer'[x] = answer[x]
<1>1. /\ head[x].mask = {} /\ UNCHANGED <<fifo, clu, got>>
      /\ head' = [head EXCEPT ![x] = h]
      /\ wk' = [n \in Nodes |-> Signalled(wk[n])]
      /\ fe' = [fe EXCEPT ![x] = IF kind \in {"scan", "flush"} THEN "collect" ELSE "none"]
      /\ answer' = answer \/ \E a \in Answers : answer' = [answer EXCEPT ![x] = a]
      /\ kind \notin {"scan", "read"} => answer' = answer
  BY DEF xop_start
<1>2. /\ head'[x] = h /\ \A y \in Xops : y # x => head'[y] = head[y]
      /\ fe \in [Xops -> FrontStates]
  BY <1>1, HeadsAre DEF UseInv, ControlOK
<1>3. /\ h.size = FifoSize /\ h.ckey = 0 /\ h.pos = 0 /\ h.kind = kind
      /\ h.mask = Targets(kind) \cup {VOP}
  BY DEF Fresh
<1> HIDE DEF h
<1>4. Rested(x) /\ DataTypes
  BY <1>1 DEF DataInv, DataOf
<1>5. \A n \in Nodes : wk'[n].x = wk[n].x /\ wk[n].x # x
        /\ (wk[n].x # NoXop => wk'[n].pc = wk[n].pc)
  <2> TAKE n \in Nodes
  <2>1. wk[n] \in [pc : WorkerPCs, x : Xops \cup {NoXop}]
    BY DEF UseInv, ControlOK
  <2>2. wk'[n] = [wk[n] EXCEPT !.pc = IF wk[n].pc = "asleep" THEN "drain" ELSE wk[n].pc]
    BY <1>1 DEF Signalled
  <2>3. wk'[n].x = wk[n].x /\ wk'[n].pc = IF wk[n].pc = "asleep" THEN "drain" ELSE wk[n].pc
    BY <2>1, <2>2
  <2>4. wk[n].x # NoXop => wk[n].pc # "asleep" /\ n \in head[wk[n].x].mask
    BY UserFacts
  <2>5. QED
    BY <1>1, <2>3, <2>4, XopAssumption
<1>6. DataTypes'
  <2>1. answer' \in [Xops -> [Nodes -> Seq(Chain)]]
    <3>1. Answers \subseteq [Nodes -> Seq(Chain)]
      BY XopAssumption
    <3>2. QED
      BY <1>1, <1>4, <3>1 DEF DataTypes
  <2>2. QED
    BY <1>1, <1>4, <2>1 DEF DataTypes
<1>7. ASSUME NEW y \in Xops, y # x
      PROVE  DataOf(y)'
  <2>1. fe'[y] = fe[y] /\ answer'[y] = answer[y]
    BY <1>1, <1>2, <1>4, <1>7 DEF DataTypes
  <2>2. DataOf(y)
    BY DEF DataInv
  <2>3. QED
    BY <1>1, <1>2, <1>5, <1>7, <2>1, <2>2, XopAssumption, OtherData
<1>8. DataOf(x)'
  <2>1. /\ answer'[x] \in Answers \/ answer'[x] = [n \in Nodes |-> <<>>]
        /\ \A n \in Nodes : fifo'[x][n] = NewFifo /\ clu'[x][n] = EmptySlot
        /\ got'[x] = <<>>
    <3>1. answer'[x] = answer[x] \/ answer'[x] \in Answers
      BY <1>1, <1>4 DEF DataTypes
    <3>2. QED
      BY <1>1, <1>4, <3>1 DEF Rested
  <2>2. AnswerOK(answer[x])'
    BY <2>1 DEF AnswerOK
  <2>3. FifoSize \in Nat \ {0} /\ KeyMax \in Nat \ {0}
    BY XopAssumption, KeyBounds
  <2>4. HeadOK(head[x])'
    BY <1>2, <1>3, <2>3 DEF HeadOK
  <2>5. ASSUME NEW n \in Nodes
        PROVE  /\ FifoOK(head[x], fifo[x][n], answer[x][n])'
               /\ SlotOK(head[x], fifo[x][n], clu[x][n], answer[x][n])'
               /\ FeederOK(x, n)'
    <3>1. /\ NewFifo.ri = 0 /\ NewFifo.wi = 0 /\ Len(NewFifo.array) = FifoSize
      BY <2>3 DEF NewFifo
    <3>2. /\ EmptySlot.chain = NoChain /\ EmptySlot.err = "0" /\ EmptySlot.null = FALSE
      BY DEF EmptySlot
    <3>3. Entries(head'[x], answer'[x][n]) \in 1..FifoSize + 1
      BY <2>2, EntriesAre
    <3>4. FifoOK(head[x], fifo[x][n], answer[x][n])'
      <4>1. head'[x].size # 2 * FifoSize
        BY <1>2, <1>3, <2>3
      <4>2. \A i \in 0..0 - 1 : FALSE
        OBVIOUS
      <4>3. QED
        BY <2>1, <2>3, <3>1, <3>3, <4>1, <4>2 DEF FifoOK
    <3>5. SlotOK(head[x], fifo[x][n], clu[x][n], answer[x][n])'
      BY <2>1, <3>1, <3>2 DEF SlotOK
    <3>6. FeederOK(x, n)'
      BY <1>5, <2>1, <3>1 DEF FeederOK
    <3>7. QED
      BY <3>4, <3>5, <3>6
  <2>6. PassOK(head[x], clu[x])'
    <3>1. \A n \in Nodes : n \in Nat \ {0}
      BY NodesAre
    <3>2. head'[x].pos = 0
      BY <1>2, <1>3
    <3>3. QED
      BY <3>1, <3>2 DEF PassOK
  <2>7. GotOK(head[x], got[x], answer[x], fe[x])'
    <3>1. fe'[x] \in {"collect", "none"}
      BY <1>1, <1>2
    <3>2. Given(<<>>) = {}
      BY DEF Given
    <3>3. AgreedBelow(answer'[x], 0) = {}
      BY NoneBelow
    <3>4. h.ckey = 0 /\ DOMAIN <<>> = {} /\ head'[x] = h /\ got'[x] = <<>>
      BY <1>2, <1>3, <2>1
    <3>5. QED
      BY <3>1, <3>2, <3>3, <3>4 DEF GotOK
  <2>8. head'[x].mask # {}
    BY <1>2, <1>3
  <2>9. QED
    BY <2>2, <2>4, <2>5, <2>6, <2>7, <2>8 DEF DataOf
<1>9. QED
  BY <1>6, <1>7, <1>8 DEF DataInv

\* Steps of a worker that neither feed nor collect.
LEMMA StepData ==
    ASSUME AnswersFit, DataInv, UseInv, UNCHANGED <<fifo, clu, answer, got>>,
           \A y \in Xops :
              /\ head'[y].kind = head[y].kind /\ head'[y].size = head[y].size
              /\ head'[y].ckey = head[y].ckey /\ head'[y].pos \in {head[y].pos, 0, 1}
              /\ head'[y].mask \subseteq head[y].mask
              /\ head'[y].mask = {} => head[y].mask = {}
              /\ FrontGoes(y) /\ \A n \in Nodes : WorkerGoes(y, n)
    PROVE  DataInv'
<1>1. DataTypes'
  BY DEF DataInv, DataTypes
<1>2. ASSUME NEW y \in Xops
      PROVE  DataOf(y)'
  <2>1. DataOf(y)
    BY DEF DataInv
  <2>2. fifo'[y] = fifo[y] /\ clu'[y] = clu[y] /\ answer'[y] = answer[y] /\ got'[y] = got[y]
    OBVIOUS
  <2>3. QED
    BY <2>1, <2>2, DataKept
<1>3. QED
  BY <1>1, <1>2 DEF DataInv

\* hammer2_xop_next, and the sleep and the poll of an idle worker.
LEMMA IdleData ==
    ASSUME AnswersFit, DataInv, UseInv, NEW n \in Nodes,
           WorkerNext(n) \/ WorkerSleep(n) \/ WorkerTimeout(n)
    PROVE  DataInv'
<1>1. /\ UNCHANGED <<head, fifo, clu, fe, answer, got>>
      /\ wk[n].pc \in {"drain", "asleep"} /\ wk[n].x = NoXop
  BY DEF WorkerNext, WorkerSleep, WorkerTimeout, UseInv, QueueInv
<1>2. wk \in [Nodes -> [pc : WorkerPCs, x : Xops \cup {NoXop}]] /\ NoXop \notin Xops
  BY XopAssumption DEF UseInv, ControlOK
<1>3. /\ wk'[n].x \in Xops => n \in head[wk'[n].x].mask
      /\ wk'[n].x = NoXop \/ wk'[n].x \in Xops
      /\ \A m \in Nodes : m # n => wk'[m] = wk[m]
  <2>1. CASE WorkerNext(n)
    <3>1. /\ xopq[n] # <<>> /\ Head(xopq[n]) \in Xops /\ 1 \in DOMAIN xopq[n]
          /\ Head(xopq[n]) = xopq[n][1]
      BY <2>1, ControlFacts DEF WorkerNext, UseInv
    <3>2. n \in head[Head(xopq[n])].mask
      BY <3>1 DEF UseInv, UsersHoldBits
    <3>3. PICK pc \in {"done", "copy", "feed"} :
             wk' = [wk EXCEPT ![n].pc = pc, ![n].x = Head(xopq[n])]
      BY <2>1 DEF WorkerNext
    <3>6. wk[n] \in [pc : WorkerPCs, x : Xops \cup {NoXop}]
      BY <1>2
    <3>4. [wk[n] EXCEPT !.pc = pc, !.x = Head(xopq[n])] = [pc |-> pc, x |-> Head(xopq[n])]
      BY <3>6, WorkerIs
    <3>5. wk' = [wk EXCEPT ![n] = [wk[n] EXCEPT !.pc = pc, !.x = Head(xopq[n])]]
      BY <1>2, <3>3
    <3>7. QED
      BY <1>2, <3>1, <3>2, <3>4, <3>5
  <2>2. CASE WorkerSleep(n) \/ WorkerTimeout(n)
    <3>1. PICK pc \in {"asleep", "drain"} : wk' = [wk EXCEPT ![n].pc = pc]
      BY <2>2 DEF WorkerSleep, WorkerTimeout, Run
    <3>2. pc \in WorkerPCs
      BY DEF WorkerPCs
    <3>3. wk'[n].x = NoXop /\ \A m \in Nodes : m # n => wk'[m] = wk[m]
      BY <1>1, <1>2, <3>1
    <3>4. QED
      BY <1>2, <3>3
  <2>3. QED
    BY <2>1, <2>2
<1>4. \A y \in Xops : FrontGoes(y) /\ \A m \in Nodes : WorkerGoes(y, m)
  BY <1>1, <1>2, <1>3 DEF FrontGoes, WorkerGoes
<1>5. QED
  BY <1>1, <1>4, StepData

\* The copy of a buffer to write, the race to finish and the completion.
LEMMA BufferData ==
    ASSUME AnswersFit, DataInv, UseInv, NEW n \in Nodes,
           WorkerCopy(n) \/ WorkerRace(n) \/ WorkerComplete(n)
    PROVE  DataInv'
<1>1. /\ UNCHANGED <<fifo, clu, fe, answer, got>>
      /\ wk[n].pc \in {"copy", "race", "complete"} /\ wk[n].x # NoXop
  BY DEF WorkerCopy, WorkerRace, WorkerComplete, UseInv, QueueInv
<1>2. PICK x \in Xops : x = wk[n].x
  BY <1>1, UserFacts
<1>3. n \in head[x].mask /\ VOP \notin Nodes /\ HeadIs(head[x])
  BY <1>1, <1>2, UserFacts, HeadsAre, XopAssumption
<1>4. PICK pc \in {"done", "feed", "collect"} :
         /\ wk' = [wk EXCEPT ![n].pc = pc]
         /\ pc = "feed" => wk[n].pc = "copy"
  BY DEF WorkerCopy, WorkerRace, WorkerComplete, Run
<1>5. /\ wk'[n].pc = pc
      /\ \A m \in Nodes : /\ wk'[m].x = wk[m].x
                          /\ m # n => wk'[m].pc = wk[m].pc
  BY <1>4, Moves DEF WorkerPCs
<1>6. \A y \in Xops : FrontGoes(y) /\ \A m \in Nodes : WorkerGoes(y, m)
  BY <1>1, <1>4, <1>5 DEF FrontGoes, WorkerGoes
<1>7. \A y \in Xops :
         /\ head'[y].kind = head[y].kind /\ head'[y].size = head[y].size
         /\ head'[y].ckey = head[y].ckey /\ head'[y].pos \in {head[y].pos, 0, 1}
         /\ head'[y].mask \subseteq head[y].mask
         /\ head'[y].mask = {} => head[y].mask = {}
  <2>1. CASE head' = head
    BY <2>1
  <2>2. CASE WorkerComplete(n)
    <3> DEFINE h == Retired(head[x], VOP)
    <3>1. head' = [head EXCEPT ![x] = h]
      BY <1>2, <2>2 DEF WorkerComplete
    <3>2. /\ h.kind = head[x].kind /\ h.size = head[x].size /\ h.ckey = head[x].ckey
          /\ h.pos = head[x].pos /\ h.mask = head[x].mask \ {VOP} /\ n \in h.mask
      BY <1>3 DEF HeadIs, Retired
    <3> HIDE DEF h
    <3>3. head'[x] = h /\ \A y \in Xops : y # x => head'[y] = head[y]
      BY <3>1, HeadsAre
    <3>4. QED
      BY <3>2, <3>3
  <2>3. CASE WorkerRace(n) /\ head' # head
    <3> DEFINE h == [head[x] EXCEPT !.lock = n, !.pos = 0]
    <3>1. head' = [head EXCEPT ![x] = h]
      BY <1>2, <1>3, <2>3, HeadsAre DEF WorkerRace
    <3>2. /\ h.kind = head[x].kind /\ h.size = head[x].size /\ h.ckey = head[x].ckey
          /\ h.pos = 0 /\ h.mask = head[x].mask
      BY <1>3 DEF HeadIs
    <3> HIDE DEF h
    <3>3. head'[x] = h /\ \A y \in Xops : y # x => head'[y] = head[y]
      BY <3>1, HeadsAre
    <3>4. QED
      BY <3>2, <3>3
  <2>4. QED
    BY <2>1, <2>2, <2>3 DEF WorkerCopy
<1>8. QED
  BY <1>1, <1>6, <1>7, StepData

\* A free XOP has nothing in its fifos.
LEMMA FreeIs ==
    LET h == Fresh("scan", {})  a == [n \in Nodes |-> <<>>] IN
    /\ HeadOK(h) /\ AnswerOK(a) /\ NewFifo \in FifoState /\ EmptySlot \in Slot
    /\ h.mask = {} /\ h.kind = "scan" /\ h.pos = 0
    /\ \A n \in Nodes : FifoOK(h, NewFifo, a[n]) /\ SlotOK(h, NewFifo, EmptySlot, a[n])
    /\ GotOK(h, <<>>, a, "none")
<1> DEFINE h == Fresh("scan", {})
<1>1. h.size = FifoSize /\ h.ckey = 0 /\ h.pos = 0 /\ h.kind = "scan" /\ h.mask = {}
  BY DEF Fresh
<1> HIDE DEF h
<1>2. FifoSize \in Nat \ {0} /\ KeyMax \in Nat \ {0}
  BY XopAssumption, KeyBounds
<1>3. NewFifo \in FifoState /\ NewFifo.ri = 0 /\ NewFifo.wi = 0
      /\ Len(NewFifo.array) = FifoSize
  <2>1. NullEntry \in Entry
    BY DEF NullEntry, Entry, Errors
  <2> DEFINE a == [i \in 1..FifoSize |-> NullEntry]
  <2>2. a \in Seq(Entry) /\ Len(a) = FifoSize
    BY <1>2, <2>1
  <2>3. NewFifo = [array |-> a, ri |-> 0, wi |-> 0]
    BY DEF NewFifo
  <2> HIDE DEF a
  <2>4. QED
    BY <2>2, <2>3 DEF FifoState
<1>4. /\ EmptySlot.chain = NoChain /\ EmptySlot.err = "0" /\ EmptySlot.null = FALSE
      /\ EmptySlot \in Slot
  BY DEF EmptySlot, Slot, Errors
<1>5. HeadOK(h) /\ AnswerOK([n \in Nodes |-> <<>>]) /\ Entries(h, <<>>) = 1
  BY <1>1, <1>2 DEF HeadOK, AnswerOK, Entries
<1>6. FifoOK(h, NewFifo, <<>>)
  <2>1. \A i \in 0..0 - 1 : FALSE
    OBVIOUS
  <2>2. QED
    BY <1>1, <1>2, <1>3, <1>5, <2>1 DEF FifoOK
<1>7. SlotOK(h, NewFifo, EmptySlot, <<>>)
  BY <1>3, <1>4 DEF SlotOK
<1>8. GotOK(h, <<>>, [n \in Nodes |-> <<>>], "none")
  BY DEF GotOK
<1>9. QED
  BY <1>1, <1>3, <1>4, <1>5, <1>6, <1>7, <1>8 DEF h

\* What the last retirement of an XOP leaves behind.
LEMMA RestedData ==
    ASSUME DataInv, UseInv, NEW x \in Xops,
           head'[x] = Fresh("scan", {}), fe'[x] = "none",
           fifo' = [fifo EXCEPT ![x] = [n \in Nodes |-> NewFifo]],
           clu' = [clu EXCEPT ![x] = [n \in Nodes |-> EmptySlot]],
           answer' = [answer EXCEPT ![x] = [n \in Nodes |-> <<>>]],
           got' = [got EXCEPT ![x] = <<>>],
           \A n \in Nodes : wk'[n].x # x
    PROVE  DataTypes' /\ DataOf(x)'
<1>1. DataTypes'
  BY FreeIs DEF DataInv, DataTypes
<1>2. Rested(x)' /\ answer'[x] = [n \in Nodes |-> <<>>] /\ got'[x] = <<>>
  BY DEF DataInv, DataTypes, Rested
<1>3. /\ (HeadOK(head[x]) /\ AnswerOK(answer[x]))' /\ head'[x].pos = 0 /\ head'[x].mask = {}
      /\ GotOK(head[x], got[x], answer[x], fe[x])'
  BY <1>2, FreeIs
<1>4. \A n \in Nodes : /\ FifoOK(head[x], fifo[x][n], answer[x][n])'
                       /\ SlotOK(head[x], fifo[x][n], clu[x][n], answer[x][n])'
  BY <1>2, FreeIs DEF Rested
<1>5. PassOK(head[x], clu[x])' /\ \A n \in Nodes : FeederOK(x, n)'
  BY <1>3, NodesAre DEF PassOK, FeederOK
<1>6. DataOf(x)'
  <2>1. (head[x].mask = {} => Rested(x))'
    BY <1>2
  <2>2. QED
    BY <1>3, <1>4, <1>5, <2>1 DEF DataOf
<1>7. QED
  BY <1>1, <1>6

\* What the frontend was given does not depend on whether it waits.
LEMMA GotKept ==
    ASSUME NEW h, NEW h2, NEW g, NEW a, NEW s, NEW s2, GotOK(h, g, a, s),
           h2.kind = h.kind, h2.ckey = h.ckey,
           \/ s2 \in {"none", s}
           \/ s \in {"collect", "asleep"} /\ s2 \in {"collect", "asleep"}
    PROVE  GotOK(h2, g, a, s2)
<1>1. CASE s2 = "none"
  BY <1>1 DEF GotOK
<1>2. CASE s2 # "none" /\ s # "none" /\ (s2 = "ready" <=> s = "ready")
  BY <1>2 DEF GotOK
<1>3. QED
  BY <1>1, <1>2

\* hammer2_xop_feed by a storage function.
LEMMA FeedData ==
    ASSUME AnswersFit, DataInv, UseInv, NEW n \in Nodes, WorkerFeed(n)
    PROVE  DataInv'
<1>1. wk[n].pc = "feed" /\ wk[n].x # NoXop
  BY DEF WorkerFeed, UseInv, QueueInv
<1>2. PICK x \in Xops : x = wk[n].x
  BY <1>1, UserFacts
<1>3. /\ DataOf(x) /\ DataTypes /\ HeadIs(head[x]) /\ n \in head[x].mask
      /\ UNCHANGED <<clu, answer, got>>
  BY <1>1, <1>2, UserFacts, HeadsAre DEF DataInv, WorkerFeed
<1>4. PICK pc \in {"feed", "race", "done"} :
         /\ wk' = [wk EXCEPT ![n].pc = pc]
         /\ \/ UNCHANGED <<head, fifo, fe>>
            \/ /\ xop_feed(x, n, Response(x, n, fifo[x][n].wi))
               /\ pc = "feed" => ~LastResponse(x, n, fifo[x][n].wi)
  BY <1>2 DEF WorkerFeed, Run
<1>5. /\ wk'[n].pc = pc
      /\ \A m \in Nodes : /\ wk'[m].x = wk[m].x
                          /\ m # n => wk'[m].pc = wk[m].pc
  BY <1>4, Moves DEF WorkerPCs
<1>6. CASE UNCHANGED <<head, fifo, fe>>
  <2>1. \A y \in Xops : FrontGoes(y) /\ \A m \in Nodes : WorkerGoes(y, m)
    BY <1>1, <1>5, <1>6 DEF FrontGoes, WorkerGoes
  <2>2. QED
    BY <1>3, <1>6, <2>1, StepData
<1>7. CASE /\ xop_feed(x, n, Response(x, n, fifo[x][n].wi))
           /\ pc = "feed" => ~LastResponse(x, n, fifo[x][n].wi)
  <2> DEFINE h == head[x]
             h2 == Fed(h, Full(x, n))
             a == answer[x]
             F == fifo[x]
             g == Put(F[n], Said(h, a[n], F[n].wi), h.size)
  <2>1. /\ fifo' = [fifo EXCEPT ![x][n] = g]
        /\ head' = [head EXCEPT ![x] = h2]
        /\ fe' = fe \/ (fe[x] = "asleep" /\ fe' = [fe EXCEPT ![x] = "collect"])
    BY <1>7 DEF xop_feed, Response, Said
  <2>2. /\ h2.kind = h.kind /\ h2.ckey = h.ckey /\ h2.pos = h.pos /\ h2.mask = h.mask
        /\ h2.size = IF F[n].wi - F[n].ri = h.size THEN 2 * h.size ELSE h.size
    BY <1>3 DEF HeadIs, Fed, Full
  <2>3. /\ F \in [Nodes -> FifoState] /\ AnswerOK(a) /\ HeadOK(h)
        /\ \A m \in Nodes : /\ FifoOK(h, F[m], a[m]) /\ SlotOK(h, F[m], clu[x][m], a[m])
                            /\ FeederOK(x, m)
    BY <1>3 DEF DataOf, DataTypes
  <2>4. F[n].wi < Entries(h, a[n])
    BY <1>1, <1>2, <2>3 DEF FeederOK
  <2>5. /\ head'[x] = h2 /\ \A y \in Xops : y # x => head'[y] = head[y]
    BY <2>1, HeadsAre
  <2> HIDE DEF h2, g
  <2>6. /\ g \in FifoState /\ g.ri = F[n].ri /\ g.wi = F[n].wi + 1
        /\ h2.size \in {FifoSize, 2 * FifoSize} /\ FifoOK(h2, g, a[n])
        /\ \A m \in Nodes : m # n => FifoOK(h2, F[m], a[m])
    BY <2>2, <2>3, <2>4, FeedFits DEF g
  <2>7. /\ fifo'[x] \in [Nodes -> FifoState] /\ fifo'[x][n] = g
        /\ \A m \in Nodes : m # n => fifo'[x][m] = F[m]
        /\ \A y \in Xops : y # x => fifo'[y] = fifo[y]
        /\ fifo' \in [Xops -> [Nodes -> FifoState]]
    BY <1>3, <2>1, <2>3, <2>6 DEF DataTypes
  <2>8. /\ \A y \in Xops : y # x => fe'[y] = fe[y]
        /\ fe'[x] = fe[x] \/ (fe[x] = "asleep" /\ fe'[x] = "collect")
    BY <2>1 DEF UseInv, ControlOK
  <2>9. DataTypes'
    BY <1>3, <2>7 DEF DataTypes
  <2>10. ASSUME NEW y \in Xops, y # x
         PROVE  DataOf(y)'
    <3>1. DataOf(y)
      BY DEF DataInv
    <3>2. \A m \in Nodes : /\ wk'[m].x = y <=> wk[m].x = y
                           /\ wk[m].x = y => wk'[m].pc = wk[m].pc
      BY <1>2, <1>5, <2>10
    <3>3. /\ head'[y] = head[y] /\ fe'[y] = fe[y] /\ fifo'[y] = fifo[y]
          /\ clu'[y] = clu[y] /\ answer'[y] = answer[y] /\ got'[y] = got[y]
      BY <1>3, <2>5, <2>7, <2>8, <2>10
    <3>4. QED
      BY <3>1, <3>2, <3>3, OtherData
  <2>11. DataOf(x)'
    <3>1. HeadOK(h2) /\ AnswerOK(a)
      BY <2>2, <2>3, <2>6 DEF HeadOK
    <3>2. ASSUME NEW m \in Nodes
          PROVE  FifoOK(h2, fifo'[x][m], a[m]) /\ SlotOK(h2, fifo'[x][m], clu[x][m], a[m])
      <4>1. FifoOK(h2, fifo'[x][m], a[m]) /\ fifo'[x][m].ri = F[m].ri
        BY <2>6, <2>7
      <4>2. QED
        BY <2>2, <2>3, <4>1 DEF SlotOK
    <3>3. ASSUME NEW m \in Nodes
          PROVE  FeederOK(x, m)'
      <4>1. CASE m # n
        <5>1. Entries(h2, a[m]) = Entries(h, a[m])
          BY <2>2 DEF Entries
        <5>2. QED
          BY <1>3, <1>5, <2>2, <2>3, <2>5, <2>7, <4>1, <5>1 DEF FeederOK
      <4>2. CASE m = n
        <5>1. ASSUME pc = "feed"
              PROVE  g.wi < Entries(h2, a[n])
          <6>1. h.kind = "scan" /\ F[n].wi # Len(a[n])
            BY <1>7, <5>1 DEF LastResponse
          <6>2. Len(a[n]) \in Nat /\ F[n].wi \in Nat
            BY <2>3, EntriesAre DEF FifoState
          <6>3. QED
            BY <2>2, <2>4, <2>6, <6>1, <6>2 DEF Entries
        <5>2. wk'[n].x = x /\ wk'[n].pc = pc /\ pc # "copy"
          BY <1>2, <1>4, <1>5
        <5>3. QED
          BY <1>3, <2>5, <2>7, <4>2, <5>1, <5>2 DEF FeederOK
      <4>3. QED
        BY <4>1, <4>2
    <3>4. PassOK(h2, clu[x])
      BY <1>3, <2>2 DEF DataOf, PassOK
    <3>5. GotOK(h2, got[x], a, fe'[x])
      <4>1. GotOK(h, got[x], a, fe[x])
        BY <1>3 DEF DataOf
      <4>2. QED
        BY <2>2, <2>8, <4>1, GotKept
    <3>6. h2.mask # {}
      BY <1>3, <2>2
    <3>7. QED
      BY <1>3, <2>5, <3>1, <3>2, <3>3, <3>4, <3>5, <3>6 DEF DataOf
  <2>12. QED
    BY <2>9, <2>10, <2>11 DEF DataInv
<1>8. QED
  BY <1>4, <1>6, <1>7

\* hammer2_xop_retire, by a worker or by the frontend.
LEMMA RetireData ==
    ASSUME AnswersFit, DataInv, UseInv, NEW x \in Xops, NEW bit, xop_retire(x, bit),
           bit \in head[x].mask,
           head[x].mask = {bit} => fe'[x] = "none" /\ \A m \in Nodes : wk'[m].x # x,
           \A y \in Xops : FrontGoes(y) /\ \A m \in Nodes : WorkerGoes(y, m)
    PROVE  DataInv'
<1>1. CASE head[x].mask = {bit}
  <2>1. /\ head' = [head EXCEPT ![x] = Fresh("scan", {})]
        /\ fifo' = [fifo EXCEPT ![x] = [n \in Nodes |-> NewFifo]]
        /\ clu' = [clu EXCEPT ![x] = [n \in Nodes |-> EmptySlot]]
        /\ answer' = [answer EXCEPT ![x] = [n \in Nodes |-> <<>>]]
        /\ got' = [got EXCEPT ![x] = <<>>]
    BY <1>1 DEF xop_retire
  <2>2. head'[x] = Fresh("scan", {}) /\ \A y \in Xops : y # x => head'[y] = head[y]
    <3> DEFINE h == Fresh("scan", {})
    <3> HIDE DEF h
    <3>1. head' = [head EXCEPT ![x] = h]
      BY <2>1 DEF h
    <3>2. head'[x] = h /\ \A y \in Xops : y # x => head'[y] = head[y]
      BY <3>1, HeadsAre
    <3>3. QED
      BY <3>2 DEF h
  <2>3. DataTypes' /\ DataOf(x)'
    BY <1>1, <2>1, <2>2, RestedData
  <2>4. ASSUME NEW y \in Xops, y # x
        PROVE  DataOf(y)'
    <3>1. DataOf(y) /\ DataTypes
      BY DEF DataInv
    <3>2. fifo'[y] = fifo[y] /\ clu'[y] = clu[y] /\ answer'[y] = answer[y] /\ got'[y] = got[y]
      BY <2>1, <2>4, <3>1 DEF DataTypes
    <3>3. head'[y] = head[y]
      BY <2>2, <2>4
    <3>4. QED
      BY <3>1, <3>2, <3>3, DataKept
  <2>5. QED
    BY <2>3, <2>4 DEF DataInv
<1>2. CASE head[x].mask # {bit}
  <2> DEFINE h == Retired(head[x], bit)
  <2>1. head' = [head EXCEPT ![x] = h] /\ UNCHANGED <<fifo, clu, answer, got>>
    BY <1>2 DEF xop_retire
  <2>2. /\ h.kind = head[x].kind /\ h.size = head[x].size /\ h.ckey = head[x].ckey
        /\ h.pos = head[x].pos /\ h.mask = head[x].mask \ {bit} /\ h.mask # {}
    BY <1>2, HeadsAre DEF HeadIs, Retired
  <2> HIDE DEF h
  <2>3. head'[x] = h /\ \A y \in Xops : y # x => head'[y] = head[y]
    BY <2>1, HeadsAre
  <2>4. QED
    BY <2>1, <2>2, <2>3, StepData
<1>3. QED
  BY <1>1, <1>2

\* hammer2_xop_dequeue and the retirement of the node's bit.
LEMMA DoneData ==
    ASSUME AnswersFit, DataInv, UseInv, NEW n \in Nodes, WorkerDone(n)
    PROVE  DataInv'
<1>1. wk[n].pc = "done" /\ wk[n].x # NoXop
  BY DEF WorkerDone, UseInv, QueueInv
<1>2. PICK x \in Xops : x = wk[n].x
  BY <1>1, UserFacts
<1>3. /\ wk' = [wk EXCEPT ![n] = [pc |-> "drain", x |-> NoXop]]
      /\ xop_retire(x, n) /\ fe' = WokenByRetire(x, n)
  BY <1>2 DEF WorkerDone
<1>4. /\ n \in head[x].mask /\ VOP \notin Nodes /\ NoXop \notin Xops
      /\ \A m \in Nodes : wk[m].x = x => m \in head[x].mask
  BY <1>1, <1>2, UserFacts, XopAssumption
<1>5. /\ wk'[n].x = NoXop /\ \A m \in Nodes : m # n => wk'[m] = wk[m]
      /\ fe \in [Xops -> FrontStates]
  BY <1>3 DEF UseInv, ControlOK
<1>6. head'[x].mask = head[x].mask \ {n}
  BY <1>3, RetireIs
<1>7. /\ \A y \in Xops : FrontGoes(y)
      /\ head[x].mask = {n} => fe'[x] = "none"
  <2>1. fe' = fe \/ (/\ fe[x] = "asleep" /\ VOP \in head[x].mask
                     /\ fe' = [fe EXCEPT ![x] = "collect"])
    BY <1>3 DEF WokenByRetire
  <2>2. head[x].mask = {n} => VOP \notin head[x].mask /\ fe[x] = "none"
    BY <1>4 DEF UseInv, UsersHoldBits
  <2>3. \A y \in Xops : fe'[y] = fe[y] \/ (fe[y] = "asleep" /\ fe'[y] = "collect")
    BY <1>5, <2>1
  <2>4. QED
    BY <2>1, <2>2, <2>3 DEF FrontGoes
<1>8. \A y \in Xops : \A m \in Nodes : WorkerGoes(y, m)
  BY <1>2, <1>4, <1>5, <1>6 DEF WorkerGoes
<1>9. head[x].mask = {n} => \A m \in Nodes : wk'[m].x # x
  BY <1>4, <1>5
<1>10. QED
  BY <1>3, <1>4, <1>7, <1>8, <1>9, RetireData

\* The frontend leaves.
LEMMA LeaveData ==
    ASSUME AnswersFit, DataInv, UseInv, NEW x \in Xops, FrontRetire(x)
    PROVE  DataInv'
<1>1. /\ fe[x] = "ready" /\ xop_retire(x, VOP)
      /\ fe' = [fe EXCEPT ![x] = "none"] /\ UNCHANGED wk
  BY DEF FrontRetire
<1>2. /\ VOP \in head[x].mask /\ VOP \notin Nodes /\ NoXop \notin Xops
      /\ fe \in [Xops -> FrontStates]
      /\ \A m \in Nodes : wk[m].x = x => m \in head[x].mask
  BY <1>1, UserFacts, XopAssumption DEF UseInv, UsersHoldBits, ControlOK
<1>3. \A y \in Xops : FrontGoes(y)
  BY <1>1, <1>2 DEF FrontGoes
<1>4. \A y \in Xops : \A m \in Nodes : WorkerGoes(y, m)
  BY <1>1 DEF WorkerGoes
<1>5. head[x].mask = {VOP} => fe'[x] = "none" /\ \A m \in Nodes : wk'[m].x # x
  BY <1>1, <1>2
<1>6. QED
  BY <1>1, <1>2, <1>3, <1>4, <1>5, RetireData

\* The collector reads run_mask, waits or gives up, and is woken.
LEMMA PassData ==
    ASSUME AnswersFit, DataInv, UseInv, NEW x \in Xops,
           \/ CollectRead(x) \/ CollectWait(x) \/ CollectNowait(x)
           \/ CollectTimeout(x) \/ FrontAgain(x)
    PROVE  DataInv'
<1>1. UNCHANGED <<fifo, clu, answer, got>>
  BY DEF CollectRead, CollectWait, CollectNowait, CollectTimeout, FrontAgain
<1>2. HeadIs(head[x]) /\ fe \in [Xops -> FrontStates]
  BY HeadsAre DEF UseInv, ControlOK
<1>3. \A y \in Xops :
         /\ head'[y].kind = head[y].kind /\ head'[y].size = head[y].size
         /\ head'[y].ckey = head[y].ckey /\ head'[y].pos \in {head[y].pos, 0, 1}
         /\ head'[y].mask = head[y].mask
  <2>1. CASE head' = head
    BY <2>1
  <2>2. ASSUME NEW h, head' = [head EXCEPT ![x] = h],
               h.kind = head[x].kind, h.size = head[x].size, h.ckey = head[x].ckey,
               h.pos \in {head[x].pos, 0, 1}, h.mask = head[x].mask
        PROVE  \A y \in Xops :
                  /\ head'[y].kind = head[y].kind /\ head'[y].size = head[y].size
                  /\ head'[y].ckey = head[y].ckey /\ head'[y].pos \in {head[y].pos, 0, 1}
                  /\ head'[y].mask = head[y].mask
    <3>1. head'[x] = h /\ \A y \in Xops : y # x => head'[y] = head[y]
      BY <2>2, HeadsAre
    <3>2. QED
      BY <2>2, <3>1
  <2>3. CASE CollectRead(x)
    <3> DEFINE h == [head[x] EXCEPT !.pos = 1, !.fresh = TRUE]
    <3>1. head' = [head EXCEPT ![x] = h]
      BY <1>2, <2>3, HeadsAre DEF CollectRead
    <3>2. /\ h.kind = head[x].kind /\ h.size = head[x].size /\ h.ckey = head[x].ckey
          /\ h.pos = 1 /\ h.mask = head[x].mask
      BY <1>2 DEF HeadIs
    <3> HIDE DEF h
    <3>3. QED
      BY <2>2, <3>1, <3>2
  <2>4. CASE CollectWait(x)
    <3> DEFINE w == head[x].wait \/ head[x].fresh
               h == [head[x] EXCEPT !.pos = 0, !.wait = w]
    <3>1. head' = [head EXCEPT ![x] = h]
      BY <1>2, <2>4, HeadsAre DEF CollectWait
    <3> HIDE DEF w
    <3>2. /\ h.kind = head[x].kind /\ h.size = head[x].size /\ h.ckey = head[x].ckey
          /\ h.pos = 0 /\ h.mask = head[x].mask
      BY <1>2 DEF HeadIs
    <3> HIDE DEF h
    <3>3. QED
      BY <2>2, <3>1, <3>2
  <2>5. CASE CollectNowait(x)
    <3> DEFINE h == [head[x] EXCEPT !.pos = 0, !.lock = 0]
    <3>1. head' = [head EXCEPT ![x] = h]
      BY <1>2, <2>5, HeadsAre DEF CollectNowait
    <3>2. /\ h.kind = head[x].kind /\ h.size = head[x].size /\ h.ckey = head[x].ckey
          /\ h.pos = 0 /\ h.mask = head[x].mask
      BY <1>2 DEF HeadIs
    <3> HIDE DEF h
    <3>3. QED
      BY <2>2, <3>1, <3>2
  <2>6. CASE CollectTimeout(x) \/ FrontAgain(x)
    BY <2>1, <2>6 DEF CollectTimeout, FrontAgain
  <2>7. QED
    BY <2>3, <2>4, <2>5, <2>6
<1>4. \A y \in Xops : FrontGoes(y)
  <2>1. CASE fe' = fe
    BY <2>1 DEF FrontGoes
  <2>2. CASE CollectWait(x) /\ fe' # fe
    <3>1. fe[x] = "collect" /\ fe' = [fe EXCEPT ![x] = "asleep"]
      BY <2>2 DEF CollectWait
    <3>2. QED
      BY <1>2, <3>1 DEF FrontGoes
  <2>3. CASE CollectTimeout(x)
    <3>1. fe[x] = "asleep" /\ fe' = [fe EXCEPT ![x] = "collect"]
      BY <2>3 DEF CollectTimeout
    <3>2. QED
      BY <1>2, <3>1 DEF FrontGoes
  <2>4. CASE FrontAgain(x)
    <3>1. /\ fe[x] = "ready" /\ fe' = [fe EXCEPT ![x] = "collect"]
          /\ got[x][Len(got[x])].err = "0"
      BY <2>4 DEF FrontAgain, Last
    <3>2. QED
      BY <1>2, <3>1 DEF FrontGoes
  <2>5. QED
    BY <2>1, <2>2, <2>3, <2>4 DEF CollectRead, CollectNowait
<1>5. \A y \in Xops : \A m \in Nodes : WorkerGoes(y, m)
  <2>1. CASE wk' = wk
    BY <2>1 DEF WorkerGoes
  <2>2. CASE CollectNowait(x)
    <3>1. PICK n : n = head[x].lock
      OBVIOUS
    <3>2. n \in Nodes
      BY <2>2, <3>1, LockHolder DEF CollectNowait, AtCheck
    <3>3. wk' = [wk EXCEPT ![n].pc = "done"]
      BY <2>2, <3>1 DEF CollectNowait, Run
    <3>4. /\ wk'[n].pc = "done"
          /\ \A m \in Nodes : /\ wk'[m].x = wk[m].x
                              /\ m # n => wk'[m].pc = wk[m].pc
      BY <3>2, <3>3, Moves DEF WorkerPCs
    <3>5. QED
      BY <3>4 DEF WorkerGoes
  <2>3. QED
    BY <2>1, <2>2 DEF CollectRead, CollectWait, CollectTimeout, FrontAgain
<1>6. QED
  BY <1>1, <1>3, <1>4, <1>5, StepData

\* The slots of one XOP and its collector.
LEMMA SlotData ==
    ASSUME AnswersFit, DataInv, UseInv, NEW x \in Xops, CollectSlot(x)
    PROVE  DataInv'
<1> DEFINE h == head[x]
           n == h.pos
           s == clu[x][n]
           f == fifo[x][n]
           a == answer[x]
           e == f.array[(f.ri % h.size) + 1]
           advance == s.chain = NoChain \/ s.chain.key < h.ckey
<1>1. /\ n \in Nodes /\ UNCHANGED <<xopq, wk, fe, answer, got, bp>>
      /\ IF advance /\ f.ri # f.wi
         THEN /\ clu' = [clu EXCEPT ![x][n] = [chain |-> e.chain, err |-> e.err,
                                               null |-> s.null \/ e.chain = NoChain]]
              /\ fifo' = [fifo EXCEPT ![x][n].ri = f.ri + 1]
              /\ UNCHANGED head
         ELSE /\ clu' = [clu EXCEPT ![x][n].chain = IF advance THEN NoChain ELSE s.chain]
              /\ head' = [head EXCEPT ![x].pos = n + 1]
              /\ UNCHANGED fifo
  BY DEF CollectSlot
<1>2. /\ DataOf(x) /\ DataTypes /\ HeadIs(h)
  BY HeadsAre DEF DataInv
<1>3. /\ HeadOK(h) /\ AnswerOK(a) /\ f \in FifoState /\ s \in Slot
      /\ \A m \in Nodes : /\ FifoOK(h, fifo[x][m], a[m])
                          /\ SlotOK(h, fifo[x][m], clu[x][m], a[m])
                          /\ FeederOK(x, m)
      /\ PassOK(h, clu[x]) /\ GotOK(h, got[x], a, fe[x])
  <2>1. /\ HeadOK(h) /\ AnswerOK(a)
        /\ \A m \in Nodes : /\ FifoOK(h, fifo[x][m], a[m])
                            /\ SlotOK(h, fifo[x][m], clu[x][m], a[m])
                            /\ FeederOK(x, m)
        /\ PassOK(h, clu[x]) /\ GotOK(h, got[x], a, fe[x])
    BY <1>2 DEF DataOf
  <2>2. clu[x] \in [Nodes -> Slot] /\ fifo[x] \in [Nodes -> FifoState]
    BY <1>2 DEF DataTypes
  <2>3. f \in FifoState /\ s \in Slot
    BY <1>1, <2>2
  <2>4. QED
    BY <2>1, <2>3
<1>4. h.mask # {}
  <2>1. Collecting(x) /\ VOP \notin Nodes
    BY XopAssumption DEF CollectSlot
  <2>2. CASE fe[x] = "collect"
    BY <2>2 DEF UseInv, UsersHoldBits
  <2>3. CASE fe[x] # "collect"
    BY <2>1, <2>3, LockHolder
  <2>4. QED
    BY <2>2, <2>3
<1>5. ASSUME NEW t \in Slot, NEW g \in FifoState, NEW h2,
             clu' = [clu EXCEPT ![x][n] = t], fifo' = [fifo EXCEPT ![x][n] = g],
             head' = [head EXCEPT ![x] = h2],
             g.wi = f.wi, FifoOK(h, g, a[n]), SlotOK(h, g, t, a[n]),
             h2.kind = h.kind, h2.size = h.size, h2.ckey = h.ckey, h2.mask = h.mask,
             \/ h2.pos = n
             \/ h2.pos = n + 1 /\ t.chain.key >= h.ckey
      PROVE  DataInv'
  <2>1. /\ clu'[x] \in [Nodes -> Slot] /\ clu'[x][n] = t
        /\ \A m \in Nodes : m # n => clu'[x][m] = clu[x][m]
        /\ \A y \in Xops : y # x => clu'[y] = clu[y]
        /\ clu' \in [Xops -> [Nodes -> Slot]]
    BY <1>1, <1>2, <1>5 DEF DataTypes
  <2>2. /\ fifo'[x] \in [Nodes -> FifoState] /\ fifo'[x][n] = g
        /\ \A m \in Nodes : m # n => fifo'[x][m] = fifo[x][m]
        /\ \A y \in Xops : y # x => fifo'[y] = fifo[y]
        /\ fifo' \in [Xops -> [Nodes -> FifoState]]
    BY <1>1, <1>2, <1>5 DEF DataTypes
  <2>3. head'[x] = h2 /\ \A y \in Xops : y # x => head'[y] = head[y]
    BY <1>5, HeadsAre
  <2>4. DataTypes'
    BY <1>1, <1>2, <2>1, <2>2 DEF DataTypes
  <2>5. ASSUME NEW y \in Xops, y # x
        PROVE  DataOf(y)'
    <3>1. DataOf(y)
      BY DEF DataInv
    <3>2. \A m \in Nodes : /\ wk'[m].x = y <=> wk[m].x = y
                           /\ wk[m].x = y => wk'[m].pc = wk[m].pc
      BY <1>1
    <3>3. /\ head'[y] = head[y] /\ fe'[y] = fe[y] /\ fifo'[y] = fifo[y]
          /\ clu'[y] = clu[y] /\ answer'[y] = answer[y] /\ got'[y] = got[y]
      BY <1>1, <2>1, <2>2, <2>3, <2>5
    <3>4. QED
      BY <3>1, <3>2, <3>3, OtherData
  <2> HIDE DEF h, n, s, f, a, e, advance
  <2>6. DataOf(x)'
    <3>1. HeadOK(h2) /\ AnswerOK(a)
      BY <1>1, <1>3, <1>5, NodesAre DEF HeadOK
    <3>2. ASSUME NEW m \in Nodes
          PROVE  /\ FifoOK(h2, fifo'[x][m], a[m]) /\ SlotOK(h2, fifo'[x][m], clu'[x][m], a[m])
                 /\ fifo'[x][m].wi = fifo[x][m].wi
      <4>1. /\ FifoOK(h, fifo'[x][m], a[m]) /\ SlotOK(h, fifo'[x][m], clu'[x][m], a[m])
            /\ fifo'[x][m].wi = fifo[x][m].wi
        BY <1>1, <1>3, <1>5, <2>1, <2>2 DEF f
      <4>2. FifoOK(h2, fifo'[x][m], a[m])
        BY <1>5, <4>1 DEF FifoOK, Entries, Said
      <4>3. SlotOK(h2, fifo'[x][m], clu'[x][m], a[m])
        BY <1>5, <4>1 DEF SlotOK
      <4>4. QED
        BY <4>1, <4>2, <4>3
    <3>3. \A m \in Nodes : FeederOK(x, m)'
      <4>1. \A m \in Nodes : Entries(h2, a[m]) = Entries(h, a[m])
        BY <1>5 DEF Entries
      <4>2. QED
        BY <1>1, <1>3, <1>5, <2>3, <3>2, <4>1 DEF FeederOK, h, a
    <3>4. PassOK(h2, clu'[x])
      <4> SUFFICES ASSUME NEW m \in Nodes, m < h2.pos
                   PROVE  clu'[x][m].chain.key >= h2.ckey
        BY DEF PassOK
      <4>1. m \in Nat /\ n \in Nat
        BY <1>1, NodesAre
      <4>2. CASE m = n
        <5>1. h2.pos = n + 1
          BY <1>5, <4>1, <4>2
        <5>2. QED
          BY <1>5, <2>1, <4>1, <4>2, <5>1
      <4>3. CASE m # n
        <5>1. m < n
          BY <1>5, <4>1, <4>3
        <5>2. QED
          BY <1>3, <1>5, <2>1, <4>3, <5>1 DEF PassOK, n
      <4>4. QED
        BY <4>2, <4>3
    <3>5. GotOK(h2, got[x], a, fe[x])
      BY <1>3, <1>5, GotKept DEF h, a
    <3>6. h2.mask # {}
      BY <1>4, <1>5
    <3>7. QED
      BY <1>1, <2>3, <3>1, <3>2, <3>3, <3>4, <3>5, <3>6 DEF DataOf, a
  <2>7. QED
    BY <2>4, <2>5, <2>6 DEF DataInv
<1>6. SlotFits(h, f, s, a[n]) /\ a[n] \in Seq(Chain)
  BY <1>1, <1>3, EntriesAre DEF SlotFits
<1>7. CASE advance /\ f.ri # f.wi
  <2> DEFINE t == Taken(h, f, s)
             g == [f EXCEPT !.ri = @ + 1]
  <2>1. /\ clu' = [clu EXCEPT ![x][n] = t] /\ fifo' = [fifo EXCEPT ![x][n] = g]
        /\ head' = [head EXCEPT ![x] = h]
    <3>1. fifo' = [fifo EXCEPT ![x][n].ri = f.ri + 1]
      BY <1>1, <1>7
    <3>2. fifo' = [fifo EXCEPT ![x][n] = g]
      BY <3>1
    <3>3. head' = [head EXCEPT ![x] = h]
      BY <1>1, <1>7, HeadsAre
    <3>4. QED
      BY <1>1, <1>7, <3>2, <3>3 DEF Taken
  <2>2. Passed(h, s) /\ f.ri # f.wi
    BY <1>7 DEF Passed
  <2> HIDE DEF h, f, s, a, e, advance
  <2>3. h.pos = n
    BY DEF h
  <2> HIDE DEF n
  <2>4. SlotFits(h, g, t, a[n]) /\ g.wi = f.wi
    BY <1>3, <1>6, <2>2, AdvanceIs
  <2>5. /\ t \in Slot /\ g \in FifoState /\ FifoOK(h, g, a[n]) /\ SlotOK(h, g, t, a[n])
    BY <2>4 DEF SlotFits
  <2> HIDE DEF t, g
  <2>6. QED
    BY <1>5, <2>4, <2>1, <2>3, <2>5
<1>8. CASE ~(advance /\ f.ri # f.wi)
  <2> DEFINE t == [s EXCEPT !.chain = IF advance THEN NoChain ELSE @]
             h2 == [h EXCEPT !.pos = n + 1]
  <2>1. /\ clu' = [clu EXCEPT ![x][n] = t] /\ fifo' = [fifo EXCEPT ![x][n] = f]
        /\ head' = [head EXCEPT ![x] = h2]
    <3>1. /\ clu' = [clu EXCEPT ![x][n].chain = IF advance THEN NoChain ELSE s.chain]
          /\ head' = [head EXCEPT ![x].pos = n + 1] /\ fifo' = fifo
      BY <1>1, <1>8
    <3>2. fifo' = [fifo EXCEPT ![x][n] = f]
      BY <1>1, <1>2, <3>1 DEF DataTypes
    <3>3. head' = [head EXCEPT ![x] = h2]
      BY <3>1
    <3>4. clu' = [clu EXCEPT ![x][n] = t]
      BY <3>1
    <3>5. QED
      BY <3>2, <3>3, <3>4
  <2>2. /\ h2.kind = h.kind /\ h2.size = h.size /\ h2.ckey = h.ckey
        /\ h2.mask = h.mask /\ h2.pos = n + 1
    BY <1>2 DEF HeadIs
  <2>3. t \in Slot /\ SlotOK(h, f, t, a[n]) /\ t.chain.key >= h.ckey
    <3>1. h.ckey \in 0..KeyMax /\ KeyMax \in Nat /\ s.chain.key \in Nat
          /\ NoChain.key = KeyMax
      BY <1>3, KeyBounds, SlotIs DEF HeadOK
    <3>2. CASE advance
      <4>1. t = [s EXCEPT !.chain = NoChain] /\ Passed(h, s)
        BY <3>2 DEF Passed
      <4> DEFINE u == [s EXCEPT !.chain = NoChain]
      <4> HIDE DEF h, n, s, f, a, t
      <4>2. SlotFits(h, f, u, a[n]) /\ u.chain = NoChain
        BY <1>3, <1>6, <4>1, AdvanceIs
      <4>3. u \in Slot /\ SlotOK(h, f, u, a[n])
        BY <4>2 DEF SlotFits
      <4>4. QED
        BY <3>1, <4>1, <4>2, <4>3
    <3>3. CASE ~advance
      <4>1. t = s
        BY <1>3, <3>3 DEF Slot
      <4>2. SlotOK(h, f, s, a[n]) /\ s \in Slot
        BY <1>1, <1>3
      <4>3. s.chain.key >= h.ckey
        BY <3>1, <3>3
      <4> HIDE DEF t
      <4>4. QED
        BY <4>1, <4>2, <4>3
    <3>4. QED
      BY <3>2, <3>3
  <2> HIDE DEF t, h, h2, f, s, a, e, advance, n
  <2>4. FifoOK(h, f, a[n]) /\ f \in FifoState
    BY <1>1, <1>3 DEF f
  <2>5. QED
    BY <1>5, <2>1, <2>2, <2>3, <2>4
<1>9. QED
  BY <1>7, <1>8

\* A collector has an XOP somebody uses, and for a scan it is the frontend; at
\* the check the slots are up to collect_key.
LEMMA CollectorHas ==
    ASSUME DataInv, UseInv, NEW x \in Xops, AtCheck(x)
    PROVE  /\ head[x].mask # {} /\ (fe[x] # "collect" => head[x].kind # "scan")
           /\ \A n \in Nodes : clu[x][n].chain.key >= head[x].ckey
           /\ LowKey(clu[x]) \in head[x].ckey..KeyMax
           /\ LowKey(clu[x]) # KeyMax => LowKey(clu[x]) + 1 <= KeyMax
           /\ clu[x] \in [Nodes -> Slot] /\ head[x].ckey \in Nat /\ KeyMax \in Nat
<1>1. Collecting(x) /\ head[x].pos = Max(Nodes) + 1
  BY DEF AtCheck
<1>2. DataOf(x) /\ clu[x] \in [Nodes -> Slot]
  BY DEF DataInv, DataTypes
<1>3. head[x].mask # {} /\ (fe[x] # "collect" => head[x].kind # "scan")
  <2>1. CASE fe[x] = "collect"
    BY <2>1 DEF UseInv, UsersHoldBits
  <2>2. CASE fe[x] # "collect"
    BY <1>1, <2>2, LockHolder DEF Async
  <2>3. QED
    BY <2>1, <2>2
<1>4. \A n \in Nodes : n < head[x].pos
  <2>1. Nodes \in SUBSET Nat /\ IsFiniteSet(Nodes) /\ Nodes # {}
    BY NodesAre, ClusterAssumption
  <2>2. Max(Nodes) \in Nat /\ \A k \in Nodes : k \in Nat /\ k <= Max(Nodes)
    BY <2>1, MaxIs
  <2>3. QED
    BY <1>1, <2>2
<1>5. \A n \in Nodes : clu[x][n].chain.key >= head[x].ckey
  BY <1>2, <1>4 DEF DataOf, PassOK
<1>6. /\ LowKey(clu[x]) \in 0..KeyMax /\ head[x].ckey \in 0..KeyMax /\ KeyMax \in Nat
      /\ \E n \in Nodes : clu[x][n].chain.key = LowKey(clu[x])
  BY <1>2, LowKeyIs, KeyBounds DEF DataOf, HeadOK
<1>7. LowKey(clu[x]) >= head[x].ckey
  BY <1>5, <1>6
<1>8. QED
  BY <1>2, <1>3, <1>5, <1>6, <1>7

\* A check that starts the next pass at a higher key.
LEMMA CheckedData ==
    ASSUME AnswersFit, DataInv, UseInv, NEW x \in Xops, NEW h, h.kind = head[x].kind,
           h.size = head[x].size, h.mask = head[x].mask, h.mask # {}, h.pos = 0,
           h.ckey \in head[x].ckey..KeyMax,
           head' = [head EXCEPT ![x] = h], UNCHANGED <<fifo, clu, answer>>,
           got' \in [Xops -> Seq(GotState)],
           GotOK(h, got'[x], answer[x], fe'[x]),
           \A n \in Nodes : WorkerGoes(x, n),
           \A y \in Xops : y # x =>
              /\ fe'[y] = fe[y] /\ got'[y] = got[y]
              /\ \A n \in Nodes : /\ wk'[n].x = y <=> wk[n].x = y
                                  /\ wk[n].x = y => wk'[n].pc = wk[n].pc
    PROVE  DataInv'
<1>1. head'[x] = h /\ \A y \in Xops : y # x => head'[y] = head[y]
  BY HeadsAre
<1>2. DataTypes'
  BY DEF DataInv, DataTypes
<1>3. ASSUME NEW y \in Xops, y # x
      PROVE  DataOf(y)'
  <2>1. DataOf(y)
    BY DEF DataInv
  <2>2. QED
    BY <1>1, <1>3, <2>1, OtherData
<1>4. DataOf(x)'
  <2>1. DataOf(x)
    BY DEF DataInv
  <2>2. head[x].ckey \in 0..KeyMax /\ KeyMax \in Nat /\ \A n \in Nodes : n \in Nat \ {0}
    BY <2>1, KeyBounds, NodesAre DEF DataOf, HeadOK
  <2>3. HeadOK(h) /\ AnswerOK(answer[x])
    BY <2>1, <2>2 DEF DataOf, HeadOK
  <2>4. ASSUME NEW n \in Nodes
        PROVE  /\ FifoOK(h, fifo[x][n], answer[x][n])
               /\ SlotOK(h, fifo[x][n], clu[x][n], answer[x][n])
               /\ FeederOK(x, n)'
    <3>1. /\ AnswerOK(answer[x]) /\ FeederOK(x, n)
          /\ FifoOK(head[x], fifo[x][n], answer[x][n])
          /\ SlotOK(head[x], fifo[x][n], clu[x][n], answer[x][n])
      BY <2>1 DEF DataOf
    <3>2. /\ \A i \in 1..Len(answer[x][n]) : answer[x][n][i].key \in Nat
          /\ Entries(h, answer[x][n]) = Entries(head[x], answer[x][n])
          /\ Entries(h, answer[x][n]) > 0
      <4>1. \A i \in 1..Len(answer[x][n]) : answer[x][n][i].key \in Nat
        BY <3>1, EntriesAre
      <4>2. Entries(h, answer[x][n]) = Entries(head[x], answer[x][n])
        BY DEF Entries
      <4>3. QED
        BY <3>1, <4>1, <4>2, SomeEntries
    <3>3. FifoOK(h, fifo[x][n], answer[x][n])
      <4>1. \A i : Said(h, answer[x][n], i) = Said(head[x], answer[x][n], i)
        BY DEF Said
      <4>2. Entries(h, answer[x][n]) = Entries(head[x], answer[x][n])
        BY <3>2
      <4>3. QED
        BY <3>1, <4>1, <4>2 DEF FifoOK
    <3>4. \A i \in 1..Len(answer[x][n]) :
             answer[x][n][i].key < head[x].ckey => answer[x][n][i].key < h.ckey
      BY <2>2, <3>2
    <3>5. SlotOK(h, fifo[x][n], clu[x][n], answer[x][n])
      BY <3>1, <3>4 DEF SlotOK
    <3>6. FeederOK(x, n)'
      <4>1. WorkerGoes(x, n)
        OBVIOUS
      <4>2. QED
        BY <1>1, <3>1, <3>2, <4>1 DEF FeederOK, WorkerGoes
    <3>7. QED
      BY <3>3, <3>5, <3>6
  <2>5. PassOK(h, clu[x])
    BY <2>2 DEF PassOK
  <2>6. QED
    BY <1>1, <2>3, <2>4, <2>5 DEF DataOf
<1>5. QED
  BY <1>2, <1>3, <1>4 DEF DataInv

\* A key the master does not have is skipped.
LEMMA SkipData ==
    ASSUME OneMaster, AnswersFit, DataInv, UseInv, NEW x \in Xops, CollectSkip(x)
    PROVE  DataInv'
<1> DEFINE k == LowKey(clu[x])
           h == [head[x] EXCEPT !.ckey = k + 1, !.pos = 0]
<1>1. /\ AtCheck(x) /\ Skips(x) /\ UNCHANGED <<fifo, clu, wk, fe, answer, got>>
      /\ head' = [head EXCEPT ![x].ckey = k + 1, ![x].pos = 0]
  BY DEF CollectSkip
<1>2. /\ HeadIs(head[x]) /\ DataOf(x) /\ DataTypes
  BY HeadsAre DEF DataInv
<1>3. head' = [head EXCEPT ![x] = h]
  BY <1>1, <1>2, HeadsAre
<1>4. /\ head[x].mask # {} /\ (fe[x] # "collect" => head[x].kind # "scan")
      /\ \A n \in Nodes : clu[x][n].chain.key >= head[x].ckey
      /\ k \in head[x].ckey..KeyMax /\ k + 1 <= KeyMax /\ k # KeyMax
      /\ clu[x] \in [Nodes -> Slot] /\ head[x].ckey \in Nat /\ KeyMax \in Nat
  BY <1>1, CollectorHas DEF Skips
<1> HIDE DEF k
<1>5. /\ h.kind = head[x].kind /\ h.size = head[x].size /\ h.ckey = k + 1
      /\ h.pos = 0 /\ h.mask = head[x].mask
  BY <1>2 DEF HeadIs
<1> HIDE DEF h
<1>6. GotOK(h, got[x], answer[x], fe[x])
  <2>1. CASE h.kind # "scan"
    BY <2>1 DEF GotOK
  <2>2. CASE h.kind = "scan"
    <3>1. fe[x] = "collect" /\ GotOK(head[x], got[x], answer[x], "collect")
      BY <1>2, <1>4, <1>5, <2>2 DEF DataOf
    <3>2. cluster_check(clu[x]).err \in {"ESRCH", "EDEADLK"}
      BY <1>1, <1>5, <2>2 DEF Skips, Verdict
    <3>3. AgreedBelow(answer[x], k + 1) = AgreedBelow(answer[x], head[x].ckey)
      <4>1. /\ HeadOK(head[x]) /\ AnswerOK(answer[x])
            /\ \A n \in Nodes : SlotOK(head[x], fifo[x][n], clu[x][n], answer[x][n])
            /\ fifo[x] \in [Nodes -> FifoState]
        BY <1>2 DEF DataOf, DataTypes
      <4>2. head[x].kind = "scan"
        BY <1>5, <2>2
      <4>3. QED
        BY <1>4, <3>2, <4>1, <4>2, VerdictIs DEF k
    <3>4. /\ \A i, j \in DOMAIN got[x] : i < j => got[x][i].key < got[x][j].key
          /\ Given(got[x]) = AgreedBelow(answer[x], head[x].ckey)
          /\ \A i \in DOMAIN got[x] : got[x][i].err = "0" /\ got[x][i].key < head[x].ckey
      BY <1>5, <2>2, <3>1 DEF GotOK
    <3>5. \A i \in DOMAIN got[x] : got[x][i].key \in Nat
      <4>1. got[x] \in Seq(GotState)
        BY <1>2 DEF DataTypes
      <4>2. \A g \in GotState : g.key \in Nat
        BY <1>4 DEF GotState
      <4>3. QED
        BY <4>1, <4>2
    <3>6. \A i \in DOMAIN got[x] : got[x][i].key < h.ckey
      BY <1>4, <1>5, <3>4, <3>5
    <3>7. QED
      BY <1>5, <2>2, <3>1, <3>3, <3>4, <3>6 DEF GotOK
  <2>3. QED
    BY <2>1, <2>2
<1>7. /\ h.ckey \in head[x].ckey..KeyMax
      /\ got' \in [Xops -> Seq(GotState)] /\ GotOK(h, got'[x], answer[x], fe'[x])
  BY <1>1, <1>2, <1>4, <1>5, <1>6 DEF DataTypes
<1>8. \A n \in Nodes : WorkerGoes(x, n)
  BY <1>1 DEF WorkerGoes
<1>9. h.mask # {} /\ UNCHANGED <<fifo, clu, answer>>
  BY <1>1, <1>4, <1>5
<1>10. \A y \in Xops : y # x =>
          /\ fe'[y] = fe[y] /\ got'[y] = got[y]
          /\ \A n \in Nodes : /\ wk'[n].x = y <=> wk[n].x = y
                              /\ wk[n].x = y => wk'[n].pc = wk[n].pc
  BY <1>1
<1>11. QED
  BY <1>3, <1>5, <1>7, <1>8, <1>9, <1>10, CheckedData

\* A verdict goes to the frontend, or makes the worker the one to complete.
LEMMA ReturnData ==
    ASSUME OneMaster, AnswersFit, DataInv, UseInv, NEW x \in Xops, CollectReturn(x)
    PROVE  DataInv'
<1> DEFINE v == Verdict(x)
           err == IF v.err = "ESRCH" THEN "ENOENT" ELSE v.err
           k == LowKey(clu[x])
           next == IF k = KeyMax THEN k ELSE k + 1
           h1 == [head[x] EXCEPT !.pos = 0, !.ckey = next]
           r == [err |-> err, key |-> k, tid |-> v.tid]
<1>1. /\ AtCheck(x) /\ v.err # "EINPROGRESS" /\ ~Skips(x) /\ UNCHANGED <<fifo, clu, answer>>
      /\ got' = [got EXCEPT ![x] = Append(got[x], r)]
      /\ IF fe[x] = "collect"
         THEN /\ fe' = [fe EXCEPT ![x] = "ready"] /\ head' = [head EXCEPT ![x] = h1]
              /\ UNCHANGED wk
         ELSE /\ head' = [head EXCEPT ![x] = [h1 EXCEPT !.finished = TRUE, !.lock = 0]]
              /\ wk' = [wk EXCEPT ![head[x].lock].pc = "complete"]
              /\ UNCHANGED fe
  BY DEF CollectReturn, Run
<1>2. /\ HeadIs(head[x]) /\ DataOf(x) /\ DataTypes /\ fe \in [Xops -> FrontStates]
  BY HeadsAre DEF DataInv, UseInv, ControlOK
<1>3. /\ head[x].mask # {} /\ (fe[x] # "collect" => head[x].kind # "scan")
      /\ \A n \in Nodes : clu[x][n].chain.key >= head[x].ckey
      /\ k \in head[x].ckey..KeyMax /\ (k # KeyMax => k + 1 <= KeyMax)
      /\ clu[x] \in [Nodes -> Slot] /\ head[x].ckey \in Nat /\ KeyMax \in Nat
  BY <1>1, CollectorHas
<1>4. v = cluster_check(clu[x])
  BY <1>1 DEF Verdict, Result
<1>5. v.err \in Errors /\ v.tid \in 0..TidMax
  <2>1. \A n \in Nodes : clu[x][n].err \in {"0", "EIO"}
    BY <1>2 DEF DataOf, SlotOK
  <2>2. PICK M \in Nodes : Masters = {M}
    BY DEF OneMaster
  <2>3. QED
    BY <1>3, <1>4, <2>1, <2>2, CheckIs
<1> HIDE DEF v
<1>6. r \in GotState /\ r.err = err /\ r.key = k /\ r.tid = v.tid
  <2>1. err \in Errors /\ k \in 0..KeyMax
    BY <1>3, <1>5 DEF Errors
  <2> HIDE DEF err, k
  <2>2. QED
    BY <1>5, <2>1 DEF GotState
<1> HIDE DEF r, err, k
<1>7. /\ got' \in [Xops -> Seq(GotState)] /\ got'[x] = Append(got[x], r)
      /\ \A y \in Xops : y # x => got'[y] = got[y]
      /\ got[x] \in Seq(GotState)
  BY <1>1, <1>2, <1>6 DEF DataTypes
<1>8. /\ next \in k..k + 1 /\ next \in head[x].ckey..KeyMax
      /\ k # KeyMax => next = k + 1
  BY <1>3
<1> HIDE DEF next
<1>9. \E h : /\ head' = [head EXCEPT ![x] = h]
             /\ h.kind = head[x].kind /\ h.size = head[x].size /\ h.ckey = next
             /\ h.pos = 0 /\ h.mask = head[x].mask
  <2>1. /\ HeadIs(h1) /\ h1.kind = head[x].kind /\ h1.size = head[x].size /\ h1.ckey = next
        /\ h1.pos = 0 /\ h1.mask = head[x].mask
    BY <1>2 DEF HeadIs
  <2> DEFINE h2 == [h1 EXCEPT !.finished = TRUE, !.lock = 0]
  <2>2. head' = [head EXCEPT ![x] = h1] \/ head' = [head EXCEPT ![x] = h2]
    BY <1>1
  <2> HIDE DEF h1
  <2>3. /\ h2.kind = head[x].kind /\ h2.size = head[x].size /\ h2.ckey = next
        /\ h2.pos = 0 /\ h2.mask = head[x].mask
    BY <2>1 DEF HeadIs
  <2> HIDE DEF h2
  <2>4. QED
    BY <2>1, <2>2, <2>3
<1>10. PICK h : /\ head' = [head EXCEPT ![x] = h]
                /\ h.kind = head[x].kind /\ h.size = head[x].size /\ h.ckey = next
                /\ h.pos = 0 /\ h.mask = head[x].mask
  BY <1>9
<1>11. /\ \A n \in Nodes : WorkerGoes(x, n)
       /\ \A y \in Xops : y # x =>
             \A n \in Nodes : /\ wk'[n].x = y <=> wk[n].x = y
                              /\ wk[n].x = y => wk'[n].pc = wk[n].pc
  <2>1. CASE fe[x] = "collect"
    <3>1. wk' = wk
      BY <1>1, <2>1
    <3>2. QED
      BY <3>1 DEF WorkerGoes
  <2>2. CASE fe[x] # "collect"
    <3>1. PICK n : n = head[x].lock
      OBVIOUS
    <3>2. n \in Nodes /\ wk[n].x = x
      BY <1>1, <2>2, <3>1, LockHolder DEF AtCheck, Works
    <3>3. wk' = [wk EXCEPT ![n].pc = "complete"]
      BY <1>1, <2>2, <3>1
    <3>4. /\ wk'[n].pc = "complete"
          /\ \A m \in Nodes : /\ wk'[m].x = wk[m].x
                              /\ m # n => wk'[m].pc = wk[m].pc
      BY <3>2, <3>3, Moves DEF WorkerPCs
    <3>5. QED
      BY <3>2, <3>4 DEF WorkerGoes
  <2>3. QED
    BY <2>1, <2>2
<1>12. GotOK(h, got'[x], answer[x], fe'[x])
  <2>1. CASE h.kind # "scan"
    BY <2>1 DEF GotOK
  <2>2. CASE h.kind = "scan"
    <3> DEFINE g == got[x]
               g2 == got'[x]
               a == answer[x]
               n == Len(g) + 1
    <3>1. head[x].kind = "scan" /\ fe[x] = "collect" /\ fe'[x] = "ready"
      BY <1>1, <1>2, <1>3, <1>10, <2>2
    <3>2. GotOK(head[x], g, a, "collect")
      BY <1>2, <3>1 DEF DataOf
    <3>3. /\ \A i, j \in DOMAIN g : i < j => g[i].key < g[j].key
          /\ Given(g) = AgreedBelow(a, head[x].ckey)
          /\ \A i \in DOMAIN g : g[i].err = "0" /\ g[i].key < head[x].ckey
      BY <3>1, <3>2 DEF GotOK
    <3>4. /\ AgreedBelow(a, k) = AgreedBelow(a, head[x].ckey)
          /\ IF k = KeyMax THEN v.err \in {"ENOENT", "EIO"}
             ELSE \/ v.err = "ESRCH"
                  \/ v.err = "EIO"
                  \/ /\ v.err = "0"
                     /\ AgreedBelow(a, k + 1) = AgreedBelow(a, head[x].ckey) \cup {<<k, v.tid>>}
      <4>1. /\ HeadOK(head[x]) /\ AnswerOK(answer[x])
            /\ \A m \in Nodes : SlotOK(head[x], fifo[x][m], clu[x][m], answer[x][m])
            /\ fifo[x] \in [Nodes -> FifoState]
        BY <1>2 DEF DataOf, DataTypes
      <4>2. cluster_check(clu[x]).err # "EINPROGRESS"
        BY <1>1, <1>4
      <4>3. QED
        BY <1>3, <1>4, <3>1, <4>1, <4>2, VerdictIs DEF k
    <3>5. k # KeyMax => v.err # "ESRCH"
      BY <1>1 DEF Skips, v, k
    <3>6. /\ g2 = Append(g, r) /\ g \in Seq(GotState) /\ Len(g) \in Nat
          /\ Len(g2) = n /\ DOMAIN g2 = 1..n /\ DOMAIN g = 1..Len(g)
          /\ g2[n] = r /\ \A i \in 1..Len(g) : g2[i] = g[i]
      BY <1>6, <1>7
    <3>7. /\ err # "0" => Given(g2) = Given(g)
          /\ err = "0" => Given(g2) = Given(g) \cup {<<k, v.tid>>}
      <4> DEFINE I(s) == {j \in DOMAIN s : s[j].err = "0"}
      <4>1. I(g2) = I(g) \cup (IF err = "0" THEN {n} ELSE {})
        BY <1>6, <3>6
      <4>2. Given(g2) = {<<g2[i].key, g2[i].tid>> : i \in I(g2)}
            /\ Given(g) = {<<g[i].key, g[i].tid>> : i \in I(g)}
        BY DEF Given
      <4>3. \A i \in I(g) : g2[i] = g[i]
        BY <3>6
      <4>4. g2[n].key = k /\ g2[n].tid = v.tid
        BY <1>6, <3>6
      <4> HIDE DEF I, g2, n, g
      <4>5. {<<g2[i].key, g2[i].tid>> : i \in I(g)} = {<<g[i].key, g[i].tid>> : i \in I(g)}
        BY <4>3
      <4>6. CASE err # "0"
        <5>1. I(g2) = I(g)
          BY <4>1, <4>6
        <5>2. QED
          BY <4>2, <4>5, <4>6, <5>1
      <4>7. CASE err = "0"
        <5>1. I(g2) = I(g) \cup {n}
          BY <4>1, <4>7
        <5>2. Given(g2) = {<<g2[i].key, g2[i].tid>> : i \in I(g)}
                          \cup {<<g2[n].key, g2[n].tid>>}
          BY <4>2, <5>1
        <5>3. QED
          BY <4>2, <4>4, <4>5, <4>7, <5>2
      <4>8. QED
        BY <4>6, <4>7
    <3>8. \A i \in DOMAIN g : g[i].key \in Nat /\ g[i].key < k
      <4>1. \A e \in GotState : e.key \in Nat
        BY <1>3 DEF GotState
      <4>2. \A i \in DOMAIN g : g[i].key \in Nat
        BY <3>6, <4>1
      <4>3. QED
        BY <1>3, <3>3, <4>2
    <3> HIDE DEF g2, g, a, n
    <3>9. \A i, j \in DOMAIN g2 : i < j => g2[i].key < g2[j].key
      <4> SUFFICES ASSUME NEW i \in 1..n, NEW j \in 1..n, i < j
                   PROVE  g2[i].key < g2[j].key
        BY <3>6
      <4>1. i \in 1..Len(g) /\ (j \in 1..Len(g) \/ j = n)
        BY <3>6 DEF n
      <4>2. QED
        BY <1>6, <3>3, <3>6, <3>8, <4>1
    <3>10. CASE err = "0"
      <4>1. k # KeyMax /\ v.err = "0"
        BY <3>4, <3>10 DEF err
      <4>2. Given(g2) = AgreedBelow(a, h.ckey) /\ h.ckey = k + 1
        BY <1>8, <1>10, <3>3, <3>4, <3>7, <3>10, <4>1
      <4>3. \A i \in DOMAIN g2 : g2[i].err = "0" /\ g2[i].key < h.ckey
        <5>1. ASSUME NEW i \in 1..n
              PROVE  g2[i].err = "0" /\ g2[i].key < h.ckey
          <6>1. i \in 1..Len(g) \/ i = n
            BY <3>6 DEF n
          <6>2. QED
            BY <1>3, <1>6, <3>3, <3>6, <3>8, <3>10, <4>2, <6>1
        <5>2. QED
          BY <3>6, <5>1
      <4>4. g2[Len(g2)].err = "0" /\ g2[Len(g2)].key + 1 = h.ckey /\ g2 # <<>>
        BY <1>6, <3>6, <3>10, <4>2 DEF n
      <4>5. QED
        BY <3>1, <3>9, <4>2, <4>3, <4>4 DEF GotOK, g2, a
    <3>11. CASE err # "0"
      <4>1. Given(g2) = AgreedBelow(a, k) /\ g2[Len(g2)].key = k /\ g2[Len(g2)].err = err
        BY <1>6, <3>3, <3>4, <3>6, <3>7, <3>11
      <4>2. err = "ENOENT" => k = KeyMax
        BY <3>4, <3>5 DEF err
      <4>3. g2 # <<>>
        BY <3>6 DEF n
      <4>4. QED
        BY <3>1, <3>9, <3>11, <4>1, <4>2, <4>3 DEF GotOK, g2, a
    <3>12. QED
      BY <3>10, <3>11 DEF g2, a
  <2>3. QED
    BY <2>1, <2>2
<1>13. \A y \in Xops : y # x => fe'[y] = fe[y]
  BY <1>1, <1>2
<1>14. h.mask # {} /\ h.ckey \in head[x].ckey..KeyMax
  BY <1>3, <1>8, <1>10
<1>15. \A y \in Xops : y # x =>
          /\ fe'[y] = fe[y] /\ got'[y] = got[y]
          /\ \A n \in Nodes : /\ wk'[n].x = y <=> wk[n].x = y
                              /\ wk[n].x = y => wk'[n].pc = wk[n].pc
  BY <1>7, <1>11, <1>13
<1>16. QED
  BY <1>1, <1>7, <1>10, <1>11, <1>12, <1>14, <1>15, CheckedData

-----------------------------------------------------------------------------
\* Nothing is collected at the start.
LEMMA DataInit == XopInit => DataInv
<1> SUFFICES ASSUME XopInit  PROVE DataInv
  OBVIOUS
<1>1. /\ fifo = [x \in Xops |-> [n \in Nodes |-> NewFifo]]
      /\ clu = [x \in Xops |-> [n \in Nodes |-> EmptySlot]]
      /\ answer = [x \in Xops |-> [n \in Nodes |-> <<>>]] /\ got = [x \in Xops |-> <<>>]
      /\ head = [x \in Xops |-> Fresh("scan", {})] /\ fe = [x \in Xops |-> "none"]
  BY DEF XopInit
<1>2. \A n \in Nodes : wk[n].x = NoXop
  BY DEF XopInit
<1>3. DataTypes
  <2>1. <<>> \in Seq(Chain) /\ <<>> \in Seq(GotState)
    OBVIOUS
  <2>2. QED
    BY <1>1, <2>1, FreeIs DEF DataTypes
<1>4. ASSUME NEW x \in Xops  PROVE DataOf(x)
  <2>1. /\ head[x] = Fresh("scan", {}) /\ answer[x] = [n \in Nodes |-> <<>>]
        /\ fe[x] = "none" /\ got[x] = <<>>
        /\ \A n \in Nodes : fifo[x][n] = NewFifo /\ clu[x][n] = EmptySlot
    BY <1>1
  <2>2. HeadOK(head[x]) /\ AnswerOK(answer[x]) /\ head[x].pos = 0 /\ head[x].mask = {}
        /\ GotOK(head[x], got[x], answer[x], fe[x])
    BY <2>1, FreeIs
  <2>3. \A n \in Nodes : /\ FifoOK(head[x], fifo[x][n], answer[x][n])
                         /\ SlotOK(head[x], fifo[x][n], clu[x][n], answer[x][n])
    BY <2>1, FreeIs
  <2>4. PassOK(head[x], clu[x]) /\ \A n \in Nodes : FeederOK(x, n)
    BY <1>2, <2>2, NodesAre, XopAssumption DEF PassOK, FeederOK
  <2>5. QED
    BY <2>1, <2>2, <2>3, <2>4 DEF DataOf, Rested
<1>5. QED
  BY <1>3, <1>4 DEF DataInv

\* Every step keeps what the collector has read, and what it has given.
LEMMA DataStep ==
    ASSUME OneMaster, AnswersFit, DataInv, UseInv, [XopNext]_xopVars
    PROVE  DataInv'
<1>1. CASE UNCHANGED xopVars
  <2>1. \A y \in Xops : FrontGoes(y) /\ \A n \in Nodes : WorkerGoes(y, n)
    BY <1>1 DEF xopVars, FrontGoes, WorkerGoes
  <2>2. UNCHANGED <<fifo, clu, answer, got, head>>
    BY <1>1 DEF xopVars
  <2>3. QED
    BY <2>1, <2>2, StepData
<1>2. ASSUME NEW x \in Xops, NEW kind \in XopKinds[x], xop_start(x, kind)
      PROVE  DataInv'
  <2>1. kind \in Kinds
    BY XopAssumption
  <2>2. QED
    BY <1>2, <2>1, StartData
<1>3. ASSUME NEW x \in Xops, Collect(x)
      PROVE  DataInv'
  BY <1>3, PassData, SlotData, SkipData, ReturnData DEF Collect
<1>4. ASSUME NEW x \in Xops, CollectTimeout(x) \/ FrontAgain(x) \/ FrontRetire(x)
      PROVE  DataInv'
  BY <1>4, PassData, LeaveData
<1>5. ASSUME NEW n \in Nodes, Worker(n) \/ WorkerTimeout(n)
      PROVE  DataInv'
  BY <1>5, IdleData, FeedData, BufferData, DoneData DEF Worker
<1>6. QED
  BY <1>1, <1>2, <1>3, <1>4, <1>5 DEF XopNext

\* The types of XOPs.
LEMMA TypesAre ==
    ASSUME UseInv, DataInv
    PROVE  XopTypeOK
<1>1. /\ ControlOK /\ DataTypes /\ \A x \in Xops : HeadOK(head[x])
  BY DEF UseInv, DataInv, DataOf
<1>2. head \in [Xops -> HeadState]
  <2>1. ASSUME NEW x \in Xops  PROVE head[x] \in HeadState
    <3>1. /\ HeadIs(head[x]) /\ HeadOK(head[x]) /\ FifoSize \in Nat /\ KeyMax \in Nat
      BY <1>1, XopAssumption, KeyBounds DEF ControlOK
    <3>2. head[x].size \in Nat /\ head[x].ckey \in 0..KeyMax /\ head[x].pos \in Nat
      BY <3>1 DEF HeadOK
    <3>3. QED
      BY <3>1, <3>2 DEF HeadIs, HeadState
  <2>2. QED
    BY <1>1, <2>1 DEF ControlOK
<1>3. QED
  BY <1>1, <1>2 DEF ControlOK, DataTypes, XopTypeOK, GotState, FrontStates

\* What the frontend has been given is what the masters agree on, up to where
\* the scan has come.
LEMMA DataCollects ==
    ASSUME UseInv, DataInv
    PROVE  CollectsQuorum
<1>1. XopTypeOK
  BY TypesAre
<1>2. ASSUME NEW x \in Xops, fe[x] = "ready", head[x].kind = "scan"
      PROVE  LET all == QuorumKeys(answer[x]) IN
             /\ Delivered(x) \subseteq all
             /\ \A i, j \in DOMAIN got[x] : i < j => got[x][i].key < got[x][j].key
             /\ \A kt \in all :
                   \/ kt \in Delivered(x) \/ kt[1] > Last(got[x]).key
                   \/ kt[1] = Last(got[x]).key /\ Last(got[x]).err # "0"
             /\ Last(got[x]).err = "ENOENT" => Delivered(x) = all
  <2> DEFINE g == got[x]
             all == QuorumKeys(answer[x])
             last == g[Len(g)]
  <2>1. /\ GotOK(head[x], g, answer[x], "ready") /\ HeadOK(head[x])
        /\ g \in Seq(GotState) /\ AnswerOK(answer[x])
    BY <1>2 DEF DataInv, DataOf, DataTypes
  <2>2. /\ Last(g) = last /\ Delivered(x) = Given(g)
    BY DEF Last, Delivered, Given
  <2>3. /\ \A i, j \in DOMAIN g : i < j => g[i].key < g[j].key
        /\ g # <<>>
        /\ IF last.err # "0"
           THEN /\ Given(g) = AgreedBelow(answer[x], last.key)
                /\ last.err = "ENOENT" => last.key = KeyMax
           ELSE /\ Given(g) = AgreedBelow(answer[x], head[x].ckey)
                /\ last.key + 1 = head[x].ckey
    BY <1>2, <2>1 DEF GotOK
  <2>4. last \in GotState /\ last.key \in Nat /\ head[x].ckey \in Nat
    <3>1. Len(g) \in 1..Len(g)
      BY <2>1, <2>3
    <3>2. last \in GotState
      BY <2>1, <3>1
    <3>3. QED
      BY <2>1, <3>2, KeyBounds DEF GotState, HeadOK
  <2>5. \A kt \in all : kt[1] \in Nat /\ kt[1] < KeyMax
    BY KeyBounds DEF QuorumKeys
  <2>6. \A key : AgreedBelow(answer[x], key) = {kt \in all : kt[1] < key}
    BY DEF AgreedBelow
  <2> HIDE DEF g, all, last
  <2>7. /\ Given(g) \subseteq all
        /\ \A kt \in all : \/ kt \in Given(g) \/ kt[1] > last.key
                           \/ kt[1] = last.key /\ last.err # "0"
        /\ last.err = "ENOENT" => Given(g) = all
    <3>1. CASE last.err # "0"
      <4>1. Given(g) = {kt \in all : kt[1] < last.key}
        BY <2>3, <2>6, <3>1
      <4>2. \A kt \in all : kt[1] < last.key \/ kt[1] = last.key \/ kt[1] > last.key
        BY <2>4, <2>5
      <4>3. last.err = "ENOENT" => \A kt \in all : kt[1] < last.key
        BY <2>3, <2>5, <3>1
      <4> HIDE DEF all, last
      <4>4. QED
        BY <3>1, <4>1, <4>2, <4>3
    <3>2. CASE last.err = "0"
      <4>1. Given(g) = {kt \in all : kt[1] < last.key + 1}
        BY <2>3, <2>6, <3>2
      <4>2. \A kt \in all : kt[1] < last.key + 1 \/ kt[1] > last.key
        BY <2>4, <2>5
      <4>3. QED
        BY <3>2, <4>1, <4>2
    <3>3. QED
      BY <3>1, <3>2
  <2>8. QED
    BY <2>2, <2>3, <2>7 DEF g, all
<1>3. QED
  BY <1>1, <1>2 DEF CollectsQuorum

\* With one master and fifos that need not grow once they have wrapped, the
\* collector reads and keeps what the nodes have fed.
LEMMA CollectInv ==
    ASSUME OneMaster, AnswersFit
    PROVE  XopSpec => [](UseInv /\ DataInv)
<1>1. UseInv /\ DataInv /\ [XopNext]_xopVars => DataInv'
  BY DataStep
<1>2. XopInit => DataInv
  BY DataInit
<1>3. QED
  BY <1>1, <1>2, Invariance, PTL DEF XopSpec

\* hammer2_xop_collect and hammer2_cluster_check of a mount with one master, as
\* pfs_nmasters has it: whatever slaves there are and in whatever order the
\* nodes answer, a scan returns the keys of the master, each with its
\* modify_tid, in order and none left out.
THEOREM CollectsAgreed ==
    ASSUME OneMaster, AnswersFit
    PROVE  XopSpec => []CollectsQuorum
  BY CollectInv, DataCollects, PTL

\* hammer2_xop_feed and the fifos: what is fed and not yet taken is there, in
\* order, also when a fifo grows before it has wrapped.
THEOREM FifosKeep ==
    ASSUME OneMaster, AnswersFit
    PROVE  XopSpec => []FifoKeepsAnswers
<1>1. DataInv => FifoKeepsAnswers
  <2> SUFFICES ASSUME DataInv, NEW x \in Xops, NEW n \in Nodes,
                      NEW i \in fifo[x][n].ri .. fifo[x][n].wi - 1
               PROVE  LET slot == (i % head[x].size) + 1
                      IN /\ slot <= Len(fifo[x][n].array)
                         /\ fifo[x][n].array[slot] = Response(x, n, i)
    BY DEF FifoKeepsAnswers
  <2>1. FifoOK(head[x], fifo[x][n], answer[x][n])
    BY DEF DataInv, DataOf
  <2>2. Said(head[x], answer[x][n], i) = Response(x, n, i)
    BY DEF Said, Response
  <2>3. QED
    BY <2>1, <2>2 DEF FifoOK
<1>2. QED
  BY <1>1, CollectInv, PTL

==============================================================================
