---------------------------- MODULE ClusterProofs ----------------------------
(***************************************************************************)
(* Theorems about what nodes and services keep alike: the synchronisation  *)
(* of a slave (Synchro), for every number of inodes and blocks: without    *)
(* writes during a pass, an inode with the master's modify_tid has the     *)
(* master's contents; and the spanning tree (Span): in every web of        *)
(* services, relays follow the best link and streams carry them to the     *)
(* other end.                                                              *)
(***************************************************************************)
EXTENDS Synchro, Span, Counting

-----------------------------------------------------------------------------
(* The synchronisation of a slave: what a pass has done, and the modify_tid    *)
(* that every record of a node bears.                                         *)

SlaveNode == [root : Nat, inode : [Inodes -> InodeRec \cup {Absent}]]
ThreadPlaces == {"idle", "scan", "list", "final", "synced"}
ThreadState == [at : ThreadPlaces, ip : Inodes \cup {Root}, key : Nat,
                sync_tid : Nat, needrescan : BOOLEAN]
Everything == Inodes \X (Blocks \cup {0})

SyncTypes ==
    /\ master \in SlaveNode /\ slave \in SlaveNode /\ tid \in Nat
    /\ update \subseteq Everything
    /\ thr \in ThreadState /\ list \in Seq(Inodes)

Both(i) == master.inode[i] # Absent /\ slave.inode[i] # Absent

\* No modify_tid is ahead of the transactions, and only what is there is updated.
TidsInv ==
    \A i \in Inodes :
        /\ master.inode[i] # Absent =>
              /\ 1 <= master.inode[i].tid /\ master.inode[i].tid <= tid
              /\ \A b \in Blocks : master.inode[i].data[b] <= tid
        /\ slave.inode[i] # Absent =>
              /\ slave.inode[i].tid <= tid
              /\ \A b \in Blocks : slave.inode[i].data[b] <= tid
        /\ slave.inode[i] = Absent => \A x \in update : x[1] # i

\* What a scan has passed is the same on both nodes; an inode on the list is
\* there on both.
Scanning(ip) == thr.at \in {"scan", "final"} /\ thr.ip = ip
RootScan ==
    /\ thr.key \in 1..NumInodes + 1
    /\ thr.at = "final" => thr.key = NumInodes + 1 /\ ~thr.needrescan
    /\ ~thr.needrescan => list = << >>
    /\ \A i \in Inodes : i < thr.key =>
          /\ master.inode[i] = Absent <=> slave.inode[i] = Absent
          /\ ~thr.needrescan /\ Both(i) => master.inode[i].tid = slave.inode[i].tid
InodeScan(i) ==
    /\ Both(i) /\ list # << >> /\ ~thr.needrescan
    /\ thr.sync_tid = master.inode[i].tid
    /\ thr.key \in 1..NumBlocks + 1
    /\ thr.at = "final" => thr.key = NumBlocks + 1
    /\ \A b \in Blocks : b < thr.key => slave.inode[i].data[b] = master.inode[i].data[b]
ThreadInv ==
    /\ thr.at = "idle" => list = << >>
    /\ thr.at # "idle" => \A k \in DOMAIN list : Both(list[k])
    /\ thr.at = "synced" => list # << >>
    /\ Scanning(Root) => RootScan
    /\ \A i \in Inodes : Scanning(i) => InodeScan(i)

\* An inode that bears, now or after its flush, the modify_tid that the master's
\* has or is about to have, has the master's contents.
Comes(i) == Raised(master, i, Everything)
AgreeOf(i) ==
    Both(i) /\ ~Scanning(i) =>
        /\ slave.inode[i].tid = Comes(i) => Contents(slave, i) = Contents(master, i)
        /\ Raised(slave, i, update) = Comes(i) => Contents(slave, i) = Contents(master, i)
AgreeInv == \A i \in Inodes : AgreeOf(i)

SyncInv == SyncTypes /\ TidsInv /\ ThreadInv /\ AgreeInv

-----------------------------------------------------------------------------
\* The parts of an inode.
LEMMA InodeFacts ==
    ASSUME NEW node \in SlaveNode, NEW i \in Inodes
    PROVE  /\ node.root \in Nat /\ node.inode \in [Inodes -> InodeRec \cup {Absent}]
           /\ node.inode[i] \in InodeRec \cup {Absent} /\ Absent \notin InodeRec
           /\ node.inode[i] # Absent =>
                 /\ node.inode[i] \in InodeRec /\ node.inode[i].tid \in Nat
                 /\ node.inode[i].meta \in Nat /\ node.inode[i].data \in [Blocks -> Nat]
                 /\ \A b \in Blocks : node.inode[i].data[b] \in Nat
<1>1. /\ node.root \in Nat /\ node.inode \in [Inodes -> InodeRec \cup {Absent}]
      /\ node.inode[i] \in InodeRec \cup {Absent}
  BY DEF SlaveNode
<1>2. Absent \notin InodeRec
  BY SynchroAssumption
<1>3. \A r \in InodeRec : /\ r.tid \in Nat /\ r.meta \in Nat /\ r.data \in [Blocks -> Nat]
                          /\ \A b \in Blocks : r.data[b] \in Nat
  BY DEF InodeRec
<1>4. QED
  BY <1>1, <1>2, <1>3

\* The largest modify_tid of an inode and of the blocks to be flushed.
LEMMA RaisedIs ==
    ASSUME NEW node \in SlaveNode, NEW i \in Inodes, node.inode[i] # Absent, NEW S,
           NEW n \in Nat, node.inode[i].tid <= n,
           \A b \in Blocks : node.inode[i].data[b] <= n
    PROVE  /\ Raised(node, i, S) \in Nat /\ Raised(node, i, S) <= n
           /\ node.inode[i].tid <= Raised(node, i, S)
           /\ \A b \in Blocks : <<i, b>> \in S => node.inode[i].data[b] <= Raised(node, i, S)
           /\ \/ Raised(node, i, S) = node.inode[i].tid
              \/ \E b \in Blocks : <<i, b>> \in S /\ Raised(node, i, S) = node.inode[i].data[b]
<1> DEFINE Ids == {node.inode[i].data[b] : b \in {x \in Blocks : <<i, x>> \in S}}
                      \cup {node.inode[i].tid}
           r == Raised(node, i, S)
<1>1. node.inode[i].tid \in Nat /\ \A b \in Blocks : node.inode[i].data[b] \in Nat
  BY InodeFacts
<1>2. Ids \in SUBSET (0..n) /\ Ids # {}
  <2>1. node.inode[i].tid \in 0..n /\ \A b \in Blocks : node.inode[i].data[b] \in 0..n
    BY <1>1
  <2>2. \A u \in Ids : u \in 0..n
    BY <2>1
  <2>3. Ids # {}
    OBVIOUS
  <2> HIDE DEF Ids
  <2>4. QED
    BY <2>2, <2>3
<1>3. r = CHOOSE t \in Ids : \A u \in Ids : u <= t
  BY DEF Raised
<1> HIDE DEF r
<1>4. \E t \in Ids : \A u \in Ids : u <= t
  <2> HIDE DEF Ids
  <2>1. QED
    BY <1>2, GreatestNat
<1>5. r \in Ids /\ \A u \in Ids : u <= r
  <2> HIDE DEF Ids
  <2>1. QED
    BY <1>3, <1>4
<1>6. r \in 0..n
  BY <1>2, <1>5
<1>7. /\ r = node.inode[i].tid \/ \E b \in Blocks : <<i, b>> \in S /\ r = node.inode[i].data[b]
      /\ node.inode[i].tid <= r
      /\ \A b \in Blocks : <<i, b>> \in S => node.inode[i].data[b] <= r
  <2>1. /\ \A u \in Ids : u = node.inode[i].tid
                          \/ \E b \in Blocks : <<i, b>> \in S /\ u = node.inode[i].data[b]
        /\ node.inode[i].tid \in Ids
        /\ \A b \in Blocks : <<i, b>> \in S => node.inode[i].data[b] \in Ids
    OBVIOUS
  <2> HIDE DEF Ids
  <2>2. QED
    BY <1>5, <2>1
<1>8. r = Raised(node, i, S) /\ r \in Nat /\ r <= n
  BY <1>6 DEF r
<1>9. QED
  BY <1>7, <1>8

\* ... is the one such number.
LEMMA RaisedOnly ==
    ASSUME NEW node \in SlaveNode, NEW i \in Inodes, node.inode[i] # Absent, NEW S,
           NEW t \in Nat, node.inode[i].tid <= t,
           \A b \in Blocks : <<i, b>> \in S => node.inode[i].data[b] <= t,
           \/ t = node.inode[i].tid
           \/ \E b \in Blocks : <<i, b>> \in S /\ t = node.inode[i].data[b]
    PROVE  Raised(node, i, S) = t
<1> DEFINE Ids == {node.inode[i].data[b] : b \in {x \in Blocks : <<i, x>> \in S}}
                      \cup {node.inode[i].tid}
<1>1. node.inode[i].tid \in Nat /\ \A b \in Blocks : node.inode[i].data[b] \in Nat
  BY InodeFacts
<1>2. t \in Ids /\ \A u \in Ids : u <= t /\ u \in Nat
  BY <1>1
<1>3. Raised(node, i, S) = CHOOSE v \in Ids : \A u \in Ids : u <= v
  BY DEF Raised
<1> HIDE DEF Ids
<1>4. \A v \in Ids : (\A u \in Ids : u <= v) => v = t
  BY <1>2
<1>5. QED
  BY <1>2, <1>3, <1>4

\* It depends on the inode's modify_tid and on its records only.
LEMMA RaisedSame ==
    ASSUME NEW node, NEW other, NEW i, NEW S, NEW T,
           node.inode[i].tid = other.inode[i].tid, node.inode[i].data = other.inode[i].data,
           \A b \in Blocks : <<i, b>> \in S <=> <<i, b>> \in T
    PROVE  Raised(node, i, S) = Raised(other, i, T)
<1>1. {x \in Blocks : <<i, x>> \in S} = {x \in Blocks : <<i, x>> \in T}
  OBVIOUS
<1>2. QED
  BY <1>1 DEF Raised

\* The flush changes the modify_tid of what it has touched, and nothing else.
LEMMA FlushedIs ==
    ASSUME NEW node \in SlaveNode, NEW S, NEW n \in Nat, node.root <= n,
           \A i \in Inodes : node.inode[i] # Absent =>
              node.inode[i].tid <= n /\ \A b \in Blocks : node.inode[i].data[b] <= n
    PROVE  /\ Flushed(node, S) \in SlaveNode
           /\ \A i \in Inodes :
                 /\ Flushed(node, S).inode[i] = Absent <=> node.inode[i] = Absent
                 /\ node.inode[i] # Absent =>
                       /\ Flushed(node, S).inode[i].tid =
                             IF \E x \in S : x[1] = i THEN Raised(node, i, S)
                             ELSE node.inode[i].tid
                       /\ Flushed(node, S).inode[i].meta = node.inode[i].meta
                       /\ Flushed(node, S).inode[i].data = node.inode[i].data
<1> DEFINE f == Flushed(node, S)
           Up == {Raised(node, i, S) : i \in Touched(node, S)} \cup {node.root}
           New(i) == [node.inode[i] EXCEPT !.tid = Raised(node, i, S)]
<1>1. \A i \in Touched(node, S) : i \in Inodes /\ node.inode[i] # Absent
  BY DEF Touched
<1>2. \A i \in Inodes : node.inode[i] # Absent =>
         Raised(node, i, S) \in Nat /\ Raised(node, i, S) <= n
  BY RaisedIs
<1>3. node.root \in Nat
  BY DEF SlaveNode
<1>4. Up \in SUBSET (0..n) /\ Up # {}
  BY <1>1, <1>2, <1>3
<1>5. \E t \in Up : \A u \in Up : u <= t
  <2> HIDE DEF Up
  <2>1. QED
    BY <1>4, GreatestNat
<1>6. (CHOOSE t \in Up : \A u \in Up : u <= t) \in Nat
  <2>1. \A u \in Up : u \in Nat
    BY <1>4
  <2> HIDE DEF Up
  <2>2. (CHOOSE t \in Up : \A u \in Up : u <= t) \in Up
    BY <1>5
  <2>3. QED
    BY <2>1, <2>2
<1>7. \A i \in Inodes : node.inode[i] # Absent =>
         /\ New(i) \in InodeRec /\ New(i).tid = Raised(node, i, S)
         /\ New(i).meta = node.inode[i].meta /\ New(i).data = node.inode[i].data
  <2> SUFFICES ASSUME NEW i \in Inodes, node.inode[i] # Absent
               PROVE  /\ New(i) \in InodeRec /\ New(i).tid = Raised(node, i, S)
                      /\ New(i).meta = node.inode[i].meta /\ New(i).data = node.inode[i].data
    OBVIOUS
  <2>1. node.inode[i] \in InodeRec /\ Raised(node, i, S) \in Nat
    BY <1>2, InodeFacts
  <2>2. QED
    BY <2>1 DEF InodeRec
<1>8. f = [root |-> CHOOSE t \in Up : \A u \in Up : u <= t,
           inode |-> [i \in Inodes |-> IF i \in Touched(node, S) THEN New(i)
                                       ELSE node.inode[i]]]
  BY DEF Flushed
<1> HIDE DEF f, New, Up
<1>9. \A i \in Inodes : f.inode[i] = IF i \in Touched(node, S) THEN New(i) ELSE node.inode[i]
  BY <1>8
<1>10. \A i \in Inodes : f.inode[i] \in InodeRec \cup {Absent}
  BY <1>1, <1>7, <1>9, InodeFacts
<1>11. f.inode = [i \in Inodes |-> f.inode[i]] /\ f = [root |-> f.root, inode |-> f.inode]
         /\ f.root \in Nat
  BY <1>6, <1>8
<1>12. f \in SlaveNode
  BY <1>10, <1>11 DEF SlaveNode
<1>13. \A i \in Inodes : i \in Touched(node, S) <=>
          node.inode[i] # Absent /\ \E x \in S : x[1] = i
  BY DEF Touched
<1>14. \A i \in Inodes : node.inode[i] # Absent => New(i) # Absent
  BY <1>7, SynchroAssumption
<1>15. ASSUME NEW i \in Inodes
       PROVE  /\ f.inode[i] = Absent <=> node.inode[i] = Absent
              /\ node.inode[i] # Absent =>
                       /\ f.inode[i].tid =
                             IF \E x \in S : x[1] = i THEN Raised(node, i, S)
                             ELSE node.inode[i].tid
                       /\ f.inode[i].meta = node.inode[i].meta
                       /\ f.inode[i].data = node.inode[i].data
  BY <1>7, <1>9, <1>13, <1>14
<1>16. QED
  BY <1>12, <1>15 DEF f

\* A node with one inode changed.
WithInode(node, i, r) == [node EXCEPT !.inode[i] = r]

\* The other inodes are left alone.
LEMMA InodeWith ==
    ASSUME NEW node \in SlaveNode, NEW i \in Inodes, NEW r \in InodeRec \cup {Absent},
           NEW m, m = [node EXCEPT !.inode[i] = r]
    PROVE  /\ m \in SlaveNode /\ m.root = node.root /\ m.inode[i] = r
           /\ \A j \in Inodes : j # i => m.inode[j] = node.inode[j]
<1>1. node.inode \in [Inodes -> InodeRec \cup {Absent}]
  BY DEF SlaveNode
<1>2. m = [node EXCEPT !.inode = [node.inode EXCEPT ![i] = r]]
  OBVIOUS
<1> DEFINE g == [node.inode EXCEPT ![i] = r]
<1>3. /\ g \in [Inodes -> InodeRec \cup {Absent}] /\ g[i] = r
      /\ \A j \in Inodes : j # i => g[j] = node.inode[j]
  BY <1>1
<1>4. m = [node EXCEPT !.inode = g]
  BY <1>2
<1> HIDE DEF g
<1>5. m \in SlaveNode /\ m.root = node.root /\ m.inode = g
  BY <1>3, <1>4 DEF SlaveNode
<1>6. QED
  BY <1>3, <1>5

\* ... with that node named.
LEMMA ChangedInode ==
    ASSUME NEW node \in SlaveNode, NEW i \in Inodes, NEW r \in InodeRec
    PROVE  /\ WithInode(node, i, r) \in SlaveNode /\ WithInode(node, i, r).inode[i] = r
           /\ \A j \in Inodes : j # i => WithInode(node, i, r).inode[j] = node.inode[j]
<1> DEFINE m == WithInode(node, i, r)
           g == [node.inode EXCEPT ![i] = r]
<1>1. node.inode \in [Inodes -> InodeRec \cup {Absent}]
  BY DEF SlaveNode
<1>2. /\ g \in [Inodes -> InodeRec \cup {Absent}] /\ g[i] = r
      /\ \A j \in Inodes : j # i => g[j] = node.inode[j]
  BY <1>1
<1>3. m = [node EXCEPT !.inode = g]
  BY DEF WithInode
<1> HIDE DEF m, g
<1>4. m \in SlaveNode /\ m.inode = g
  BY <1>2, <1>3 DEF SlaveNode
<1>5. QED
  BY <1>2, <1>4 DEF m

\* The bounds of what an inode and its records will bring.
LEMMA Bounds ==
    ASSUME SyncInv, NEW i \in Inodes
    PROVE  /\ tid \in Nat
           /\ master.inode[i] # Absent =>
                 /\ Comes(i) \in Nat /\ 1 <= Comes(i) /\ Comes(i) <= tid
                 /\ master.inode[i].tid <= Comes(i)
                 /\ \A b \in Blocks : master.inode[i].data[b] <= Comes(i)
           /\ slave.inode[i] # Absent =>
                 /\ slave.inode[i].tid \in Nat /\ slave.inode[i].tid <= tid
                 /\ Raised(slave, i, update) \in Nat /\ Raised(slave, i, update) <= tid
<1>1. SyncTypes /\ TidsInv
  BY DEF SyncInv
<1>2. tid \in Nat /\ master \in SlaveNode /\ slave \in SlaveNode
  BY <1>1 DEF SyncTypes
<1>3. ASSUME master.inode[i] # Absent
      PROVE  /\ Comes(i) \in Nat /\ 1 <= Comes(i) /\ Comes(i) <= tid
             /\ master.inode[i].tid <= Comes(i)
             /\ \A b \in Blocks : master.inode[i].data[b] <= Comes(i)
  <2>1. /\ 1 <= master.inode[i].tid /\ master.inode[i].tid <= tid
        /\ \A b \in Blocks : master.inode[i].data[b] <= tid
    BY <1>1, <1>3 DEF TidsInv
  <2>2. \A b \in Blocks : <<i, b>> \in Everything
    BY DEF Everything
  <2>3. master.inode[i].tid \in Nat
    BY <1>2, <1>3, InodeFacts
  <2> DEFINE c == Raised(master, i, Everything)
  <2>4. /\ c \in Nat /\ c <= tid /\ master.inode[i].tid <= c
        /\ \A b \in Blocks : master.inode[i].data[b] <= c
    BY <1>2, <1>3, <2>1, <2>2, RaisedIs
  <2> HIDE DEF c
  <2>5. QED
    BY <2>1, <2>3, <2>4 DEF c, Comes
<1>4. ASSUME slave.inode[i] # Absent
      PROVE  /\ slave.inode[i].tid \in Nat /\ slave.inode[i].tid <= tid
             /\ Raised(slave, i, update) \in Nat /\ Raised(slave, i, update) <= tid
  <2>1. /\ slave.inode[i].tid <= tid
        /\ \A b \in Blocks : slave.inode[i].data[b] <= tid
    BY <1>1, <1>4 DEF TidsInv
  <2>2. QED
    BY <1>2, <1>4, <2>1, RaisedIs, InodeFacts
<1>5. QED
  BY <1>2, <1>3, <1>4

\* A change of an inode of the master between two passes: its transaction is
\* ahead of everything, so no inode of the slave can pass for the changed one.
LEMMA MasterChange ==
    ASSUME SyncInv, NEW i \in Inodes, NEW r \in InodeRec,
           thr.at = "idle", tid' = tid + 1, UNCHANGED <<slave, update, thr, list>>,
           master' = [master EXCEPT !.inode[i] = r],
           1 <= r.tid /\ r.tid <= tid + 1,
           \A b \in Blocks : r.data[b] <= tid + 1,
           r.tid = tid + 1 \/ \E b \in Blocks : r.data[b] = tid + 1
    PROVE  SyncInv'
<1>1. SyncTypes /\ TidsInv /\ ThreadInv /\ AgreeInv
  BY DEF SyncInv
<1>2. tid \in Nat /\ master \in SlaveNode /\ slave \in SlaveNode /\ r # Absent
  BY <1>1, SynchroAssumption DEF SyncTypes
<1>3. /\ master' \in SlaveNode /\ master'.inode[i] = r
      /\ \A j \in Inodes : j # i => master'.inode[j] = master.inode[j]
  BY <1>2, InodeWith
<1>4. SyncTypes'
  <2>1. tid' \in Nat
    BY <1>2
  <2>2. QED
    BY <1>1, <1>3, <2>1 DEF SyncTypes
<1>5. TidsInv'
  <2>1. ASSUME NEW j \in Inodes, master'.inode[j] # Absent
        PROVE  /\ 1 <= master'.inode[j].tid /\ master'.inode[j].tid <= tid'
               /\ \A b \in Blocks : master'.inode[j].data[b] <= tid'
    <3>1. CASE j = i
      BY <1>3, <3>1
    <3>2. CASE j # i
      <4>1. /\ 1 <= master.inode[j].tid /\ master.inode[j].tid <= tid
            /\ \A b \in Blocks : master.inode[j].data[b] <= tid
        BY <1>1, <1>3, <2>1, <3>2 DEF TidsInv
      <4>2. /\ master.inode[j].tid \in Nat
            /\ \A b \in Blocks : master.inode[j].data[b] \in Nat
        BY <1>2, <1>3, <2>1, <3>2, InodeFacts
      <4>3. QED
        BY <1>2, <1>3, <3>2, <4>1, <4>2
    <3>3. QED
      BY <3>1, <3>2
  <2>2. ASSUME NEW j \in Inodes, slave'.inode[j] # Absent
        PROVE  /\ slave'.inode[j].tid <= tid'
               /\ \A b \in Blocks : slave'.inode[j].data[b] <= tid'
    <3>1. /\ slave.inode[j].tid <= tid
          /\ \A b \in Blocks : slave.inode[j].data[b] <= tid
      BY <1>1, <2>2 DEF TidsInv
    <3>2. /\ slave.inode[j].tid \in Nat
          /\ \A b \in Blocks : slave.inode[j].data[b] \in Nat
      BY <1>2, <2>2, InodeFacts
    <3>3. QED
      BY <1>2, <3>1, <3>2
  <2>3. \A j \in Inodes : slave'.inode[j] = Absent => \A x \in update' : x[1] # j
    BY <1>1 DEF TidsInv
  <2>4. QED
    BY <2>1, <2>2, <2>3 DEF TidsInv
<1>6. ThreadInv'
  <2>1. Root \notin Inodes => ~Scanning(Root)
    BY DEF Scanning
  <2>2. \A ip : ~Scanning(ip)'
    BY DEF Scanning
  <2>3. QED
    BY <1>1, <2>2 DEF ThreadInv
<1>7. AgreeInv'
  <2> SUFFICES ASSUME NEW j \in Inodes  PROVE  AgreeOf(j)'
    BY DEF AgreeInv
  <2>1. CASE j = i
    <3>1. Raised(master', i, Everything) = tid + 1
      <4> DEFINE m == master'
      <4>1. \A b \in Blocks : <<i, b>> \in Everything
        BY DEF Everything
      <4>2. /\ m \in SlaveNode /\ m.inode[i] # Absent /\ tid + 1 \in Nat
            /\ m.inode[i].tid <= tid + 1 /\ \A b \in Blocks : m.inode[i].data[b] <= tid + 1
            /\ \/ tid + 1 = m.inode[i].tid
               \/ \E b \in Blocks : <<i, b>> \in Everything /\ tid + 1 = m.inode[i].data[b]
        BY <1>2, <1>3, <4>1
      <4> HIDE DEF m
      <4>3. Raised(m, i, Everything) = tid + 1
        BY <4>2, RaisedOnly
      <4>4. QED
        BY <4>3 DEF m
    <3>2. Comes(i)' = tid + 1
      BY <3>1 DEF Comes, Everything
    <3>3. slave.inode[i] # Absent =>
             slave.inode[i].tid # tid + 1 /\ Raised(slave, i, update) # tid + 1
      BY Bounds
    <3>4. QED
      BY <2>1, <3>2, <3>3 DEF AgreeOf, Both
  <2>2. CASE j # i
    <3>1. master'.inode[j] = master.inode[j]
      BY <1>3, <2>2
    <3>2. Raised(master', j, Everything) = Raised(master, j, Everything)
      <4> DEFINE m == master'
      <4>1. m.inode[j] = master.inode[j]
        BY <3>1
      <4> HIDE DEF m
      <4>2. Raised(m, j, Everything) = Raised(master, j, Everything)
        BY <4>1, RaisedSame
      <4>3. QED
        BY <4>2 DEF m
    <3>3. Comes(j)' = Comes(j)
      BY <3>2 DEF Comes, Everything
    <3>4. AgreeOf(j)
      BY <1>1 DEF AgreeInv
    <3>5. QED
      BY <3>1, <3>3, <3>4 DEF AgreeOf, Both, Scanning, Contents
  <2>3. QED
    BY <2>1, <2>2
<1>8. QED
  BY <1>4, <1>5, <1>6, <1>7 DEF SyncInv

\* hammer2_chain_create, hammer2_chain_modify and the truncation of a file.
LEMMA MasterKeeps ==
    ASSUME SyncInv, ~Concurrent, NEW i \in Inodes,
           \/ Create(i) \/ SetAttr(i)
           \/ \E b \in Blocks : Write(i, b) \/ Truncate(i, b)
    PROVE  SyncInv'
<1>1. /\ thr.at = "idle" /\ tid' = tid + 1 /\ UNCHANGED <<slave, update, thr, list>>
  BY DEF Create, SetAttr, Write, Truncate, MayChange
<1>2. /\ tid \in Nat /\ tid + 1 \in Nat /\ master \in SlaveNode /\ TidsInv
      /\ master.inode \in [Inodes -> InodeRec \cup {Absent}]
  BY InodeFacts DEF SyncInv, SyncTypes
<1>3. CASE Create(i)
  <2>1. master' = [master EXCEPT !.inode[i] = NewInode(tid + 1, tid + 1)]
    BY <1>1, <1>3 DEF Create
  <2> DEFINE r == NewInode(tid + 1, tid + 1)
  <2>2. r \in InodeRec /\ r.tid = tid + 1 /\ \A b \in Blocks : r.data[b] = 0
    BY <1>2 DEF NewInode, InodeRec
  <2> HIDE DEF r
  <2>3. QED
    BY <1>1, <1>2, <2>1, <2>2, MasterChange DEF r
<1>4. ASSUME master.inode[i] # Absent
      PROVE  /\ master.inode[i] \in InodeRec
             /\ 1 <= master.inode[i].tid /\ master.inode[i].tid <= tid + 1
             /\ master.inode[i].data \in [Blocks -> Nat]
             /\ \A b \in Blocks : master.inode[i].data[b] <= tid + 1
  <2>1. /\ 1 <= master.inode[i].tid /\ master.inode[i].tid <= tid
        /\ \A b \in Blocks : master.inode[i].data[b] <= tid
    BY <1>2, <1>4 DEF TidsInv
  <2>2. /\ master.inode[i] \in InodeRec /\ master.inode[i].tid \in Nat
        /\ master.inode[i].data \in [Blocks -> Nat]
        /\ \A b \in Blocks : master.inode[i].data[b] \in Nat
    BY <1>2, <1>4, InodeFacts
  <2>3. QED
    BY <1>2, <2>1, <2>2
<1>5. CASE SetAttr(i)
  <2>1. /\ master.inode[i] # Absent
        /\ master' = [master EXCEPT !.inode[i].meta = tid + 1, !.inode[i].tid = tid + 1]
    BY <1>1, <1>5 DEF SetAttr
  <2> DEFINE q == [master.inode[i] EXCEPT !.meta = tid + 1]
             r == [q EXCEPT !.tid = tid + 1]
  <2>2. master' = [master EXCEPT !.inode[i] = r]
    BY <1>2, <2>1
  <2>3. q \in InodeRec /\ q.data = master.inode[i].data
    BY <1>2, <1>4, <2>1 DEF InodeRec
  <2> HIDE DEF q
  <2>4. r \in InodeRec /\ r.tid = tid + 1 /\ r.data = master.inode[i].data
    BY <1>2, <2>3 DEF InodeRec
  <2> HIDE DEF r
  <2>5. \A b \in Blocks : r.data[b] <= tid + 1
    BY <1>4, <2>1, <2>4
  <2>6. 1 <= r.tid /\ r.tid <= tid + 1
    BY <1>2, <2>4
  <2>7. QED
    BY <1>1, <2>2, <2>4, <2>5, <2>6, MasterChange
<1>6. ASSUME NEW b \in Blocks, Write(i, b)
      PROVE  SyncInv'
  <2>1. /\ master.inode[i] # Absent
        /\ master' = [master EXCEPT !.inode[i].data[b] = tid + 1]
    BY <1>1, <1>6 DEF Write
  <2> DEFINE d == [master.inode[i].data EXCEPT ![b] = tid + 1]
             r == [master.inode[i] EXCEPT !.data = d]
  <2>2. master' = [master EXCEPT !.inode[i] = r]
    BY <1>2, <2>1
  <2>3. /\ d \in [Blocks -> Nat] /\ d[b] = tid + 1
        /\ \A c \in Blocks : c # b => d[c] = master.inode[i].data[c]
    BY <1>2, <1>4, <2>1
  <2> HIDE DEF d
  <2>4. r \in InodeRec /\ r.tid = master.inode[i].tid /\ r.data = d
    BY <1>4, <2>1, <2>3 DEF InodeRec
  <2> HIDE DEF r
  <2>5. \A c \in Blocks : r.data[c] <= tid + 1
    BY <1>2, <1>4, <2>1, <2>3, <2>4
  <2>6. QED
    BY <1>1, <1>2, <1>4, <2>1, <2>2, <2>3, <2>4, <2>5, MasterChange
<1>7. ASSUME NEW b \in Blocks, Truncate(i, b)
      PROVE  SyncInv'
  <2> DEFINE d == [master.inode[i].data EXCEPT ![b] = 0]
             p == [master.inode[i] EXCEPT !.data = d]
             q == [p EXCEPT !.meta = tid + 1]
             r == [q EXCEPT !.tid = tid + 1]
  <2>1. master.inode[i] # Absent /\ master' = [master EXCEPT !.inode[i] = r]
    BY <1>1, <1>7 DEF Truncate
  <2>2. /\ d \in [Blocks -> Nat] /\ d[b] = 0
        /\ \A c \in Blocks : c # b => d[c] = master.inode[i].data[c]
    BY <1>4, <2>1
  <2> HIDE DEF d
  <2>3. p \in InodeRec /\ p.data = d
    BY <1>4, <2>1, <2>2 DEF InodeRec
  <2> HIDE DEF p
  <2>4. q \in InodeRec /\ q.data = d
    BY <1>2, <2>3 DEF InodeRec
  <2> HIDE DEF q
  <2>5. r \in InodeRec /\ r.tid = tid + 1 /\ r.data = d
    BY <1>2, <2>4 DEF InodeRec
  <2> HIDE DEF r
  <2>6. \A c \in Blocks : r.data[c] <= tid + 1
    BY <1>2, <1>4, <2>1, <2>2, <2>5
  <2>7. QED
    BY <1>1, <1>2, <2>1, <2>5, <2>6, MasterChange
<1>8. QED
  BY <1>3, <1>5, <1>6, <1>7

\* The tids of the slave stay behind a transaction that has begun.
LEMMA SlaveBehind ==
    ASSUME SyncInv, tid' \in {tid, tid + 1}, UNCHANGED <<slave, update>>
    PROVE  /\ tid \in Nat /\ tid' \in Nat
           /\ \A j \in Inodes :
                 /\ slave'.inode[j] # Absent =>
                       /\ slave'.inode[j].tid <= tid'
                       /\ \A b \in Blocks : slave'.inode[j].data[b] <= tid'
                 /\ slave'.inode[j] = Absent => \A x \in update' : x[1] # j
<1>1. tid \in Nat /\ slave \in SlaveNode /\ TidsInv
  BY DEF SyncInv, SyncTypes
<1>2. ASSUME NEW j \in Inodes, slave.inode[j] # Absent
      PROVE  /\ slave.inode[j].tid <= tid'
             /\ \A b \in Blocks : slave.inode[j].data[b] <= tid'
  <2>1. /\ slave.inode[j].tid <= tid
        /\ \A b \in Blocks : slave.inode[j].data[b] <= tid
    BY <1>1, <1>2 DEF TidsInv
  <2>2. /\ slave.inode[j].tid \in Nat
        /\ \A b \in Blocks : slave.inode[j].data[b] \in Nat
    BY <1>1, <1>2, InodeFacts
  <2>3. QED
    BY <1>1, <2>1, <2>2
<1>3. \A j \in Inodes : slave.inode[j] = Absent => \A x \in update : x[1] # j
  BY <1>1 DEF TidsInv
<1>4. QED
  BY <1>1, <1>2, <1>3

\* An inode is removed from the master between two passes.
LEMMA EraseKeeps ==
    ASSUME SyncInv, NEW i \in Inodes, Erase(i)
    PROVE  SyncInv'
<1>1. /\ thr.at = "idle" /\ tid' = tid + 1 /\ UNCHANGED <<slave, update, thr, list>>
      /\ master' = [master EXCEPT !.inode[i] = Absent, !.root = tid + 1]
  BY DEF Erase, MayChange
<1>2. SyncTypes /\ TidsInv /\ ThreadInv /\ AgreeInv /\ tid \in Nat /\ master \in SlaveNode
  BY DEF SyncInv, SyncTypes
<1>3. /\ master' \in SlaveNode /\ master'.inode[i] = Absent
      /\ \A j \in Inodes : j # i => master'.inode[j] = master.inode[j]
  <2> DEFINE g == [master.inode EXCEPT ![i] = Absent]
  <2>1. master.inode \in [Inodes -> InodeRec \cup {Absent}]
    BY <1>2 DEF SlaveNode
  <2>2. /\ g \in [Inodes -> InodeRec \cup {Absent}] /\ g[i] = Absent
        /\ \A j \in Inodes : j # i => g[j] = master.inode[j]
    BY <2>1
  <2>3. master' = [[master EXCEPT !.inode = g] EXCEPT !.root = tid + 1]
    BY <1>1, <1>2
  <2> HIDE DEF g
  <2>4. master' = [root |-> tid + 1, inode |-> g]
    BY <1>2, <2>3 DEF SlaveNode
  <2>5. QED
    BY <1>2, <2>2, <2>4 DEF SlaveNode
<1>4. SyncTypes'
  BY <1>1, <1>2, <1>3 DEF SyncTypes
<1>5. TidsInv'
  <2>1. ASSUME NEW j \in Inodes, master'.inode[j] # Absent
        PROVE  /\ 1 <= master'.inode[j].tid /\ master'.inode[j].tid <= tid'
               /\ \A b \in Blocks : master'.inode[j].data[b] <= tid'
    <3>1. j # i /\ master'.inode[j] = master.inode[j]
      BY <1>3, <2>1
    <3>2. /\ 1 <= master.inode[j].tid /\ master.inode[j].tid <= tid
          /\ \A b \in Blocks : master.inode[j].data[b] <= tid
      BY <1>2, <2>1, <3>1 DEF TidsInv
    <3>3. /\ master.inode[j].tid \in Nat
          /\ \A b \in Blocks : master.inode[j].data[b] \in Nat
      BY <1>2, <2>1, <3>1, InodeFacts
    <3>4. QED
      BY <1>1, <1>2, <3>1, <3>2, <3>3
  <2>2. QED
    BY <1>1, <2>1, SlaveBehind DEF TidsInv
<1>6. ThreadInv'
  <2>1. \A ip : ~Scanning(ip)'
    BY <1>1 DEF Scanning
  <2>2. QED
    BY <1>1, <1>2, <2>1 DEF ThreadInv
<1>7. AgreeInv'
  <2> SUFFICES ASSUME NEW j \in Inodes, j # i  PROVE  AgreeOf(j)'
    BY <1>3 DEF AgreeInv, AgreeOf, Both
  <2> DEFINE m == master'
  <2>1. m.inode[j] = master.inode[j]
    BY <1>3
  <2> HIDE DEF m
  <2>2. Raised(m, j, Everything) = Raised(master, j, Everything)
    BY <2>1, RaisedSame
  <2>3. Comes(j)' = Comes(j) /\ master'.inode[j] = master.inode[j]
    BY <2>1, <2>2 DEF Comes, Everything, m
  <2>4. AgreeOf(j)
    BY <1>2 DEF AgreeInv
  <2>5. QED
    BY <1>1, <2>3, <2>4 DEF AgreeOf, Both, Scanning, Contents
<1>8. QED
  BY <1>4, <1>5, <1>6, <1>7 DEF SyncInv

\* The flush of the master brings to an inode what was to come.
LEMMA MasterFlushKeeps ==
    ASSUME SyncInv, ~Concurrent, MasterFlush
    PROVE  SyncInv'
<1>1. /\ thr.at = "idle" /\ UNCHANGED <<slave, tid, update, thr, list>>
      /\ master' = Flushed(master, Everything)
  BY DEF MasterFlush, Everything
<1>2. SyncTypes /\ TidsInv /\ ThreadInv /\ AgreeInv /\ tid \in Nat /\ master \in SlaveNode
  BY DEF SyncInv, SyncTypes
<1>3. /\ Flushed(master, Everything) \in SlaveNode
      /\ \A i \in Inodes :
            /\ Flushed(master, Everything).inode[i] = Absent <=> master.inode[i] = Absent
            /\ master.inode[i] # Absent =>
                  /\ Flushed(master, Everything).inode[i].tid =
                        IF \E x \in Everything : x[1] = i THEN Raised(master, i, Everything)
                        ELSE master.inode[i].tid
                  /\ Flushed(master, Everything).inode[i].meta = master.inode[i].meta
                  /\ Flushed(master, Everything).inode[i].data = master.inode[i].data
  <2>1. tid + master.root \in Nat /\ master.root <= tid + master.root
    BY <1>2 DEF SlaveNode
  <2>2. ASSUME NEW i \in Inodes, master.inode[i] # Absent
        PROVE  /\ master.inode[i].tid <= tid + master.root
               /\ \A b \in Blocks : master.inode[i].data[b] <= tid + master.root
    <3>1. /\ master.inode[i].tid <= tid
          /\ \A b \in Blocks : master.inode[i].data[b] <= tid
      BY <1>2, <2>2 DEF TidsInv
    <3>2. /\ master.inode[i].tid \in Nat /\ master.root \in Nat
          /\ \A b \in Blocks : master.inode[i].data[b] \in Nat
      BY <1>2, <2>2, InodeFacts
    <3>3. QED
      BY <1>2, <3>1, <3>2
  <2>3. QED
    BY <1>2, <2>1, <2>2, FlushedIs
<1>4. \A i \in Inodes : \E x \in Everything : x[1] = i
  <2> SUFFICES ASSUME NEW i \in Inodes PROVE \E x \in Everything : x[1] = i
    OBVIOUS
  <2>1. <<i, 0>> \in Everything /\ <<i, 0>>[1] = i
    BY DEF Everything
  <2>2. QED
    BY <2>1
<1>5. \A i \in Inodes :
         /\ master'.inode[i] = Absent <=> master.inode[i] = Absent
         /\ master.inode[i] # Absent =>
               /\ master'.inode[i].tid = Comes(i)
               /\ master'.inode[i].meta = master.inode[i].meta
               /\ master'.inode[i].data = master.inode[i].data
  BY <1>1, <1>3, <1>4 DEF Comes
<1>6. SyncTypes'
  BY <1>1, <1>2, <1>3 DEF SyncTypes
<1>7. TidsInv'
  <2>1. ASSUME NEW j \in Inodes, master'.inode[j] # Absent
        PROVE  /\ 1 <= master'.inode[j].tid /\ master'.inode[j].tid <= tid'
               /\ \A b \in Blocks : master'.inode[j].data[b] <= tid'
    BY <1>1, <1>2, <1>5, <2>1, Bounds DEF TidsInv
  <2>2. QED
    BY <1>1, <2>1, SlaveBehind DEF TidsInv
<1>8. ThreadInv'
  <2>1. \A ip : ~Scanning(ip)'
    BY <1>1 DEF Scanning
  <2>2. QED
    BY <1>1, <1>2, <2>1 DEF ThreadInv
<1>9. AgreeInv'
  <2> SUFFICES ASSUME NEW j \in Inodes, master.inode[j] # Absent  PROVE  AgreeOf(j)'
    BY <1>5 DEF AgreeInv, AgreeOf, Both
  <2> DEFINE m == master'
  <2>1. /\ m \in SlaveNode /\ m.inode[j] # Absent /\ m.inode[j].tid = Comes(j)
        /\ Comes(j) \in Nat /\ \A b \in Blocks : m.inode[j].data[b] <= Comes(j)
    BY <1>1, <1>3, <1>5, Bounds
  <2> HIDE DEF m
  <2>2. Raised(m, j, Everything) = Comes(j)
    BY <2>1, RaisedOnly
  <2>3. Comes(j)' = Comes(j)
    BY <2>2 DEF Comes, Everything, m
  <2>4. AgreeOf(j)
    BY <1>2 DEF AgreeInv
  <2>5. QED
    BY <1>1, <1>5, <2>3, <2>4 DEF AgreeOf, Both, Scanning, Contents
<1>10. QED
  BY <1>6, <1>7, <1>8, <1>9 DEF SyncInv

\* The flush of the slave brings to an inode what its records bring.
LEMMA SlaveFlushKeeps ==
    ASSUME SyncInv, SlaveFlush
    PROVE  SyncInv'
<1>1. /\ thr.at = "idle" /\ UNCHANGED <<master, tid, thr, list>>
      /\ slave' = Flushed(slave, update) /\ update' = {}
  BY DEF SlaveFlush
<1>2. SyncTypes /\ TidsInv /\ ThreadInv /\ AgreeInv /\ tid \in Nat /\ slave \in SlaveNode
  BY DEF SyncInv, SyncTypes
<1>3. /\ slave' \in SlaveNode
      /\ \A i \in Inodes :
            /\ slave'.inode[i] = Absent <=> slave.inode[i] = Absent
            /\ slave.inode[i] # Absent =>
                  /\ slave'.inode[i].tid = IF \E x \in update : x[1] = i
                                           THEN Raised(slave, i, update)
                                           ELSE slave.inode[i].tid
                  /\ slave'.inode[i].meta = slave.inode[i].meta
                  /\ slave'.inode[i].data = slave.inode[i].data
  <2>1. tid + slave.root \in Nat /\ slave.root <= tid + slave.root
    BY <1>2 DEF SlaveNode
  <2>2. ASSUME NEW i \in Inodes, slave.inode[i] # Absent
        PROVE  /\ slave.inode[i].tid <= tid + slave.root
               /\ \A b \in Blocks : slave.inode[i].data[b] <= tid + slave.root
    <3>1. /\ slave.inode[i].tid <= tid
          /\ \A b \in Blocks : slave.inode[i].data[b] <= tid
      BY <1>2, <2>2 DEF TidsInv
    <3>2. /\ slave.inode[i].tid \in Nat /\ slave.root \in Nat
          /\ \A b \in Blocks : slave.inode[i].data[b] \in Nat
      BY <1>2, <2>2, InodeFacts
    <3>3. QED
      BY <1>2, <3>1, <3>2
  <2>3. QED
    BY <1>1, <1>2, <2>1, <2>2, FlushedIs
<1>4. ASSUME NEW i \in Inodes, slave.inode[i] # Absent
      PROVE  slave'.inode[i].tid = Raised(slave, i, update)
  <2>1. CASE \E x \in update : x[1] = i
    BY <1>3, <1>4, <2>1
  <2>2. CASE ~ \E x \in update : x[1] = i
    <3>1. \A b \in Blocks : <<i, b>> \notin update
      BY <2>2
    <3>2. Raised(slave, i, update) = slave.inode[i].tid
      BY <1>2, <1>4, <3>1, RaisedOnly, InodeFacts
    <3>3. QED
      BY <1>3, <1>4, <2>2, <3>2
  <2>3. QED
    BY <2>1, <2>2
<1>5. ASSUME NEW i \in Inodes, slave.inode[i] # Absent
      PROVE  Raised(slave', i, {}) = Raised(slave, i, update)
  <2> DEFINE s == slave'
  <2>1. /\ s \in SlaveNode /\ s.inode[i] # Absent
        /\ s.inode[i].tid = Raised(slave, i, update)
        /\ s.inode[i].tid \in Nat
    BY <1>3, <1>4, <1>5, Bounds
  <2> HIDE DEF s
  <2>2. Raised(s, i, {}) = s.inode[i].tid
    BY <2>1, RaisedOnly
  <2>3. QED
    BY <2>1, <2>2 DEF s
<1>6. SyncTypes'
  BY <1>1, <1>2, <1>3 DEF SyncTypes
<1>7. TidsInv'
  <2>1. ASSUME NEW j \in Inodes, slave'.inode[j] # Absent
        PROVE  /\ slave'.inode[j].tid <= tid'
               /\ \A b \in Blocks : slave'.inode[j].data[b] <= tid'
    BY <1>1, <1>2, <1>3, <1>4, <2>1, Bounds DEF TidsInv
  <2>2. QED
    BY <1>1, <1>2, <2>1 DEF TidsInv
<1>8. ThreadInv'
  <2>1. \A ip : ~Scanning(ip)'
    BY <1>1 DEF Scanning
  <2>2. QED
    BY <1>1, <1>2, <2>1 DEF ThreadInv
<1>9. AgreeInv'
  <2> SUFFICES ASSUME NEW j \in Inodes, slave.inode[j] # Absent  PROVE  AgreeOf(j)'
    BY <1>3 DEF AgreeInv, AgreeOf, Both
  <2>1. AgreeOf(j) /\ ~Scanning(j)
    BY <1>1, <1>2 DEF AgreeInv, Scanning
  <2>2. Comes(j)' = Comes(j)
    BY <1>1 DEF Comes, Everything
  <2>3. Raised(slave', j, update') = Raised(slave, j, update)
    BY <1>1, <1>5
  <2>4. slave'.inode[j].tid = Raised(slave, j, update)
    BY <1>4
  <2>5. Contents(slave, j)' = Contents(slave, j) /\ Contents(master, j)' = Contents(master, j)
    BY <1>1, <1>3 DEF Contents
  <2>6. Both(j)' => Both(j)
    BY <1>1 DEF Both
  <2>7. QED
    BY <2>1, <2>2, <2>3, <2>4, <2>5, <2>6 DEF AgreeOf
<1>10. QED
  BY <1>6, <1>7, <1>8, <1>9 DEF SyncInv

\* The thread's own steps keep what the nodes have in common.
LEMMA ThreadOnly ==
    ASSUME SyncInv, UNCHANGED <<master, slave, tid, update>>,
           thr' \in ThreadState, list' \in Seq(Inodes), ThreadInv',
           \A j \in Inodes : Scanning(j) => Scanning(j)'
    PROVE  SyncInv'
<1>1. SyncTypes /\ TidsInv /\ AgreeInv
  BY DEF SyncInv
<1>2. SyncTypes' /\ TidsInv'
  BY <1>1 DEF SyncTypes, TidsInv
<1>3. AgreeInv'
  <2> SUFFICES ASSUME NEW j \in Inodes  PROVE  AgreeOf(j)'
    BY DEF AgreeInv
  <2>1. AgreeOf(j) /\ (Scanning(j) => Scanning(j)')
    BY <1>1 DEF AgreeInv
  <2>2. /\ Comes(j)' = Comes(j) /\ Both(j)' = Both(j)
        /\ Contents(slave, j)' = Contents(slave, j)
        /\ Contents(master, j)' = Contents(master, j)
    BY DEF Comes, Everything, Both, Contents
  <2>3. QED
    BY <2>1, <2>2 DEF AgreeOf
<1>4. QED
  BY <1>2, <1>3 DEF SyncInv

\* hammer2_sync_slaves begins with an inode.
LEMMA BeginKeeps ==
    ASSUME SyncInv, SyncRoot \/ SyncDeferred
    PROVE  SyncInv'
<1>1. SyncTypes /\ ThreadInv /\ thr \in ThreadState /\ list \in Seq(Inodes)
      /\ master \in SlaveNode /\ Root \notin Inodes /\ NumInodes \in Nat /\ NumBlocks \in Nat
  BY SynchroAssumption DEF SyncInv, SyncTypes, Root, Inodes
<1>2. UNCHANGED <<master, slave, tid, update, list>> /\ thr.at \in {"idle", "list"}
  BY DEF SyncRoot, SyncDeferred
<1>3. \A ip : ~Scanning(ip)
  BY <1>2 DEF Scanning
<1>4. CASE SyncRoot
  <2>1. list = << >> /\ (thr' = Scan(Root) \/ thr' = Idle)
    BY <1>4 DEF SyncRoot
  <2>2. CASE thr' = Idle
    <3>1. thr' \in ThreadState /\ thr'.at = "idle"
      BY <2>2 DEF Idle, ThreadState, ThreadPlaces, Root
    <3>2. ThreadInv'
      BY <1>2, <2>1, <3>1 DEF ThreadInv, Scanning
    <3>3. QED
      BY <1>1, <1>2, <1>3, <3>1, <3>2, ThreadOnly
  <2>3. CASE thr' = Scan(Root)
    <3>1. thr' = [at |-> "scan", ip |-> Root, key |-> 1, sync_tid |-> master.root,
                  needrescan |-> FALSE]
      BY <2>3 DEF Scan, TidOf
    <3>2. thr' \in ThreadState
      BY <1>1, <3>1 DEF ThreadState, ThreadPlaces, SlaveNode
    <3>3. RootScan'
      BY <1>1, <1>2, <2>1, <3>1 DEF RootScan, Inodes
    <3>4. \A i \in Inodes : ~Scanning(i)'
      BY <1>1, <3>1 DEF Scanning
    <3>5. ThreadInv'
      BY <1>2, <2>1, <3>1, <3>3, <3>4 DEF ThreadInv
    <3>6. QED
      BY <1>1, <1>2, <1>3, <3>2, <3>5, ThreadOnly
  <2>4. QED
    BY <2>1, <2>2, <2>3
<1>5. CASE SyncDeferred
  <2>1. /\ thr.at = "list" /\ list # << >>
        /\ thr' = Scan(Head(list)) \/ thr' = [thr EXCEPT !.at = "synced"]
    BY <1>5 DEF SyncDeferred
  <2>2. PICK i \in Inodes : i = Head(list) /\ Both(i)
    <3>1. Head(list) \in Inodes /\ 1 \in DOMAIN list /\ Head(list) = list[1]
      BY <1>1, <2>1
    <3>2. QED
      BY <1>1, <2>1, <3>1 DEF ThreadInv
  <2>3. \A k \in DOMAIN list : Both(list[k])'
    BY <1>1, <1>2, <2>1 DEF ThreadInv, Both
  <2>4. CASE thr' = [thr EXCEPT !.at = "synced"]
    <3>1. thr' \in ThreadState /\ thr'.at = "synced"
      BY <1>1, <2>4 DEF ThreadState, ThreadPlaces
    <3>2. ThreadInv'
      BY <1>2, <2>1, <2>3, <3>1 DEF ThreadInv, Scanning
    <3>3. QED
      BY <1>1, <1>2, <1>3, <3>1, <3>2, ThreadOnly
  <2>5. CASE thr' = Scan(Head(list))
    <3>1. thr' = [at |-> "scan", ip |-> i, key |-> 1, sync_tid |-> master.inode[i].tid,
                  needrescan |-> FALSE]
      BY <1>1, <2>2, <2>5 DEF Scan, TidOf
    <3>2. thr' \in ThreadState
      <4>1. master.inode[i].tid \in Nat
        BY <1>1, <2>2, InodeFacts DEF Both
      <4>2. QED
        BY <3>1, <4>1 DEF ThreadState, ThreadPlaces
    <3>3. InodeScan(i)'
      <4>1. \A b \in Blocks : ~(b < 1)
        BY DEF Blocks
      <4>2. 1 \in 1..NumBlocks + 1
        BY <1>1
      <4>3. QED
        BY <1>2, <2>1, <2>2, <3>1, <4>1, <4>2 DEF InodeScan, Both
    <3>4. \A ip : Scanning(ip)' => ip = i
      BY <3>1 DEF Scanning
    <3>5. ThreadInv'
      BY <1>1, <1>2, <2>3, <3>1, <3>3, <3>4 DEF ThreadInv
    <3>6. QED
      BY <1>1, <1>2, <1>3, <3>2, <3>5, ThreadOnly
  <2>6. QED
    BY <2>1, <2>4, <2>5
<1>6. QED
  BY <1>4, <1>5

\* The end of a scan, and the steps from one deferred inode to the next.
LEMMA BetweenKeeps ==
    ASSUME SyncInv, ScanEnd \/ Popped \/ Break
    PROVE  SyncInv'
<1>1. SyncTypes /\ ThreadInv /\ thr \in ThreadState /\ list \in Seq(Inodes)
      /\ Root \notin Inodes
  BY DEF SyncInv, SyncTypes, Root, Inodes
<1>2. UNCHANGED <<master, slave, tid, update>>
  BY DEF ScanEnd, Popped, Break
<1>3. CASE ScanEnd
  <2>1. /\ thr.at = "scan" /\ list' = list
        /\ thr.key = 1 + (IF thr.ip = Root THEN NumInodes ELSE NumBlocks)
        /\ thr' = [thr EXCEPT !.at = IF thr.needrescan THEN "list" ELSE "final"]
    BY <1>3 DEF ScanEnd
  <2>2. /\ thr' \in ThreadState /\ thr'.at = IF thr.needrescan THEN "list" ELSE "final"
        /\ thr'.ip = thr.ip /\ thr'.key = thr.key /\ thr'.sync_tid = thr.sync_tid
        /\ thr'.needrescan = thr.needrescan
    <3>1. (IF thr.needrescan THEN "list" ELSE "final") \in ThreadPlaces
      BY DEF ThreadPlaces
    <3> DEFINE p == IF thr.needrescan THEN "list" ELSE "final"
    <3>2. thr' = [thr EXCEPT !.at = p] /\ p \in ThreadPlaces
      BY <2>1, <3>1
    <3> HIDE DEF p
    <3>3. /\ thr' \in ThreadState /\ thr'.at = p
          /\ thr'.ip = thr.ip /\ thr'.key = thr.key /\ thr'.sync_tid = thr.sync_tid
          /\ thr'.needrescan = thr.needrescan
      BY <1>1, <3>2 DEF ThreadState
    <3>4. QED
      BY <3>3 DEF p
  <2>3. \A k \in DOMAIN list : Both(list[k])'
    BY <1>1, <1>2, <2>1 DEF ThreadInv, Both
  <2>4. Scanning(Root)' => RootScan'
    <3>1. ASSUME Scanning(Root)'
          PROVE  RootScan'
      <4>1. thr.ip = Root /\ ~thr.needrescan /\ Scanning(Root)
        BY <2>1, <2>2, <3>1 DEF Scanning
      <4>2. RootScan /\ thr.key = NumInodes + 1
        BY <1>1, <2>1, <4>1, SynchroAssumption DEF ThreadInv
      <4>3. QED
        BY <1>2, <2>1, <2>2, <4>1, <4>2 DEF RootScan, Both
    <3>2. QED
      BY <3>1
  <2>5. ASSUME NEW i \in Inodes, Scanning(i)
        PROVE  Scanning(i)' /\ InodeScan(i)'
    <3>1. thr.ip = i /\ thr.ip # Root /\ InodeScan(i)
      BY <1>1, <2>5 DEF Scanning, ThreadInv
    <3>2. ~thr.needrescan /\ thr.key = NumBlocks + 1
      BY <2>1, <3>1, SynchroAssumption DEF InodeScan
    <3>3. QED
      BY <1>2, <2>1, <2>2, <3>1, <3>2 DEF Scanning, InodeScan, Both
  <2>6. \A i \in Inodes : Scanning(i)' => Scanning(i)
    BY <2>1, <2>2 DEF Scanning
  <2>7. ThreadInv'
    BY <2>1, <2>2, <2>3, <2>4, <2>5, <2>6 DEF ThreadInv
  <2>8. QED
    BY <1>1, <1>2, <2>1, <2>2, <2>5, <2>7, ThreadOnly
<1>4. CASE Popped
  <2>1. /\ thr.at = "synced" /\ list' = Tail(list) /\ list # << >>
        /\ thr' = [Idle EXCEPT !.at = "list"]
    BY <1>1, <1>4 DEF Popped, ThreadInv
  <2>2. thr' \in ThreadState /\ thr'.at = "list"
    BY <2>1 DEF Idle, ThreadState, ThreadPlaces
  <2>3. /\ list' \in Seq(Inodes)
        /\ \A k \in DOMAIN list' : k + 1 \in DOMAIN list /\ list'[k] = list[k + 1]
    BY <1>1, <2>1
  <2>4. (\A k \in DOMAIN list : Both(list[k]))'
    BY <1>1, <1>2, <2>1, <2>3 DEF ThreadInv, Both
  <2>5. ThreadInv'
    BY <2>2, <2>4 DEF ThreadInv, Scanning
  <2>6. \A j \in Inodes : ~Scanning(j)
    BY <2>1 DEF Scanning
  <2>7. QED
    BY <1>2, <2>2, <2>3, <2>5, <2>6, ThreadOnly
<1>5. CASE Break
  <2>1. thr.at = "synced" /\ list' = << >> /\ thr' = Idle
    BY <1>5 DEF Break
  <2>2. thr' \in ThreadState /\ thr'.at = "idle" /\ list' \in Seq(Inodes)
    BY <2>1 DEF Idle, ThreadState, ThreadPlaces
  <2>3. ThreadInv'
    BY <2>1, <2>2 DEF ThreadInv, Scanning
  <2>4. \A j \in Inodes : ~Scanning(j)
    BY <2>1 DEF Scanning
  <2>5. QED
    BY <1>2, <2>2, <2>3, <2>4, ThreadOnly
<1>6. QED
  BY <1>3, <1>4, <1>5

\* A step of a scan changes at most one inode of the slave.
LEMMA SlaveChange ==
    ASSUME SyncInv, NEW i \in Inodes, slave' \in SlaveNode,
           \A j \in Inodes : j # i => slave'.inode[j] = slave.inode[j],
           UNCHANGED <<master, tid>>, update' \subseteq Everything,
           \A x \in Everything : x[1] # i => (x \in update' <=> x \in update),
           slave'.inode[i] = Absent => \A x \in update' : x[1] # i,
           slave'.inode[i] # Absent =>
              /\ slave'.inode[i].tid <= tid
              /\ \A b \in Blocks : slave'.inode[i].data[b] <= tid,
           thr' \in ThreadState, list' \in Seq(Inodes), ThreadInv', AgreeOf(i)',
           \A j \in Inodes : j # i => (Scanning(j) => Scanning(j)')
    PROVE  SyncInv'
<1>1. SyncTypes /\ TidsInv /\ AgreeInv
  BY DEF SyncInv
<1>2. SyncTypes'
  BY <1>1 DEF SyncTypes
<1>3. TidsInv'
  <2> SUFFICES ASSUME NEW j \in Inodes
               PROVE  /\ master'.inode[j] # Absent =>
                            /\ 1 <= master'.inode[j].tid /\ master'.inode[j].tid <= tid'
                            /\ \A b \in Blocks : master'.inode[j].data[b] <= tid'
                      /\ slave'.inode[j] # Absent =>
                            /\ slave'.inode[j].tid <= tid'
                            /\ \A b \in Blocks : slave'.inode[j].data[b] <= tid'
                      /\ slave'.inode[j] = Absent => \A x \in update' : x[1] # j
    BY DEF TidsInv
  <2>1. master'.inode[j] # Absent =>
           /\ 1 <= master'.inode[j].tid /\ master'.inode[j].tid <= tid'
           /\ \A b \in Blocks : master'.inode[j].data[b] <= tid'
    BY <1>1 DEF TidsInv
  <2>2. CASE j = i
    BY <2>1, <2>2
  <2>3. CASE j # i
    <3>1. slave'.inode[j] = slave.inode[j]
      BY <2>3
    <3>2. \A x \in update' : x[1] = j => x \in update
      BY <2>3
    <3>3. QED
      BY <1>1, <2>1, <3>1, <3>2 DEF TidsInv
  <2>4. QED
    BY <2>2, <2>3
<1>4. AgreeInv'
  <2> SUFFICES ASSUME NEW j \in Inodes, j # i  PROVE  AgreeOf(j)'
    BY DEF AgreeInv
  <2>1. AgreeOf(j) /\ (Scanning(j) => Scanning(j)')
    BY <1>1 DEF AgreeInv
  <2> DEFINE s == slave'
             u == update'
  <2>2. s.inode[j] = slave.inode[j] /\ \A b \in Blocks : <<j, b>> \in u <=> <<j, b>> \in update
    <3>1. \A b \in Blocks : <<j, b>> \in Everything /\ <<j, b>>[1] = j
      BY DEF Everything
    <3>2. QED
      BY <3>1
  <2> HIDE DEF s, u
  <2>3. Raised(s, j, u) = Raised(slave, j, update)
    BY <2>2, RaisedSame
  <2>4. Raised(slave', j, update') = Raised(slave, j, update) /\ slave'.inode[j] = slave.inode[j]
    BY <2>2, <2>3 DEF s, u
  <2>5. Comes(j)' = Comes(j) /\ Both(j)' = Both(j)
    BY <2>4 DEF Comes, Everything, Both
  <2>6. /\ Contents(slave, j)' = Contents(slave, j)
        /\ Contents(master, j)' = Contents(master, j)
    BY <2>4 DEF Contents
  <2>7. QED
    BY <2>1, <2>4, <2>5, <2>6 DEF AgreeOf
<1>5. QED
  BY <1>2, <1>3, <1>4 DEF SyncInv

\* The scan goes on to the next key, with an inode deferred or none.
LEMMA RootGoesOn ==
    ASSUME SyncInv, thr.at = "scan", thr.ip = Root, NEW i \in Inodes, thr.key = i,
           slave' \in SlaveNode, UNCHANGED master,
           \A j \in Inodes : j # i => slave'.inode[j] = slave.inode[j],
           \/ /\ thr' = [thr EXCEPT !.key = thr.key + 1] /\ list' = list
              /\ master.inode[i] = Absent <=> slave'.inode[i] = Absent
              /\ Both(i)' => master.inode[i].tid = slave'.inode[i].tid
              /\ Both(i) => Both(i)'
           \/ /\ thr' = [thr EXCEPT !.key = thr.key + 1, !.needrescan = TRUE]
              /\ list' = <<i>> \o list /\ Both(i)'
    PROVE  /\ thr' \in ThreadState /\ list' \in Seq(Inodes) /\ ThreadInv'
           /\ \A j : ~Scanning(j) => ~Scanning(j)'
           /\ \A j \in Inodes : ~Scanning(j)
<1>1. /\ thr \in ThreadState /\ list \in Seq(Inodes) /\ ThreadInv /\ Root \notin Inodes
      /\ NumInodes \in Nat
  BY SynchroAssumption DEF SyncInv, SyncTypes, Root, Inodes
<1>2. RootScan
  BY <1>1 DEF ThreadInv, Scanning
<1>3. /\ thr' \in ThreadState /\ thr'.at = "scan" /\ thr'.ip = Root
      /\ thr'.key = thr.key + 1 /\ thr.needrescan \in BOOLEAN
      /\ \/ /\ thr'.needrescan = thr.needrescan /\ list' = list
            /\ master.inode[i] = Absent <=> slave'.inode[i] = Absent
            /\ Both(i)' => master.inode[i].tid = slave'.inode[i].tid
            /\ Both(i) => Both(i)'
         \/ thr'.needrescan = TRUE /\ list' = <<i>> \o list /\ Both(i)'
  <2>1. CASE /\ thr' = [thr EXCEPT !.key = thr.key + 1] /\ list' = list
             /\ master.inode[i] = Absent <=> slave'.inode[i] = Absent
             /\ Both(i)' => master.inode[i].tid = slave'.inode[i].tid
             /\ Both(i) => Both(i)'
    <3>1. /\ thr' \in ThreadState /\ thr'.at = "scan" /\ thr'.ip = Root
          /\ thr'.key = thr.key + 1 /\ thr'.needrescan = thr.needrescan
          /\ thr.needrescan \in BOOLEAN
      BY <1>1, <2>1 DEF ThreadState
    <3>2. QED
      BY <2>1, <3>1
  <2>2. CASE /\ thr' = [thr EXCEPT !.key = thr.key + 1, !.needrescan = TRUE]
             /\ list' = <<i>> \o list /\ Both(i)'
    <3> DEFINE t == [thr EXCEPT !.key = thr.key + 1]
    <3>1. /\ t \in ThreadState /\ t.at = "scan" /\ t.ip = Root /\ t.key = thr.key + 1
          /\ thr.needrescan \in BOOLEAN
      BY <1>1 DEF ThreadState
    <3>2. thr' = [t EXCEPT !.needrescan = TRUE]
      BY <2>2
    <3> HIDE DEF t
    <3>3. /\ thr' \in ThreadState /\ thr'.at = "scan" /\ thr'.ip = Root
          /\ thr'.key = thr.key + 1 /\ thr'.needrescan = TRUE
      BY <3>1, <3>2 DEF ThreadState
    <3>4. QED
      BY <2>2, <3>1, <3>3
  <2>3. QED
    BY <2>1, <2>2
<1>4. \A j \in Inodes : Both(j) /\ j # i => Both(j)'
  BY DEF Both
<1>5. list' \in Seq(Inodes) /\ (\A k \in DOMAIN list : Both(list[k]))'
  <2>1. \A k \in DOMAIN list : list[k] \in Inodes /\ Both(list[k])
    BY <1>1 DEF ThreadInv
  <2>2. CASE list' = list /\ (Both(i) => Both(i)')
    <3>1. \A k \in DOMAIN list : Both(list[k])'
      <4>1. \A j \in Inodes : Both(j) => Both(j)'
        BY <1>4, <2>2
      <4>2. ASSUME NEW k \in DOMAIN list
            PROVE  Both(list[k])'
        BY <2>1, <2>2, <4>1 DEF Both
      <4>3. QED
        BY <4>2
    <3>2. QED
      BY <1>1, <2>2, <3>1
  <2>3. CASE list' = <<i>> \o list /\ Both(i)'
    <3>1. <<i>> \in Seq(Inodes) /\ Len(<<i>>) = 1 /\ <<i>>[1] = i
      OBVIOUS
    <3>2. list' \in Seq(Inodes)
      BY <1>1, <2>3, <3>1
    <3>3. \A k \in DOMAIN list' :
             \/ k = 1 /\ list'[k] = i
             \/ k - 1 \in DOMAIN list /\ list'[k] = list[k - 1]
      BY <1>1, <2>3, <3>1
    <3>4. \A j \in Inodes : Both(j) => Both(j)'
      BY <1>4, <2>3
    <3>5. ASSUME NEW k \in DOMAIN list'
          PROVE  master'.inode[list'[k]] # Absent /\ slave'.inode[list'[k]] # Absent
      <4>1. CASE k = 1 /\ list'[k] = i
        BY <2>3, <4>1 DEF Both
      <4>2. CASE k - 1 \in DOMAIN list /\ list'[k] = list[k - 1]
        <5>1. list[k - 1] \in Inodes /\ Both(list[k - 1])
          BY <2>1, <4>2
        <5>2. PICK j \in Inodes : j = list[k - 1]
          BY <5>1
        <5>3. Both(j)'
          BY <3>4, <5>1, <5>2
        <5>4. QED
          BY <4>2, <5>2, <5>3 DEF Both
      <4>3. QED
        BY <3>3, <4>1, <4>2
    <3>6. QED
      BY <3>2, <3>5 DEF Both
  <2>4. QED
    BY <1>3, <2>2, <2>3
<1>6. RootScan'
  <2>1. i \in 1..NumInodes /\ thr.key = i /\ thr'.key \in 1..NumInodes + 1
    BY <1>1, <1>3 DEF Inodes
  <2>2. thr'.at # "final" /\ (~thr'.needrescan => list' = << >>)
    BY <1>2, <1>3 DEF RootScan
  <2>3. ASSUME NEW j \in Inodes, j < thr'.key
        PROVE  /\ master'.inode[j] = Absent <=> slave'.inode[j] = Absent
               /\ ~thr'.needrescan /\ Both(j)' => master'.inode[j].tid = slave'.inode[j].tid
    <3>1. CASE j = i
      BY <1>3, <3>1 DEF Both
    <3>2. CASE j # i
      <4>1. j < thr.key
        BY <1>3, <2>1, <2>3, <3>2 DEF Inodes
      <4>2. /\ master.inode[j] = Absent <=> slave.inode[j] = Absent
            /\ ~thr.needrescan /\ Both(j) => master.inode[j].tid = slave.inode[j].tid
        BY <1>2, <4>1 DEF RootScan
      <4>3. ~thr'.needrescan => ~thr.needrescan
        BY <1>3
      <4>4. QED
        BY <3>2, <4>2, <4>3 DEF Both
    <3>3. QED
      BY <3>1, <3>2
  <2>4. QED
    BY <2>1, <2>2, <2>3 DEF RootScan
<1>7. \A ip : Scanning(ip)' <=> ip = Root
  BY <1>3 DEF Scanning
<1>8. ThreadInv'
  BY <1>1, <1>3, <1>5, <1>6, <1>7 DEF ThreadInv
<1>9. \A j \in Inodes : ~Scanning(j)
  BY <1>1 DEF Scanning
<1>10. \A j : ~Scanning(j) => ~Scanning(j)'
  BY <1>7 DEF Scanning
<1>11. QED
  BY <1>3, <1>5, <1>8, <1>9, <1>10

\* A node without one of its inodes.
LEMMA InodeGone ==
    ASSUME NEW node \in SlaveNode, NEW i \in Inodes
    PROVE  /\ [node EXCEPT !.inode[i] = Absent] \in SlaveNode
           /\ [node EXCEPT !.inode[i] = Absent].inode[i] = Absent
           /\ \A j \in Inodes : j # i =>
                 [node EXCEPT !.inode[i] = Absent].inode[j] = node.inode[j]
<1>1. node.inode \in [Inodes -> InodeRec \cup {Absent}]
  BY DEF SlaveNode
<1> DEFINE g == [node.inode EXCEPT ![i] = Absent]
           m == [node EXCEPT !.inode[i] = Absent]
<1>2. /\ g \in [Inodes -> InodeRec \cup {Absent}] /\ g[i] = Absent
      /\ \A j \in Inodes : j # i => g[j] = node.inode[j]
  BY <1>1
<1>3. m = [node EXCEPT !.inode = g]
  OBVIOUS
<1> HIDE DEF g, m
<1>4. m \in SlaveNode /\ m.inode = g
  BY <1>2, <1>3 DEF SlaveNode
<1>5. QED
  BY <1>2, <1>4 DEF m

\* hammer2_sync_destroy, hammer2_sync_insert and hammer2_sync_replace: what is
\* made compatible does not pass for the master's before it is scanned.
LEMMA ScanRootKeeps ==
    ASSUME SyncInv, ScanRoot
    PROVE  SyncInv'
<1>1. /\ SyncTypes /\ TidsInv /\ AgreeInv /\ master \in SlaveNode /\ slave \in SlaveNode
      /\ update \subseteq Everything
  BY DEF SyncInv, SyncTypes
<1>2. PICK i \in Inodes : i = thr.key
  BY DEF ScanRoot
<1> DEFINE m == master.inode[i]
           s == slave.inode[i]
<1>3. thr.at = "scan" /\ thr.ip = Root /\ UNCHANGED <<master, tid>>
  BY DEF ScanRoot
<1>4. AgreeOf(i) /\ ~Scanning(i)
  BY <1>1, <1>3 DEF AgreeInv, Scanning, Root, Inodes
<1>5. <<i, 0>> \in Everything /\ \A x \in Everything : x[1] # i => x # <<i, 0>>
  BY DEF Everything
<1>6. ASSUME slave' \in SlaveNode,
             \A j \in Inodes : j # i => slave'.inode[j] = slave.inode[j],
             update' \subseteq Everything,
             \A x \in Everything : x[1] # i => (x \in update' <=> x \in update),
             slave'.inode[i] = Absent => \A x \in update' : x[1] # i,
             slave'.inode[i] # Absent =>
                /\ slave'.inode[i].tid <= tid
                /\ \A b \in Blocks : slave'.inode[i].data[b] <= tid,
             AgreeOf(i)',
             \/ /\ thr' = [thr EXCEPT !.key = thr.key + 1] /\ list' = list
                /\ master.inode[i] = Absent <=> slave'.inode[i] = Absent
                /\ Both(i)' => master.inode[i].tid = slave'.inode[i].tid
                /\ Both(i) => Both(i)'
             \/ /\ thr' = [thr EXCEPT !.key = thr.key + 1, !.needrescan = TRUE]
                /\ list' = <<i>> \o list /\ Both(i)'
      PROVE  SyncInv'
  <2>1. /\ thr' \in ThreadState /\ list' \in Seq(Inodes) /\ ThreadInv'
        /\ \A j : ~Scanning(j) => ~Scanning(j)'
        /\ \A j \in Inodes : ~Scanning(j)
    BY <1>2, <1>3, <1>6, RootGoesOn
  <2>2. QED
    BY <1>3, <1>6, <2>1, SlaveChange
<1>7. CASE /\ m = Absent /\ s # Absent
           /\ slave' = [slave EXCEPT !.inode[i] = Absent]
           /\ update' = {x \in update : x[1] # i}
           /\ thr' = [thr EXCEPT !.key = thr.key + 1] /\ list' = list
  <2>1. /\ slave' \in SlaveNode /\ slave'.inode[i] = Absent
        /\ \A j \in Inodes : j # i => slave'.inode[j] = slave.inode[j]
    BY <1>1, <1>7, InodeGone
  <2>2. ~Both(i)' /\ ~Both(i)
    BY <1>7, <2>1 DEF Both
  <2>3. AgreeOf(i)'
    BY <2>2 DEF AgreeOf
  <2>4. QED
    BY <1>1, <1>6, <1>7, <2>1, <2>2, <2>3
<1>8. CASE /\ m # Absent /\ s = Absent
           /\ slave' = [slave EXCEPT !.inode[i] = NewInode(0, m.meta)]
           /\ update' = update \cup {<<i, 0>>}
           /\ thr' = [thr EXCEPT !.key = thr.key + 1, !.needrescan = TRUE]
           /\ list' = <<i>> \o list
  <2> DEFINE r == NewInode(0, m.meta)
  <2>1. m.meta \in Nat /\ tid \in Nat
    BY <1>1, <1>8, InodeFacts DEF SyncTypes
  <2>2. r \in InodeRec /\ r.tid = 0 /\ \A b \in Blocks : r.data[b] = 0
    BY <2>1 DEF NewInode, InodeRec
  <2>3. slave' = [slave EXCEPT !.inode[i] = r] /\ r # Absent
    BY <1>8, <2>2, SynchroAssumption
  <2> HIDE DEF r
  <2>4. /\ slave' \in SlaveNode /\ slave'.inode[i] = r
        /\ \A j \in Inodes : j # i => slave'.inode[j] = slave.inode[j]
    BY <1>1, <2>2, <2>3, InodeWith
  <2>5. \A b \in Blocks : <<i, b>> \notin update'
    <3>1. \A x \in update : x[1] # i
      BY <1>1, <1>8 DEF TidsInv
    <3>2. \A b \in Blocks : <<i, b>> # <<i, 0>>
      BY DEF Blocks
    <3>3. QED
      BY <1>8, <3>1, <3>2
  <2>6. Raised(slave', i, update') = 0
    <3> DEFINE t == slave'
               u == update'
    <3>1. /\ t \in SlaveNode /\ t.inode[i] # Absent /\ t.inode[i].tid = 0 /\ 0 \in Nat
          /\ \A b \in Blocks : <<i, b>> \notin u
      BY <2>2, <2>3, <2>4, <2>5
    <3> HIDE DEF t, u
    <3>2. Raised(t, i, u) = 0
      BY <3>1, RaisedOnly
    <3>3. QED
      BY <3>2 DEF t, u
  <2>7. Comes(i)' = Comes(i) /\ 1 <= Comes(i) /\ Comes(i) \in Nat
    <3>1. 1 <= Comes(i) /\ Comes(i) \in Nat
      BY <1>8, Bounds
    <3>2. Comes(i)' = Comes(i)
      BY <1>3 DEF Comes, Everything
    <3>3. QED
      BY <3>1, <3>2
  <2>8. AgreeOf(i)'
    BY <2>2, <2>4, <2>6, <2>7 DEF AgreeOf
  <2>9. Both(i)'
    BY <1>3, <1>8, <2>3, <2>4 DEF Both
  <2>10. slave'.inode[i] # Absent => /\ slave'.inode[i].tid <= tid
                                      /\ \A b \in Blocks : slave'.inode[i].data[b] <= tid
    BY <2>1, <2>2, <2>4
  <2>11. slave'.inode[i] # Absent
    BY <2>3, <2>4
  <2>12. /\ update' \subseteq Everything
         /\ \A x \in Everything : x[1] # i => (x \in update' <=> x \in update)
    BY <1>1, <1>5, <1>8
  <2>13. QED
    BY <1>6, <1>8, <2>4, <2>8, <2>9, <2>10, <2>11, <2>12
<1>9. CASE /\ m # Absent /\ s # Absent /\ m.tid # s.tid
           /\ slave' = [slave EXCEPT !.inode[i].meta = m.meta]
           /\ update' = update \cup {<<i, 0>>}
           /\ thr' = [thr EXCEPT !.key = thr.key + 1, !.needrescan = TRUE]
           /\ list' = <<i>> \o list
  <2> DEFINE r == [s EXCEPT !.meta = m.meta]
  <2>1. m.meta \in Nat /\ s \in InodeRec
    BY <1>1, <1>9, InodeFacts
  <2>2. /\ r \in InodeRec /\ r.tid = s.tid /\ r.data = s.data /\ r.meta = m.meta
    BY <2>1 DEF InodeRec
  <2>3. slave' = [slave EXCEPT !.inode[i] = r] /\ r # Absent
    BY <1>1, <1>9, <2>2, SynchroAssumption
  <2> HIDE DEF r
  <2>4. /\ slave' \in SlaveNode /\ slave'.inode[i] = r
        /\ \A j \in Inodes : j # i => slave'.inode[j] = slave.inode[j]
    BY <1>1, <2>2, <2>3, InodeWith
  <2>5. Raised(slave', i, update') = Raised(slave, i, update)
    <3> DEFINE t == slave'
               u == update'
    <3>1. \A b \in Blocks : <<i, b>> # <<i, 0>>
      BY DEF Blocks
    <3>2. /\ t.inode[i].tid = slave.inode[i].tid /\ t.inode[i].data = slave.inode[i].data
          /\ \A b \in Blocks : <<i, b>> \in u <=> <<i, b>> \in update
      BY <1>9, <2>2, <2>4, <3>1
    <3> HIDE DEF t, u
    <3>3. Raised(t, i, u) = Raised(slave, i, update)
      BY <3>2, RaisedSame
    <3>4. QED
      BY <3>3 DEF t, u
  <2>6. Comes(i)' = Comes(i)
    BY <1>3 DEF Comes, Everything
  <2>7. Contents(slave, i) = Contents(master, i) =>
           Contents(slave, i)' = Contents(master, i)'
    BY <1>3, <2>2, <2>4 DEF Contents
  <2>8. AgreeOf(i)'
    BY <1>4, <1>9, <2>2, <2>4, <2>5, <2>6, <2>7 DEF AgreeOf, Both
  <2>9. Both(i)'
    BY <1>3, <1>9, <2>3, <2>4 DEF Both
  <2>10. slave'.inode[i].tid <= tid /\ \A b \in Blocks : slave'.inode[i].data[b] <= tid
    BY <1>1, <1>9, <2>2, <2>4 DEF TidsInv
  <2>11. QED
    BY <1>1, <1>5, <1>6, <1>9, <2>3, <2>4, <2>8, <2>9, <2>10
<1>10. CASE /\ ~(m = Absent /\ s # Absent) /\ ~(m # Absent /\ s = Absent)
            /\ ~(m # Absent /\ s # Absent /\ m.tid # s.tid)
            /\ thr' = [thr EXCEPT !.key = thr.key + 1]
            /\ UNCHANGED <<slave, update, list>>
  <2>1. /\ Comes(i)' = Comes(i) /\ Both(i)' = Both(i)
        /\ Contents(slave, i)' = Contents(slave, i)
        /\ Contents(master, i)' = Contents(master, i)
    BY <1>3, <1>10 DEF Comes, Everything, Both, Contents
  <2>2. AgreeOf(i)'
    BY <1>4, <1>10, <2>1 DEF AgreeOf
  <2>3. Both(i)' => master.inode[i].tid = slave'.inode[i].tid
    BY <1>3, <1>10 DEF Both
  <2>4. /\ slave'.inode[i] = Absent => \A x \in update' : x[1] # i
        /\ slave'.inode[i] # Absent =>
                /\ slave'.inode[i].tid <= tid
                /\ \A b \in Blocks : slave'.inode[i].data[b] <= tid
    BY <1>1, <1>10 DEF TidsInv
  <2>5. /\ slave' \in SlaveNode /\ \A j \in Inodes : j # i => slave'.inode[j] = slave.inode[j]
        /\ update' \subseteq Everything
        /\ \A x \in Everything : x[1] # i => (x \in update' <=> x \in update)
        /\ master.inode[i] = Absent <=> slave'.inode[i] = Absent
    BY <1>1, <1>10
  <2>6. QED
    BY <1>6, <1>10, <2>1, <2>2, <2>3, <2>4, <2>5
<1>11. QED
  BY <1>2, <1>7, <1>8, <1>9, <1>10
     DEF ScanRoot, Extraneous, Missing, Differs, Advance, Defer, Inserted

\* hammer2_sync_replace for a record of an inode: what is behind the key is the
\* master's.
LEMMA ScanInodeKeeps ==
    ASSUME SyncInv, ScanInode
    PROVE  SyncInv'
<1>1. /\ SyncTypes /\ TidsInv /\ ThreadInv /\ master \in SlaveNode /\ slave \in SlaveNode
      /\ update \subseteq Everything /\ thr \in ThreadState /\ list \in Seq(Inodes)
      /\ tid \in Nat /\ Root \notin Inodes
  BY DEF SyncInv, SyncTypes, Root, Inodes
<1>2. PICK i \in Inodes : i = thr.ip
  BY <1>1 DEF ScanInode, ThreadState
<1>3. PICK b \in Blocks : b = thr.key
  BY DEF ScanInode
<1> DEFINE m == master.inode[i].data[b]
           s == slave.inode[i].data[b]
<1>4. /\ thr.at = "scan" /\ UNCHANGED <<master, tid, list>>
      /\ thr' = [thr EXCEPT !.key = thr.key + 1]
      /\ slave' = [slave EXCEPT !.inode[i].data[b] = m]
      /\ update' = IF m = s THEN update ELSE IF m = 0 THEN update \ {<<i, b>>}
                                          ELSE update \cup {<<i, b>>}
  BY <1>2, <1>3 DEF ScanInode, Advance, Copied
<1>5. Scanning(i) /\ InodeScan(i) /\ Both(i)
  BY <1>1, <1>2, <1>4 DEF Scanning, ThreadInv, InodeScan
<1>6. /\ thr' \in ThreadState /\ thr'.at = "scan" /\ thr'.ip = i /\ thr'.key = b + 1
      /\ thr'.sync_tid = thr.sync_tid /\ thr'.needrescan = thr.needrescan
  BY <1>1, <1>2, <1>3, <1>4 DEF ThreadState
<1> DEFINE d == [slave.inode[i].data EXCEPT ![b] = m]
           r == [slave.inode[i] EXCEPT !.data = d]
<1>7. m \in Nat /\ m <= tid
  BY <1>1, <1>5, InodeFacts DEF Both, TidsInv
<1>8. slave.inode[i] \in InodeRec /\ slave.inode[i].data \in [Blocks -> Nat]
  BY <1>1, <1>5, InodeFacts DEF Both
<1>9. slave' = [slave EXCEPT !.inode[i] = r]
  BY <1>4
<1>10. d \in [Blocks -> Nat] /\ d[b] = m
         /\ \A c \in Blocks : c # b => d[c] = slave.inode[i].data[c]
  BY <1>7, <1>8
<1> HIDE DEF d
<1>11. r \in InodeRec /\ r.tid = slave.inode[i].tid /\ r.data = d
  BY <1>8, <1>10 DEF InodeRec
<1> HIDE DEF r
<1>12. r # Absent
  BY <1>11, SynchroAssumption
<1>13. /\ slave' \in SlaveNode /\ slave'.inode[i] = r
       /\ \A j \in Inodes : j # i => slave'.inode[j] = slave.inode[j]
  <2>1. slave' = WithInode(slave, i, r)
    BY <1>9 DEF WithInode
  <2>2. QED
    BY <1>1, <1>11, <2>1, ChangedInode
<1>14. /\ update' \subseteq Everything
       /\ \A x \in Everything : x[1] # i => (x \in update' <=> x \in update)
  <2>1. <<i, b>> \in Everything /\ \A x \in Everything : x[1] # i => x # <<i, b>>
    BY DEF Everything
  <2>2. \/ update' = update \/ update' = update \ {<<i, b>>}
        \/ update' = update \cup {<<i, b>>}
    BY <1>4
  <2>3. QED
    BY <1>1, <2>1, <2>2
<1>15. r.tid <= tid /\ \A c \in Blocks : r.data[c] <= tid
  BY <1>1, <1>5, <1>7, <1>10, <1>11 DEF TidsInv, Both
<1>16. \A j \in Inodes : Both(j) => Both(j)'
  BY <1>4, <1>12, <1>13 DEF Both
<1>17. (\A k \in DOMAIN list : Both(list[k]))'
  <2>1. \A k \in DOMAIN list : list[k] \in Inodes /\ Both(list[k])
    BY <1>1, <1>4 DEF ThreadInv
  <2>2. ASSUME NEW k \in DOMAIN list
        PROVE  master'.inode[list[k]] # Absent /\ slave'.inode[list[k]] # Absent
    <3>1. PICK j \in Inodes : j = list[k] /\ Both(j)
      BY <2>1
    <3>2. Both(j)'
      BY <1>16, <3>1
    <3>3. QED
      BY <3>1, <3>2 DEF Both
  <2>3. QED
    BY <1>4, <2>2 DEF Both
<1>18. InodeScan(i)'
  <2>1. /\ list' # << >> /\ ~thr'.needrescan /\ thr'.sync_tid = master'.inode[i].tid
        /\ thr'.key \in 1..NumBlocks + 1
    <3>1. b \in 1..NumBlocks /\ NumBlocks \in Nat
      BY SynchroAssumption DEF Blocks
    <3>2. QED
      BY <1>4, <1>5, <1>6, <3>1 DEF InodeScan
  <2>2. \A c \in Blocks : c < thr'.key => slave'.inode[i].data[c] = master'.inode[i].data[c]
    <3>1. \A c \in Blocks : c < b + 1 => c = b \/ c < b
      BY DEF Blocks
    <3>2. \A c \in Blocks : c < b => slave.inode[i].data[c] = master.inode[i].data[c] /\ c # b
      BY <1>3, <1>5 DEF InodeScan, Blocks
    <3>3. QED
      BY <1>4, <1>6, <1>10, <1>11, <1>13, <3>1, <3>2
  <2>3. Both(i)' /\ thr'.at # "final"
    BY <1>5, <1>6, <1>16
  <2>4. QED
    BY <2>1, <2>2, <2>3 DEF InodeScan
<1>19. ThreadInv'
  <2>1. ~Scanning(Root)' /\ \A j \in Inodes : Scanning(j)' => j = i
    BY <1>1, <1>6 DEF Scanning
  <2>2. QED
    BY <1>6, <1>17, <1>18, <2>1 DEF ThreadInv
<1>20. AgreeOf(i)'
  BY <1>6 DEF AgreeOf, Scanning
<1>21. \A j \in Inodes : j # i => ~Scanning(j)
  BY <1>2 DEF Scanning
<1>22. slave'.inode[i] # Absent => /\ slave'.inode[i].tid <= tid
                                   /\ \A c \in Blocks : slave'.inode[i].data[c] <= tid
  BY <1>13, <1>15
<1>23. slave'.inode[i] # Absent /\ list' \in Seq(Inodes)
  BY <1>1, <1>4, <1>12, <1>13
<1>24. QED
  BY <1>4, <1>6, <1>13, <1>14, <1>19, <1>20, <1>21, <1>22, <1>23, SlaveChange

\* hammer2_sync_replace for the inode itself, at the end of its scan.
LEMMA FinalizeKeeps ==
    ASSUME SyncInv, Finalize
    PROVE  SyncInv'
<1>1. /\ SyncTypes /\ TidsInv /\ ThreadInv /\ AgreeInv
      /\ master \in SlaveNode /\ slave \in SlaveNode
      /\ update \subseteq Everything /\ thr \in ThreadState /\ list \in Seq(Inodes)
      /\ tid \in Nat /\ Root \notin Inodes /\ thr.ip \in Inodes \cup {Root}
      /\ thr.sync_tid \in Nat
  BY DEF SyncInv, SyncTypes, Root, Inodes, ThreadState
<1>2. thr.at = "final" /\ UNCHANGED <<master, tid, list>>
  BY DEF Finalize
<1>3. CASE thr.ip = Root
  <2>1. /\ slave' = [slave EXCEPT !.root = thr.sync_tid] /\ update' = update /\ thr' = Idle
    BY <1>3 DEF Finalize, Finalized
  <2>2. /\ slave' \in SlaveNode /\ slave'.inode = slave.inode
    BY <1>1, <2>1 DEF SlaveNode
  <2>3. list = << >>
    BY <1>1, <1>2, <1>3 DEF ThreadInv, Scanning, RootScan
  <2>4. thr' \in ThreadState /\ thr'.at = "idle"
    BY <2>1 DEF Idle, ThreadState, ThreadPlaces
  <2>5. SyncTypes'
    BY <1>1, <1>2, <2>1, <2>2, <2>4 DEF SyncTypes
  <2>6. TidsInv'
    BY <1>1, <1>2, <2>1, <2>2 DEF TidsInv
  <2>7. ThreadInv'
    BY <1>2, <2>3, <2>4 DEF ThreadInv, Scanning
  <2>8. AgreeInv'
    <3> SUFFICES ASSUME NEW j \in Inodes  PROVE  AgreeOf(j)'
      BY DEF AgreeInv
    <3>1. AgreeOf(j) /\ ~Scanning(j)
      BY <1>1, <1>3 DEF AgreeInv, Scanning
    <3> DEFINE s == slave'
    <3>2. s.inode[j] = slave.inode[j]
      BY <2>2
    <3> HIDE DEF s
    <3>3. Raised(s, j, update) = Raised(slave, j, update)
      BY <3>2, RaisedSame
    <3>4. Raised(slave', j, update') = Raised(slave, j, update)
      BY <2>1, <3>3 DEF s
    <3>5. /\ Comes(j)' = Comes(j) /\ Both(j)' = Both(j)
          /\ Contents(slave, j)' = Contents(slave, j)
          /\ Contents(master, j)' = Contents(master, j)
      BY <1>2, <2>2 DEF Comes, Everything, Both, Contents
    <3>6. QED
      BY <2>2, <3>1, <3>4, <3>5 DEF AgreeOf
  <2>9. QED
    BY <2>5, <2>6, <2>7, <2>8 DEF SyncInv
<1>4. CASE thr.ip # Root
  <2>1. PICK i \in Inodes : i = thr.ip
    BY <1>1, <1>4
  <2>2. Scanning(i) /\ InodeScan(i) /\ Both(i)
    BY <1>1, <1>2, <2>1 DEF Scanning, ThreadInv, InodeScan
  <2> DEFINE t == thr.sync_tid
             e == master.inode[i].meta
             q == [slave.inode[i] EXCEPT !.tid = t]
             r == [q EXCEPT !.meta = e]
  <2>3. /\ slave' = [slave EXCEPT !.inode[i].tid = t, !.inode[i].meta = e]
        /\ update' = update \cup {<<i, 0>>} /\ thr' = [thr EXCEPT !.at = "synced"]
    BY <1>4, <2>1 DEF Finalize, Finalized
  <2>4. slave' = [slave EXCEPT !.inode[i] = r]
    BY <2>3
  <2>5. slave.inode[i] \in InodeRec /\ e \in Nat /\ t \in Nat /\ t <= tid
    BY <1>1, <2>2, InodeFacts DEF Both, InodeScan, TidsInv
  <2> HIDE DEF t, e
  <2>6. q \in InodeRec /\ q.tid = t /\ q.data = slave.inode[i].data
    BY <2>5 DEF InodeRec
  <2> HIDE DEF q
  <2>7. r \in InodeRec /\ r.tid = t /\ r.meta = e /\ r.data = slave.inode[i].data
    BY <2>5, <2>6 DEF InodeRec
  <2> HIDE DEF r
  <2>8. r # Absent
    BY <2>7, SynchroAssumption
  <2>9. /\ slave' \in SlaveNode /\ slave'.inode[i] = r
        /\ \A j \in Inodes : j # i => slave'.inode[j] = slave.inode[j]
    <3>1. slave' = WithInode(slave, i, r)
      BY <2>4 DEF WithInode
    <3>2. QED
      BY <1>1, <2>7, <3>1, ChangedInode
  <2>10. slave.inode[i].data = master.inode[i].data
    <3>1. \A b \in Blocks : slave.inode[i].data[b] = master.inode[i].data[b]
      BY <1>2, <2>2, SynchroAssumption DEF InodeScan, Blocks
    <3>2. /\ slave.inode[i].data \in [Blocks -> Nat]
          /\ master.inode[i].data \in [Blocks -> Nat]
      BY <1>1, <2>2, InodeFacts DEF Both
    <3>3. QED
      BY <3>1, <3>2
  <2>11. AgreeOf(i)'
    <3>1. Contents(slave, i)' = Contents(master, i)'
      BY <1>2, <2>7, <2>9, <2>10 DEF Contents, e
    <3>2. QED
      BY <3>1 DEF AgreeOf
  <2>12. \A j \in Inodes : Both(j) => Both(j)'
    BY <1>2, <2>8, <2>9 DEF Both
  <2>13. (\A k \in DOMAIN list : Both(list[k]))'
    <3>1. \A k \in DOMAIN list : list[k] \in Inodes /\ Both(list[k])
      BY <1>1, <1>2 DEF ThreadInv
    <3>2. ASSUME NEW k \in DOMAIN list
          PROVE  master'.inode[list[k]] # Absent /\ slave'.inode[list[k]] # Absent
      <4>1. PICK j \in Inodes : j = list[k] /\ Both(j)
        BY <3>1
      <4>2. Both(j)'
        BY <2>12, <4>1
      <4>3. QED
        BY <4>1, <4>2 DEF Both
    <3>3. QED
      BY <1>2, <3>2 DEF Both
  <2>14. thr' \in ThreadState /\ thr'.at = "synced"
    BY <1>1, <2>3 DEF ThreadState, ThreadPlaces
  <2>15. ThreadInv'
    <3>1. list' # << >>
      BY <1>2, <2>2 DEF InodeScan
    <3>2. QED
      BY <2>13, <2>14, <3>1 DEF ThreadInv, Scanning
  <2>16. /\ update' \subseteq Everything
         /\ \A x \in Everything : x[1] # i => (x \in update' <=> x \in update)
    <3>1. <<i, 0>> \in Everything /\ \A x \in Everything : x[1] # i => x # <<i, 0>>
      BY DEF Everything
    <3>2. QED
      BY <1>1, <2>3, <3>1
  <2>17. /\ slave'.inode[i] # Absent /\ slave'.inode[i].tid <= tid
         /\ \A b \in Blocks : slave'.inode[i].data[b] <= tid
    BY <1>1, <2>2, <2>5, <2>7, <2>8, <2>9 DEF Both, TidsInv
  <2>18. \A j \in Inodes : j # i => ~Scanning(j)
    BY <2>1 DEF Scanning
  <2>19. list' \in Seq(Inodes)
    BY <1>1, <1>2
  <2>20. QED
    BY <1>2, <2>9, <2>11, <2>14, <2>15, <2>16, <2>17, <2>18, <2>19, SlaveChange
<1>5. QED
  BY <1>3, <1>4

\* The nodes at the start: the master's root with one inode, the slave's empty.
LEMMA SyncInitInv ==
    ASSUME SyncInit
    PROVE  SyncInv
<1> DEFINE one == NewInode(1, 1)
<1>1. one \in InodeRec /\ one.tid = 1 /\ \A b \in Blocks : one.data[b] = 0
  BY DEF NewInode, InodeRec
<1>2. one # Absent
  BY <1>1, SynchroAssumption
<1>3. /\ master = [root |-> 1, inode |-> [i \in Inodes |-> IF i = 1 THEN one ELSE Absent]]
      /\ slave = [root |-> 0, inode |-> [i \in Inodes |-> Absent]]
      /\ tid = 1 /\ update = {} /\ thr = Idle /\ list = << >>
  BY DEF SyncInit
<1> HIDE DEF one
<1>4. /\ \A i \in Inodes : master.inode[i] = (IF i = 1 THEN one ELSE Absent)
      /\ \A i \in Inodes : slave.inode[i] = Absent
  BY <1>3
<1>5. SyncTypes
  BY <1>1, <1>3 DEF SyncTypes, SlaveNode, Idle, ThreadState, ThreadPlaces, Root
<1>6. TidsInv
  BY <1>1, <1>3, <1>4 DEF TidsInv
<1>7. ThreadInv
  BY <1>3 DEF ThreadInv, Scanning, Idle
<1>8. AgreeInv
  BY <1>4 DEF AgreeInv, AgreeOf, Both
<1>9. QED
  BY <1>5, <1>6, <1>7, <1>8 DEF SyncInv

\* A stuttering step.
LEMMA SyncStutters ==
    ASSUME SyncInv, UNCHANGED syncVars
    PROVE  SyncInv'
<1>1. UNCHANGED <<master, slave, tid, update, thr, list>>
  BY DEF syncVars
<1>2. SyncTypes' /\ TidsInv' /\ ThreadInv'
  BY <1>1 DEF SyncInv, SyncTypes, TidsInv, ThreadInv, Scanning, RootScan, InodeScan, Both
<1>3. AgreeInv'
  <2> SUFFICES ASSUME NEW j \in Inodes  PROVE  AgreeOf(j)'
    BY DEF AgreeInv
  <2>1. Raised(slave', j, update') = Raised(slave, j, update)
    BY <1>1
  <2>2. /\ Comes(j)' = Comes(j) /\ Both(j)' = Both(j) /\ Scanning(j)' = Scanning(j)
        /\ Contents(slave, j)' = Contents(slave, j)
        /\ Contents(master, j)' = Contents(master, j)
    BY <1>1 DEF Comes, Everything, Both, Contents, Scanning
  <2>3. QED
    BY <1>1, <2>1, <2>2 DEF SyncInv, AgreeInv, AgreeOf
<1>4. QED
  BY <1>2, <1>3 DEF SyncInv

\* Every step of the nodes and of the thread keeps the invariant, if the master is
\* not written while a pass runs.
LEMMA SyncKept ==
    ASSUME SyncInv, ~Concurrent, [SyncNext]_syncVars
    PROVE  SyncInv'
<1>1. ASSUME NEW i \in Inodes, Create(i) \/ SetAttr(i) \/ Erase(i)
      PROVE  SyncInv'
  BY <1>1, MasterKeeps, EraseKeeps
<1>2. ASSUME NEW i \in Inodes, NEW b \in Blocks, Write(i, b) \/ Truncate(i, b)
      PROVE  SyncInv'
  BY <1>2, MasterKeeps
<1>3. CASE MasterFlush
  BY <1>3, MasterFlushKeeps
<1>4. CASE SlaveFlush
  BY <1>4, SlaveFlushKeeps
<1>5. CASE SyncThread
  BY <1>5, BeginKeeps, BetweenKeeps, ScanRootKeeps, ScanInodeKeeps, FinalizeKeeps
     DEF SyncThread
<1>6. CASE UNCHANGED syncVars
  BY <1>6, SyncStutters
<1>7. QED
  BY <1>1, <1>2, <1>3, <1>4, <1>5, <1>6 DEF SyncNext

\* Without writes during a pass, the invariant of the synchronisation holds.
THEOREM SyncInvariance ==
    ASSUME ~Concurrent  PROVE SyncSpec => []SyncInv
<1>1. SyncInit => SyncInv
  BY SyncInitInv
<1>2. SyncInv /\ [SyncNext]_syncVars => SyncInv'
  BY SyncKept
<1>3. QED
  BY <1>1, <1>2, PTL DEF SyncSpec

\* What a flushed master's inode brings is its own modify_tid.
LEMMA FlushedComes ==
    ASSUME SyncInv, MasterFlushed, NEW i \in Inodes, master.inode[i] # Absent
    PROVE  Comes(i) = master.inode[i].tid
<1>1. master \in SlaveNode /\ tid \in Nat /\ master.root \in Nat /\ TidsInv
  BY DEF SyncInv, SyncTypes, SlaveNode
<1> DEFINE f == Flushed(master, Everything)
<1>2. PICK n \in Nat : master.root <= n /\ tid <= n
  BY <1>1
<1>3. \A j \in Inodes : master.inode[j] # Absent =>
         master.inode[j].tid <= n /\ \A b \in Blocks : master.inode[j].data[b] <= n
  <2> SUFFICES ASSUME NEW j \in Inodes, master.inode[j] # Absent
               PROVE  master.inode[j].tid <= n /\ \A b \in Blocks : master.inode[j].data[b] <= n
    OBVIOUS
  <2>1. master.inode[j].tid \in Nat /\ \A b \in Blocks : master.inode[j].data[b] \in Nat
    BY <1>1, InodeFacts
  <2>2. master.inode[j].tid <= tid /\ \A b \in Blocks : master.inode[j].data[b] <= tid
    BY <1>1 DEF TidsInv
  <2>3. QED
    BY <1>1, <1>2, <2>1, <2>2
<1>4. f.inode[i].tid = IF \E x \in Everything : x[1] = i THEN Raised(master, i, Everything)
                       ELSE master.inode[i].tid
  BY <1>1, <1>2, <1>3, FlushedIs
<1>5. <<i, 0>> \in Everything /\ <<i, 0>>[1] = i
  BY DEF Everything
<1>6. f = master
  BY DEF MasterFlushed, Everything
<1> HIDE DEF f
<1>7. QED
  BY <1>4, <1>5, <1>6 DEF Comes

\* An inode of the slave that bears the modify_tid of the master's has the same
\* contents, however the passes that made it were cut short: it may be read and
\* need not be scanned again.
THEOREM InodesAreTheSame ==
    ASSUME ~Concurrent  PROVE SyncSpec => []InodesAgree
<1>1. SyncInv => InodesAgree
  <2> SUFFICES ASSUME SyncInv, Quiet, NEW i \in Inodes, slave.inode[i] # Absent,
                      master.inode[i] # Absent, slave.inode[i].tid = master.inode[i].tid
               PROVE  Contents(slave, i) = Contents(master, i)
    BY DEF InodesAgree
  <2>1. AgreeOf(i) /\ ~Scanning(i)
    BY DEF SyncInv, AgreeInv, Quiet, Scanning
  <2>2. Comes(i) = master.inode[i].tid
    BY FlushedComes DEF Quiet
  <2>3. QED
    BY <2>1, <2>2 DEF AgreeOf, Both
<1>2. QED
  BY <1>1, SyncInvariance, PTL

\* A pass that ends over a flushed master, with no deferred inode left, leaves the
\* slave with the master's inodes and their contents.
THEOREM PassesEndTheSame ==
    ASSUME ~Concurrent  PROVE SyncSpec => PassEndsSame
<1>1. ASSUME SyncInv, [SyncNext]_syncVars, thr.at = "final", thr.ip = Root, thr' = Idle,
             MasterFlushed
      PROVE  Same'
  <2>1. RootScan /\ thr.key = NumInodes + 1 /\ ~thr.needrescan /\ AgreeInv
    BY <1>1 DEF SyncInv, ThreadInv, Scanning, RootScan
  <2>2. \A i \in Inodes :
            /\ master.inode[i] = Absent <=> slave.inode[i] = Absent
            /\ Both(i) => master.inode[i].tid = slave.inode[i].tid
    BY <2>1, SynchroAssumption DEF RootScan, Inodes
  <2>3. master' = master /\ slave'.inode = slave.inode
    <3>1. thr'.at = "idle" /\ thr' # thr
      BY <1>1 DEF Idle
    <3>2. Finalize
      BY <1>1, <3>1 DEF SyncNext, SyncThread, Create, SetAttr, Erase, Write, Truncate, MayChange,
         MasterFlush, SlaveFlush, SyncRoot, SyncDeferred, ScanRoot, ScanInode, ScanEnd, Popped,
         Break, syncVars
    <3>3. master' = master /\ slave' = [slave EXCEPT !.root = thr.sync_tid] /\ slave \in SlaveNode
      BY <1>1, <3>2 DEF Finalize, Finalized, SyncInv, SyncTypes
    <3>4. QED
      BY <3>3 DEF SlaveNode
  <2>4. ASSUME NEW i \in Inodes, master.inode[i] # Absent
        PROVE  Contents(slave, i) = Contents(master, i)
    <3>1. Both(i) /\ AgreeOf(i) /\ ~Scanning(i)
      BY <1>1, <2>1, <2>2, <2>4 DEF Both, AgreeInv, Scanning, Root, Inodes
    <3>2. Comes(i) = master.inode[i].tid
      BY <1>1, <2>4, FlushedComes
    <3>3. QED
      BY <2>2, <3>1, <3>2 DEF AgreeOf
  <2>5. QED
    BY <2>2, <2>3, <2>4 DEF Same, Contents
<1>2. SyncInv /\ [SyncNext]_syncVars =>
         ((thr.at = "final" /\ thr.ip = Root /\ thr' = Idle /\ MasterFlushed) => Same')
  BY <1>1
<1>3. QED
  BY <1>2, SyncInvariance, PTL DEF SyncSpec, PassEndsSame

-----------------------------------------------------------------------------
(* The spanning tree.                                                        *)

\* A sequence of the elements of a set with at most one.
LEMMA NoneToSeq == SetToSeq({}) = <<>>
<1> DEFINE F == [1..Cardinality({}) -> {}]
           e == [i \in 1..0 |-> i]
<1>1. F = [1..0 -> {}] /\ 1..0 = {}
  BY FS_EmptySet
<1>2. e \in F /\ \A f \in F : f = e
  BY <1>1
<1>3. IsInjective(e)
  BY DEF IsInjective
<1>4. e = <<>>
  OBVIOUS
<1> HIDE DEF F, e
<1>5. QED
  BY <1>2, <1>3, <1>4 DEF SetToSeq, F

\* And of exactly one.
LEMMA OneToSeq == ASSUME NEW m PROVE SetToSeq({m}) = <<m>>
<1> DEFINE F == [1..Cardinality({m}) -> {m}]
           e == [i \in 1..1 |-> m]
<1>0. Cardinality({m}) = 1
  BY FS_Singleton
<1>1. F = [1..1 -> {m}] /\ 1..1 = {1}
  BY <1>0
<1>2. e \in F /\ \A f \in F : f = e
  BY <1>1
<1>3. IsInjective(e)
  BY <1>1 DEF IsInjective
<1>4. e = <<m>>
  OBVIOUS
<1> HIDE DEF F, e
<1>5. QED
  BY <1>2, <1>3, <1>4 DEF SetToSeq, F

-----------------------------------------------------------------------------
\* One connection: the relays R at its sender, the links L at its receiver and
\* the messages w under way.
StreamOK(R, L, w) ==
    /\ \A x, y \in R : x.id = y.id => x = y
    /\ \A l, k \in L : l.id = k.id => l = k
    /\ \A j, k \in DOMAIN w : j < k /\ w[j].id = w[k].id =>
          w[j].cmd = "CREATE" /\ w[k].cmd = "DELETE"
    /\ \A j \in DOMAIN w : w[j].cmd = "CREATE" => \A l \in L : l.id # w[j].id
    /\ \A j \in DOMAIN w : w[j].cmd = "DELETE" => \A x \in R : x.id # w[j].id
    /\ \A j \in DOMAIN w :
          w[j].cmd = "DELETE" /\ (\A k \in DOMAIN w : w[k].id = w[j].id => w[k].cmd = "DELETE")
            => \E l \in L : l.id = w[j].id
    /\ \A j \in DOMAIN w :
          w[j].cmd = "CREATE" /\ (\A k \in DOMAIN w : w[k].id = w[j].id => w[k].cmd = "CREATE")
            => \E x \in R : x.id = w[j].id /\ RelayedDist(x.src) = w[j].dist
    /\ \A x \in R : (\A k \in DOMAIN w : w[k].id # x.id)
            => \E l \in L : l.id = x.id /\ l.dist = RelayedDist(x.src)
    /\ \A l \in L : (\A k \in DOMAIN w : w[k].id # l.id)
            => \E x \in R : x.id = l.id /\ l.dist = RelayedDist(x.src)

\* A message more at the end.
LEMMA Longer ==
    ASSUME NEW w \in Seq(SpanMessage), NEW m \in SpanMessage
    PROVE  /\ Append(w, m) \in Seq(SpanMessage) /\ w \o <<m>> = Append(w, m)
           /\ DOMAIN Append(w, m) = DOMAIN w \cup {Len(w) + 1}
           /\ Len(w) \in Nat /\ DOMAIN w = 1..Len(w)
           /\ Append(w, m)[Len(w) + 1] = m
           /\ \A j \in DOMAIN w : Append(w, m)[j] = w[j] /\ j < Len(w) + 1 /\ j \in Nat
                                  /\ w[j] \in SpanMessage
  OBVIOUS

\* A message less at the front.
LEMMA Shorter ==
    ASSUME NEW w \in Seq(SpanMessage), w # <<>>
    PROVE  /\ Tail(w) \in Seq(SpanMessage) /\ Head(w) = w[1] /\ Head(w) \in SpanMessage
           /\ Len(w) \in Nat \ {0} /\ DOMAIN w = 1..Len(w) /\ DOMAIN Tail(w) = 1..(Len(w) - 1)
           /\ \A j \in DOMAIN Tail(w) : Tail(w)[j] = w[j + 1] /\ j + 1 \in DOMAIN w /\ j \in Nat
           /\ \A j \in DOMAIN w : j # 1 => \E i \in DOMAIN Tail(w) : Tail(w)[i] = w[j]
<1>1. /\ Tail(w) \in Seq(SpanMessage) /\ Head(w) = w[1] /\ Head(w) \in SpanMessage
      /\ Len(w) \in Nat \ {0} /\ DOMAIN w = 1..Len(w) /\ DOMAIN Tail(w) = 1..(Len(w) - 1)
  OBVIOUS
<1>2. \A j \in DOMAIN Tail(w) : Tail(w)[j] = w[j + 1] /\ j + 1 \in DOMAIN w /\ j \in Nat
  OBVIOUS
<1>3. \A j \in DOMAIN w : j # 1 => j - 1 \in DOMAIN Tail(w) /\ Tail(w)[j - 1] = w[j]
  OBVIOUS
<1>4. QED
  BY <1>1, <1>2, <1>3

\* dmsg_generate_relay: a transaction that neither end knows.
LEMMA StreamCreates ==
    ASSUME NEW R, NEW L, NEW w \in Seq(SpanMessage), StreamOK(R, L, w), NEW x \in Relay,
           \A y \in R : y.id # x.id, \A l \in L : l.id # x.id,
           \A j \in DOMAIN w : w[j].id # x.id
    PROVE  StreamOK(R \cup {x}, L, Append(w, CreateSpan(x)))
<1> DEFINE m == CreateSpan(x)  v == Append(w, m)  n == Len(w) + 1  S == R \cup {x}
<1>1. m \in SpanMessage /\ m.cmd = "CREATE" /\ m.id = x.id /\ m.dist = RelayedDist(x.src)
  BY DEF CreateSpan, SpanMessage, Relay, Link, RelayedDist
<1> HIDE DEF m
<1>2. /\ DOMAIN v = DOMAIN w \cup {n} /\ v[n] = m /\ n \in Nat
      /\ \A j \in DOMAIN w : v[j] = w[j] /\ j < n /\ j \in Nat
  BY <1>1, Longer
<1> HIDE DEF v, n
<1>3. \A j, k \in DOMAIN v : j < k /\ v[j].id = v[k].id => v[j].cmd = "CREATE" /\ v[k].cmd = "DELETE"
  BY <1>1, <1>2 DEF StreamOK
<1>4. \A j \in DOMAIN v : v[j].cmd = "CREATE" => \A l \in L : l.id # v[j].id
  BY <1>1, <1>2 DEF StreamOK
<1>5. \A j \in DOMAIN v : v[j].cmd = "DELETE" => \A y \in S : y.id # v[j].id
  BY <1>1, <1>2 DEF StreamOK
<1>6. ASSUME NEW j \in DOMAIN v, v[j].cmd = "DELETE",
             \A k \in DOMAIN v : v[k].id = v[j].id => v[k].cmd = "DELETE"
      PROVE  \E l \in L : l.id = v[j].id
  <2>1. j \in DOMAIN w /\ w[j] = v[j]
    BY <1>1, <1>2, <1>6
  <2>2. \A k \in DOMAIN w : w[k].id = w[j].id => w[k].cmd = "DELETE"
    BY <1>2, <1>6, <2>1
  <2>3. QED
    BY <1>6, <2>1, <2>2 DEF StreamOK
<1>7. ASSUME NEW j \in DOMAIN v, v[j].cmd = "CREATE",
             \A k \in DOMAIN v : v[k].id = v[j].id => v[k].cmd = "CREATE"
      PROVE  \E y \in S : y.id = v[j].id /\ RelayedDist(y.src) = v[j].dist
  <2>1. CASE j = n
    BY <1>1, <1>2, <2>1
  <2>2. CASE j \in DOMAIN w
    <3>1. \A k \in DOMAIN w : w[k].id = w[j].id => w[k].cmd = "CREATE"
      BY <1>2, <1>7, <2>2
    <3>2. \E y \in R : y.id = w[j].id /\ RelayedDist(y.src) = w[j].dist
      BY <1>2, <1>7, <2>2, <3>1 DEF StreamOK
    <3>3. QED
      BY <1>2, <2>2, <3>2
  <2>3. QED
    BY <1>2, <2>1, <2>2
<1>8. ASSUME NEW y \in S, \A k \in DOMAIN v : v[k].id # y.id
      PROVE  \E l \in L : l.id = y.id /\ l.dist = RelayedDist(y.src)
  <2>1. y \in R /\ \A k \in DOMAIN w : w[k].id # y.id
    BY <1>1, <1>2, <1>8
  <2>2. QED
    BY <2>1 DEF StreamOK
<1>9. ASSUME NEW l \in L, \A k \in DOMAIN v : v[k].id # l.id
      PROVE  \E y \in S : y.id = l.id /\ l.dist = RelayedDist(y.src)
  <2>1. \A k \in DOMAIN w : w[k].id # l.id
    BY <1>2, <1>9
  <2>2. QED
    BY <2>1 DEF StreamOK
<1>10. /\ \A y, z \in S : y.id = z.id => y = z
       /\ \A l, k \in L : l.id = k.id => l = k
  BY DEF StreamOK
<1>11. StreamOK(S, L, v)
  BY <1>3, <1>4, <1>5, <1>6, <1>7, <1>8, <1>9, <1>10 DEF StreamOK
<1>12. QED
  BY <1>11 DEF v, m

\* dmsg_relay_delete: the end of a transaction of the sender's.
LEMMA StreamDeletes ==
    ASSUME NEW R, NEW L, NEW w \in Seq(SpanMessage), StreamOK(R, L, w), NEW x \in R, x \in Relay
    PROVE  StreamOK(R \ {x}, L, Append(w, DeleteSpan(x)))
<1> DEFINE m == DeleteSpan(x)  v == Append(w, m)  n == Len(w) + 1  S == R \ {x}
<1>1. m \in SpanMessage /\ m.cmd = "DELETE" /\ m.id = x.id
  BY DEF DeleteSpan, SpanMessage, Relay
<1> HIDE DEF m
<1>2. /\ DOMAIN v = DOMAIN w \cup {n} /\ v[n] = m /\ n \in Nat
      /\ \A j \in DOMAIN w : v[j] = w[j] /\ j < n /\ j \in Nat /\ w[j] \in SpanMessage
  BY <1>1, Longer
<1> HIDE DEF v, n
<1>0. \A j \in DOMAIN w : w[j].id = x.id => w[j].cmd = "CREATE"
  BY <1>2 DEF StreamOK, SpanMessage
<1>3. \A j, k \in DOMAIN v : j < k /\ v[j].id = v[k].id => v[j].cmd = "CREATE" /\ v[k].cmd = "DELETE"
  BY <1>0, <1>1, <1>2 DEF StreamOK
<1>4. \A j \in DOMAIN v : v[j].cmd = "CREATE" => \A l \in L : l.id # v[j].id
  BY <1>1, <1>2 DEF StreamOK
<1>5. \A j \in DOMAIN v : v[j].cmd = "DELETE" => \A y \in S : y.id # v[j].id
  BY <1>1, <1>2 DEF StreamOK
<1>6. ASSUME NEW j \in DOMAIN v, v[j].cmd = "DELETE",
             \A k \in DOMAIN v : v[k].id = v[j].id => v[k].cmd = "DELETE"
      PROVE  \E l \in L : l.id = v[j].id
  <2>1. CASE j = n
    <3>1. \A k \in DOMAIN w : w[k].id # x.id
      BY <1>0, <1>1, <1>2, <1>6, <2>1
    <3>2. QED
      BY <1>1, <1>2, <2>1, <3>1 DEF StreamOK
  <2>2. CASE j \in DOMAIN w
    <3>1. \A k \in DOMAIN w : w[k].id = w[j].id => w[k].cmd = "DELETE"
      BY <1>2, <1>6, <2>2
    <3>2. \E l \in L : l.id = w[j].id
      BY <1>2, <1>6, <2>2, <3>1 DEF StreamOK
    <3>3. QED
      BY <1>2, <2>2, <3>2
  <2>3. QED
    BY <1>2, <2>1, <2>2
<1>7. ASSUME NEW j \in DOMAIN v, v[j].cmd = "CREATE",
             \A k \in DOMAIN v : v[k].id = v[j].id => v[k].cmd = "CREATE"
      PROVE  \E y \in S : y.id = v[j].id /\ RelayedDist(y.src) = v[j].dist
  <2>1. j \in DOMAIN w /\ w[j] = v[j] /\ w[j].id # x.id
    BY <1>1, <1>2, <1>7
  <2>2. \A k \in DOMAIN w : w[k].id = w[j].id => w[k].cmd = "CREATE"
    BY <1>2, <1>7, <2>1
  <2>3. \E y \in R : y.id = w[j].id /\ RelayedDist(y.src) = w[j].dist
    BY <1>7, <2>1, <2>2 DEF StreamOK
  <2>4. QED
    BY <2>1, <2>3
<1>8. ASSUME NEW y \in S, \A k \in DOMAIN v : v[k].id # y.id
      PROVE  \E l \in L : l.id = y.id /\ l.dist = RelayedDist(y.src)
  <2>1. \A k \in DOMAIN w : w[k].id # y.id
    BY <1>2, <1>8
  <2>2. QED
    BY <2>1 DEF StreamOK
<1>9. ASSUME NEW l \in L, \A k \in DOMAIN v : v[k].id # l.id
      PROVE  \E y \in S : y.id = l.id /\ l.dist = RelayedDist(y.src)
  <2>1. \A k \in DOMAIN w : w[k].id # l.id
    BY <1>2, <1>9
  <2>2. l.id # x.id
    BY <1>1, <1>2, <1>9
  <2>3. \E y \in R : y.id = l.id /\ l.dist = RelayedDist(y.src)
    BY <2>1 DEF StreamOK
  <2>4. QED
    BY <2>2, <2>3
<1>10. /\ \A y, z \in S : y.id = z.id => y = z
       /\ \A l, k \in L : l.id = k.id => l = k
  BY DEF StreamOK
<1>11. StreamOK(S, L, v)
  BY <1>3, <1>4, <1>5, <1>6, <1>7, <1>8, <1>9, <1>10 DEF StreamOK
<1>12. QED
  BY <1>11 DEF v, m

\* dmsg_lnk_span reads the start of a transaction.
LEMMA StreamOpens ==
    ASSUME NEW R, NEW L, NEW w \in Seq(SpanMessage), StreamOK(R, L, w), w # <<>>,
           Head(w).cmd = "CREATE", NEW l, l.id = Head(w).id, l.dist = Head(w).dist
    PROVE  StreamOK(R, L \cup {l}, Tail(w))
<1> DEFINE v == Tail(w)  M == L \cup {l}
<1>1. /\ Head(w) = w[1] /\ 1 \in DOMAIN w
      /\ \A j \in DOMAIN v : v[j] = w[j + 1] /\ j + 1 \in DOMAIN w /\ j \in Nat /\ 1 < j + 1
      /\ \A j \in DOMAIN w : j # 1 => \E i \in DOMAIN v : v[i] = w[j]
  <2>1. Len(w) \in Nat \ {0} /\ DOMAIN w = 1..Len(w) /\ DOMAIN v = 1..(Len(w) - 1)
    BY Shorter
  <2>2. 1 \in DOMAIN w /\ \A j \in DOMAIN v : j \in Nat /\ 1 < j + 1
    BY <2>1
  <2>3. QED
    BY <2>2, Shorter
<1> HIDE DEF v
<1>0. \A j \in DOMAIN v : v[j].id = l.id => v[j].cmd = "DELETE"
  BY <1>1 DEF StreamOK
<1>2. \A k \in L : k.id # l.id
  BY <1>1 DEF StreamOK
<1>3. \A j, k \in DOMAIN v : j < k /\ v[j].id = v[k].id => v[j].cmd = "CREATE" /\ v[k].cmd = "DELETE"
  <2>1. ASSUME NEW j \in DOMAIN v, NEW k \in DOMAIN v, j < k, v[j].id = v[k].id
        PROVE  v[j].cmd = "CREATE" /\ v[k].cmd = "DELETE"
    <3>1. j + 1 < k + 1 /\ j + 1 \in DOMAIN w /\ k + 1 \in DOMAIN w
      BY <1>1, <2>1
    <3>2. QED
      BY <1>1, <2>1, <3>1 DEF StreamOK
  <2>2. QED
    BY <2>1
<1>4. \A j \in DOMAIN v : v[j].cmd = "CREATE" => \A k \in M : k.id # v[j].id
  BY <1>0, <1>1 DEF StreamOK
<1>5. \A j \in DOMAIN v : v[j].cmd = "DELETE" => \A y \in R : y.id # v[j].id
  BY <1>1 DEF StreamOK
<1>6. ASSUME NEW j \in DOMAIN v, v[j].cmd = "DELETE",
             \A k \in DOMAIN v : v[k].id = v[j].id => v[k].cmd = "DELETE"
      PROVE  \E k \in M : k.id = v[j].id
  <2>1. CASE v[j].id = l.id
    BY <2>1
  <2>2. CASE v[j].id # l.id
    <3>1. \A k \in DOMAIN w : w[k].id = v[j].id => w[k].cmd = "DELETE"
      BY <1>1, <1>6, <2>2
    <3>2. QED
      BY <1>1, <1>6, <3>1 DEF StreamOK
  <2>3. QED
    BY <2>1, <2>2
<1>7. ASSUME NEW j \in DOMAIN v, v[j].cmd = "CREATE",
             \A k \in DOMAIN v : v[k].id = v[j].id => v[k].cmd = "CREATE"
      PROVE  \E y \in R : y.id = v[j].id /\ RelayedDist(y.src) = v[j].dist
  <2>1. v[j].id # l.id
    BY <1>0, <1>7
  <2>2. \A k \in DOMAIN w : w[k].id = v[j].id => w[k].cmd = "CREATE"
    BY <1>1, <1>7, <2>1
  <2>3. QED
    BY <1>1, <1>7, <2>2 DEF StreamOK
<1>8. ASSUME NEW y \in R, \A k \in DOMAIN v : v[k].id # y.id
      PROVE  \E k \in M : k.id = y.id /\ k.dist = RelayedDist(y.src)
  <2>1. CASE y.id = l.id
    <3>1. \A k \in DOMAIN w : w[k].id = w[1].id => w[k].cmd = "CREATE"
      BY <1>1, <1>8, <2>1
    <3>2. PICK z \in R : z.id = w[1].id /\ RelayedDist(z.src) = w[1].dist
      BY <1>1, <3>1 DEF StreamOK
    <3>3. z = y
      BY <1>1, <2>1, <3>2 DEF StreamOK
    <3>4. QED
      BY <1>1, <2>1, <3>2, <3>3
  <2>2. CASE y.id # l.id
    <3>1. \A k \in DOMAIN w : w[k].id # y.id
      BY <1>1, <1>8, <2>2
    <3>2. QED
      BY <3>1 DEF StreamOK
  <2>3. QED
    BY <2>1, <2>2
<1>9. ASSUME NEW k \in M, \A j \in DOMAIN v : v[j].id # k.id
      PROVE  \E y \in R : y.id = k.id /\ k.dist = RelayedDist(y.src)
  <2>1. CASE k = l
    <3>1. \A j \in DOMAIN w : w[j].id = w[1].id => w[j].cmd = "CREATE"
      BY <1>1, <1>9, <2>1
    <3>2. QED
      BY <1>1, <2>1, <3>1 DEF StreamOK
  <2>2. CASE k \in L
    <3>1. \A j \in DOMAIN w : w[j].id # k.id
      BY <1>1, <1>2, <1>9, <2>2
    <3>2. QED
      BY <2>2, <3>1 DEF StreamOK
  <2>3. QED
    BY <2>1, <2>2
<1>10. /\ \A y, z \in R : y.id = z.id => y = z
       /\ \A j, k \in M : j.id = k.id => j = k
  BY <1>2 DEF StreamOK
<1>11. StreamOK(R, M, v)
  BY <1>3, <1>4, <1>5, <1>6, <1>7, <1>8, <1>9, <1>10 DEF StreamOK
<1>12. QED
  BY <1>11 DEF v

\* dmsg_lnk_span reads the end of one.
LEMMA StreamEnds ==
    ASSUME NEW R, NEW L, NEW w \in Seq(SpanMessage), StreamOK(R, L, w), w # <<>>,
           Head(w).cmd = "DELETE", NEW l \in L, l.id = Head(w).id
    PROVE  StreamOK(R, L \ {l}, Tail(w))
<1> DEFINE v == Tail(w)  M == L \ {l}
<1>1. /\ Head(w) = w[1] /\ 1 \in DOMAIN w
      /\ \A j \in DOMAIN v : v[j] = w[j + 1] /\ j + 1 \in DOMAIN w /\ j \in Nat /\ 1 < j + 1
      /\ \A j \in DOMAIN w : j # 1 => \E i \in DOMAIN v : v[i] = w[j]
  <2>1. Len(w) \in Nat \ {0} /\ DOMAIN w = 1..Len(w) /\ DOMAIN v = 1..(Len(w) - 1)
    BY Shorter
  <2>2. 1 \in DOMAIN w /\ \A j \in DOMAIN v : j \in Nat /\ 1 < j + 1
    BY <2>1
  <2>3. QED
    BY <2>2, Shorter
<1> HIDE DEF v
<1>0. \A j \in DOMAIN v : v[j].id # l.id
  BY <1>1 DEF StreamOK
<1>2. \A k \in M : k.id # l.id
  BY DEF StreamOK
<1>3. \A j, k \in DOMAIN v : j < k /\ v[j].id = v[k].id => v[j].cmd = "CREATE" /\ v[k].cmd = "DELETE"
  <2>1. ASSUME NEW j \in DOMAIN v, NEW k \in DOMAIN v, j < k, v[j].id = v[k].id
        PROVE  v[j].cmd = "CREATE" /\ v[k].cmd = "DELETE"
    <3>1. j + 1 < k + 1 /\ j + 1 \in DOMAIN w /\ k + 1 \in DOMAIN w
      BY <1>1, <2>1
    <3>2. QED
      BY <1>1, <2>1, <3>1 DEF StreamOK
  <2>2. QED
    BY <2>1
<1>4. \A j \in DOMAIN v : v[j].cmd = "CREATE" => \A k \in M : k.id # v[j].id
  BY <1>1 DEF StreamOK
<1>5. \A j \in DOMAIN v : v[j].cmd = "DELETE" => \A y \in R : y.id # v[j].id
  BY <1>1 DEF StreamOK
<1>6. ASSUME NEW j \in DOMAIN v, v[j].cmd = "DELETE",
             \A k \in DOMAIN v : v[k].id = v[j].id => v[k].cmd = "DELETE"
      PROVE  \E k \in M : k.id = v[j].id
  <2>1. \A k \in DOMAIN w : w[k].id = v[j].id => w[k].cmd = "DELETE"
    BY <1>0, <1>1, <1>6
  <2>2. \E k \in L : k.id = v[j].id
    BY <1>1, <1>6, <2>1 DEF StreamOK
  <2>3. QED
    BY <1>0, <2>2
<1>7. ASSUME NEW j \in DOMAIN v, v[j].cmd = "CREATE",
             \A k \in DOMAIN v : v[k].id = v[j].id => v[k].cmd = "CREATE"
      PROVE  \E y \in R : y.id = v[j].id /\ RelayedDist(y.src) = v[j].dist
  <2>1. \A k \in DOMAIN w : w[k].id = v[j].id => w[k].cmd = "CREATE"
    BY <1>0, <1>1, <1>7
  <2>2. QED
    BY <1>1, <1>7, <2>1 DEF StreamOK
<1>8. ASSUME NEW y \in R, \A k \in DOMAIN v : v[k].id # y.id
      PROVE  \E k \in M : k.id = y.id /\ k.dist = RelayedDist(y.src)
  <2>1. y.id # l.id
    BY <1>1 DEF StreamOK
  <2>2. \A k \in DOMAIN w : w[k].id # y.id
    BY <1>1, <1>8, <2>1
  <2>3. \E k \in L : k.id = y.id /\ k.dist = RelayedDist(y.src)
    BY <2>2 DEF StreamOK
  <2>4. QED
    BY <2>1, <2>3
<1>9. ASSUME NEW k \in M, \A j \in DOMAIN v : v[j].id # k.id
      PROVE  \E y \in R : y.id = k.id /\ k.dist = RelayedDist(y.src)
  <2>1. \A j \in DOMAIN w : w[j].id # k.id
    BY <1>1, <1>2, <1>9
  <2>2. QED
    BY <2>1 DEF StreamOK
<1>10. /\ \A y, z \in R : y.id = z.id => y = z
       /\ \A j, k \in M : j.id = k.id => j = k
  BY DEF StreamOK
<1>11. StreamOK(R, M, v)
  BY <1>3, <1>4, <1>5, <1>6, <1>7, <1>8, <1>9, <1>10 DEF StreamOK
<1>12. QED
  BY <1>11 DEF v
-----------------------------------------------------------------------------
\* What a web of services keeps.  At most one span is relayed over a connection,
\* also while it is torn down.
SpanTyped ==
    /\ live \subseteq conns /\ conns \subseteq Peers
    /\ \A p \in live : <<p[2], p[1]>> \in live
    /\ links \in [Routers -> SUBSET Link] /\ \A r \in Routers : IsFiniteSet(links[r])
    /\ relays \in [Routers -> SUBSET Relay]
    /\ wire \in [Peers -> Seq(SpanMessage)]
    /\ swork \in [Routers -> BOOLEAN]
OneRelay == \A p \in conns : \A x, y \in Relayed(p) : x = y
StreamsOK == \A p \in live : StreamOK(Relayed(p), Received(p), wire[p])
SpanInv == SpanTyped /\ OneRelay /\ RelaysFollowBest /\ StreamsOK

\* A connection has two ends.
LEMMA PeersAre ==
    ASSUME NEW p \in Peers
    PROVE  /\ p = <<p[1], p[2]>> /\ p[1] \in Routers /\ p[2] \in Routers /\ p[1] # p[2]
           /\ <<p[2], p[1]>> \in Peers
  BY SpanAssumption

\* Only one link can be closer than all others.
LEMMA WantedOnce ==
    ASSUME SpanTyped, NEW p \in Peers, NEW l, NEW k, Wanted(p, l), Wanted(p, k)
    PROVE  l = k
<1>1. l \in Link /\ k \in Link
  BY PeersAre DEF SpanTyped, Wanted
<1>2. /\ l.dist \in Nat /\ k.dist \in Nat /\ l.id \in Nat /\ k.id \in Nat
      /\ Port[l.from] \in Nat /\ Port[k.from] \in Nat
  BY <1>1, SpanAssumption DEF Link
<1>3. l # k => Closer(l, k) /\ Closer(k, l)
  BY DEF Wanted
<1>4. QED
  BY <1>2, <1>3 DEF Closer

\* Received spans are spans, of one connection.
LEMMA ReceivedAre ==
    ASSUME SpanTyped, NEW p \in Peers
    PROVE  /\ Received(p) \subseteq Link /\ Relayed(p) \subseteq Relay
           /\ wire[p] \in Seq(SpanMessage)
  BY PeersAre DEF SpanTyped, Received, Relayed

\* The ids of a finite set.
LEMMA IdsFinite ==
    ASSUME NEW S, IsFiniteSet(S), NEW f
    PROVE  IsFiniteSet({f[x] : x \in S})
<1> DEFINE T == {f[x] : x \in S}  g == [x \in S |-> f[x]]
<1>1. g \in Surjection(S, T)
  BY DEF Surjection
<1>2. QED
  BY <1>1, FS_Surjection

\* generate_relay takes an id that no end of the connection knows.
LEMMA FreshIdIs ==
    ASSUME SpanTyped, OneRelay, NEW p \in conns
    PROVE  FreshId(p) \in Nat /\ FreshId(p) \notin IdsInUse(p)
<1>0. p \in Peers /\ p[1] \in Routers /\ p[2] \in Routers
  BY PeersAre DEF SpanTyped
<1>1. IsFiniteSet(Received(p))
  BY <1>0, FS_Subset DEF SpanTyped, Received
<1>2. IsFiniteSet(Relayed(p))
  <2>1. CASE Relayed(p) = {}
    BY <2>1, FS_EmptySet
  <2>2. CASE Relayed(p) # {}
    <3>1. PICK x \in Relayed(p) : TRUE
      BY <2>2
    <3>2. Relayed(p) = {x}
      BY <3>1 DEF OneRelay
    <3>3. QED
      BY <3>2, FS_Singleton
  <2>3. QED
    BY <2>1, <2>2
<1>3. IsFiniteSet(DOMAIN wire[p])
  <2>1. DOMAIN wire[p] = 1..Len(wire[p]) /\ Len(wire[p]) \in Int
    BY <1>0, ReceivedAre
  <2>2. QED
    BY <2>1, FS_Interval
<1> DEFINE A == {l.id : l \in Received(p)}
           B == {x.id : x \in Relayed(p)}
           C == {wire[p][i].id : i \in DOMAIN wire[p]}
<1>4. IsFiniteSet(A)
  <2> DEFINE f == [l \in Received(p) |-> l.id]
  <2>1. A = {f[l] : l \in Received(p)}
    OBVIOUS
  <2> HIDE DEF f
  <2>2. QED
    BY <1>1, <2>1, IdsFinite
<1>5. IsFiniteSet(B)
  <2> DEFINE f == [l \in Relayed(p) |-> l.id]
  <2>1. B = {f[l] : l \in Relayed(p)}
    OBVIOUS
  <2> HIDE DEF f
  <2>2. QED
    BY <1>2, <2>1, IdsFinite
<1>6. IsFiniteSet(C)
  <2> DEFINE f == [i \in DOMAIN wire[p] |-> wire[p][i].id]
  <2>1. C = {f[i] : i \in DOMAIN wire[p]}
    OBVIOUS
  <2> HIDE DEF f
  <2>2. QED
    BY <1>3, <2>1, IdsFinite
<1> DEFINE U == IdsInUse(p)  n == Cardinality(U)
<1>7. IsFiniteSet(U) /\ n \in Nat
  <2>1. U = (A \cup B) \cup C
    BY DEF IdsInUse
  <2> HIDE DEF A, B, C
  <2>2. IsFiniteSet(U)
    BY <1>4, <1>5, <1>6, <2>1, FS_Union
  <2>3. QED
    BY <2>2, FS_CardinalityType
<1> DEFINE T == (0 .. n) \ U
<1> HIDE DEF U
<1>8. T # {} /\ T \in SUBSET Nat
  <2>1. Cardinality(0 .. n) = n + 1
    BY <1>7, FS_Interval
  <2>2. ~((0 .. n) \subseteq U)
    BY <1>7, <2>1, FS_Subset
  <2>3. QED
    BY <1>7, <2>2
<1>9. \E m \in T : \A k \in T : m <= k
  <2> HIDE DEF T
  <2>1. QED
    BY <1>8, LeastNat
<1>10. FreshId(p) \in T
  <2>1. FreshId(p) = Lowest(T)
    BY DEF FreshId, U
  <2> HIDE DEF T
  <2>2. QED
    BY <1>9, <2>1 DEF Lowest
<1>11. QED
  BY <1>8, <1>10 DEF U

-----------------------------------------------------------------------------
\* The messages of one connection.
SentTo(S, p) == {y \in S : y.to = p[2]}

\* One relay or none is deleted over a connection.
LEMMA DeletesOver ==
    ASSUME NEW p \in live, p \in Peers, NEW w, w[p] \in Seq(SpanMessage),
           NEW R \in SUBSET Relay, NEW L, StreamOK(R, L, w[p]),
           NEW S, SentTo(S, p) \subseteq R, \A x, y \in SentTo(S, p) : x = y
    PROVE  /\ relay_delete(w, p[1], S)[p] \in Seq(SpanMessage)
           /\ StreamOK(R \ SentTo(S, p), L, relay_delete(w, p[1], S)[p])
<1> DEFINE G == SentTo(S, p)  v == relay_delete(w, p[1], S)[p]
<1>1. v = w[p] \o SetToSeq({DeleteSpan(x) : x \in G})
  BY DEF relay_delete, Over, SentTo
<1>2. CASE G = {}
  <2>1. v = w[p] \o <<>>
    BY <1>1, <1>2, NoneToSeq
  <2>2. v = w[p] /\ R \ G = R
    BY <1>2, <2>1
  <2>3. QED
    BY <2>2
<1>3. CASE G # {}
  <2>1. PICK x \in G : TRUE
    BY <1>3
  <2>2. G = {x} /\ x \in R /\ x \in Relay
    BY <2>1
  <2>3. v = w[p] \o <<DeleteSpan(x)>>
    <3>1. {DeleteSpan(y) : y \in G} = {DeleteSpan(x)}
      BY <2>2
    <3>2. QED
      BY <1>1, <3>1, OneToSeq
  <2>4. DeleteSpan(x) \in SpanMessage
    BY <2>2 DEF DeleteSpan, SpanMessage, Relay
  <2>5. v = Append(w[p], DeleteSpan(x)) /\ v \in Seq(SpanMessage)
    BY <2>3, <2>4, Longer
  <2>6. StreamOK(R \ {x}, L, Append(w[p], DeleteSpan(x)))
    BY <2>2, StreamDeletes
  <2>7. QED
    BY <2>2, <2>5, <2>6
<1>4. QED
  BY <1>2, <1>3

\* One relay or none is made over it.
LEMMA CreatesOver ==
    ASSUME NEW p \in live, p \in Peers, NEW w, w[p] \in Seq(SpanMessage),
           NEW R \in SUBSET Relay, NEW L, StreamOK(R, L, w[p]),
           NEW S, SentTo(S, p) \subseteq Relay, \A x, y \in SentTo(S, p) : x = y,
           \A x \in SentTo(S, p) :
              /\ \A y \in R : y.id # x.id
              /\ \A l \in L : l.id # x.id
              /\ \A j \in DOMAIN w[p] : w[p][j].id # x.id
    PROVE  /\ relay_create(w, p[1], S)[p] \in Seq(SpanMessage)
           /\ StreamOK(R \cup SentTo(S, p), L, relay_create(w, p[1], S)[p])
<1> DEFINE G == SentTo(S, p)  v == relay_create(w, p[1], S)[p]
<1>1. v = w[p] \o SetToSeq({CreateSpan(x) : x \in G})
  BY DEF relay_create, Over, SentTo
<1>2. CASE G = {}
  <2>1. v = w[p] \o <<>>
    BY <1>1, <1>2, NoneToSeq
  <2>2. v = w[p] /\ R \cup G = R
    BY <1>2, <2>1
  <2>3. QED
    BY <2>2
<1>3. CASE G # {}
  <2>1. PICK x \in G : TRUE
    BY <1>3
  <2>2. G = {x} /\ x \in Relay /\ x \in SentTo(S, p)
    BY <2>1
  <2>3. v = w[p] \o <<CreateSpan(x)>>
    <3>1. {CreateSpan(y) : y \in G} = {CreateSpan(x)}
      BY <2>2
    <3>2. QED
      BY <1>1, <3>1, OneToSeq
  <2>4. CreateSpan(x) \in SpanMessage
    BY <2>2 DEF CreateSpan, SpanMessage, Relay, Link, RelayedDist
  <2>5. v = Append(w[p], CreateSpan(x)) /\ v \in Seq(SpanMessage)
    BY <2>3, <2>4, Longer
  <2>6. /\ \A y \in R : y.id # x.id
        /\ \A l \in L : l.id # x.id
        /\ \A j \in DOMAIN w[p] : w[p][j].id # x.id
    <3> HIDE DEF v, G
    <3>1. QED
      BY <2>2
  <2>7. StreamOK(R \cup {x}, L, Append(w[p], CreateSpan(x)))
    BY <2>2, <2>6, StreamCreates
  <2>8. QED
    BY <2>2, <2>5, <2>7
<1>4. QED
  BY <1>2, <1>3

\* Other connections get nothing.
LEMMA NotOver ==
    ASSUME NEW p \in Peers, NEW r, NEW w, NEW S, p \notin live \/ p[1] # r
    PROVE  relay_delete(w, r, S)[p] = w[p] /\ relay_create(w, r, S)[p] = w[p]
  BY DEF relay_delete, relay_create, Over

\* What the services hold of a connection once r has lost l.
Without(p, r, l) == {k \in Received(p) : ~(p[2] = r /\ k = l)}
StreamsWithout(w, r, l) == \A p \in live : StreamOK(Relayed(p), Without(p, r, l), w[p])

\* The end of a link, in what is left of the streams by then.
LEMMA SpanDeleteKeeps ==
    ASSUME SpanInv, NEW r \in Routers, NEW l,
           NEW w, w \in [Peers -> Seq(SpanMessage)], SpanDelete(w, r, l),
           live' = live, conns' = conns, StreamsWithout(w, r, l)
    PROVE  SpanInv'
<1>0. /\ SpanTyped /\ OneRelay /\ RelaysFollowBest
      /\ \A p \in live : StreamOK(Relayed(p), {k \in Received(p) : ~(p[2] = r /\ k = l)}, w[p])
  BY DEF SpanInv, StreamsWithout, Without
<1> DEFINE gone == {x \in relays[r] : x.src = l}
<1>1. /\ links' = [links EXCEPT ![r] = links[r] \ {l}]
      /\ relays' = [relays EXCEPT ![r] = relays[r] \ gone]
      /\ wire' = relay_delete(w, r, gone)
      /\ swork' = [swork EXCEPT ![r] = swork[r] \/ Signals(r, l)]
  BY <1>0 DEF SpanDelete
<1>2. /\ \A s \in Routers : links'[s] = IF s = r THEN links[r] \ {l} ELSE links[s]
      /\ \A s \in Routers : relays'[s] = IF s = r THEN relays[r] \ gone ELSE relays[s]
      /\ \A s \in Routers : swork'[s] = IF s = r THEN swork[r] \/ links[r] # {l} ELSE swork[s]
  BY <1>0, <1>1 DEF SpanTyped, Signals
<1>3. \A p \in Peers :
         /\ Received(p)' = {k \in Received(p) : ~(p[2] = r /\ k = l)}
         /\ Relayed(p)' = Relayed(p) \ (IF p[1] = r THEN SentTo(gone, p) ELSE {})
  <2>1. ASSUME NEW p \in Peers
        PROVE  /\ Received(p)' = {k \in Received(p) : ~(p[2] = r /\ k = l)}
               /\ Relayed(p)' = Relayed(p) \ (IF p[1] = r THEN SentTo(gone, p) ELSE {})
    <3>1. /\ links'[p[2]] = IF p[2] = r THEN links[r] \ {l} ELSE links[p[2]]
          /\ relays'[p[1]] = IF p[1] = r THEN relays[r] \ gone ELSE relays[p[1]]
      BY <1>0, <1>2, PeersAre
    <3> HIDE DEF gone
    <3>2. Received(p)' = {k \in Received(p) : ~(p[2] = r /\ k = l)}
      BY <1>0, <3>1 DEF Received
    <3>3. Relayed(p)' = Relayed(p) \ (IF p[1] = r THEN SentTo(gone, p) ELSE {})
      BY <1>0, <3>1 DEF Relayed, SentTo
    <3>4. QED
      BY <1>0, <3>2, <3>3
  <2>2. QED
    BY <1>0, <2>1
<1>4. \A p \in live : p \in Peers /\ w[p] \in Seq(SpanMessage)
  BY <1>0 DEF SpanTyped
<1>5. ASSUME NEW p \in Peers, p[1] = r
      PROVE  SentTo(gone, p) \subseteq Relayed(p)
  BY <1>0, <1>5 DEF SentTo, Relayed
<1>6. \A p \in Peers : wire'[p] \in Seq(SpanMessage)
  <2>1. ASSUME NEW p \in Peers PROVE wire'[p] \in Seq(SpanMessage)
    <3>1. CASE p \in live /\ p[1] = r
      <4> DEFINE R == Relayed(p)  L == {k \in Received(p) : ~(p[2] = r /\ k = l)}
      <4>1. R \in SUBSET Relay /\ StreamOK(R, L, w[p]) /\ w[p] \in Seq(SpanMessage)
        BY <1>0, <3>1, ReceivedAre
      <4>2. SentTo(gone, p) \subseteq R /\ \A x, y \in SentTo(gone, p) : x = y
        BY <1>0, <1>5, <3>1 DEF OneRelay, SpanTyped
      <4>3. wire'[p] = relay_delete(w, p[1], gone)[p]
        BY <1>0, <1>1, <3>1
      <4> HIDE DEF R, L, gone
      <4>4. QED
        BY <1>0, <3>1, <4>1, <4>2, <4>3, DeletesOver
    <3>2. CASE ~(p \in live /\ p[1] = r)
      BY <1>0, <1>1, <3>2, NotOver
    <3>3. QED
      BY <1>0, <3>1, <3>2
  <2>2. QED
    BY <1>0, <2>1
<1>7. SpanTyped'
  <2>1. links' \in [Routers -> SUBSET Link] /\ relays' \in [Routers -> SUBSET Relay]
        /\ swork' \in [Routers -> BOOLEAN]
    BY <1>0, <1>1 DEF SpanTyped
  <2>2. \A s \in Routers : IsFiniteSet(links'[s])
    <3>1. IsFiniteSet(links[r] \ {l})
      BY <1>0, FS_RemoveElement DEF SpanTyped
    <3>2. QED
      BY <1>0, <1>2, <3>1 DEF SpanTyped
  <2>3. wire' = [p \in Peers |-> wire'[p]]
    BY <1>0, <1>1 DEF relay_delete
  <2>4. wire' \in [Peers -> Seq(SpanMessage)]
    BY <1>0, <1>6, <2>3
  <2>5. QED
    BY <1>0, <2>1, <2>2, <2>4 DEF SpanTyped
<1>8. OneRelay'
  <2>1. ASSUME NEW p \in conns PROVE Relayed(p)' \subseteq Relayed(p)
    BY <1>0, <1>3 DEF SpanTyped
  <2>2. QED
    BY <1>0, <2>1 DEF OneRelay
<1>9. RelaysFollowBest'
  <2>1. ASSUME NEW p \in conns \cap live, ~swork'[p[1]]
        PROVE  {x.src : x \in Relayed(p)'} = {k \in links'[p[1]] : Wanted(p, k)'}
    <3>0. p \in Peers /\ p[1] \in Routers
      BY <1>0, PeersAre DEF SpanTyped
    <3>1. CASE p[1] = r
      <4>1. ~swork[r] /\ links[r] = {l}
        BY <1>0, <1>2, <2>1, <3>1
      <4>2. {x.src : x \in Relayed(p)} \subseteq {l}
        BY <1>0, <3>0, <3>1, <4>1 DEF RelaysFollowBest
      <4>3. Relayed(p)' = {}
        <5>1. Relayed(p) \subseteq SentTo(gone, p)
          BY <1>0, <3>1, <4>2 DEF SentTo, Relayed
        <5>2. QED
          BY <1>0, <1>3, <3>0, <3>1, <5>1
      <4>5. links'[p[1]] = {}
        BY <1>0, <1>2, <3>0, <3>1, <4>1
      <4>4. QED
        BY <1>0, <4>3, <4>5
    <3>2. CASE p[1] # r
      <4>1. links'[p[1]] = links[p[1]] /\ Relayed(p)' = Relayed(p) /\ ~swork[p[1]]
        <5>1. links'[p[1]] = links[p[1]] /\ ~swork[p[1]]
          BY <1>0, <1>2, <2>1, <3>0, <3>2
        <5>2. Relayed(p)' = Relayed(p)
          BY <1>0, <1>3, <3>0, <3>2
        <5>3. QED
          BY <1>0, <5>1, <5>2
      <4>2. \A k : Wanted(p, k)' <=> Wanted(p, k)
        BY <1>0, <4>1 DEF Wanted, Closer
      <4>3. QED
        BY <1>0, <4>1, <4>2 DEF RelaysFollowBest
    <3>3. QED
      BY <1>0, <3>1, <3>2
  <2>2. QED
    BY <1>0, <2>1 DEF RelaysFollowBest
<1>10. StreamsOK'
  <2>1. ASSUME NEW p \in live PROVE StreamOK(Relayed(p)', Received(p)', wire'[p])
    <3> DEFINE R == Relayed(p)  L == {k \in Received(p) : ~(p[2] = r /\ k = l)}
    <3>1. /\ R \in SUBSET Relay /\ StreamOK(R, L, w[p]) /\ w[p] \in Seq(SpanMessage)
          /\ p \in Peers /\ Received(p)' = L
      BY <1>0, <1>3, <1>4, ReceivedAre
    <3>2. CASE p[1] = r
      <4>1. SentTo(gone, p) \subseteq R /\ \A x, y \in SentTo(gone, p) : x = y
        BY <1>0, <1>4, <1>5, <3>2 DEF OneRelay, SpanTyped
      <4>2. wire'[p] = relay_delete(w, p[1], gone)[p] /\ Relayed(p)' = R \ SentTo(gone, p)
        BY <1>0, <1>1, <1>3, <1>4, <3>2
      <4> HIDE DEF R, L, gone
      <4>3. StreamOK(R \ SentTo(gone, p), L, relay_delete(w, p[1], gone)[p])
        BY <1>0, <3>1, <4>1, DeletesOver
      <4>4. QED
        BY <1>0, <3>1, <4>2, <4>3
    <3>3. CASE p[1] # r
      <4>1. wire'[p] = w[p] /\ Relayed(p)' = R
        BY <1>0, <1>1, <1>3, <3>1, <3>3, NotOver
      <4>2. QED
        BY <1>0, <3>1, <4>1
    <3>4. QED
      BY <1>0, <3>2, <3>3
  <2>2. QED
    BY <1>0, <2>1 DEF StreamsOK, StreamOK
<1>11. QED
  BY <1>0, <1>7, <1>8, <1>9, <1>10 DEF SpanInv

\* dmsg_relay_scan: each connection gets the relay of the best link.
LEMMA ScanKeeps ==
    ASSUME SpanInv, NEW r \in Routers, dmsg_relay_scan(r)
    PROVE  SpanInv'
<1> DEFINE mine == {p \in conns : p[1] = r}
           made == UNION {Created(p) : p \in mine}
           extras == UNION {Extras(p) : p \in mine}
           w == relay_create(wire, r, made)
<1>1. /\ relays' = [relays EXCEPT ![r] = (relays[r] \ extras) \cup made]
      /\ wire' = relay_delete(w, r, extras)
      /\ swork' = [swork EXCEPT ![r] = FALSE]
      /\ live' = live /\ conns' = conns /\ links' = links
  BY DEF dmsg_relay_scan
<1>2. SpanTyped /\ OneRelay /\ RelaysFollowBest /\ StreamsOK
  BY DEF SpanInv
<1>3. conns \subseteq Peers /\ live \subseteq conns /\ relays \in [Routers -> SUBSET Relay]
  BY <1>2 DEF SpanTyped
<1>4. ASSUME NEW p \in conns
      PROVE  /\ Created(p) \subseteq Relay /\ \A x, y \in Created(p) : x = y
             /\ \A x \in Created(p) : /\ x.to = p[2] /\ x.id = FreshId(p) /\ Wanted(p, x.src)
                                      /\ \A y \in Relayed(p) : y.src # x.src
             /\ \A l : Wanted(p, l) /\ (\A y \in Relayed(p) : y.src # l) => \E x \in Created(p) : x.src = l
             /\ Extras(p) = {x \in Relayed(p) : ~Wanted(p, x.src)}
  <2>1. p \in Peers /\ p[1] \in Routers /\ p[2] \in Routers
    BY <1>3, PeersAre
  <2>2. FreshId(p) \in Nat
    BY <1>2, FreshIdIs
  <2>3. \A l : Wanted(p, l) => l \in links[p[1]] /\ l \in Link
    BY <1>2, <2>1 DEF Wanted, SpanTyped
  <2>4. \A x \in Created(p) : \E l \in links[p[1]] :
          x = generate_relay(p, l) /\ Wanted(p, l) /\ \A y \in Relayed(p) : y.src # l
    BY DEF Created
  <2>5. \A l : generate_relay(p, l).to = p[2] /\ generate_relay(p, l).id = FreshId(p)
              /\ generate_relay(p, l).src = l
    BY DEF generate_relay
  <2>6. \A l \in Link : generate_relay(p, l) \in Relay
    BY <2>1, <2>2 DEF generate_relay, Relay
  <2>7. \A x, y \in Created(p) : x = y
    <3>1. \A l, k : Wanted(p, l) /\ Wanted(p, k) => l = k
      BY <1>2, <2>1, WantedOnce
    <3>2. QED
      BY <2>4, <3>1
  <2>8. \A l : Wanted(p, l) /\ (\A y \in Relayed(p) : y.src # l) => \E x \in Created(p) : x.src = l
    <3>1. \A l : Wanted(p, l) /\ (\A y \in Relayed(p) : y.src # l) => generate_relay(p, l) \in Created(p)
      BY <2>3 DEF Created
    <3>2. QED
      BY <2>5, <3>1
  <2>9. QED
    BY <2>3, <2>4, <2>5, <2>6, <2>7, <2>8 DEF Extras
<1>5. ASSUME NEW p \in conns, p[1] = r
      PROVE  SentTo(made, p) = Created(p) /\ SentTo(extras, p) = Extras(p)
  <2>1. p \in mine /\ \A q \in mine : q \in conns /\ (q[2] = p[2] => q = p)
    BY <1>3, <1>5, PeersAre
  <2>2. /\ \A q \in mine : \A x \in Created(q) : x.to = q[2]
        /\ \A q \in mine : \A x \in Extras(q) : x.to = q[2]
    BY <1>4, <2>1 DEF Extras, Relayed
  <2> HIDE DEF mine
  <2>3. QED
    BY <2>1, <2>2 DEF SentTo
<1>6. made \subseteq Relay
  BY <1>4
<1> HIDE DEF mine, made, extras
<1>7. \A s \in Routers :
         /\ relays'[s] = IF s = r THEN (relays[r] \ extras) \cup made ELSE relays[s]
         /\ swork'[s] = IF s = r THEN FALSE ELSE swork[s]
  BY <1>1, <1>2 DEF SpanTyped
<1>8. ASSUME NEW p \in conns
      PROVE  /\ p[1] = r => Relayed(p)' = (Relayed(p) \ Extras(p)) \cup Created(p)
             /\ p[1] # r => Relayed(p)' = Relayed(p)
             /\ Received(p)' = Received(p) /\ \A l : Wanted(p, l)' <=> Wanted(p, l)
  <2>1. p[1] \in Routers
    BY <1>3, PeersAre
  <2>2. p[1] = r => Relayed(p)' = (Relayed(p) \ SentTo(extras, p)) \cup SentTo(made, p)
    BY <1>7, <2>1 DEF Relayed, SentTo
  <2>3. p[1] # r => Relayed(p)' = Relayed(p)
    BY <1>7, <2>1 DEF Relayed
  <2>4. Received(p)' = Received(p) /\ \A l : Wanted(p, l)' <=> Wanted(p, l)
    BY <1>1 DEF Received, Wanted, Closer
  <2>5. QED
    BY <1>5, <2>2, <2>3, <2>4
<1>9. OneRelay'
  <2>1. ASSUME NEW p \in conns, NEW x \in Relayed(p)', NEW y \in Relayed(p)'
        PROVE  x = y
    <3>1. CASE p[1] = r
      <4>1. p \in Peers /\ \A l, k : Wanted(p, l) /\ Wanted(p, k) => l = k
        BY <1>2, <1>3, WantedOnce
      <4>2. \A z \in Relayed(p) \ Extras(p) : Wanted(p, z.src)
        BY <1>4
      <4>3. \A z \in Created(p) : Wanted(p, z.src) /\ \A u \in Relayed(p) : u.src # z.src
        BY <1>4
      <4>4. Created(p) = {} \/ Relayed(p) \ Extras(p) = {}
        BY <4>1, <4>2, <4>3
      <4>5. QED
        BY <1>2, <1>4, <1>8, <2>1, <3>1, <4>4 DEF OneRelay
    <3>2. CASE p[1] # r
      BY <1>2, <1>8, <2>1, <3>2 DEF OneRelay
    <3>3. QED
      BY <3>1, <3>2
  <2>2. QED
    BY <1>1, <2>1 DEF OneRelay
<1>10. RelaysFollowBest'
  <2>1. ASSUME NEW p \in conns \cap live, ~swork'[p[1]]
        PROVE  {x.src : x \in Relayed(p)'} = {l \in links[p[1]] : Wanted(p, l)}
    <3>0. p[1] \in Routers
      BY <1>3, PeersAre
    <3>1. CASE p[1] = r
      <4>1. \A x \in Relayed(p)' : Wanted(p, x.src)
        BY <1>4, <1>8, <3>1
      <4>2. \A l : Wanted(p, l) => \E x \in Relayed(p)' : x.src = l
        BY <1>4, <1>8, <3>1
      <4>3. \A l : Wanted(p, l) => l \in links[p[1]]
        BY DEF Wanted
      <4>4. QED
        BY <4>1, <4>2, <4>3
    <3>2. CASE p[1] # r
      BY <1>2, <1>7, <1>8, <2>1, <3>0, <3>2 DEF RelaysFollowBest
    <3>3. QED
      BY <3>1, <3>2
  <2>2. QED
    BY <1>1, <1>8, <2>1 DEF RelaysFollowBest
<1>11. ASSUME NEW p \in live
       PROVE  wire'[p] \in Seq(SpanMessage) /\ StreamOK(Relayed(p)', Received(p)', wire'[p])
  <2>1. /\ p \in conns /\ p \in Peers /\ wire[p] \in Seq(SpanMessage)
        /\ Relayed(p) \in SUBSET Relay /\ StreamOK(Relayed(p), Received(p), wire[p])
    BY <1>2, <1>3, ReceivedAre DEF StreamsOK
  <2>2. CASE p[1] = r
    <3> DEFINE R == Relayed(p)  L == Received(p)  v == w[p]
    <3>1. /\ SentTo(made, p) = Created(p) /\ SentTo(extras, p) = Extras(p)
      BY <1>5, <2>1, <2>2
    <3>2. /\ SentTo(made, p) \subseteq Relay /\ \A x, y \in SentTo(made, p) : x = y
      BY <1>4, <2>1, <3>1
    <3>3. \A x \in SentTo(made, p) :
             /\ \A y \in R : y.id # x.id
             /\ \A l \in L : l.id # x.id
             /\ \A j \in DOMAIN wire[p] : wire[p][j].id # x.id
      <4>1. FreshId(p) \notin IdsInUse(p) /\ \A x \in SentTo(made, p) : x.id = FreshId(p)
        BY <1>2, <1>4, <2>1, <3>1, FreshIdIs
      <4>2. QED
        BY <4>1 DEF IdsInUse
    <3> HIDE DEF R, L
    <3>4. v \in Seq(SpanMessage) /\ StreamOK(R \cup SentTo(made, p), L, v)
      <4>1. R \in SUBSET Relay /\ StreamOK(R, L, wire[p])
        BY <2>1 DEF R, L
      <4>2. v = relay_create(wire, p[1], made)[p]
        BY <2>2
      <4>3. QED
        BY <2>1, <3>2, <3>3, <4>1, <4>2, CreatesOver
    <3>5. /\ R \cup SentTo(made, p) \in SUBSET Relay
          /\ SentTo(extras, p) \subseteq R \cup SentTo(made, p)
          /\ \A x, y \in SentTo(extras, p) : x = y
      BY <1>2, <1>4, <2>1, <3>1, <3>2 DEF R, OneRelay
    <3>6. w[p] = v
      OBVIOUS
    <3> HIDE DEF w, v
    <3> DEFINE Q == R \cup SentTo(made, p)
    <3>7. /\ relay_delete(w, p[1], extras)[p] \in Seq(SpanMessage)
          /\ StreamOK(Q \ SentTo(extras, p), L, relay_delete(w, p[1], extras)[p])
      <4>1. w[p] \in Seq(SpanMessage) /\ Q \in SUBSET Relay /\ StreamOK(Q, L, w[p])
        BY <3>4, <3>5, <3>6
      <4>2. SentTo(extras, p) \subseteq Q
        BY <3>5
      <4> HIDE DEF Q
      <4>3. QED
        BY <2>1, <3>5, <4>1, <4>2, DeletesOver
    <3>8. (R \ Extras(p)) \cup Created(p) = Q \ SentTo(extras, p)
      BY <1>4, <2>1, <3>1 DEF R
    <3>9. Relayed(p)' = Q \ SentTo(extras, p) /\ Received(p)' = L
      BY <1>8, <2>1, <2>2, <3>8 DEF R, L
    <3>10. wire'[p] = relay_delete(w, p[1], extras)[p]
      BY <1>1, <2>2
    <3>11. QED
      BY <3>7, <3>9, <3>10
  <2>3. CASE p[1] # r
    BY <1>1, <1>8, <2>1, <2>3, NotOver
  <2>4. QED
    BY <2>2, <2>3
<1>12. SpanTyped'
  <2>1. relays' \in [Routers -> SUBSET Relay] /\ swork' \in [Routers -> BOOLEAN]
    BY <1>1, <1>2, <1>3, <1>6 DEF SpanTyped
  <2>2. wire' = [p \in Peers |-> wire'[p]]
    BY <1>1 DEF relay_delete
  <2>3. \A p \in Peers : wire'[p] \in Seq(SpanMessage)
    <3>1. ASSUME NEW p \in Peers, p \notin live PROVE wire'[p] = wire[p]
      BY <1>1, <3>1, NotOver
    <3>2. QED
      BY <1>2, <1>11, <3>1 DEF SpanTyped
  <2>4. wire' \in [Peers -> Seq(SpanMessage)]
    BY <2>2, <2>3
  <2>5. QED
    BY <1>1, <1>2, <2>1, <2>4 DEF SpanTyped
<1>13. StreamsOK'
  BY <1>1, <1>11 DEF StreamsOK, StreamOK
<1>14. QED
  BY <1>9, <1>10, <1>12, <1>13 DEF SpanInv

\* The start of a link, in what is left of the streams by then.
LEMMA SpanCreateKeeps ==
    ASSUME SpanInv, NEW r \in Routers, NEW l \in Link, SpanCreate(r, l),
           live' = live, conns' = conns, wire' \in [Peers -> Seq(SpanMessage)],
           \A p \in live : StreamOK(Relayed(p), Received(p)', wire'[p])
    PROVE  SpanInv'
<1>1. SpanTyped /\ OneRelay /\ RelaysFollowBest
  BY DEF SpanInv
<1>2. /\ links' = [links EXCEPT ![r] = links[r] \cup {l}] /\ relays' = relays
      /\ swork' = [swork EXCEPT ![r] = TRUE]
  BY DEF SpanCreate
<1>3. /\ \A s \in Routers : links'[s] = IF s = r THEN links[r] \cup {l} ELSE links[s]
      /\ \A s \in Routers : swork'[s] = IF s = r THEN TRUE ELSE swork[s]
  BY <1>1, <1>2 DEF SpanTyped
<1>4. \A p : Relayed(p)' = Relayed(p)
  BY <1>2 DEF Relayed
<1>5. SpanTyped'
  <2>1. links' \in [Routers -> SUBSET Link] /\ swork' \in [Routers -> BOOLEAN]
    BY <1>1, <1>2 DEF SpanTyped
  <2>2. \A s \in Routers : IsFiniteSet(links'[s])
    <3>1. IsFiniteSet(links[r] \cup {l})
      BY <1>1, FS_AddElement DEF SpanTyped
    <3>2. QED
      BY <1>1, <1>3, <3>1 DEF SpanTyped
  <2>3. QED
    BY <1>1, <1>2, <2>1, <2>2 DEF SpanTyped
<1>6. RelaysFollowBest'
  <2>1. ASSUME NEW p \in conns \cap live, ~swork'[p[1]]
        PROVE  {x.src : x \in Relayed(p)'} = {k \in links'[p[1]] : Wanted(p, k)'}
    <3>1. p[1] \in Routers
      BY <1>1, PeersAre DEF SpanTyped
    <3>2. links'[p[1]] = links[p[1]] /\ ~swork[p[1]]
      BY <1>3, <2>1, <3>1
    <3>3. \A k : Wanted(p, k)' <=> Wanted(p, k)
      BY <3>2 DEF Wanted, Closer
    <3>4. QED
      BY <1>1, <1>4, <3>2, <3>3 DEF RelaysFollowBest
  <2>2. QED
    BY <2>1 DEF RelaysFollowBest
<1>7. OneRelay'
  BY <1>1, <1>4 DEF OneRelay
<1>8. StreamsOK'
  BY <1>4 DEF StreamsOK, StreamOK
<1>9. QED
  BY <1>5, <1>6, <1>7, <1>8 DEF SpanInv

\* The volume opens its span, which came over no connection.
LEMMA OpenKeeps ==
    ASSUME SpanInv, SpanOpen
    PROVE  SpanInv'
<1>1. /\ SpanTyped /\ StreamsOK /\ SpanCreate(Home, VolumeSpan)
      /\ live' = live /\ conns' = conns /\ wire' = wire
  BY DEF SpanInv, SpanOpen
<1>2. Home \in Routers /\ VolumeSpan \in Link /\ VolumeSpan.from = Home
  BY SpanAssumption DEF VolumeSpan, Link
<1>3. ASSUME NEW p \in live PROVE Received(p)' = Received(p)
  <2>1. p[1] # p[2] /\ p[2] \in Routers
    BY <1>1, PeersAre DEF SpanTyped
  <2>2. links'[p[2]] = IF p[2] = Home THEN links[p[2]] \cup {VolumeSpan} ELSE links[p[2]]
    BY <1>1, <2>1 DEF SpanCreate, SpanTyped
  <2>3. QED
    BY <1>2, <2>1, <2>2 DEF Received
<1>4. wire' \in [Peers -> Seq(SpanMessage)]
  BY <1>1 DEF SpanTyped
<1>5. \A p \in live : StreamOK(Relayed(p), Received(p)', wire'[p])
  BY <1>1, <1>3 DEF StreamsOK
<1>6. QED
  BY <1>1, <1>2, <1>4, <1>5, SpanCreateKeeps

\* The volume closes it.
LEMMA CloseKeeps ==
    ASSUME SpanInv, SpanClose
    PROVE  SpanInv'
<1>1. /\ SpanTyped /\ StreamsOK /\ SpanDelete(wire, Home, VolumeSpan)
      /\ live' = live /\ conns' = conns
  BY DEF SpanInv, SpanClose
<1>2. Home \in Routers /\ VolumeSpan.from = Home /\ wire \in [Peers -> Seq(SpanMessage)]
  BY <1>1, SpanAssumption DEF VolumeSpan, SpanTyped
<1>3. ASSUME NEW p \in live
      PROVE  Without(p, Home, VolumeSpan) = Received(p)
  <2>1. p[1] # p[2]
    BY <1>1, PeersAre DEF SpanTyped
  <2>2. QED
    BY <1>2, <2>1 DEF Received, Without
<1>4. StreamsWithout(wire, Home, VolumeSpan)
  BY <1>1, <1>3 DEF StreamsOK, StreamsWithout
<1>5. QED
  BY <1>1, <1>2, <1>4, SpanDeleteKeeps

\* A message of a working connection: what is left of its stream.
LEMMA RestOf ==
    ASSUME SpanTyped, NEW p \in live, wire[p] # <<>>,
           NEW rest, rest = [wire EXCEPT ![p] = Tail(wire[p])]
    PROVE  /\ p \in Peers /\ rest \in [Peers -> Seq(SpanMessage)] /\ rest[p] = Tail(wire[p])
           /\ \A q \in Peers : q # p => rest[q] = wire[q]
           /\ Head(wire[p]) \in SpanMessage
<1>1. p \in Peers /\ wire[p] \in Seq(SpanMessage) /\ wire \in [Peers -> Seq(SpanMessage)]
  BY DEF SpanTyped
<1>2. Tail(wire[p]) \in Seq(SpanMessage) /\ Head(wire[p]) \in SpanMessage
  BY <1>1, Shorter
<1>3. QED
  BY <1>1, <1>2

\* A service reads that a span has started.
LEMMA SpanStarts ==
    ASSUME SpanInv, NEW r \in Routers, NEW s \in Routers, <<r, s>> \in live,
           wire[<<r, s>>] # <<>>, Head(wire[<<r, s>>]).cmd = "CREATE",
           NEW l, l = [from |-> r, id |-> Head(wire[<<r, s>>]).id, dist |-> Head(wire[<<r, s>>]).dist],
           SpanCreate(s, l), wire' = [wire EXCEPT ![<<r, s>>] = Tail(wire[<<r, s>>])],
           live' = live, conns' = conns
    PROVE  SpanInv'
<1> DEFINE p == <<r, s>>  m == Head(wire[p])
<1>1. SpanTyped /\ StreamsOK
  BY DEF SpanInv
<1>2. /\ p \in Peers /\ wire' \in [Peers -> Seq(SpanMessage)] /\ wire'[p] = Tail(wire[p])
      /\ \A q \in Peers : q # p => wire'[q] = wire[q]
      /\ m \in SpanMessage
  BY <1>1, RestOf
<1>3. l \in Link /\ l.from = r /\ l.id = m.id /\ l.dist = m.dist
  BY <1>2 DEF SpanMessage, Link
<1>4. ASSUME NEW q \in live
      PROVE  Received(q)' = Received(q) \cup (IF q = p THEN {l} ELSE {})
  <2>1. q = <<q[1], q[2]>> /\ q[2] \in Routers
    BY <1>1, PeersAre DEF SpanTyped
  <2>2. links'[q[2]] = IF q[2] = s THEN links[q[2]] \cup {l} ELSE links[q[2]]
    BY <1>1, <2>1 DEF SpanCreate, SpanTyped
  <2>3. q = p <=> q[1] = r /\ q[2] = s
    BY <2>1
  <2>4. QED
    BY <1>3, <2>2, <2>3 DEF Received
<1>5. ASSUME NEW q \in live PROVE StreamOK(Relayed(q), Received(q)', wire'[q])
  <2>1. q \in Peers /\ StreamOK(Relayed(q), Received(q), wire[q]) /\ wire[q] \in Seq(SpanMessage)
    BY <1>1 DEF StreamsOK, SpanTyped
  <2>2. CASE q = p
    <3>1. StreamOK(Relayed(q), Received(q) \cup {l}, Tail(wire[q]))
      BY <1>3, <2>1, <2>2, StreamOpens
    <3>2. QED
      BY <1>2, <1>4, <2>2, <3>1
  <2>3. CASE q # p
    BY <1>2, <1>4, <2>1, <2>3
  <2>4. QED
    BY <2>2, <2>3
<1>6. QED
  BY <1>2, <1>3, <1>5, SpanCreateKeeps

\* A service reads that a span has ended.
LEMMA SpanStops ==
    ASSUME SpanInv, NEW r \in Routers, NEW s \in Routers, <<r, s>> \in live,
           wire[<<r, s>>] # <<>>, Head(wire[<<r, s>>]).cmd = "DELETE",
           NEW l \in links[s], l.from = r, l.id = Head(wire[<<r, s>>]).id,
           SpanDelete([wire EXCEPT ![<<r, s>>] = Tail(wire[<<r, s>>])], s, l),
           live' = live, conns' = conns
    PROVE  SpanInv'
<1> DEFINE p == <<r, s>>  rest == [wire EXCEPT ![p] = Tail(wire[p])]
<1>1. SpanTyped /\ StreamsOK
  BY DEF SpanInv
<1>2. /\ p \in Peers /\ rest \in [Peers -> Seq(SpanMessage)] /\ rest[p] = Tail(wire[p])
      /\ \A q \in Peers : q # p => rest[q] = wire[q]
  BY <1>1, RestOf
<1>3. SpanDelete(rest, s, l)
  OBVIOUS
<1> HIDE DEF rest
<1>4. ASSUME NEW q \in live
      PROVE  StreamOK(Relayed(q), Without(q, s, l), rest[q])
  <2>1. /\ q \in Peers /\ q = <<q[1], q[2]>>
        /\ StreamOK(Relayed(q), Received(q), wire[q]) /\ wire[q] \in Seq(SpanMessage)
    BY <1>1, PeersAre DEF StreamsOK, SpanTyped
  <2>2. CASE q = p
    <3>1. l \in Received(q)
      BY <2>2 DEF Received
    <3>2. StreamOK(Relayed(q), Received(q) \ {l}, Tail(wire[q]))
      BY <2>1, <2>2, <3>1, StreamEnds
    <3>3. Without(q, s, l) = Received(q) \ {l}
      BY <2>2 DEF Without
    <3>4. QED
      BY <1>2, <2>2, <3>2, <3>3
  <2>3. CASE q # p
    <3>1. \A k \in Received(q) : ~(q[2] = s /\ k = l)
      BY <2>1, <2>3 DEF Received
    <3>2. Without(q, s, l) = Received(q)
      BY <3>1 DEF Without
    <3>3. QED
      BY <1>2, <2>1, <2>3, <3>2
  <2>4. QED
    BY <2>2, <2>3
<1>5. StreamsWithout(rest, s, l)
  BY <1>4 DEF StreamsWithout
<1>6. QED
  BY <1>2, <1>3, <1>5, SpanDeleteKeeps

\* dmsg_lnk_span, either way.
LEMMA LnkSpanKeeps ==
    ASSUME SpanInv, NEW r \in Routers, NEW s \in Routers, lnk_span(s, r)
    PROVE  SpanInv'
<1> DEFINE m == Head(wire[<<r, s>>])  rest == [wire EXCEPT ![<<r, s>>] = Tail(wire[<<r, s>>])]
           new == [from |-> r, id |-> m.id, dist |-> m.dist]
<1>1. /\ <<r, s>> \in live /\ wire[<<r, s>>] # <<>> /\ live' = live /\ conns' = conns
      /\ \/ m.cmd = "CREATE" /\ SpanCreate(s, new) /\ wire' = rest
         \/ m.cmd = "DELETE" /\ \E l \in links[s] : l.from = r /\ l.id = m.id /\ SpanDelete(rest, s, l)
  BY DEF lnk_span
<1>2. CASE m.cmd = "CREATE" /\ SpanCreate(s, new) /\ wire' = rest
  BY <1>1, <1>2, SpanStarts
<1>3. CASE m.cmd = "DELETE" /\ \E l \in links[s] : l.from = r /\ l.id = m.id /\ SpanDelete(rest, s, l)
  <2>1. PICK l \in links[s] : l.from = r /\ l.id = m.id /\ SpanDelete(rest, s, l)
    BY <1>3
  <2>2. QED
    BY <1>1, <1>3, <2>1, SpanStops
<1>4. QED
  BY <1>1, <1>2, <1>3

\* The other end of a broken connection fails too.
LEMMA FailedKeeps ==
    ASSUME SpanInv, NEW r \in Routers, NEW s \in Routers, FailedSpan(s, r)
    PROVE  SpanInv'
<1>1. /\ SpanTyped /\ StreamsOK /\ <<s, r>> \notin live /\ live' = live /\ conns' = conns
  BY DEF SpanInv, FailedSpan
<1>2. PICK l \in links[s] : l.from = r /\ SpanDelete(wire, s, l)
  BY DEF FailedSpan
<1>3. ASSUME NEW p \in live
      PROVE  Without(p, s, l) = Received(p)
  <2>1. p = <<p[1], p[2]>> /\ <<p[2], p[1]>> \in live
    BY <1>1, PeersAre DEF SpanTyped
  <2>2. ~(p[2] = s /\ p[1] = r)
    BY <1>1, <2>1
  <2>3. QED
    BY <1>2, <2>2 DEF Received, Without
<1>4. StreamsWithout(wire, s, l)
  BY <1>1, <1>3 DEF StreamsOK, StreamsWithout
<1>5. wire \in [Peers -> Seq(SpanMessage)]
  BY <1>1 DEF SpanTyped
<1>6. QED
  BY <1>1, <1>2, <1>4, <1>5, SpanDeleteKeeps

\* A connection that breaks takes what is under way with it.
LEMMA DisconnectKeeps ==
    ASSUME SpanInv, NEW r \in Routers, NEW s \in Routers, Disconnect(r, s)
    PROVE  SpanInv'
<1>1. /\ SpanTyped /\ OneRelay /\ RelaysFollowBest /\ StreamsOK
      /\ live' = live \ {<<r, s>>, <<s, r>>} /\ conns' = conns
      /\ links' = links /\ relays' = relays /\ swork' = swork
      /\ wire' = [wire EXCEPT ![<<r, s>>] = <<>>, ![<<s, r>>] = <<>>]
  BY DEF SpanInv, Disconnect
<1>2. /\ \A p : Relayed(p)' = Relayed(p) /\ Received(p)' = Received(p)
      /\ \A p, k : Wanted(p, k)' <=> Wanted(p, k)
  BY <1>1 DEF Relayed, Received, Wanted, Closer
<1>3. wire' \in [Peers -> Seq(SpanMessage)] /\ \A p \in live' : p \in live /\ wire'[p] = wire[p]
  <2>1. <<>> \in Seq(SpanMessage) /\ wire \in [Peers -> Seq(SpanMessage)]
    BY <1>1 DEF SpanTyped
  <2>2. \A p \in live' : p \in live /\ p \in Peers /\ p # <<r, s>> /\ p # <<s, r>>
    BY <1>1 DEF SpanTyped
  <2>3. QED
    BY <1>1, <2>1, <2>2
<1>4. \A p \in live' : <<p[2], p[1]>> \in live'
  <2>1. ASSUME NEW p \in live' PROVE <<p[2], p[1]>> \in live'
    <3>1. p \in live /\ p = <<p[1], p[2]>> /\ <<p[2], p[1]>> \in live
      BY <1>1, <2>1, PeersAre DEF SpanTyped
    <3>2. <<p[2], p[1]>> # <<r, s>> /\ <<p[2], p[1]>> # <<s, r>>
      BY <1>1, <2>1, <3>1
    <3>3. QED
      BY <1>1, <3>1, <3>2
  <2>2. QED
    BY <2>1
<1>5. SpanTyped'
  <2>1. live' \subseteq conns'
    BY <1>1 DEF SpanTyped
  <2>2. QED
    BY <1>1, <1>3, <1>4, <2>1 DEF SpanTyped
<1>6. OneRelay'
  BY <1>1, <1>2 DEF OneRelay
<1>7. RelaysFollowBest'
  <2>1. \A p \in conns' \cap live' : p \in conns \cap live
    BY <1>1, <1>3
  <2>2. QED
    BY <1>1, <1>2, <2>1 DEF RelaysFollowBest
<1>8. StreamsOK'
  <2>1. ASSUME NEW p \in live' PROVE StreamOK(Relayed(p), Received(p), wire[p])
    BY <1>1, <1>3, <2>1 DEF StreamsOK
  <2>2. ASSUME NEW p \in live' PROVE StreamOK(Relayed(p)', Received(p)', wire'[p])
    BY <1>2, <1>3, <2>1, <2>2
  <2>3. QED
    BY <2>2 DEF StreamsOK, StreamOK
<1>9. QED
  BY <1>5, <1>6, <1>7, <1>8 DEF SpanInv

\* What a broken connection still sends goes, all at once or one by one.
LEMMA RelaysGo ==
    ASSUME SpanInv, NEW r \in Routers, NEW s, <<r, s>> \notin live, NEW S,
           S \subseteq relays[r], \A x \in relays[r] : x.to # s => x \in S,
           relays' = [relays EXCEPT ![r] = S],
           conns' \in SUBSET conns, live \subseteq conns',
           live' = live, links' = links, wire' = wire, swork' = swork
    PROVE  SpanInv'
<1>1. SpanTyped /\ OneRelay /\ RelaysFollowBest /\ StreamsOK
  BY DEF SpanInv
<1>2. ASSUME NEW p \in Peers
      PROVE  /\ Relayed(p)' \subseteq Relayed(p)
             /\ p \in live => Relayed(p)' = Relayed(p)
             /\ Received(p)' = Received(p) /\ \A k : Wanted(p, k)' <=> Wanted(p, k)
  <2>1. p = <<p[1], p[2]>> /\ p[1] \in Routers
    BY PeersAre
  <2>2. relays'[p[1]] = IF p[1] = r THEN S ELSE relays[p[1]]
    BY <1>1, <2>1 DEF SpanTyped
  <2>3. Relayed(p)' = {x \in relays'[p[1]] : x.to = p[2]}
    BY DEF Relayed
  <2>4. Relayed(p)' \subseteq Relayed(p)
    BY <2>2, <2>3 DEF Relayed
  <2>5. ASSUME p \in live PROVE Relayed(p)' = Relayed(p)
    <3>1. ~(p[1] = r /\ p[2] = s)
      BY <2>1, <2>5
    <3>2. QED
      BY <2>2, <2>3, <3>1 DEF Relayed
  <2>6. Received(p)' = Received(p) /\ \A k : Wanted(p, k)' <=> Wanted(p, k)
    BY DEF Received, Wanted, Closer
  <2>7. QED
    BY <2>4, <2>5, <2>6
<1>3. SpanTyped'
  <2>1. relays' \in [Routers -> SUBSET Relay]
    <3>1. relays \in [Routers -> SUBSET Relay] /\ S \in SUBSET Relay
      BY <1>1 DEF SpanTyped
    <3>2. QED
      BY <3>1
  <2>2. QED
    BY <1>1, <2>1 DEF SpanTyped
<1>4. OneRelay'
  <2>1. \A p \in conns' : p \in conns /\ p \in Peers
    BY <1>1 DEF SpanTyped
  <2>2. QED
    BY <1>1, <1>2, <2>1 DEF OneRelay
<1>5. RelaysFollowBest'
  <2>1. \A p \in conns' \cap live' : p \in conns \cap live /\ p \in Peers
    BY <1>1 DEF SpanTyped
  <2>2. QED
    BY <1>1, <1>2, <2>1 DEF RelaysFollowBest
<1>6. StreamsOK'
  <2>1. \A p \in live' : p \in live /\ p \in Peers
    BY <1>1 DEF SpanTyped
  <2>2. QED
    BY <1>1, <1>2, <2>1 DEF StreamsOK, StreamOK
<1>7. QED
  BY <1>3, <1>4, <1>5, <1>6 DEF SpanInv

\* dmsg_lnk_conn and dmsg_lnk_relay of a broken connection.
LEMMA LnkConnKeeps ==
    ASSUME SpanInv, NEW r \in Routers, NEW s \in Routers, lnk_conn(r, s)
    PROVE  SpanInv'
<1> DEFINE S == {x \in relays[r] : x.to # s}
<1>1. /\ <<r, s>> \notin live /\ conns' = conns \ {<<r, s>>}
      /\ relays' = [relays EXCEPT ![r] = S]
      /\ live' = live /\ links' = links /\ wire' = wire /\ swork' = swork
  BY DEF lnk_conn
<1>2. live \subseteq conns' /\ conns' \in SUBSET conns
  BY <1>1 DEF SpanInv, SpanTyped
<1>3. S \subseteq relays[r] /\ \A x \in relays[r] : x.to # s => x \in S
  OBVIOUS
<1> HIDE DEF S
<1>4. QED
  BY <1>1, <1>2, <1>3, RelaysGo

\* The far end's answer to a failed relay.
LEMMA LnkRelayKeeps ==
    ASSUME SpanInv, NEW r \in Routers, NEW s \in Routers, lnk_relay(r, s)
    PROVE  SpanInv'
<1>1. PICK x \in relays[r] : x.to = s /\ relays' = [relays EXCEPT ![r] = relays[r] \ {x}]
  BY DEF lnk_relay
<1> DEFINE S == relays[r] \ {x}
<1>2. /\ <<r, s>> \notin live /\ conns' = conns
      /\ live' = live /\ links' = links /\ wire' = wire /\ swork' = swork
  BY DEF lnk_relay
<1>3. relays' = [relays EXCEPT ![r] = S]
  BY <1>1
<1>4. live \subseteq conns' /\ conns' \in SUBSET conns
  BY <1>2 DEF SpanInv, SpanTyped
<1>5. S \subseteq relays[r] /\ \A y \in relays[r] : y.to # s => y \in S
  BY <1>1
<1> HIDE DEF S
<1>6. QED
  BY <1>2, <1>3, <1>4, <1>5, RelaysGo

\* A web of services at the start.
LEMMA SpanStart ==
    ASSUME SpanInit
    PROVE  SpanInv
<1>1. /\ live = Peers /\ conns = Peers /\ links = [r \in Routers |-> {}]
      /\ relays = [r \in Routers |-> {}] /\ wire = [p \in Peers |-> <<>>]
      /\ swork = [r \in Routers |-> FALSE]
  BY DEF SpanInit
<1>2. \A r \in Routers : links[r] = {} /\ relays[r] = {}
  BY <1>1
<1>3. ASSUME NEW p \in Peers
      PROVE  /\ Relayed(p) = {} /\ Received(p) = {} /\ links[p[1]] = {} /\ wire[p] = <<>>
             /\ <<p[2], p[1]>> \in Peers
  BY <1>1, <1>2, PeersAre DEF Relayed, Received
<1>4. SpanTyped
  <2>1. wire \in [Peers -> Seq(SpanMessage)] /\ swork \in [Routers -> BOOLEAN]
    BY <1>1
  <2>2. links \in [Routers -> SUBSET Link] /\ relays \in [Routers -> SUBSET Relay]
    BY <1>1
  <2>3. \A r \in Routers : IsFiniteSet(links[r])
    BY <1>2, FS_EmptySet
  <2>4. QED
    BY <1>1, <1>3, <2>1, <2>2, <2>3 DEF SpanTyped
<1>5. OneRelay
  BY <1>1, <1>3 DEF OneRelay
<1>6. RelaysFollowBest
  BY <1>1, <1>3 DEF RelaysFollowBest
<1>7. StreamsOK
  <2>1. DOMAIN <<>> = {}
    OBVIOUS
  <2>2. StreamOK({}, {}, <<>>)
    BY <2>1 DEF StreamOK
  <2>3. QED
    BY <1>1, <1>3, <2>2 DEF StreamsOK
<1>8. QED
  BY <1>4, <1>5, <1>6, <1>7 DEF SpanInv

\* Every step of a service, a volume or a connection keeps the relays.
LEMMA SpanKept == SpanSpec => []SpanInv
<1>1. ASSUME SpanInv, [SpanNext]_spanVars PROVE SpanInv'
  <2>1. CASE UNCHANGED spanVars
    <3>1. /\ live' = live /\ conns' = conns /\ links' = links /\ relays' = relays
          /\ wire' = wire /\ swork' = swork
      BY <2>1 DEF spanVars
    <3>2. SpanTyped' /\ OneRelay'
      BY <1>1, <3>1 DEF SpanInv, SpanTyped, OneRelay, Relayed
    <3>3. RelaysFollowBest'
      BY <1>1, <3>1 DEF SpanInv, RelaysFollowBest, Relayed, Wanted, Closer
    <3>4. StreamsOK'
      BY <1>1, <3>1 DEF SpanInv, StreamsOK, StreamOK, Relayed, Received
    <3>5. QED
      BY <3>2, <3>3, <3>4 DEF SpanInv
  <2>2. CASE SpanOpen
    BY <1>1, <2>2, OpenKeeps
  <2>3. CASE SpanClose
    BY <1>1, <2>3, CloseKeeps
  <2>4. CASE \E r \in Routers : dmsg_relay_scan(r)
    BY <1>1, <2>4, ScanKeeps
  <2>5. ASSUME NEW p \in Peers, Progress(p[1], p[2]) \/ Disconnect(p[1], p[2])
        PROVE  SpanInv'
    <3>1. p[1] \in Routers /\ p[2] \in Routers
      BY PeersAre
    <3>2. CASE lnk_span(p[1], p[2])
      BY <1>1, <3>1, <3>2, LnkSpanKeeps
    <3>3. CASE lnk_conn(p[1], p[2])
      BY <1>1, <3>1, <3>3, LnkConnKeeps
    <3>4. CASE lnk_relay(p[1], p[2])
      BY <1>1, <3>1, <3>4, LnkRelayKeeps
    <3>5. CASE FailedSpan(p[1], p[2])
      BY <1>1, <3>1, <3>5, FailedKeeps
    <3>6. CASE Disconnect(p[1], p[2])
      BY <1>1, <3>1, <3>6, DisconnectKeeps
    <3>7. QED
      BY <2>5, <3>2, <3>3, <3>4, <3>5, <3>6 DEF Progress
  <2>6. QED
    BY <1>1, <2>1, <2>2, <2>3, <2>4, <2>5 DEF SpanNext
<1>2. QED
  BY <1>1, SpanStart, PTL DEF SpanSpec

\* The head of a stream, whatever follows it.
LEMMA Fits ==
    ASSUME SpanInv
    PROVE  MessagesFit
<1>1. ASSUME NEW p \in live, wire[p] # <<>>
      PROVE  Head(wire[p]).cmd = "DELETE" <=> \E l \in Received(p) : l.id = Head(wire[p]).id
  <2>1. wire[p] \in Seq(SpanMessage) /\ StreamOK(Relayed(p), Received(p), wire[p])
    BY <1>1 DEF SpanInv, SpanTyped, StreamsOK
  <2>2. /\ 1 \in DOMAIN wire[p] /\ Head(wire[p]) = wire[p][1] /\ wire[p][1] \in SpanMessage
        /\ \A j \in DOMAIN wire[p] : j = 1 \/ 1 < j
    BY <1>1, <2>1, Shorter
  <2>3. ASSUME wire[p][1].cmd = "DELETE"
        PROVE  \E l \in Received(p) : l.id = wire[p][1].id
    <3>1. \A j \in DOMAIN wire[p] : wire[p][j].id = wire[p][1].id => wire[p][j].cmd = "DELETE"
      BY <2>1, <2>2, <2>3 DEF StreamOK
    <3>2. QED
      BY <2>1, <2>2, <2>3, <3>1 DEF StreamOK
  <2>4. ASSUME wire[p][1].cmd # "DELETE"
        PROVE  \A l \in Received(p) : l.id # wire[p][1].id
    <3>1. wire[p][1].cmd = "CREATE"
      BY <2>2, <2>4 DEF SpanMessage
    <3>2. QED
      BY <2>1, <2>2, <3>1 DEF StreamOK
  <2>5. QED
    BY <2>2, <2>3, <2>4
<1>2. QED
  BY <1>1 DEF MessagesFit

\* dmsg_lnk_span, dmsg_relay_scan: a service with no scan due relays the best
\* link it holds over each working connection, each message read fits what the
\* reader knows, and once a stream is empty its two ends agree, in any web of
\* services and with any order of their addresses.
THEOREM SpanFollows == SpanSpec => []SpanSound
<1>1. ASSUME SpanInv PROVE SpanSound
  <2>1. SpanTyped /\ RelaysFollowBest /\ StreamsOK
    BY <1>1 DEF SpanInv
  <2>2. SpanTypeOK
    BY <2>1 DEF SpanTyped, SpanTypeOK
  <2>3. ASSUME NEW p \in live, wire[p] = <<>>
        PROVE  {<<x.id, RelayedDist(x.src)>> : x \in Relayed(p)} = {<<l.id, l.dist>> : l \in Received(p)}
    <3>1. DOMAIN wire[p] = {}
      BY <2>3
    <3>2. /\ \A x \in Relayed(p) : \E l \in Received(p) : l.id = x.id /\ l.dist = RelayedDist(x.src)
          /\ \A l \in Received(p) : \E x \in Relayed(p) : x.id = l.id /\ l.dist = RelayedDist(x.src)
      BY <2>1, <3>1 DEF StreamsOK, StreamOK
    <3>3. QED
      BY <3>2
  <2>4. StreamsAgree
    BY <2>3 DEF StreamsAgree
  <2>5. QED
    BY <1>1, <2>1, <2>2, <2>4, Fits DEF SpanSound
<1>2. QED
  BY <1>1, SpanKept, PTL

===============================================================================
