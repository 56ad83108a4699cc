---------------------------------- MODULE Pfs ----------------------------------
(***************************************************************************)
(* Devices, the PFSs on them, and mounts (hammer2_vfsops.c,                *)
(* hammer2_ioctl.c).  A device (hammer2_dev, hmp) is opened by the first   *)
(* mount of one of its PFSs, and every PFS found under its super-root then *)
(* becomes a node of the cluster structure (hammer2_pfs, pmp) of its       *)
(* cluster id, which may collect nodes of several devices.  mount_count of *)
(* a device counts the nodes of mounted clusters it holds; the device is   *)
(* torn down when the count is zero.  Mounting, unmounting and deleting    *)
(* hold hammer2_mntlk; creating a PFS and taking a snapshot do not, but    *)
(* each is one step here.                                                  *)
(***************************************************************************)
EXTENDS Integers, Sequences, FiniteSets, SequencesExt

CONSTANTS
    Devices,
    Labels,       \* PFS names, in the order of their directory hash
    ClusterIds,   \* cluster ids (pfs_clid)
    Formatted,    \* the PFSs each device starts with
    MaxCluster,   \* HAMMER2_MAXCLUSTER
    Collisions,   \* names of one hash a directory holds (HAMMER2_DIRHASH_LOMASK)
    MaxOpens,     \* how often devices are opened
    Reuse,        \* a name may be used for a PFS again while its device is open
    None

VARIABLES
    disk,         \* the PFS inodes under each device's super-root
    hmp,          \* the open devices: mount_count and rdonly
    pmps,         \* hammer2_pfslist
    opens         \* times a device was opened

pfsVars == <<disk, hmp, pmps, opens>>

(* A PFS inode: name and place among the names of its hash, cluster id, and *)
(* what makes it this inode and no later one of its name.                    *)
PfsInode == [name : ToSet(Labels), slot : 1..Collisions, clid : ClusterIds, id : Nat]

(* An element of a cluster: device and name stay when the chain is removed.  *)
Element == [hmp : Devices \cup {None}, name : ToSet(Labels) \cup {None},
            chain : Nat \cup {None}]
Gap == [hmp |-> None, name |-> None, chain |-> None]
Closed == [count |-> -1, rdonly |-> FALSE]
Open(d) == hmp[d] # Closed

Chains(d, l) == {<<i, j>> \in (1..Len(l)) \X (1..MaxCluster) :
                    j \in 1..Len(l[i].nodes) /\ l[i].nodes[j].hmp = d
                                             /\ l[i].nodes[j].chain # None}

FreshChain == CHOOSE n \in 1..100 :
    /\ \A d \in Devices : \A e \in disk[d] : e.id # n
    /\ \A i \in 1..Len(pmps) : \A j \in 1..Len(pmps[i].nodes) : pmps[i].nodes[j].chain # n

PfsInit ==
    /\ disk = Formatted
    /\ hmp = [d \in Devices |-> Closed]
    /\ pmps = << >>
    /\ opens = 0

-------------------------------------------------------------------------------
(* The super-root directory.                                                 *)
Before(e, f) ==
    LET At(n) == CHOOSE i \in 1..Len(Labels) : Labels[i] = n
    IN  At(e.name) < At(f.name) \/ (e.name = f.name /\ e.slot < f.slot)

Named(d, n) == {e \in disk[d] : e.name = n}
FirstNamed(d, n) == CHOOSE e \in Named(d, n) : \A f \in Named(d, n) : e.slot <= f.slot

hammer2_inode_create_pfs(d, n, c) ==
    LET Free == {s \in 1..Collisions : \A e \in Named(d, n) : e.slot # s}
    IN  {[name |-> n, slot |-> s, clid |-> c, id |-> FreshChain] :
            s \in {s \in Free : \A f \in Free : s <= f}}

-------------------------------------------------------------------------------
(* Cluster structures.  A state of the lists is a record [hmp, pmps].        *)
Empty(c) == [clid |-> c, mounted |-> FALSE, rdonly |-> FALSE, nodes |-> << >>]

(* The first structure with the cluster id, or a new one at the tail.        *)
OfCluster(s, c) ==
    IF \E i \in 1..Len(s.pmps) : s.pmps[i].clid = c
    THEN s ELSE [s EXCEPT !.pmps = Append(s.pmps, Empty(c))]
IndexOf(s, c) == CHOOSE i \in 1..Len(s.pmps) :
    s.pmps[i].clid = c /\ \A j \in 1..(i - 1) : s.pmps[j].clid # c

(* Mutant: a node that joins a mounted structure is not counted.             *)
BugCounted(s, p, d) == s.hmp

Counted(s, p, d) ==
    IF p.mounted THEN [s.hmp EXCEPT ![d].count = s.hmp[d].count + 1] ELSE s.hmp

hammer2_pfsalloc(s, d, e) ==
    LET t == OfCluster(s, e.clid)
        i == IndexOf(t, e.clid)
        p == t.pmps[i]
        node == [hmp |-> d, name |-> e.name, chain |-> e.id]
    IN  IF Len(p.nodes) = MaxCluster THEN t
        ELSE [hmp |-> Counted(t, p, d),
              pmps |-> [t.pmps EXCEPT ![i].nodes = Append(p.nodes, node)]]

(* hammer2_update_pmps: every PFS under the super-root, in key order.        *)
Probed(s, d) ==
    LET es == SetToSortSeq(disk[d], Before)
        All[n \in 0..Len(es)] ==
            IF n = 0 THEN s ELSE hammer2_pfsalloc(All[n - 1], d, es[n])
    IN  All[Len(es)]

(* hammer2_pfsfree_scan: the device's elements become gaps, trailing gaps go, *)
(* and a structure left with no element is freed.                             *)
Without(p, d) ==
    LET nodes == [j \in 1..Len(p.nodes) |->
                     IF p.nodes[j].hmp = d THEN Gap ELSE p.nodes[j]]
        Kept == {j \in 1..Len(nodes) : nodes[j].hmp # None}
    IN  [p EXCEPT !.nodes = SubSeq(nodes, 1, IF Kept = {} THEN 0
                                  ELSE CHOOSE j \in Kept : \A k \in Kept : k <= j)]
Affected(p, d) == \E j \in 1..Len(p.nodes) : p.nodes[j].hmp = d
hammer2_pfsfree_scan(l, d) ==
    LET Left(p) == ~ (Affected(p, d) /\ Without(p, d).nodes = << >>)
        kept == SelectSeq(l, Left)
    IN  [i \in 1..Len(kept) |-> IF Affected(kept[i], d) THEN Without(kept[i], d) ELSE kept[i]]

(* hammer2_unmount_helper with a device: torn down unless a mount needs it.  *)
Released(s, d) ==
    IF s.hmp[d].count # 0 THEN s
    ELSE [hmp |-> [s.hmp EXCEPT ![d] = Closed], pmps |-> hammer2_pfsfree_scan(s.pmps, d)]

(* The nodes of a mounted structure, on each device.                         *)
OnDevice(p, d) == Cardinality({j \in 1..Len(p.nodes) :
                                  p.nodes[j].hmp = d /\ p.nodes[j].chain # None})

hammer2_mount_helper(s, i, ro) ==
    [hmp |-> [d \in Devices |-> IF s.hmp[d] = Closed THEN Closed
                 ELSE [s.hmp[d] EXCEPT !.count = s.hmp[d].count + OnDevice(s.pmps[i], d)]],
     pmps |-> [s.pmps EXCEPT ![i].mounted = TRUE, ![i].rdonly = ro]]

(* hammer2_unmount_helper with a structure, then every device no longer       *)
(* needed, from the head of hammer2_mntlist (their order does not matter).    *)
Uncounted(s, i) ==
    [hmp |-> [d \in Devices |-> IF s.hmp[d] = Closed THEN Closed
                 ELSE [s.hmp[d] EXCEPT !.count = s.hmp[d].count - OnDevice(s.pmps[i], d)]],
     pmps |-> [s.pmps EXCEPT ![i].mounted = FALSE]]
hammer2_unmount_helper(s, i) ==
    LET u == Uncounted(s, i)
        ds == SetToSeq({d \in Devices : u.hmp[d] # Closed})
        All[n \in 0..Len(ds)] == IF n = 0 THEN u ELSE Released(All[n - 1], ds[n])
    IN  All[Len(ds)]

Become(s) == hmp' = s.hmp /\ pmps' = s.pmps
Now == [hmp |-> hmp, pmps |-> pmps]

-------------------------------------------------------------------------------
(* The calls.  A mount opens the device if it is not, probes its PFSs, finds  *)
(* the label on the device and mounts the structure of its cluster id.  Any   *)
(* failure closes the device again unless it is needed.                       *)
Opened(d, ro) ==
    IF Open(d) THEN Now
    ELSE Probed([Now EXCEPT !.hmp[d] = [count |-> 0, rdonly |-> ro]], d)

(* hammer2_remount_impl: recovery and the fixup of the PFSs, then writable.  *)
Writable(s, d) == [s EXCEPT !.hmp[d] = [s.hmp[d] EXCEPT !.rdonly = FALSE]]

MountOn(d, n, ro) ==
    LET s == Opened(d, ro)
        t == OfCluster(s, FirstNamed(d, n).clid)
        i == IndexOf(t, FirstNamed(d, n).clid)
        m == hammer2_mount_helper(t, i, ro)
    IN  /\ UNCHANGED disk
        /\ IF Open(d) THEN UNCHANGED opens ELSE opens < MaxOpens /\ opens' = opens + 1
        /\ IF Named(d, n) = {} THEN Become(Released(s, d))
           ELSE IF t.pmps[i].mounted THEN Become(Released(t, d))
           ELSE IF m.hmp[d].rdonly /\ ~ro
                THEN \/ Become(Writable(m, d))
                     \/ Become(hammer2_unmount_helper(m, i))  \* recovery failed
                ELSE Become(m)

(* mount device@label *)
hammer2_mount(d, n, ro) == MountOn(d, n, ro)

(* mount @label: the device of the first element of that name.               *)
MountLabel(n, ro) ==
    LET Has == {i \in 1..Len(pmps) : \E j \in 1..Len(pmps[i].nodes) :
                   pmps[i].nodes[j].name = n /\ pmps[i].nodes[j].hmp # None}
        i == CHOOSE k \in Has : \A l \in Has : k <= l
        At == {j \in 1..Len(pmps[i].nodes) : pmps[i].nodes[j].name = n}
    IN  /\ Has # {}
        /\ MountOn(pmps[i].nodes[CHOOSE j \in At : \A k \in At : j <= k].hmp, n, ro)

hammer2_unmount(i) ==
    /\ pmps[i].mounted
    /\ Become(hammer2_unmount_helper(Now, i))
    /\ UNCHANGED <<disk, opens>>

(* mount -u: hammer2_remount for the device of each node in turn, where the   *)
(* first that changes the structure decides for all.                          *)
Remount(i, ro) ==
    LET Held == {j \in 1..Len(pmps[i].nodes) : pmps[i].nodes[j].chain # None}
        d == pmps[i].nodes[CHOOSE j \in Held : \A k \in Held : j <= k].hmp
        s == IF ~ro /\ hmp[d].rdonly THEN Writable(Now, d) ELSE Now
    IN  /\ pmps[i].mounted /\ pmps[i].rdonly # ro /\ Held # {}
        /\ Become([s EXCEPT !.pmps[i].rdonly = ro])
        /\ UNCHANGED <<disk, opens>>

(* The ioctls reach the device through the first element of their mount.     *)
ThroughMount(i, d) == /\ pmps[i].mounted /\ ~pmps[i].rdonly
                      /\ Len(pmps[i].nodes) > 0 /\ pmps[i].nodes[1].hmp = d
                      /\ d # None
Unused(d, n) == Reuse \/ \A i \in 1..Len(pmps) : \A j \in 1..Len(pmps[i].nodes) :
                            pmps[i].nodes[j].hmp # d \/ pmps[i].nodes[j].name # n

Added(d, n, c) ==
    \E e \in hammer2_inode_create_pfs(d, n, c) :
        /\ disk' = [disk EXCEPT ![d] = disk[d] \cup {e}]
        /\ Become(hammer2_pfsalloc(Now, d, e))
        /\ UNCHANGED opens

hammer2_ioctl_pfs_create(i, d, n, c) ==
    /\ ThroughMount(i, d) /\ Unused(d, n)
    /\ Named(d, n) = {}
    /\ Added(d, n, c)

(* A snapshot's cluster id is new, and its name is not looked up first.      *)
hammer2_ioctl_pfs_snapshot(i, d, n, c) ==
    /\ ThroughMount(i, d) /\ Unused(d, n)
    /\ pmps[i].nodes[1].chain # None
    /\ \A k \in 1..Len(pmps) : pmps[k].clid # c
    /\ \A x \in Devices : \A e \in disk[x] : e.clid # c
    /\ Added(d, n, c)

(* The first structure with an element of that device and name loses its      *)
(* chain; then the first inode of that name is unlinked.                      *)
Elements(d, n) == {<<k, j>> \in (1..Len(pmps)) \X (1..MaxCluster) :
                      j \in 1..Len(pmps[k].nodes) /\ pmps[k].nodes[j].hmp = d
                                                  /\ pmps[k].nodes[j].name = n}
First(S) == CHOOSE x \in S : \A y \in S : x[1] < y[1] \/ (x[1] = y[1] /\ x[2] <= y[2])
Target(d, n) == First(Elements(d, n))
(* Mutant: the element is the last of its structure, not the one found.      *)
BugCleared(x) == [pmps EXCEPT ![x[1]].nodes =
    [pmps[x[1]].nodes EXCEPT ![Len(pmps[x[1]].nodes)].chain = None]]
Cleared(x) == [pmps EXCEPT ![x[1]].nodes =
                  [pmps[x[1]].nodes EXCEPT ![x[2]].chain = None]]
hammer2_ioctl_pfs_delete(i, d, n) ==
    /\ ThroughMount(i, d)
    /\ Elements(d, n) # {}
    /\ ~pmps[Target(d, n)[1]].mounted
    /\ pmps' = Cleared(Target(d, n))
    /\ disk' = [disk EXCEPT ![d] = disk[d] \ (IF Named(d, n) = {} THEN {}
                                             ELSE {FirstNamed(d, n)})]
    /\ UNCHANGED <<hmp, opens>>

PfsNext ==
    \/ \E d \in Devices, n \in ToSet(Labels), ro \in BOOLEAN : hammer2_mount(d, n, ro)
    \/ \E n \in ToSet(Labels), ro \in BOOLEAN : MountLabel(n, ro)
    \/ \E i \in 1..Len(pmps) :
          \/ hammer2_unmount(i)
          \/ \E ro \in BOOLEAN : Remount(i, ro)
          \/ \E d \in Devices, n \in ToSet(Labels) :
                \/ \E c \in ClusterIds : hammer2_ioctl_pfs_create(i, d, n, c)
                \/ \E c \in ClusterIds : hammer2_ioctl_pfs_snapshot(i, d, n, c)
                \/ hammer2_ioctl_pfs_delete(i, d, n)

PfsSpec == PfsInit /\ [][PfsNext]_pfsVars

-------------------------------------------------------------------------------
Mounted == {i \in 1..Len(pmps) : pmps[i].mounted}

(* The teardown of a device rests on mount_count being exactly the number of  *)
(* nodes that mounted structures have on it, through PFSs that are created,   *)
(* join and leave while mounts come and go; an open device always has one.    *)
MountCounts ==
    \A d \in Devices :
        /\ Open(d) => hmp[d].count > 0
        /\ Open(d) => hmp[d].count = Cardinality({x \in Chains(d, pmps) : x[1] \in Mounted})
        /\ ~Open(d) => \A i \in 1..Len(pmps) : ~Affected(pmps[i], d)

(* "The PFS should be probed, so we should be able to locate it": each PFS of *)
(* an open device is the chain of exactly one element, of its own cluster id, *)
(* and every chain is a PFS that exists.                                      *)
EveryPfsProbed ==
    \A d \in Devices : Open(d) =>
        /\ \A e \in disk[d] :
              Cardinality({x \in Chains(d, pmps) :
                 pmps[x[1]].nodes[x[2]].chain = e.id /\ pmps[x[1]].clid = e.clid}) = 1
        /\ Cardinality(Chains(d, pmps)) = Cardinality(disk[d])

(* The mounted structures, their devices and the PFSs on these agree.         *)
MountSound == MountCounts /\ EveryPfsProbed

(* A PFS that is mounted is not deleted: every chain a mounted structure had  *)
(* stays a PFS of its device as long as it is mounted.                        *)
MountedNotDeleted ==
    \A i \in Mounted : \A j \in 1..Len(pmps[i].nodes) :
        pmps[i].nodes[j].chain # None =>
            \E e \in disk[pmps[i].nodes[j].hmp] : e.id = pmps[i].nodes[j].chain

(* A PFS mounted for writing writes only to devices that are writable, and so *)
(* went through recovery.                                                     *)
WritesRecovered ==
    \A i \in Mounted : ~pmps[i].rdonly =>
        \A j \in 1..Len(pmps[i].nodes) :
            pmps[i].nodes[j].chain # None => ~hmp[pmps[i].nodes[j].hmp].rdonly
===============================================================================
