-------------------------------- MODULE Chain --------------------------------
(***************************************************************************)
(* The chains below one inode (hammer2_chain.c) and the flush that writes  *)
(* them out bottom-up (hammer2_flush.c): a radix tree of references kept   *)
(* partly in memory (the red-black tree of a chain) and partly in the      *)
(* block array of its parent, split into indirect blocks when an array     *)
(* fills up and collapsed again by the flusher.                            *)
(*                                                                         *)
(* A chain is named by the key range it covers, <<key, keybits>>.  Calls   *)
(* of the frontend hold the lock of a parent until they have the child, so *)
(* each is one step; the flusher holds no lock where it goes from parent   *)
(* to child (flush_recurse), before it updates the parent (flush_core) and *)
(* on its way back, and each of those is a step of its own.                *)
(***************************************************************************)
EXTENDS Integers, FiniteSets, FiniteSetsExt, Sequences

CONSTANTS Keys,        \* keys the inode's elements use
          KeyBits,     \* keys are below 2^KeyBits
          RootCount,   \* HAMMER2_SET_COUNT, references in an inode
          IndCount,    \* references in an indirect block, a power of two
          Images,      \* block arrays the inode may have on the media at first
          MaxCalls,    \* bound: changes made by the frontend
          MaxFlushes   \* bound: flushes

ASSUME ChainAssumption ==
    /\ KeyBits \in 1..8 /\ Keys \subseteq 0..(2^KeyBits - 1)
    /\ RootCount \in 3..IndCount /\ IndCount \in {4, 8, 16}
    /\ \A m \in Images : Cardinality(m) <= RootCount
    /\ MaxCalls \in 0..100 /\ MaxFlushes \in 0..100

VARIABLES node,    \* id -> the in-memory chain of that range
          synced,  \* block array of the inode as last written out
          stack,   \* the flusher's recursion, innermost frame last
          seen,    \* key -> contents it had since the flush began
          upset,   \* what came between: "next", the flusher followed a
                   \* reference to a chain that left; "split", an array was
                   \* split while a flush ran
          calls, flushes

chainVars == <<node, synced, stack, seen, upset, calls, flushes>>

(***************************************************************************)
(* Ranges, references and block arrays.                                    *)
(***************************************************************************)
Top == <<0, KeyBits + 1>>
NoId == <<-1, -1>>
Inds == {<<k, b>> \in (0..(2^KeyBits - 1)) \X (1..KeyBits) : k % 2^b = 0}
Leaves == {<<k, 0>> : k \in Keys}
Ids == Leaves \cup Inds \cup {Top}
IsLeaf(id) == id[2] = 0
In(x, id) == x[1] \div 2^id[2] = id[1] \div 2^id[2] /\ x[2] <= id[2]
Count(id) == IF id = Top THEN RootCount ELSE IndCount
Values == {1, 2}

NoChain == [on |-> FALSE, par |-> NoId, mod |-> FALSE, upd |-> FALSE,
            mapped |-> FALSE, mapupd |-> FALSE, onflush |-> FALSE,
            val |-> 0, base |-> {}, live |-> 0]

\* A reference is <<id, image>>: the contents of a leaf, or the block array
\* of an indirect block as it was when that block was written.
Ref(id, c) == <<id, IF IsLeaf(id) THEN c.val ELSE c.base>>

\* The red-black tree of a chain, and the references of its block array
\* that no chain in memory stands for.
Kids(nd, p) == {c \in Ids : nd[c].on /\ nd[c].par = p}
OnlyMapped(nd, p) == {r \in nd[p].base : r[1] \notin Kids(nd, p)}

\* hammer2_combined_find over the whole key space: red-black tree and block
\* array merged, the chain in memory taking precedence.
Elements(nd, p) == Kids(nd, p) \cup {r[1] : r \in OnlyMapped(nd, p)}

\* The leaves below a set of elements <<id, in memory, image>>.
Expand(nd, S) ==
    UNION {CASE IsLeaf(e[1]) -> {e}
             [] ~IsLeaf(e[1]) /\ e[2] ->
                    {<<c, TRUE, nd[c].val>> : c \in Kids(nd, e[1])} \cup
                    {<<r[1], FALSE, r[2]>> : r \in OnlyMapped(nd, e[1])}
             [] OTHER -> {<<r[1], FALSE, r[2]>> : r \in e[3]} : e \in S}

LeavesBelow(nd, S) ==
    LET f[i \in 0..(KeyBits + 1)] == IF i = 0 THEN S ELSE Expand(nd, f[i - 1])
    IN  f[KeyBits + 1]

MapOf(L) == [k \in Keys |-> IF \E e \in L : e[1] = <<k, 0>>
                            THEN (CHOOSE e \in L : e[1] = <<k, 0>>)[3]
                            ELSE 0]

\* The map the callers see, and the one a mount would read back.
LiveMap == MapOf(LeavesBelow(node, {<<Top, TRUE, 0>>}))
SyncedMap == MapOf(LeavesBelow(node, {<<Top, FALSE, synced>>}))

(***************************************************************************)
(* Flags.                                                                  *)
(***************************************************************************)
Above(nd, n) ==
    LET f[i \in 0..(KeyBits + 1)] ==
            IF i = 0 THEN {n}
            ELSE f[i - 1] \cup ({nd[x].par : x \in f[i - 1]} \ {NoId})
    IN  f[KeyBits + 1]

\* hammer2_chain_setflush: ONFLUSH upward, until a chain has it already.
SetFlush(nd, n) ==
    LET A == Above(nd, n) IN
    [x \in Ids |-> IF x \in A /\ \A y \in A : y[2] < x[2] => ~nd[y].onflush
                   THEN [nd[x] EXCEPT !.onflush = TRUE] ELSE nd[x]]

SetFlushParent(nd, n) ==
    IF nd[n].par = NoId THEN nd ELSE SetFlush(nd, nd[n].par)

\* hammer2_chain_modify: the chain gets a new block, its parent's reference
\* is out of date, and the flush of the parent must recurse down to it.
Modify(nd, n) ==
    SetFlushParent([nd EXCEPT ![n] = [nd[n] EXCEPT
                        !.mod = TRUE, !.upd = TRUE,
                        !.mapupd = nd[n].mapped \/ nd[n].mapupd]], n)

(***************************************************************************)
(* Block arrays and red-black trees.                                       *)
(***************************************************************************)
\* hammer2_chain_get: the chain of a reference, put below its parent.
Get(nd, p, r) ==
    [nd EXCEPT ![r[1]] = [NoChain EXCEPT
        !.on = TRUE, !.par = p, !.mapped = TRUE,
        !.val = IF IsLeaf(r[1]) THEN r[2] ELSE 0,
        !.base = IF IsLeaf(r[1]) THEN {} ELSE r[2],
        !.live = IF IsLeaf(r[1]) THEN 0 ELSE Cardinality(r[2])]]

RefOf(nd, p, id) == CHOOSE r \in nd[p].base : r[1] = id

Loaded(nd, p, id) ==
    IF id \in Kids(nd, p) THEN nd ELSE Get(nd, p, RefOf(nd, p, id))

BaseDelete(nd, p, id) ==
    [nd EXCEPT ![p] = [nd[p] EXCEPT !.base = {r \in nd[p].base : r[1] # id}],
               ![id] = [nd[id] EXCEPT !.mapped = FALSE, !.mapupd = FALSE]]

BaseInsert(nd, p, ref) ==
    [nd EXCEPT ![p] = [nd[p] EXCEPT !.base = nd[p].base \cup {ref}],
               ![ref[1]] = [nd[ref[1]] EXCEPT !.mapped = TRUE]]

\* hammer2_chain_insert with INSERT_LIVE.
InsertLive(nd, p, id) ==
    [nd EXCEPT ![id] = [nd[id] EXCEPT !.on = TRUE, !.par = p],
               ![p] = [nd[p] EXCEPT !.live = nd[p].live + 1]]

\* live_count adjusted only for a chain that is in the block array.
BugDeleteHelper(nd, p, id) ==
    LET nd1 == IF nd[id].mapped THEN BaseDelete(Modify(nd, p), p, id) ELSE nd
    IN  [nd1 EXCEPT ![id] = [nd1[id] EXCEPT !.on = FALSE, !.par = NoId],
                    ![p] = [nd1[p] EXCEPT !.live =
                               nd1[p].live - (IF nd[id].mapped THEN 1 ELSE 0)]]

\* _hammer2_chain_delete_helper: out of the tree and, when it is there, out
\* of the block array, which modifies the parent.
DeleteHelper(nd, p, id) ==
    LET nd1 == IF nd[id].mapped THEN BaseDelete(Modify(nd, p), p, id) ELSE nd
    IN  [nd1 EXCEPT ![id] = [nd1[id] EXCEPT !.on = FALSE, !.par = NoId],
                    ![p] = [nd1[p] EXCEPT !.live = nd1[p].live - 1]]

\* UPDATE always cleared once the old reference is in place.
BugMove(nd, from, to, id) ==
    LET nd0 == Loaded(nd, from, id)
        obref == {r \in nd0[from].base : r[1] = id /\ nd0[id].mapped}
        nd1 == InsertLive(DeleteHelper(nd0, from, id), to, id)
        nd2 == SetFlush([nd1 EXCEPT ![id] = [nd1[id] EXCEPT !.upd = TRUE]], to)
        nd3 == BaseInsert(Modify(nd2, to), to, CHOOSE r \in obref : TRUE)
    IN  IF obref = {} THEN nd2
        ELSE [nd3 EXCEPT ![id] = [nd3[id] EXCEPT !.upd = FALSE]]

\* hammer2_chain_delete_obref and hammer2_chain_rename_obref: a chain moves
\* with the reference its old parent had, not with a new one made from what
\* may be a modified chain.
Move(nd, from, to, id) ==
    LET nd0 == Loaded(nd, from, id)
        obref == {r \in nd0[from].base : r[1] = id /\ nd0[id].mapped}
        stale == nd0[id].mapupd
        nd1 == InsertLive(DeleteHelper(nd0, from, id), to, id)
        nd2 == SetFlush([nd1 EXCEPT ![id] = [nd1[id] EXCEPT !.upd = TRUE]], to)
        nd3 == BaseInsert(Modify(nd2, to), to, CHOOSE r \in obref : TRUE)
    IN  IF obref = {} THEN nd2
        ELSE [nd3 EXCEPT ![id] = [nd3[id] EXCEPT !.mapupd = stale, !.upd = stale]]

MoveAll(nd, from, to, S) ==
    FoldSet(LAMBDA id, acc : Move(acc, from, to, id), nd, S)

(***************************************************************************)
(* Indirect blocks.                                                        *)
(***************************************************************************)
\* hammer2_chain_indkey_dir: the half of the range of all elements (and the
\* one to create) that holds more of them, widened to fill a whole block.
IndKey(S, x) ==
    LET Same(n) == \A e \in S : e[2] <= n /\ e[1] \div 2^n = x[1] \div 2^n
        span == CHOOSE n \in x[2]..(KeyBits + 1) :
                    Same(n) /\ \A m \in x[2]..(n - 1) : ~Same(m)
        fit == CHOOSE n \in 0..8 : 2^n = IndCount
        bits == IF span - 1 >= fit THEN span - 1 ELSE fit
        high == {e \in S : (e[1] \div 2^bits) % 2 = 1}
        up == 2 * Cardinality(high) > Cardinality(S)
    IN  <<(x[1] \div 2^(bits + 1)) * 2^(bits + 1) + (IF up THEN 2^bits ELSE 0),
          bits>>

\* ONFLUSH set on the new block before it has a parent, and never above it.
BugCreateIndirect(s, x) ==
    LET p == s.at
        new == IndKey(Elements(s.nd, p), x)
        nd1 == [Modify(s.nd, p) EXCEPT
                   ![new] = [NoChain EXCEPT !.mod = TRUE, !.upd = TRUE]]
        nd2 == MoveAll(nd1, p, new, {e \in Elements(s.nd, p) : In(e, new)})
        nd3 == InsertLive(nd2, p, new)
    IN  [nd |-> SetFlush(nd3, new), at |-> IF In(x, new) THEN new ELSE p]

\* hammer2_chain_create_indirect: the new tree and the parent to go on with.
CreateIndirect(s, x) ==
    LET p == s.at
        new == IndKey(Elements(s.nd, p), x)
        nd1 == [Modify(s.nd, p) EXCEPT
                   ![new] = [NoChain EXCEPT !.mod = TRUE, !.upd = TRUE]]
        nd2 == MoveAll(nd1, p, new, {e \in Elements(s.nd, p) : In(e, new)})
        nd3 == InsertLive(nd2, p, new)
    IN  [nd |-> SetFlush(SetFlush(nd3, new), p),
         at |-> IF In(x, new) THEN new ELSE p]

\* hammer2_chain_indirect_maintenance, called when a flushed indirect block
\* is about to be put into its parent's array.
IsEmpty(nd, c) == nd[c].live = 0 /\ Kids(nd, c) = {}

Collapsible(nd, p, c) ==
    /\ nd[p].live + nd[c].live - 1 <= Count(p)
    /\ nd[c].live <= (Count(c) * 3) \div 4

\* Only the chains in memory moved, the references in the array forgotten.
BugCollapse(nd, p, c) ==
    LET nd1 == DeleteHelper(Modify(Modify(nd, p), c), p, c)
    IN  [MoveAll(nd1, c, p, Kids(nd1, c)) EXCEPT ![c] = NoChain]

Collapse(nd, p, c) ==
    LET nd1 == DeleteHelper(Modify(Modify(nd, p), c), p, c)
    IN  [MoveAll(nd1, c, p, Elements(nd1, c)) EXCEPT ![c] = NoChain]

(***************************************************************************)
(* Calls of the frontend.                                                  *)
(***************************************************************************)
\* hammer2_chain_lookup: down to the leaf or to the deepest parent, chains
\* that are only on the media being loaded on the way.
Find(nd, x) ==
    LET Down(s) ==
            LET E == {e \in Elements(s.nd, s.at) : In(x, e)}
            IN  IF IsLeaf(s.at) \/ E = {} THEN s
                ELSE LET e == CHOOSE e \in E : TRUE
                     IN  [nd |-> Loaded(s.nd, s.at, e), at |-> e]
        f[i \in 0..(KeyBits + 1)] ==
            IF i = 0 THEN [nd |-> nd, at |-> Top] ELSE Down(f[i - 1])
    IN  f[KeyBits + 1]

\* The references the flusher holds to a chain that leaves the topology.
Forget(stk, id) ==
    [i \in DOMAIN stk |-> [stk[i] EXCEPT
        !.gone = \/ stk[i].gone
                 \/ stk[i].st = "enter" /\ stk[i].kid = id
                 \/ stk[i].st = "up" /\ stk[i].id = id,
        !.next = IF stk[i].next = id THEN <<id[1], -1>> ELSE stk[i].next]]

Called(k, nd, v, split) ==
    /\ calls < MaxCalls
    /\ upset' = IF split /\ stack # <<>> THEN upset \cup {"split"} ELSE upset
    /\ calls' = calls + 1
    /\ node' = nd
    /\ seen' = IF stack = <<>> THEN seen
               ELSE [seen EXCEPT ![k] = seen[k] \cup {v}]
    /\ UNCHANGED <<synced, flushes>>

\* hammer2_chain_create; a parent whose array is full is split first, as
\* often as it takes.
Room(s, x) ==
    LET f[i \in 0..KeyBits] ==
            IF i = 0 THEN s
            ELSE IF f[i - 1].nd[f[i - 1].at].live < Count(f[i - 1].at)
                 THEN f[i - 1] ELSE CreateIndirect(f[i - 1], x)
    IN  f[KeyBits]

chain_create(k) ==
    LET x == <<k, 0>>
        s == Find(node, x)
        r == Room(s, x)
    IN  /\ s.at # x
        /\ \E v \in Values :
              LET nd == InsertLive([r.nd EXCEPT ![x] = [NoChain EXCEPT !.val = v]],
                                   r.at, x)
              IN  Called(k, SetFlush(Modify(nd, x), r.at), v, r # s)
        /\ UNCHANGED stack

\* hammer2_chain_modify by a caller that then changes the data.
chain_modify(k) ==
    LET x == <<k, 0>>
        s == Find(node, x)
        nd == Modify(s.nd, x)
        v == 3 - nd[x].val
    IN  /\ s.at = x
        /\ Called(k, [nd EXCEPT ![x] = [nd[x] EXCEPT !.val = v]], v, FALSE)
        /\ UNCHANGED stack

\* hammer2_chain_delete; the chain itself goes with its last reference, and
\* until then has no parent.
chain_delete(k) ==
    LET x == <<k, 0>>
        s == Find(node, x)
    IN  /\ s.at = x
        /\ Called(k, [DeleteHelper(s.nd, s.nd[x].par, x) EXCEPT ![x] = NoChain], 0, FALSE)
        /\ stack' = Forget(stack, x)

\* A lookup that changes nothing but what is in memory.
chain_lookup(k) ==
    LET nd == Find(node, <<k, 0>>).nd
    IN  /\ nd # node
        /\ Called(k, nd, LiveMap[k], FALSE)
        /\ UNCHANGED stack

\* hammer2_chain_lastdrop: the last reference to a chain with nothing to
\* flush and nothing below it.
Held(id) == \E i \in DOMAIN stack : \/ stack[i].id = id
                                    \/ stack[i].kid = id

chain_lastdrop(id) ==
    LET c == node[id]
    IN  /\ c.on /\ id # Top /\ Kids(node, id) = {} /\ ~Held(id)
        /\ ~c.mod /\ ~c.upd
        /\ node' = [node EXCEPT
                      ![id] = NoChain,
                      ![c.par] = [node[c.par] EXCEPT
                          !.live = node[c.par].live - (IF c.mapped THEN 0 ELSE 1)]]
        /\ stack' = Forget(stack, id)
        /\ UNCHANGED <<synced, seen, upset, calls, flushes>>

(***************************************************************************)
(* The flusher.                                                            *)
(***************************************************************************)
Frame(id, pass) == [id |-> id, st |-> "up", kid |-> NoId, next |-> NoId,
                    pass |-> pass, gone |-> FALSE]

First(S) == IF S = {} THEN NoId
            ELSE CHOOSE x \in S : \A y \in S : x[1] <= y[1]

\* RB_NEXT, in the tree the chain is in by now.
Successor(nd, id) == First({y \in Kids(nd, nd[id].par) : y[1] > id[1]})

\* flush_core's loop over the children of a chain, from child c on: a second
\* pass if ONFLUSH was set again in the meantime, then the chain itself.
Scan(nd, rest, f, c) ==
    LET again == f.pass = 1 /\ nd[f.id].onflush
        nd2 == [nd EXCEPT ![f.id] = [nd[f.id] EXCEPT !.onflush = FALSE]]
        first == First(Kids(nd, f.id))
        Enter(n, x, pass) == [f EXCEPT !.st = "enter", !.kid = x,
                                       !.next = Successor(n, x),
                                       !.pass = pass, !.gone = FALSE]
        Ascend == [f EXCEPT !.st = "up", !.kid = NoId, !.next = NoId,
                            !.gone = FALSE]
    IN  CASE c # NoId -> <<nd, Append(rest, Enter(nd, c, f.pass))>>
          [] c = NoId /\ again /\ first # NoId ->
                 <<nd2, Append(rest, Enter(nd2, first, 2))>>
          [] c = NoId /\ again /\ first = NoId -> <<nd2, Append(rest, Ascend)>>
          [] OTHER -> <<nd, Append(rest, Ascend)>>

NeedsFlush(c) == c.mod \/ c.upd \/ c.onflush

\* flush_core on the way down: ONFLUSH is cleared first, so that a change
\* made meanwhile is found again.
Descend(nd, rest, id) ==
    IF nd[id].onflush
    THEN LET nd1 == [nd EXCEPT ![id] = [nd[id] EXCEPT !.onflush = FALSE]]
         IN  Scan(nd1, rest, Frame(id, 1), First(Kids(nd1, id)))
    ELSE <<nd, Append(rest, Frame(id, 1))>>

Return(stk) == [stk EXCEPT ![Len(stk)] =
                   [stk[Len(stk)] EXCEPT !.st = "ret", !.gone = FALSE]]

\* flush_core on the way up, chain and parent locked: the block is final,
\* and the parent's array is made to refer to it.
UpdateParent(nd, p, id) ==
    LET nd1 == [nd EXCEPT ![id] = [nd[id] EXCEPT !.mod = FALSE, !.upd = FALSE]]
        nd2 == Modify(nd1, p)
        nd3 == IF ~nd2[id].mapupd THEN nd2
               ELSE IF nd2[id].mapped THEN BaseDelete(nd2, p, id)
               ELSE [nd2 EXCEPT ![id] = [nd2[id] EXCEPT !.mapupd = FALSE]]
    IN  CASE ~nd[id].upd -> nd1
          [] nd[id].upd /\ ~IsLeaf(id) /\ IsEmpty(nd1, id) ->
                 [DeleteHelper(nd1, p, id) EXCEPT ![id] = NoChain]
          [] nd[id].upd /\ ~IsLeaf(id) /\ ~IsEmpty(nd1, id)
                 /\ Collapsible(nd1, p, id) -> Collapse(nd1, p, id)
          [] OTHER -> IF nd3[id].mapped THEN nd3
                      ELSE BaseInsert(nd3, p, Ref(id, nd3[id]))

flush_begin ==
    LET r == Descend(node, <<>>, Top)
    IN  /\ stack = <<>> /\ flushes < MaxFlushes /\ NeedsFlush(node[Top])
        /\ node' = r[1] /\ stack' = r[2]
        /\ seen' = [k \in Keys |-> {LiveMap[k]}]
        /\ upset' = upset \ {"split"}
        /\ flushes' = flushes + 1
        /\ UNCHANGED <<synced, calls>>

Inner == stack[Len(stack)]
Outer == SubSeq(stack, 1, Len(stack) - 1)

\* flush_recurse has the child's lock.
flush_enter ==
    LET kid == Inner.kid
        lost == Inner.gone \/ node[kid].par # Inner.id \/ ~NeedsFlush(node[kid])
        r == IF lost THEN <<node, Return(stack)>> ELSE Descend(node, stack, kid)
    IN  /\ stack # <<>> /\ Inner.st = "enter"
        /\ node' = r[1] /\ stack' = r[2]
        /\ UNCHANGED <<synced, seen, upset, calls, flushes>>

\* flush_core has the locks of parent and chain.
flush_up ==
    LET id == Inner.id
        p == Outer[Len(Outer)].id
        lost == Inner.gone \/ node[id].par # p
    IN  /\ stack # <<>> /\ Inner.st = "up" /\ id # Top
        /\ node' = IF lost THEN node ELSE UpdateParent(node, p, id)
        /\ stack' = Return(Outer)
        /\ UNCHANGED <<synced, seen, upset, calls, flushes>>

\* The inode's own block is written and the volume refers to it.
flush_end ==
    /\ stack # <<>> /\ Inner.st = "up" /\ Inner.id = Top
    /\ node' = [node EXCEPT ![Top] = [node[Top] EXCEPT !.mod = FALSE, !.upd = FALSE]]
    /\ synced' = node[Top].base
    /\ stack' = <<>>
    /\ UNCHANGED <<seen, upset, calls, flushes>>

\* flush_recurse has its parent's lock back and goes on with the child that
\* was next before it gave the lock up.  That child has no reference of the
\* flusher's: when it is gone by now, anything may follow.
flush_return ==
    LET next == Inner.next
        bad == next # NoId /\ (next[2] = -1 \/ node[next].par # Inner.id)
    IN  /\ stack # <<>> /\ Inner.st = "ret"
        /\ \E c \in IF next[2] = -1 /\ next # NoId
                    THEN Kids(node, Inner.id) \cup {NoId} ELSE {next} :
              LET r == Scan(node, Outer, Inner, c)
              IN  node' = r[1] /\ stack' = r[2]
        /\ upset' = IF bad THEN upset \cup {"next"} ELSE upset
        /\ UNCHANGED <<synced, seen, calls, flushes>>

ChainInit ==
    /\ synced \in Images
    /\ node = [id \in Ids |->
                 IF id = Top
                 THEN [NoChain EXCEPT !.on = TRUE, !.base = synced,
                                      !.live = Cardinality(synced)]
                 ELSE NoChain]
    /\ stack = <<>> /\ upset = {} /\ calls = 0 /\ flushes = 0
    /\ seen = [k \in Keys |-> {SyncedMap[k]}]

ChainNext ==
    \/ \E k \in Keys : \/ chain_create(k) \/ chain_modify(k)
                       \/ chain_delete(k) \/ chain_lookup(k)
    \/ \E id \in Ids : chain_lastdrop(id)
    \/ flush_begin \/ flush_enter \/ flush_up \/ flush_end \/ flush_return

ChainSpec == ChainInit /\ [][ChainNext]_chainVars

(***************************************************************************)
(* Properties.                                                             *)
(***************************************************************************)
ChainTypeOK ==
    /\ \A id \in Ids : /\ node[id].par \in Ids \cup {NoId}
                       /\ node[id].live \in Nat
                       /\ node[id].val \in {0} \cup Values
                       /\ node[id].on => \/ id = Top
                                         \/ node[id].par # NoId
    /\ \A i \in DOMAIN stack : /\ stack[i].st \in {"enter", "up", "ret"}
                               /\ stack[i].pass \in 1..2
    /\ seen \in [Keys -> SUBSET ({0} \cup Values)]
    /\ upset \subseteq {"next", "split"} /\ calls \in 0..MaxCalls /\ flushes \in 0..MaxFlushes

\* Splitting, collapsing, loading, dropping and flushing chains leaves what
\* the callers of hammer2_chain_lookup see unchanged; each call of create,
\* modify or delete changes one key.  (A split or collapse moves chains with
\* hammer2_chain_rename_obref while other calls and the flusher run.)
Abstract == INSTANCE KeyMap WITH Contents <- Values, Absent <- 0,
                                map <- LiveMap, done <- calls
ImplementsKeyMap == Abstract!KeyMapSpec

\* What a flush leaves on the media has, for every key, contents the key had
\* at some time since the flush began (hammer2_flush: "Flush the chain and
\* all modified sub-chains through the specified synchronization point").
FlushedAll == \A k \in Keys : SyncedMap[k] \in seen[k]

\* The same, of the flushes that saw no array split under them and lost no
\* place in their scan: nothing flushed was older, and no chain was missed
\* because ONFLUSH was cleared above it or a collapse moved it
\* (hammer2_flush_core, "We may have to do this twice to catch any indirect
\* block maintenance that occurs").
FlushKeepsAll == stack = <<>> /\ upset = {} => FlushedAll

\* hammer2_flush_core's two passes catch the splits that occur, too.
SplitsFlushed == stack = <<>> /\ "next" \notin upset => FlushedAll

\* Between flushes every chain with work to do can be found from the inode:
\* all chains above it have ONFLUSH (hammer2_chain_modify and
\* hammer2_chain_create set it on the parent, never only on the chain).
DirtyReachable ==
    stack = <<>> /\ "next" \notin upset =>
        \A id \in Ids \ {Top} :
            node[id].on /\ (node[id].mod \/ node[id].upd) =>
                \A a \in Above(node, node[id].par) : node[a].onflush

\* live_count, by which hammer2_chain_create decides that an array is full,
\* counts the elements of memory and media together; and no two of them
\* overlap (the assertions of combined_find and base_insert).
LiveCountExact ==
    \A p \in Ids : node[p].on /\ ~IsLeaf(p) =>
        /\ node[p].live = Cardinality(Elements(node, p))
        /\ \A e, f \in Elements(node, p) : In(e, f) => e = f

\* What the chains of an inode say of each other between two flushes.
ChainSound == ChainTypeOK /\ DirtyReachable /\ LiveCountExact

\* The child hammer2_flush_core will visit next is still a child of the chain
\* it scans ("We must ref the child before unlocking the spinlock").
NextIsChild ==
    \A i \in DOMAIN stack :
        stack[i].next = NoId \/ stack[i].next \in Kids(node, stack[i].id)
=============================================================================
