------------------------------ MODULE FileData ------------------------------
(***************************************************************************)
(* The contents of regular files: reads and writes through the logical     *)
(* buffer cache (hammer2_vnops.c), changes of size, the strategy code that *)
(* writes a buffer to the inode itself, to a block of its own or to one    *)
(* that live dedup found (hammer2_strategy.c), and overwriting in place    *)
(* (hammer2_chain_modify).  Data is a row of units: a block of the         *)
(* buffer cache has BlockSize of them, an inode embeds Embedded of them.   *)
(***************************************************************************)
EXTENDS Integers, FiniteSets

CONSTANTS Files,
          SizeMax,       \* the size each file may reach, a bound of the model
          CheckNone,     \* the files created with CHECK_NONE
          BlockSize,     \* HAMMER2_PBUFSIZE, in units
          Embedded,      \* HAMMER2_EMBEDDED_BYTES, in units
          Offs,          \* device blocks the files' data may take
          Values,        \* what a unit may hold besides zero
          Writes,        \* the writes <<first, end, value>> and
          Sizes          \* the changes of size that are made

ASSUME FileAssumption ==
    /\ SizeMax \in [Files -> Nat] /\ CheckNone \subseteq Files
    /\ BlockSize \in Nat /\ Embedded \in Nat /\ 0 < Embedded /\ Embedded < BlockSize
    /\ Offs \subseteq Nat \ {0} /\ IsFiniteSet(Offs) /\ Values \subseteq Nat \ {0}
    /\ \A f \in Files :
         /\ Writes[f] \subseteq (0 .. SizeMax[f]) \X (0 .. SizeMax[f]) \X (Values \cup {0})
         /\ Sizes[f] \subseteq 0 .. SizeMax[f]

VARIABLES
    ip,      \* size, DIRECTDATA and the data embedded in the inode
    chain,   \* the DATA chains of each file
    buf,     \* the buffer cache
    media,   \* what each device block holds
    dedup,   \* the blocks hammer2_dedup_record has entered
    want     \* what the last write of each unit was

fileVars == <<ip, chain, buf, media, dedup, want>>

Blocks(f) == 0 .. (SizeMax[f] + BlockSize - 1) \div BlockSize - 1
Units(f) == 0 .. SizeMax[f] - 1
BlockOf(u) == u \div BlockSize
Data == [0 .. BlockSize - 1 -> Values \cup {0}]
Zeros == [i \in 0 .. BlockSize - 1 |-> 0]


\* What goes to the media: compressed when that makes the block smaller,
\* which data of one value stands for here.
Methods == {"none", "lz4"}
compress(d) ==
    [method |-> IF \A i \in DOMAIN d : d[i] = d[0] THEN "lz4" ELSE "none", data |-> d]
Garbage == [i \in 0 .. BlockSize - 1 |-> -1]
decompress(p, method) == IF p.method = method THEN p.data ELSE Garbage

\* modified: MODIFIED; dedupable: DEDUPABLE, both of the chain in memory.
NoBlock == [off |-> 0, method |-> "none", modified |-> FALSE, dedupable |-> FALSE]
NoBuf == [data |-> Zeros, st |-> "none"]
Cut == -1    \* given up by a truncation since

FileTypeOK ==
    /\ ip \in [Files -> [size : Nat, direct : BOOLEAN, data : Data]]
    /\ \A f \in Files :
         /\ ip[f].size <= SizeMax[f]
         /\ chain[f] \in [Blocks(f) -> [off : Offs \cup {0}, method : Methods,
                                        modified : BOOLEAN, dedupable : BOOLEAN]]
         /\ buf[f] \in [Blocks(f) -> [data : Data, st : {"none", "clean", "dirty"}]]
         /\ want[f] \in [Units(f) -> Values \cup {0, Cut}]
    /\ media \in [Offs -> [method : Methods, data : Data]]
    /\ dedup \subseteq Offs

FileInit ==
    /\ ip = [f \in Files |-> [size |-> 0, direct |-> TRUE, data |-> Zeros]]
    /\ chain = [f \in Files |-> [b \in Blocks(f) |-> NoBlock]]
    /\ buf = [f \in Files |-> [b \in Blocks(f) |-> NoBuf]]
    /\ media = [o \in Offs |-> [method |-> "none", data |-> Zeros]]
    /\ dedup = {}
    /\ want = [f \in Files |-> [u \in Units(f) |-> 0]]

-----------------------------------------------------------------------------
(* Reading.                                                                  *)

\* hammer2_xop_strategy_read: the inode's own data, the chain's, or a hole.
strategy_read(f, b, inode) ==
    IF inode.direct THEN inode.data
    ELSE IF chain[f][b].off = 0 THEN Zeros
    ELSE decompress(media[chain[f][b].off], chain[f][b].method)

\* bread: from the buffer when there is one.
bread(f, b) == IF buf[f][b].st = "none" THEN strategy_read(f, b, ip[f]) ELSE buf[f][b].data

\* hammer2_read_file of one block leaves it cached; a clean buffer may go.
read_file(f, b) ==
    /\ b * BlockSize < ip[f].size /\ buf[f][b].st = "none"
    /\ buf' = [buf EXCEPT ![f][b] = [data |-> bread(f, b), st |-> "clean"]]
    /\ UNCHANGED <<ip, chain, media, dedup, want>>
Reuse(f, b) ==
    /\ buf[f][b].st = "clean"
    /\ buf' = [buf EXCEPT ![f][b] = NoBuf]
    /\ UNCHANGED <<ip, chain, media, dedup, want>>

-----------------------------------------------------------------------------
(* Changes of size.                                                          *)

\* hammer2_inode_chain_sync after a change of size: the chains beyond the new
\* EOF go, except in a file that was extended; an inode that outgrows its
\* embedded data gives the space to the block table.
ChainsSynced(f, nsize) ==
    [b \in Blocks(f) |->
       IF nsize < ip[f].size /\ ~ip[f].direct /\ b * BlockSize >= nsize
       THEN NoBlock ELSE chain[f][b]]
InodeSynced(f, nsize) ==
    IF ip[f].direct /\ nsize > Embedded
    THEN [size |-> nsize, direct |-> FALSE, data |-> Zeros]
    ELSE [ip[f] EXCEPT !.size = nsize]

BugExtended(f, nsize) == buf[f]
\* hammer2_extend_file: the data an inode embedded is read into a buffer and
\* dirtied before the inode's block table takes its place.
Extended(f, nsize) ==
    IF ip[f].size \in 1..Embedded /\ nsize > Embedded
    THEN [buf[f] EXCEPT ![0] = [data |-> bread(f, 0), st |-> "dirty"]]
    ELSE buf[f]

\* hammer2_setattr of a larger size.
extend_file(f, nsize) ==
    /\ ip[f].size < nsize
    /\ buf' = [buf EXCEPT ![f] = Extended(f, nsize)]
    /\ ip' = [ip EXCEPT ![f] = InodeSynced(f, nsize)]
    /\ UNCHANGED <<chain, media, dedup, want>>

\* hammer2_setattr of a smaller size: hammer2_truncate_file leaves the buffers
\* to the VM system, and the chains to hammer2_inode_chain_sync.
truncate_file(f, nsize) ==
    /\ nsize < ip[f].size
    /\ chain' = [chain EXCEPT ![f] = ChainsSynced(f, nsize)]
    /\ ip' = [ip EXCEPT ![f].size = nsize]
    /\ want' = [want EXCEPT ![f] = [u \in Units(f) |->
                    IF u >= nsize /\ u < ip[f].size THEN Cut ELSE @[u]]]
    /\ UNCHANGED <<buf, media, dedup>>

-----------------------------------------------------------------------------
(* Writing.                                                                  *)

\* One buffer of hammer2_write_file: a block covered whole, or the first one
\* up to the new EOF, is not read but cleared.
Written(f, b, o, e, v, old, eof) ==
    LET first == b * BlockSize  last == first + BlockSize
        covers == o <= first /\ last <= e
        trivial == covers \/ (first = 0 /\ o = 0 /\ e = eof)
        base == IF trivial THEN Zeros
                ELSE IF old.st = "none" THEN strategy_read(f, b, InodeSynced(f, eof))
                ELSE old.data
    IN [data |-> [i \in 0 .. BlockSize - 1 |->
                    IF first + i >= o /\ first + i < e THEN v ELSE base[i]],
        st |-> "dirty"]

\* hammer2_write_file of the units o..e-1, under the lock of the vnode; the
\* file is extended first.
write_file(f, o, e, v) ==
    LET eof == IF e > ip[f].size THEN e ELSE ip[f].size
        old == IF e > ip[f].size THEN Extended(f, e) ELSE buf[f]
    IN
    /\ o < e
    /\ buf' = [buf EXCEPT ![f] = [b \in Blocks(f) |->
                  IF BlockOf(o) <= b /\ b <= BlockOf(e - 1)
                  THEN Written(f, b, o, e, v, old[b], eof) ELSE old[b]]]
    /\ ip' = [ip EXCEPT ![f] = InodeSynced(f, eof)]
    /\ want' = [want EXCEPT ![f] = [u \in Units(f) |->
                    IF u >= o /\ u < e THEN v ELSE @[u]]]
    /\ UNCHANGED <<chain, media, dedup>>

-----------------------------------------------------------------------------
(* Writing back: hammer2_xop_strategy_write.                                 *)

InUse == UNION {{chain[f][b].off : b \in Blocks(f)} : f \in Files}

\* hammer2_dedup_lookup: a recorded block with just this data, 0 for none.
dedup_lookup(d) ==
    LET hits == {o \in dedup : media[o] = compress(d)} IN
    IF hits = {} THEN 0 ELSE CHOOSE o \in hits : \A p \in hits : o <= p

\* The freemap's next block: one nobody has, no longer good for dedup.
NewBlock(u) ==
    LET free == Offs \ u IN CHOOSE o \in free : \A p \in free : o <= p

\* hammer2_chain_modify: whether the chain's block may be written as it is.
InPlace(f, c) ==
    IF c.modified THEN ~c.dedupable
    ELSE f \in CheckNone /\ c.off # 0 /\ ~c.dedupable

\* hammer2_assign_physical: a chain to write to, or, when dedup has found the
\* data on the media, one that needs no write.  A chain that is written in
\* place keeps its block whatever dedup says.
assign_physical(f, c, d) ==
    LET hit == dedup_lookup(d) IN
    IF c.off # 0 /\ InPlace(f, c)
    THEN [chain |-> [c EXCEPT !.modified = TRUE], write |-> hit = 0]
    ELSE IF hit # 0
    THEN [chain |-> [c EXCEPT !.off = hit, !.modified = FALSE, !.dedupable = TRUE],
          write |-> FALSE]
    ELSE [chain |-> [c EXCEPT !.off = NewBlock(InUse), !.modified = TRUE,
                              !.dedupable = FALSE],
          write |-> TRUE]

Wrote(b) == [b EXCEPT !.st = "clean"]

\* Data goes into an inode that embeds it.
strategy_write_inode(f, b) ==
    /\ buf[f][b].st = "dirty" /\ ip[f].direct
    /\ ip' = [ip EXCEPT ![f].data =
                 [i \in 0 .. BlockSize - 1 |-> IF i < Embedded THEN buf[f][b].data[i] ELSE 0]]
    /\ buf' = [buf EXCEPT ![f][b] = Wrote(@)]
    /\ UNCHANGED <<chain, media, dedup, want>>

\* zero_write: a block of zeros becomes a hole, unless check codes are off.
zero_write(f, b) ==
    /\ buf[f][b].st = "dirty" /\ ~ip[f].direct
    /\ buf[f][b].data = Zeros /\ f \notin CheckNone
    /\ chain' = [chain EXCEPT ![f][b] = NoBlock]
    /\ buf' = [buf EXCEPT ![f][b] = Wrote(@)]
    /\ UNCHANGED <<ip, media, dedup, want>>

BugRecorded(f, c) == [c EXCEPT !.dedupable = FALSE]
\* hammer2_dedup_record: data with a check code may be shared from now on, so
\* the chain may not be written in place any more.
Recorded(f, c) == [c EXCEPT !.dedupable = f \notin CheckNone]

\* hammer2_compress_and_write (hammer2_write_bp without the compression): the
\* methods of the chain are set whether the data is written or was found.
compress_and_write(f, b) ==
    LET d == buf[f][b].data
        p == compress(d)
        a == assign_physical(f, chain[f][b], d)
        c == [a.chain EXCEPT !.method = p.method]
    IN
    /\ buf[f][b].st = "dirty" /\ ~ip[f].direct
    /\ d # Zeros \/ f \in CheckNone
    /\ Cardinality(InUse \ {0}) < Cardinality(Offs)
    /\ buf' = [buf EXCEPT ![f][b] = Wrote(@)]
    /\ IF a.write
       THEN /\ media' = [media EXCEPT ![c.off] = p]
            /\ dedup' = IF f \in CheckNone THEN dedup \ {c.off}
                        ELSE dedup \cup {c.off}
            /\ chain' = [chain EXCEPT ![f][b] = Recorded(f, c)]
       ELSE /\ chain' = [chain EXCEPT ![f][b] = c]
            /\ UNCHANGED <<media, dedup>>
    /\ UNCHANGED <<ip, want>>

\* A flush cleans the chains of a file; a clean chain may be dropped from
\* memory and come back without its flags.
file_flush(f) ==
    /\ \E b \in Blocks(f) : chain[f][b].modified
    /\ chain' = [chain EXCEPT ![f] = [b \in Blocks(f) |-> [@[b] EXCEPT !.modified = FALSE]]]
    /\ UNCHANGED <<ip, buf, media, dedup, want>>
chain_drop(f, b) ==
    /\ ~chain[f][b].modified /\ chain[f][b].dedupable
    /\ chain' = [chain EXCEPT ![f][b].dedupable = FALSE]
    /\ UNCHANGED <<ip, buf, media, dedup, want>>

FileNext ==
    \E f \in Files :
      \/ \E w \in Writes[f] : write_file(f, w[1], w[2], w[3])
      \/ \E n \in Sizes[f] : extend_file(f, n) \/ truncate_file(f, n)
      \/ file_flush(f)
      \/ \E b \in Blocks(f) :
           \/ read_file(f, b) \/ Reuse(f, b) \/ chain_drop(f, b)
           \/ strategy_write_inode(f, b) \/ zero_write(f, b) \/ compress_and_write(f, b)

FileSpec == FileInit /\ [][FileNext]_fileVars

-----------------------------------------------------------------------------
\* Whatever the order of writes, write-backs, dedup hits and changes of size,
\* a unit reads as it was last written, and one that was never written reads
\* zero (hammer2_read_file over hammer2_strategy.c).
ReadsLastWritten ==
    \A f \in Files : \A u \in Units(f) :
        u < ip[f].size /\ want[f][u] # Cut
            => bread(f, BlockOf(u))[u % BlockSize] = want[f][u]

\* The same, with the types of the state it is read from (the buffers and
\* chains of hammer2_read_file and hammer2_write_file).
FileSound == FileTypeOK /\ ReadsLastWritten

\* What a truncation cut off is gone: a later extension shows zeros
\* (hammer2_truncate_file; "nvtruncbuf() is responsible for dirtying that
\* buffer and zeroing out trailing bytes").
CutReadsZero ==
    \A f \in Files : \A u \in Units(f) :
        u < ip[f].size /\ want[f][u] = Cut
            => bread(f, BlockOf(u))[u % BlockSize] = 0

=============================================================================
