----------------------------- MODULE FileData ------------------------------
(***************************************************************************)
(* The contents of files: the block bitmap, the direct and indirect block  *)
(* numbers of an inode, readi(), writei(), itrunc() (kernel/fs.c), and the *)
(* loops of fileread() and filewrite() (kernel/file.c) with the offset of  *)
(* an open file that several processes share.                              *)
(*                                                                         *)
(* A step is what happens under the inode's lock.  A block holds BSIZE     *)
(* numbers: bytes, or the block numbers of an indirect block.              *)
(***************************************************************************)
EXTENDS Naturals, Sequences, FiniteSets, FiniteSetsExt, SequencesExt

CONSTANTS
    Inos,       \* files
    OpenFiles,  \* entries of the file table
    InodeOf,    \* the file of each of them
    Users,      \* processes
    Holds,      \* the open files that each of them has a descriptor for
    NBLOCKS,    \* data blocks of the disk: 1 .. NBLOCKS
    BSIZE, NDIRECT,
    NINDIRECT,  \* block numbers that an indirect block holds, at most BSIZE here
    ByteOf,     \* the byte that each process writes, other than 0
    Counts,     \* counts of read() and write() calls
    MaxPerOp    \* bytes that filewrite() writes in one transaction

MAXFILE == NDIRECT + NINDIRECT
DataBlocks == 1 .. NBLOCKS
Zeros == [k \in 0 .. BSIZE - 1 |-> 0]

VARIABLES
    bitmap,     \* blocks marked in use
    block,      \* contents of the blocks
    ino,        \* addrs and size of each inode
    off,        \* offset of each open file
    job         \* what each process is doing: left bytes of value v into file f

dataVars == <<bitmap, block, ino, off, job>>

Idle == [f |-> "none", left |-> 0, v |-> 0]

DataInit ==
    /\ bitmap = {}
    /\ block = [b \in DataBlocks |-> Zeros]
    /\ ino = [i \in Inos |-> [addrs |-> [k \in 0 .. NDIRECT |-> 0], size |-> 0]]
    /\ off = [f \in OpenFiles |-> 0]
    /\ job = [u \in Users |-> Idle]
---------------------------------------------------------------------------
(* d is the disk and one inode: bitmap, block contents, addrs; addr is the *)
(* block that the last operation found, 0 if the disk is full.             *)

\* balloc(): the first free block, zeroed.
balloc(d) ==
    LET free == DataBlocks \ d.bitmap IN
    IF free = {} THEN [d EXCEPT !.addr = 0]
    ELSE [d EXCEPT !.addr = Min(free), !.bitmap = @ \cup {Min(free)}, !.block[Min(free)] = Zeros]

\* The block number at addrs[k], allocating the block if there is none.
Direct(d, k) ==
    IF d.addrs[k] # 0 THEN [d EXCEPT !.addr = d.addrs[k]]
    ELSE LET n == balloc(d) IN [n EXCEPT !.addrs[k] = n.addr]

bmap(d, bn) ==
    IF bn < NDIRECT THEN Direct(d, bn)
    ELSE LET t == Direct(d, NDIRECT)
             table == t.addr
             entry == t.block[table][bn - NDIRECT]
         IN  IF table = 0 THEN t
             ELSE IF entry # 0 THEN [t EXCEPT !.addr = entry]
             ELSE LET n == balloc(t) IN [n EXCEPT !.block[table][bn - NDIRECT] = n.addr]

\* itrunc() frees the direct blocks, those of the indirect block, and itself.
Indirect(a, data) ==
    IF a[NDIRECT] = 0 THEN {} ELSE {data[a[NDIRECT]][k] : k \in 0 .. NINDIRECT - 1}

BlocksOf_NotTable(a, data) == ({a[k] : k \in 0 .. NDIRECT - 1} \cup Indirect(a, data)) \ {0}

BlocksOf(a, data) == ({a[k] : k \in 0 .. NDIRECT} \cup Indirect(a, data)) \ {0}

\* writei(): one round per block that the n bytes v at position o touch.  It
\* stops when the disk is full, or in block bad, after extra bytes of it,
\* because the user's memory cannot be read.
writei(i, o, n, v, bad, extra) ==
    LET round(w, bn) ==
          LET d == bmap(w.d, bn)
              lo == Max({o, bn * BSIZE})
              hi == Min({o + n, (bn + 1) * BSIZE})
              stop == IF bn = bad THEN Min({lo + extra, hi}) ELSE hi
          IN  IF w.done THEN w
              ELSE IF d.addr = 0 THEN [w EXCEPT !.d = d, !.done = TRUE]
              ELSE [d |-> [d EXCEPT !.block[d.addr] =
                             [k \in 0 .. BSIZE - 1 |->
                                IF bn * BSIZE + k \in lo .. stop - 1 THEN v ELSE @[k]]],
                    tot |-> IF bn = bad THEN w.tot ELSE w.tot + (hi - lo),
                    done |-> bn = bad]
        first == o \div BSIZE
        last == (o + n - 1) \div BSIZE
        disk == [bitmap |-> bitmap, block |-> block, addrs |-> ino[i].addrs, addr |-> 0]
    IN  FoldLeft(round, [d |-> disk, tot |-> 0, done |-> FALSE],
                 [k \in 1 .. last - first + 1 |-> first + k - 1])

\* The size after writei() has written tot bytes at o.
SizeAfter_Shrinks(size, o, tot) == o + tot

SizeAfter(size, o, tot) == Max({size, o + tot})
---------------------------------------------------------------------------
\* write() of n bytes: filewrite() takes them MaxPerOp at a time.
WriteBegin(u, f, n, v) ==
    /\ job[u] = Idle
    /\ job' = [job EXCEPT ![u] = [f |-> f, left |-> n, v |-> v]]
    /\ UNCHANGED <<bitmap, block, ino, off>>

\* The range that writei() refuses: beyond the end, or beyond the largest file.
Refused(f, n) ==
    off[f] > ino[InodeOf[f]].size \/ off[f] + n > MAXFILE * BSIZE

WriteRefused(u) ==
    /\ job[u].left > 0
    /\ Refused(job[u].f, Min({job[u].left, MaxPerOp}))
    /\ job' = [job EXCEPT ![u] = Idle]
    /\ UNCHANGED <<bitmap, block, ino, off>>

BlocksTouched(u) ==
    LET o == off[job[u].f] IN
    IF job[u].left = 0 THEN {} ELSE o \div BSIZE .. (o + job[u].left - 1) \div BSIZE

\* One round of filewrite(); bad = MAXFILE when the user's memory is fine.
WriteSome(u, bad, extra) ==
    LET f == job[u].f
        i == InodeOf[f]
        n == Min({job[u].left, MaxPerOp})
        w == writei(i, off[f], n, job[u].v, bad, extra)
    IN  /\ job[u].left > 0 /\ ~Refused(f, n)
        /\ bitmap' = w.d.bitmap
        /\ block' = w.d.block
        /\ ino' = [ino EXCEPT ![i] = [addrs |-> w.d.addrs,
                                      size |-> SizeAfter(@.size, off[f], w.tot)]]
        /\ off' = [off EXCEPT ![f] = @ + w.tot]
        /\ job' = [job EXCEPT ![u] =
                     IF w.tot = n /\ @.left > n THEN [@ EXCEPT !.left = @ - n] ELSE Idle]

\* fileread(): readi() stops at the end of the file.
Read(u, f, n) ==
    LET size == ino[InodeOf[f]].size IN
    /\ job[u] = Idle
    /\ off[f] <= size
    /\ off' = [off EXCEPT ![f] = Min({@ + n, size})]
    /\ UNCHANGED <<bitmap, block, ino, job>>

\* open() with O_TRUNC of the file, by a process that opens it anew.
Truncate(u, f) ==
    LET i == InodeOf[f] IN
    /\ job[u] = Idle
    /\ bitmap' = bitmap \ BlocksOf(ino[i].addrs, block)
    /\ ino' = [ino EXCEPT ![i] = [addrs |-> [k \in 0 .. NDIRECT |-> 0], size |-> 0]]
    /\ UNCHANGED <<block, off, job>>

\* close() and open() without O_TRUNC, when nobody else uses the open file.
Reopen(u, f) ==
    /\ \A w \in Users : job[w].f # f
    /\ job[u] = Idle
    /\ off' = [off EXCEPT ![f] = 0]
    /\ UNCHANGED <<bitmap, block, ino, job>>

DataNext ==
    \E u \in Users :
        \/ \E f \in Holds[u], n \in Counts : WriteBegin(u, f, n, ByteOf[u])
        \/ WriteRefused(u)
        \/ WriteSome(u, MAXFILE, 0)
        \/ \E bad \in BlocksTouched(u), extra \in 0 .. BSIZE - 1 : WriteSome(u, bad, extra)
        \/ \E f \in Holds[u], n \in Counts : Read(u, f, n)
        \/ \E f \in Holds[u] : Truncate(u, f) \/ Reopen(u, f)

DataSpec == DataInit /\ [][DataNext]_dataVars
---------------------------------------------------------------------------
\* The bitmap marks exactly the blocks that the inodes use, and no block is
\* used twice, whether by two files, two positions or as indirect block: the
\* panic of bfree() ("freeing free block") and lost blocks are excluded.
BitmapMatches ==
    LET uses(i) == {<<k>> : k \in {k \in 0 .. NDIRECT : ino[i].addrs[k] # 0}}
                   \cup {<<"table", k>> : k \in {k \in 0 .. NINDIRECT - 1 :
                              ino[i].addrs[NDIRECT] # 0 /\ block[ino[i].addrs[NDIRECT]][k] # 0}}
    IN  /\ bitmap = UNION {BlocksOf(ino[i].addrs, block) : i \in Inos}
        /\ Cardinality(bitmap) = MapThenSumSet(LAMBDA i : Cardinality(uses(i)), Inos)

\* The byte at position k of file i, as readi() finds it.
ByteAt(i, k) ==
    LET bn == k \div BSIZE
        a == ino[i].addrs
        b == IF bn < NDIRECT THEN a[bn] ELSE block[a[NDIRECT]][bn - NDIRECT]
    IN  block[b][k % BSIZE]

\* Through all the block numbers, short writes and shared offsets, files behave
\* as sequences of bytes without holes: readi() finds what writei() counted, and
\* no byte of another file, of a freed block or of an indirect block.
Bytes == INSTANCE ByteFiles WITH
            FileSet <- Inos, OpenSet <- OpenFiles, FileOfOpen <- InodeOf,
            ByteValues <- Range(ByteOf), MaxLength <- MAXFILE * BSIZE, MaxPiece <- Max(Counts), MaxExtra <- BSIZE - 1,
            content <- [i \in Inos |-> [k \in 1 .. ino[i].size |-> ByteAt(i, k - 1)]],
            offset <- off
ImplementsByteFiles == Bytes!BSpec
===========================================================================
