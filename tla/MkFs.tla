-------------------------------- MODULE MkFs --------------------------------
(***************************************************************************)
(* mkfs (mkfs/mkfs.c), which builds the file system that the kernel        *)
(* mounts: the root directory, one file for each argument, and the free    *)
(* bit map.  Blocks are handed out in order and never given back.  A       *)
(* directory entry is one unit of data: the inode number.                  *)
(***************************************************************************)
EXTENDS Naturals, Sequences, FiniteSets, FiniteSetsExt, SequencesExt

CONSTANTS
    FSBLOCKS,   \* blocks of the image (FSSIZE)
    NMETA,      \* boot, super, log, inode and bitmap blocks
    UNIT,       \* units of data in a block (BSIZE)
    DIRECT,     \* direct blocks of an inode (NDIRECT)
    FileLists   \* arguments: sequences of file lengths

MAXBLOCKS == DIRECT + UNIT
MkRootIno == 1
Blank == [j \in 1 .. UNIT |-> 0]

VARIABLES
    args,       \* files still to be copied
    given,      \* all files, for the properties
    image       \* the disk and mkfs's counters

mkVars == <<args, given, image>>

EmptyInode == [type |-> "none", nlink |-> 0, size |-> 0, addrs |-> [b \in 0 .. DIRECT |-> 0]]

MkStart(files) ==
    /\ given = files /\ args = files
    /\ image = [pc |-> "root", ino |-> <<>>, blk |-> [b \in 0 .. FSBLOCKS - 1 |-> Blank],
                freeblock |-> NMETA, bitmap |-> {}]

MkInit == \E files \in FileLists : MkStart(files)
---------------------------------------------------------------------------
ialloc(img, type) ==
    [img EXCEPT !.ino = Append(@, [EmptyInode EXCEPT !.type = type, !.nlink = 1])]

\* The block that holds block fbn of inode i, after allocating it if need be.
MkDirect(img, i, fbn) ==
    IF img.ino[i].addrs[fbn] # 0 THEN img
    ELSE [img EXCEPT !.ino[i].addrs[fbn] = img.freeblock, !.freeblock = @ + 1]

MkIndirect_Reallocates(img, i, k) ==
    LET t == MkDirect(img, i, DIRECT)
        table == t.ino[i].addrs[DIRECT]
    IN  [t EXCEPT !.blk[table][k + 1] = t.freeblock, !.freeblock = @ + 1]

MkIndirect(img, i, k) ==
    LET t == MkDirect(img, i, DIRECT)
        table == t.ino[i].addrs[DIRECT]
    IN  IF t.blk[table][k + 1] # 0 THEN t
        ELSE [t EXCEPT !.blk[table][k + 1] = t.freeblock, !.freeblock = @ + 1]

WithBlock(img, i, fbn) == IF fbn < DIRECT THEN MkDirect(img, i, fbn) ELSE MkIndirect(img, i, fbn - DIRECT)

BlockOf(img, i, fbn) ==
    IF fbn < DIRECT THEN img.ino[i].addrs[fbn]
    ELSE IF img.ino[i].addrs[DIRECT] = 0 THEN 0
    ELSE img.blk[img.ino[i].addrs[DIRECT]][fbn - DIRECT + 1]

RECURSIVE iappend(_, _, _)
iappend(img, i, data) ==
    LET off == img.ino[i].size
        fbn == off \div UNIT
        n1 == Min({Len(data), (fbn + 1) * UNIT - off})
        w == WithBlock(img, i, fbn)
    IN  IF data = <<>> THEN img
        ELSE IF fbn >= MAXBLOCKS THEN [img EXCEPT !.pc = "died"]
        ELSE iappend([w EXCEPT !.ino[i].size = off + n1,
                               !.blk[BlockOf(w, i, fbn)] =
                                   [j \in 1 .. UNIT |->
                                       IF j - 1 - (off - fbn * UNIT) \in 0 .. n1 - 1
                                       THEN data[j - (off - fbn * UNIT)] ELSE @[j]]],
                     i, SubSeq(data, n1 + 1, Len(data)))

\* The root directory, with its entries "." and "..".
MakeRoot ==
    /\ image.pc = "root"
    /\ image' = iappend(iappend([ialloc(image, "dir") EXCEPT !.pc = "files"], MkRootIno, <<MkRootIno>>),
                        MkRootIno, <<MkRootIno>>)
    /\ UNCHANGED <<args, given>>

\* What file number i holds; no unit of it is 0.
Contents(i, len) == [k \in 1 .. len |-> 10 * i + k]

\* read() from the file on the host gives up to a block at a time.
CopyFile(img, i, len) ==
    FoldLeft(LAMBDA g, k : iappend(g, i, SubSeq(Contents(i, len), k * UNIT + 1,
                                                Min({len, (k + 1) * UNIT}))),
             img, [k \in 1 .. (len + UNIT - 1) \div UNIT |-> k - 1])

AddFile ==
    LET i == Len(image.ino) + 1 IN
    /\ image.pc = "files" /\ args # <<>>
    /\ image' = CopyFile(iappend(ialloc(image, "file"), MkRootIno, <<i>>), i, Head(args))
    /\ args' = Tail(args)
    /\ UNCHANGED given

\* balloc(): the bit map marks the first freeblock blocks.
MkBitmap(img) == [img EXCEPT !.bitmap = 0 .. img.freeblock - 1]

\* The root's size is rounded up to a block that it does not fill.
FinishImage ==
    /\ image.pc = "files" /\ args = <<>>
    /\ image' = MkBitmap([image EXCEPT !.pc = "done",
                                       !.ino[MkRootIno].size = (@ \div UNIT + 1) * UNIT])
    /\ UNCHANGED <<args, given>>

MkNext == MakeRoot \/ AddFile \/ FinishImage
MkSpec == MkInit /\ [][MkNext]_mkVars
---------------------------------------------------------------------------
InodeBlocks(i) == ({BlockOf(image, i, b) : b \in 0 .. MAXBLOCKS - 1}
                   \union {image.ino[i].addrs[DIRECT]}) \ {0}

\* The kernel reads a block that is not there as zeroes, which bmap() allocates.
UnitAt(i, k) ==
    LET b == BlockOf(image, i, k \div UNIT) IN IF b = 0 THEN 0 ELSE image.blk[b][(k % UNIT) + 1]

\* The image that the kernel mounts is consistent: no block belongs to two inodes or
\* to the metadata, the bit map marks exactly the blocks in use, every file holds its
\* bytes across direct and indirect blocks, and the root directory holds ".", ".." and
\* one entry for each file, with free entries up to its rounded size.
ImageConsistent ==
    image.pc = "done" =>
        LET inodes == DOMAIN image.ino IN
        /\ \A i, j \in inodes : i # j => InodeBlocks(i) \intersect InodeBlocks(j) = {}
        /\ UNION {InodeBlocks(i) : i \in inodes} = image.bitmap \ (0 .. NMETA - 1)
        /\ 0 .. NMETA - 1 \subseteq image.bitmap
        /\ \A n \in DOMAIN given :
              /\ image.ino[n + 1].size = given[n]
              /\ \A k \in 1 .. given[n] : UnitAt(n + 1, k - 1) = Contents(n + 1, given[n])[k]
        /\ image.ino[MkRootIno].size >= Len(given) + 2
        /\ \A k \in 0 .. image.ino[MkRootIno].size - 1 :
              UnitAt(MkRootIno, k) = IF k < 2 THEN MkRootIno ELSE IF k < Len(given) + 2 THEN k ELSE 0
===========================================================================
