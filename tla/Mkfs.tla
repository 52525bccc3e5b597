-------------------------------- MODULE Mkfs --------------------------------
(***************************************************************************)
(* mkfs (mkfs.c): the file system image that the kernel starts with.  The  *)
(* image is the inodes, the next free block and inode, and whether an      *)
(* assertion failed.                                                       *)
(***************************************************************************)
EXTENDS Integers, Sequences, FiniteSets, FiniteSetsExt

CONSTANTS BSIZE,     \* bytes in a block
          DIRENT,    \* bytes in a directory entry
          DIRECT,    \* NDIRECT
          INDIRECT,  \* NINDIRECT
          NINODE,    \* NINODES
          IPB,       \* inodes in a block
          LOGBLOCKS, \* LOGSIZE
          DISKSIZE   \* FSSIZE

nbitmap == (DISKSIZE \div (BSIZE * 8)) + 1
ninodeblocks == (NINODE \div IPB) + 1
nmeta == 2 + LOGBLOCKS + ninodeblocks + nbitmap

logstart == 2
inodestart == 2 + LOGBLOCKS
bmapstart == 2 + LOGBLOCKS + ninodeblocks
IBLOCK(inum) == inodestart + (inum \div IPB)

MaxBlocks == DIRECT + INDIRECT
Dinode == [nlink |-> 1, size |-> 0, ind |-> 0,
           addrs |-> [b \in 0..(MaxBlocks - 1) |-> 0]]

Empty0 == [inode |-> <<>>, freeblock |-> nmeta, failed |-> FALSE]

\* ialloc(): inodes are numbered from 1.
ialloc(img) == [img EXCEPT !.inode = Append(@, Dinode)]

\* Variant: the indirect block's number is given to the data too.
Place_shared(img, inum, fbn) ==
    LET din  == img.inode[inum]
        free == img.freeblock
    IN  [img EXCEPT !.freeblock = free + 1, !.failed = @ \/ free >= DISKSIZE,
                    !.inode[inum].ind = IF fbn < DIRECT \/ din.ind # 0 THEN @ ELSE free,
                    !.inode[inum].addrs[fbn] = IF din.addrs[fbn] = 0 THEN free ELSE @]

\* The block of the image that block fbn of the file is in: allocated with the
\* indirect block before it, when they are needed.  A block past the end of
\* the image cannot be read (rsect()), which ends mkfs.
Place(img, inum, fbn) ==
    LET din  == img.inode[inum]
        free == img.freeblock
        ind  == IF fbn < DIRECT \/ din.ind # 0 THEN 0 ELSE 1
        new  == IF din.addrs[fbn] = 0 THEN 1 ELSE 0
    IN  [img EXCEPT !.freeblock = free + ind + new,
                    !.failed = @ \/ free + ind + new > DISKSIZE,
                    !.inode[inum].ind = IF ind = 1 THEN free ELSE @,
                    !.inode[inum].addrs[fbn] = IF new = 1 THEN free + ind ELSE @]

\* The bytes that go to the block that off is in.
Piece(off, n) == Min({n, (((off \div BSIZE) + 1) * BSIZE) - off})

\* iappend(): n bytes at the end of file inum, block by block.
RECURSIVE iappend(_, _, _)
iappend(img, inum, n) ==
    LET off == img.inode[inum].size
        fbn == off \div BSIZE
        n1  == Piece(off, n)
    IN  IF n = 0 \/ img.failed THEN img
        ELSE IF fbn >= MaxBlocks THEN [img EXCEPT !.failed = TRUE]
        ELSE iappend([Place(img, inum, fbn) EXCEPT !.inode[inum].size = off + n1],
                     inum, n - n1)

\* A file: its inode, its entry in the root directory, its contents read a
\* block at a time.
RECURSIVE CopyFile(_, _, _)
CopyFile(img, inum, size) ==
    LET cc == Min({size, BSIZE})
    IN  IF size = 0 THEN img ELSE CopyFile(iappend(img, inum, cc), inum, size - cc)

AddFile(img, size) ==
    LET inum == Len(img.inode) + 1
    IN  CopyFile(iappend(ialloc(img), 1, DIRENT), inum, size)

RECURSIVE AddFiles(_, _)
AddFiles(img, sizes) ==
    IF sizes = <<>> THEN img ELSE AddFiles(AddFile(img, Head(sizes)), Tail(sizes))

\* balloc(): the blocks that are marked in the bitmap.
balloc(used) == 0..(used - 1)

\* main(): the root directory with . and .., the files, the root's size
\* rounded up to whole blocks, the bitmap.
mkfs(sizes) ==
    LET root == iappend(iappend(ialloc(Empty0), 1, DIRENT), 1, DIRENT)
        img  == AddFiles(root, sizes)
        off  == img.inode[1].size
    IN  [img |-> img, used |-> off, bitmap |-> balloc(img.freeblock),
         failed |-> img.failed \/ img.freeblock >= BSIZE * 8,
         rootsize |-> ((off \div BSIZE) + 1) * BSIZE]

-----------------------------------------------------------------------------
BlocksOf(din) == {din.addrs[b] : b \in 0..(MaxBlocks - 1)} \cup {din.ind}

Filled(n) == 0..(((n + BSIZE - 1) \div BSIZE) - 1)

\* What the kernel relies on when it mounts the image.
Consistent(r, sizes) ==
    LET inode == r.img.inode
        I == DOMAIN inode
        blocks(i) == BlocksOf(inode[i]) \ {0}
        metadata == 0..(nmeta - 1)
    IN  \* blocks in the bitmap: the metadata and each inode's own blocks
        /\ r.bitmap = metadata \cup UNION {blocks(i) : i \in I}
        /\ \A i \in I : blocks(i) \cap metadata = {}
        /\ \A i, j \in I : i # j => blocks(i) \cap blocks(j) = {}
        \* a block for every part of a file, and no other
        /\ \A i \in I : {b \in 0..(MaxBlocks - 1) : inode[i].addrs[b] # 0}
                           = Filled(inode[i].size)
        /\ \A i \in I : Cardinality(blocks(i)) =
              Cardinality(Filled(inode[i].size)) + (IF inode[i].ind # 0 THEN 1 ELSE 0)
        \* the files are as long as they were, and all are in the root
        /\ \A k \in DOMAIN sizes : inode[k + 1].size = sizes[k]
        /\ inode[1].size = (Len(sizes) + 2) * DIRENT
        /\ r.rootsize >= inode[1].size /\ r.rootsize % BSIZE = 0
        \* an inode is in the blocks of inodes, which end where the bitmap starts
        /\ \A i \in I : IBLOCK(i) < bmapstart
        /\ logstart + LOGBLOCKS = inodestart /\ bmapstart + nbitmap = nmeta

=============================================================================
