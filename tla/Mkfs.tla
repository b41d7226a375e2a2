-------------------------------- MODULE Mkfs --------------------------------
(***************************************************************************)
(* mkfs/mkfs.c: the file system image the kernel starts from.  Sizes are in *)
(* units of a struct dirent; a unit of a file's contents is the pair of the *)
(* file's inode number and the offset it belongs at.                        *)
(***************************************************************************)
EXTENDS Integers, Sequences, FiniteSets

CONSTANTS BSIZE, NDIRECT, NINDIRECT, FSSIZE, BPB,
          nmeta,        \* boot, super, log, inode and bitmap blocks
          Sizes,        \* bound: sizes of the files that are given
          MaxFiles      \* bound: number of files, fewer than NINODES

MkfsAssumption ==
  /\ BSIZE \in Nat \ {0} /\ NDIRECT \in Nat /\ NINDIRECT \in Nat
  /\ nmeta < FSSIZE /\ FSSIZE < BPB /\ Sizes \subseteq Nat /\ MaxFiles \in Nat

ROOTINO == 1
MAXFILE == NDIRECT + NINDIRECT

VARIABLES
  img,      \* dinodes, contents of blocks, freeinode, freeblock, bitmap
  file      \* the file being copied: inode number, size, units copied

vars == <<img, file>>

NoFile == [inum |-> 0, size |-> 0, copied |-> 0]
ZeroBlock == [i \in 0..(BSIZE - 1) |-> <<0, 0>>]
ZeroTable == [i \in 0..(NINDIRECT - 1) |-> 0]

\* ialloc()
Ialloc(m, type) ==
  [m EXCEPT !.freeinode = @ + 1,
            !.inode[m.freeinode] = [type |-> type, nlink |-> 1, size |-> 0,
              addrs |-> [i \in 0..NDIRECT |-> 0], table |-> ZeroTable]]

\* The indirect block is allocated when it is first needed.
Indirect(m, inum) ==
  IF m.inode[inum].addrs[NDIRECT] # 0 THEN m
  ELSE [m EXCEPT !.inode[inum].addrs[NDIRECT] = m.freeblock, !.freeblock = @ + 1]

\* The image in which block fbn of the file has an address; the indirect
\* block's contents are the table.
Mapped(m, inum, fbn) ==
  IF fbn < NDIRECT
  THEN IF m.inode[inum].addrs[fbn] # 0 THEN m
       ELSE [m EXCEPT !.inode[inum].addrs[fbn] = m.freeblock, !.freeblock = @ + 1]
  ELSE IF m.inode[inum].table[fbn - NDIRECT] # 0 THEN m
       ELSE LET m2 == Indirect(m, inum)
            IN  [m2 EXCEPT !.inode[inum].table[fbn - NDIRECT] = m2.freeblock,
                           !.freeblock = @ + 1]
AddressOf(m, inum, fbn) ==
  IF fbn < NDIRECT THEN m.inode[inum].addrs[fbn] ELSE m.inode[inum].table[fbn - NDIRECT]

Within(off) == off % BSIZE

\* iappend(): n units of content from "unit" on; one iteration per block.
RECURSIVE iappend(_, _, _, _)
iappend(m, inum, unit, n) ==
  LET off == m.inode[inum].size
      fbn == off \div BSIZE
      n1 == IF n < (fbn + 1) * BSIZE - off THEN n ELSE (fbn + 1) * BSIZE - off
      m2 == Mapped(m, inum, fbn)
      x == AddressOf(m2, inum, fbn)
      m3 == [m2 EXCEPT
               !.block[x] = [i \in 0..(BSIZE - 1) |->
                  IF i \in Within(off)..(Within(off) + n1 - 1)
                  THEN <<unit[1], unit[2] + i - Within(off)>> ELSE @[i]],
               !.inode[inum].size = off + n1]
  IN  IF n = 0 THEN m ELSE iappend(m3, inum, <<unit[1], unit[2] + n1>>, n - n1)

\* A directory entry for inode inum is the content <<inum, 0>>.
Entry(m, inum) == iappend(m, ROOTINO, <<inum, 0>>, 1)

\* main() up to the files: the root directory with "." and "..".
Init ==
  /\ file = NoFile
  /\ img = Entry(Entry(Ialloc(
       [inode |-> [i \in 1..(MaxFiles + 1) |-> [type |-> "none"]],
        block |-> [b \in nmeta..(FSSIZE - 1) |-> ZeroBlock],
        freeinode |-> 1, freeblock |-> nmeta, bitmap |-> {}, done |-> FALSE],
       "T_DIR"), ROOTINO), ROOTINO)

\* Blocks a file of n units may need.
Need(n) == (n + BSIZE - 1) \div BSIZE + 1

\* Bound: only files that fit are given; mkfs does not check that.
add_file(size) ==
  /\ ~img.done /\ file = NoFile /\ img.freeinode <= MaxFiles + 1
  /\ img.freeblock + Need(size) + 2 <= FSSIZE
  /\ \E m \in {Entry(Ialloc(img, "T_FILE"), img.freeinode)} : img' = m
  /\ file' = [inum |-> img.freeinode, size |-> size, copied |-> 0]

\* read() of up to a block from the host, and iappend().
copy_file ==
  LET left == file.size - file.copied
      cc == IF left < BSIZE THEN left ELSE BSIZE
  IN  /\ file # NoFile
      /\ IF cc = 0 THEN file' = NoFile /\ UNCHANGED img
         ELSE /\ \E m \in {iappend(img, file.inum, <<file.inum, file.copied>>, cc)} : img' = m
              /\ file' = [file EXCEPT !.copied = @ + cc]

\* Mutant: the bitmap leaves out the last block that was allocated.
Used_Short(m) == 0..(m.freeblock - 2)
\* balloc(): the first freeblock bits are set.
Used(m) == 0..(m.freeblock - 1)

Rounded(off) == ((off \div BSIZE) + 1) * BSIZE

\* The size of the root directory is rounded, and the bitmap is written.
finish ==
  LET off == img.inode[ROOTINO].size IN
  /\ ~img.done /\ file = NoFile
  /\ img' = [img EXCEPT !.inode[ROOTINO].size = Rounded(off),
                        !.bitmap = Used(img), !.done = TRUE]
  /\ UNCHANGED file

Next == (\E n \in Sizes : add_file(n)) \/ copy_file \/ finish \/ (img.done /\ UNCHANGED vars)
Spec == Init /\ [][Next]_vars

----------------------------------------------------------------------------

Inums == 1..(img.freeinode - 1)
Places == {<<i, k>> : i \in Inums, k \in 0..(MAXFILE - 1)} \cup {<<i, -1>> : i \in Inums}
At(p) == IF p[2] = -1 THEN img.inode[p[1]].addrs[NDIRECT] ELSE AddressOf(img, p[1], p[2])
InUse == {At(p) : p \in Places} \ {0}

UnitAt(i, o) == img.block[AddressOf(img, i, o \div BSIZE)][o % BSIZE]

\* The image is what the kernel expects.  No block has two uses, all are data
\* blocks, and the bitmap of the finished image marks them and the metadata,
\* nothing else: balloc() will not hand out a block that holds a file.  Every
\* file reads back as it was given and the root directory lists each inode
\* once, wherever the directory's blocks fell between theirs.  Below its size
\* a file has no hole, except that the rounding gives the root directory one
\* when its entries fill their blocks (main, iappend).
ImageConsistent ==
  /\ \A p, q \in Places : At(p) # 0 /\ At(p) = At(q) => p = q
  /\ InUse \subseteq nmeta..(FSSIZE - 1)
  /\ img.done => img.bitmap = 0..(nmeta - 1) \cup InUse
  /\ \A o \in 0..Cardinality(Inums) : UnitAt(ROOTINO, o) = <<IF o < 2 THEN ROOTINO ELSE o, 0>>
  /\ \A i \in Inums \ {ROOTINO} : \A o \in 0..(img.inode[i].size - 1) : UnitAt(i, o) = <<i, o>>
  /\ \A i \in Inums : \A k \in 0..(MAXFILE - 1) :
       k * BSIZE < img.inode[i].size =>
         AddressOf(img, i, k) # 0 \/ (i = ROOTINO /\ k = (Cardinality(Inums) + 1) \div BSIZE)
=============================================================================
