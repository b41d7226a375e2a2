------------------------------ MODULE FileData ------------------------------
(***************************************************************************)
(* The contents of files: balloc, bfree, bmap, itrunc, readi and writei of  *)
(* kernel/fs.c under fileread and filewrite of kernel/file.c.               *)
(*                                                                         *)
(* Everything between ilock and iunlock is one action, and one transaction  *)
(* of the log if it writes: filewrite is one action for each turn of its    *)
(* loop.  The byte at offset o of file i is written as <<i, o>>, so that a  *)
(* byte tells where it belongs.                                             *)
(***************************************************************************)
EXTENDS Integers, FiniteSets, SequencesExt

CONSTANTS
  Proc, Ino,                      \* the processes and the files they share
  NB,                             \* data blocks 1..NB; 0 is "no block"
  BSIZE, NDIRECT, NINDIRECT, BPB,
  MAXOPBLOCKS,
  MaxN                            \* bound: the bytes of one write or read

FileDataAssumption ==
  /\ {NB, BSIZE, NDIRECT, NINDIRECT, BPB, MaxN} \subseteq Nat \ {0}
  /\ MAXOPBLOCKS \in Nat /\ MAXOPBLOCKS >= 6

Zero == <<>>
MAXFILE == NDIRECT + NINDIRECT
Block == 0..NB

VARIABLES
  fs,         \* the disk as the system calls see it, and the inodes
  off,        \* f->off of the open file on an inode
  pr,         \* a filewrite in progress: its inode and the bytes left
  overrun,    \* some transaction wrote as many blocks as it reserved
  panicked

vars == <<fs, off, pr, overrun, panicked>>

\* Empty files on an empty disk.
Init ==
  /\ fs = [used |-> {}, size |-> [i \in Ino |-> 0],
           addrs |-> [i \in Ino |-> [k \in 0..NDIRECT |-> 0]],
           data |-> [b \in 1..NB |-> [k \in 0..BSIZE-1 |-> Zero]],
           ind |-> [b \in 1..NB |-> [k \in 0..NINDIRECT-1 |-> 0]]]
  /\ off = [i \in Ino |-> 0]
  /\ pr \in [Proc -> [i : Ino, left : {0}]]
  /\ overrun = FALSE
  /\ panicked = FALSE

----------------------------------------------------------------------------
(* The allocator.  A pair [fs, log] is the disk and the blocks logged.      *)

Least(m, n) == IF m <= n THEN m ELSE n

Zeroed(s, b) ==
  [s.fs EXCEPT !.used = @ \cup {b}, !.data[b] = [k \in 0..BSIZE-1 |-> Zero],
               !.ind[b] = [k \in 0..NINDIRECT-1 |-> 0]]

\* The first free block, zeroed; 0 if there is none.
balloc(s) ==
  LET free == 1..NB \ s.fs.used
      b == CHOOSE c \in free : \A d \in free : c <= d
  IN  IF free = {} THEN [fs |-> s.fs, log |-> s.log, addr |-> 0]
      ELSE [fs |-> Zeroed(s, b), addr |-> b,
            log |-> s.log \cup {<<"bitmap", b \div BPB>>, <<"block", b>>}]

\* The address of block bn of inode i, allocated if it was not there.
bmap(s, i, bn) ==
  IF bn < NDIRECT
  THEN IF s.fs.addrs[i][bn] # 0
       THEN [fs |-> s.fs, log |-> s.log, addr |-> s.fs.addrs[i][bn]]
       ELSE LET r == balloc(s)
            IN  [r EXCEPT !.fs.addrs[i][bn] = r.addr]
  ELSE LET r == IF s.fs.addrs[i][NDIRECT] # 0
                THEN [fs |-> s.fs, log |-> s.log,
                      addr |-> s.fs.addrs[i][NDIRECT]]
                ELSE LET a == balloc(s) IN [a EXCEPT !.fs.addrs[i][NDIRECT] = a.addr]
           a == r.addr
           k == bn - NDIRECT
       IN  IF a = 0 THEN r
           ELSE IF r.fs.ind[a][k] # 0
           THEN [r EXCEPT !.addr = r.fs.ind[a][k]]
           ELSE LET q == balloc(r) IN
                IF q.addr = 0 THEN q
                ELSE [q EXCEPT !.fs.ind[a][k] = q.addr,
                               !.log = @ \cup {<<"block", a>>}]

\* The blocks of inode i, the indirect block included.
Blocks(f, i) ==
  LET a == f.addrs[i][NDIRECT]
  IN  {f.addrs[i][k] : k \in 0..NDIRECT}
        \cup (IF a = 0 THEN {} ELSE {f.ind[a][k] : k \in 0..NINDIRECT-1})

----------------------------------------------------------------------------
(* writei and readi: a fold over the blocks they touch. *)

\* One turn of writei's loop: block bn, unless an earlier turn broke out.
WriteBlock(i, n, s, bn) ==
  LET r == bmap(s, i, bn)
      m == Least(n - s.tot, BSIZE - (s.off % BSIZE))
      o == s.off
  IN  IF s.stop THEN s
      ELSE IF r.addr = 0 \/ s.fault = bn
      THEN [s EXCEPT !.fs = r.fs, !.log = r.log, !.stop = TRUE]
      ELSE [s EXCEPT
              !.fs = [r.fs EXCEPT !.data[r.addr] = [k \in 0..BSIZE-1 |->
                        IF k \in (o % BSIZE)..((o % BSIZE) + m - 1)
                        THEN <<i, (o \div BSIZE) * BSIZE + k>> ELSE @[k]]],
              !.log = r.log \cup {<<"block", r.addr>>},
              !.tot = @ + m, !.off = @ + m]

\* The block numbers that the bytes from o on, n of them, lie in.
Touched(o, n) ==
  [k \in 1..((o + n - 1) \div BSIZE - o \div BSIZE + 1) |->
     o \div BSIZE + k - 1]

\* Mutant: the size grows by what was asked for.
NewSize_Asked(s, i, n) == IF off[i] + n > s.fs.size[i] THEN off[i] + n
                          ELSE s.fs.size[i]
NewSize(s, i, n) == IF s.off > s.fs.size[i] THEN s.off ELSE s.fs.size[i]

\* writei(ip, ..., off[i], n); either_copyin() fails at block "fault".
writei(i, n, fault) ==
  LET s0 == [fs |-> fs, log |-> {}, tot |-> 0, off |-> off[i],
             stop |-> FALSE, fault |-> fault]
      s == FoldLeft(LAMBDA s, bn : WriteBlock(i, n, s, bn), s0,
                    Touched(off[i], n))
  IN  IF off[i] > fs.size[i] \/ off[i] + n > MAXFILE * BSIZE
      THEN [s0 EXCEPT !.tot = -1]
      ELSE [s EXCEPT !.fs.size[i] = NewSize(s, i, n),
                     !.log = @ \cup {<<"inode", i>>}]

\* Mutant: a transaction takes all the blocks a commit can log.
MaxWrite_NoSlop == (MAXOPBLOCKS - 1) * BSIZE
MaxWrite == ((MAXOPBLOCKS - 1 - 1 - 2) \div 2) * BSIZE

Advance(tot, n1) == IF tot > 0 THEN tot ELSE 0

\* The blocks that a transaction logged, at its end.
EndOp(log) == overrun' = (overrun \/ Cardinality(log) >= MAXOPBLOCKS)

\* One turn of filewrite's loop; a short write ends the call.  A fault is at
\* a block that the turn touches, or, as MAXFILE, nowhere.
filewrite(p, fault) ==
  LET i == pr[p].i
      n1 == Least(pr[p].left, MaxWrite)
      s == writei(i, n1, fault)
  IN  /\ pr[p].left > 0
      /\ fault # MAXFILE => \E k \in 1..Len(Touched(off[i], n1)) :
           Touched(off[i], n1)[k] = fault
      /\ fs' = s.fs
      /\ EndOp(s.log)
      /\ off' = [off EXCEPT ![i] = @ + Advance(s.tot, n1)]
      /\ pr' = [pr EXCEPT ![p].left = IF s.tot = n1 THEN @ - n1 ELSE 0]
      /\ UNCHANGED panicked

\* fileread: readi(); its bmap() must find every block, since there is no
\* transaction in which it could allocate one.
fileread(p, i, n) ==
  LET m == IF off[i] > fs.size[i] THEN 0 ELSE Least(n, fs.size[i] - off[i])
      t == Touched(off[i], m)
  IN  /\ pr[p].left = 0 /\ m > 0
      /\ off' = [off EXCEPT ![i] = @ + m]
      /\ panicked' = (panicked \/ \E k \in 1..Len(t) :
           bmap([fs |-> fs, log |-> {}], i, t[k]).fs # fs)
      /\ UNCHANGED <<fs, pr, overrun>>

\* itrunc(), from open with O_TRUNC or when the file goes away.
itrunc(i) ==
  /\ fs' = [fs EXCEPT !.used = @ \ Blocks(fs, i), !.size[i] = 0,
                      !.addrs[i] = [k \in 0..NDIRECT |-> 0]]
  /\ panicked' = (panicked \/ ~(Blocks(fs, i) \ {0} \subseteq fs.used))
  /\ EndOp({<<"inode", i>>} \cup
           {<<"bitmap", b \div BPB>> : b \in Blocks(fs, i) \ {0}})
  /\ UNCHANGED <<off, pr>>

Write(p, i, n) ==
  /\ pr[p].left = 0
  /\ pr' = [pr EXCEPT ![p] = [i |-> i, left |-> n]]
  /\ UNCHANGED <<fs, off, overrun, panicked>>

\* The file is opened anew.
Open(i) == /\ off[i] # 0 /\ off' = [off EXCEPT ![i] = 0]
           /\ UNCHANGED <<fs, pr, overrun, panicked>>

Next ==
  \/ \E p \in Proc, i \in Ino, n \in 1..MaxN : Write(p, i, n) \/ fileread(p, i, n)
  \/ \E p \in Proc, fault \in 0..MAXFILE : filewrite(p, fault)
  \/ \E i \in Ino : itrunc(i) \/ Open(i)

Spec == Init /\ [][Next]_vars

----------------------------------------------------------------------------
(* What the file layer guarantees. *)

\* The pairs of an inode and a place in it that hold a block number.
Refs(b) ==
  {<<i, k>> \in Ino \X (0..NDIRECT) : fs.addrs[i][k] = b} \cup
  {<<i, NDIRECT + 1 + k>> : <<i, k>> \in {<<i, k>> \in Ino \X (0..NINDIRECT-1) :
     fs.addrs[i][NDIRECT] # 0 /\ fs.ind[fs.addrs[i][NDIRECT]][k] = b}}

\* There are no holes below the size, so that readi() never makes bmap()
\* allocate outside a transaction, and bfree() never frees a free block.
NoPanic == ~panicked

\* The byte of file i at offset o.
ByteAt(i, o) ==
  fs.data[bmap([fs |-> fs, log |-> {}], i, o \div BSIZE).addr][o % BSIZE]

\* Whichever allocation or copy failed in the middle of a write, a block is
\* marked in the bitmap if and only if one place in one inode holds it: none
\* belongs to two files and none is lost.  And every byte below the size is
\* what was written there in this file: nothing of another file, of an
\* earlier life of the block or of another offset (writei, bmap, itrunc).
FilesIntact ==
  /\ \A b \in 1..NB : Cardinality(Refs(b)) = IF b \in fs.used THEN 1 ELSE 0
  /\ \A i \in Ino : \A o \in 0..fs.size[i] - 1 : ByteAt(i, o) = <<i, o>>

\* "write a few blocks at a time to avoid exceeding the maximum log
\* transaction size": no transaction of filewrite or itrunc writes as many
\* blocks as begin_op() reserved, the bound the log's proof relies on.
LogBound == ~overrun
=============================================================================
