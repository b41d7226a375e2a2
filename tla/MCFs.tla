-------------------------------- MODULE MCFs --------------------------------
(***************************************************************************)
(* Inode, FileData and VirtioDisk for TLC, side by side: a behaviour is one *)
(* of the component that part names, while the others stay in their initial *)
(* states.                                                                  *)
(***************************************************************************)
EXTENDS Inode, TLC

CONSTANTS
  NB, BSIZE, NDIRECT, NINDIRECT, BPB, MAXOPBLOCKS, MaxN,    \* FileData
  NUM, IDX                                                  \* VirtioDisk

VARIABLES
  part,
  fs, off, d_pr, overrun, d_panicked,                       \* FileData
  free, desc, ops, info, status, avail, availidx, used, usedidx, used_idx,
  taken, inflight, irq, intr, disk, pc, req, head, busy, data,
  v_panicked                                                \* VirtioDisk

\* One process writes; the two files are symmetric as the names of Inode are.
D == INSTANCE FileData WITH
  Proc <- {"p"}, Ino <- Name, pr <- d_pr, panicked <- d_panicked

V == INSTANCE VirtioDisk WITH
  Block <- {"b"}, Val <- {0, 1}, NoProc <- None, panicked <- v_panicked

ASSUME PartsAssumption == D!FileDataAssumption /\ V!VirtioAssumption

dvars == <<fs, off, d_pr, overrun, d_panicked>>
vvars == <<free, desc, ops, info, status, avail, availidx, used, usedidx,
           used_idx, taken, inflight, irq, intr, disk, pc, req, head, busy,
           data, v_panicked>>

PartsInit ==
  /\ part \in {"inode", "data", "virtio"} /\ Init /\ D!Init /\ V!Init
  /\ disk["b"] = 0

PartsNext ==
  /\ UNCHANGED part
  /\ \/ part = "inode" /\ Next /\ UNCHANGED <<dvars, vvars>>
     \/ part = "data" /\ D!Next /\ UNCHANGED <<vars, vvars>>
     \/ part = "virtio" /\ V!Next /\ UNCHANGED <<vars, dvars>>

PartsSpec == PartsInit /\ [][PartsNext]_<<part, vars, dvars, vvars>>

Symmetry == Permutations(Proc) \cup Permutations(Name)

\* The contents of a free block are overwritten before they are read, and an
\* idle process's inode is chosen anew by its next write.
Files ==
  <<off, overrun, d_panicked, fs.used, fs.size, fs.addrs,
    [x \in fs.used |-> <<fs.data[x], fs.ind[x]>>],
    IF d_pr["p"].left = 0 THEN <<>> ELSE <<d_pr["p"]>> >>
View ==
  CASE part = "inode" -> <<part, vars>>
    [] part = "data" -> <<part, Files>>
    [] part = "virtio" -> <<part, vvars>>

----------------------------------------------------------------------------

\* No block belongs to two files, none is lost, and a file shows nothing but
\* what was written to it (balloc, bmap, writei, readi).
FilesIntact == part = "data" => D!FilesIntact

\* A transaction of filewrite() stays below MAXOPBLOCKS.
LogBound == D!LogBound

\* virtio_disk_rw() performs its request once, as an atomic disk would.
Atomic == V!Atomic

\* The kernel runs: ilock() finds a type and iget() an entry, readi() no hole
\* and bfree() no free block, and the checks of free_desc() and
\* virtio_disk_intr() do not fail.
KernelRuns == NoPanic /\ D!NoPanic /\ V!NoPanic
=============================================================================
