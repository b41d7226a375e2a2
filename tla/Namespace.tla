----------------------------- MODULE Namespace ------------------------------
(***************************************************************************)
(* Directories and path names: namex, dirlookup and dirlink of kernel/fs.c, *)
(* and the system calls of kernel/sysfile.c that change or walk the tree.   *)
(*                                                                         *)
(* What a call does between ilock and iunlock is one action.  Only unlink   *)
(* keeps a lock while it waits for another one, so locks need no variable.  *)
(* Nor do reference counts: they are the number of uses (InodesKept of      *)
(* module Inode), and an inode goes with its last use and link (iput).      *)
(***************************************************************************)
EXTENDS Naturals, Sequences, FiniteSets

CONSTANTS
  Proc,
  Inum,         \* inode numbers; 0 is "no inode", Root the root directory
  Root, Name, Dot, DotDot,
  Calls,        \* [op, abs, path, new]: the calls that processes make
  MaxCalls      \* bound: how many calls are made

ASSUME NamespaceAssumption ==
  /\ Inum \subseteq Nat \ {0} /\ IsFiniteSet(Inum) /\ Root \in Inum
  /\ {Dot, DotDot} \subseteq Name /\ Dot # DotDot /\ MaxCalls \in Nat
  /\ \A c \in Calls :
       /\ c.op \in {"open", "openw", "create", "mkdir", "mknod", "link",
                    "unlink", "chdir"}
       /\ c.abs \in BOOLEAN /\ {c.path, c.new} \subseteq Seq(Name)

VARIABLES
  ino,          \* inodes: type, nlink and, for a directory, its entries
  cwd, file,    \* the current directory and the open file of a process
  pr,           \* the call of a process and how far it is
  calls, panicked

vars == <<ino, cwd, file, pr, calls, panicked>>

NoEntries == [n \in Name |-> 0]
Free == [type |-> "none", nlink |-> 0, ent |-> NoEntries]
NewDir(i, parent) ==
  [type |-> "dir", nlink |-> 1,
   ent |-> [NoEntries EXCEPT ![Dot] = i, ![DotDot] = parent]]
Idle == [pc |-> "out", op |-> "none", abs |-> TRUE, path |-> <<>>,
         new |-> <<>>, ip |-> 0, dp |-> 0, old |-> 0]

\* The disk that mkfs() makes, and processes in the root directory.
Init ==
  /\ ino = [i \in Inum |-> IF i = Root THEN NewDir(Root, Root) ELSE Free]
  /\ cwd = [p \in Proc |-> Root] /\ file = [p \in Proc |-> 0]
  /\ pr = [p \in Proc |-> Idle]
  /\ calls = 0 /\ panicked = FALSE

----------------------------------------------------------------------------

\* sys_unlink() holds dp while it waits for ip.
LockedBut(p, i) == \E q \in Proc \ {p} : pr[q].pc = "entry" /\ pr[q].dp = i

\* Mutant: the reference of the current directory is let go at once.
Uses_NoCwd(c, f, r) == {f, r.ip, r.dp, r.old}
\* The references that a process has.
Uses(c, f, r) == {c, f, r.ip, r.dp, r.old}

\* A step of p: its call becomes r, and iput() frees the inodes that have
\* neither a link nor a use any more.
Becomes(p, d, r, c, f) ==
  /\ pr' = [pr EXCEPT ![p] = r]
  /\ cwd' = [cwd EXCEPT ![p] = c] /\ file' = [file EXCEPT ![p] = f]
  /\ LET used == UNION {Uses(cwd'[q], file'[q], pr'[q]) : q \in Proc}
     IN  ino' = [i \in Inum |-> IF d[i].nlink = 0 /\ i \notin used THEN Free
                                ELSE d[i]]
  /\ UNCHANGED calls

\* The same, if the inode locked has a type (ilock) and a directory is one
\* (dirlookup).
Locked(p, i, types, d, r, c, f) ==
  /\ ~LockedBut(p, i)
  /\ panicked' = (panicked \/ ino[i].type \notin types)
  /\ Becomes(p, IF panicked' THEN ino ELSE d, r, c, f)

AnyType == {"file", "dev", "dir"}

\* A path that is not found; link then undoes what it did.
Failed(p) == IF pr[p].op = "link2" THEN [pr[p] EXCEPT !.pc = "bad", !.ip = 0]
             ELSE Idle

Start(p, abs) == IF abs THEN Root ELSE cwd[p]

Call(p, c) ==
  /\ pr[p].pc = "out" /\ calls < MaxCalls
  /\ calls' = calls + 1
  /\ pr' = [pr EXCEPT ![p] =
              [Idle EXCEPT !.pc = "namex", !.op = c.op, !.abs = c.abs,
                 !.path = c.path, !.new = c.new, !.ip = Start(p, c.abs)]]
  /\ UNCHANGED <<ino, cwd, file, panicked>>

\* nameiparent() rather than namei().
OfParent(op) == op \in {"create", "mkdir", "mknod", "unlink", "link2"}

\* One element of the path.
namex(p) ==
  LET r == pr[p]  d == ino[r.ip]  next == d.ent[Head(r.path)] IN
  /\ r.pc = "namex" /\ r.path # <<>>
  /\ Locked(p, r.ip, AnyType, ino,
       IF d.type # "dir" THEN Failed(p)
       ELSE IF OfParent(r.op) /\ Len(r.path) = 1 THEN [r EXCEPT !.pc = "at"]
       ELSE IF next = 0 THEN Failed(p)
       ELSE [r EXCEPT !.ip = next, !.path = Tail(@)], cwd[p], file[p])

\* nameiparent() of a path without elements.
namex_none(p) ==
  /\ pr[p].pc = "namex" /\ pr[p].path = <<>> /\ OfParent(pr[p].op)
  /\ Becomes(p, ino, Failed(p), cwd[p], file[p])
  /\ UNCHANGED panicked

\* namei() has found p's inode.
Found(p, op) == pr[p].pc = "namex" /\ pr[p].path = <<>> /\ pr[p].op = op
\* nameiparent() has found p's directory.
At(p, op) == pr[p].pc = "at" /\ pr[p].op = op

\* filealloc() and fdalloc(): the descriptor table may be full.
WithFile(p, i) == IF file[p] = 0 THEN i ELSE file[p]

sys_open(p, ok) ==
  LET i == pr[p].ip IN
  /\ Found(p, "open") \/ Found(p, "openw")
  /\ ok \/ ino[i].type = "dev"        \* its major number may be bad
  /\ Locked(p, i, AnyType, ino, Idle, cwd[p],
       IF ~ok \/ (ino[i].type = "dir" /\ pr[p].op = "openw") THEN file[p]
       ELSE WithFile(p, i))

sys_close(p) ==
  /\ pr[p].pc = "out" /\ file[p] # 0
  /\ Becomes(p, ino, Idle, cwd[p], 0)
  /\ UNCHANGED panicked

sys_chdir(p) ==
  LET i == pr[p].ip IN
  /\ Found(p, "chdir")
  /\ Locked(p, i, AnyType, ino, Idle,
            IF ino[i].type = "dir" THEN i ELSE cwd[p], file[p])

Counted(i) == [ino EXCEPT ![i].nlink = @ + 1]

\* sys_link(): the count goes up before the entry is there.
sys_link(p) ==
  LET i == pr[p].ip IN
  /\ Found(p, "link")
  /\ IF ino[i].type # "dir"
     THEN Locked(p, i, AnyType, Counted(i),
                 [pr[p] EXCEPT !.op = "link2", !.path = pr[p].new,
                    !.ip = Start(p, pr[p].abs), !.old = i], cwd[p], file[p])
     ELSE Locked(p, i, AnyType, ino, Idle, cwd[p], file[p])

\* dirlink() into dp; it fails if the name is there or the disk is full.
sys_link_entry(p, ok) ==
  LET r == pr[p]  n == Head(r.path)  i == r.ip IN
  /\ At(p, "link2")
  /\ IF ok /\ ino[i].ent[n] = 0
     THEN Locked(p, i, {"dir"}, [ino EXCEPT ![i].ent[n] = r.old], Idle,
                 cwd[p], file[p])
     ELSE Locked(p, i, {"dir"}, ino, Failed(p), cwd[p], file[p])

\* bad: ip->nlink--
sys_link_bad(p) ==
  /\ pr[p].pc = "bad"
  /\ Locked(p, pr[p].old, AnyType, [ino EXCEPT ![pr[p].old].nlink = @ - 1], Idle,
            cwd[p], file[p])

\* Mutant: "." and ".." can be unlinked.
Dots_Unlinked == {}
Dots == {Dot, DotDot}

\* sys_unlink(): dp stays locked while ip is.
sys_unlink(p) ==
  LET r == pr[p]  n == Head(r.path)  i == ino[r.ip].ent[n] IN
  /\ At(p, "unlink")
  /\ Locked(p, r.ip, {"dir"}, ino,
       IF n \in Dots \/ i = 0 THEN Idle
       ELSE [r EXCEPT !.pc = "entry", !.dp = r.ip, !.ip = i], cwd[p], file[p])

isdirempty(i) == \A n \in Name \ {Dot, DotDot} : ino[i].ent[n] = 0

\* Mutant: the parent keeps the link that ".." was.
LessParent_Kept(d, dp) == d
LessParent(d, dp) == [d EXCEPT ![dp].nlink = @ - 1]

sys_unlink_entry(p) ==
  LET r == pr[p]  n == Head(r.path)  i == r.ip
      isdir == ino[i].type = "dir"
      gone == [ino EXCEPT ![r.dp].ent[n] = 0, ![i].nlink = @ - 1]
  IN  /\ r.pc = "entry" /\ i # r.dp /\ ~LockedBut(p, i)
      /\ panicked' = (panicked \/ ino[i].nlink < 1)
      /\ Becomes(p, IF panicked' \/ (isdir /\ ~isdirempty(i)) THEN ino
                    ELSE IF isdir THEN LessParent(gone, r.dp) ELSE gone,
                 Idle, cwd[p], file[p])

\* create() of a name that is there: dp is let go before ip is locked.
create_found(p) ==
  LET r == pr[p]  i == ino[r.ip].ent[Head(r.path)] IN
  /\ \E op \in {"create", "mkdir", "mknod"} : At(p, op)
  /\ i # 0
  /\ Locked(p, r.ip, {"dir"}, ino, [r EXCEPT !.pc = "exists", !.ip = i],
            cwd[p], file[p])

create_exists(p) ==
  LET i == pr[p].ip IN
  /\ pr[p].pc = "exists"
  /\ Locked(p, i, AnyType, ino, Idle, cwd[p],
       IF pr[p].op = "create" /\ ino[i].type \in {"file", "dev"}
       THEN WithFile(p, i) ELSE file[p])

FreeInodes == {i \in Inum : ino[i].type = "none"}

\* create() of a new name: ialloc, the entries "." and "..", the entry; the
\* disk may have no inode or no block left, and fail: takes it all back.
create(p, ok) ==
  LET r == pr[p]  n == Head(r.path)  dp == r.ip
      i == CHOOSE i \in FreeInodes : \A j \in FreeInodes : i <= j
      new == IF r.op = "mkdir" THEN NewDir(i, dp)
             ELSE [Free EXCEPT !.nlink = 1,
                     !.type = IF r.op = "mknod" THEN "dev" ELSE "file"]
      made == [ino EXCEPT ![i] = new,
                 ![dp] = [@ EXCEPT !.ent[n] = i,
                            !.nlink = IF r.op = "mkdir" THEN @ + 1 ELSE @]]
  IN  /\ \E op \in {"create", "mkdir", "mknod"} : At(p, op)
      /\ ino[dp].ent[n] = 0
      /\ IF ok /\ FreeInodes # {}
         THEN Locked(p, dp, {"dir"}, made, Idle, cwd[p],
                     IF r.op = "create" THEN WithFile(p, i) ELSE file[p])
         ELSE Locked(p, dp, {"dir"}, ino, Idle, cwd[p], file[p])

\* All calls are made and have returned.
Rest == /\ calls = MaxCalls /\ \A p \in Proc : pr[p].pc = "out"
        /\ UNCHANGED vars

Next ==
  \/ \E p \in Proc :
       \/ \E c \in Calls : Call(p, c)
       \/ namex(p) \/ namex_none(p) \/ sys_close(p) \/ sys_chdir(p)
       \/ sys_link(p) \/ sys_link_bad(p) \/ sys_unlink(p) \/ sys_unlink_entry(p)
       \/ create_found(p) \/ create_exists(p)
       \/ \E ok \in BOOLEAN : sys_open(p, ok) \/ sys_link_entry(p, ok)
                              \/ create(p, ok)
  \/ Rest

Spec == Init /\ [][Next]_vars

----------------------------------------------------------------------------
(* What holds of the tree. *)

Below(d) == {ino[d].ent[n] : n \in Name \ {Dot, DotDot}} \ {0}
IsDir(i) == ino[i].type = "dir"

\* The directories that a path from the root leads to.
Tree ==
  LET T[k \in Nat] == IF k = 0 THEN {Root}
                      ELSE T[k-1] \cup UNION {{i \in Below(d) : IsDir(i)}
                                                : d \in T[k-1]}
  IN  T[Cardinality(Inum)]

Names(i) == {<<d, n>> \in Tree \X (Name \ {Dot, DotDot}) : ino[d].ent[n] = i}

\* What a path leads to is a tree, whatever calls run at once: a directory
\* has one name, in the directory its ".." leads to, and as many links as
\* subdirectories and itself; no entry leads to a free inode, and no file
\* has more names than links.
TreeShape ==
  \A d \in Tree :
    /\ d # Root => \E n \in Name : Names(d) = {<<ino[d].ent[DotDot], n>>}
    /\ ino[d].nlink = 1 + Cardinality({i \in Below(d) : IsDir(i)})
    /\ \A i \in Below(d) : ino[i].type # "none"
         /\ (~IsDir(i) => ino[i].nlink >= Cardinality(Names(i)))

\* No call meets a free inode, a file in place of a directory, or an entry
\* for an inode without links, although namex() unlocks every directory
\* before it locks the next.
NoPanic == ~panicked

\* Nobody who holds dp in sys_unlink() waits for a lock whose holder waits
\* for dp, or for dp itself: locks are taken from parent to child.
NoLockCycle ==
  \A p, q \in Proc :
    ~(/\ pr[p].pc = "entry" /\ pr[q].pc = "entry"
      /\ pr[p].ip = pr[q].dp /\ pr[q].ip = pr[p].dp)
=============================================================================
