------------------------------- MODULE Inode --------------------------------
(***************************************************************************)
(* The inode layer of kernel/fs.c: the table of in-memory inodes, inodes    *)
(* allocated and freed on disk, crashes, and ireclaim() at boot.            *)
(*                                                                         *)
(* What runs under itable.lock is one action, and so is what runs between   *)
(* ilock and iunlock unless it waits for another lock.  System calls are    *)
(* transactions of the log (module Log): "now" is the disk as they see it,  *)
(* "stable" what a crash leaves.  There is one directory, whose lock is     *)
(* "dir", and file contents are left out.                                   *)
(***************************************************************************)
EXTENDS Naturals, FiniteSets

CONSTANTS
  Proc, Name,
  Inum,         \* inode numbers, without the root directory's
  NINODE,       \* entries of itable
  None,         \* no process, no entry, no inode
  MaxCalls,     \* bound: the system calls between two boots
  MaxCrashes    \* bound: the crashes that happen

ASSUME InodeAssumption ==
  /\ Inum \subseteq Nat \ {0} /\ IsFiniteSet(Inum) /\ Inum # {}
  /\ NINODE \in Nat /\ MaxCalls \in Nat /\ MaxCrashes \in Nat
  /\ None \notin Proc \cup Inum \cup 1..NINODE

Entry == 1..NINODE

VARIABLES
  now, stable,  \* the disk: the directory's entries and the inodes
  itable,       \* itable.inode
  dir,          \* the process that has the directory's lock
  pr,           \* a process: where it is, its call, and its ip
  file,         \* the inode a process has open
  boot,         \* the inodes ireclaim() has yet to look at
  calls,        \* the system calls since boot
  crashes, panicked

bounds == <<calls, crashes>>
vars == <<now, stable, itable, dir, pr, file, boot, bounds, panicked>>

Free == [type |-> "none", nlink |-> 0]

Idle == [pc |-> "out", op |-> "none", name |-> None, ip |-> None]
NoInode ==
  [inum |-> None, ref |-> 0, valid |-> FALSE, lock |-> None, d |-> Free]

\* mkfs() leaves only the root directory.
Init ==
  /\ now = [ent |-> [n \in Name |-> None], ino |-> [i \in Inum |-> Free]]
  /\ stable = now
  /\ itable = [e \in Entry |-> NoInode]
  /\ dir = None
  /\ pr = [p \in Proc |-> Idle] /\ file = [p \in Proc |-> None]
  /\ boot = Inum /\ calls = 0 /\ crashes = 0 /\ panicked = FALSE

Go(p, label) == pr' = [pr EXCEPT ![p].pc = label]
GoWith(p, label, e) == pr' = [pr EXCEPT ![p].pc = label, ![p].ip = e]
Lowest(S) == CHOOSE i \in S : \A j \in S : i <= j

----------------------------------------------------------------------------
(* iget, ialloc *)

InTable(i) == {e \in Entry : itable[e].ref > 0 /\ itable[e].inum = i}
Empty == {e \in Entry : itable[e].ref = 0}

\* The entry iget(i) returns, and the table after it.
Slot(i) == IF InTable(i) # {} THEN Lowest(InTable(i)) ELSE Lowest(Empty)

Recycled(i) == [itable[Slot(i)] EXCEPT !.inum = i, !.ref = 1, !.valid = FALSE]

iget(i) ==
  IF InTable(i) \cup Empty = {} THEN panicked' = TRUE /\ UNCHANGED itable
  ELSE /\ itable' = [itable EXCEPT ![Slot(i)] =
                       IF InTable(i) # {} THEN [@ EXCEPT !.ref = @ + 1]
                       ELSE Recycled(i)]
       /\ UNCHANGED panicked

FreeInodes == {i \in Inum : now.ino[i].type = "none"}

----------------------------------------------------------------------------
(* System calls: begin_op, then the directory. *)

Call(p, op, n) ==
  /\ pr[p].pc = "out" /\ boot = {} /\ calls < MaxCalls
  /\ \A q \in Proc : pr[q].op # "reclaim"
  /\ calls' = calls + 1
  /\ IF op = "close" THEN file[p] # None ELSE file[p] = None
  /\ pr' = [pr EXCEPT ![p] = IF op = "close"
              THEN [pc |-> "iput", op |-> op, name |-> None, ip |-> file[p]]
              ELSE [pc |-> "dir", op |-> op, name |-> n, ip |-> None]]
  /\ file' = [file EXCEPT ![p] = None]
  /\ UNCHANGED <<now, stable, itable, dir, boot, crashes, panicked>>

\* ilock(dp), dirlookup() and its iget(); unlink keeps dp locked.
lookup(p) ==
  LET i == now.ent[pr[p].name] IN
  /\ pr[p].pc = "dir" /\ dir = None /\ pr[p].op \in {"open", "create", "unlink"}
  /\ i # None
  /\ iget(i)
  /\ GoWith(p, "lock", Slot(i))
  /\ dir' = IF pr[p].op = "unlink" THEN p ELSE None
  /\ UNCHANGED <<now, stable, file, boot, bounds>>

\* dirlookup() finds nothing.
missing(p) ==
  /\ pr[p].pc = "dir" /\ dir = None /\ now.ent[pr[p].name] = None
  /\ pr[p].op \in {"open", "unlink"} \/ FreeInodes = {}
  /\ Go(p, "end")
  /\ UNCHANGED <<now, stable, itable, dir, file, boot, bounds, panicked>>

\* create(): ialloc() marks the first free inode; dp stays locked.
ialloc(p) ==
  LET i == Lowest(FreeInodes) IN
  /\ pr[p].pc = "dir" /\ dir = None /\ now.ent[pr[p].name] = None
  /\ pr[p].op = "create" /\ FreeInodes # {}
  /\ now' = [now EXCEPT !.ino[i] = [type |-> "file", nlink |-> 0]]
  /\ iget(i)
  /\ pr' = [pr EXCEPT ![p].pc = "lock", ![p].op = "new", ![p].ip = Slot(i)]
  /\ dir' = p
  /\ UNCHANGED <<stable, file, boot, bounds>>

----------------------------------------------------------------------------
(* ilock, and what the calls do with a locked inode. *)

\* The in-memory copy after ilock().
Loaded(e) ==
  IF itable[e].valid THEN itable[e]
  ELSE [itable[e] EXCEPT !.valid = TRUE, !.d = now.ino[itable[e].inum]]

\* ilock() of an entry nobody has locked.
Locks(p, op) ==
  /\ pr[p].pc = "lock" /\ pr[p].op = op
  /\ itable[pr[p].ip].lock = None
  /\ panicked' = (panicked \/ itable[pr[p].ip].ref < 1
                           \/ Loaded(pr[p].ip).d.type = "none")

\* sys_open() of an existing file: ilock, iunlock; the file has the inode.
open_existing(p) ==
  /\ Locks(p, "open") \/ Locks(p, "create")
  /\ itable' = [itable EXCEPT ![pr[p].ip] = Loaded(pr[p].ip)]
  /\ file' = [file EXCEPT ![p] = pr[p].ip]
  /\ GoWith(p, "end", None)
  /\ UNCHANGED <<now, stable, dir, boot, bounds>>

\* create(): nlink = 1, iupdate, dirlink, iunlockput(dp).
create_new(p) ==
  LET e == pr[p].ip  d == [Loaded(e).d EXCEPT !.nlink = 1] IN
  /\ Locks(p, "new")
  /\ itable' = [itable EXCEPT ![e] = [Loaded(e) EXCEPT !.d = d]]
  /\ now' = [ent |-> [now.ent EXCEPT ![pr[p].name] = itable[e].inum],
             ino |-> [now.ino EXCEPT ![itable[e].inum] = d]]
  /\ file' = [file EXCEPT ![p] = e]
  /\ dir' = None
  /\ GoWith(p, "end", None)
  /\ UNCHANGED <<stable, boot, bounds>>

\* create() fails in dirlink: nlink = 0, iupdate, iunlockput of both.
create_fail(p) ==
  LET e == pr[p].ip  d == [Loaded(e).d EXCEPT !.nlink = 0] IN
  /\ Locks(p, "new")
  /\ itable' = [itable EXCEPT ![e] = [Loaded(e) EXCEPT !.d = d]]
  /\ now' = [now EXCEPT !.ino[itable[e].inum] = d]
  /\ dir' = None
  /\ Go(p, "iput")
  /\ UNCHANGED <<stable, file, boot, bounds>>

\* sys_unlink(): ilock(ip), the entry is cleared, iunlockput(dp).
unlink_entry(p) ==
  LET e == pr[p].ip IN
  /\ Locks(p, "unlink")
  /\ itable' = [itable EXCEPT ![e] = [Loaded(e) EXCEPT !.lock = p]]
  /\ now' = [now EXCEPT !.ent[pr[p].name] = None]
  /\ dir' = None
  /\ Go(p, "unlinked")
  /\ UNCHANGED <<stable, file, boot, bounds>>

\* Mutant: iput() is called before iunlock().
Unlinked_Locked(i) == [i EXCEPT !.d.nlink = @ - 1]
Unlinked(i) == [i EXCEPT !.d.nlink = @ - 1, !.lock = None]

\* ip->nlink--, iupdate, iunlock
unlink_nlink(p) ==
  LET e == pr[p].ip IN
  /\ pr[p].pc = "unlinked"
  /\ itable' = [itable EXCEPT ![e] = Unlinked(@)]
  /\ now' = [now EXCEPT !.ino[itable[e].inum] = itable'[e].d]
  /\ Go(p, "iput")
  /\ UNCHANGED <<stable, dir, file, boot, bounds, panicked>>

\* Mutant: ireclaim() does not read the inode before it puts it.
reclaim_lock_Unread(p) ==
  /\ Locks(p, "reclaim")
  /\ Go(p, "iput")
  /\ UNCHANGED <<now, stable, itable, dir, file, boot, bounds>>

\* ireclaim(): ilock, iunlock
reclaim_lock(p) ==
  /\ Locks(p, "reclaim")
  /\ itable' = [itable EXCEPT ![pr[p].ip] = Loaded(pr[p].ip)]
  /\ Go(p, "iput")
  /\ UNCHANGED <<now, stable, dir, file, boot, bounds>>

----------------------------------------------------------------------------
(* iput *)

\* Mutant: the test of the reference count is missing.
LastUse_AnyRef(e) == itable[e].valid /\ itable[e].d.nlink = 0
LastUse(e) ==
  itable[e].ref = 1 /\ itable[e].valid /\ itable[e].d.nlink = 0

\* The test, and acquiresleep() under itable.lock if the inode is to go.
iput(p) ==
  LET e == pr[p].ip IN
  /\ pr[p].pc = "iput"
  /\ IF LastUse(e)
     THEN /\ itable[e].lock = None
          /\ itable' = [itable EXCEPT ![e].lock = p] /\ Go(p, "free")
     ELSE Go(p, "drop") /\ UNCHANGED itable
  /\ UNCHANGED <<now, stable, dir, file, boot, bounds, panicked>>

\* itrunc, type = 0, iupdate
iput_free(p) ==
  LET e == pr[p].ip IN
  /\ pr[p].pc = "free"
  /\ itable' = [itable EXCEPT ![e].d = Free]
  /\ now' = [now EXCEPT !.ino[itable[e].inum] = Free]
  /\ Go(p, "inval")
  /\ UNCHANGED <<stable, dir, file, boot, bounds, panicked>>

Invalid(d) == [d EXCEPT !.valid = FALSE, !.lock = None]

\* valid = 0, releasesleep
iput_unlock(p) ==
  /\ pr[p].pc = "inval"
  /\ itable' = [itable EXCEPT ![pr[p].ip] = Invalid(@)]
  /\ Go(p, "drop")
  /\ UNCHANGED <<now, stable, dir, file, boot, bounds, panicked>>

iput_drop(p) ==
  /\ pr[p].pc = "drop"
  /\ itable' = [itable EXCEPT ![pr[p].ip].ref = @ - 1]
  /\ GoWith(p, "end", None)
  /\ UNCHANGED <<now, stable, dir, file, boot, bounds, panicked>>

----------------------------------------------------------------------------
(* end_op, fork, crash and boot. *)

\* The last outstanding operation commits.
end_op(p) ==
  /\ pr[p].pc = "end"
  /\ pr' = [pr EXCEPT ![p] = Idle]
  /\ stable' = IF \A q \in Proc \ {p} : pr[q].pc = "out" THEN now ELSE stable
  /\ UNCHANGED <<now, itable, dir, file, boot, bounds, panicked>>

\* filedup() or kfork() gives another process the inode, through idup().
idup(p, q) ==
  /\ pr[p].pc = "out" /\ pr[q].pc = "out"
  /\ file[p] # None /\ file[q] = None
  /\ itable' = [itable EXCEPT ![file[p]].ref = @ + 1]
  /\ file' = [file EXCEPT ![q] = file[p]]
  /\ UNCHANGED <<now, stable, dir, pr, boot, bounds, panicked>>

Crash ==
  /\ crashes < MaxCrashes
  /\ crashes' = crashes + 1
  /\ now' = stable
  /\ itable' = [e \in Entry |-> NoInode]
  /\ dir' = None
  /\ pr' = [p \in Proc |-> Idle] /\ file' = [p \in Proc |-> None]
  /\ boot' = Inum /\ calls' = 0
  /\ UNCHANGED <<stable, panicked>>

Orphan(i) == now.ino[i].type # "none" /\ now.ino[i].nlink = 0

\* ireclaim() in the first process, before any system call.
ireclaim(p) ==
  /\ boot # {} /\ \A q \in Proc : pr[q].pc = "out"
  /\ LET i == Lowest(boot) IN
       /\ boot' = boot \ {i}
       /\ IF Orphan(i)
          THEN /\ iget(i)
               /\ pr' = [pr EXCEPT ![p] = [pc |-> "lock", op |-> "reclaim",
                                           name |-> None, ip |-> Slot(i)]]
          ELSE UNCHANGED <<itable, pr, panicked>>
  /\ UNCHANGED <<now, stable, dir, file, bounds>>

\* Everyone is done.
Rest == /\ boot = {} /\ calls = MaxCalls /\ \A p \in Proc : pr[p].pc = "out"
        /\ UNCHANGED vars

Step(p) ==
  \/ lookup(p) \/ missing(p) \/ ialloc(p) \/ open_existing(p)
  \/ create_new(p) \/ create_fail(p) \/ unlink_entry(p) \/ unlink_nlink(p)
  \/ reclaim_lock(p) \/ iput(p) \/ iput_free(p) \/ iput_unlock(p)
  \/ iput_drop(p) \/ end_op(p)

Next ==
  \/ \E p \in Proc : Step(p) \/ ireclaim(p) \/ \E q \in Proc : idup(p, q)
  \/ \E p \in Proc, op \in {"open", "create", "unlink", "close"}, n \in Name :
       Call(p, op, n)
  \/ Crash \/ Rest

Spec == Init /\ [][Next]_vars

----------------------------------------------------------------------------
(* What the inode layer guarantees. *)

Uses(e) == {p \in Proc : file[p] = e} \cup {p \in Proc : pr[p].ip = e}

\* ilock() never meets an inode without a type, and iget() finds a slot: an
\* inode is not freed between the iget() that found it and its ilock(), even
\* when iput() frees it and ialloc() hands out its number again meanwhile.
NoPanic == ~panicked

\* "this acquiresleep() won't block (or deadlock)": the last user of an inode
\* finds it unlocked, although it holds itable.lock while it asks.
IputNeverBlocks ==
  \A p \in Proc :
    pr[p].pc = "iput" /\ LastUse(pr[p].ip) =>
      itable[pr[p].ip].lock = None

\* What is used is kept.  References are exact and no inode has two entries,
\* so that an entry is found again by everyone who uses its inode, and
\* recycled only when nobody does; an unlocked copy agrees with the disk; and
\* a name or an open file keeps its inode allocated, through unlink, the
\* failure of create, and crashes, which leave exact link counts.
InodesKept ==
  /\ \A e \in Entry : itable[e].ref = Cardinality(Uses(e))
  /\ \A e, f \in Entry :
       itable[e].ref > 0 /\ itable[f].ref > 0
         /\ itable[e].inum = itable[f].inum => e = f
  /\ \A e \in Entry :
       itable[e].ref > 0 /\ itable[e].valid /\ itable[e].lock = None =>
         itable[e].d = now.ino[itable[e].inum]
  /\ \A n \in Name : now.ent[n] # None => now.ino[now.ent[n]].type = "file"
  /\ \A p \in Proc : file[p] # None =>
       now.ino[itable[file[p]].inum].type = "file"
  /\ \A i \in Inum :
       stable.ino[i].nlink = Cardinality({n \in Name : stable.ent[n] = i})

\* ireclaim() frees every inode that lost its last name before the crash and
\* its last reference in it, and the system calls start on a disk without
\* orphans.
ReclaimComplete ==
  boot = {} /\ calls = 0 /\ (\A p \in Proc : pr[p].pc = "out") =>
    \A i \in Inum : now.ino[i].type = "file" => now.ino[i].nlink > 0
=============================================================================
