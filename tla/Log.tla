-------------------------------- MODULE Log ---------------------------------
(***************************************************************************)
(* The write-ahead log of kernel/log.c, with the part of the buffer cache   *)
(* (kernel/bio.c) it relies on, crashes at any point and recovery.          *)
(*                                                                         *)
(* begin_op, end_op and log_write run under log.lock and are one action     *)
(* each.  commit() and recover_from_log() run without a lock; every block   *)
(* they write is an action.  bread, modification of the data, log_write and *)
(* brelse of one block by a system call are one action, since the buffer is *)
(* locked throughout and nothing writes it to disk while the system call    *)
(* is in progress.                                                          *)
(*                                                                         *)
(* The disk executes one write at a time (bwrite waits for it) and a crash  *)
(* during a write leaves the old contents, the new ones, or a torn block;   *)
(* only the header, whose 124 bytes lie in one sector, is written whole.    *)
(***************************************************************************)
EXTENDS Naturals, FiniteSets, Sequences

CONSTANTS
  Process,     \* the processes that make file system calls
  Block,       \* the home blocks, everything outside the log
  Val,         \* the contents of a block
  Torn,        \* what a write leaves behind that a crash interrupted
  Absent,      \* "not in the buffer cache"
  LOGBLOCKS, MAXOPBLOCKS,
  OpBlocks,    \* the most blocks a system call really writes
  MaxOps,      \* bound: the system calls that are made
  MaxCrashes   \* bound: the crashes that happen

ASSUME LogAssumption ==
  /\ LOGBLOCKS \in Nat /\ MAXOPBLOCKS \in Nat
  /\ MAXOPBLOCKS <= LOGBLOCKS
  /\ OpBlocks \in 0..MAXOPBLOCKS
  /\ IsFiniteSet(Process)
  /\ MaxOps \in Nat /\ MaxCrashes \in Nat
  /\ Torn \notin Val /\ Absent \notin Val \cup {Torn}

VARIABLES
  disk,        \* the home blocks on disk
  logdisk,     \* the blocks of the log on disk
  head,        \* the log header on disk: its block[0..n-1]
  cache,       \* the contents of the buffers of home blocks, or Absent
  pin,         \* the references log_write took on them
  lh,          \* log.lh in memory: its block[0..n-1]
  outstanding, \* log.outstanding
  committing,  \* log.committing
  pc,          \* where a process is in begin_op or end_op
  wrote,       \* the blocks a process wrote in its current system call
  phase, tail, \* where commit() or recover_from_log() is
  ops, crashes,
  panicked     \* a panic() was reached

logVars == <<lh, outstanding, committing>>
diskVars == <<disk, logdisk, head>>
cacheVars == <<cache, pin>>
bounds == <<ops, crashes>>
vars == <<diskVars, cacheVars, logVars, pc, wrote, phase, tail,
          bounds, panicked>>

Contents == Val \cup {Torn}

\* "idle": neither runs; the rest are the steps of commit(), the end of
\* end_op, and the steps of recover_from_log(), in order.
Phases == {"idle", "write_log", "write_head", "install", "erase", "finish",
           "read_head", "recover_install", "recover_erase"}
Recovering == phase \in {"read_head", "recover_install", "recover_erase"}

TypeOK ==
  /\ disk \in [Block -> Contents]
  /\ logdisk \in [1..LOGBLOCKS -> Contents]
  /\ head \in Seq(Block) /\ Len(head) <= LOGBLOCKS
  /\ cache \in [Block -> Contents \cup {Absent}]
  /\ pin \in [Block -> Nat]
  /\ lh \in Seq(Block) /\ Len(lh) <= LOGBLOCKS
  /\ outstanding \in Nat
  /\ committing \in BOOLEAN
  /\ pc \in [Process -> {"out", "begin", "asleep", "op", "commit"}]
  /\ wrote \in [Process -> SUBSET Block]
  /\ phase \in Phases
  /\ tail \in 0..LOGBLOCKS
  /\ ops \in 0..MaxOps
  /\ crashes \in 0..MaxCrashes
  /\ panicked \in BOOLEAN

\* The first boot after mkfs, which leaves the log zeroed; initlog() starts
\* with recover_from_log().
Init ==
  /\ disk \in [Block -> Val]
  /\ \E v \in Val : logdisk = [i \in 1..LOGBLOCKS |-> v]
  /\ head = <<>>
  /\ cache = [b \in Block |-> Absent]
  /\ pin = [b \in Block |-> 0]
  /\ lh = <<>>
  /\ outstanding = 0
  /\ committing = FALSE
  /\ pc = [p \in Process |-> "out"]
  /\ wrote = [p \in Process |-> {}]
  /\ phase = "read_head"
  /\ tail = 0
  /\ ops = 0
  /\ crashes = 0
  /\ panicked = FALSE

----------------------------------------------------------------------------
(* The buffer cache, as far as the log sees it. *)

\* What bread(b) returns.
bread(b) == IF cache[b] # Absent THEN cache[b] ELSE disk[b]

\* A read brings a block into the cache; a buffer with no references is
\* recycled for another block, without being written.
CacheFill(b) ==
  /\ ~Recovering
  /\ cache[b] = Absent
  /\ cache' = [cache EXCEPT ![b] = disk[b]]
  /\ UNCHANGED <<diskVars, pin, logVars, pc, wrote, phase, tail,
                 bounds, panicked>>

CacheRecycle(b) ==
  /\ cache[b] # Absent
  /\ pin[b] = 0
  /\ cache' = [cache EXCEPT ![b] = Absent]
  /\ UNCHANGED <<diskVars, pin, logVars, pc, wrote, phase, tail,
                 bounds, panicked>>

----------------------------------------------------------------------------
(* The system calls. *)

\* A file system call starts; the call to begin_op is the next step.
Call(p) ==
  /\ ~Recovering /\ pc[p] = "out"
  /\ ops < MaxOps
  /\ ops' = ops + 1
  /\ pc' = [pc EXCEPT ![p] = "begin"]
  /\ UNCHANGED <<diskVars, cacheVars, logVars, wrote, phase, tail, crashes,
                 panicked>>

\* The log has room for every outstanding operation and one more.
HasRoom ==
  Len(lh) + (outstanding + 1) * MAXOPBLOCKS <= LOGBLOCKS

\* One turn of begin_op's loop: enter, or sleep on &log.
begin_op_enter(p) ==
  /\ pc[p] = "begin"
  /\ ~committing /\ HasRoom
  /\ outstanding' = outstanding + 1
  /\ pc' = [pc EXCEPT ![p] = "op"]
  /\ UNCHANGED <<diskVars, cacheVars, lh, committing, wrote, phase, tail, bounds,
                 panicked>>

begin_op_sleep(p) ==
  /\ pc[p] = "begin"
  /\ committing \/ ~HasRoom
  /\ pc' = [pc EXCEPT ![p] = "asleep"]
  /\ UNCHANGED <<diskVars, cacheVars, logVars, wrote, phase, tail, bounds,
                 panicked>>

\* kkill() makes a sleeping process runnable; begin_op does not look at
\* p->killed and goes round its loop.
kkill(p) ==
  /\ pc[p] = "asleep"
  /\ pc' = [pc EXCEPT ![p] = "begin"]
  /\ UNCHANGED <<diskVars, cacheVars, logVars, wrote, phase, tail, bounds,
                 panicked>>

Logged(b) == \E i \in 1..Len(lh) : lh[i] = b

\* The extra reference log_write takes on a newly logged buffer.
bpin(b) == [pin EXCEPT ![b] = @ + 1]

\* A system call changes block b: bread, the change, log_write, brelse.
\* log_write panics when the log is full even if b is already in it.
log_write(p, b, v) ==
  /\ pc[p] = "op"
  /\ Cardinality(wrote[p] \cup {b}) <= OpBlocks
  /\ wrote' = [wrote EXCEPT ![p] = @ \cup {b}]
  /\ cache' = [cache EXCEPT ![b] = v]
  /\ panicked' = (Len(lh) >= LOGBLOCKS \/ outstanding < 1)
  /\ IF panicked' \/ Logged(b)
     THEN UNCHANGED <<lh, pin>>
     ELSE lh' = Append(lh, b) /\ pin' = bpin(b)
  /\ UNCHANGED <<diskVars, outstanding, committing, pc, phase, tail, bounds>>

\* Mutant: the wakeup is on another channel.
Woken_Nobody(f) == f

\* wakeup(&log)
Woken(f) == [p \in Process |-> IF f[p] = "asleep" THEN "begin" ELSE f[p]]

\* end_op of an operation that is not the last wakes those waiting for room.
end_op(p) ==
  /\ pc[p] = "op"
  /\ outstanding > 1
  /\ outstanding' = outstanding - 1
  /\ panicked' = committing
  /\ pc' = Woken([pc EXCEPT ![p] = "out"])
  /\ wrote' = [wrote EXCEPT ![p] = {}]
  /\ UNCHANGED <<diskVars, cacheVars, lh, committing, phase, tail, bounds>>

NothingLogged == lh = <<>>

\* The last one commits; an empty transaction has nothing to write.
end_op_last(p) ==
  /\ pc[p] = "op"
  /\ outstanding = 1
  /\ outstanding' = 0
  /\ panicked' = committing
  /\ committing' = TRUE
  /\ pc' = [pc EXCEPT ![p] = "commit"]
  /\ phase' = IF NothingLogged THEN "finish" ELSE "write_log"
  /\ wrote' = [wrote EXCEPT ![p] = {}]
  /\ UNCHANGED <<diskVars, cacheVars, lh, tail, bounds>>
----------------------------------------------------------------------------
(* commit(), run by the process whose end_op was the last. *)

\* After the write for lh[tail]: the next one, or the phase that follows.
Advance(next) ==
  IF tail + 1 < Len(lh)
  THEN tail' = tail + 1 /\ UNCHANGED phase
  ELSE tail' = 0 /\ phase' = next

\* One block copied from the cache to the log.
write_log(p) ==
  /\ pc[p] = "commit" /\ phase = "write_log"
  /\ LET b == lh[tail + 1]
     IN  /\ logdisk' = [logdisk EXCEPT ![tail + 1] = bread(b)]
         /\ cache' = [cache EXCEPT ![b] = bread(b)]
  /\ Advance("write_head")
  /\ UNCHANGED <<disk, head, pin, logVars, pc, wrote, bounds, panicked>>

\* The header reaches the disk: the transaction is committed.
write_head(p) ==
  /\ pc[p] = "commit" /\ phase = "write_head"
  /\ head' = lh
  /\ phase' = "install"
  /\ UNCHANGED <<disk, logdisk, cacheVars, logVars, pc, wrote, tail, bounds,
                 panicked>>

\* One block copied from the log to its home, and to its buffer.
Install ==
  LET b == lh[tail + 1]
  IN  /\ disk' = [disk EXCEPT ![b] = logdisk[tail + 1]]
      /\ cache' = [cache EXCEPT ![b] = logdisk[tail + 1]]

bunpin(b) == [pin EXCEPT ![b] = @ - 1]

install_trans(p) ==
  /\ pc[p] = "commit" /\ phase = "install"
  /\ Install
  /\ pin' = bunpin(lh[tail + 1])
  /\ Advance("erase")
  /\ UNCHANGED <<logdisk, head, logVars, pc, wrote, bounds, panicked>>

\* log.lh.n = 0; write_head()
erase(p) ==
  /\ pc[p] = "commit" /\ phase = "erase"
  /\ lh' = <<>>
  /\ head' = <<>>
  /\ phase' = "finish"
  /\ UNCHANGED <<disk, logdisk, cacheVars, outstanding, committing, pc, wrote,
                 tail, bounds, panicked>>

\* The end of end_op: let the next transaction start.
end_op_finish(p) ==
  /\ pc[p] = "commit" /\ phase = "finish"
  /\ committing' = FALSE
  /\ phase' = "idle"
  /\ pc' = Woken([pc EXCEPT ![p] = "out"])
  /\ UNCHANGED <<diskVars, cacheVars, lh, outstanding, wrote, tail, bounds,
                 panicked>>

----------------------------------------------------------------------------
(* Crashes and recovery. *)

\* A crash loses memory.  The block whose write it interrupts may be torn.
Crash ==
  /\ crashes < MaxCrashes
  /\ crashes' = crashes + 1
  /\ \/ UNCHANGED diskVars
     \/ /\ phase = "write_log"
        /\ logdisk' = [logdisk EXCEPT ![tail + 1] = Torn]
        /\ UNCHANGED <<disk, head>>
     \/ /\ phase \in {"install", "recover_install"}
        /\ disk' = [disk EXCEPT ![lh[tail + 1]] = Torn]
        /\ UNCHANGED <<logdisk, head>>
  /\ cache' = [b \in Block |-> Absent]
  /\ pin' = [b \in Block |-> 0]
  /\ lh' = <<>>
  /\ outstanding' = 0
  /\ committing' = FALSE
  /\ pc' = [p \in Process |-> "out"]
  /\ wrote' = [p \in Process |-> {}]
  /\ phase' = "read_head"
  /\ tail' = 0
  /\ panicked' = FALSE
  /\ UNCHANGED ops

\* Mutant: the header is cleared without being read.
Replayed_Nothing == <<>>

\* The blocks recovery finds in the header on disk.
Replayed == head

\* The first process runs recover_from_log() before any system call.
read_head ==
  /\ phase = "read_head"
  /\ lh' = Replayed
  /\ phase' = IF Replayed = <<>> THEN "recover_erase" ELSE "recover_install"
  /\ UNCHANGED <<diskVars, cacheVars, outstanding, committing, pc, wrote, tail,
                 bounds, panicked>>

recover_install ==
  /\ phase = "recover_install"
  /\ Install
  /\ Advance("recover_erase")
  /\ UNCHANGED <<logdisk, head, pin, logVars, pc, wrote, bounds, panicked>>

recover_erase ==
  /\ phase = "recover_erase"
  /\ lh' = <<>>
  /\ head' = <<>>
  /\ phase' = "idle"
  /\ UNCHANGED <<disk, logdisk, cacheVars, outstanding, committing, pc, wrote,
                 tail, bounds, panicked>>

----------------------------------------------------------------------------
commit(p) == write_log(p) \/ write_head(p) \/ install_trans(p) \/ erase(p)

recover_from_log == read_head \/ recover_install \/ recover_erase

Step(p) ==
  \/ begin_op_enter(p) \/ begin_op_sleep(p)
  \/ end_op(p) \/ end_op_last(p) \/ commit(p) \/ end_op_finish(p)

\* A panic leaves log.lock held: nothing of this goes on, until a reboot.
Running ==
  \/ \E p \in Process : Step(p) \/ Call(p) \/ kkill(p)
  \/ \E p \in Process, b \in Block, v \in Val : log_write(p, b, v)
  \/ \E b \in Block : CacheFill(b) \/ CacheRecycle(b)
  \/ recover_from_log

Next == (~panicked /\ Running) \/ Crash

Spec == Init /\ [][Next]_vars

\* Every process keeps running and no system call lasts for ever; kills,
\* crashes and cache traffic need not happen.
Fairness == WF_vars(recover_from_log) /\ \A p \in Process : WF_vars(Step(p))

----------------------------------------------------------------------------
(* Properties. *)

\* The blocks l of a log with header h over their homes in d.
Replay(h, l, d) ==
  [b \in Block |->
     IF \E i \in 1..Len(h) : h[i] = b
     THEN l[CHOOSE i \in 1..Len(h) : h[i] = b]
     ELSE d[b]]

\* What recovery would make of the disk.
Durable == Replay(head, logdisk, disk)

\* What the file system reads.
View == [b \in Block |-> bread(b)]

Active == {p \in Process : pc[p] = "op"}

\* The promise.  Until recovery is over nobody reads, and what will be read
\* is Durable.
Abstract == INSTANCE Transactions WITH
  view <- IF Recovering THEN Durable ELSE View,
  stable <- Durable,
  active <- Active

\* Every step of begin_op, log_write, end_op, commit, a crash (torn writes
\* included) and recovery is a step of the abstract transactional disk, or
\* invisible there: a system call's writes survive a crash all or none.
CrashAtomic == Abstract!Spec

\* Synchronous commit ("Log appends are synchronous"): when no operation is
\* outstanding and no commit is running, a crash loses nothing.
DurableAtRest ==
  ~Recovering /\ outstanding = 0 /\ ~committing => Durable = View

\* Neither log_write's checks nor end_op's check fails: begin_op's
\* reservation keeps every log_write within the log.
NoPanic == ~panicked

\* Whoever sleeps in begin_op has someone to wake them: an operation whose
\* end_op is still to come, or a commit that is running.
SleeperHasWaker ==
  \A p \in Process :
    pc[p] = "asleep" =>
      \E q \in Process : pc[q] \in {"op", "commit"}

\* The log never releases a buffer early or late: a buffer is pinned once
\* while its block waits for its installation, and otherwise not at all.
PinnedWhileLogged ==
  ~Recovering =>
    \A b \in Block :
      pin[b] = IF \E i \in 1..Len(lh) :
                    /\ lh[i] = b
                    /\ phase # "erase"
                    /\ phase = "install" => i > tail
               THEN 1 ELSE 0

\* Every begin_op returns, unless the machine crashes: no wakeup(&log) is
\* missing, and whoever waits for room or for a commit gets in.
BeginReturns(p) == pc[p] = "begin" ~> pc[p] \in {"op", "out"}
=============================================================================
