------------------------------ MODULE Monitor ------------------------------
(***************************************************************************)
(* getallprocs(): kernel_getallprocs() and fill_u_proc() of kernel/proc.c,  *)
(* running beside fork, exit and wait.  The monitor holds only the lock of  *)
(* the slot it reports; it reads p->parent and the parent's fields without  *)
(* wait_lock and without the parent's lock.                                 *)
(*                                                                         *)
(* Locks that are taken and released within a step are a guard of it; the   *)
(* only p->lock held between steps is the monitor's.                        *)
(***************************************************************************)
EXTENDS Integers, Sequences, FiniteSets

CONSTANTS NPROC, MaxPid, MaxScan    \* bounds: pids given out, scans made

MonitorAssumption ==
  NPROC \in Nat /\ NPROC > 2 /\ MaxPid \in Nat /\ MaxScan \in Nat

Slot == 1..NPROC
INITPROC == 1
monitor == 2                       \* the slot of the process that scans

VARIABLES
  state, pid, parent,  \* fields of struct proc; a parent of 0 is none
  nextpid,
  wait_lock,           \* the slot of the process that has it, or 0
  pr,                  \* what a process does: fork, exit, or nothing
  mon                  \* the monitor's scan

vars == <<state, pid, parent, nextpid, wait_lock, pr, mon>>
procs == <<state, pid, parent, nextpid>>

None == [pc |-> "user", i |-> 0, j |-> 0]
NoScan == [pc |-> "idle", p |-> 0, parent |-> 0, ppid |-> 0, list |-> <<>>,
           start |-> {}, max |-> 0, scans |-> 0]

\* init and the monitor, its child.
Init ==
  /\ state = [s \in Slot |-> IF s <= 2 THEN "LIVE" ELSE "UNUSED"]
  /\ pid = [s \in Slot |-> IF s <= 2 THEN s ELSE 0]
  /\ parent = [s \in Slot |-> IF s = 2 THEN 1 ELSE 0]
  /\ nextpid = 3 /\ wait_lock = 0
  /\ pr = [s \in Slot |-> None] /\ mon = NoScan

\* The monitor does not have p->lock.
Free(s) == mon.pc \in {"idle", "next"} \/ mon.p # s
Can(s, pc) == state[s] = "LIVE" /\ pr[s].pc = pc /\ (s = monitor => mon.pc = "idle")

----------------------------------------------------------------------------
(* fork, exit and wait *)

\* allocproc(): slots that are scanned before n are in use.
allocproc(s, n) ==
  /\ Can(s, "user") /\ nextpid <= MaxPid
  /\ state[n] = "UNUSED" /\ Free(n) /\ \A k \in 1..(n - 1) : state[k] # "UNUSED"
  /\ state' = [state EXCEPT ![n] = "USED"]
  /\ pid' = [pid EXCEPT ![n] = nextpid] /\ nextpid' = nextpid + 1
  /\ pr' = [pr EXCEPT ![s] = [pc |-> "parent", i |-> n, j |-> 0]]
  /\ UNCHANGED <<parent, wait_lock, mon>>

\* wait_lock: np->parent = p
kfork_parent(s) ==
  /\ Can(s, "parent") /\ wait_lock = 0
  /\ parent' = [parent EXCEPT ![pr[s].i] = s]
  /\ pr' = [pr EXCEPT ![s].pc = "runnable"]
  /\ UNCHANGED <<state, pid, nextpid, wait_lock, mon>>

kfork_runnable(s) ==
  /\ Can(s, "runnable") /\ Free(pr[s].i)
  /\ state' = [state EXCEPT ![pr[s].i] = "LIVE"] /\ pr' = [pr EXCEPT ![s] = None]
  /\ UNCHANGED <<pid, parent, nextpid, wait_lock, mon>>

\* kexit() up to acquire(&wait_lock); slot i is the next for reparent().
kexit(s) ==
  /\ Can(s, "user") /\ s # INITPROC /\ wait_lock = 0
  /\ wait_lock' = s /\ pr' = [pr EXCEPT ![s] = [pc |-> "reparent", i |-> 1, j |-> 1]]
  /\ UNCHANGED <<procs, mon>>

\* Mutant: reparent() changes the parent and wakes nobody.
Wakes_Not(s, i) == "reparent"
Wakes(s, i) == "wakeup"

reparent(s) ==
  /\ Can(s, "reparent") /\ pr[s].i <= NPROC
  /\ IF parent[pr[s].i] = s
     THEN /\ parent' = [parent EXCEPT ![pr[s].i] = INITPROC]
          /\ pr' = [pr EXCEPT ![s].pc = Wakes(s, pr[s].i), ![s].j = 1]
     ELSE pr' = [pr EXCEPT ![s].i = @ + 1] /\ UNCHANGED parent
  /\ UNCHANGED <<state, pid, nextpid, wait_lock, mon>>

\* wakeup(initproc): every other p->lock in turn.
wakeup(s) ==
  /\ Can(s, "wakeup")
  /\ IF pr[s].j > NPROC
     THEN pr' = [pr EXCEPT ![s].pc = "reparent", ![s].i = @ + 1]
     ELSE (pr[s].j = s \/ Free(pr[s].j)) /\ pr' = [pr EXCEPT ![s].j = @ + 1]
  /\ UNCHANGED <<procs, wait_lock, mon>>

Reparented(s) == pr[s].i > NPROC

\* acquire(&p->lock), ZOMBIE, release(&wait_lock).
kexit_zombie(s) ==
  /\ Can(s, "reparent") /\ Reparented(s) /\ Free(s)
  /\ state' = [state EXCEPT ![s] = "ZOMBIE"]
  /\ wait_lock' = 0 /\ pr' = [pr EXCEPT ![s] = None]
  /\ UNCHANGED <<pid, parent, nextpid, mon>>

\* kwait() finds a zombie and freeproc()s it.
kwait(s, c) ==
  /\ Can(s, "user") /\ wait_lock = 0
  /\ parent[c] = s /\ state[c] = "ZOMBIE" /\ Free(c)
  /\ state' = [state EXCEPT ![c] = "UNUSED"]
  /\ pid' = [pid EXCEPT ![c] = 0] /\ parent' = [parent EXCEPT ![c] = 0]
  /\ UNCHANGED <<nextpid, wait_lock, pr, mon>>

----------------------------------------------------------------------------
(* kernel_getallprocs() *)

Present == {pid[s] : s \in {k \in Slot : state[k] # "UNUSED"}}

getallprocs(max) ==
  /\ Can(monitor, "user") /\ mon.scans < MaxScan
  /\ mon' = [mon EXCEPT !.pc = "next", !.p = 0, !.list = <<>>, !.start = Present,
                        !.max = max, !.scans = @ + 1]
  /\ UNCHANGED <<procs, wait_lock, pr>>

Skip(p) == p

\* acquire(&p->lock), and fill_u_proc() down to the read of p->parent; a
\* process without a parent is given -1.
fill_u_proc ==
  LET p == mon.p + 1 IN
  /\ mon.pc = "next" /\ mon.p < NPROC /\ Len(mon.list) < mon.max
  /\ mon' = IF state[p] = "UNUSED" THEN [mon EXCEPT !.p = Skip(p)]
            ELSE IF parent[p] = 0
            THEN [mon EXCEPT !.p = p, !.pc = "copyout", !.parent = 0, !.ppid = -1]
            ELSE [mon EXCEPT !.p = p, !.pc = "parent", !.parent = parent[p],
                             !.ppid = pid[parent[p]]]
  /\ UNCHANGED <<procs, wait_lock, pr>>

\* The parent's pid is read from the slot the pointer names; ppid held the
\* pid that was there when the pointer was read.
fill_u_proc_parent ==
  /\ mon.pc = "parent"
  /\ mon' = [mon EXCEPT !.pc = "copyout", !.ppid = pid[mon.parent]]
  /\ UNCHANGED <<procs, wait_lock, pr>>

\* copyout(), count++, release(&p->lock); or copyout() fails.
getallprocs_copyout ==
  /\ mon.pc = "copyout"
  /\ \/ mon' = [mon EXCEPT !.pc = "next", !.list = Append(@, pid[mon.p])]
     \/ mon' = [NoScan EXCEPT !.scans = mon.scans]
  /\ UNCHANGED <<procs, wait_lock, pr>>

getallprocs_return ==
  /\ mon.pc = "next" /\ (mon.p = NPROC \/ Len(mon.list) = mon.max)
  /\ mon' = [NoScan EXCEPT !.scans = mon.scans]
  /\ UNCHANGED <<procs, wait_lock, pr>>

\* All pids are used up, or only init is left, which has nothing to do.
Rest ==
  /\ \A s \in Slot : pr[s] = None /\ mon.pc = "idle"
  /\ UNCHANGED vars

Next ==
  \/ \E s \in Slot : \/ kfork_parent(s) \/ kfork_runnable(s) \/ kexit(s)
                     \/ reparent(s) \/ wakeup(s) \/ kexit_zombie(s)
                     \/ \E n \in Slot : allocproc(s, n) \/ kwait(s, n)
  \/ \E max \in {1, NPROC} : getallprocs(max)
  \/ fill_u_proc \/ fill_u_proc_parent \/ getallprocs_copyout
  \/ getallprocs_return \/ Rest

Spec == Init /\ [][Next]_vars

----------------------------------------------------------------------------

\* A scan sees processes as they are.  While the monitor reads the fields of
\* the parent, the slot its pointer names still holds the same, live process:
\* reparent() has to pass the child's lock, in wakeup(), before that process
\* can be a zombie, be freed and its slot be used again; in particular the
\* case USED, which would store into the parent's state, is never reached.
\* And a scan lists every process that is there from its start to its end,
\* and no process twice, whatever is forked, freed and reused meanwhile.
ScanSound ==
  /\ mon.pc = "parent" => state[mon.parent] = "LIVE" /\ pid[mon.parent] = mon.ppid
  /\ mon.pc = "next" /\ mon.p = NPROC =>
       /\ \A k \in 1..Len(mon.list), l \in 1..Len(mon.list) :
            mon.list[k] = mon.list[l] => k = l
       /\ mon.start \cap Present \subseteq {mon.list[k] : k \in 1..Len(mon.list)}
=============================================================================
