-------------------------------- MODULE Proc --------------------------------
(***************************************************************************)
(* The life of processes: fork, exit, wait, kill, sleep, wakeup, yield and  *)
(* the scheduler of kernel/proc.c.                                          *)
(*                                                                         *)
(* A critical section that holds one p->lock and blocks on nothing is one   *)
(* action, enabled when that lock is free (Spinlock shows that the locks    *)
(* exclude).  The locks that are held from one action to the next are       *)
(* variables: wait_lock, across the scans of exit and wait, and p->lock,    *)
(* from the moment sleep, yield or exit change p->state until swtch has     *)
(* left p's kernel stack and scheduler() releases it.                       *)
(*                                                                         *)
(* A process takes a step only while a hart runs it.  User programs do      *)
(* anything: fork, exit, wait, kill in any order.  allocproc's and kkill's  *)
(* scans of the table are abstracted to the slot they settle on.            *)
(***************************************************************************)
EXTENDS Naturals, FiniteSets

CONSTANTS
  Proc,      \* the slots of proc[NPROC]
  initproc,  \* the slot of the first process
  CPU,       \* the harts
  NoProc,    \* a null struct proc *
  MaxPid,    \* bound: the last pid allocpid hands out
  KillPids   \* the pids that programs pass to kill()

ASSUME ProcAssumption ==
  /\ initproc \in Proc
  /\ NoProc \notin Proc
  /\ MaxPid \in Nat \ {0}
  /\ KillPids \subseteq Nat

VARIABLES
  state, chan, killed, pid, parent, \* fields of struct proc
  plock,     \* is p->lock held across actions
  wait_lock, \* the process that holds wait_lock, or NoProc
  nextpid,
  cur,       \* mycpu()->proc of every hart
  pc,        \* where the process is in the kernel; "user" is user space
  np,        \* the slot that a process in fork is setting up
  asked      \* history: the pids that kill() was called with

vars == <<state, chan, killed, pid, parent, plock, wait_lock, nextpid, cur,
          pc, np, asked>>

States == {"UNUSED", "USED", "SLEEPING", "RUNNABLE", "RUNNING", "ZOMBIE"}
PCs == {"user", "fork_made", "fork_spin", "fork_run",
        "exit_spin", "exit_reparent", "exit_wakeup", "exit_zombie", "dead",
        "wait_spin", "wait_scan", "wait_sleep", "wait_woken"}

\* Waiting in acquire(&wait_lock), with interrupts off.
Spinning == {"fork_spin", "exit_spin", "wait_spin"}

TypeOK ==
  /\ state \in [Proc -> States]
  /\ chan \in [Proc -> Proc \cup {NoProc}]
  /\ killed \in [Proc -> BOOLEAN]
  /\ pid \in [Proc -> Nat]
  /\ parent \in [Proc -> Proc \cup {NoProc}]
  /\ plock \in [Proc -> BOOLEAN]
  /\ wait_lock \in Proc \cup {NoProc}
  /\ nextpid \in Nat \ {0}
  /\ cur \in [CPU -> Proc \cup {NoProc}]
  /\ pc \in [Proc -> PCs]
  /\ np \in [Proc -> Proc \cup {NoProc}]
  /\ asked \in SUBSET Nat
  /\ \A p \in Proc : state[p] = "UNUSED" <=> pid[p] = 0

\* procinit and userinit.
Init ==
  /\ state = [p \in Proc |-> IF p = initproc THEN "RUNNABLE" ELSE "UNUSED"]
  /\ chan = [p \in Proc |-> NoProc]
  /\ killed = [p \in Proc |-> FALSE]
  /\ pid = [p \in Proc |-> IF p = initproc THEN 1 ELSE 0]
  /\ parent = [p \in Proc |-> NoProc]
  /\ plock = [p \in Proc |-> FALSE]
  /\ wait_lock = NoProc
  /\ nextpid = 2
  /\ cur = [c \in CPU |-> NoProc]
  /\ pc = [p \in Proc |-> "user"]
  /\ np = [p \in Proc |-> NoProc]
  /\ asked = {}

----------------------------------------------------------------------------
(* The scheduler. *)

\* Some hart executes p, outside sched().
Runs(p) == state[p] = "RUNNING" /\ \E c \in CPU : cur[c] = p

At(p, label) == Runs(p) /\ pc[p] = label

Goto(p, label) == pc' = [pc EXCEPT ![p] = label]

\* Mutant: the scheduler looks at p->state without p->lock.
CanSchedule_NoLock(p) == state[p] = "RUNNABLE"

CanSchedule(p) == ~plock[p] /\ state[p] = "RUNNABLE"

\* scheduler() finds p and switches to it; p leaves sched(), clears p->chan
\* if it had slept, and releases p->lock.
Schedule(c, p) ==
  /\ cur[c] = NoProc
  /\ CanSchedule(p)
  /\ state' = [state EXCEPT ![p] = "RUNNING"]
  /\ cur' = [cur EXCEPT ![c] = p]
  /\ chan' = [chan EXCEPT ![p] = NoProc]
  /\ UNCHANGED <<killed, pid, parent, plock, wait_lock, nextpid, pc, np, asked>>

\* swtch back to scheduler(), which clears c->proc and releases p->lock.
SchedOut(c) ==
  /\ cur[c] # NoProc
  /\ state[cur[c]] # "RUNNING"
  /\ plock' = [plock EXCEPT ![cur[c]] = FALSE]
  /\ cur' = [cur EXCEPT ![c] = NoProc]
  /\ UNCHANGED <<state, chan, killed, pid, parent, wait_lock, nextpid, pc, np,
                 asked>>

\* A timer interrupt: yield() up to the switch.  Code that holds or waits for
\* a lock is not interrupted; usertrap exits instead if the process was killed.
yield(p) ==
  /\ Runs(p)
  /\ wait_lock # p /\ pc[p] \notin Spinning
  /\ ~plock[p]
  /\ pc[p] = "user" => ~killed[p]
  /\ plock' = [plock EXCEPT ![p] = TRUE]
  /\ state' = [state EXCEPT ![p] = "RUNNABLE"]
  /\ UNCHANGED <<chan, killed, pid, parent, wait_lock, nextpid, cur, pc, np,
                 asked>>

----------------------------------------------------------------------------
(* fork. *)

\* Entry to a system call: usertrap does not start one if p was killed.
Syscall(p) == At(p, "user") /\ ~killed[p]

\* allocproc took slot q and everything else kfork allocates was there.
kfork(p, q) ==
  /\ Syscall(p)
  /\ nextpid <= MaxPid
  /\ state[q] = "UNUSED" /\ ~plock[q]
  /\ pid' = [pid EXCEPT ![q] = nextpid]
  /\ nextpid' = nextpid + 1
  /\ state' = [state EXCEPT ![q] = "USED"]
  /\ np' = [np EXCEPT ![p] = q]
  /\ Goto(p, "fork_made")
  /\ UNCHANGED <<chan, killed, parent, plock, wait_lock, cur, asked>>

\* allocproc took slot q but memory ran out: freeproc, and fork fails.  The
\* pid is used up.
kfork_NoMemory(p, q) ==
  /\ Syscall(p)
  /\ nextpid <= MaxPid
  /\ state[q] = "UNUSED" /\ ~plock[q]
  /\ nextpid' = nextpid + 1
  /\ killed' = [killed EXCEPT ![q] = FALSE]
  /\ UNCHANGED <<state, chan, pid, parent, plock, wait_lock, cur, pc, np, asked>>

kfork_acquire(p) ==
  /\ At(p, "fork_made")
  /\ Goto(p, "fork_spin")
  /\ UNCHANGED <<state, chan, killed, pid, parent, plock, wait_lock, nextpid,
                 cur, np, asked>>

\* np->parent = p, under wait_lock.
kfork_parent(p) ==
  /\ At(p, "fork_spin")
  /\ wait_lock = NoProc
  /\ parent' = [parent EXCEPT ![np[p]] = p]
  /\ Goto(p, "fork_run")
  /\ UNCHANGED <<state, chan, killed, pid, plock, wait_lock, nextpid, cur, np,
                 asked>>

\* np->state = RUNNABLE, under np->lock.
kfork_run(p) ==
  /\ At(p, "fork_run")
  /\ ~plock[np[p]]
  /\ state' = [state EXCEPT ![np[p]] = "RUNNABLE"]
  /\ np' = [np EXCEPT ![p] = NoProc]
  /\ Goto(p, "user")
  /\ UNCHANGED <<chan, killed, pid, parent, plock, wait_lock, nextpid, cur,
                 asked>>
----------------------------------------------------------------------------
(* sleep and wakeup. *)

Sleepers(ch, p) == {q \in Proc \ {p} : state[q] = "SLEEPING" /\ chan[q] = ch}

\* wakeup(ch), called by p: each sleeper is made RUNNABLE under its p->lock.
\* None can join them meanwhile, as that takes the lock the caller holds.
wakeup(ch, p) ==
  /\ \A q \in Sleepers(ch, p) : ~plock[q]
  /\ state' = [q \in Proc |->
                 IF q \in Sleepers(ch, p) THEN "RUNNABLE" ELSE state[q]]

----------------------------------------------------------------------------
(* exit. *)

\* kexit up to acquire(&wait_lock), called by the program or because p was
\* killed.  (For init it panics: the machine stops, which is left out.)
kexit(p) ==
  /\ At(p, "user")
  /\ p # initproc
  /\ Goto(p, "exit_spin")
  /\ UNCHANGED <<state, chan, killed, pid, parent, plock, wait_lock, nextpid,
                 cur, np, asked>>

kexit_acquire(p) ==
  /\ At(p, "exit_spin")
  /\ wait_lock = NoProc
  /\ wait_lock' = p
  /\ Goto(p, "exit_reparent")
  /\ UNCHANGED <<state, chan, killed, pid, parent, plock, nextpid, cur, np,
                 asked>>

Children(p) == {q \in Proc : parent[q] = p}

\* Mutant: the children go to init, which is not told.
reparent_NoWakeup(p) ==
  /\ At(p, "exit_reparent")
  /\ parent' = [q \in Proc |-> IF q \in Children(p) THEN initproc ELSE parent[q]]
  /\ Goto(p, "exit_wakeup")
  /\ UNCHANGED <<state, chan, killed, pid, plock, wait_lock, nextpid, cur, np,
                 asked>>

\* reparent(p): every child goes to init, which is woken if there is one.
reparent(p) ==
  /\ At(p, "exit_reparent")
  /\ parent' = [q \in Proc |-> IF q \in Children(p) THEN initproc ELSE parent[q]]
  /\ IF Children(p) = {} THEN UNCHANGED state ELSE wakeup(initproc, p)
  /\ Goto(p, "exit_wakeup")
  /\ UNCHANGED <<chan, killed, pid, plock, wait_lock, nextpid, cur, np, asked>>

\* wakeup(p->parent).
kexit_wakeup(p) ==
  /\ At(p, "exit_wakeup")
  /\ wakeup(parent[p], p)
  /\ Goto(p, "exit_zombie")
  /\ UNCHANGED <<chan, killed, pid, parent, plock, wait_lock, nextpid, cur, np,
                 asked>>

\* acquire(&p->lock), p->state = ZOMBIE, release(&wait_lock).  p->lock stays
\* held until scheduler() has left p's stack (SchedOut).
kexit_zombie(p) ==
  /\ At(p, "exit_zombie")
  /\ ~plock[p]
  /\ plock' = [plock EXCEPT ![p] = TRUE]
  /\ state' = [state EXCEPT ![p] = "ZOMBIE"]
  /\ wait_lock' = NoProc
  /\ Goto(p, "dead")
  /\ UNCHANGED <<chan, killed, pid, parent, nextpid, cur, np, asked>>

----------------------------------------------------------------------------
(* wait. *)

\* kwait up to acquire(&wait_lock); sleep() calls it again when it returns.
kwait(p) ==
  /\ Syscall(p)
  /\ Goto(p, "wait_spin")
  /\ UNCHANGED <<state, chan, killed, pid, parent, plock, wait_lock, nextpid,
                 cur, np, asked>>

kwait_woken(p) ==
  /\ At(p, "wait_woken")
  /\ Goto(p, "wait_spin")
  /\ UNCHANGED <<state, chan, killed, pid, parent, plock, wait_lock, nextpid,
                 cur, np, asked>>

kwait_acquire(p) ==
  /\ At(p, "wait_spin")
  /\ wait_lock = NoProc
  /\ wait_lock' = p
  /\ Goto(p, "wait_scan")
  /\ UNCHANGED <<state, chan, killed, pid, parent, plock, nextpid, cur, np,
                 asked>>

\* The scan has taken q's lock and found it a zombie.
Exited(q) == ~plock[q] /\ state[q] = "ZOMBIE"

\* freeproc(q).  A freed slot starts over in forkret.
freeproc(q) ==
  /\ pid' = [pid EXCEPT ![q] = 0]
  /\ parent' = [parent EXCEPT ![q] = NoProc]
  /\ chan' = [chan EXCEPT ![q] = NoProc]
  /\ killed' = [killed EXCEPT ![q] = FALSE]
  /\ state' = [state EXCEPT ![q] = "UNUSED"]

kwait_reap(p, q) ==
  /\ At(p, "wait_scan")
  /\ q \in Children(p) /\ Exited(q)
  /\ freeproc(q)
  /\ wait_lock' = NoProc
  /\ pc' = [pc EXCEPT ![p] = "user", ![q] = "user"]
  /\ UNCHANGED <<plock, nextpid, cur, np, asked>>

\* copyout of the exit status failed: the zombie stays.  init passes no
\* address (user/init.c), so it never takes this path.
kwait_BadAddress(p, q) ==
  /\ At(p, "wait_scan")
  /\ p # initproc
  /\ q \in Children(p) /\ Exited(q)
  /\ wait_lock' = NoProc
  /\ Goto(p, "user")
  /\ UNCHANGED <<state, chan, killed, pid, parent, plock, nextpid, cur, np,
                 asked>>

\* Mutant: wait() does not look at p->killed.
GivesUp_Unkillable(p) == Children(p) = {}

\* No point in waiting.
GivesUp(p) == Children(p) = {} \/ killed[p]

\* The scan found no zombie.
kwait_NoZombie(p) ==
  /\ At(p, "wait_scan")
  /\ \A q \in Children(p) : state[q] # "ZOMBIE"
  /\ ~plock[p]
  /\ \/ /\ GivesUp(p)
        /\ wait_lock' = NoProc
        /\ Goto(p, "user")
     \/ /\ ~GivesUp(p)
        /\ Goto(p, "wait_sleep")
        /\ UNCHANGED wait_lock
  /\ UNCHANGED <<state, chan, killed, pid, parent, plock, nextpid, cur, np,
                 asked>>

\* sleep(p, &wait_lock): p->lock is taken before wait_lock is released, and
\* stays held until scheduler() has left p's stack.
kwait_sleep(p) ==
  /\ At(p, "wait_sleep")
  /\ ~plock[p]
  /\ plock' = [plock EXCEPT ![p] = TRUE]
  /\ wait_lock' = NoProc
  /\ chan' = [chan EXCEPT ![p] = p]
  /\ state' = [state EXCEPT ![p] = "SLEEPING"]
  /\ Goto(p, "wait_woken")
  /\ UNCHANGED <<killed, pid, parent, nextpid, cur, np, asked>>

----------------------------------------------------------------------------
(* kill. *)

\* A sleeping victim is woken.
KilledState(q) == IF state[q] = "SLEEPING" THEN "RUNNABLE" ELSE state[q]

\* kkill(n) reached slot q first.  Nothing but p->pid is compared: a free
\* slot has pid 0.
kkill(p, n, q) ==
  /\ Syscall(p)
  /\ pid[q] = n
  /\ ~plock[q]
  /\ killed' = [killed EXCEPT ![q] = TRUE]
  /\ state' = [state EXCEPT ![q] = KilledState(q)]
  /\ asked' = asked \cup {n}
  /\ UNCHANGED <<chan, pid, parent, plock, wait_lock, nextpid, cur, pc, np>>

----------------------------------------------------------------------------

\* The steps of p inside the kernel, which no program's choice delays.
KernelStep(p) ==
  \/ kfork_acquire(p) \/ kfork_parent(p) \/ kfork_run(p)
  \/ kexit_acquire(p) \/ reparent(p) \/ kexit_wakeup(p) \/ kexit_zombie(p)
  \/ \E q \in Proc : kwait_reap(p, q)
  \/ kwait_acquire(p) \/ kwait_NoZombie(p) \/ kwait_sleep(p) \/ kwait_woken(p)

Step(p) ==
  \/ KernelStep(p)
  \/ yield(p)
  \/ kexit(p) \/ kwait(p)
  \/ \E q \in Proc : \/ kfork(p, q) \/ kfork_NoMemory(p, q)
                     \/ kwait_BadAddress(p, q)
                     \/ \E n \in KillPids : kkill(p, n, q)

Next ==
  \/ \E p \in Proc : Step(p)
  \/ \E c \in CPU : SchedOut(c) \/ \E p \in Proc : Schedule(c, p)

Spec == Init /\ [][Next]_vars

\* The harts keep running.  A lock that is free again and again is got in the
\* end, a RUNNABLE process is reached by some scheduler's round through the
\* table, and every time slice executes something: hence strong fairness for
\* what a process does between preemptions.  A killed process that is in user
\* space traps at the latest on the next timer interrupt, and init calls
\* wait() in a loop (user/init.c).
Fairness ==
  /\ \A c \in CPU : WF_vars(SchedOut(c))
  /\ \A p \in Proc :
       /\ SF_vars(\E c \in CPU : Schedule(c, p))
       /\ SF_vars(KernelStep(p) \/ (killed[p] /\ kexit(p)))
  /\ SF_vars(kwait(initproc))

----------------------------------------------------------------------------

\* A process is on at most one hart, every RUNNING process is on one, and a
\* hart is never on the kernel stack of a process that another may schedule,
\* reap or reuse: as long as swtch has not left the stack, p->lock is held
\* ("make sure the child isn't still in exit() or swtch()", kwait).
StackInUse ==
  /\ \A c, d \in CPU : cur[c] = cur[d] /\ cur[c] # NoProc => c = d
  /\ \A c \in CPU : cur[c] # NoProc =>
       /\ state[cur[c]] \notin {"UNUSED", "USED"}
       /\ state[cur[c]] = "RUNNING" \/ plock[cur[c]]
  /\ \A p \in Proc : state[p] = "RUNNING" => \E c \in CPU : cur[c] = p

\* No wakeup of wait() is lost: a process asleep in wait() has a child, and
\* none of its children is a zombie already (kexit wakes the parent before it
\* is a zombie, reparent wakes init; both hold wait_lock, which kwait gives up
\* only once it is SLEEPING).
NoLostExit ==
  \A p \in Proc :
    state[p] = "SLEEPING" /\ chan[p] = p =>
      /\ Children(p) # {}
      /\ \A q \in Children(p) : state[q] # "ZOMBIE"

\* Somebody can reap every process: whoever is a parent has neither exited
\* nor been reaped, and every process but init that has started has a parent
\* (reparent before ZOMBIE, fork sets np->parent before np can run).
ParentAlive ==
  /\ \A q \in Proc : parent[q] # NoProc =>
       state[parent[q]] \in {"RUNNABLE", "RUNNING", "SLEEPING"}
  /\ \A q \in Proc \ {initproc} :
       state[q] \notin {"UNUSED", "USED"} => parent[q] # NoProc

\* A live process is marked killed only if kill() was called with its pid.
KillHitsTarget ==
  \A p \in Proc : state[p] # "UNUSED" /\ killed[p] => pid[p] \in asked

\* The states of a slot follow one another as enum procstate intends: a slot
\* is set up, becomes runnable, is run, sleeps or yields, exits on a hart, is
\* reaped; nothing else, whoever writes p->state (kill, wakeup, exit, fork and
\* the scheduler all do).
StateOrder ==
  [][\A p \in Proc :
       state'[p] # state[p] =>
         <<state[p], state'[p]>> \in
           {<<"UNUSED", "USED">>, <<"USED", "RUNNABLE">>,
            <<"RUNNABLE", "RUNNING">>, <<"RUNNING", "RUNNABLE">>,
            <<"RUNNING", "SLEEPING">>, <<"SLEEPING", "RUNNABLE">>,
            <<"RUNNING", "ZOMBIE">>, <<"ZOMBIE", "UNUSED">>}]_vars

\* init reaps: a zombie that is init's child, its own or an orphan that
\* reparent passed on, is freed in the end.
OrphanReaped(q) ==
  state[q] = "ZOMBIE" /\ parent[q] = initproc ~> state[q] = "UNUSED"

\* kill works: a killed process exits, unless the kill came after wait()'s
\* last look at p->killed and before its sleep().
KilledExits(p) ==
  killed[p] /\ state[p] \in {"RUNNABLE", "RUNNING"} /\ pc[p] # "wait_sleep"
    ~> state[p] \in {"ZOMBIE", "UNUSED"}
====
