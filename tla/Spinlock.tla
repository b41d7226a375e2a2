------------------------------ MODULE Spinlock ------------------------------
(***************************************************************************)
(* Spinlocks, interrupt nesting and thread switching: kernel/spinlock.c,    *)
(* sched() and scheduler() of kernel/proc.c, the interrupt sides of         *)
(* kernel/trap.c.                                                          *)
(*                                                                         *)
(* Every hart runs either its scheduler loop or one kernel thread, and any  *)
(* of them may be interrupted by a device or timer handler when sstatus.SIE *)
(* is set.  acquire() and release() are split at every point where another  *)
(* hart can see a difference: push_off, the atomic swap, the store to       *)
(* lk->cpu; and the store that clears lk->cpu, the one that clears          *)
(* lk->locked, pop_off.  What the threads do between lock operations is     *)
(* left open, except that they take locks in the order Rank.               *)
(*                                                                         *)
(* A thread's own p->lock is identified with the thread.                   *)
(***************************************************************************)
EXTENDS Naturals, FiniteSets

CONSTANTS
  CPU,        \* the harts
  Thread,     \* the kernel threads, one per process; also their p->lock
  Lock,       \* every other spinlock
  Rank,       \* the order in which nested locks are taken
  Scheduler,  \* "this hart is running scheduler()"
  NoCPU,      \* lk->cpu == 0
  NoLock      \* the hart is in no acquire or release

AllLocks == Lock \cup Thread

ASSUME SpinlockAssumption ==
  /\ IsFiniteSet(AllLocks)
  /\ Lock \cap Thread = {}
  /\ Scheduler \notin Thread
  /\ NoCPU \notin CPU
  /\ NoLock \notin AllLocks
  /\ Rank \in [AllLocks -> Nat]

VARIABLES
  locked,  \* lk->locked
  lkcpu,   \* lk->cpu
  noff,    \* mycpu()->noff, depth of push_off nesting
  intena,  \* mycpu()->intena, were interrupts enabled before push_off
  sie,     \* sstatus.SIE of the hart
  run,     \* the thread the hart executes, or Scheduler
  inintr,  \* is the hart inside an interrupt handler (kerneltrap)
  kmode,   \* where a thread is: "start" (forkret), "trap" (usertrap before
           \* intr_on) or "sys" (after intr_on, in syscall)
  saved,   \* what a switched-out thread keeps on its kernel stack
  pc, arg, \* progress of the hart's current acquire or release
  held,    \* the locks the hart's code has taken and not yet given back
  below,   \* the locks the interrupted code held when a handler started
  panicked \* some panic() was reached

vars == <<locked, lkcpu, noff, intena, sie, run, inintr, kmode, saved,
          pc, arg, held, below, panicked>>
lockVars == <<locked, lkcpu>>
threadVars == <<run, inintr, kmode, saved, below>>

Modes == {"start", "trap", "sys"}
Saved == [intena: BOOLEAN, inintr: BOOLEAN, started: BOOLEAN]

TypeOK ==
  /\ locked \in [AllLocks -> BOOLEAN]
  /\ lkcpu \in [AllLocks -> CPU \cup {NoCPU}]
  /\ noff \in [CPU -> Nat]
  /\ intena \in [CPU -> BOOLEAN]
  /\ sie \in [CPU -> BOOLEAN]
  /\ run \in [CPU -> Thread \cup {Scheduler}]
  /\ inintr \in [CPU -> BOOLEAN]
  /\ kmode \in [Thread -> Modes]
  /\ saved \in [Thread -> Saved]
  /\ pc \in [CPU -> {"run", "spin", "owned", "cleared", "pop"}]
  /\ arg \in [CPU -> AllLocks \cup {NoLock}]
  /\ held \in [CPU -> SUBSET AllLocks]
  /\ below \in [CPU -> SUBSET AllLocks]
  /\ panicked \in BOOLEAN

\* initlock() for every lock; every hart in scheduler() with interrupts off
\* (main runs with SIE clear); every thread set up by allocproc to start in
\* forkret.
Init ==
  /\ locked = [l \in AllLocks |-> FALSE]
  /\ lkcpu = [l \in AllLocks |-> NoCPU]
  /\ noff = [c \in CPU |-> 0]
  /\ intena = [c \in CPU |-> FALSE]
  /\ sie = [c \in CPU |-> FALSE]
  /\ run = [c \in CPU |-> Scheduler]
  /\ inintr = [c \in CPU |-> FALSE]
  /\ kmode = [t \in Thread |-> "start"]
  /\ saved = [t \in Thread |->
                [intena |-> FALSE, inintr |-> FALSE, started |-> FALSE]]
  /\ pc = [c \in CPU |-> "run"]
  /\ arg = [c \in CPU |-> NoLock]
  /\ held = [c \in CPU |-> {}]
  /\ below = [c \in CPU |-> {}]
  /\ panicked = FALSE

----------------------------------------------------------------------------

\* Mutant: the loop of acquire() ignores what the exchange returned.
Exchanged_Ignored(c) == TRUE

holding(c, l) == locked[l] /\ lkcpu[l] = c

\* The atomic exchange returned 0: the lock was free.
Exchanged(c) == ~locked[arg[c]]

\* push_off: remember SIE at the outermost level, clear it, nest.
push_off(c) ==
  /\ intena' = IF noff[c] = 0 THEN [intena EXCEPT ![c] = sie[c]] ELSE intena
  /\ sie' = [sie EXCEPT ![c] = FALSE]
  /\ noff' = [noff EXCEPT ![c] = @ + 1]

\* pop_off after its two sanity checks.
pop_off(c) ==
  /\ noff' = [noff EXCEPT ![c] = @ - 1]
  /\ sie' = [sie EXCEPT ![c] = IF noff[c] = 1 THEN intena[c] ELSE @]

\* The locks the code that is now executing on c has taken itself: a handler
\* does not know what the code it interrupted holds.
Mine(c) == held[c] \ below[c]

\* acquire(), first part: push_off, then the self-deadlock check.
Acquire(c, l) ==
  /\ pc[c] = "run"
  /\ l \notin Mine(c)
  /\ \A h \in Mine(c) : Rank[h] < Rank[l]
  /\ push_off(c)
  /\ panicked' = holding(c, l)
  /\ pc' = [pc EXCEPT ![c] = "spin"]
  /\ arg' = [arg EXCEPT ![c] = l]
  /\ UNCHANGED <<lockVars, threadVars, held>>

\* The atomic swap that finds lk->locked clear.
Swap(c) ==
  /\ pc[c] = "spin"
  /\ Exchanged(c)
  /\ locked' = [locked EXCEPT ![arg[c]] = TRUE]
  /\ held' = [held EXCEPT ![c] = @ \cup {arg[c]}]
  /\ pc' = [pc EXCEPT ![c] = "owned"]
  /\ UNCHANGED <<lkcpu, noff, intena, sie, threadVars, arg, panicked>>

\* lk->cpu = mycpu(): acquire() returns.
SetCPU(c) ==
  /\ pc[c] = "owned"
  /\ lkcpu' = [lkcpu EXCEPT ![arg[c]] = c]
  /\ pc' = [pc EXCEPT ![c] = "run"]
  /\ arg' = [arg EXCEPT ![c] = NoLock]
  /\ UNCHANGED <<locked, noff, intena, sie, threadVars, held, panicked>>

\* release(), first part: the holding() check and lk->cpu = 0.
Release(c, l) ==
  /\ pc[c] = "run"
  /\ l \in Mine(c)
  /\ panicked' = ~holding(c, l)
  /\ lkcpu' = [lkcpu EXCEPT ![l] = NoCPU]
  /\ pc' = [pc EXCEPT ![c] = "cleared"]
  /\ arg' = [arg EXCEPT ![c] = l]
  /\ UNCHANGED <<locked, noff, intena, sie, threadVars, held>>

\* The store that clears lk->locked.
Unlock(c) ==
  /\ pc[c] = "cleared"
  /\ locked' = [locked EXCEPT ![arg[c]] = FALSE]
  /\ held' = [held EXCEPT ![c] = @ \ {arg[c]}]
  /\ pc' = [pc EXCEPT ![c] = "pop"]
  /\ arg' = [arg EXCEPT ![c] = NoLock]
  /\ UNCHANGED <<lkcpu, noff, intena, sie, threadVars, panicked>>

\* pop_off(): release() returns.
PopOff(c) ==
  /\ pc[c] = "pop"
  /\ panicked' = (sie[c] \/ noff[c] < 1)
  /\ pop_off(c)
  /\ pc' = [pc EXCEPT ![c] = "run"]
  /\ UNCHANGED <<lockVars, intena, threadVars, arg, held>>

----------------------------------------------------------------------------

\* A device or timer interrupt: the hart clears SIE and enters kerneltrap.
\* Nothing prevents it but SIE, which is clear during acquire and release
\* and in handlers (InterruptsOff), so the two other guards exclude nothing.
Interrupt(c) ==
  /\ sie[c]
  /\ pc[c] = "run"
  /\ ~inintr[c]
  /\ sie' = [sie EXCEPT ![c] = FALSE]
  /\ inintr' = [inintr EXCEPT ![c] = TRUE]
  /\ below' = [below EXCEPT ![c] = held[c]]
  /\ UNCHANGED <<lockVars, noff, intena, run, kmode, saved, pc, arg, held,
                 panicked>>

\* kerneltrap returns through kernelvec's sret, which sets SIE again.
InterruptReturn(c) ==
  /\ inintr[c]
  /\ pc[c] = "run"
  /\ Mine(c) = {}
  /\ sie' = [sie EXCEPT ![c] = TRUE]
  /\ inintr' = [inintr EXCEPT ![c] = FALSE]
  /\ below' = [below EXCEPT ![c] = {}]
  /\ UNCHANGED <<lockVars, noff, intena, run, kmode, saved, pc, arg, held,
                 panicked>>

\* The hart's thread, when it executes thread code proper.
InThread(c) ==
  run[c] \in Thread /\ ~inintr[c] /\ pc[c] = "run" /\ held[c] = {}

\* The thread goes through prepare_return (or the end of forkret) to user
\* space and comes back by a trap, which enters usertrap with SIE clear.
UserReturnAndTrap(c) ==
  /\ InThread(c)
  /\ kmode' = [kmode EXCEPT ![run[c]] = "trap"]
  /\ sie' = [sie EXCEPT ![c] = FALSE]
  /\ UNCHANGED <<lockVars, noff, intena, run, inintr, saved, pc, arg, held,
                 below, panicked>>

\* usertrap's intr_on() on the system call path.
SyscallIntrOn(c) ==
  /\ InThread(c)
  /\ kmode[run[c]] = "trap"
  /\ kmode' = [kmode EXCEPT ![run[c]] = "sys"]
  /\ sie' = [sie EXCEPT ![c] = TRUE]
  /\ UNCHANGED <<lockVars, noff, intena, run, inintr, saved, pc, arg, held,
                 below, panicked>>

\* sched(), called by sleep, yield and exit with only p->lock taken: the
\* checks, the save of intena, and swtch to the scheduler of this hart.
sched(c) ==
  LET t == run[c] IN
  /\ run[c] \in Thread
  /\ pc[c] = "run"
  /\ Mine(c) = {t}
  /\ panicked' = (~holding(c, t) \/ noff[c] # 1 \/ sie[c])
  /\ saved' = [saved EXCEPT ![t] = [intena |-> intena[c],
                                    inintr |-> inintr[c],
                                    started |-> TRUE]]
  /\ run' = [run EXCEPT ![c] = Scheduler]
  /\ inintr' = [inintr EXCEPT ![c] = FALSE]
  /\ UNCHANGED <<lockVars, noff, intena, sie, kmode, pc, arg, held, below>>

\* Mutant: sched() leaves the intena of whoever ran last on the hart.
RestoreIntena_Dropped(c, t) == UNCHANGED intena

\* The assignment after swtch in sched(); forkret has none.
RestoreIntena(c, t) ==
  intena' = IF saved[t].started
            THEN [intena EXCEPT ![c] = saved[t].intena]
            ELSE intena

\* scheduler(): with p->lock held, swtch to a thread that runs nowhere.  The
\* thread comes out of swtch in sched() or, the first time, in forkret.
Swtch(c, t) ==
  /\ run[c] = Scheduler
  /\ ~inintr[c]
  /\ pc[c] = "run"
  /\ Mine(c) = {t}
  /\ \A d \in CPU : run[d] # t
  /\ run' = [run EXCEPT ![c] = t]
  /\ RestoreIntena(c, t)
  /\ inintr' = [inintr EXCEPT ![c] = saved[t].inintr]
  /\ UNCHANGED <<lockVars, noff, sie, kmode, saved, pc, arg, held, below,
                 panicked>>

\* The top of scheduler()'s loop: intr_on(), and intr_off() at once.
SchedIntrOn(c) ==
  /\ run[c] = Scheduler
  /\ ~inintr[c]
  /\ pc[c] = "run"
  /\ held[c] = {}
  /\ sie' = [sie EXCEPT ![c] = TRUE]
  /\ UNCHANGED <<lockVars, noff, intena, threadVars, pc, arg, held, panicked>>

SchedIntrOff(c) ==
  /\ run[c] = Scheduler
  /\ ~inintr[c]
  /\ pc[c] = "run"
  /\ held[c] = {}
  /\ sie' = [sie EXCEPT ![c] = FALSE]
  /\ UNCHANGED <<lockVars, noff, intena, threadVars, pc, arg, held, panicked>>

Step(c) ==
  \/ \E l \in AllLocks : Acquire(c, l) \/ Release(c, l)
  \/ Swap(c) \/ SetCPU(c) \/ Unlock(c) \/ PopOff(c)
  \/ Interrupt(c) \/ InterruptReturn(c)
  \/ UserReturnAndTrap(c) \/ SyscallIntrOn(c)
  \/ sched(c) \/ \E t \in Thread : Swtch(c, t)
  \/ SchedIntrOn(c) \/ SchedIntrOff(c)

\* A panic stops the machine.
Next == ~panicked /\ \E c \in CPU : Step(c)

Spec == Init /\ [][Next]_vars

----------------------------------------------------------------------------

\* Mutual exclusion, which acquire() gives every critical section of the
\* kernel: no lock is held on two harts, and what holding() computes from
\* lk->locked and lk->cpu, unlocked and against the other harts' updates,
\* is right: it never claims a lock for a hart that does not have it, and
\* it recognises a lock once acquire() has returned.
MutualExclusion ==
  /\ \A c, d \in CPU : c # d => held[c] \cap held[d] = {}
  /\ \A c \in CPU, l \in AllLocks :
       /\ holding(c, l) => l \in held[c]
       /\ pc[c] = "run" /\ l \in held[c] => holding(c, l)

\* Interrupts are off on a hart while it holds, waits for or gives back a
\* lock and while it handles an interrupt; so a handler never runs on top
\* of code that holds a lock it might want (push_off in acquire).
InterruptsOff ==
  \A c \in CPU :
    /\ held[c] # {} \/ pc[c] # "run" \/ inintr[c] => ~sie[c]
    /\ below[c] = {}

\* push_off and pop_off are matched and intena belongs to the thread, not
\* the hart: once a thread has given back its locks, whatever it nested and
\* whichever harts it slept and woke on, interrupts are on in system call
\* code, off before usertrap's intr_on, and off in a handler.
InterruptsRestored ==
  \A c \in CPU :
    run[c] \in Thread /\ pc[c] = "run" /\ held[c] = {} =>
      /\ inintr[c] => ~sie[c]
      /\ ~inintr[c] /\ kmode[run[c]] = "sys" => sie[c]
      /\ ~inintr[c] /\ kmode[run[c]] = "trap" => ~sie[c]

\* No panic of acquire, release, pop_off or sched is reached: no hart spins
\* on a lock it holds, none releases another's, every sched() is called
\* with exactly one push_off outstanding and interrupts off.
NoPanic == ~panicked
====
