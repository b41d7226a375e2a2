----------------------------- MODULE ProcProofs -----------------------------
(***************************************************************************)
(* The safety of exit, wait, sleep, wakeup and the scheduler, for any       *)
(* number of slots and harts and any sequence of system calls.              *)
(***************************************************************************)
EXTENDS Proc, TLAPS

HoldsWaitLock ==
  {"exit_reparent", "exit_wakeup", "exit_zombie", "wait_scan", "wait_sleep"}
InFork == {"fork_made", "fork_spin", "fork_run"}
InExit == {"exit_spin", "exit_reparent", "exit_wakeup", "exit_zombie", "dead"}

\* wait_lock is held at these places and nowhere else, by a process on a hart.
WaitLockInv ==
  \A p \in Proc :
    /\ pc[p] \in HoldsWaitLock <=> wait_lock = p
    /\ pc[p] \in HoldsWaitLock \cup Spinning => state[p] = "RUNNING"

\* How p->state, p->chan and the place of p in the kernel go together.
PlaceInv ==
  \A p \in Proc :
    /\ state[p] \in {"UNUSED", "USED"} => pc[p] = "user"
    /\ state[p] = "ZOMBIE" <=> pc[p] = "dead"
    /\ state[p] = "SLEEPING" => chan[p] = p
    /\ chan[p] # NoProc => chan[p] = p /\ state[p] \in {"SLEEPING", "RUNNABLE"}
    /\ chan[p] # NoProc => pc[p] = "wait_woken"
    /\ pc[p] \in InExit => p # initproc

\* Who uses whose kernel stack.
StackInv ==
  /\ \A c, d \in CPU : cur[c] = cur[d] /\ cur[c] # NoProc => c = d
  /\ \A c \in CPU, p \in Proc :
       cur[c] = p => state[p] = "RUNNING" \/ plock[p]
  /\ \A p \in Proc :
       /\ state[p] = "RUNNING" => ~plock[p] /\ \E c \in CPU : cur[c] = p
       /\ plock[p] => /\ state[p] \in {"RUNNABLE", "SLEEPING", "ZOMBIE"}
                      /\ \E c \in CPU : cur[c] = p

\* The slots that fork is setting up.
ForkInv ==
  /\ \A p \in Proc :
       /\ pc[p] \in InFork <=> np[p] # NoProc
       /\ np[p] # NoProc => state[np[p]] = "USED"
       /\ pc[p] \in {"fork_made", "fork_spin"} => parent[np[p]] = NoProc
       /\ pc[p] = "fork_run" => parent[np[p]] = p
  /\ \A p, q \in Proc : np[p] = np[q] /\ np[p] # NoProc => p = q
  /\ \A q \in Proc : state[q] = "USED" => \E p \in Proc : np[p] = q

\* The family tree.
FamilyInv ==
  /\ state[initproc] \notin {"UNUSED", "USED"} /\ parent[initproc] = NoProc
  /\ \A q \in Proc :
       /\ state[q] = "UNUSED" => parent[q] = NoProc
       /\ parent[q] # q
  /\ \A p, q \in Proc :
       parent[q] = p => /\ state[p] \in {"RUNNABLE", "RUNNING", "SLEEPING"}
                        /\ pc[p] \notin {"exit_wakeup", "exit_zombie", "dead"}
  /\ \A q \in Proc \ {initproc} :
       state[q] \notin {"UNUSED", "USED"} => parent[q] # NoProc

\* A process in wait() is about to sleep, or asleep, only while it has
\* children, none of them a zombie or past waking its parent.
WaitInv ==
  \A p \in Proc :
    pc[p] = "wait_sleep" \/ state[p] = "SLEEPING" =>
      /\ \E q \in Proc : parent[q] = p
      /\ \A q \in Proc : parent[q] = p =>
           state[q] # "ZOMBIE" /\ pc[q] # "exit_zombie"

IInv ==
  TypeOK /\ WaitLockInv /\ PlaceInv /\ StackInv /\ ForkInv /\ FamilyInv /\ WaitInv

----------------------------------------------------------------------------

\* The invariant holds after procinit and userinit.
LEMMA InitIInv == Init => IInv
BY ProcAssumption, SMTT(30) DEF Init, IInv, TypeOK, States, PCs, WaitLockInv,
   PlaceInv, StackInv, ForkInv, FamilyInv, WaitInv, HoldsWaitLock, InFork,
   InExit, Spinning

\* Every step keeps the invariant.
LEMMA StepIInv == IInv /\ [Next]_vars => IInv'
<1> SUFFICES ASSUME IInv, [Next]_vars PROVE IInv'
  OBVIOUS
<1> USE ProcAssumption DEF IInv, HoldsWaitLock, InFork, InExit, Spinning
<1>1. ASSUME NEW c \in CPU, NEW p \in Proc, Schedule(c, p) PROVE IInv'
  <2>1. PlaceInv'
    BY <1>1 DEF TypeOK, PlaceInv, Schedule, CanSchedule
  <2>2. StackInv'
    BY <1>1 DEF TypeOK, StackInv, Schedule, CanSchedule
  <2>3. WaitLockInv'
    BY <1>1 DEF WaitLockInv, Schedule
  <2>4. TypeOK' /\ ForkInv' /\ FamilyInv' /\ WaitInv'
    BY <1>1 DEF TypeOK, ForkInv, FamilyInv, WaitInv, States, Schedule,
       CanSchedule
  <2> QED BY <2>1, <2>2, <2>3, <2>4
<1>2. ASSUME NEW c \in CPU, SchedOut(c) PROVE IInv'
  <2>1. StackInv'
    BY <1>2 DEF TypeOK, StackInv, SchedOut
  <2>2. TypeOK' /\ WaitLockInv' /\ PlaceInv' /\ ForkInv' /\ FamilyInv' /\
        WaitInv'
    BY <1>2 DEF TypeOK, WaitLockInv, PlaceInv, ForkInv, FamilyInv, WaitInv,
       SchedOut
  <2> QED BY <2>1, <2>2
<1>3. ASSUME NEW p \in Proc, yield(p) PROVE IInv'
  <2>1. WaitLockInv'
    BY <1>3 DEF WaitLockInv, yield
  <2>2. StackInv'
    BY <1>3 DEF TypeOK, StackInv, yield, Runs
  <2>3. TypeOK' /\ PlaceInv' /\ ForkInv' /\ FamilyInv' /\ WaitInv'
    BY <1>3 DEF TypeOK, PlaceInv, ForkInv, FamilyInv, WaitInv, States, yield,
       Runs
  <2> QED BY <2>1, <2>2, <2>3
<1>4. ASSUME NEW p \in Proc, NEW q \in Proc, kfork(p, q) PROVE IInv'
  <2>1. TypeOK'
    BY <1>4 DEF TypeOK, States, PCs, kfork, Goto
  <2>2. ForkInv'
    BY <1>4, SMTT(30) DEF TypeOK, ForkInv, FamilyInv, kfork, Syscall, At, Goto
  <2>3. FamilyInv'
    BY <1>4, SMTT(30) DEF FamilyInv, kfork, Goto
  <2>4. WaitLockInv' /\ PlaceInv' /\ StackInv' /\ WaitInv'
    BY <1>4 DEF WaitLockInv, PlaceInv, StackInv, WaitInv, kfork, Syscall, At,
       Runs, Goto
  <2> QED BY <2>1, <2>2, <2>3, <2>4
<1>5. ASSUME NEW p \in Proc, NEW q \in Proc, kfork_NoMemory(p, q) PROVE IInv'
  <2>1. TypeOK' /\ WaitLockInv' /\ PlaceInv' /\ StackInv' /\ ForkInv' /\
        FamilyInv' /\ WaitInv'
    BY <1>5 DEF TypeOK, WaitLockInv, PlaceInv, StackInv, ForkInv, FamilyInv,
       WaitInv, kfork_NoMemory
  <2> QED BY <2>1
<1>6. ASSUME NEW p \in Proc, kfork_acquire(p) PROVE IInv'
  <2>1. TypeOK' /\ WaitLockInv' /\ PlaceInv' /\ StackInv' /\ ForkInv' /\
        FamilyInv' /\ WaitInv'
    BY <1>6 DEF TypeOK, WaitLockInv, PlaceInv, StackInv, ForkInv, FamilyInv,
       WaitInv, PCs, kfork_acquire, At, Runs, Goto
  <2> QED BY <2>1, SMTT(30)
<1>7. ASSUME NEW p \in Proc, kfork_parent(p) PROVE IInv'
  <2>1. ForkInv'
    BY <1>7 DEF TypeOK, ForkInv, kfork_parent, At, Goto
  <2>2. FamilyInv'
    BY <1>7 DEF ForkInv, FamilyInv, kfork_parent, At, Runs, Goto
  <2>3. WaitInv'
    BY <1>7 DEF ForkInv, WaitInv, kfork_parent, At, Runs, Goto
  <2>4. TypeOK' /\ WaitLockInv' /\ PlaceInv' /\ StackInv'
    BY <1>7 DEF TypeOK, WaitLockInv, PlaceInv, StackInv, ForkInv, PCs,
       kfork_parent, At, Goto
  <2> QED BY <2>1, <2>2, <2>3, <2>4
<1>8. ASSUME NEW p \in Proc, kfork_run(p) PROVE IInv'
  <2>1. TypeOK'
    BY <1>8 DEF TypeOK, ForkInv, States, PCs, kfork_run, At, Goto
  <2>2. ForkInv'
    BY <1>8, SMTT(30) DEF TypeOK, ForkInv, kfork_run, Goto
  <2>3. FamilyInv'
    BY <1>8, SMTT(30) DEF ForkInv, FamilyInv, kfork_run, At, Goto
  <2>4. WaitLockInv' /\ PlaceInv' /\ StackInv' /\ WaitInv'
    BY <1>8 DEF WaitLockInv, PlaceInv, StackInv, ForkInv, WaitInv, kfork_run,
       At, Goto
  <2> QED BY <2>1, <2>2, <2>3, <2>4
<1>9. ASSUME NEW p \in Proc, kexit(p) PROVE IInv'
  <2>1. PlaceInv'
    BY <1>9, SMTT(30) DEF PlaceInv, kexit, At, Runs, Goto
  <2>2. TypeOK' /\ WaitLockInv' /\ StackInv' /\ ForkInv' /\ FamilyInv' /\
        WaitInv'
    BY <1>9 DEF TypeOK, WaitLockInv, StackInv, ForkInv, FamilyInv, WaitInv,
       PCs, kexit, At, Runs, Goto
  <2> QED BY <2>1, <2>2
<1>10. ASSUME NEW p \in Proc, kexit_acquire(p) PROVE IInv'
  <2>1. WaitLockInv'
    BY <1>10, SMTT(30) DEF TypeOK, WaitLockInv, kexit_acquire, At, Goto
  <2>2. TypeOK' /\ PlaceInv' /\ StackInv' /\ ForkInv' /\ FamilyInv' /\
        WaitInv'
    BY <1>10 DEF TypeOK, PlaceInv, StackInv, ForkInv, FamilyInv, WaitInv, PCs,
       kexit_acquire, At, Goto
  <2> QED BY <2>1, <2>2
<1>11. ASSUME NEW p \in Proc, reparent(p) PROVE IInv'
  <2>1. WaitLockInv'
    BY <1>11 DEF WaitLockInv, reparent, At, Goto, wakeup, Sleepers
  <2>2. StackInv'
    BY <1>11, SMTT(30) DEF StackInv, reparent, wakeup, Sleepers
  <2>3. ForkInv'
    BY <1>11, SMTT(30) DEF TypeOK, WaitLockInv, PlaceInv, StackInv, ForkInv,
       reparent, At, Runs, Goto, Children, wakeup, Sleepers
  <2>4. FamilyInv'
    <3>1. \A r \in Proc : \/ state'[r] = state[r]
                          \/ state[r] = "SLEEPING" /\ state'[r] = "RUNNABLE"
      <4>1. CASE Children(p) = {}
        BY <1>11, <4>1, SMTT(30) DEF reparent
      <4>2. CASE Children(p) # {}
        BY <1>11 DEF reparent, wakeup, Sleepers
      <4> QED BY <4>1, <4>2, SMTT(30)
    <3>2. /\ parent' = [q \in Proc |->
                        IF parent[q] = p THEN initproc ELSE parent[q]]
          /\ pc' = [pc EXCEPT ![p] = "exit_wakeup"]
          /\ p # initproc
      BY <1>11 DEF reparent, At, Goto, Children, PlaceInv
    <3>3. state[initproc] \in {"RUNNABLE", "RUNNING", "SLEEPING"}
      BY SMTT(30) DEF TypeOK, States, PlaceInv, FamilyInv
    <3> QED BY <3>1, <3>2, <3>3 DEF PlaceInv, FamilyInv
  <2>5. WaitInv'
    BY <1>11 DEF WaitLockInv, PlaceInv, WaitInv, reparent, At, Goto, Children,
       wakeup, Sleepers
  <2>6. TypeOK' /\ PlaceInv'
    BY <1>11 DEF TypeOK, PlaceInv, States, PCs, reparent, At, Goto, wakeup,
       Sleepers
  <2> QED BY <2>1, <2>2, <2>3, <2>4, <2>5, <2>6, SMTT(30)
<1>12. ASSUME NEW p \in Proc, kexit_wakeup(p) PROVE IInv'
  <2>1. WaitLockInv'
    BY <1>12, SMTT(30) DEF WaitLockInv, kexit_wakeup, At, Goto, wakeup,
       Sleepers
  <2>2. StackInv'
    BY <1>12 DEF StackInv, kexit_wakeup, wakeup, Sleepers
  <2>3. FamilyInv'
    BY <1>12 DEF FamilyInv, kexit_wakeup, At, Goto, wakeup, Sleepers
  <2>4. WaitInv'
    BY <1>12, SMTT(30) DEF WaitLockInv, PlaceInv, WaitInv, kexit_wakeup, At,
       Goto, wakeup, Sleepers
  <2>5. TypeOK' /\ PlaceInv' /\ ForkInv'
    BY <1>12 DEF TypeOK, PlaceInv, ForkInv, States, PCs, kexit_wakeup, At,
       Goto, wakeup, Sleepers
  <2> QED BY <2>1, <2>2, <2>3, <2>4, <2>5, SMTT(30)
<1>13. ASSUME NEW p \in Proc, kexit_zombie(p) PROVE IInv'
  <2>1. WaitLockInv'
    BY <1>13 DEF TypeOK, WaitLockInv, kexit_zombie, At, Goto
  <2>2. PlaceInv'
    BY <1>13 DEF TypeOK, PlaceInv, kexit_zombie, At, Goto
  <2>3. StackInv'
    BY <1>13, SMTT(30) DEF TypeOK, StackInv, kexit_zombie, At, Runs
  <2>4. FamilyInv'
    BY <1>13 DEF FamilyInv, kexit_zombie, At, Runs, Goto
  <2>5. WaitInv'
    BY <1>13, SMTT(30) DEF WaitInv, kexit_zombie, At, Goto
  <2>6. TypeOK' /\ ForkInv'
    BY <1>13, SMTT(30) DEF TypeOK, ForkInv, States, PCs, kexit_zombie, At,
       Runs, Goto
  <2> QED BY <2>1, <2>2, <2>3, <2>4, <2>5, <2>6
<1>14. ASSUME NEW p \in Proc, kwait(p) PROVE IInv'
  <2>1. TypeOK' /\ WaitLockInv' /\ PlaceInv' /\ StackInv' /\ ForkInv' /\
        FamilyInv' /\ WaitInv'
    BY <1>14, SMTT(30) DEF TypeOK, WaitLockInv, PlaceInv, StackInv, ForkInv,
       FamilyInv, WaitInv, PCs, kwait, Syscall, At, Runs, Goto
  <2> QED BY <2>1
<1>15. ASSUME NEW p \in Proc, kwait_woken(p) PROVE IInv'
  <2>1. TypeOK' /\ WaitLockInv' /\ PlaceInv' /\ StackInv' /\ ForkInv' /\
        FamilyInv' /\ WaitInv'
    BY <1>15 DEF TypeOK, WaitLockInv, PlaceInv, StackInv, ForkInv, FamilyInv,
       WaitInv, PCs, kwait_woken, At, Runs, Goto
  <2> QED BY <2>1
<1>16. ASSUME NEW p \in Proc, kwait_acquire(p) PROVE IInv'
  <2>1. WaitLockInv'
    BY <1>16, SMTT(30) DEF TypeOK, WaitLockInv, kwait_acquire, At, Goto
  <2>2. TypeOK' /\ PlaceInv' /\ StackInv' /\ ForkInv' /\ FamilyInv' /\
        WaitInv'
    BY <1>16 DEF TypeOK, PlaceInv, StackInv, ForkInv, FamilyInv, WaitInv, PCs,
       kwait_acquire, At, Goto
  <2> QED BY <2>1, <2>2
<1>17. ASSUME NEW p \in Proc, NEW q \in Proc, kwait_reap(p, q) PROVE IInv'
  <2>1. TypeOK'
    BY <1>17 DEF TypeOK, WaitLockInv, States, PCs, kwait_reap, freeproc
  <2>2. PlaceInv'
    BY <1>17, SMTT(30) DEF TypeOK, PlaceInv, kwait_reap, At, freeproc
  <2>3. StackInv'
    BY <1>17, SMTT(30) DEF StackInv, kwait_reap, Exited, freeproc
  <2>4. ForkInv'
    BY <1>17 DEF TypeOK, PlaceInv, ForkInv, kwait_reap, At, Exited, freeproc
  <2>5. FamilyInv'
    BY <1>17 DEF TypeOK, FamilyInv, kwait_reap, Children, Exited, freeproc
  <2>6. WaitInv'
    BY <1>17 DEF TypeOK, WaitInv, kwait_reap, Exited, freeproc
  <2>7. WaitLockInv'
    BY <1>17 DEF TypeOK, WaitLockInv, kwait_reap, At, freeproc
  <2> QED BY <2>1, <2>2, <2>3, <2>4, <2>5, <2>6, <2>7, SMTT(30)
<1>18. ASSUME NEW p \in Proc, NEW q \in Proc, kwait_BadAddress(p, q) PROVE
      IInv'
  <2>1. WaitLockInv'
    BY <1>18, SMTT(30) DEF TypeOK, WaitLockInv, kwait_BadAddress, At, Goto
  <2>2. TypeOK' /\ PlaceInv' /\ StackInv' /\ ForkInv' /\ FamilyInv' /\
        WaitInv'
    BY <1>18 DEF TypeOK, PlaceInv, StackInv, ForkInv, FamilyInv, WaitInv, PCs,
       kwait_BadAddress, At, Goto
  <2> QED BY <2>1, <2>2
<1>19. ASSUME NEW p \in Proc, kwait_NoZombie(p) PROVE IInv'
  <2>1. WaitLockInv'
    BY <1>19 DEF TypeOK, WaitLockInv, kwait_NoZombie, At, Goto
  <2>2. WaitInv'
    BY <1>19, SMTT(30) DEF TypeOK, WaitLockInv, WaitInv, kwait_NoZombie, At,
       Goto, Children, GivesUp
  <2>3. TypeOK' /\ PlaceInv' /\ StackInv' /\ ForkInv' /\ FamilyInv'
    BY <1>19, SMTT(30) DEF TypeOK, PlaceInv, StackInv, ForkInv, FamilyInv, PCs,
       kwait_NoZombie, At, Goto
  <2> QED BY <2>1, <2>2, <2>3
<1>20. ASSUME NEW p \in Proc, kwait_sleep(p) PROVE IInv'
  <2>1. WaitLockInv'
    BY <1>20 DEF TypeOK, WaitLockInv, kwait_sleep, At, Goto
  <2>2. PlaceInv'
    BY <1>20 DEF TypeOK, PlaceInv, kwait_sleep, Goto
  <2>3. StackInv'
    BY <1>20, SMTT(30) DEF TypeOK, StackInv, kwait_sleep, At, Runs
  <2>4. WaitInv'
    BY <1>20, SMTT(30) DEF TypeOK, WaitInv, WaitLockInv, kwait_sleep, At, Goto
  <2>5. TypeOK' /\ ForkInv' /\ FamilyInv'
    BY <1>20 DEF TypeOK, ForkInv, FamilyInv, States, PCs, kwait_sleep, At,
       Runs, Goto
  <2> QED BY <2>1, <2>2, <2>3, <2>4, <2>5
<1>21. ASSUME NEW p \in Proc, NEW n \in KillPids, NEW q \in Proc, kkill(p, n, q)
       PROVE  IInv'
  <2>0. \A r \in Proc :
          \/ state'[r] = state[r]
          \/ state[r] = "SLEEPING" /\ state'[r] = "RUNNABLE"
    <3>1. state' = [state EXCEPT ![q] = KilledState(q)]
      BY <1>21 DEF kkill
    <3>2. \/ KilledState(q) = state[q]
          \/ state[q] = "SLEEPING" /\ KilledState(q) = "RUNNABLE"
      BY DEF KilledState
    <3>3. state \in [Proc -> States]
      BY DEF TypeOK
    <3>4. QED BY <3>1, <3>2, <3>3
  <2>1. TypeOK'
    BY <1>21, SMTT(30) DEF TypeOK, States, kkill, KilledState
  <2>2. StackInv'
    BY <1>21, <2>0, SMTT(30) DEF StackInv, kkill
  <2>3. WaitInv'
    BY <1>21, <2>0, SMTT(30) DEF WaitInv, kkill
  <2>4. WaitLockInv'
    BY <1>21, <2>0, SMTT(30) DEF WaitLockInv, kkill
  <2>5. PlaceInv'
    BY <1>21, <2>0, SMTT(30) DEF PlaceInv, kkill
  <2>6. ForkInv'
    BY <1>21, <2>0, SMTT(30) DEF ForkInv, kkill
  <2>7. FamilyInv'
    BY <1>21, <2>0, SMTT(30) DEF FamilyInv, kkill
  <2> QED BY <2>1, <2>2, <2>3, <2>4, <2>5, <2>6, <2>7
<1>22. CASE UNCHANGED vars
  BY <1>22 DEF vars, TypeOK, WaitLockInv, PlaceInv, StackInv, ForkInv,
     FamilyInv, WaitInv
<1> QED
  BY <1>1, <1>2, <1>3, <1>4, <1>5, <1>6, <1>7, <1>8, <1>9, <1>10, <1>11,
     <1>12, <1>13, <1>14, <1>15, <1>16, <1>17, <1>18, <1>19, <1>20, <1>21,
     <1>22 DEF Next, Step, KernelStep

\* The inductive invariant holds in every behaviour of the process table.
LEMMA SpecIInv == Spec => []IInv
BY InitIInv, StepIInv, PTL DEF Spec

----------------------------------------------------------------------------

\* The variables keep their types, and a slot is free exactly when its pid
\* is 0.
THEOREM TypeCorrect == Spec => []TypeOK
<1>1. IInv => TypeOK
  BY SMTT(30) DEF IInv
<1> QED BY <1>1, SpecIInv, PTL

\* No kernel stack is in use on two harts, or when its slot is freed, reused
\* or scheduled again.
THEOREM StacksNotShared == Spec => []StackInUse
<1>1. IInv => StackInUse
  <2> SUFFICES ASSUME IInv PROVE StackInUse
    OBVIOUS
  <2>1. ASSUME NEW c \in CPU, cur[c] # NoProc
        PROVE  /\ state[cur[c]] \notin {"UNUSED", "USED"}
               /\ state[cur[c]] = "RUNNING" \/ plock[cur[c]]
    BY <2>1 DEF IInv, TypeOK, StackInv
  <2> QED BY <2>1 DEF IInv, StackInv, StackInUse
<1> QED BY <1>1, SpecIInv, PTL

\* exit() never leaves its parent, or init, asleep in wait().
THEOREM ExitWakesWaiter == Spec => []NoLostExit
<1>1. IInv => NoLostExit
  BY DEF IInv, WaitInv, NoLostExit, Children
<1> QED BY <1>1, SpecIInv, PTL

\* There is always a live process that can reap.
THEOREM ParentsAreAlive == Spec => []ParentAlive
<1>1. IInv => ParentAlive
  BY DEF IInv, TypeOK, FamilyInv, ParentAlive
<1> QED BY <1>1, SpecIInv, PTL

\* p->state only ever changes along the edges of StateOrder.
THEOREM StatesInOrder == Spec => StateOrder
<1> DEFINE Edge(p) ==
      state'[p] # state[p] =>
         <<state[p], state'[p]>> \in
           {<<"UNUSED", "USED">>, <<"USED", "RUNNABLE">>,
            <<"RUNNABLE", "RUNNING">>, <<"RUNNING", "RUNNABLE">>,
            <<"RUNNING", "SLEEPING">>, <<"SLEEPING", "RUNNABLE">>,
            <<"RUNNING", "ZOMBIE">>, <<"ZOMBIE", "UNUSED">>}
<1>1. IInv /\ [Next]_vars => [\A p \in Proc : Edge(p)]_vars
  <2> SUFFICES ASSUME IInv, Next, NEW r \in Proc PROVE Edge(r)
    OBVIOUS
  <2> USE DEF IInv, TypeOK, ForkInv, InFork
  <2>1. ASSUME NEW p \in Proc, KernelStep(p) PROVE Edge(r)
    <3>1. CASE kfork_run(p)
      <4>1. np[p] \in Proc /\ state[np[p]] = "USED"
        BY <3>1 DEF kfork_run, At
      <4>2. QED BY <3>1, <4>1 DEF kfork_run
    <3>2. CASE reparent(p) \/ kexit_wakeup(p)
      <4>1. UNCHANGED state \/ \E ch \in Proc \cup {NoProc} : wakeup(ch, p)
        BY <3>2, ProcAssumption DEF reparent, kexit_wakeup
      <4>2. QED BY <4>1 DEF wakeup, Sleepers
    <3>3. CASE kexit_zombie(p)
      BY <3>3 DEF kexit_zombie, At, Runs
    <3>4. CASE \E q \in Proc : kwait_reap(p, q)
      BY <3>4 DEF kwait_reap, Exited, freeproc
    <3>5. CASE kwait_sleep(p)
      BY <3>5, SMTT(30) DEF kwait_sleep, At, Runs
    <3>6. CASE \/ kfork_acquire(p) \/ kfork_parent(p) \/ kexit_acquire(p)
               \/ kwait_acquire(p) \/ kwait_NoZombie(p) \/ kwait_woken(p)
      BY <3>6, SMTT(30) DEF kfork_acquire, kfork_parent, kexit_acquire,
         kwait_acquire, kwait_NoZombie, kwait_woken
    <3>7. QED BY <2>1, <3>1, <3>2, <3>3, <3>4, <3>5, <3>6 DEF KernelStep
  <2>2. ASSUME NEW p \in Proc,
               \/ yield(p) \/ kexit(p) \/ kwait(p)
               \/ \E q \in Proc : \/ kfork(p, q) \/ kfork_NoMemory(p, q)
                                  \/ kwait_BadAddress(p, q)
                                  \/ \E n \in KillPids : kkill(p, n, q)
        PROVE  Edge(r)
    BY <2>2 DEF yield, kexit, kwait, kfork, kfork_NoMemory, kwait_BadAddress,
       kkill, KilledState, Runs
  <2>3. ASSUME NEW c \in CPU, SchedOut(c) \/ \E p \in Proc : Schedule(c, p)
        PROVE  Edge(r)
    BY <2>3 DEF SchedOut, Schedule, CanSchedule
  <2> QED BY <2>1, <2>2, <2>3 DEF Next, Step
<1> QED BY <1>1, SpecIInv, PTL DEF Spec, StateOrder

\* If no program calls kill(0), kill() marks only the process it names.
THEOREM KillIsExact ==
  ASSUME 0 \notin KillPids
  PROVE  Spec => []KillHitsTarget
<1> DEFINE KInv == \A p \in Proc :
             killed[p] => state[p] # "UNUSED" /\ pid[p] \in asked
<1>1. Init => KInv
  BY Zenon DEF Init
<1>2. IInv /\ KInv /\ [Next]_vars => KInv'
  <2> SUFFICES ASSUME IInv, KInv, [Next]_vars PROVE KInv'
    OBVIOUS
  <2> USE DEF IInv, TypeOK
  <2>1. ASSUME NEW p \in Proc, KernelStep(p) PROVE KInv'
    <3>1. CASE kfork_run(p)
      BY <3>1, SMTT(30) DEF kfork_run
    <3>2. CASE reparent(p) \/ kexit_wakeup(p)
      <4>1. UNCHANGED state \/ \E ch \in Proc \cup {NoProc} : wakeup(ch, p)
        BY <3>2, ProcAssumption DEF reparent, kexit_wakeup
      <4>2. \A q \in Proc : state[q] # "UNUSED" => state'[q] # "UNUSED"
        BY <4>1 DEF wakeup
      <4>3. QED BY <3>2, <4>2 DEF reparent, kexit_wakeup
    <3>3. CASE kexit_zombie(p) \/ kwait_sleep(p)
      BY <3>3 DEF kexit_zombie, kwait_sleep
    <3>4. CASE \E q \in Proc : kwait_reap(p, q)
      BY <3>4 DEF kwait_reap, freeproc
    <3>5. CASE \/ kfork_acquire(p) \/ kfork_parent(p) \/ kexit_acquire(p)
               \/ kwait_acquire(p) \/ kwait_NoZombie(p) \/ kwait_woken(p)
      BY <3>5, SMTT(30) DEF kfork_acquire, kfork_parent, kexit_acquire,
         kwait_acquire, kwait_NoZombie, kwait_woken
    <3>6. QED BY <2>1, <3>1, <3>2, <3>3, <3>4, <3>5 DEF KernelStep
  <2>2. ASSUME NEW p \in Proc,
               \/ yield(p) \/ kexit(p) \/ kwait(p)
               \/ \E q \in Proc : \/ kfork(p, q) \/ kfork_NoMemory(p, q)
                                  \/ kwait_BadAddress(p, q)
        PROVE  KInv'
    BY <2>2 DEF yield, kexit, kwait, kfork, kfork_NoMemory, kwait_BadAddress
  <2>3. ASSUME NEW p \in Proc, NEW q \in Proc, NEW n \in KillPids, kkill(p, n, q)
        PROVE  KInv'
    BY <2>3 DEF kkill, KilledState
  <2>4. ASSUME NEW c \in CPU, SchedOut(c) \/ \E p \in Proc : Schedule(c, p)
        PROVE  KInv'
    BY <2>4 DEF SchedOut, Schedule
  <2>5. CASE UNCHANGED vars
    BY <2>5 DEF vars
  <2> QED BY <2>1, <2>2, <2>3, <2>4, <2>5, ZenonT(40) DEF Next, Step
<1>3. KInv => KillHitsTarget
  BY DEF KillHitsTarget
<1> QED BY <1>1, <1>2, <1>3, SpecIInv, PTL DEF Spec
====
