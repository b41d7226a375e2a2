--------------------------- MODULE SpinlockProofs ---------------------------
(***************************************************************************)
(* Mutual exclusion, interrupt nesting and the absence of lock panics, for  *)
(* any number of harts, threads and locks.                                  *)
(***************************************************************************)
EXTENDS Spinlock, FiniteSetTheorems, TLAPS

(***************************************************************************)
(* The inductive invariant.                                                *)
(***************************************************************************)

\* lk->locked and lk->cpu against the locks the harts hold.
LockFields ==
  /\ \A c, d \in CPU : c # d => held[c] \cap held[d] = {}
  /\ \A l \in AllLocks : locked[l] <=> \E c \in CPU : l \in held[c]
  /\ \A c \in CPU, l \in AllLocks :
       /\ lkcpu[l] = c => l \in held[c]
       /\ l \in held[c] /\ ~(pc[c] \in {"owned", "cleared"} /\ arg[c] = l)
            => lkcpu[l] = c

\* Where a hart is in an acquire or a release.
Progress ==
  \A c \in CPU :
    /\ pc[c] = "spin" => arg[c] \in AllLocks \ held[c]
    /\ pc[c] \in {"owned", "cleared"} =>
         arg[c] \in held[c] /\ lkcpu[arg[c]] = NoCPU

\* noff counts the push_off calls that are outstanding.
Nesting ==
  \A c \in CPU :
    /\ noff[c] = Cardinality(held[c])
                   + (IF pc[c] \in {"spin", "pop"} THEN 1 ELSE 0)
    /\ noff[c] # 0 \/ inintr[c] => ~sie[c]

\* The interrupt state the code on the hart returns to when it has undone
\* all its push_offs.
level(c) == IF noff[c] = 0 THEN sie[c] ELSE intena[c]

\* The state that an interrupt handler, and each place of a thread, expects.
Expected(on, intr, mode) ==
  /\ intr => ~on /\ mode # "trap"
  /\ ~intr /\ mode = "sys" => on
  /\ ~intr /\ mode = "trap" => ~on

Levels ==
  /\ \A c \in CPU : inintr[c] => ~level(c)
  /\ \A c \in CPU, t \in Thread :
       run[c] = t => Expected(level(c), inintr[c], kmode[t])
  /\ \A t \in Thread :
       (\A c \in CPU : run[c] # t) =>
         IF saved[t].started
         THEN Expected(saved[t].intena, saved[t].inintr, kmode[t])
         ELSE kmode[t] = "start" /\ ~saved[t].inintr

OneHart ==
  \A c, d \in CPU : run[c] = run[d] /\ run[c] \in Thread => c = d

IInv ==
  /\ TypeOK
  /\ ~panicked
  /\ \A c \in CPU : below[c] = {}
  /\ LockFields
  /\ Progress
  /\ Nesting
  /\ Levels
  /\ OneHart

----------------------------------------------------------------------------

\* How the number of locks a hart holds changes.
LEMMA HeldCardinality ==
  ASSUME NEW S \in SUBSET AllLocks, NEW l \in AllLocks
  PROVE  /\ IsFiniteSet(S) /\ Cardinality(S) \in Nat
         /\ Cardinality(S) = 0 <=> S = {}
         /\ Cardinality({l}) = 1
         /\ l \notin S => Cardinality(S \cup {l}) = Cardinality(S) + 1
         /\ l \in S => Cardinality(S \ {l}) = Cardinality(S) - 1
<1>1. IsFiniteSet(S)
  BY SpinlockAssumption, FS_Subset
<1>2. Cardinality(S) \in Nat
  BY <1>1, FS_CardinalityType
<1>3. Cardinality(S) = 0 <=> S = {}
  BY <1>1, FS_EmptySet
<1>4. Cardinality({l}) = 1
  BY FS_Singleton
<1>5. l \notin S => Cardinality(S \cup {l}) = Cardinality(S) + 1
  BY <1>1, FS_AddElement
<1>6. l \in S => Cardinality(S \ {l}) = Cardinality(S) - 1
  BY <1>1, FS_RemoveElement
<1> QED BY <1>1, <1>2, <1>3, <1>4, <1>5, <1>6

\* The count of no locks is 0.
LEMMA EmptyHeld == Cardinality({}) = 0
BY FS_EmptySet

\* The invariant holds initially.
LEMMA InitIInv == Init => IInv
<1> SUFFICES ASSUME Init PROVE IInv
  OBVIOUS
<1>1. TypeOK
  BY Zenon DEF Init, TypeOK, Modes, Saved
<1>2. Nesting
  BY EmptyHeld DEF Init, Nesting
<1>3. Levels
  BY DEF Init, Levels, Expected
<1>4. LockFields /\ Progress
  BY SpinlockAssumption DEF Init, LockFields, Progress
<1>5. OneHart
  BY SpinlockAssumption DEF Init, OneHart
<1> QED BY <1>1, <1>2, <1>3, <1>4, <1>5 DEF Init, IInv

\* A hart has push_offs outstanding exactly while it deals with locks.
LEMMA HeldCount ==
  ASSUME IInv
  PROVE  \A d \in CPU :
           /\ Cardinality(held[d]) \in Nat
           /\ Cardinality(held[d]) = 0 <=> held[d] = {}
           /\ noff[d] = 0 <=> held[d] = {} /\ pc[d] \notin {"spin", "pop"}
           /\ held[d] # {} \/ pc[d] # "run" => noff[d] # 0
<1> SUFFICES ASSUME NEW d \in CPU
             PROVE  /\ Cardinality(held[d]) \in Nat
                    /\ Cardinality(held[d]) = 0 <=> held[d] = {}
                    /\ noff[d] = 0 <=> held[d] = {} /\ pc[d] \notin {"spin", "pop"}
                    /\ held[d] # {} \/ pc[d] # "run" => noff[d] # 0
  OBVIOUS
<1>1. held[d] \in SUBSET AllLocks /\ IsFiniteSet(held[d])
  BY SpinlockAssumption, FS_Subset DEF IInv, TypeOK
<1>2. Cardinality(held[d]) \in Nat /\ (Cardinality(held[d]) = 0 <=> held[d] = {})
  BY <1>1, FS_CardinalityType, FS_EmptySet
<1> QED BY <1>2 DEF IInv, TypeOK, Nesting, Progress

\* Every step keeps the invariant.
LEMMA StepIInv == IInv /\ [Next]_vars => IInv'
<1> SUFFICES ASSUME IInv, [Next]_vars PROVE IInv'
  OBVIOUS
<1>0. \A d \in CPU :
        /\ Cardinality(held[d]) \in Nat
        /\ Cardinality(held[d]) = 0 <=> held[d] = {}
        /\ noff[d] = 0 <=> held[d] = {} /\ pc[d] \notin {"spin", "pop"}
        /\ held[d] # {} \/ pc[d] # "run" => noff[d] # 0
  BY HeldCount
<1>1. ASSUME NEW c \in CPU, NEW l \in AllLocks, ~panicked, Acquire(c, l) PROVE IInv'
  <2>1. TypeOK'
    BY <1>1 DEF IInv, TypeOK, Acquire, push_off, holding, lockVars, threadVars
  <2>2. ~panicked' /\ (\A d \in CPU : below'[d] = {})
    BY <1>1 DEF IInv, TypeOK, LockFields, Acquire, holding, Mine, threadVars
  <2>3. LockFields'
    BY <1>1 DEF IInv, LockFields, Acquire, lockVars
  <2>4. Progress'
    BY <1>1 DEF IInv, TypeOK, Progress, Acquire, Mine, lockVars
  <2>5. Nesting'
    BY <1>1, <1>0, SMTT(30) DEF IInv, TypeOK, Nesting, Acquire, push_off,
       threadVars
  <2>6. Levels'
    BY <1>1 DEF IInv, TypeOK, Levels, level, Expected, Acquire, push_off,
       threadVars
  <2>7. OneHart'
    BY <1>1 DEF IInv, OneHart, Acquire, threadVars
  <2> QED BY <2>1, <2>2, <2>3, <2>4, <2>5, <2>6, <2>7 DEF IInv
<1>2. ASSUME NEW c \in CPU, NEW l \in AllLocks, ~panicked, Release(c, l) PROVE IInv'
  <2>1. TypeOK'
    BY <1>2 DEF IInv, TypeOK, Release, threadVars
  <2>2. ~panicked' /\ (\A d \in CPU : below'[d] = {})
    BY <1>2, SpinlockAssumption DEF IInv, TypeOK, LockFields, Progress,
       Nesting, Release, holding, Mine, threadVars
  <2>3. LockFields'
    BY <1>2, SpinlockAssumption DEF IInv, TypeOK, LockFields, Release, Mine
  <2>4. Progress'
    BY <1>2, SMTT(30) DEF IInv, TypeOK, Progress, Release, Mine
  <2>5. Nesting'
    BY <1>2 DEF IInv, Nesting, Release, threadVars
  <2>6. Levels' /\ OneHart'
    BY <1>2 DEF IInv, Levels, level, OneHart, Release, threadVars
  <2> QED BY <2>1, <2>2, <2>3, <2>4, <2>5, <2>6 DEF IInv
<1>3. ASSUME NEW c \in CPU, ~panicked, Swap(c) PROVE IInv'
  <2>0. /\ arg[c] \in AllLocks /\ held[c] \in SUBSET AllLocks
        /\ Cardinality(held[c] \cup {arg[c]}) = Cardinality(held[c]) + 1
    BY <1>3, HeldCardinality, Zenon DEF IInv, TypeOK, Progress, Swap
  <2>1. TypeOK'
    BY <1>3, <2>0 DEF IInv, TypeOK, Swap, threadVars
  <2>2. LockFields'
    BY <1>3 DEF IInv, TypeOK, LockFields, Swap, Exchanged
  <2>3. Progress'
    BY <1>3 DEF IInv, TypeOK, LockFields, Progress, Swap, Exchanged
  <2>4. Nesting'
    BY <1>3, <2>0, SMTT(30) DEF IInv, TypeOK, Nesting, Swap, threadVars
  <2>5. (~panicked' /\ (\A d \in CPU : below'[d] = {})) /\ Levels' /\
          OneHart'
    BY <1>3 DEF IInv, Levels, level, OneHart, Swap, threadVars
  <2> QED BY <2>1, <2>2, <2>3, <2>4, <2>5 DEF IInv
<1>4. ASSUME NEW c \in CPU, ~panicked, SetCPU(c) PROVE IInv'
  <2>1. TypeOK'
    BY <1>4, Zenon DEF IInv, TypeOK, SetCPU, threadVars
  <2>2. LockFields'
    BY <1>4 DEF IInv, TypeOK, LockFields, Progress, SetCPU
  <2>3. Progress'
    BY <1>4 DEF IInv, TypeOK, LockFields, Progress, SetCPU
  <2>4. Nesting'
    BY <1>4, SMTT(30) DEF IInv, Nesting, SetCPU, threadVars
  <2>5. (~panicked' /\ (\A d \in CPU : below'[d] = {})) /\ Levels' /\
          OneHart'
    BY <1>4 DEF IInv, Levels, level, OneHart, SetCPU, threadVars
  <2> QED BY <2>1, <2>2, <2>3, <2>4, <2>5 DEF IInv
<1>5. ASSUME NEW c \in CPU, ~panicked, Unlock(c) PROVE IInv'
  <2>0. /\ arg[c] \in AllLocks /\ held[c] \in SUBSET AllLocks
        /\ Cardinality(held[c] \ {arg[c]}) = Cardinality(held[c]) - 1
    BY <1>5, HeldCardinality, ZenonT(40) DEF IInv, TypeOK, Progress, Unlock
  <2>1. TypeOK'
    BY <1>5, <2>0 DEF IInv, TypeOK, Unlock, threadVars
  <2>2. LockFields'
    <3>1. \A d, e \in CPU : d # e => held'[d] \cap held'[e] = {}
      BY <1>5 DEF IInv, LockFields, Unlock
    <3>2. \A l \in AllLocks : locked'[l] <=> \E d \in CPU : l \in held'[d]
      <4> SUFFICES ASSUME NEW l \in AllLocks
                   PROVE  locked'[l] <=> \E d \in CPU : l \in held'[d]
        OBVIOUS
      <4>1. CASE l = arg[c]
        BY <1>5 DEF IInv, TypeOK, LockFields, Progress, Unlock
      <4>2. CASE l # arg[c]
        <5>1. locked'[l] = locked[l]
          BY <1>5, <4>2 DEF Unlock
        <5>2. \A d \in CPU : l \in held'[d] <=> l \in held[d]
          BY <1>5, <4>2 DEF Unlock
        <5> QED BY <5>1, <5>2 DEF IInv, LockFields
      <4> QED BY <4>1, <4>2
    <3>3. \A d \in CPU, l \in AllLocks :
            /\ lkcpu'[l] = d => l \in held'[d]
            /\ l \in held'[d] /\ ~(pc'[d] \in {"owned", "cleared"} /\ arg'[d] = l)
                 => lkcpu'[l] = d
      BY <1>5, SpinlockAssumption DEF IInv, TypeOK, LockFields, Progress,
         Unlock
    <3> QED BY <3>1, <3>2, <3>3 DEF LockFields
  <2>3. Progress'
    BY <1>5 DEF IInv, TypeOK, Progress, Unlock
  <2>4. Nesting'
    BY <1>5, <2>0, <1>0, SMTT(30) DEF IInv, TypeOK, Nesting, Unlock, threadVars
  <2>5. (~panicked' /\ (\A d \in CPU : below'[d] = {})) /\ Levels' /\
          OneHart'
    BY <1>5 DEF IInv, Levels, level, OneHart, Unlock, threadVars
  <2> QED BY <2>1, <2>2, <2>3, <2>4, <2>5 DEF IInv
<1>6. ASSUME NEW c \in CPU, ~panicked, PopOff(c) PROVE IInv'
  <2>0. noff[c] \in Nat /\ noff[c] # 0 /\ ~sie[c] /\ noff[c] - 1 \in Nat
    BY <1>0, <1>6 DEF IInv, Nesting, PopOff
  <2>1. TypeOK'
    BY <1>6, <2>0 DEF IInv, TypeOK, PopOff, pop_off, lockVars, threadVars
  <2>2. ~panicked' /\ (\A d \in CPU : below'[d] = {})
    BY <1>6, <2>0, SMTT(30) DEF IInv, TypeOK, PopOff, threadVars
  <2>3. Nesting'
    BY <1>6, <1>0, SMTT(30) DEF IInv, TypeOK, Nesting, Levels, level, PopOff,
       pop_off, threadVars
  <2>4. Levels'
    BY <1>6, <1>0 DEF IInv, TypeOK, Levels, level, PopOff, pop_off, threadVars
  <2>5. LockFields' /\ Progress' /\ OneHart'
    BY <1>6 DEF IInv, LockFields, Progress, OneHart, PopOff, lockVars,
       threadVars
  <2> QED BY <2>1, <2>2, <2>3, <2>4, <2>5, SMTT(30) DEF IInv
<1>7. ASSUME NEW c \in CPU, ~panicked, Interrupt(c) PROVE IInv'
  <2>1. ~panicked' /\ (\A d \in CPU : below'[d] = {})
    BY <1>7, <1>0, SMTT(30) DEF IInv, Nesting, Interrupt
  <2>2. Nesting'
    BY <1>7, SMTT(30) DEF IInv, TypeOK, Nesting, Interrupt
  <2>3. Levels'
    BY <1>7, SMTT(30) DEF IInv, TypeOK, Nesting, Levels, level, Expected,
       Interrupt
  <2>4. TypeOK' /\ LockFields' /\ Progress' /\ OneHart'
    BY <1>7, SMTT(30) DEF IInv, TypeOK, LockFields, Progress, OneHart,
       Interrupt, lockVars
  <2> QED BY <2>1, <2>2, <2>3, <2>4, SMTT(30) DEF IInv
<1>8. ASSUME NEW c \in CPU, ~panicked, InterruptReturn(c) PROVE IInv'
  <2>1. ~panicked' /\ (\A d \in CPU : below'[d] = {})
    BY <1>8 DEF IInv, InterruptReturn
  <2>2. Nesting'
    BY <1>8, <1>0, SMTT(30) DEF IInv, TypeOK, Nesting, InterruptReturn, Mine
  <2>3. Levels'
    BY <1>8, <1>0, SMTT(30) DEF IInv, TypeOK, Levels, level, Expected, OneHart,
       Modes, InterruptReturn, Mine
  <2>4. TypeOK' /\ LockFields' /\ Progress' /\ OneHart'
    BY <1>8, SMTT(30) DEF IInv, TypeOK, LockFields, Progress, OneHart,
       InterruptReturn, lockVars
  <2> QED BY <2>1, <2>2, <2>3, <2>4 DEF IInv
<1>9. ASSUME NEW c \in CPU, ~panicked, UserReturnAndTrap(c) PROVE IInv'
  <2>1. TypeOK'
    BY <1>9, SMTT(30) DEF IInv, TypeOK, Modes, UserReturnAndTrap, InThread,
       lockVars
  <2>2. Nesting'
    BY <1>9, SMTT(30) DEF IInv, Nesting, UserReturnAndTrap
  <2>3. Levels'
    BY <1>9, <1>0, SMTT(30) DEF IInv, TypeOK, Levels, level, Expected, OneHart,
       UserReturnAndTrap, InThread
  <2>4. (~panicked' /\ (\A d \in CPU : below'[d] = {})) /\ LockFields' /\
          Progress' /\ OneHart'
    BY <1>9, SMTT(30) DEF IInv, LockFields, Progress, OneHart,
       UserReturnAndTrap, lockVars
  <2> QED BY <2>1, <2>2, <2>3, <2>4 DEF IInv
<1>10. ASSUME NEW c \in CPU, ~panicked, SyscallIntrOn(c) PROVE IInv'
  <2>1. TypeOK'
    BY <1>10, SMTT(30) DEF IInv, TypeOK, Modes, SyscallIntrOn, InThread,
       lockVars
  <2>2. Nesting'
    BY <1>10, <1>0, SMTT(60) DEF IInv, TypeOK, Nesting, SyscallIntrOn, InThread
  <2>3. Levels'
    BY <1>10, <1>0, SMTT(30) DEF IInv, TypeOK, Levels, level, Expected,
       OneHart, SyscallIntrOn, InThread
  <2>4. (~panicked' /\ (\A d \in CPU : below'[d] = {})) /\ LockFields' /\
          Progress' /\ OneHart'
    BY <1>10 DEF IInv, LockFields, Progress, OneHart, SyscallIntrOn, lockVars
  <2> QED BY <2>1, <2>2, <2>3, <2>4 DEF IInv
<1>11. ASSUME NEW c \in CPU, ~panicked, sched(c) PROVE IInv'
  <2>0. held[c] = {run[c]} /\ noff[c] = 1
    <3>1. held[c] = {run[c]} /\ run[c] \in AllLocks
      BY <1>11 DEF IInv, sched, Mine, AllLocks
    <3>2. Cardinality(held[c]) = 1
      BY <3>1, FS_Singleton, ZenonT(40)
    <3>3. pc[c] = "run"
      BY <1>11 DEF sched
    <3> QED BY <3>1, <3>2, <3>3, SMTT(20) DEF IInv, Nesting
  <2>1. TypeOK'
    BY <1>11, SMTT(30) DEF IInv, TypeOK, Saved, sched, lockVars
  <2>2. ~panicked' /\ (\A d \in CPU : below'[d] = {})
    BY <1>11, <2>0, <1>0, SMTT(30) DEF IInv, TypeOK, LockFields, Progress,
       Nesting, sched, holding
  <2>3. Levels'
    BY <1>11, <2>0, SpinlockAssumption DEF IInv, TypeOK, Levels, level,
       Expected, Modes, sched
  <2>4. OneHart'
    BY <1>11, SpinlockAssumption, SMTT(30) DEF IInv, OneHart, sched
  <2>5. LockFields' /\ Progress' /\ Nesting'
    BY <1>11, SMTT(30) DEF IInv, LockFields, Progress, Nesting, sched, lockVars
  <2> QED BY <2>1, <2>2, <2>3, <2>4, <2>5 DEF IInv
<1>12. ASSUME NEW c \in CPU, NEW t \in Thread, ~panicked, Swtch(c, t) PROVE IInv'
  <2>0. held[c] = {t} /\ noff[c] = 1
    <3>1. held[c] = {t}
      BY <1>12 DEF IInv, Swtch, Mine
    <3>2. Cardinality(held[c]) = 1
      BY <3>1, FS_Singleton
    <3> QED BY <3>1, <3>2, <1>12, SMTT(20) DEF IInv, Nesting, Swtch
  <2>1. TypeOK'
    BY <1>12 DEF IInv, TypeOK, Saved, Swtch, RestoreIntena, lockVars
  <2>2. Nesting'
    BY <1>12, <2>0, SMTT(60) DEF IInv, TypeOK, Nesting, Swtch
  <2>3. Levels'
    BY <1>12, <2>0, SpinlockAssumption DEF IInv, TypeOK, Levels, level,
       Expected, Modes, Swtch, RestoreIntena, Mine, lockVars
  <2>4. OneHart'
    BY <1>12, SMTT(30) DEF IInv, OneHart, Swtch
  <2>5. (~panicked' /\ (\A d \in CPU : below'[d] = {})) /\ LockFields' /\
          Progress'
    BY <1>12 DEF IInv, LockFields, Progress, Swtch, lockVars
  <2> QED BY <2>1, <2>2, <2>3, <2>4, <2>5 DEF IInv
<1>13. ASSUME NEW c \in CPU, ~panicked, SchedIntrOn(c) PROVE IInv'
  <2>1. Nesting'
    BY <1>13, <1>0, SMTT(30) DEF IInv, Nesting, SchedIntrOn, threadVars
  <2>2. Levels'
    BY <1>13, SpinlockAssumption, SMTT(30) DEF IInv, Levels, level, Expected,
       SchedIntrOn, threadVars
  <2>3. TypeOK' /\ (~panicked' /\ (\A d \in CPU : below'[d] = {})) /\
          LockFields' /\ Progress' /\ OneHart'
    BY <1>13 DEF IInv, TypeOK, LockFields, Progress, OneHart, SchedIntrOn,
       lockVars, threadVars
  <2> QED BY <2>1, <2>2, <2>3 DEF IInv
<1>14. ASSUME NEW c \in CPU, ~panicked, SchedIntrOff(c) PROVE IInv'
  <2>1. Nesting'
    BY <1>14, SMTT(30) DEF IInv, Nesting, SchedIntrOff, threadVars
  <2>2. Levels'
    BY <1>14, SpinlockAssumption, SMTT(30) DEF IInv, Levels, level, Expected,
       SchedIntrOff, threadVars
  <2>3. TypeOK' /\ (~panicked' /\ (\A d \in CPU : below'[d] = {})) /\
          LockFields' /\ Progress' /\ OneHart'
    BY <1>14, SMTT(30) DEF IInv, TypeOK, LockFields, Progress, OneHart,
       SchedIntrOff, lockVars, threadVars
  <2> QED BY <2>1, <2>2, <2>3 DEF IInv
<1>15. CASE UNCHANGED vars
  BY <1>15 DEF vars, IInv, TypeOK, LockFields, Progress, Nesting, Levels,
     level, OneHart
<1> QED
  BY <1>1, <1>2, <1>3, <1>4, <1>5, <1>6, <1>7, <1>8, <1>9, <1>10, <1>11, <1>12,
     <1>13, <1>14, <1>15 DEF Next, Step

\* The inductive invariant holds in every behaviour of the harts.
LEMMA SpecIInv == Spec => []IInv
BY InitIInv, StepIInv, PTL DEF Spec

----------------------------------------------------------------------------

\* The variables keep their types; in particular noff never goes negative,
\* whatever push_off and pop_off calls the harts make.
THEOREM TypeCorrect == Spec => []TypeOK
<1>1. IInv => TypeOK
  BY DEF IInv
<1> QED BY <1>1, SpecIInv, PTL

\* acquire() and release() give mutual exclusion, and holding() is right.
THEOREM LocksExclude == Spec => []MutualExclusion
<1>1. IInv => MutualExclusion
  BY DEF IInv, LockFields, MutualExclusion, holding
<1> QED BY <1>1, SpecIInv, PTL

\* Interrupts are off wherever a handler could find a lock taken.
THEOREM HoldersNotInterrupted == Spec => []InterruptsOff
<1>1. ASSUME IInv, NEW c \in CPU, held[c] # {} \/ pc[c] # "run"
      PROVE  noff[c] # 0 \/ pc[c] \in {"owned", "cleared"}
  BY <1>1, HeldCount
<1>2. IInv => InterruptsOff
  BY HeldCount, SMTT(30) DEF IInv, Nesting, InterruptsOff
<1> QED BY <1>2, SpecIInv, PTL

\* A thread gets its interrupt state back, on whichever hart it resumes.
THEOREM IntenaFollowsThread == Spec => []InterruptsRestored
<1>1. IInv => InterruptsRestored
  BY HeldCount DEF IInv, Levels, level, Expected, InterruptsRestored
<1> QED BY <1>1, SpecIInv, PTL

\* The sanity checks of spinlock.c and sched() never fail.
THEOREM ChecksNeverFail == Spec => []NoPanic
<1>1. IInv => NoPanic
  BY DEF IInv, NoPanic
<1> QED BY <1>1, SpecIInv, PTL
====
