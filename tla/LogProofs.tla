------------------------------ MODULE LogProofs ------------------------------
(***************************************************************************)
(* Proofs about Log: the inductive invariant and what follows from it at    *)
(* once.  LogRefinement and LogSpace build on it.                           *)
(***************************************************************************)
EXTENDS Log, FiniteSetTheorems, TLAPS

CommitPhases == {"write_log", "write_head", "install", "erase", "finish"}

(***************************************************************************)
(* How far commit() or recovery has got, and what the two headers then are. *)
(***************************************************************************)
HeaderInv ==
  /\ \A i, j \in 1..Len(lh) : lh[i] = lh[j] => i = j
  /\ \A i, j \in 1..Len(head) : head[i] = head[j] => i = j
  /\ IF phase \in {"write_log", "install", "recover_install"}
     THEN tail < Len(lh)
     ELSE tail = 0
  /\ phase = "write_head" => Len(lh) > 0
  /\ phase \in {"finish", "read_head"} => lh = <<>>
  /\ phase \in {"idle", "write_log", "write_head", "finish"} => head = <<>>
  /\ phase \in {"install", "erase", "recover_install", "recover_erase"} =>
       head = lh
  /\ phase = "idle" /\ Active = {} => lh = <<>>

(***************************************************************************)
(* Who is in a system call, who commits, and that the two exclude.          *)
(***************************************************************************)
CallInv ==
  /\ outstanding = Cardinality(Active)
  /\ committing <=> phase \in CommitPhases
  /\ committing => Active = {} /\ \E p \in Process : pc[p] = "commit"
  /\ \A p \in Process : pc[p] = "commit" => committing
  /\ \A p, q \in Process : pc[p] = "commit" /\ pc[q] = "commit" => p = q
  /\ Recovering => \A p \in Process : pc[p] = "out"
  /\ panicked => Active # {}
  /\ SleeperHasWaker

(***************************************************************************)
(* What is in the cache, in the log and at home, block by block.            *)
(***************************************************************************)
PinInv ==
  /\ PinnedWhileLogged
  /\ Recovering => \A b \in Block : pin[b] = 0
  /\ \A b \in Block : pin[b] # 0 => cache[b] # Absent
  /\ ~panicked => \A b \in Block : pin[b] = 0 => cache[b] \in {Absent, disk[b]}

CopyInv ==
  /\ phase = "write_log" => \A i \in 1..tail : logdisk[i] = cache[lh[i]]
  /\ phase = "write_head" => \A i \in 1..Len(lh) : logdisk[i] = cache[lh[i]]
  /\ phase = "install" =>
       \A i \in 1..Len(lh) : i > tail => logdisk[i] = cache[lh[i]]
  /\ phase \in {"install", "recover_install"} =>
       \A i \in 1..tail : disk[lh[i]] = logdisk[i]
  /\ phase \in {"erase", "recover_erase"} =>
       \A i \in 1..Len(lh) : disk[lh[i]] = logdisk[i]

IInv == TypeOK /\ HeaderInv /\ CallInv /\ PinInv /\ CopyInv

----------------------------------------------------------------------------
(***************************************************************************)
(* Facts about the set of active system calls and about sequences.          *)
(***************************************************************************)
LEMMA ActiveFinite ==
  /\ IsFiniteSet(Active)
  /\ Cardinality(Active) \in Nat
  /\ Cardinality(Active) = 0 <=> Active = {}
<1>1. IsFiniteSet(Active)
  BY LogAssumption, FS_Subset DEF Active
<1>2. QED
  BY <1>1, FS_CardinalityType, FS_EmptySet

\* One operation more: begin_op.
LEMMA ActiveEnter ==
  ASSUME NEW p \in Process, TypeOK, pc[p] # "op",
         pc' = [pc EXCEPT ![p] = "op"]
  PROVE  /\ Active' = Active \cup {p}
         /\ Cardinality(Active') = Cardinality(Active) + 1
<1>1. Active' = Active \cup {p} /\ p \notin Active
  BY DEF Active, TypeOK
<1>2. QED
  BY <1>1, ActiveFinite, FS_AddElement

\* One operation less: end_op.
LEMMA ActiveLeave ==
  ASSUME NEW p \in Process, p \in Active, Active' = Active \ {p}
  PROVE  Cardinality(Active') = Cardinality(Active) - 1
BY ActiveFinite, FS_RemoveElement

\* lh.n > 0 says that the log is not empty.
LEMMA NonEmptySeq == \A s \in Seq(Block) : s # <<>> <=> Len(s) > 0
OBVIOUS

\* The invariant holds at the first boot.
LEMMA InitIInv == Init => IInv
<1> SUFFICES ASSUME Init PROVE IInv
    OBVIOUS
<1> USE LogAssumption DEF Init
<1>1. TypeOK
  <2>1. PICK v \in Val : logdisk = [i \in 1..LOGBLOCKS |-> v]
    OBVIOUS
  <2>2. logdisk \in [1..LOGBLOCKS -> Contents] /\ disk \in [Block -> Contents]
    BY DEF Contents
  <2>3. /\ cache \in [Block -> Contents \cup {Absent}]
        /\ pin \in [Block -> Nat]
        /\ pc \in [Process -> {"out", "begin", "asleep", "op", "commit"}]
        /\ wrote \in [Process -> SUBSET Block]
    OBVIOUS
  <2>4. /\ head \in Seq(Block) /\ Len(head) <= LOGBLOCKS
        /\ lh \in Seq(Block) /\ Len(lh) <= LOGBLOCKS
    OBVIOUS
  <2>5. outstanding \in Nat /\ tail \in 0..LOGBLOCKS /\ ops \in 0..MaxOps
        /\ crashes \in 0..MaxCrashes /\ phase \in Phases
    BY DEF Phases
  <2>6. QED
    BY <2>2, <2>4, <2>5, Zenon DEF TypeOK
<1>2. HeaderInv
  BY DEF HeaderInv
<1>3. CallInv
  <2>1. Active = {}
    BY DEF Active
  <2>2. Cardinality(Active) = 0
    BY <2>1, FS_EmptySet
  <2>3. QED
    BY <2>2 DEF CallInv, CommitPhases, SleeperHasWaker
<1>4. PinInv /\ CopyInv
  BY DEF PinInv, PinnedWhileLogged, CopyInv
<1>5. QED
  BY <1>1, <1>2, <1>3, <1>4 DEF IInv

(***************************************************************************)
(* IInv is inductive: every step of the log, of recovery, of the cache and  *)
(* every crash preserves it.                                                *)
(***************************************************************************)
LEMMA StepIInv == ASSUME IInv, [Next]_vars PROVE IInv'
<1> USE LogAssumption
<1>1. ASSUME NEW p \in Process, begin_op_enter(p), ~panicked
      PROVE  IInv'
  <2>1. TypeOK'
    BY <1>1 DEF IInv, begin_op_enter, TypeOK, diskVars, cacheVars, bounds
  <2>2. HeaderInv'
    BY <1>1 DEF IInv, begin_op_enter, HeaderInv, Active, diskVars
  <2>3. CallInv'
    <3>1. /\ Active' = Active \cup {p}
          /\ Cardinality(Active') = Cardinality(Active) + 1
      BY <1>1, ActiveEnter, Zenon DEF IInv, begin_op_enter
    <3>2. outstanding' = Cardinality(Active') /\ (panicked' => Active' # {})
      BY <1>1, <3>1 DEF IInv, CallInv, begin_op_enter
    <3>3. SleeperHasWaker'
      BY <1>1 DEF IInv, TypeOK, begin_op_enter, SleeperHasWaker
    <3>4. QED
      BY <1>1, <3>2, <3>3 DEF IInv, CallInv, begin_op_enter, Recovering
  <2>4. PinInv'
    BY <1>1 DEF IInv, begin_op_enter, PinInv, PinnedWhileLogged, Recovering,
       diskVars, cacheVars
  <2>5. CopyInv'
    BY <1>1 DEF IInv, begin_op_enter, CopyInv, diskVars, cacheVars
  <2>6. QED BY <2>1, <2>2, <2>3, <2>4, <2>5 DEF IInv
<1>2. ASSUME NEW p \in Process, begin_op_sleep(p), ~panicked
      PROVE  IInv'
  <2>1. TypeOK'
    BY <1>2 DEF IInv, begin_op_sleep, TypeOK, diskVars, cacheVars, logVars,
       bounds
  <2>2. HeaderInv'
    BY <1>2 DEF IInv, begin_op_sleep, HeaderInv, Active, diskVars, logVars
  <2>3. CallInv'
    <3>1. Active' = Active
      BY <1>2 DEF begin_op_sleep, Active
    <3>2. ~committing => Active # {}
      <4>1. SUFFICES ASSUME ~committing, Active = {} PROVE FALSE
        OBVIOUS
      <4>2. phase = "idle"
        BY <4>1, <1>2 DEF IInv, TypeOK, CallInv, begin_op_sleep, CommitPhases,
           Recovering, Phases
      <4>3. lh = <<>> /\ outstanding = 0
        BY <4>1, <4>2, ActiveFinite DEF IInv, HeaderInv, CallInv
      <4>4. Len(lh) = 0
        BY <4>3
      <4>5. QED
        BY <4>1, <4>3, <1>2 DEF begin_op_sleep, HasRoom
    <3>3. \E q \in Process : pc[q] \in {"op", "commit"}
      BY <3>2 DEF IInv, CallInv, Active
    <3>4. SleeperHasWaker'
      BY <3>3, <1>2 DEF begin_op_sleep, SleeperHasWaker
    <3>5. QED
      BY <1>2, <3>1, <3>4 DEF IInv, CallInv, begin_op_sleep, Recovering,
         logVars
  <2>4. PinInv'
    BY <1>2 DEF IInv, begin_op_sleep, PinInv, PinnedWhileLogged, Recovering,
       diskVars, cacheVars, logVars
  <2>5. CopyInv'
    BY <1>2 DEF IInv, begin_op_sleep, CopyInv, diskVars, cacheVars, logVars
  <2>6. QED BY <2>1, <2>2, <2>3, <2>4, <2>5 DEF IInv
<1>3. ASSUME NEW p \in Process, end_op(p), ~panicked
      PROVE  IInv'
  <2>a. p \in Active /\ Active' = Active \ {p}
    BY <1>3 DEF IInv, TypeOK, end_op, Woken, Active
  <2>b. outstanding' = Cardinality(Active')
    BY <1>3, <2>a, ActiveLeave, ZenonT(40) DEF IInv, CallInv, end_op
  <2>1. TypeOK'
    BY <1>3 DEF IInv, end_op, Woken, TypeOK, diskVars, cacheVars, bounds
  <2>2. HeaderInv'
    <3>1. outstanding' > 0
      BY <1>3 DEF IInv, TypeOK, end_op
    <3>3. Active' # {}
      BY <2>b, <3>1, FS_EmptySet
    <3>4. QED
      BY <1>3, <3>3 DEF IInv, HeaderInv, end_op, diskVars
  <2>3. CallInv'
    <3>3. ~committing /\ ~panicked'
      BY <1>3, <2>a DEF IInv, CallInv, end_op
    <3>4. \A q \in Process : pc'[q] # "asleep" /\ pc'[q] # "commit"
      BY <1>3, <3>3 DEF IInv, CallInv, end_op, Woken
    <3>5. ~Recovering
      BY <1>3 DEF IInv, CallInv, end_op
    <3>6. QED
      BY <1>3, <2>b, <3>3, <3>4, ZenonT(40) DEF IInv, CallInv, end_op,
         Recovering, SleeperHasWaker
  <2>4. PinInv'
    BY <1>3 DEF IInv, end_op, PinInv, PinnedWhileLogged, Recovering, diskVars,
       cacheVars
  <2>5. CopyInv'
    BY <1>3, SMTT(30) DEF IInv, end_op, CopyInv, diskVars, cacheVars
  <2>6. QED BY <2>1, <2>2, <2>3, <2>4, <2>5 DEF IInv
<1>4. ASSUME NEW p \in Process, end_op_last(p), ~panicked
      PROVE  IInv'
  <2>b. p \in Active /\ Active' = Active \ {p}
    BY <1>4 DEF IInv, TypeOK, end_op_last, Active
  <2>c. Cardinality(Active') = 0
    <3>1. Cardinality(Active) = 1
      BY <1>4 DEF IInv, CallInv, end_op_last
    <3>2. QED
      BY <2>b, <3>1, ActiveLeave
  <2>a. phase = "idle" /\ ~committing
    BY <1>4 DEF IInv, TypeOK, CallInv, end_op_last, CommitPhases, Recovering,
       Phases, Active
  <2>1. TypeOK'
    BY <1>4 DEF IInv, end_op_last, TypeOK, Phases, diskVars, cacheVars, bounds
  <2>2. HeaderInv'
    <3>1. phase = "idle" /\ tail = 0
      BY <2>a DEF IInv, HeaderInv
    <3>2. ~NothingLogged => Len(lh) > 0
      BY DEF NothingLogged
    <3>3. QED
      BY <1>4, <3>1 DEF IInv, HeaderInv, end_op_last, NothingLogged, diskVars
  <2>3. CallInv'
    <3>1. IsFiniteSet(Active')
      BY <2>b, ActiveFinite, FS_Subset
    <3>3. Active' = {}
      BY <3>1, <2>c, FS_EmptySet
    <3>4. \A q \in Process : pc'[q] = "commit" <=> q = p
      BY <1>4, <2>a DEF IInv, TypeOK, CallInv, end_op_last
    <3>5. SleeperHasWaker'
      BY <3>4 DEF SleeperHasWaker
    <3>6. QED
      BY <1>4, <2>a, <2>c, <3>3, <3>4, <3>5 DEF CallInv, end_op_last,
         CommitPhases, Recovering
  <2>4. PinInv'
    <3>1. QED
      BY <1>4, <2>a DEF IInv, end_op_last, PinInv, PinnedWhileLogged,
         Recovering, diskVars, cacheVars
  <2>5. CopyInv'
    <3>1. tail = 0
      BY <2>a, SMTT(30) DEF IInv, HeaderInv
    <3>2. QED
      BY <1>4, <3>1 DEF end_op_last, CopyInv
  <2>6. QED BY <2>1, <2>2, <2>3, <2>4, <2>5 DEF IInv
<1>5. ASSUME NEW p \in Process, write_log(p), ~panicked
      PROVE  IInv'
  <2>1. TypeOK'
    <3>1. tail + 1 \in 1..Len(lh) /\ tail + 1 \in 1..LOGBLOCKS
      BY <1>5 DEF IInv, TypeOK, HeaderInv, write_log
    <3>2. lh[tail + 1] \in Block
      BY <3>1, SMTT(30) DEF IInv, TypeOK
    <3>3. cache[lh[tail + 1]] # Absent
      BY <1>5, <3>1, <3>2 DEF IInv, PinInv, PinnedWhileLogged, Recovering,
         write_log
    <3>4. bread(lh[tail + 1]) \in Contents
      BY <3>2 DEF IInv, TypeOK, bread
    <3>5. tail' \in 0..LOGBLOCKS /\ phase' \in Phases
      BY <1>5, <3>1, SMTT(30) DEF write_log, Advance, Phases
    <3>6. QED
      BY <1>5, <3>1, <3>4, <3>5 DEF IInv, TypeOK, write_log, logVars, bounds
  <2>2. HeaderInv'
    BY <1>5, SMTT(30) DEF IInv, write_log, Advance, TypeOK, HeaderInv, logVars
  <2>3. CallInv'
    BY <1>5 DEF IInv, write_log, Advance, CallInv, CommitPhases, Recovering,
       SleeperHasWaker, Active, logVars
  <2>4. PinInv'
    BY <1>5, SMTT(30) DEF IInv, write_log, Advance, bread, PinInv,
       PinnedWhileLogged, Recovering, logVars
  <2>5. CopyInv'
    BY <1>5, SMTT(20) DEF IInv, write_log, Advance, bread, TypeOK, CopyInv,
       Contents, logVars
  <2>6. QED BY <2>1, <2>2, <2>3, <2>4, <2>5 DEF IInv
<1>6. ASSUME NEW p \in Process, write_head(p), ~panicked
      PROVE  IInv'
  <2>1. TypeOK'
    BY <1>6 DEF IInv, write_head, TypeOK, Phases, cacheVars, logVars, bounds
  <2>2. HeaderInv'
    BY <1>6, SMTT(30) DEF IInv, HeaderInv, write_head, logVars
  <2>3. CallInv'
    BY <1>6, SMTT(30) DEF IInv, write_head, CallInv, CommitPhases, Recovering,
       SleeperHasWaker, Active, logVars
  <2>4. PinInv'
    BY <1>6, SMTT(30) DEF IInv, write_head, HeaderInv, PinInv,
       PinnedWhileLogged, Recovering, cacheVars, logVars
  <2>5. CopyInv'
    BY <1>6, SMTT(30) DEF IInv, write_head, HeaderInv, CopyInv, cacheVars,
       logVars
  <2>6. QED BY <2>1, <2>2, <2>3, <2>4, <2>5 DEF IInv
<1>7. ASSUME NEW p \in Process, install_trans(p), ~panicked
      PROVE  IInv'
  <2>1. TypeOK'
    <3>1. tail + 1 \in 1..Len(lh) /\ tail + 1 \in 1..LOGBLOCKS
      BY <1>7, SMTT(30) DEF IInv, TypeOK, HeaderInv, install_trans
    <3>2. lh[tail + 1] \in Block
      BY <3>1 DEF IInv, TypeOK
    <3>3. pin[lh[tail + 1]] = 1
      BY <1>7, <3>1 DEF IInv, TypeOK, PinInv, PinnedWhileLogged, Recovering,
         install_trans
    <3>4. logdisk[tail + 1] \in Contents
      BY <3>1 DEF IInv, TypeOK
    <3>5. tail' \in 0..LOGBLOCKS /\ phase' \in Phases
      BY <1>7, <3>1 DEF install_trans, Advance, Phases
    <3>6. pin' \in [Block -> Nat]
      BY <1>7, <3>2, <3>3, SMTT(30) DEF IInv, TypeOK, install_trans, bunpin
    <3>7. QED
      BY <1>7, <3>2, <3>4, <3>5, <3>6, SMTT(30) DEF IInv, TypeOK,
         install_trans, Install, logVars, bounds
  <2>2. HeaderInv'
    BY <1>7, SMTT(30) DEF IInv, install_trans, Advance, HeaderInv, logVars
  <2>3. CallInv'
    BY <1>7 DEF IInv, install_trans, Advance, CallInv, CommitPhases,
       Recovering, SleeperHasWaker, Active, logVars
  <2>4. PinInv'
    <3>1. tail + 1 \in 1..Len(lh) /\ lh[tail + 1] \in Block
      BY <1>7 DEF IInv, TypeOK, HeaderInv, install_trans
    <3>2. \A c \in Block :
            pin[c] = IF \E i \in 1..Len(lh) : lh[i] = c /\ i > tail THEN 1 ELSE 0
      BY <1>7 DEF IInv, PinInv, PinnedWhileLogged, Recovering, install_trans
    <3>3. pin' = [pin EXCEPT ![lh[tail + 1]] = @ - 1]
      BY <1>7 DEF install_trans, bunpin
    <3>4. \A c \in Block :
            pin'[c] = IF \E i \in 1..Len(lh) : lh[i] = c /\ i > tail + 1
                      THEN 1 ELSE 0
      BY <3>1, <3>2, <3>3, SMTT(20) DEF IInv, TypeOK, HeaderInv
    <3>5. /\ lh' = lh
          /\ \/ tail' = tail + 1 /\ phase' = "install"
             \/ tail + 1 = Len(lh) /\ phase' = "erase"
      BY <1>7, <3>1 DEF install_trans, Advance, logVars
    <3>6. PinnedWhileLogged'
      <4>1. CASE phase' = "install"
        BY <3>4, <3>5 DEF PinnedWhileLogged
      <4>2. CASE phase' = "erase"
        BY <3>4, <3>5, SMTT(30) DEF PinnedWhileLogged
      <4>3. QED
        BY <3>5, <4>1, <4>2
    <3>7. \A c \in Block : pin'[c] # 0 => cache'[c] # Absent
      BY <1>7, <3>1, <3>2, <3>3, SMTT(30) DEF IInv, TypeOK, PinInv,
         install_trans, Install
    <3>8. \A c \in Block : pin'[c] = 0 => cache'[c] \in {Absent, disk'[c]}
      BY <1>7, <3>3, SMTT(30) DEF IInv, TypeOK, PinInv, install_trans, Install
    <3>9. QED
      BY <3>5, <3>6, <3>7, <3>8, SMTT(30) DEF PinInv, Recovering
  <2>5. CopyInv'
    BY <1>7, SMTT(20) DEF IInv, install_trans, Advance, Install, bunpin,
       TypeOK, HeaderInv, CallInv, PinInv, CopyInv, PinnedWhileLogged,
       CommitPhases, Contents, Recovering, diskVars, logVars, bounds
  <2>6. QED BY <2>1, <2>2, <2>3, <2>4, <2>5 DEF IInv
<1>8. ASSUME NEW p \in Process, erase(p), ~panicked
      PROVE  IInv'
  <2>1. TypeOK'
    BY <1>8 DEF IInv, erase, TypeOK, Phases, cacheVars, bounds
  <2>2. HeaderInv'
    BY <1>8 DEF IInv, erase, HeaderInv
  <2>3. CallInv'
    BY <1>8 DEF IInv, erase, CallInv, CommitPhases, Recovering,
       SleeperHasWaker, Active
  <2>4. PinInv'
    BY <1>8 DEF IInv, erase, PinInv, PinnedWhileLogged, cacheVars
  <2>5. CopyInv'
    BY <1>8 DEF erase, CopyInv
  <2>6. QED BY <2>1, <2>2, <2>3, <2>4, <2>5 DEF IInv
<1>9. ASSUME NEW p \in Process, end_op_finish(p), ~panicked
      PROVE  IInv'
  <2>1. TypeOK'
    BY <1>9, Zenon DEF IInv, end_op_finish, Woken, TypeOK, Phases, diskVars,
       cacheVars, bounds
  <2>2. HeaderInv'
    BY <1>9 DEF IInv, end_op_finish, HeaderInv, diskVars
  <2>3. CallInv'
    <3>1. Active = {} /\ Active' = Active
      BY <1>9 DEF IInv, CallInv, end_op_finish, Woken, Active
    <3>2. \A q \in Process : pc'[q] # "asleep" /\ pc'[q] # "commit"
      BY <1>9, SMTT(30) DEF IInv, TypeOK, CallInv, end_op_finish, Woken
    <3>3. QED
      BY <1>9, <3>1, <3>2, Zenon DEF IInv, CallInv, end_op_finish,
         CommitPhases, Recovering, SleeperHasWaker
  <2>4. PinInv'
    BY <1>9, SMTT(30) DEF IInv, end_op_finish, PinInv, PinnedWhileLogged,
       Recovering, diskVars, cacheVars
  <2>5. CopyInv'
    BY <1>9 DEF end_op_finish, CopyInv
  <2>6. QED BY <2>1, <2>2, <2>3, <2>4, <2>5 DEF IInv
<1>10. ASSUME NEW p \in Process, Call(p), ~panicked
      PROVE  IInv'
  <2>1. TypeOK'
    BY <1>10 DEF IInv, Call, TypeOK, diskVars, cacheVars, logVars
  <2>2. HeaderInv'
    BY <1>10 DEF IInv, Call, HeaderInv, Active, diskVars, logVars
  <2>3. CallInv'
    <3>1. \A q \in Process :
            /\ pc'[q] = "op" <=> pc[q] = "op"
            /\ pc'[q] = "commit" <=> pc[q] = "commit"
            /\ pc'[q] = "asleep" => pc[q] = "asleep"
      BY <1>10 DEF IInv, TypeOK, Call
    <3>2. Active' = Active
      BY <3>1 DEF Active
    <3>3. ~Recovering'
      BY <1>10 DEF Call, Recovering
    <3>4. SleeperHasWaker'
      BY <3>1, SMTT(30) DEF IInv, CallInv, SleeperHasWaker
    <3>5. QED
      BY <1>10, <3>1, <3>2, <3>3, <3>4 DEF IInv, CallInv, Call, logVars
  <2>4. PinInv'
    BY <1>10, SMTT(30) DEF IInv, Call, PinInv, PinnedWhileLogged, Recovering,
       diskVars, cacheVars, logVars
  <2>5. CopyInv'
    BY <1>10, SMTT(30) DEF IInv, Call, CopyInv, diskVars, cacheVars, logVars
  <2>6. QED BY <2>1, <2>2, <2>3, <2>4, <2>5 DEF IInv
<1>11. ASSUME NEW p \in Process, kkill(p), ~panicked
      PROVE  IInv'
  <2>1. TypeOK'
    BY <1>11 DEF IInv, kkill, TypeOK, diskVars, cacheVars, logVars, bounds
  <2>2. HeaderInv'
    BY <1>11 DEF IInv, kkill, HeaderInv, Active, diskVars, logVars
  <2>3. CallInv'
    <3>1. Active' = Active
      BY <1>11 DEF kkill, Active
    <3>2. SleeperHasWaker'
      BY <1>11, SMTT(30) DEF IInv, CallInv, kkill, SleeperHasWaker
    <3>3. QED
      BY <1>11, <3>1, <3>2 DEF IInv, CallInv, kkill, Recovering, logVars
  <2>4. PinInv'
    BY <1>11, SMTT(30) DEF IInv, kkill, PinInv, PinnedWhileLogged, Recovering,
       diskVars, cacheVars, logVars
  <2>5. CopyInv'
    BY <1>11 DEF IInv, kkill, CopyInv, diskVars, cacheVars, logVars
  <2>6. QED BY <2>1, <2>2, <2>3, <2>4, <2>5 DEF IInv
<1>12. ASSUME NEW p \in Process, NEW b \in Block, NEW v \in Val, log_write(p,
     b, v), ~panicked
      PROVE  IInv'
  <2>a. phase = "idle" /\ ~committing
    BY <1>12, SMTT(30) DEF IInv, TypeOK, CallInv, log_write, CommitPhases,
       Recovering, Phases, Active
  <2>1. TypeOK'
    <3>1. lh' \in Seq(Block) /\ Len(lh') <= LOGBLOCKS
      <4>1. CASE UNCHANGED lh
        BY <4>1 DEF IInv, TypeOK
      <4>2. CASE lh' = Append(lh, b) /\ Len(lh) < LOGBLOCKS
        BY <4>2 DEF IInv, TypeOK
      <4>3. ~(Len(lh) >= LOGBLOCKS) => Len(lh) < LOGBLOCKS
        OBVIOUS
      <4>4. UNCHANGED lh \/ (~panicked' /\ lh' = Append(lh, b))
        BY <1>12, Zenon DEF log_write
      <4>5. ~panicked' => ~(Len(lh) >= LOGBLOCKS)
        BY <1>12, Zenon DEF log_write
      <4>6. QED
        BY <4>1, <4>2, <4>4, <4>5
    <3>2. pin' \in [Block -> Nat]
      <4>1. pin' = pin \/ pin' = bpin(b)
        BY <1>12 DEF log_write
      <4>2. pin \in [Block -> Nat]
        BY DEF IInv, TypeOK
      <4>3. bpin(b) \in [Block -> Nat]
        BY <4>2 DEF bpin
      <4>4. QED
        BY <4>1, <4>2, <4>3, SMTT(30)
    <3>3. cache' \in [Block -> Contents \cup {Absent}]
      BY <1>12 DEF IInv, TypeOK, log_write, Contents
    <3>4. panicked' \in BOOLEAN
      BY <1>12, SMTT(30) DEF log_write
    <3>5. QED
      BY <1>12, <3>1, <3>2, <3>3, SMTT(20) DEF IInv, TypeOK, log_write,
         diskVars, bounds
  <2>2. HeaderInv'
    <3>1. \A i, j \in 1..Len(lh') : lh'[i] = lh'[j] => i = j
      <4>1. CASE UNCHANGED lh
        BY <4>1 DEF IInv, HeaderInv
      <4>2. CASE lh' = Append(lh, b) /\ ~Logged(b)
        BY <4>2 DEF IInv, HeaderInv, Logged
      <4>3. QED
        BY <1>12, <4>1, <4>2 DEF log_write
    <3>2. phase = "idle" /\ Active' # {}
      BY <1>12, <2>a, SMTT(30) DEF log_write, Active
    <3>3. QED
      BY <1>12, <3>1, <3>2, SMTT(30) DEF IInv, HeaderInv, log_write, diskVars
  <2>3. CallInv'
    BY <1>12 DEF IInv, log_write, Logged, bpin, CallInv, Recovering,
       SleeperHasWaker, Active
  <2>4. PinInv'
    <3>1. CASE panicked' \/ Logged(b)
      <4>1. pin' = pin /\ lh' = lh
        BY <1>12, <3>1, SMTT(30) DEF log_write
      <4>2. Logged(b) => pin[b] = 1
        BY <2>a, SMTT(30) DEF IInv, PinInv, PinnedWhileLogged, Recovering,
           Logged
      <4>3. QED
        BY <1>12, <4>1, <4>2, SMTT(30) DEF IInv, PinInv, PinnedWhileLogged,
           Recovering, log_write, diskVars
    <3>2. CASE ~panicked' /\ ~Logged(b)
      <4>1. pin' = [pin EXCEPT ![b] = @ + 1] /\ lh' = Append(lh, b)
        BY <1>12, <3>2, SMTT(30) DEF log_write, bpin
      <4>2. pin[b] = 0
        BY <3>2 DEF IInv, PinInv, PinnedWhileLogged, Logged
      <4>3. \A c \in Block :
              (\E i \in 1..Len(lh') : lh'[i] = c)
                <=> c = b \/ \E i \in 1..Len(lh) : lh[i] = c
        <5>1. Len(lh') = Len(lh) + 1 /\ Len(lh) \in Nat
          BY <4>1
        <5>2. \A i \in 1..Len(lh') :
                lh'[i] = IF i = Len(lh) + 1 THEN b ELSE lh[i]
          BY <4>1, SMTT(30)
        <5>3. QED
          BY <5>1, <5>2
      <4>4. \A c \in Block :
              pin'[c] = IF \E i \in 1..Len(lh') : lh'[i] = c THEN 1 ELSE 0
        BY <2>a, <4>1, <4>2, <4>3, SMTT(30) DEF IInv, TypeOK, PinInv,
           PinnedWhileLogged, Recovering
      <4>5. PinnedWhileLogged'
        BY <1>12, <2>a, <4>4, SMTT(30) DEF PinnedWhileLogged, log_write
      <4>6. QED
        BY <1>12, <2>a, <4>1, <4>5, SMTT(30) DEF IInv, TypeOK, PinInv,
           Recovering, log_write, diskVars
    <3>3. QED
      BY <3>1, <3>2, SMTT(30)
  <2>5. CopyInv'
    BY <1>12, <2>a DEF CopyInv, log_write
  <2>6. QED BY <2>1, <2>2, <2>3, <2>4, <2>5, SMTT(30) DEF IInv
<1>13. ASSUME NEW b \in Block, CacheFill(b), ~panicked
      PROVE  IInv'
  <2>1. TypeOK'
    BY <1>13, SMTT(30) DEF IInv, CacheFill, TypeOK, diskVars, logVars, bounds
  <2>2. HeaderInv'
    BY <1>13, SMTT(30) DEF IInv, CacheFill, HeaderInv, Active, diskVars,
       logVars
  <2>3. CallInv'
    BY <1>13, SMTT(30) DEF IInv, CacheFill, CallInv, Recovering,
       SleeperHasWaker, Active, logVars
  <2>4. PinInv'
    BY <1>13, SMTT(30) DEF IInv, CacheFill, PinInv, PinnedWhileLogged,
       Recovering, diskVars, logVars
  <2>5. CopyInv'
    BY <1>13, SMTT(30) DEF IInv, CacheFill, TypeOK, CopyInv, Contents,
       diskVars, logVars
  <2>6. QED BY <2>1, <2>2, <2>3, <2>4, <2>5, SMTT(30) DEF IInv
<1>14. ASSUME NEW b \in Block, CacheRecycle(b), ~panicked
      PROVE  IInv'
  <2>1. TypeOK'
    BY <1>14 DEF IInv, CacheRecycle, TypeOK, diskVars, logVars, bounds
  <2>2. HeaderInv'
    BY <1>14, SMTT(30) DEF IInv, CacheRecycle, HeaderInv, Active, diskVars,
       logVars
  <2>3. CallInv'
    BY <1>14 DEF IInv, CacheRecycle, CallInv, Recovering, SleeperHasWaker,
       Active, logVars
  <2>4. PinInv'
    BY <1>14, SMTT(30) DEF IInv, CacheRecycle, PinInv, PinnedWhileLogged,
       Recovering, diskVars, logVars
  <2>5. CopyInv'
    <3>1. phase \in {"write_log", "write_head"} =>
            \A i \in 1..Len(lh) : lh[i] # b
      <4>1. pin[b] = 0
        BY <1>14 DEF CacheRecycle
      <4>2. QED
        BY <4>1 DEF IInv, PinInv, PinnedWhileLogged, Recovering
    <3>2. phase = "install" => \A i \in 1..Len(lh) : i > tail => lh[i] # b
      BY <1>14 DEF IInv, PinInv, PinnedWhileLogged, Recovering, CacheRecycle
    <3>3. phase = "write_log" => tail < Len(lh)
      BY DEF IInv, HeaderInv
    <3>4. QED
      BY <1>14, <3>1, <3>2, <3>3, SMTT(30) DEF IInv, TypeOK, CopyInv,
         CacheRecycle, diskVars, logVars
  <2>6. QED BY <2>1, <2>2, <2>3, <2>4, <2>5 DEF IInv
<1>15. ASSUME read_head, ~panicked
      PROVE  IInv'
  <2>1. TypeOK'
    BY <1>15 DEF IInv, read_head, Replayed, TypeOK, Phases, diskVars,
       cacheVars, bounds
  <2>2. HeaderInv'
    BY <1>15, SMTT(30) DEF IInv, read_head, Replayed, HeaderInv, diskVars
  <2>3. CallInv'
    BY <1>15, SMTT(30) DEF IInv, read_head, CallInv, CommitPhases, Recovering,
       SleeperHasWaker, Active
  <2>4. PinInv'
    BY <1>15, SMTT(30) DEF IInv, read_head, PinInv, PinnedWhileLogged,
       Recovering, diskVars, cacheVars
  <2>5. CopyInv'
    BY <1>15, SMTT(30) DEF IInv, read_head, HeaderInv, CopyInv
  <2>6. QED BY <2>1, <2>2, <2>3, <2>4, <2>5, SMTT(30) DEF IInv
<1>16. ASSUME recover_install, ~panicked
      PROVE  IInv'
  <2>1. TypeOK'
    <3>1. tail + 1 \in 1..Len(lh) /\ tail + 1 \in 1..LOGBLOCKS
      BY <1>16 DEF IInv, TypeOK, HeaderInv, recover_install
    <3>2. lh[tail + 1] \in Block /\ logdisk[tail + 1] \in Contents
      BY <3>1 DEF IInv, TypeOK
    <3>3. tail' \in 0..LOGBLOCKS /\ phase' \in Phases
      BY <1>16, <3>1 DEF recover_install, Advance, Phases
    <3>4. QED
      BY <1>16, <3>2, <3>3, SMTT(30) DEF IInv, TypeOK, recover_install,
         Install, logVars, bounds
  <2>2. HeaderInv'
    BY <1>16 DEF IInv, recover_install, Advance, HeaderInv, logVars
  <2>3. CallInv'
    BY <1>16, SMTT(30) DEF IInv, recover_install, Advance, CallInv,
       CommitPhases, Recovering, SleeperHasWaker, Active, logVars
  <2>4. PinInv'
    BY <1>16, SMTT(30) DEF IInv, recover_install, Advance, Install, TypeOK,
       PinInv, PinnedWhileLogged, Recovering
  <2>5. CopyInv'
    BY <1>16, SMTT(30) DEF IInv, recover_install, Advance, Install, TypeOK,
       HeaderInv, PinInv, CopyInv, PinnedWhileLogged, Recovering, logVars
  <2>6. QED BY <2>1, <2>2, <2>3, <2>4, <2>5 DEF IInv
<1>17. ASSUME recover_erase, ~panicked
      PROVE  IInv'
  <2>1. TypeOK'
    BY <1>17 DEF IInv, recover_erase, TypeOK, Phases, cacheVars, bounds
  <2>2. HeaderInv'
    BY <1>17 DEF IInv, recover_erase, HeaderInv
  <2>3. CallInv'
    BY <1>17, SMTT(30) DEF IInv, recover_erase, CallInv, CommitPhases,
       Recovering, SleeperHasWaker, Active
  <2>4. PinInv'
    BY <1>17 DEF IInv, recover_erase, PinInv, PinnedWhileLogged, Recovering,
       cacheVars
  <2>5. CopyInv'
    BY <1>17 DEF recover_erase, CopyInv
  <2>6. QED BY <2>1, <2>2, <2>3, <2>4, <2>5 DEF IInv
<1>18. ASSUME Crash
      PROVE  IInv'
  <2>1. TypeOK'
    <3>1. phase \in {"write_log", "install", "recover_install"} =>
            /\ tail + 1 \in 1..LOGBLOCKS
            /\ lh[tail + 1] \in Block
      BY DEF IInv, TypeOK, HeaderInv
    <3>2. disk' \in [Block -> Contents]
      BY <1>18, Zenon DEF IInv, TypeOK, Crash, diskVars, Contents
    <3>3. logdisk' \in [1..LOGBLOCKS -> Contents] /\ head' = head
      BY <1>18 DEF IInv, TypeOK, Crash, diskVars, Contents
    <3>4. /\ cache' \in [Block -> Contents \cup {Absent}]
          /\ pin' \in [Block -> Nat]
          /\ pc' \in [Process -> {"out", "begin", "asleep", "op", "commit"}]
          /\ wrote' \in [Process -> SUBSET Block]
      BY <1>18 DEF Crash
    <3>5. lh' \in Seq(Block) /\ Len(lh') <= LOGBLOCKS
      BY <1>18, SMTT(30) DEF Crash
    <3>6. crashes' \in 0..MaxCrashes /\ phase' \in Phases /\ tail' \in 0..LOGBLOCKS
      BY <1>18, SMTT(30) DEF IInv, TypeOK, Crash, Phases
    <3>7. QED
      BY <1>18, <3>2, <3>3, <3>5, <3>6, ZenonT(40) DEF IInv, TypeOK, Crash
  <2>2. HeaderInv'
    BY <1>18, SMTT(30) DEF IInv, Crash, HeaderInv, diskVars
  <2>3. CallInv'
    <3>1. Active' = {}
      BY <1>18 DEF Crash, Active
    <3>2. Cardinality(Active') = 0
      BY <3>1, FS_EmptySet, SMTT(30)
    <3>3. QED
      BY <1>18, <3>2 DEF Crash, CallInv, CommitPhases, SleeperHasWaker
  <2>4. PinInv'
    BY <1>18 DEF Crash, PinInv, PinnedWhileLogged
  <2>5. CopyInv'
    BY <1>18, SMTT(20) DEF Crash, CopyInv
  <2>6. QED BY <2>1, <2>2, <2>3, <2>4, <2>5 DEF IInv
<1>19. CASE UNCHANGED vars
  <2>0. /\ disk' = disk /\ logdisk' = logdisk /\ head' = head
        /\ cache' = cache /\ pin' = pin /\ lh' = lh
        /\ outstanding' = outstanding /\ committing' = committing
        /\ pc' = pc /\ wrote' = wrote /\ phase' = phase /\ tail' = tail
        /\ ops' = ops /\ crashes' = crashes /\ panicked' = panicked
    BY <1>19 DEF vars, diskVars, cacheVars, logVars, bounds
  <2>1. TypeOK'
    BY <2>0 DEF IInv, TypeOK
  <2>2. HeaderInv'
    BY <2>0 DEF IInv, HeaderInv, Active
  <2>3. CallInv'
    BY <2>0 DEF IInv, CallInv, Active, Recovering, SleeperHasWaker
  <2>4. PinInv'
    BY <2>0 DEF IInv, PinInv, PinnedWhileLogged, Recovering
  <2>5. CopyInv'
    BY <2>0 DEF IInv, CopyInv
  <2>6. QED BY <2>1, <2>2, <2>3, <2>4, <2>5 DEF IInv
<1>20. QED BY <1>1, <1>2, <1>3, <1>4, <1>5, <1>6, <1>7, <1>8, <1>9, <1>10,
     <1>11, <1>12, <1>13, <1>14, <1>15, <1>16, <1>17, <1>18, <1>19, SMTT(30)
     DEF Next,
     Running, Step, commit, recover_from_log

\* The inductive invariant holds in every behaviour of the log.
LEMMA SpecIInv == Spec => []IInv
<1>1. IInv /\ [Next]_vars => IInv'
  BY StepIInv
<1>2. QED
  BY <1>1, InitIInv, PTL DEF Spec

(***************************************************************************)
(* Type correctness.                                                        *)
(***************************************************************************)
THEOREM TypeCorrect == Spec => []TypeOK
<1>1. IInv => TypeOK
  BY DEF IInv
<1>2. QED
  BY <1>1, SpecIInv, PTL

(***************************************************************************)
(* No process sleeps in begin_op without an end_op still to come that wakes *)
(* it, whatever the sizes of the log and of the system calls.               *)
(***************************************************************************)
THEOREM NobodySleepsForever == Spec => []SleeperHasWaker
<1>1. IInv => SleeperHasWaker
  BY DEF IInv, CallInv
<1>2. QED
  BY <1>1, SpecIInv, PTL

(***************************************************************************)
(* log_write's bpin and install_trans's bunpin match: a buffer has the      *)
(* log's reference exactly while its block waits to be installed.           *)
(***************************************************************************)
THEOREM PinsMatch == Spec => []PinnedWhileLogged
<1>1. IInv => PinnedWhileLogged
  BY DEF IInv, PinInv
<1>2. QED
  BY <1>1, SpecIInv, PTL
=============================================================================
