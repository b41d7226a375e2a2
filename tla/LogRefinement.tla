---------------------------- MODULE LogRefinement ----------------------------
(***************************************************************************)
(* That the log implements the transactional disk of Transactions, and that *)
(* nothing is left to lose when it is at rest.                              *)
(***************************************************************************)
EXTENDS LogProofs

(***************************************************************************)
(* What Replay computes: a header without repetitions is an index.          *)
(***************************************************************************)
LEMMA ReplayLogged ==
  ASSUME NEW h \in Seq(Block), NEW l, NEW d,
         \A i, j \in 1..Len(h) : h[i] = h[j] => i = j,
         NEW k \in 1..Len(h)
  PROVE  Replay(h, l, d)[h[k]] = l[k]
<1>1. h[k] \in Block
  OBVIOUS
<1>2. (CHOOSE i \in 1..Len(h) : h[i] = h[k]) = k
  OBVIOUS
<1>3. QED
  BY <1>1, Zenon DEF Replay

\* A block that is not in the log is read at home.
LEMMA ReplayHome ==
  ASSUME NEW h, NEW l, NEW d, NEW b \in Block,
         \A i \in 1..Len(h) : h[i] # b
  PROVE  Replay(h, l, d)[b] = d[b]
BY DEF Replay

\* Replaying an empty log changes nothing.
LEMMA ReplayNothing ==
  ASSUME NEW l, NEW d \in [Block -> Contents]
  PROVE  Replay(<<>>, l, d) = d
BY DEF Replay

\* Replaying is known when it is known for each block.
LEMMA ReplayEqual ==
  ASSUME NEW h, NEW l, NEW d, NEW f,
         f = [b \in Block |-> f[b]],
         \A b \in Block : Replay(h, l, d)[b] = f[b]
  PROVE  Replay(h, l, d) = f
BY ZenonT(40) DEF Replay

(***************************************************************************)
(* When every block of the log is at home, the log adds nothing.            *)
(***************************************************************************)
LEMMA ReplayInstalled ==
  ASSUME NEW h \in Seq(Block), NEW l, NEW d \in [Block -> Contents],
         \A i, j \in 1..Len(h) : h[i] = h[j] => i = j,
         \A i \in 1..Len(h) : d[h[i]] = l[i]
  PROVE  Replay(h, l, d) = d
<1>1. ASSUME NEW b \in Block PROVE Replay(h, l, d)[b] = d[b]
  <2>1. CASE \A i \in 1..Len(h) : h[i] # b
    BY <2>1, ReplayHome
  <2>2. CASE \E i \in 1..Len(h) : h[i] = b
    <3>1. PICK k \in 1..Len(h) : h[k] = b
      BY <2>2
    <3>2. QED
      BY <3>1, ReplayLogged
  <2>3. QED
    BY <2>1, <2>2
<1>2. QED
  BY <1>1, ReplayEqual

(***************************************************************************)
(* What is at home does not matter for a block that is in the log.          *)
(***************************************************************************)
LEMMA ReplayIgnoresHome ==
  ASSUME NEW h, NEW l, NEW d, NEW e,
         \A b \in Block : (\A i \in 1..Len(h) : h[i] # b) => d[b] = e[b]
  PROVE  Replay(h, l, d) = Replay(h, l, e)
BY DEF Replay

(***************************************************************************)
(* A system at rest has nothing to lose.                                    *)
(***************************************************************************)
LEMMA CleanView ==
  ASSUME IInv, ~panicked, \A b \in Block : pin[b] = 0 PROVE View = disk
<1>1. \A b \in Block : bread(b) = disk[b]
  BY DEF IInv, PinInv, bread
<1>2. QED
  BY <1>1 DEF IInv, TypeOK, View

(***************************************************************************)
(* end_op commits before it lets go: when no operation is outstanding and   *)
(* none is being committed, a crash loses nothing.                          *)
(***************************************************************************)
THEOREM RestIsDurable == Spec => []DurableAtRest
<1>1. IInv => DurableAtRest
  <2> SUFFICES ASSUME IInv, ~Recovering, outstanding = 0, ~committing
               PROVE  Durable = View
    BY DEF DurableAtRest
  <2>1. phase = "idle"
    BY DEF IInv, TypeOK, CallInv, CommitPhases, Recovering, Phases
  <2>2. Active = {}
    BY ActiveFinite DEF IInv, CallInv
  <2>3. lh = <<>> /\ head = <<>> /\ ~panicked
    BY <2>1, <2>2 DEF IInv, HeaderInv, CallInv
  <2>4. \A b \in Block : pin[b] = 0
    BY <2>3 DEF IInv, PinInv, PinnedWhileLogged
  <2>5. QED
    BY <2>3, <2>4, CleanView, ReplayNothing DEF Durable, IInv, TypeOK
<1>2. QED
  BY <1>1, SpecIInv, PTL

----------------------------------------------------------------------------
(***************************************************************************)
(* The refinement.  Most steps leave the abstract state alone.              *)
(***************************************************************************)
LEMMA SameAbstract ==
  ASSUME Durable' = Durable, Active' = Active, Recovering' <=> Recovering,
         Recovering \/ View' = View
  PROVE  UNCHANGED Abstract!vars
BY DEF Abstract!vars

\* The initial states correspond.
LEMMA InitRefines == ASSUME Init PROVE Abstract!Init
<1>1. head = <<>> /\ Recovering /\ Active = {}
  BY DEF Init, Recovering, Active
<1>2. disk \in [Block -> Contents]
  BY DEF Init, Contents
<1>3. Durable = disk
  BY <1>1, <1>2, ReplayNothing DEF Durable
<1>4. QED
  BY <1>1, <1>3 DEF Init, Abstract!Init

(***************************************************************************)
(* Every step of the log is a step of the transactional disk, or none.      *)
(***************************************************************************)
LEMMA StepRefines ==
  ASSUME IInv, IInv', [Next]_vars
  PROVE  [Abstract!Next]_(Abstract!vars)
<1> USE LogAssumption
<1>a. Durable = Replay(head, logdisk, disk) /\ Durable' = Replay(head', logdisk', disk')
  BY DEF Durable
<1>b. disk \in [Block -> Contents] /\ disk' \in [Block -> Contents]
  BY SMTT(30) DEF IInv, TypeOK
<1>1. ASSUME NEW p \in Process, begin_op_enter(p) PROVE Abstract!Next
  <2>1. Durable' = Durable /\ View' = View
    BY <1>1, <1>a DEF begin_op_enter, diskVars, cacheVars, View, bread
  <2>2. ~Recovering /\ ~Recovering'
    BY <1>1 DEF IInv, CallInv, begin_op_enter
  <2>3. p \notin Active /\ Active' = Active \cup {p}
    BY <1>1 DEF IInv, TypeOK, begin_op_enter, Active
  <2>4. Abstract!Begin(p)
    BY <2>1, <2>2, <2>3 DEF Abstract!Begin
  <2>5. QED
    BY <2>4 DEF Abstract!Next
<1>2. ASSUME NEW p \in Process, begin_op_sleep(p) \/ kkill(p) \/ Call(p)
      PROVE  UNCHANGED Abstract!vars
  <2>1. Durable' = Durable /\ View' = View /\ Recovering' = Recovering
    BY <1>2, <1>a DEF begin_op_sleep, kkill, Call, diskVars, cacheVars, View,
       bread, Recovering
  <2>2. Active' = Active
    BY <1>2, SMTT(30) DEF IInv, TypeOK, begin_op_sleep, kkill, Call, Active
  <2>3. QED
    BY <2>1, <2>2, SameAbstract, SMTT(30)
<1>3. ASSUME NEW p \in Process, end_op(p) \/ end_op_last(p) PROVE Abstract!Next
  <2>1. Durable' = Durable /\ View' = View
    BY <1>3, <1>a DEF end_op, end_op_last, diskVars, cacheVars, View, bread
  <2>2. ~Recovering /\ ~Recovering'
    BY <1>3 DEF IInv, CallInv, Recovering, end_op, end_op_last
  <2>3. p \in Active /\ Active' = Active \ {p}
    BY <1>3, SMTT(30) DEF IInv, TypeOK, end_op, end_op_last, Woken, Active
  <2>4. Abstract!End(p)
    BY <2>1, <2>2, <2>3 DEF Abstract!End
  <2>5. QED
    BY <2>4 DEF Abstract!Next
<1>4. ASSUME NEW p \in Process, write_log(p) PROVE UNCHANGED Abstract!vars
  <2>1. head = <<>> /\ head' = <<>> /\ disk' = disk
    BY <1>4 DEF IInv, HeaderInv, write_log
  <2>2. Durable' = Durable
    BY <2>1, <1>a, <1>b, ReplayNothing, SMTT(30)
  <2>3. lh[tail + 1] \in Block
    BY <1>4 DEF IInv, TypeOK, write_log
  <2>4. View' = View
    BY <1>4 DEF write_log, View, bread
  <2>5. Active' = Active /\ ~Recovering /\ ~Recovering'
    BY <1>4 DEF write_log, Active, Advance, Recovering
  <2>6. QED
    BY <2>2, <2>4, <2>5, SameAbstract
<1>5. ASSUME NEW p \in Process, write_head(p), ~panicked PROVE Abstract!Next
  <2>1. Active = {} /\ Active' = {} /\ ~Recovering /\ ~Recovering'
    BY <1>5 DEF IInv, CallInv, write_head
  <2>2. View' = View
    BY <1>5 DEF write_head, cacheVars, View, bread
  <2>3. Durable' = View
    <3>1. head' = lh /\ logdisk' = logdisk /\ disk' = disk
      BY <1>5 DEF write_head
    <3>2. ASSUME NEW b \in Block PROVE Replay(lh, logdisk, disk)[b] = View[b]
      <4>1. CASE \A i \in 1..Len(lh) : lh[i] # b
        <5>1. pin[b] = 0
          BY <4>1 DEF IInv, PinInv, PinnedWhileLogged
        <5>2. View[b] = disk[b]
          BY <5>1, <1>5 DEF IInv, PinInv, View, bread
        <5>3. QED
          BY <4>1, <5>2, ReplayHome, SMTT(30)
      <4>2. CASE \E i \in 1..Len(lh) : lh[i] = b
        <5>1. PICK k \in 1..Len(lh) : lh[k] = b
          BY <4>2, SMTT(30)
        <5>2. pin[b] = 1
          BY <5>1, <1>5, SMTT(30) DEF IInv, PinInv, PinnedWhileLogged,
             Recovering, write_head
        <5>3. View[b] = logdisk[k]
          BY <5>1, <5>2, <1>5 DEF IInv, PinInv, CopyInv, write_head, View,
             bread
        <5>4. QED
          <6>1. lh \in Seq(Block) /\ \A i, j \in 1..Len(lh) : lh[i] = lh[j] => i = j
            BY DEF IInv, TypeOK, HeaderInv
          <6>2. Replay(lh, logdisk, disk)[lh[k]] = logdisk[k]
            BY <6>1, ReplayLogged
          <6>3. QED
            BY <5>1, <5>3, <6>2, SMTT(30)
      <4>3. QED
        BY <4>1, <4>2
    <3>3. View = [b \in Block |-> View[b]]
      BY DEF View
    <3>4. Replay(lh, logdisk, disk) = View
      BY <3>2, <3>3, ReplayEqual
    <3>5. QED
      BY <3>1, <3>4, <1>a
  <2>4. Abstract!Commit
    BY <2>1, <2>2, <2>3, SMTT(30) DEF Abstract!Commit
  <2>5. QED
    BY <2>4 DEF Abstract!Next
<1>6. ASSUME NEW p \in Process, install_trans(p) PROVE UNCHANGED Abstract!vars
  <2>1. head = lh /\ head' = lh /\ logdisk' = logdisk
    BY <1>6, SMTT(30) DEF IInv, HeaderInv, install_trans
  <2>2. tail + 1 \in 1..Len(lh) /\ lh \in Seq(Block) /\ lh[tail + 1] \in Block
    BY <1>6, SMTT(20) DEF IInv, TypeOK, HeaderInv, install_trans
  <2>3. disk' = [disk EXCEPT ![lh[tail + 1]] = logdisk[tail + 1]]
    BY <1>6 DEF install_trans, Install
  <2>4. Durable' = Durable
    <3>1. /\ Durable = Replay(lh, logdisk, disk)
          /\ Durable' = Replay(lh, logdisk, disk')
      BY <2>1, <1>a
    <3>2. \A b \in Block :
            (\A i \in 1..Len(lh) : lh[i] # b) => disk'[b] = disk[b]
      BY <2>2, <2>3, SMTT(30)
    <3>3. QED
      BY <3>1, <3>2, ReplayIgnoresHome
  <2>5. pin[lh[tail + 1]] = 1
    BY <1>6, <2>2, SMTT(20) DEF IInv, TypeOK, PinInv, PinnedWhileLogged,
       Recovering, install_trans
  <2>6. cache[lh[tail + 1]] = logdisk[tail + 1] /\ cache[lh[tail + 1]] # Absent
    BY <1>6, <2>2, <2>5, SMTT(20) DEF IInv, TypeOK, PinInv, CopyInv,
       install_trans
  <2>7. cache' = cache
    BY <1>6, <2>6 DEF IInv, TypeOK, install_trans, Install
  <2>8. View' = View
    BY <2>3, <2>6, <2>7 DEF View, bread
  <2>9. Active' = Active /\ ~Recovering /\ ~Recovering'
    BY <1>6 DEF install_trans, Active, Advance, Recovering
  <2>10. QED
    BY <2>4, <2>8, <2>9, SameAbstract
<1>7. ASSUME NEW p \in Process, erase(p) PROVE UNCHANGED Abstract!vars
  <2>1. head = lh /\ head' = <<>> /\ disk' = disk /\ logdisk' = logdisk
    BY <1>7 DEF IInv, HeaderInv, erase
  <2>2. Durable = disk
    <3>1. /\ lh \in Seq(Block)
          /\ \A i, j \in 1..Len(lh) : lh[i] = lh[j] => i = j
          /\ \A i \in 1..Len(lh) : disk[lh[i]] = logdisk[i]
      BY <1>7, SMTT(30) DEF IInv, TypeOK, HeaderInv, CopyInv, erase
    <3>2. Replay(lh, logdisk, disk) = disk
      BY <3>1, <1>b, ReplayInstalled
    <3>3. QED
      BY <2>1, <3>2, <1>a, SMTT(30)
  <2>3. Durable' = disk
    BY <2>1, <1>a, <1>b, ReplayNothing, SMTT(30)
  <2>4. View' = View /\ Active' = Active /\ ~Recovering /\ ~Recovering'
    BY <1>7 DEF erase, cacheVars, View, bread, Active, Recovering
  <2>5. QED
    BY <2>2, <2>3, <2>4, SameAbstract, SMTT(30)
<1>8. ASSUME NEW p \in Process, end_op_finish(p) PROVE UNCHANGED Abstract!vars
  <2>1. Durable' = Durable /\ View' = View /\ ~Recovering /\ ~Recovering'
    BY <1>8, <1>a DEF end_op_finish, diskVars, cacheVars, View, bread,
       Recovering
  <2>2. Active' = Active
    BY <1>8 DEF end_op_finish, Woken, Active
  <2>3. QED
    BY <2>1, <2>2, SameAbstract, SMTT(30)
<1>9. ASSUME NEW p \in Process, NEW b \in Block, NEW v \in Val, log_write(p, b, v)
      PROVE  Abstract!Next
  <2>1. Durable' = Durable /\ Active' = Active
    BY <1>9, <1>a, SMTT(30) DEF log_write, diskVars, Active
  <2>2. ~Recovering /\ ~Recovering' /\ p \in Active
    BY <1>9 DEF IInv, CallInv, log_write, Active
  <2>3. View' = [View EXCEPT ![b] = v]
    BY <1>9, Zenon DEF IInv, TypeOK, log_write, diskVars, View, bread
  <2>4. Abstract!Write(p, b, v)
    BY <2>1, <2>2, <2>3 DEF Abstract!Write
  <2>5. QED
    BY <2>4, SMTT(30) DEF Abstract!Next
<1>10. ASSUME NEW b \in Block, CacheFill(b) \/ CacheRecycle(b), ~panicked
       PROVE  UNCHANGED Abstract!vars
  <2>1. /\ Durable' = Durable /\ Active' = Active /\ Recovering' = Recovering
        /\ disk' = disk
    BY <1>10, <1>a, SMTT(30) DEF CacheFill, CacheRecycle, diskVars, Active,
       Recovering
  <2>2. View' = View
    BY <1>10, <2>1, SMTT(20) DEF IInv, TypeOK, PinInv, CacheFill, CacheRecycle,
       View, bread
  <2>3. QED
    BY <2>1, <2>2, SameAbstract, SMTT(30)
<1>11. ASSUME read_head PROVE UNCHANGED Abstract!vars
  <2>1. Durable' = Durable /\ Active' = Active /\ Recovering /\ Recovering'
    BY <1>11, <1>a DEF read_head, diskVars, Active, Recovering
  <2>2. QED
    BY <2>1, SameAbstract
<1>12. ASSUME recover_install PROVE UNCHANGED Abstract!vars
  <2>1. head = lh /\ head' = lh /\ logdisk' = logdisk
    BY <1>12, SMTT(30) DEF IInv, HeaderInv, recover_install
  <2>2. tail + 1 \in 1..Len(lh) /\ lh \in Seq(Block)
    BY <1>12 DEF IInv, TypeOK, HeaderInv, recover_install
  <2>3. disk' = [disk EXCEPT ![lh[tail + 1]] = logdisk[tail + 1]]
    BY <1>12 DEF recover_install, Install
  <2>4. Durable' = Durable
    <3>1. /\ Durable = Replay(lh, logdisk, disk)
          /\ Durable' = Replay(lh, logdisk, disk')
      BY <2>1, <1>a
    <3>2. \A b \in Block :
            (\A i \in 1..Len(lh) : lh[i] # b) => disk'[b] = disk[b]
      BY <2>2, <2>3
    <3>3. QED
      BY <3>1, <3>2, ReplayIgnoresHome
  <2>5. Active' = Active /\ Recovering /\ Recovering'
    BY <1>12 DEF recover_install, Active, Advance, Recovering
  <2>6. QED
    BY <2>4, <2>5, SameAbstract
<1>13. ASSUME recover_erase, ~panicked PROVE UNCHANGED Abstract!vars
  <2>1. head = lh /\ head' = <<>> /\ disk' = disk /\ logdisk' = logdisk
    BY <1>13 DEF IInv, HeaderInv, recover_erase
  <2>2. Durable = disk
    <3>1. /\ lh \in Seq(Block)
          /\ \A i, j \in 1..Len(lh) : lh[i] = lh[j] => i = j
          /\ \A i \in 1..Len(lh) : disk[lh[i]] = logdisk[i]
      BY <1>13 DEF IInv, TypeOK, HeaderInv, CopyInv, recover_erase
    <3>2. Replay(lh, logdisk, disk) = disk
      BY <3>1, <1>b, ReplayInstalled
    <3>3. QED
      BY <2>1, <3>2, <1>a, SMTT(30)
  <2>3. Durable' = disk
    BY <2>1, <1>a, <1>b, ReplayNothing
  <2>4. \A b \in Block : pin[b] = 0
    BY <1>13 DEF IInv, PinInv, Recovering, recover_erase
  <2>5. View' = disk
    BY <1>13, <2>4, CleanView DEF recover_erase, cacheVars, View, bread
  <2>6. Active' = Active /\ Recovering /\ ~Recovering'
    BY <1>13 DEF recover_erase, Active, Recovering
  <2>7. QED
    BY <2>2, <2>3, <2>5, <2>6 DEF Abstract!vars
<1>14. ASSUME Crash PROVE Abstract!Next
  <2>1. Recovering' /\ Active' = {} /\ head' = head
    BY <1>14 DEF Crash, Recovering, Active, diskVars
  <2>2. Durable' = Durable
    <3>1. CASE UNCHANGED diskVars
      BY <3>1, <1>a DEF diskVars
    <3>2. CASE phase = "write_log" /\ UNCHANGED <<disk, head>>
      BY <3>2, <1>a, <1>b, ReplayNothing, SMTT(30) DEF IInv, HeaderInv
    <3>3. CASE /\ phase \in {"install", "recover_install"}
               /\ disk' = [disk EXCEPT ![lh[tail + 1]] = Torn]
               /\ UNCHANGED <<logdisk, head>>
      <4>1. head = lh /\ tail + 1 \in 1..Len(lh) /\ lh \in Seq(Block)
        <5>1. head = lh /\ tail < Len(lh)
          BY <3>3 DEF IInv, HeaderInv
        <5>2. QED
          BY <5>1 DEF IInv, TypeOK
      <4>2. /\ Durable = Replay(lh, logdisk, disk)
            /\ Durable' = Replay(lh, logdisk, disk')
        BY <3>3, <4>1, <1>a
      <4>3. \A b \in Block :
              (\A i \in 1..Len(lh) : lh[i] # b) => disk'[b] = disk[b]
        BY <3>3, <4>1
      <4>4. QED
        BY <4>2, <4>3, ReplayIgnoresHome
    <3>4. QED
      BY <1>14, <3>1, <3>2, <3>3 DEF Crash
  <2>3. Abstract!Crash
    BY <2>1, <2>2 DEF Abstract!Crash
  <2>4. QED
    BY <2>3 DEF Abstract!Next
<1>15. CASE UNCHANGED vars
  <2>1. /\ Durable' = Durable /\ View' = View /\ Active' = Active
        /\ Recovering' = Recovering
    BY <1>15, <1>a DEF vars, diskVars, cacheVars, View, bread, Active,
       Recovering
  <2>2. QED
    BY <2>1, SameAbstract
<1>16. QED
  BY <1>1, <1>2, <1>3, <1>4, <1>5, <1>6, <1>7, <1>8, <1>9, <1>10, <1>11, <1>12,
     <1>13, <1>14, <1>15
  DEF Next, Running, Step, commit, recover_from_log

(***************************************************************************)
(* The log implements the transactional disk: for any number of processes,  *)
(* blocks and log entries, and whatever crashes at whatever points, torn    *)
(* writes and repeated recovery included, a system call's writes reach the  *)
(* disk all or none.                                                        *)
(***************************************************************************)
THEOREM LogIsCrashAtomic == Spec => CrashAtomic
<1>1. Init => Abstract!Init
  BY InitRefines
<1>2. IInv /\ IInv' /\ [Next]_vars => [Abstract!Next]_(Abstract!vars)
  BY StepRefines
<1>3. QED
  BY <1>1, <1>2, SpecIInv, PTL DEF Spec, CrashAtomic, Abstract!Spec
=============================================================================
