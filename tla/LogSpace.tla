------------------------------- MODULE LogSpace -------------------------------
(***************************************************************************)
(* That begin_op's reservation is large enough for every log_write.         *)
(***************************************************************************)
EXTENDS LogProofs

(***************************************************************************)
(* The blocks the active system calls may still write: begin_op reserved    *)
(* MAXOPBLOCKS for each.                                                    *)
(***************************************************************************)
Unwritten ==
  {s \in Process \X (1..MAXOPBLOCKS) :
     pc[s[1]] = "op" /\ s[2] > Cardinality(wrote[s[1]])}

SpaceInv ==
  /\ Len(lh) + Cardinality(Unwritten) <= LOGBLOCKS
  /\ \A p \in Process :
       /\ IsFiniteSet(wrote[p])
       /\ Cardinality(wrote[p]) <= OpBlocks
       /\ pc[p] = "op" => \A b \in wrote[p] : Logged(b)
       /\ pc[p] # "op" => wrote[p] = {}
  /\ ~panicked

----------------------------------------------------------------------------
(***************************************************************************)
(* The space in the log.                                                    *)
(***************************************************************************)
LEMMA SlotsCount ==
  ASSUME NEW S \in SUBSET Process
  PROVE  /\ IsFiniteSet(S \X (1..MAXOPBLOCKS))
         /\ Cardinality(S \X (1..MAXOPBLOCKS)) = Cardinality(S) * MAXOPBLOCKS
<1>1. IsFiniteSet(S)
  BY LogAssumption, FS_Subset
<1>2. IsFiniteSet(1..MAXOPBLOCKS) /\ Cardinality(1..MAXOPBLOCKS) = MAXOPBLOCKS
  BY LogAssumption, FS_Interval
<1>3. QED
  BY <1>1, <1>2, FS_Product, Zenon

\* The writes still to come are finitely many.
LEMMA UnwrittenFinite ==
  /\ IsFiniteSet(Unwritten) /\ Cardinality(Unwritten) \in Nat
  /\ IsFiniteSet(Unwritten') /\ Cardinality(Unwritten') \in Nat
<1>1. /\ Unwritten \in SUBSET (Process \X (1..MAXOPBLOCKS))
      /\ Unwritten' \in SUBSET (Process \X (1..MAXOPBLOCKS))
  BY DEF Unwritten
<1>2. IsFiniteSet(Process \X (1..MAXOPBLOCKS))
  BY SlotsCount
<1>3. IsFiniteSet(Unwritten) /\ IsFiniteSet(Unwritten')
  BY <1>1, <1>2, FS_Subset
<1>4. QED
  BY <1>3, FS_CardinalityType

(***************************************************************************)
(* A step that gives the system calls nothing more to write, and the log    *)
(* nothing more to hold, keeps the space.                                   *)
(***************************************************************************)
LEMMA SpaceKept ==
  ASSUME IInv, IInv', SpaceInv, ~panicked',
         Len(lh') <= Len(lh), Unwritten' \in SUBSET Unwritten,
         \A p \in Process : \/ wrote'[p] = {}
                            \/ /\ wrote'[p] = wrote[p] /\ lh' = lh
                               /\ pc[p] = "op" /\ pc'[p] = "op"
  PROVE  SpaceInv'
<1>1. Cardinality(Unwritten') <= Cardinality(Unwritten)
  BY UnwrittenFinite, FS_Subset
<1>2. Len(lh') + Cardinality(Unwritten') <= LOGBLOCKS
  BY <1>1, UnwrittenFinite, LogAssumption DEF SpaceInv
<1>3. ASSUME NEW p \in Process
      PROVE  /\ IsFiniteSet(wrote'[p])
             /\ Cardinality(wrote'[p]) <= OpBlocks
             /\ pc'[p] = "op" => \A b \in wrote'[p] : Logged(b)'
             /\ pc'[p] # "op" => wrote'[p] = {}
  <2>1. CASE wrote'[p] = {}
    <3>1. IsFiniteSet({}) /\ Cardinality({}) = 0
      BY FS_EmptySet
    <3>2. QED
      BY <2>1, <3>1, LogAssumption
  <2>2. CASE wrote'[p] = wrote[p] /\ lh' = lh /\ pc[p] = "op" /\ pc'[p] = "op"
    BY <2>2 DEF SpaceInv, Logged
  <2>3. QED
    BY <2>1, <2>2
<1>4. QED
  BY <1>2, <1>3 DEF SpaceInv

\* Nothing is reserved at the first boot.
LEMMA InitSpace == Init => SpaceInv
<1> SUFFICES ASSUME Init PROVE SpaceInv
  OBVIOUS
<1>1. Unwritten = {}
  BY DEF Init, Unwritten
<1>2. IsFiniteSet({}) /\ Cardinality({}) = 0
  BY FS_EmptySet
<1>3. QED
  BY <1>1, <1>2, LogAssumption DEF Init, SpaceInv

\* Every step keeps the reservations within the log.
LEMMA StepSpace ==
  ASSUME OpBlocks < MAXOPBLOCKS, IInv, IInv', SpaceInv, [Next]_vars
  PROVE  SpaceInv'
<1> USE LogAssumption
<1>1. ASSUME NEW p \in Process, begin_op_enter(p) PROVE SpaceInv'
  <2>1. wrote' = wrote /\ lh' = lh /\ pc' = [pc EXCEPT ![p] = "op"] /\ ~panicked'
    BY <1>1 DEF begin_op_enter, SpaceInv
  <2>2. Unwritten' \in SUBSET (Active' \X (1..MAXOPBLOCKS))
    BY DEF Unwritten, Active
  <2>3. Cardinality(Unwritten') <= Cardinality(Active') * MAXOPBLOCKS
    <3>1. Active' \in SUBSET Process
      BY DEF Active
    <3> DEFINE slots == Active' \X (1..MAXOPBLOCKS)
    <3>2. /\ IsFiniteSet(slots)
          /\ Cardinality(slots) = Cardinality(Active') * MAXOPBLOCKS
      BY <3>1, SlotsCount, Zenon
    <3>3. Unwritten' \in SUBSET slots
      BY <2>2
    <3> HIDE DEF slots
    <3>4. Cardinality(Unwritten') <= Cardinality(slots)
      BY <3>2, <3>3, FS_Subset
    <3>5. QED
      BY <3>2, <3>4
  <2>4. Cardinality(Active') = outstanding + 1
    BY <1>1 DEF IInv, CallInv, begin_op_enter
  <2>5. Len(lh) + (outstanding + 1) * MAXOPBLOCKS <= LOGBLOCKS
    BY <1>1 DEF begin_op_enter, HasRoom
  <2>6. Len(lh') + Cardinality(Unwritten') <= LOGBLOCKS
    <3> DEFINE room == (outstanding + 1) * MAXOPBLOCKS
    <3>1. room \in Nat /\ Cardinality(Unwritten') <= room
      BY <2>3, <2>4 DEF IInv, TypeOK
    <3>2. Len(lh) + room <= LOGBLOCKS /\ Len(lh) \in Nat
      BY <2>5
    <3> HIDE DEF room
    <3>3. QED
      BY <2>1, <3>1, <3>2, UnwrittenFinite
  <2>7. \A q \in Process : pc'[q] # "op" => pc[q] # "op"
    BY <2>1
  <2>8. \A q \in Process : pc'[q] = "op" => \A b \in wrote[q] : Logged(b)'
    BY <2>1 DEF SpaceInv, Logged
  <2>9. QED
    BY <2>1, <2>6, <2>8 DEF SpaceInv
<1>2. ASSUME NEW p \in Process, NEW b \in Block, NEW v \in Val, log_write(p, b, v)
      PROVE  SpaceInv'
  <2>1. /\ pc[p] = "op" /\ pc' = pc /\ outstanding' = outstanding
        /\ wrote' = [wrote EXCEPT ![p] = @ \cup {b}]
        /\ Cardinality(wrote[p] \cup {b}) <= OpBlocks
    BY <1>2 DEF log_write
  <2> DEFINE k == Cardinality(wrote[p])
  <2>2. IsFiniteSet(wrote[p]) /\ k \in Nat /\ k <= OpBlocks
    BY FS_CardinalityType DEF SpaceInv
  <2>3. k + 1 \in 1..MAXOPBLOCKS /\ <<p, k + 1>> \in Unwritten
    BY <2>1, <2>2 DEF Unwritten
  <2>4. Cardinality(Unwritten \ {<<p, k + 1>>}) = Cardinality(Unwritten) - 1
    BY <2>3, UnwrittenFinite, FS_RemoveElement, Zenon
  <2>5. Cardinality(Unwritten) >= 1
    <3>1. Cardinality(Unwritten) # 0
      BY <2>3, UnwrittenFinite, FS_EmptySet
    <3>2. QED
      BY <3>1, UnwrittenFinite
  <2>6. Len(lh) < LOGBLOCKS
    BY <2>5, UnwrittenFinite DEF SpaceInv
  <2>7. outstanding >= 1
    <3>1. Active # {}
      BY <2>1 DEF Active
    <3>2. QED
      BY <3>1, ActiveFinite DEF IInv, CallInv
  <2>8. ~panicked'
    <3>1. ~(Len(lh) >= LOGBLOCKS) /\ ~(outstanding < 1)
      BY <2>6, <2>7, SMTT(30) DEF IInv, TypeOK
    <3>2. QED
      BY <1>2, <3>1, Zenon DEF log_write
  <2>9. IF Logged(b) THEN lh' = lh ELSE lh' = Append(lh, b)
    BY <1>2, <2>8 DEF log_write
  <2>10. /\ \A c \in Block : Logged(c) => Logged(c)'
         /\ Logged(b)'
    <3>1. CASE Logged(b)
      BY <2>9, SMTT(30) DEF Logged
    <3>2. CASE lh' = Append(lh, b)
      <4>1. Len(lh') = Len(lh) + 1 /\ Len(lh) \in Nat
        BY <3>2
      <4>2. /\ lh'[Len(lh) + 1] = b
            /\ \A i \in 1..Len(lh) : lh'[i] = lh[i]
        BY <3>2
      <4>3. QED
        BY <4>1, <4>2 DEF Logged
    <3>3. QED
      BY <2>9, <3>1, <3>2
  <2>11. Len(lh') + Cardinality(Unwritten') <= LOGBLOCKS
    <3>1. CASE b \in wrote[p]
      <4>1. wrote' = wrote
        BY <2>1, <3>1, SMTT(30) DEF IInv, TypeOK
      <4>2. Unwritten' = Unwritten
        BY <2>1, <4>1, SMTT(30) DEF Unwritten
      <4>3. Logged(b)
        BY <3>1 DEF SpaceInv
      <4>4. QED
        BY <2>9, <4>2, <4>3 DEF SpaceInv
    <3>2. CASE b \notin wrote[p]
      <4>1. Cardinality(wrote'[p]) = k + 1
        <5>1. wrote'[p] = wrote[p] \cup {b}
          BY <2>1 DEF IInv, TypeOK
        <5>2. Cardinality(wrote[p] \cup {b}) = k + 1
          BY <2>2, <3>2, FS_AddElement, Zenon
        <5>3. QED
          BY <5>1, <5>2
      <4>2. \A q \in Process : q # p => wrote'[q] = wrote[q]
        BY <2>1
      <4> HIDE DEF k
      <4>3. \A q \in Process, i \in 1..MAXOPBLOCKS :
              <<q, i>> \in Unwritten'
                <=> <<q, i>> \in Unwritten /\ <<q, i>> # <<p, k + 1>>
        <5> SUFFICES ASSUME NEW q \in Process, NEW i \in 1..MAXOPBLOCKS
                     PROVE  <<q, i>> \in Unwritten'
                              <=> <<q, i>> \in Unwritten /\ <<q, i>> # <<p, k + 1>>
          OBVIOUS
        <5>1. <<q, i>> \in Unwritten <=> pc[q] = "op" /\ i > Cardinality(wrote[q])
          BY DEF Unwritten
        <5>2. <<q, i>> \in Unwritten' <=> pc[q] = "op" /\ i > Cardinality(wrote'[q])
          BY <2>1 DEF Unwritten
        <5>3. CASE q = p
          BY <5>1, <5>2, <5>3, <4>1, <2>2, SMTT(30) DEF k
        <5>4. CASE q # p
          BY <5>1, <5>2, <5>4, <4>2
        <5>5. QED
          BY <5>3, <5>4
      <4>4. Unwritten' = Unwritten \ {<<p, k + 1>>}
        BY <4>3 DEF Unwritten
      <4>5. Len(lh') <= Len(lh) + 1 /\ Len(lh') \in Nat /\ Len(lh) \in Nat
        BY <2>9
      <4>6. QED
        BY <2>4, <4>4, <4>5, UnwrittenFinite, SMTT(30) DEF SpaceInv
    <3>3. QED
      BY <3>1, <3>2
  <2>12. ASSUME NEW q \in Process
         PROVE  /\ IsFiniteSet(wrote'[q])
                /\ Cardinality(wrote'[q]) <= OpBlocks
                /\ pc'[q] = "op" => \A c \in wrote'[q] : Logged(c)'
                /\ pc'[q] # "op" => wrote'[q] = {}
    <3>1. CASE q = p
      <4>1. wrote'[p] = wrote[p] \cup {b} /\ wrote[p] \in SUBSET Block
        BY <2>1 DEF IInv, TypeOK
      <4>2. IsFiniteSet(wrote'[p]) /\ Cardinality(wrote'[p]) <= OpBlocks
        <5>1. IsFiniteSet(wrote[p] \cup {b})
          BY <2>2, FS_AddElement, ZenonT(40)
        <5>2. QED
          BY <2>1, <4>1, <5>1
      <4>3. \A c \in wrote'[p] : Logged(c)'
        BY <2>10, <4>1, SMTT(30) DEF SpaceInv
      <4>4. QED
        BY <2>1, <3>1, <4>2, <4>3
    <3>2. CASE q # p
      <4>1. wrote'[q] = wrote[q] /\ wrote[q] \in SUBSET Block
        BY <2>1, <3>2, SMTT(30) DEF IInv, TypeOK
      <4>2. QED
        BY <2>1, <2>10, <4>1, SMTT(30) DEF SpaceInv
    <3>3. QED
      BY <3>1, <3>2
  <2>13. QED
    BY <2>8, <2>11, <2>12 DEF SpaceInv
<1>3. ASSUME NEW p \in Process, end_op(p) \/ end_op_last(p) PROVE SpaceInv'
  <2>1. /\ lh' = lh /\ wrote' = [wrote EXCEPT ![p] = {}]
        /\ \A q \in Process : pc'[q] = "op" <=> pc[q] = "op" /\ q # p
    BY <1>3, SMTT(30) DEF IInv, TypeOK, end_op, end_op_last, Woken
  <2>2. ~panicked'
    BY <1>3 DEF IInv, CallInv, end_op, end_op_last
  <2>3. Unwritten' \in SUBSET Unwritten
    BY <2>1, SMTT(30) DEF Unwritten
  <2>4. \A q \in Process : \/ wrote'[q] = {}
                           \/ /\ wrote'[q] = wrote[q] /\ lh' = lh
                              /\ pc[q] = "op" /\ pc'[q] = "op"
    BY <2>1, SMTT(30) DEF IInv, TypeOK, SpaceInv
  <2>5. QED
    BY <2>1, <2>2, <2>3, <2>4, SpaceKept, SMTT(30)
<1>4. ASSUME /\ lh' = lh /\ wrote' = wrote /\ panicked' = panicked
             /\ \A q \in Process : pc'[q] = "op" <=> pc[q] = "op"
      PROVE  SpaceInv'
  <2>1. Unwritten' = Unwritten
    BY <1>4 DEF Unwritten
  <2>2. QED
    BY <1>4, <2>1 DEF SpaceInv, Logged
<1>5. ASSUME NEW p \in Process, erase(p) PROVE SpaceInv'
  <2>1. Active = {}
    BY <1>5 DEF IInv, CallInv, erase
  <2>2. Unwritten' = Unwritten /\ \A q \in Process : wrote'[q] = {}
    BY <1>5, <2>1 DEF erase, Unwritten, SpaceInv, Active
  <2>3. Len(lh') = 0 /\ ~panicked'
    BY <1>5, SMTT(30) DEF erase, SpaceInv
  <2>4. QED
    BY <2>2, <2>3, SpaceKept, SMTT(30)
<1>6. ASSUME read_head \/ recover_erase \/ Crash PROVE SpaceInv'
  <2>1. (\A q \in Process : pc'[q] = "out" /\ wrote'[q] = {}) /\ ~panicked'
    BY <1>6 DEF IInv, CallInv, Recovering, SpaceInv, read_head, recover_erase,
       Crash
  <2>2. Unwritten' = {}
    BY <2>1 DEF Unwritten
  <2>3. IsFiniteSet({}) /\ Cardinality({}) = 0
    BY FS_EmptySet
  <2>4. Len(lh') \in Nat /\ Len(lh') <= LOGBLOCKS
    BY DEF IInv, TypeOK
  <2>5. Len(lh') + Cardinality(Unwritten') <= LOGBLOCKS
    BY <2>2, <2>3, <2>4, SMTT(30)
  <2>6. \A q \in Process : IsFiniteSet(wrote'[q]) /\ Cardinality(wrote'[q]) <= OpBlocks
    BY <2>1, <2>3
  <2>7. QED
    BY <2>1, <2>5, <2>6, SMTT(30) DEF SpaceInv
<1>7. ASSUME NEW p \in Process,
             \/ begin_op_sleep(p) \/ kkill(p) \/ Call(p)
             \/ write_log(p) \/ write_head(p) \/ install_trans(p)
             \/ end_op_finish(p)
      PROVE  SpaceInv'
  <2>1. lh' = lh /\ wrote' = wrote /\ panicked' = panicked
    BY <1>7, SMTT(30) DEF begin_op_sleep, kkill, Call, write_log, write_head,
       install_trans, end_op_finish, logVars
  <2>2. \A q \in Process : pc'[q] = "op" <=> pc[q] = "op"
    BY <1>7, SMTT(30) DEF IInv, TypeOK, begin_op_sleep, kkill, Call, write_log,
       write_head, install_trans, end_op_finish, Woken
  <2>3. QED
    BY <2>1, <2>2, <1>4, SMTT(30)
<1>8. ASSUME NEW b \in Block, CacheFill(b) \/ CacheRecycle(b) PROVE SpaceInv'
  BY <1>8, <1>4 DEF CacheFill, CacheRecycle, logVars
<1>9. CASE recover_install
  BY <1>9, <1>4 DEF recover_install, logVars
<1>10. CASE UNCHANGED vars
  BY <1>10, <1>4 DEF vars, logVars
<1>11. QED
  BY <1>1, <1>2, <1>3, <1>5, <1>6, <1>7, <1>8, <1>9, <1>10, SMTT(30) DEF Next,
     Running, Step, commit, recover_from_log

(***************************************************************************)
(* begin_op's reservation is enough: as long as a system call writes fewer  *)
(* than MAXOPBLOCKS blocks, neither "too big a transaction" nor any other   *)
(* panic of the log is reached, for every log size and number of callers.   *)
(* With exactly MAXOPBLOCKS it is not: see the run log_full.                *)
(***************************************************************************)
THEOREM ReservationSuffices ==
  ASSUME OpBlocks < MAXOPBLOCKS PROVE Spec => []NoPanic
<1>1. IInv /\ IInv' /\ SpaceInv /\ [Next]_vars => SpaceInv'
  BY StepSpace
<1>2. SpaceInv => NoPanic
  BY DEF SpaceInv, NoPanic
<1>3. QED
  BY <1>1, <1>2, InitSpace, SpecIInv, PTL DEF Spec
=============================================================================
