-------------------------- MODULE BcacheRefinement --------------------------
(***************************************************************************)
(* That the buffer cache is invisible: Bcache implements BlockStore.        *)
(***************************************************************************)
EXTENDS BcacheProofs

\* A block's current contents are in its valid buffer, else on the disk.
ValueFact ==
  /\ Value = [b \in Block |-> Value[b]]
  /\ \A b \in Block :
       /\ \A f \in Buf : block[f] = b /\ valid[f] => Value[b] = data[f]
       /\ (\A f \in Buf : block[f] = b => ~valid[f]) => Value[b] = disk[b]

\* A block's holder is the process that has its buffer's sleep lock.
HolderFact ==
  /\ Holder = [b \in Block |-> Holder[b]]
  /\ \A b \in Block :
       /\ \A p \in Proc : Holds(p) /\ want[p] = b => Holder[b] = p
       /\ (\A p \in Proc : Holds(p) => want[p] # b) => Holder[b] = NoOne

\* The value of a block, from the invariant.
LEMMA ValueNow == IInv => ValueFact
<1> SUFFICES ASSUME IInv PROVE ValueFact
  OBVIOUS
<1>1. Value = [b \in Block |-> Value[b]]
  BY DEF Value
<1>2. ASSUME NEW b \in Block, NEW f \in Buf, block[f] = b, valid[f]
      PROVE  Value[b] = data[f]
  <2>1. b # NoOne
    BY BcacheAssumption
  <2>2. {g \in Cached(b) : valid[g]} = {f}
    BY <1>2, <2>1 DEF IInv, OneBuffer, Cached
  <2>3. QED
    BY <2>2 DEF Value
<1>3. ASSUME NEW b \in Block, \A f \in Buf : block[f] = b => ~valid[f]
      PROVE  Value[b] = disk[b]
  <2>1. {g \in Cached(b) : valid[g]} = {}
    BY <1>3 DEF Cached
  <2>2. QED
    BY <2>1 DEF Value
<1>4. QED
  BY <1>1, <1>2, <1>3 DEF ValueFact

\* The same, after a step.
LEMMA ValueThen == IInv' => ValueFact'
BY ValueNow, PTL

\* Two processes never use the same block.
LEMMA OneHolder ==
  ASSUME IInv, NEW p \in Proc, NEW q \in Proc, Locked(p), Locked(q),
         want[p] = want[q]
  PROVE  p = q
<1>1. /\ buf[p] \in Buf /\ block[buf[p]] = want[p] /\ want[p] \in Block
      /\ buf[q] \in Buf /\ block[buf[q]] = want[q]
  BY InHand DEF Locked
<1>2. want[p] # NoOne
  BY <1>1, BcacheAssumption
<1>3. buf[p] = buf[q]
  BY <1>1, <1>2 DEF IInv, OneBuffer
<1>4. QED
  BY <1>1, <1>3 DEF IInv, OwnerInv

\* The holder of a block, from the invariant.
LEMMA HolderNow == IInv => HolderFact
<1> SUFFICES ASSUME IInv PROVE HolderFact
  OBVIOUS
<1>1. Holder = [b \in Block |-> Holder[b]]
  BY DEF Holder
<1>2. ASSUME NEW b \in Block, NEW p \in Proc, Holds(p), want[p] = b
      PROVE  Holder[b] = p
  <2>1. {q \in Proc : Holds(q) /\ want[q] = b} = {p}
    BY <1>2, OneHolder DEF Holds, Locked
  <2>2. QED
    BY <2>1 DEF Holder
<1>3. ASSUME NEW b \in Block, \A p \in Proc : Holds(p) => want[p] # b
      PROVE  Holder[b] = NoOne
  <2>1. {q \in Proc : Holds(q) /\ want[q] = b} = {}
    BY <1>3
  <2>2. QED
    BY <2>1 DEF Holder
<1>4. QED
  BY <1>1, <1>2, <1>3 DEF HolderFact

\* The same, after a step.
LEMMA HolderThen == IInv' => HolderFact'
BY HolderNow, PTL

----------------------------------------------------------------------------
(***************************************************************************)
(* What the actions do to the two abstract variables.                       *)
(***************************************************************************)
LEMMA ValueKept ==
  ASSUME UNCHANGED <<block, valid, data, disk>> PROVE UNCHANGED Value
BY DEF Value, Cached

\* The values as a whole are unchanged when each one is.
LEMMA ValueSame ==
  ASSUME ValueFact, ValueFact', \A b \in Block : Value'[b] = Value[b]
  PROVE  UNCHANGED Value
BY Zenon DEF ValueFact

\* The holders as a whole are unchanged when each one is.
LEMMA HolderSame ==
  ASSUME HolderFact, HolderFact', \A b \in Block : Holder'[b] = Holder[b]
  PROVE  UNCHANGED Holder
BY Zenon DEF HolderFact

\* The holders stay when no thread takes or leaves a lock.
LEMMA HolderKept ==
  ASSUME IInv, IInv', \A q \in Proc : Holds(q)' <=> Holds(q),
         \A q \in Proc : Holds(q) => want'[q] = want[q]
  PROVE  UNCHANGED Holder
<1>1. HolderFact /\ HolderFact'
  BY HolderNow, HolderThen
<1>2. ASSUME NEW b \in Block PROVE Holder'[b] = Holder[b]
  <2>1. CASE \E q \in Proc : Holds(q) /\ want[q] = b
    BY <1>1, <2>1 DEF HolderFact
  <2>2. CASE \A q \in Proc : Holds(q) => want[q] # b
    BY <1>1, <2>2 DEF HolderFact
  <2>3. QED
    BY <2>1, <2>2
<1>3. QED
  BY <1>1, <1>2, HolderSame

\* A process that gets to use its block finds it free and takes it.
LEMMA HolderTaken ==
  ASSUME IInv, IInv', NEW p \in Proc, ~Holds(p), Holds(p)', want' = want,
         want[p] \in Block, \A q \in Proc \ {p} : Holds(q)' <=> Holds(q)
  PROVE  /\ Holder[want[p]] = NoOne
         /\ Holder' = [Holder EXCEPT ![want[p]] = p]
<1>1. HolderFact /\ HolderFact'
  BY HolderNow, HolderThen
<1>2. Holder'[want[p]] = p
  BY <1>1 DEF HolderFact
<1>3. ASSUME NEW q \in Proc, Holds(q) PROVE want[q] # want[p]
  <2>1. q # p /\ Holds(q)'
    BY <1>3
  <2>2. QED
    BY <1>1, <1>2, <2>1 DEF HolderFact
<1>4. Holder[want[p]] = NoOne
  BY <1>1, <1>3 DEF HolderFact
<1>5. ASSUME NEW b \in Block, b # want[p] PROVE Holder'[b] = Holder[b]
  <2>1. CASE \E q \in Proc : Holds(q) /\ want[q] = b
    <3>1. PICK q \in Proc : Holds(q) /\ want[q] = b
      BY <2>1
    <3>2. Holds(q)' /\ want'[q] = b
      BY <3>1
    <3>3. QED
      BY <1>1, <3>1, <3>2 DEF HolderFact
  <2>2. CASE \A q \in Proc : Holds(q) => want[q] # b
    <3>1. \A q \in Proc : Holds(q)' => want'[q] # b
      BY <1>5, <2>2
    <3>2. QED
      BY <1>1, <2>2, <3>1 DEF HolderFact
  <2>3. QED
    BY <2>1, <2>2
<1>6. QED
  BY <1>1, <1>2, <1>4, <1>5 DEF HolderFact

\* The holder of a block lets it go.
LEMMA HolderGone ==
  ASSUME IInv, IInv', NEW p \in Proc, Holds(p), ~Holds(p)', want' = want,
         want[p] \in Block, \A q \in Proc \ {p} : Holds(q)' <=> Holds(q)
  PROVE  /\ Holder[want[p]] = p
         /\ Holder' = [Holder EXCEPT ![want[p]] = NoOne]
<1>1. HolderFact /\ HolderFact'
  BY HolderNow, HolderThen
<1>2. Holder[want[p]] = p
  BY <1>1 DEF HolderFact
<1>3. ASSUME NEW q \in Proc, Holds(q)' PROVE want'[q] # want[p]
  <2>1. q # p /\ Holds(q)
    BY <1>3
  <2>2. QED
    BY <1>1, <1>2, <2>1 DEF HolderFact
<1>4. Holder'[want[p]] = NoOne
  BY <1>1, <1>3 DEF HolderFact
<1>5. ASSUME NEW b \in Block, b # want[p] PROVE Holder'[b] = Holder[b]
  <2>1. CASE \E q \in Proc : Holds(q)' /\ want'[q] = b
    <3>1. PICK q \in Proc : Holds(q)' /\ want'[q] = b
      BY <2>1
    <3>2. Holds(q) /\ want[q] = b
      BY <3>1
    <3>3. QED
      BY <1>1, <3>1, <3>2 DEF HolderFact
  <2>2. CASE \A q \in Proc : Holds(q)' => want'[q] # b
    <3>1. \A q \in Proc : Holds(q) => want[q] # b
      BY <1>5, <2>2
    <3>2. QED
      BY <1>1, <2>2, <3>1 DEF HolderFact
  <2>3. QED
    BY <2>1, <2>2
<1>6. QED
  BY <1>1, <1>2, <1>4, <1>5 DEF HolderFact

\* A recycled buffer takes nothing along: what it held is on the disk.
LEMMA RecycleKeeps ==
  ASSUME IInv, IInv', NEW b \in Block, NEW f \in Buf,
         Cached(b) = {}, refcnt[f] = 0,
         block' = [block EXCEPT ![f] = b],
         valid' = [valid EXCEPT ![f] = FALSE], UNCHANGED <<data, disk>>
  PROVE  UNCHANGED Value
<1>1. ValueFact /\ ValueFact'
  BY ValueNow, ValueThen
<1>2. valid[f] => data[f] = disk[block[f]]
  BY Unreferenced DEF IInv, CleanInv, Dirty
<1>3. /\ block' \in [Buf -> Block \cup {NoOne}]
      /\ \A g \in Buf \ {f} : block'[g] = block[g]
  BY DEF IInv, TypeOK
<1>4. ~valid'[f] /\ \A g \in Buf \ {f} : valid'[g] = valid[g]
  BY DEF IInv, TypeOK
<1>5. ASSUME NEW c \in Block PROVE Value'[c] = Value[c]
  <2>1. CASE \E g \in Buf \ {f} : block[g] = c /\ valid[g]
    <3>1. PICK g \in Buf \ {f} : block[g] = c /\ valid[g]
      BY <2>1
    <3>2. block'[g] = c /\ valid'[g] /\ data'[g] = data[g]
      BY <1>3, <1>4, <3>1
    <3>3. QED
      BY <1>1, <3>1, <3>2 DEF ValueFact
  <2>2. CASE \A g \in Buf \ {f} : block[g] = c => ~valid[g]
    <3>1. \A g \in Buf : block'[g] = c => ~valid'[g]
      BY <1>3, <1>4, <2>2
    <3>2. Value'[c] = disk[c]
      BY <1>1, <3>1 DEF ValueFact
    <3>3. Value[c] = disk[c]
      <4>1. CASE valid[f] /\ block[f] = c
        BY <1>1, <1>2, <4>1 DEF ValueFact
      <4>2. CASE ~(valid[f] /\ block[f] = c)
        BY <1>1, <2>2, <4>2 DEF ValueFact
      <4>3. QED
        BY <4>1, <4>2
    <3>4. QED
      BY <3>2, <3>3
  <2>3. QED
    BY <2>1, <2>2
<1>6. QED
  BY <1>1, <1>5, ValueSame

----------------------------------------------------------------------------
(***************************************************************************)
(* Every step of the cache is a step of the block store, or invisible.      *)
(***************************************************************************)
LEMMA InitRefines == Init => Abstract!Init
<1> SUFFICES ASSUME Init PROVE Abstract!Init
  OBVIOUS
<1>1. IInv
  BY InitIInv
<1>2. ValueFact /\ HolderFact
  BY <1>1, ValueNow, HolderNow
<1>3. \A b \in Block : Value[b] = disk[b] /\ Holder[b] = NoOne
  BY <1>2 DEF Init, binit, ValueFact, HolderFact, Holds
<1>4. Value \in [Block -> Val]
  BY <1>1, <1>2, <1>3, Zenon DEF ValueFact, IInv, TypeOK
<1>5. Holder = [b \in Block |-> NoOne]
  BY <1>2, <1>3, Zenon DEF HolderFact
<1>6. QED
  BY <1>4, <1>5 DEF Abstract!Init

\* acquiresleep() takes the block, or is no step.
LEMMA AcquiresleepRefines ==
  ASSUME IInv, IInv', NEW p \in Proc, acquiresleep(p)
  PROVE  [Abstract!Next]_(Abstract!vars)
<1>1. pc[p] = "lock" /\ want[p] \in Block
  BY InHand DEF acquiresleep
<1>2. UNCHANGED Value
  BY ValueKept DEF acquiresleep, meta
<1>3. \A q \in Proc \ {p} : pc'[q] = pc[q]
  BY DEF acquiresleep, IInv, TypeOK
<1>4. want' = want
  BY DEF acquiresleep
<1>5. CASE pc'[p] = "use"
  <2>1. /\ Holder[want[p]] = NoOne
        /\ Holder' = [Holder EXCEPT ![want[p]] = p]
    BY <1>1, <1>3, <1>4, <1>5, HolderTaken DEF Holds
  <2>2. QED
    BY <1>1, <1>2, <2>1, Zenon DEF Abstract!Next, Abstract!Lock
<1>6. CASE pc'[p] # "use"
  <2>1. pc'[p] \in {"fill", "asleep"}
    BY <1>6 DEF acquiresleep, IInv, TypeOK
  <2>2. UNCHANGED Holder
    BY <1>1, <1>3, <1>4, <2>1, HolderKept DEF Holds
  <2>3. QED
    BY <1>2, <2>2 DEF Abstract!vars
<1>7. QED
  BY <1>5, <1>6

\* bread fills a buffer with the value the block already has.
LEMMA BreadRefines ==
  ASSUME IInv, IInv', NEW p \in Proc, bread(p)
  PROVE  Abstract!Next
<1>1. /\ pc[p] = "fill" /\ want[p] \in Block /\ buf[p] \in Buf
      /\ block[buf[p]] = want[p]
  BY InHand DEF bread
<1>2. /\ data' = [data EXCEPT ![buf[p]] = disk[block[buf[p]]]]
      /\ valid' = [valid EXCEPT ![buf[p]] = TRUE]
      /\ pc' = [pc EXCEPT ![p] = "use"]
      /\ block' = block /\ disk' = disk /\ want' = want
  BY DEF bread, meta
<1>3. ValueFact /\ ValueFact'
  BY ValueNow, ValueThen
<1>4. ASSUME NEW c \in Block PROVE Value'[c] = Value[c]
  <2>1. CASE c = want[p]
    <3>1. Value'[c] = disk[c]
      BY <1>1, <1>2, <1>3, <2>1 DEF ValueFact, IInv, TypeOK
    <3>2. c # NoOne
      BY BcacheAssumption
    <3>3. \A g \in Buf : block[g] = c => ~valid[g]
      BY <1>1, <2>1, <3>2 DEF IInv, OneBuffer, ValidInv
    <3>4. QED
      BY <1>3, <3>1, <3>3 DEF ValueFact
  <2>2. CASE c # want[p]
    <3>1. \A g \in Buf : block[g] = c =>
            /\ block'[g] = c /\ valid'[g] = valid[g] /\ data'[g] = data[g]
      BY <1>1, <1>2, <2>2, Zenon DEF IInv, TypeOK
    <3>2. CASE \E g \in Buf : block[g] = c /\ valid[g]
      BY <1>3, <3>1, <3>2 DEF ValueFact
    <3>3. CASE \A g \in Buf : block[g] = c => ~valid[g]
      BY <1>2, <1>3, <3>1, <3>3, Zenon DEF ValueFact
    <3>4. QED
      BY <3>2, <3>3
  <2>3. QED
    BY <2>1, <2>2
<1>5. UNCHANGED Value
  BY <1>3, <1>4, ValueSame
<1>6. /\ Holder[want[p]] = NoOne
      /\ Holder' = [Holder EXCEPT ![want[p]] = p]
  BY <1>1, <1>2, HolderTaken, ZenonT(30) DEF Holds, IInv, TypeOK
<1>7. QED
  BY <1>1, <1>5, <1>6, Zenon DEF Abstract!Next, Abstract!Lock

\* The holder writes the block.
LEMMA ModifyRefines ==
  ASSUME IInv, IInv', NEW p \in Proc, NEW v \in Val, Modify(p, v)
  PROVE  Abstract!Next
<1>1. /\ Holds(p) /\ valid[buf[p]] /\ want[p] \in Block
      /\ buf[p] \in Buf /\ block[buf[p]] = want[p]
  BY InHand DEF Modify, Holds, IInv, ValidInv
<1>2. /\ data' = [data EXCEPT ![buf[p]] = v]
      /\ pc' = [pc EXCEPT ![p] = "dirty"]
      /\ block' = block /\ valid' = valid /\ disk' = disk /\ want' = want
  BY DEF Modify, meta
<1>3. ValueFact /\ ValueFact' /\ HolderFact
  BY ValueNow, ValueThen, HolderNow
<1>4. Value'[want[p]] = v
  BY <1>1, <1>2, <1>3 DEF ValueFact, IInv, TypeOK
<1>5. ASSUME NEW c \in Block, c # want[p] PROVE Value'[c] = Value[c]
  <2>1. \A g \in Buf : block[g] = c => data'[g] = data[g]
    BY <1>1, <1>2, <1>5 DEF IInv, TypeOK
  <2>2. CASE \E g \in Buf : block[g] = c /\ valid[g]
    BY <1>2, <1>3, <2>1, <2>2 DEF ValueFact
  <2>3. CASE \A g \in Buf : block[g] = c => ~valid[g]
    BY <1>2, <1>3, <2>3 DEF ValueFact
  <2>4. QED
    BY <2>2, <2>3
<1>6. Value' = [Value EXCEPT ![want[p]] = v]
  BY <1>1, <1>3, <1>4, <1>5 DEF ValueFact
<1>7. UNCHANGED Holder
  BY <1>1, <1>2, HolderKept DEF Holds, IInv, TypeOK
<1>8. Holder[want[p]] = p
  BY <1>1, <1>3 DEF HolderFact
<1>9. QED
  BY <1>1, <1>6, <1>7, <1>8, Zenon DEF Abstract!Next, Abstract!Write

\* bwrite moves the value to the disk and changes none.
LEMMA BwriteRefines ==
  ASSUME IInv, IInv', NEW p \in Proc, bwrite(p)
  PROVE  UNCHANGED Abstract!vars
<1>1. /\ Holds(p) /\ valid[buf[p]] /\ want[p] \in Block
      /\ buf[p] \in Buf /\ block[buf[p]] = want[p]
  BY InHand DEF bwrite, Holds, IInv, ValidInv
<1>2. /\ disk' = [disk EXCEPT ![want[p]] = data[buf[p]]]
      /\ pc' = [pc EXCEPT ![p] = "use"]
      /\ block' = block /\ valid' = valid /\ data' = data /\ want' = want
  BY <1>1 DEF bwrite, meta
<1>3. ValueFact /\ ValueFact'
  BY ValueNow, ValueThen
<1>4. ASSUME NEW c \in Block PROVE Value'[c] = Value[c]
  <2>1. CASE \E g \in Buf : block[g] = c /\ valid[g]
    BY <1>2, <1>3, <2>1 DEF ValueFact
  <2>2. CASE \A g \in Buf : block[g] = c => ~valid[g]
    <3>1. c # want[p]
      BY <1>1, <2>2
    <3>2. disk'[c] = disk[c]
      BY <1>2, <3>1 DEF IInv, TypeOK
    <3>3. QED
      BY <1>2, <1>3, <2>2, <3>2 DEF ValueFact
  <2>3. QED
    BY <2>1, <2>2
<1>5. UNCHANGED Value
  BY <1>3, <1>4, ValueSame
<1>6. UNCHANGED Holder
  BY <1>1, <1>2, HolderKept DEF Holds, IInv, TypeOK
<1>7. QED
  BY <1>5, <1>6 DEF Abstract!vars

\* bpin and bunpin are no steps.
LEMMA PinRefines ==
  ASSUME IInv, IInv', NEW p \in Proc, bpin(p) \/ bunpin(p)
  PROVE  UNCHANGED Abstract!vars
<1>1. UNCHANGED Value
  BY ValueKept DEF bpin, bunpin
<1>2. /\ want' = want
      /\ \A q \in Proc : Holds(q)' <=> Holds(q)
  BY DEF bpin, bunpin, Holds, IInv, TypeOK
<1>3. UNCHANGED Holder
  BY <1>2, HolderKept
<1>4. QED
  BY <1>1, <1>3 DEF Abstract!vars

\* releasesleep() lets the block go.
LEMMA ReleasesleepRefines ==
  ASSUME IInv, IInv', NEW p \in Proc, releasesleep(p)
  PROVE  Abstract!Next
<1>1. Holds(p) /\ want[p] \in Block
  BY InHand DEF releasesleep, Holds
<1>2. UNCHANGED Value
  BY ValueKept DEF releasesleep, meta
<1>3. /\ want' = want /\ ~Holds(p)'
      /\ \A q \in Proc \ {p} : Holds(q)' <=> Holds(q)
  BY DEF releasesleep, Woken, Holds
<1>4. /\ Holder[want[p]] = p
      /\ Holder' = [Holder EXCEPT ![want[p]] = NoOne]
  BY <1>1, <1>3, HolderGone, Zenon
<1>5. QED
  BY <1>1, <1>2, <1>4, ZenonT(30) DEF Abstract!Next, Abstract!Unlock

\* Dropping the reference is no step.
LEMMA BrelseRefines ==
  ASSUME IInv, IInv', NEW p \in Proc, brelse(p)
  PROVE  UNCHANGED Abstract!vars
<1>1. UNCHANGED Value
  BY ValueKept DEF brelse
<1>2. \A q \in Proc : Holds(q)' <=> Holds(q)
  BY DEF brelse, Holds, IInv, TypeOK
<1>3. \A q \in Proc : Holds(q) => want'[q] = want[q]
  BY DEF brelse, Holds, IInv, TypeOK
<1>4. UNCHANGED Holder
  BY <1>2, <1>3, HolderKept, Zenon
<1>5. QED
  BY <1>1, <1>4 DEF Abstract!vars

\* bget recycles only buffers whose value is on the disk: no step.
LEMMA BgetRefines ==
  ASSUME IInv, IInv', NEW p \in Proc, NEW b \in Block, bget(p, b)
  PROVE  UNCHANGED Abstract!vars
<1>1. /\ pc[p] = "out" /\ data' = data /\ disk' = disk
      /\ \/ pc' = pc /\ want' = want
         \/ pc' = [pc EXCEPT ![p] = "lock"] /\ want' = [want EXCEPT ![p] = b]
  BY BgetCases DEF bget
<1>2. UNCHANGED Value
  <2>1. CASE UNCHANGED <<block, valid>>
    BY <1>1, <2>1, ValueKept
  <2>2. CASE \E f \in Buf :
               /\ Cached(b) = {} /\ refcnt[f] = 0
               /\ block' = [block EXCEPT ![f] = b]
               /\ valid' = [valid EXCEPT ![f] = FALSE]
               /\ refcnt' = [refcnt EXCEPT ![f] = 1]
               /\ buf' = [buf EXCEPT ![p] = f]
               /\ UNCHANGED panicked
    BY <1>1, <2>2, RecycleKeeps, Zenon
  <2>3. QED
    BY <2>1, <2>2, BgetCases
<1>3. \A q \in Proc : Holds(q)' <=> Holds(q)
  BY <1>1 DEF Holds, IInv, TypeOK
<1>4. \A q \in Proc : Holds(q) => want'[q] = want[q]
  BY <1>1 DEF Holds, IInv, TypeOK
<1>5. UNCHANGED Holder
  BY <1>3, <1>4, HolderKept, Zenon
<1>6. QED
  BY <1>2, <1>5 DEF Abstract!vars

\* Every step of the cache is a step of the block store, or none.
LEMMA NextRefines ==
  IInv /\ IInv' /\ [Next]_vars => [Abstract!Next]_(Abstract!vars)
<1> SUFFICES ASSUME IInv, IInv', [Next]_vars
             PROVE  [Abstract!Next]_(Abstract!vars)
  OBVIOUS
<1>1. CASE UNCHANGED vars
  <2>1. UNCHANGED Value
    BY <1>1, ValueKept DEF vars, meta
  <2>2. UNCHANGED Holder
    BY <1>1, HolderKept DEF vars, Holds
  <2>3. QED
    BY <2>1, <2>2 DEF Abstract!vars
<1>2. CASE Next
  <2>1. PICK p \in Proc :
          \/ Step(p) \/ bunpin(p)
          \/ \E b \in Block : bget(p, b)
          \/ \E v \in Val : Modify(p, v)
    BY <1>2 DEF Next
  <2>2. CASE Step(p)
    BY <2>2, AcquiresleepRefines, BreadRefines, BwriteRefines, PinRefines,
       ReleasesleepRefines, BrelseRefines DEF Step
  <2>3. CASE bunpin(p) \/ (\E b \in Block : bget(p, b))
             \/ \E v \in Val : Modify(p, v)
    BY <2>3, PinRefines, BgetRefines, ModifyRefines
  <2>4. QED
    BY <2>1, <2>2, <2>3
<1>3. QED
  BY <1>1, <1>2

\* The cache is invisible, for any number of processes, blocks and buffers.
THEOREM CacheCoherent == Spec => Coherent
<1>1. Init => Abstract!Init
  BY InitRefines
<1>2. IInv /\ IInv' /\ [Next]_vars => [Abstract!Next]_(Abstract!vars)
  BY NextRefines
<1>3. QED
  BY <1>1, <1>2, SpecIInv, PTL DEF Spec, Coherent, Abstract!Spec
=============================================================================
