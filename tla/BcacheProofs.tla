---------------------------- MODULE BcacheProofs ----------------------------
(***************************************************************************)
(* Proofs about Bcache: for any number of processes, blocks and buffers the *)
(* references are counted exactly, a buffer keeps its block while somebody  *)
(* has it, bget never runs out of buffers, and the cache implements one     *)
(* current value for each block (BlockStore).                               *)
(***************************************************************************)
EXTENDS Bcache, FiniteSetTheorems, TLAPS

\* The list of bcache.head has every buffer once.
LruInv == \A i, j \in 1..Len(lru) : lru[i] = lru[j] => i = j

\* A process between bget and brelse has a buffer, which is its block's.
HandInv ==
  \A p \in Proc :
    /\ pc[p] = "out" <=> buf[p] = NoOne
    /\ buf[p] # NoOne => want[p] \in Block /\ block[buf[p]] = want[p]

\* No block has two buffers.
OneBuffer ==
  \A f, g \in Buf : block[f] = block[g] /\ block[f] # NoOne => f = g

Locked(p) == pc[p] \in {"fill", "use", "dirty"}

\* The owner of a sleep lock is the process inside.
OwnerInv ==
  \A p \in Proc, f \in Buf : owner[f] = p <=> Locked(p) /\ buf[p] = f

\* Who uses a buffer has its contents; only the owner fills it.
ValidInv ==
  /\ \A p \in Proc : /\ Holds(p) => valid[buf[p]]
                     /\ pc[p] = "fill" => ~valid[buf[p]]
  /\ \A f \in Buf : valid[f] => block[f] # NoOne

Dirty(f) == \E p \in Proc : pc[p] = "dirty" /\ buf[p] = f

\* What is neither in the log nor being changed is what the disk has.
CleanInv ==
  \A f \in Buf : valid[f] /\ f \notin pinned /\ ~Dirty(f) =>
                   data[f] = disk[block[f]]

PinInv == Cardinality(pinned) <= MaxPins

IInv ==
  /\ TypeOK /\ LruInv /\ HandInv /\ OneBuffer /\ RefcntExact /\ OwnerInv
  /\ ValidInv /\ CleanInv /\ PinInv /\ SleeperHasHolder

----------------------------------------------------------------------------
(***************************************************************************)
(* Facts about the list.                                                    *)
(***************************************************************************)
\* binit links every buffer into the list, once.
LEMMA AllLinked ==
  ASSUME NEW s \in Bijection(1..Cardinality(Buf), Buf)
  PROVE  /\ s \in Seq(Buf) /\ Len(s) = Cardinality(Buf) /\ Range(s) = Buf
         /\ \A i, j \in 1..Len(s) : s[i] = s[j] => i = j
<1> DEFINE n == Cardinality(Buf)
<1>1. n \in Nat
  BY BcacheAssumption, FS_CardinalityType
<1>2. s \in [1..n -> Buf] /\ IsInjective(s) /\ s \in Surjection(1..n, Buf)
  BY DEF Bijection, Injection
<1>3. s \in Seq(Buf) /\ Len(s) = n
  BY <1>1, <1>2
<1>4. Range(s) = Buf
  BY <1>2, ZenonT(30) DEF Range, Surjection
<1>5. QED
  BY <1>2, <1>3, <1>4, ZenonT(30) DEF IsInjective

\* The concatenation of two lists, element by element.
LEMMA Concatenated ==
  ASSUME NEW t \in Seq(Buf), NEW c \in Seq(Buf)
  PROVE  /\ t \o c \in Seq(Buf) /\ Len(t \o c) = Len(t) + Len(c)
         /\ \A i \in 1..(Len(t) + Len(c)) :
              (t \o c)[i] = IF i <= Len(t) THEN t[i] ELSE c[i - Len(t)]
OBVIOUS

\* brelse's relinking keeps every buffer in the list, once.
LEMMA Relinked ==
  ASSUME TypeOK, LruInv, NEW f \in Buf
  PROVE  LET s == MostRecent(f)
         IN  /\ s \in Seq(Buf) /\ Len(s) = Cardinality(Buf) /\ Range(s) = Buf
             /\ \A i, j \in 1..Len(s) : s[i] = s[j] => i = j
<1> DEFINE n == Len(lru)
           k == CHOOSE i \in 1..n : lru[i] = f
           s == MostRecent(f)
<1>1. lru \in Seq(Buf) /\ n \in Nat /\ n = Cardinality(Buf)
  BY DEF TypeOK
<1>2. k \in 1..n /\ lru[k] = f
  <2>1. f \in Range(lru)
    BY DEF TypeOK
  <2>2. \E i \in 1..n : lru[i] = f
    BY <1>1, <2>1 DEF Range
  <2>3. QED
    BY <2>2
<1>3. s = (<<f>> \o SubSeq(lru, 1, k - 1)) \o SubSeq(lru, k + 1, n)
  BY DEF MostRecent
<1> HIDE DEF k
<1>4. /\ SubSeq(lru, 1, k - 1) \in Seq(Buf) /\ Len(SubSeq(lru, 1, k - 1)) = k - 1
      /\ \A i \in 1..(k - 1) : SubSeq(lru, 1, k - 1)[i] = lru[i]
  BY <1>1, <1>2
<1>5. /\ SubSeq(lru, k + 1, n) \in Seq(Buf) /\ Len(SubSeq(lru, k + 1, n)) = n - k
      /\ \A i \in 1..(n - k) : SubSeq(lru, k + 1, n)[i] = lru[k + i]
  BY <1>1, <1>2
<1>6. /\ s \in Seq(Buf) /\ Len(s) = n
      /\ s[1] = f
      /\ \A i \in 2..k : s[i] = lru[i - 1]
      /\ \A i \in (k + 1)..n : s[i] = lru[i]
  <2> DEFINE a == SubSeq(lru, 1, k - 1)
             c == SubSeq(lru, k + 1, n)
             t == <<f>> \o a
  <2>1. /\ a \in Seq(Buf) /\ Len(a) = k - 1
        /\ c \in Seq(Buf) /\ Len(c) = n - k
    BY <1>4, <1>5
  <2>2. s = t \o c
    BY <1>3
  <2> HIDE DEF a, c, s, n
  <2>3. /\ t \in Seq(Buf) /\ Len(t) = k /\ t[1] = f
        /\ \A i \in 2..k : t[i] = a[i - 1]
    BY <1>1, <1>2, <2>1
  <2> HIDE DEF t
  <2>4. /\ s \in Seq(Buf) /\ Len(s) = Len(t) + Len(c)
        /\ \A i \in 1..(Len(t) + Len(c)) :
             s[i] = IF i <= Len(t) THEN t[i] ELSE c[i - Len(t)]
    BY <2>1, <2>2, <2>3, Concatenated, Zenon
  <2>5. ASSUME NEW i \in 1..n
        PROVE  /\ i <= k => s[i] = t[i]
               /\ i > k => s[i] = c[i - k]
    <3>1. Len(t) = k /\ Len(t) + Len(c) = n /\ i \in Int /\ k \in Int
      BY <1>1, <1>2, <2>1, <2>3
    <3>2. s[i] = IF i <= k THEN t[i] ELSE c[i - k]
      BY <2>4, <3>1
    <3>3. QED
      BY <3>1, <3>2
  <2>6. s[1] = f
    BY <1>1, <1>2, <2>3, <2>5
  <2>7. ASSUME NEW i \in 2..k PROVE s[i] = lru[i - 1]
    <3>1. s[i] = a[i - 1]
      BY <1>1, <1>2, <2>3, <2>5
    <3>2. QED
      BY <1>1, <1>2, <1>4, <3>1 DEF a
  <2>8. ASSUME NEW i \in (k + 1)..n PROVE s[i] = lru[i]
    <3>1. s[i] = c[i - k] /\ i - k \in 1..(n - k) /\ k + (i - k) = i
      BY <1>1, <1>2, <2>5
    <3>2. c[i - k] = lru[k + (i - k)]
      BY <1>5, <3>1 DEF c
    <3>3. QED
      BY <3>1, <3>2
  <2>9. QED
    BY <1>1, <1>2, <2>1, <2>3, <2>4, <2>6, <2>7, <2>8
<1> HIDE DEF s
<1>7. ASSUME NEW i \in 1..n, NEW j \in 1..n, s[i] = s[j] PROVE i = j
  BY <1>1, <1>2, <1>6, <1>7 DEF LruInv
<1>8. ASSUME NEW g \in Buf PROVE \E i \in 1..n : s[i] = g
  <2>1. g \in Range(lru)
    BY DEF TypeOK
  <2>2. PICK j \in 1..n : lru[j] = g
    BY <1>1, <2>1 DEF Range
  <2>3. s[IF j = k THEN 1 ELSE IF j < k THEN j + 1 ELSE j] = g
    BY <1>1, <1>2, <1>6, <2>2
  <2>4. QED
    BY <1>1, <1>2, <2>2, <2>3
<1>9. Range(s) = Buf
  <2>1. DOMAIN s = 1..n /\ \A i \in 1..n : s[i] \in Buf
    BY <1>1, <1>6
  <2>2. QED
    BY <1>8, <2>1 DEF Range
<1>10. QED
  BY <1>1, <1>6, <1>7, <1>9 DEF s

\* bget's search from the end stops at the last index that will do.
LEMMA LastOf ==
  ASSUME NEW n \in Nat, NEW S \in SUBSET (1..n), S # {}
  PROVE  \E i \in S : \A j \in S : j <= i
<1> DEFINE D == {n - i : i \in S}
<1>1. D \in SUBSET Nat /\ D # {}
  <2>1. ASSUME NEW i \in S PROVE n - i \in Nat
    OBVIOUS
  <2>2. QED
    BY <2>1, Zenon
<1>2. PICK d \in D : \A x \in D : d <= x
  <2>1. PICK d \in D : \A x \in D : ~ (<<x, d>> \in OpToRel(<, Nat))
    BY <1>1, NatLessThanWellFounded, WFMin
  <2>2. QED
    <3>1. ASSUME NEW x \in D PROVE d <= x
      <4>1. x \in Nat /\ d \in Nat
        BY <1>1
      <4>2. ~(x < d)
        BY <2>1, <4>1, Zenon DEF OpToRel
      <4>3. QED
        BY <4>1, <4>2
    <3>2. QED
      BY <3>1
<1>3. PICK i \in S : d = n - i
  BY <1>2
<1>4. \A j \in S : j <= i
  BY <1>2, <1>3
<1>5. QED
  BY <1>4

(***************************************************************************)
(* Facts about references.                                                  *)
(***************************************************************************)
Users(f) == {p \in Proc : buf[p] = f}

\* The threads that use a buffer are finitely many.
LEMMA UsersFinite ==
  ASSUME NEW f PROVE IsFiniteSet(Users(f)) /\ Cardinality(Users(f)) \in Nat
BY BcacheAssumption, FS_Subset, FS_CardinalityType DEF Users

\* A buffer without references has no user and is not in the log.
LEMMA Unreferenced ==
  ASSUME RefcntExact, NEW f \in Buf, refcnt[f] = 0
  PROVE  f \notin pinned /\ \A p \in Proc : buf[p] # f
<1>1. refcnt[f] = Cardinality(Users(f)) + (IF f \in pinned THEN 1 ELSE 0)
  BY DEF RefcntExact, Users
<1>2. Cardinality(Users(f)) = 0 /\ f \notin pinned
  BY <1>1, UsersFinite
<1>3. Users(f) = {}
  BY <1>2, UsersFinite, FS_EmptySet
<1>4. QED
  BY <1>2, <1>3 DEF Users

\* A process that comes adds one reference, one that leaves takes one.
LEMMA UserComes ==
  ASSUME TypeOK, NEW p \in Proc, NEW f \in Buf, buf[p] = NoOne,
         buf' = [buf EXCEPT ![p] = f]
  PROVE  \A g \in Buf : Cardinality(Users(g)') =
                         IF g = f THEN Cardinality(Users(g)) + 1
                         ELSE Cardinality(Users(g))
<1> TAKE g \in Buf
<1>1. NoOne # f
  BY BcacheAssumption
<1>2. CASE g = f
  <2>1. Users(g)' = Users(g) \cup {p} /\ p \notin Users(g)
    BY <1>1, <1>2 DEF Users, TypeOK
  <2>2. QED
    BY <1>2, <2>1, UsersFinite, FS_AddElement
<1>3. CASE g # f
  <2>1. NoOne # g
    BY BcacheAssumption
  <2>2. Users(g)' = Users(g)
    BY <1>3, <2>1 DEF Users, TypeOK
  <2>3. QED
    BY <1>3, <2>2
<1>4. QED
  BY <1>2, <1>3

\* One user less: the count goes down by one.
LEMMA UserLeaves ==
  ASSUME TypeOK, NEW p \in Proc, NEW f \in Buf, buf[p] = f,
         buf' = [buf EXCEPT ![p] = NoOne]
  PROVE  \A g \in Buf : Cardinality(Users(g)') =
                         IF g = f THEN Cardinality(Users(g)) - 1
                         ELSE Cardinality(Users(g))
<1> TAKE g \in Buf
<1>1. NoOne # g
  BY BcacheAssumption
<1>2. CASE g = f
  <2>1. Users(g)' = Users(g) \ {p} /\ p \in Users(g)
    BY <1>1, <1>2 DEF Users, TypeOK
  <2>2. QED
    <3>1. IsFiniteSet(Users(g))
      BY UsersFinite
    <3>2. Cardinality(Users(g) \ {p}) = Cardinality(Users(g)) - 1
      BY <2>1, <3>1, FS_RemoveElement, Zenon
    <3>3. QED
      BY <1>2, <2>1, <3>2
<1>3. CASE g # f
  <2>1. Users(g)' = Users(g)
    BY <1>1, <1>3 DEF Users, TypeOK
  <2>2. QED
    BY <1>3, <2>1
<1>4. QED
  BY <1>2, <1>3

\* The buffers suffice: a process without one finds one that is unused.
LEMMA SomeUnused ==
  ASSUME Cardinality(Buf) >= Cardinality(Proc) + MaxPins,
         TypeOK, RefcntExact, PinInv, NEW p \in Proc, buf[p] = NoOne
  PROVE  Unused # {}
<1> SUFFICES ASSUME Unused = {} PROVE FALSE
  OBVIOUS
<1> DEFINE Q == {q \in Proc \ {p} : buf[q] # NoOne}
           T == {buf[q] : q \in Q}
<1>1. Buf \subseteq T \cup pinned
  <2> SUFFICES ASSUME NEW f \in Buf, f \notin pinned PROVE f \in T
    OBVIOUS
  <2>1. f \in Range(lru) /\ lru \in Seq(Buf)
    BY DEF TypeOK
  <2>2. PICK i \in 1..Len(lru) : lru[i] = f
    BY <2>1 DEF Range
  <2>3. refcnt[f] # 0
    BY <2>2 DEF Unused
  <2>4. Cardinality(Users(f)) # 0
    <3>1. refcnt[f] = Cardinality(Users(f)) + 0
      BY DEF RefcntExact, Users
    <3>2. QED
      BY <2>3, <3>1, UsersFinite
  <2>5. Users(f) # {}
    BY <2>4, FS_EmptySet, Zenon
  <2>6. NoOne # f
    BY BcacheAssumption
  <2>7. QED
    BY <2>5, <2>6 DEF Users
<1>2. /\ IsFiniteSet(Q) /\ Cardinality(Q) \in Nat
      /\ Cardinality(Q) <= Cardinality(Proc) - 1
  <2>1. /\ IsFiniteSet(Proc \ {p})
        /\ Cardinality(Proc \ {p}) = Cardinality(Proc) - 1
    BY BcacheAssumption, FS_RemoveElement
  <2>2. Q \in SUBSET (Proc \ {p})
    OBVIOUS
  <2>3. QED
    BY <2>1, <2>2, FS_Subset, FS_CardinalityType
<1>3. IsFiniteSet(T) /\ Cardinality(T) \in Nat /\ Cardinality(T) <= Cardinality(Q)
  <2>1. [q \in Q |-> buf[q]] \in Surjection(Q, T)
    BY DEF Surjection
  <2>2. QED
    BY <1>2, <2>1, FS_Surjection, FS_CardinalityType
<1>4. IsFiniteSet(pinned) /\ Cardinality(pinned) \in Nat
  BY BcacheAssumption, FS_Subset, FS_CardinalityType DEF TypeOK
<1>5. /\ IsFiniteSet(T \cup pinned)
      /\ Cardinality(T \cup pinned) <= Cardinality(T) + Cardinality(pinned)
  <2>1. Cardinality(T \cap pinned) \in Nat
    BY <1>3, FS_Intersection, FS_CardinalityType, Zenon
  <2>2. QED
    <3>1. /\ IsFiniteSet(T \cup pinned)
          /\ Cardinality(T \cup pinned) =
               Cardinality(T) + Cardinality(pinned) - Cardinality(T \cap pinned)
      BY <1>3, <1>4, FS_Union
    <3>2. QED
      BY <1>3, <1>4, <2>1, <3>1
<1>6. Cardinality(Buf) <= Cardinality(T \cup pinned)
  BY <1>1, <1>5, FS_Subset
<1>7. Cardinality(Buf) \in Nat /\ Cardinality(Proc) \in Nat
      /\ Cardinality(T \cup pinned) \in Nat
  BY <1>5, BcacheAssumption, FS_CardinalityType
<1>8. QED
  BY <1>2, <1>3, <1>4, <1>5, <1>6, <1>7, BcacheAssumption DEF PinInv

----------------------------------------------------------------------------
(***************************************************************************)
(* The invariant holds initially and every action keeps it.                 *)
(***************************************************************************)
LEMMA InitIInv == Init => IInv
<1> SUFFICES ASSUME Init PROVE IInv
  OBVIOUS
<1>1. TypeOK /\ LruInv
  <2>1. lru \in Bijection(1..Cardinality(Buf), Buf)
    <3>1. ExistsBijection(1..Cardinality(Buf), Buf)
      BY BcacheAssumption, FS_CardinalityType
    <3>2. QED
      BY <3>1 DEF ExistsBijection, Init, binit
  <2>2. /\ lru \in Seq(Buf) /\ Len(lru) = Cardinality(Buf) /\ Range(lru) = Buf
        /\ \A i, j \in 1..Len(lru) : lru[i] = lru[j] => i = j
    BY <2>1, AllLinked, Zenon
  <2>3. QED
    BY <2>2, ZenonT(30) DEF Init, binit, TypeOK, LruInv
<1>2. RefcntExact
  <2> SUFFICES ASSUME NEW f \in Buf
               PROVE  refcnt[f] = Cardinality({p \in Proc : buf[p] = f})
                                    + (IF f \in pinned THEN 1 ELSE 0)
    BY DEF RefcntExact
  <2>1. f # NoOne
    BY BcacheAssumption
  <2>2. {p \in Proc : buf[p] = f} = {}
    BY <2>1 DEF Init
  <2>3. refcnt[f] = 0 /\ pinned = {}
    BY DEF Init, binit
  <2>4. QED
    BY <2>2, <2>3, FS_EmptySet
<1>3. PinInv
  BY BcacheAssumption, FS_EmptySet DEF Init, PinInv
<1>4. HandInv /\ OneBuffer /\ ValidInv /\ SleeperHasHolder
  BY DEF Init, binit, HandInv, OneBuffer, ValidInv, Holds, SleeperHasHolder
<1>5. OwnerInv /\ CleanInv
  BY BcacheAssumption DEF Init, binit, OwnerInv, Locked, CleanInv
<1>6. QED
  BY <1>1, <1>2, <1>3, <1>4, <1>5 DEF IInv

\* What a process has between bget and brelse.
LEMMA InHand ==
  ASSUME IInv, NEW p \in Proc, pc[p] # "out"
  PROVE  /\ buf[p] \in Buf /\ buf[p] # NoOne
         /\ block[buf[p]] = want[p] /\ want[p] \in Block
BY DEF IInv, TypeOK, HandInv

\* acquiresleep() in bget: the thread takes the buffer's lock, or sleeps.
LEMMA AcquiresleepIInv ==
  ASSUME IInv, NEW p \in Proc, acquiresleep(p) PROVE IInv'
<1>1. pc[p] = "lock" /\ buf[p] \in Buf
  BY InHand DEF acquiresleep
<1>2. p # NoOne
  BY BcacheAssumption
<1>3. UNCHANGED <<meta, valid, data, pinned, disk, buf, want, panicked>>
  BY DEF acquiresleep
<1>4. TypeOK' /\ LruInv'
  BY <1>1, <1>3, ZenonT(30) DEF IInv, acquiresleep, TypeOK, LruInv, meta
<1>5. HandInv'
  BY <1>1, <1>3 DEF IInv, acquiresleep, TypeOK, HandInv, meta
<1>6. OneBuffer' /\ RefcntExact' /\ PinInv'
  BY <1>3 DEF IInv, OneBuffer, RefcntExact, PinInv, meta
<1>7. OwnerInv' /\ ValidInv' /\ SleeperHasHolder'
  <2>1. CASE Free(buf[p])
    <3>1. /\ owner' = [owner EXCEPT ![buf[p]] = p]
          /\ pc' = [pc EXCEPT ![p] = IF valid[buf[p]] THEN "use" ELSE "fill"]
      BY <2>1 DEF acquiresleep
    <3>2. OwnerInv'
      <4> SUFFICES ASSUME NEW q \in Proc, NEW g \in Buf
                   PROVE  owner'[g] = q <=> Locked(q)' /\ buf[q] = g
        BY <1>3 DEF OwnerInv
      <4>1. \A h \in Buf : owner[h] = q <=> Locked(q) /\ buf[q] = h
        BY DEF IInv, OwnerInv
      <4>2. CASE q = p
        BY <1>1, <1>2, <2>1, <3>1, <4>1, <4>2 DEF IInv, TypeOK, Locked, Free
      <4>3. CASE q # p
        BY <1>1, <2>1, <3>1, <4>1, <4>3, BcacheAssumption
        DEF IInv, TypeOK, Locked, Free
      <4>4. QED
        BY <4>2, <4>3
    <3>3. ValidInv'
      BY <1>1, <1>3, <3>1 DEF IInv, TypeOK, ValidInv, Holds, meta
    <3>4. SleeperHasHolder'
      BY <1>1, <1>2, <1>3, <3>1 DEF IInv, TypeOK, SleeperHasHolder
    <3>5. QED
      BY <3>2, <3>3, <3>4
  <2>2. CASE ~Free(buf[p])
    <3>1. pc' = [pc EXCEPT ![p] = "asleep"] /\ owner' = owner
      BY <2>2 DEF acquiresleep
    <3>2. OwnerInv' /\ ValidInv'
      BY <1>1, <1>3, <3>1 DEF IInv, TypeOK, OwnerInv, Locked, ValidInv, Holds,
         meta
    <3>3. SleeperHasHolder'
      BY <1>3, <2>2, <3>1 DEF IInv, TypeOK, SleeperHasHolder, Free
    <3>4. QED
      BY <3>2, <3>3
  <2>3. QED
    BY <2>1, <2>2
<1>8. CleanInv'
  <2>1. \A q \in Proc : pc[q] = "dirty" => pc'[q] = "dirty"
    BY <1>1 DEF IInv, TypeOK, acquiresleep
  <2>2. \A f \in Buf : Dirty(f) => Dirty(f)'
    BY <1>3, <2>1 DEF Dirty
  <2>3. QED
    BY <1>3, <2>2 DEF IInv, CleanInv, meta
<1>9. QED
  BY <1>4, <1>5, <1>6, <1>7, <1>8 DEF IInv

\* bread reads the block from the disk if the buffer is not valid.
LEMMA BreadIInv ==
  ASSUME IInv, NEW p \in Proc, bread(p) PROVE IInv'
<1>1. pc[p] = "fill" /\ buf[p] \in Buf /\ block[buf[p]] \in Block
  BY InHand DEF bread
<1>2. /\ data' = [data EXCEPT ![buf[p]] = disk[block[buf[p]]]]
      /\ valid' = [valid EXCEPT ![buf[p]] = TRUE]
      /\ pc' = [pc EXCEPT ![p] = "use"]
      /\ UNCHANGED <<meta, owner, pinned, disk, buf, want, panicked>>
  BY DEF bread
<1>3. TypeOK' /\ LruInv'
  BY <1>1, <1>2 DEF IInv, TypeOK, LruInv, meta
<1>4. HandInv' /\ OneBuffer' /\ RefcntExact' /\ PinInv'
  <2>1. HandInv'
    BY <1>1, <1>2 DEF IInv, TypeOK, HandInv, meta
  <2>2. QED
    BY <1>2, <2>1 DEF IInv, OneBuffer, RefcntExact, PinInv, meta
<1>5. OwnerInv' /\ SleeperHasHolder'
  BY <1>1, <1>2 DEF IInv, TypeOK, OwnerInv, Locked, SleeperHasHolder
<1>6. ValidInv'
  <2>1. ASSUME NEW q \in Proc, pc'[q] = "fill" PROVE ~valid'[buf'[q]]
    <3>1. q # p /\ pc[q] = "fill"
      BY <1>2, <2>1 DEF IInv, TypeOK
    <3>2. buf[q] \in Buf /\ buf[q] # buf[p]
      BY <1>1, <3>1, InHand DEF IInv, OwnerInv, Locked
    <3>3. QED
      BY <1>2, <3>1, <3>2 DEF IInv, TypeOK, ValidInv
  <2>2. ASSUME NEW q \in Proc, Holds(q)' PROVE valid'[buf'[q]]
    <3>1. buf[q] \in Buf
      BY <1>1, <1>2, <2>2, InHand DEF IInv, TypeOK, Holds
    <3>2. QED
      BY <1>1, <1>2, <2>2, <3>1 DEF IInv, TypeOK, ValidInv, Holds
  <2>3. ASSUME NEW f \in Buf, valid'[f] PROVE block'[f] # NoOne
    BY <1>1, <1>2, <2>3, BcacheAssumption DEF IInv, TypeOK, ValidInv, meta
  <2>4. QED
    BY <2>1, <2>2, <2>3 DEF ValidInv
<1>7. CleanInv'
  <2>1. \A f \in Buf : Dirty(f) => Dirty(f)'
    BY <1>1, <1>2 DEF IInv, TypeOK, Dirty
  <2>2. QED
    BY <1>1, <1>2, <2>1 DEF IInv, TypeOK, CleanInv, meta
<1>8. QED
  BY <1>3, <1>4, <1>5, <1>6, <1>7 DEF IInv

\* The holder changes the data of its buffer.
LEMMA ModifyIInv ==
  ASSUME IInv, NEW p \in Proc, NEW v \in Val, Modify(p, v) PROVE IInv'
<1>1. Holds(p) /\ pc[p] # "out" /\ buf[p] \in Buf
  BY InHand DEF Modify, Holds
<1>2. /\ data' = [data EXCEPT ![buf[p]] = v]
      /\ pc' = [pc EXCEPT ![p] = "dirty"]
      /\ UNCHANGED <<meta, valid, owner, pinned, disk, buf, want, panicked>>
  BY DEF Modify
<1>3. TypeOK' /\ LruInv'
  BY <1>1, <1>2 DEF IInv, TypeOK, LruInv, meta
<1>4. HandInv'
  BY <1>1, <1>2 DEF IInv, TypeOK, HandInv, meta
<1>5. OneBuffer' /\ RefcntExact' /\ PinInv'
  BY <1>2 DEF IInv, OneBuffer, RefcntExact, PinInv, meta
<1>6. OwnerInv' /\ SleeperHasHolder'
  BY <1>1, <1>2 DEF IInv, TypeOK, OwnerInv, Locked, Holds, SleeperHasHolder
<1>7. ValidInv'
  BY <1>1, <1>2 DEF IInv, TypeOK, ValidInv, Holds, meta
<1>8. CleanInv'
  <2>1. Dirty(buf[p])' /\ \A f \in Buf : Dirty(f) => Dirty(f)'
    BY <1>2 DEF IInv, TypeOK, Dirty
  <2>2. QED
    BY <1>1, <1>2, <2>1 DEF IInv, TypeOK, CleanInv, meta
<1>9. QED
  BY <1>3, <1>4, <1>5, <1>6, <1>7, <1>8 DEF IInv

\* bwrite writes the holder's buffer to the disk.
LEMMA BwriteIInv ==
  ASSUME IInv, NEW p \in Proc, bwrite(p) PROVE IInv'
<1>1. /\ Holds(p) /\ pc[p] # "out" /\ buf[p] \in Buf
      /\ block[buf[p]] \in Block
  BY InHand DEF bwrite, Holds
<1>2. /\ disk' = [disk EXCEPT ![block[buf[p]]] = data[buf[p]]]
      /\ pc' = [pc EXCEPT ![p] = "use"]
      /\ UNCHANGED <<meta, valid, data, owner, pinned, buf, want, panicked>>
  BY DEF bwrite
<1>3. TypeOK' /\ LruInv'
  BY <1>1, <1>2 DEF IInv, TypeOK, LruInv, meta
<1>4. HandInv'
  BY <1>1, <1>2 DEF IInv, TypeOK, HandInv, meta
<1>5. OneBuffer' /\ RefcntExact' /\ PinInv'
  BY <1>2 DEF IInv, OneBuffer, RefcntExact, PinInv, meta
<1>6. OwnerInv' /\ SleeperHasHolder'
  BY <1>1, <1>2 DEF IInv, TypeOK, OwnerInv, Locked, Holds, SleeperHasHolder
<1>7. ValidInv'
  BY <1>1, <1>2 DEF IInv, TypeOK, ValidInv, Holds, meta
<1>8. CleanInv'
  <2> SUFFICES ASSUME NEW f \in Buf, valid[f], f \notin pinned, ~Dirty(f)'
               PROVE  data[f] = disk'[block[f]]
    BY <1>2 DEF CleanInv, meta
  <2>1. CASE f = buf[p]
    BY <1>1, <1>2, <2>1 DEF IInv, TypeOK
  <2>2. CASE f # buf[p]
    <3>1. ~Dirty(f)
      BY <1>2, <2>2 DEF IInv, TypeOK, Dirty
    <3>2. block[f] # NoOne /\ block[f] # block[buf[p]] /\ block[f] \in Block
      BY <1>1, <2>2 DEF IInv, TypeOK, ValidInv, OneBuffer
    <3>3. QED
      BY <1>2, <3>1, <3>2 DEF IInv, TypeOK, CleanInv
  <2>3. QED
    BY <2>1, <2>2
<1>9. QED
  BY <1>3, <1>4, <1>5, <1>6, <1>7, <1>8 DEF IInv

\* The log's reference of a buffer, counted or not.
LEMMA BpinIInv ==
  ASSUME IInv, NEW p \in Proc, bpin(p) PROVE IInv'
<1>1. pc[p] = "dirty" /\ buf[p] \in Buf
  BY InHand DEF bpin
<1>2. /\ pc' = [pc EXCEPT ![p] = "use"]
      /\ UNCHANGED <<block, lru, valid, data, owner, disk, buf, want, panicked>>
  BY DEF bpin
<1>3. /\ pinned' = pinned \cup {buf[p]}
      /\ refcnt' = IF buf[p] \in pinned THEN refcnt
                   ELSE [refcnt EXCEPT ![buf[p]] = @ + 1]
      /\ buf[p] \notin pinned => Cardinality(pinned) < MaxPins
  BY DEF bpin
<1>4. TypeOK' /\ LruInv'
  BY <1>1, <1>2, <1>3 DEF IInv, TypeOK, LruInv
<1>5. HandInv' /\ OneBuffer'
  BY <1>1, <1>2 DEF IInv, TypeOK, HandInv, OneBuffer
<1>6. RefcntExact'
  <2> SUFFICES ASSUME NEW f \in Buf
               PROVE  refcnt'[f] = Cardinality(Users(f))
                                     + (IF f \in pinned' THEN 1 ELSE 0)
    BY <1>2 DEF RefcntExact, Users
  <2>1. /\ refcnt[f] = Cardinality(Users(f)) + (IF f \in pinned THEN 1 ELSE 0)
        /\ Cardinality(Users(f)) \in Nat
    BY UsersFinite, Zenon DEF IInv, RefcntExact, Users
  <2>2. QED
    BY <1>1, <1>3, <2>1 DEF IInv, TypeOK
<1>7. PinInv'
  <2>1. IsFiniteSet(pinned) /\ Cardinality(pinned) \in Nat
    BY BcacheAssumption, FS_Subset, FS_CardinalityType DEF IInv, TypeOK
  <2>2. Cardinality(pinned') = IF buf[p] \in pinned THEN Cardinality(pinned)
                               ELSE Cardinality(pinned) + 1
    BY <1>3, <2>1, FS_AddElement, Zenon
  <2>3. QED
    BY <1>3, <2>1, <2>2, BcacheAssumption DEF IInv, PinInv
<1>8. OwnerInv' /\ SleeperHasHolder'
  BY <1>1, <1>2 DEF IInv, TypeOK, OwnerInv, Locked, SleeperHasHolder
<1>9. ValidInv'
  BY <1>1, <1>2 DEF IInv, TypeOK, ValidInv, Holds
<1>10. CleanInv'
  <2>1. \A f \in Buf : f # buf[p] /\ Dirty(f) => Dirty(f)'
    BY <1>2 DEF IInv, TypeOK, Dirty
  <2>2. QED
    BY <1>2, <1>3, <2>1 DEF IInv, CleanInv
<1>11. QED
  BY <1>4, <1>5, <1>6, <1>7, <1>8, <1>9, <1>10 DEF IInv

\* bunpin drops the reference that bpin took.
LEMMA BunpinIInv ==
  ASSUME IInv, NEW p \in Proc, bunpin(p) PROVE IInv'
<1>1. pc[p] = "use" /\ buf[p] \in Buf /\ buf[p] \in pinned
  BY InHand DEF bunpin
<1>2. UNCHANGED <<block, lru, valid, data, owner, disk, pc, buf, want, panicked>>
  BY DEF bunpin
<1>3. /\ pinned' = pinned \ {buf[p]}
      /\ refcnt' = [refcnt EXCEPT ![buf[p]] = @ - 1]
      /\ disk[block[buf[p]]] = data[buf[p]]
  BY DEF bunpin
<1>4. RefcntExact' /\ refcnt' \in [Buf -> Nat]
  <2>1. ASSUME NEW f \in Buf
        PROVE  /\ refcnt'[f] = Cardinality(Users(f))
                                 + (IF f \in pinned' THEN 1 ELSE 0)
               /\ refcnt'[f] \in Nat
    <3>1. /\ refcnt[f] = Cardinality(Users(f)) + (IF f \in pinned THEN 1 ELSE 0)
          /\ Cardinality(Users(f)) \in Nat
      BY UsersFinite DEF IInv, RefcntExact, Users
    <3>2. QED
      BY <1>1, <1>3, <3>1 DEF IInv, TypeOK
  <2>2. RefcntExact'
    BY <1>2, <2>1 DEF RefcntExact, Users
  <2>3. refcnt' \in [Buf -> Nat]
    BY <1>3, <2>1, ZenonT(30) DEF IInv, TypeOK
  <2>4. QED
    BY <2>2, <2>3
<1>5. TypeOK' /\ LruInv'
  BY <1>2, <1>3, <1>4 DEF IInv, TypeOK, LruInv
<1>6. /\ HandInv' /\ OneBuffer'
      /\ OwnerInv' /\ SleeperHasHolder' /\ ValidInv'
  BY <1>2 DEF IInv, HandInv, OneBuffer, OwnerInv, Locked,
     SleeperHasHolder, ValidInv, Holds
<1>7. PinInv'
  <2>1. IsFiniteSet(pinned) /\ Cardinality(pinned) \in Nat
    BY BcacheAssumption, FS_Subset, FS_CardinalityType DEF IInv, TypeOK
  <2>2. Cardinality(pinned') = Cardinality(pinned) - 1
    BY <1>1, <1>3, <2>1, FS_RemoveElement, Zenon
  <2>3. QED
    BY <2>1, <2>2, BcacheAssumption DEF IInv, PinInv
<1>8. CleanInv'
  BY <1>2, <1>3 DEF IInv, CleanInv, Dirty
<1>9. QED
  BY <1>4, <1>5, <1>6, <1>7, <1>8 DEF IInv

\* releasesleep() in brelse: the sleepers are woken.
LEMMA ReleasesleepIInv ==
  ASSUME IInv, NEW p \in Proc, releasesleep(p) PROVE IInv'
<1>1. pc[p] = "use" /\ buf[p] \in Buf /\ owner[buf[p]] = p
  BY InHand DEF releasesleep, IInv, OwnerInv, Locked
<1>2. /\ owner' = [owner EXCEPT ![buf[p]] = NoOne]
      /\ UNCHANGED <<meta, valid, data, pinned, disk, buf, want, panicked>>
  BY DEF releasesleep
<1>3. /\ DOMAIN pc' = Proc /\ pc' \in [Proc -> {pc'[q] : q \in Proc}]
      /\ pc'[p] = "put"
      /\ \A q \in Proc \ {p} :
           pc'[q] = IF pc[q] = "asleep" /\ buf[q] = buf[p] THEN "lock" ELSE pc[q]
  BY DEF releasesleep, Woken
<1>4. TypeOK' /\ LruInv'
  <2>1. pc' \in [Proc -> {"out", "lock", "asleep", "fill", "use", "dirty", "put"}]
    BY <1>3 DEF IInv, TypeOK
  <2>2. QED
    BY <1>1, <1>2, <2>1 DEF IInv, TypeOK, LruInv, meta
<1>5. HandInv'
  BY <1>1, <1>2, <1>3 DEF IInv, HandInv, meta
<1>6. OneBuffer' /\ RefcntExact' /\ PinInv'
  BY <1>2 DEF IInv, OneBuffer, RefcntExact, PinInv, meta
<1>7. OwnerInv'
  <2> SUFFICES ASSUME NEW q \in Proc, NEW g \in Buf
               PROVE  owner'[g] = q <=> Locked(q)' /\ buf[q] = g
    BY <1>2 DEF OwnerInv
  <2>1. \A h \in Buf : owner[h] = q <=> Locked(q) /\ buf[q] = h
    BY DEF IInv, OwnerInv
  <2>2. q # NoOne
    BY BcacheAssumption
  <2>3. CASE q = p
    BY <1>1, <1>2, <1>3, <2>1, <2>2, <2>3 DEF IInv, TypeOK, Locked
  <2>4. CASE q # p
    BY <1>1, <1>2, <1>3, <2>1, <2>2, <2>4 DEF IInv, TypeOK, Locked
  <2>5. QED
    BY <2>3, <2>4
<1>8. SleeperHasHolder'
  <2> SUFFICES ASSUME NEW q \in Proc, pc'[q] = "asleep"
               PROVE  owner'[buf[q]] # NoOne
    BY <1>2 DEF SleeperHasHolder
  <2>1. pc[q] = "asleep" /\ buf[q] # buf[p]
    BY <1>3
  <2>2. buf[q] \in Buf
    BY <2>1, InHand
  <2>3. QED
    BY <1>2, <2>1, <2>2 DEF IInv, TypeOK, SleeperHasHolder
<1>9. ValidInv'
  BY <1>2, <1>3 DEF IInv, ValidInv, Holds, meta
<1>10. CleanInv'
  <2>1. \A f \in Buf : Dirty(f) => Dirty(f)'
    BY <1>1, <1>2, <1>3 DEF Dirty
  <2>2. QED
    BY <1>2, <2>1 DEF IInv, CleanInv, meta
<1>11. QED
  BY <1>4, <1>5, <1>6, <1>7, <1>8, <1>9, <1>10 DEF IInv

\* The rest of brelse: the reference is dropped, and an unused buffer is
\* moved to the head of the list.
LEMMA BrelseIInv ==
  ASSUME IInv, NEW p \in Proc, brelse(p) PROVE IInv'
<1> DEFINE f == buf[p]
<1>1. pc[p] = "put" /\ f \in Buf /\ f # NoOne
  BY InHand DEF brelse
<1>2. /\ refcnt' = [refcnt EXCEPT ![f] = refcnt[f] - 1]
      /\ lru' = lru \/ lru' = MostRecent(f)
      /\ pc' = [pc EXCEPT ![p] = "out"]
      /\ buf' = [buf EXCEPT ![p] = NoOne]
      /\ want' = [want EXCEPT ![p] = NoOne]
  BY DEF brelse, LetGo
<1>3. UNCHANGED <<block, valid, data, owner, pinned, disk, panicked>>
  BY DEF brelse
<1>4. /\ lru' \in Seq(Buf) /\ Len(lru') = Cardinality(Buf) /\ Range(lru') = Buf
      /\ LruInv'
  <2>1. CASE lru' = lru
    BY <2>1 DEF IInv, TypeOK, LruInv
  <2>2. CASE lru' = MostRecent(f)
    BY <1>1, <2>2, Relinked DEF IInv, LruInv
  <2>3. QED
    BY <1>2, <2>1, <2>2
<1>5. RefcntExact' /\ refcnt' \in [Buf -> Nat]
  <2>1. ASSUME NEW g \in Buf
        PROVE  /\ refcnt'[g] = Cardinality(Users(g)')
                                 + (IF g \in pinned' THEN 1 ELSE 0)
               /\ refcnt'[g] \in Nat
    <3>1. refcnt[g] = Cardinality(Users(g)) + (IF g \in pinned THEN 1 ELSE 0)
      BY DEF IInv, RefcntExact, Users
    <3>2. Cardinality(Users(g)) \in Nat /\ Cardinality(Users(g)') \in Nat
      BY BcacheAssumption, UsersFinite, FS_Subset, FS_CardinalityType DEF Users
    <3>3. Cardinality(Users(g)') = IF g = f THEN Cardinality(Users(g)) - 1
                                   ELSE Cardinality(Users(g))
      BY <1>1, <1>2, UserLeaves, Zenon DEF IInv
    <3>4. refcnt'[g] = IF g = f THEN refcnt[g] - 1 ELSE refcnt[g]
      BY <1>1, <1>2 DEF IInv, TypeOK
    <3>5. QED
      BY <1>3, <3>1, <3>2, <3>3, <3>4
  <2>2. RefcntExact'
    BY <2>1 DEF RefcntExact, Users
  <2>3. refcnt' \in [Buf -> Nat]
    BY <1>2, <2>1, ZenonT(30) DEF IInv, TypeOK
  <2>4. QED
    BY <2>2, <2>3
<1>6. TypeOK'
  BY <1>1, <1>2, <1>3, <1>4, <1>5 DEF IInv, TypeOK
<1>7. HandInv' /\ OneBuffer' /\ PinInv'
  BY <1>1, <1>2, <1>3 DEF IInv, TypeOK, HandInv, OneBuffer, PinInv
<1>8. OwnerInv' /\ SleeperHasHolder'
  BY <1>1, <1>2, <1>3 DEF IInv, TypeOK, OwnerInv, Locked, SleeperHasHolder
<1>9. ValidInv'
  BY <1>1, <1>2, <1>3 DEF IInv, TypeOK, ValidInv, Holds
<1>10. CleanInv'
  <2>1. \A g \in Buf : Dirty(g) => Dirty(g)'
    BY <1>1, <1>2 DEF IInv, TypeOK, Dirty
  <2>2. QED
    BY <1>3, <2>1 DEF IInv, CleanInv
<1>11. QED
  BY <1>4, <1>5, <1>6, <1>7, <1>8, <1>9, <1>10 DEF IInv

\* A cached block: one more reference.
LEMMA BgetHitIInv ==
  ASSUME IInv, NEW p \in Proc, NEW b \in Block, NEW f \in Cached(b),
         pc[p] = "out",
         pc' = [pc EXCEPT ![p] = "lock"], want' = [want EXCEPT ![p] = b],
         refcnt' = [refcnt EXCEPT ![f] = @ + 1],
         buf' = [buf EXCEPT ![p] = f],
         UNCHANGED <<block, valid, panicked, lru, data, owner, pinned, disk>>
  PROVE  IInv'
<1>1. buf[p] = NoOne /\ f \in Buf /\ block[f] = b /\ f # NoOne
  BY BcacheAssumption DEF IInv, HandInv, Cached
<1>2. TypeOK' /\ LruInv'
  BY <1>1 DEF IInv, TypeOK, LruInv
<1>3. RefcntExact'
  <2> SUFFICES ASSUME NEW g \in Buf
               PROVE  refcnt'[g] = Cardinality(Users(g)')
                                     + (IF g \in pinned THEN 1 ELSE 0)
    BY DEF RefcntExact, Users
  <2>1. refcnt[g] = Cardinality(Users(g)) + (IF g \in pinned THEN 1 ELSE 0)
    BY DEF IInv, RefcntExact, Users
  <2>2. Cardinality(Users(g)) \in Nat
    BY UsersFinite
  <2>3. Cardinality(Users(g)') = IF g = f THEN Cardinality(Users(g)) + 1
                                 ELSE Cardinality(Users(g))
    BY <1>1, UserComes, ZenonT(30) DEF IInv
  <2>4. refcnt'[g] = IF g = f THEN refcnt[g] + 1 ELSE refcnt[g]
    BY <1>1 DEF IInv, TypeOK
  <2>5. QED
    BY <2>1, <2>2, <2>3, <2>4
<1>4. HandInv' /\ OneBuffer' /\ PinInv'
  BY <1>1 DEF IInv, TypeOK, HandInv, OneBuffer, PinInv
<1>5. OwnerInv' /\ SleeperHasHolder'
  BY <1>1 DEF IInv, TypeOK, OwnerInv, Locked, SleeperHasHolder
<1>6. ValidInv'
  BY DEF IInv, TypeOK, ValidInv, Holds
<1>7. CleanInv'
  <2>1. \A g \in Buf : Dirty(g) => Dirty(g)'
    BY <1>1 DEF IInv, TypeOK, Dirty
  <2>2. QED
    BY <2>1 DEF IInv, CleanInv
<1>8. QED
  BY <1>2, <1>3, <1>4, <1>5, <1>6, <1>7 DEF IInv

\* A block that is not cached: a buffer without references becomes its buffer.
LEMMA BgetRecycleIInv ==
  ASSUME IInv, NEW p \in Proc, NEW b \in Block, NEW f \in Buf,
         pc[p] = "out", Cached(b) = {}, refcnt[f] = 0,
         pc' = [pc EXCEPT ![p] = "lock"], want' = [want EXCEPT ![p] = b],
         block' = [block EXCEPT ![f] = b],
         valid' = [valid EXCEPT ![f] = FALSE],
         refcnt' = [refcnt EXCEPT ![f] = 1],
         buf' = [buf EXCEPT ![p] = f],
         UNCHANGED <<panicked, lru, data, owner, pinned, disk>>
  PROVE  IInv'
<1>1. buf[p] = NoOne /\ f # NoOne
  BY BcacheAssumption DEF IInv, HandInv
<1>2. f \notin pinned /\ \A q \in Proc : buf[q] # f
  BY Unreferenced DEF IInv
<1>3. TypeOK' /\ LruInv'
  BY DEF IInv, TypeOK, LruInv
<1>4. RefcntExact'
  <2> SUFFICES ASSUME NEW g \in Buf
               PROVE  refcnt'[g] = Cardinality(Users(g)')
                                     + (IF g \in pinned THEN 1 ELSE 0)
    BY DEF RefcntExact, Users
  <2>1. refcnt[g] = Cardinality(Users(g)) + (IF g \in pinned THEN 1 ELSE 0)
    BY DEF IInv, RefcntExact, Users
  <2>2. Cardinality(Users(g)) \in Nat
    BY UsersFinite
  <2>3. Cardinality(Users(g)') = IF g = f THEN Cardinality(Users(g)) + 1
                                 ELSE Cardinality(Users(g))
    BY <1>1, UserComes, Zenon DEF IInv
  <2>4. refcnt'[g] = IF g = f THEN refcnt[g] + 1 ELSE refcnt[g]
    BY DEF IInv, TypeOK
  <2>5. QED
    BY <2>1, <2>2, <2>3, <2>4
<1>5. HandInv'
  BY <1>1, <1>2 DEF IInv, TypeOK, HandInv
<1>6. OneBuffer'
  BY DEF IInv, TypeOK, OneBuffer, Cached
<1>7. PinInv'
  BY DEF IInv, PinInv
<1>8. OwnerInv' /\ SleeperHasHolder'
  BY <1>1, <1>2 DEF IInv, TypeOK, OwnerInv, Locked, SleeperHasHolder
<1>9. ValidInv'
  <2>1. \A q \in Proc : Holds(q)' \/ pc'[q] = "fill" =>
                         q # p /\ pc[q] = pc'[q] /\ buf'[q] = buf[q]
    BY DEF IInv, TypeOK, Holds
  <2>2. ASSUME NEW q \in Proc PROVE /\ Holds(q)' => valid'[buf'[q]]
                                    /\ pc'[q] = "fill" => ~valid'[buf'[q]]
    BY <1>2, <2>1, InHand DEF IInv, TypeOK, ValidInv, Holds
  <2>3. \A g \in Buf : valid'[g] => block'[g] # NoOne
    BY DEF IInv, TypeOK, ValidInv
  <2>4. QED
    BY <2>2, <2>3 DEF ValidInv
<1>10. CleanInv'
  <2>1. \A g \in Buf : Dirty(g) => Dirty(g)'
    BY <1>1 DEF IInv, TypeOK, Dirty
  <2>2. QED
    BY <2>1 DEF IInv, TypeOK, CleanInv
<1>11. QED
  BY <1>3, <1>4, <1>5, <1>6, <1>7, <1>8, <1>9, <1>10 DEF IInv

\* bget's outcomes: the block is cached, an unused buffer is recycled, or
\* there is none and it panics.
LEMMA BgetCases ==
  ASSUME IInv, NEW p \in Proc, NEW b \in Block, bget(p, b)
  PROVE  \/ /\ pc' = [pc EXCEPT ![p] = "lock"]
            /\ want' = [want EXCEPT ![p] = b]
            /\ \E f \in Cached(b) :
                 /\ refcnt' = [refcnt EXCEPT ![f] = @ + 1]
                 /\ buf' = [buf EXCEPT ![p] = f]
                 /\ UNCHANGED <<block, valid, panicked>>
         \/ /\ pc' = [pc EXCEPT ![p] = "lock"]
            /\ want' = [want EXCEPT ![p] = b]
            /\ \E f \in Buf :
                 /\ Cached(b) = {} /\ refcnt[f] = 0
                 /\ block' = [block EXCEPT ![f] = b]
                 /\ valid' = [valid EXCEPT ![f] = FALSE]
                 /\ refcnt' = [refcnt EXCEPT ![f] = 1]
                 /\ buf' = [buf EXCEPT ![p] = f]
                 /\ UNCHANGED panicked
         \/ /\ Unused = {} /\ panicked' = TRUE
            /\ UNCHANGED <<block, valid, refcnt, pc, want, buf>>
<1>1. CASE Cached(b) = {} /\ Unused = {}
  BY <1>1, ZenonT(30) DEF bget
<1>2. CASE Cached(b) # {}
  BY <1>2, ZenonT(30) DEF bget
<1>3. CASE Cached(b) = {} /\ Unused # {}
  <2> DEFINE k == CHOOSE i \in Unused : \A j \in Unused : j <= i
  <2>1. Unused \in SUBSET (1..Len(lru)) /\ Len(lru) \in Nat /\ lru \in Seq(Buf)
    BY DEF Unused, IInv, TypeOK
  <2>2. k \in Unused
    <3>1. \E i \in Unused : \A j \in Unused : j <= i
      BY <1>3, <2>1, LastOf, Zenon
    <3>2. QED
      BY <3>1
  <2>3. lru[k] \in Buf /\ refcnt[lru[k]] = 0
    BY <2>1, <2>2 DEF Unused
  <2>4. /\ pc' = [pc EXCEPT ![p] = "lock"]
        /\ want' = [want EXCEPT ![p] = b]
        /\ block' = [block EXCEPT ![lru[k]] = b]
        /\ valid' = [valid EXCEPT ![lru[k]] = FALSE]
        /\ refcnt' = [refcnt EXCEPT ![lru[k]] = 1]
        /\ buf' = [buf EXCEPT ![p] = lru[k]]
        /\ UNCHANGED panicked
    BY <1>3, Zenon DEF bget, Recycled
  <2>5. QED
    BY <1>3, <2>3, <2>4, Zenon
<1>4. QED
  BY <1>1, <1>2, <1>3

\* bget under bcache.lock, whatever it finds.
LEMMA BgetIInv ==
  ASSUME IInv, NEW p \in Proc, NEW b \in Block, bget(p, b) PROVE IInv'
<1>1. pc[p] = "out" /\ UNCHANGED <<lru, data, owner, pinned, disk>>
  BY DEF bget
<1>2. CASE /\ pc' = [pc EXCEPT ![p] = "lock"]
           /\ want' = [want EXCEPT ![p] = b]
           /\ \E f \in Cached(b) :
                /\ refcnt' = [refcnt EXCEPT ![f] = @ + 1]
                /\ buf' = [buf EXCEPT ![p] = f]
                /\ UNCHANGED <<block, valid, panicked>>
  BY <1>1, <1>2, BgetHitIInv, Zenon
<1>3. CASE /\ pc' = [pc EXCEPT ![p] = "lock"]
           /\ want' = [want EXCEPT ![p] = b]
           /\ \E f \in Buf :
                /\ Cached(b) = {} /\ refcnt[f] = 0
                /\ block' = [block EXCEPT ![f] = b]
                /\ valid' = [valid EXCEPT ![f] = FALSE]
                /\ refcnt' = [refcnt EXCEPT ![f] = 1]
                /\ buf' = [buf EXCEPT ![p] = f]
                /\ UNCHANGED panicked
  BY <1>1, <1>3, BgetRecycleIInv, Zenon
<1>4. CASE /\ panicked' = TRUE
           /\ UNCHANGED <<block, valid, refcnt, pc, want, buf>>
  BY <1>1, <1>4 DEF IInv, TypeOK, LruInv, HandInv, OneBuffer, RefcntExact,
     OwnerInv, Locked, ValidInv, Holds, CleanInv, Dirty, PinInv,
     SleeperHasHolder
<1>5. QED
  BY <1>2, <1>3, <1>4, BgetCases, Zenon

\* Every step keeps the invariant.
LEMMA NextIInv == IInv /\ [Next]_vars => IInv'
<1> SUFFICES ASSUME IInv, [Next]_vars PROVE IInv'
  OBVIOUS
<1>1. CASE UNCHANGED vars
  BY <1>1 DEF vars, meta, IInv, TypeOK, LruInv, HandInv, OneBuffer, RefcntExact,
     OwnerInv, Locked, ValidInv, Holds, CleanInv, Dirty, PinInv,
     SleeperHasHolder
<1>2. CASE Next
  <2>1. PICK p \in Proc :
          \/ Step(p) \/ bunpin(p)
          \/ \E b \in Block : bget(p, b)
          \/ \E v \in Val : Modify(p, v)
    BY <1>2 DEF Next
  <2>2. CASE Step(p)
    BY <2>2, AcquiresleepIInv, BreadIInv, BwriteIInv, BpinIInv,
       ReleasesleepIInv, BrelseIInv DEF Step
  <2>3. CASE bunpin(p) \/ (\E b \in Block : bget(p, b))
             \/ \E v \in Val : Modify(p, v)
    BY <2>3, BunpinIInv, BgetIInv, ModifyIInv
  <2>4. QED
    BY <2>1, <2>2, <2>3
<1>3. QED
  BY <1>1, <1>2

\* The inductive invariant holds in every behaviour of the buffer cache.
THEOREM SpecIInv == Spec => []IInv
BY InitIInv, NextIInv, PTL DEF Spec

----------------------------------------------------------------------------
\* The list, the counts and the fields keep their types; in particular
\* brelse's relinking never loses or doubles a buffer.
THEOREM TypeCorrect == Spec => []TypeOK
<1>1. IInv => TypeOK
  BY DEF IInv
<1>2. QED
  BY <1>1, SpecIInv, PTL

\* bget's window before acquiresleep and brelse's after releasesleep are safe:
\* the buffer stays its block's, and the block's only one.
THEOREM IdentitySafe == Spec => []IdentityKept
<1>1. IInv => IdentityKept
  <2> SUFFICES ASSUME IInv PROVE IdentityKept
    OBVIOUS
  <2>1. ASSUME NEW b \in Block PROVE Cardinality(Cached(b)) <= 1
    <3>1. b # NoOne
      BY BcacheAssumption
    <3>2. CASE Cached(b) = {}
      BY <3>2, FS_EmptySet
    <3>3. CASE Cached(b) # {}
      <4>1. PICK f \in Cached(b) : TRUE
        BY <3>3
      <4>2. Cached(b) = {f}
        BY <3>1, <4>1 DEF IInv, OneBuffer, Cached
      <4>3. QED
        BY <4>2, FS_Singleton
    <3>4. QED
      BY <3>2, <3>3
  <2>2. QED
    BY <2>1 DEF IInv, HandInv, IdentityKept
<1>2. QED
  BY <1>1, SpecIInv, PTL

\* A buffer's refcnt is the number of processes between bget and brelse, and
\* one for the log.
THEOREM ReferencesCounted == Spec => []RefcntExact
<1>1. IInv => RefcntExact
  BY DEF IInv
<1>2. QED
  BY <1>1, SpecIInv, PTL

\* With a buffer for every process, besides the MaxPins that the log may pin,
\* bget never panics.
THEOREM BuffersSuffice ==
  ASSUME Cardinality(Buf) >= Cardinality(Proc) + MaxPins
  PROVE  Spec => []NoPanic
<1>1. Init => NoPanic
  BY DEF Init, binit, NoPanic
<1>2. IInv /\ NoPanic /\ [Next]_vars => NoPanic'
  <2> SUFFICES ASSUME IInv, NoPanic, [Next]_vars PROVE NoPanic'
    OBVIOUS
  <2>1. CASE UNCHANGED vars
    BY <2>1 DEF vars, NoPanic
  <2>2. ASSUME NEW p \in Proc, NEW b \in Block, bget(p, b) PROVE NoPanic'
    <3>1. buf[p] = NoOne
      BY <2>2 DEF bget, IInv, HandInv
    <3>2. Unused # {}
      BY <3>1, SomeUnused DEF IInv
    <3>3. panicked' = panicked
      BY <2>2, <3>2, BgetCases, Zenon
    <3>4. QED
      BY <3>3 DEF NoPanic
  <2>3. ASSUME NEW p \in Proc,
               Step(p) \/ bunpin(p) \/ \E v \in Val : Modify(p, v)
        PROVE  NoPanic'
    BY <2>3 DEF Step, acquiresleep, bread, bwrite, bpin, releasesleep, brelse,
                bunpin, Modify, NoPanic
  <2>4. QED
    BY <2>1, <2>2, <2>3 DEF Next
<1>3. QED
  BY <1>1, <1>2, SpecIInv, PTL DEF Spec

\* releasesleep's wakeup misses nobody.
THEOREM SleepersWoken == Spec => []SleeperHasHolder
<1>1. IInv => SleeperHasHolder
  BY DEF IInv
<1>2. QED
  BY <1>1, SpecIInv, PTL
=============================================================================
