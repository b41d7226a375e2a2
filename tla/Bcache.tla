------------------------------- MODULE Bcache -------------------------------
(***************************************************************************)
(* The buffer cache of kernel/bio.c and the sleep locks of                  *)
(* kernel/sleeplock.c that protect its buffers.                             *)
(*                                                                         *)
(* What runs under bcache.lock, or under the spin lock inside a sleep lock, *)
(* is one action.  bget lets go of bcache.lock before acquiresleep, and     *)
(* brelse of the sleep lock before it takes bcache.lock: those are separate *)
(* actions.  A process has one buffer at a time.                            *)
(***************************************************************************)
EXTENDS Naturals, FiniteSets, Sequences, Functions

CONSTANTS
  Proc, Block, Val,
  Buf,        \* bcache.buf
  NoOne,      \* nobody, or no buffer, or no block yet
  MaxPins     \* the most buffers the log pins

ASSUME BcacheAssumption ==
  /\ IsFiniteSet(Proc) /\ IsFiniteSet(Buf) /\ MaxPins \in Nat
  /\ NoOne \notin Proc \cup Block \cup Buf

VARIABLES
  block, refcnt, valid, data,  \* the fields of a buffer
  owner,     \* the process that has its sleep lock
  lru,       \* bcache.head's list, the most recently used first
  pinned,    \* the buffers log_write pinned
  disk,
  pc,        \* where a process is between bget and brelse
  buf, want, \* its buffer and the block it asked for
  panicked

meta == <<block, refcnt, lru>>
vars == <<meta, valid, data, owner, pinned, disk, pc, buf, want, panicked>>

TypeOK ==
  /\ block \in [Buf -> Block \cup {NoOne}]
  /\ refcnt \in [Buf -> Nat]
  /\ valid \in [Buf -> BOOLEAN] /\ data \in [Buf -> Val]
  /\ owner \in [Buf -> Proc \cup {NoOne}]
  /\ lru \in Seq(Buf) /\ Len(lru) = Cardinality(Buf) /\ Range(lru) = Buf
  /\ pinned \subseteq Buf
  /\ disk \in [Block -> Val]
  /\ pc \in [Proc -> {"out", "lock", "asleep", "fill", "use", "dirty", "put"}]
  /\ buf \in [Proc -> Buf \cup {NoOne}] /\ want \in [Proc -> Block \cup {NoOne}]
  /\ panicked \in BOOLEAN

binit ==
  /\ block = [f \in Buf |-> NoOne] /\ refcnt = [f \in Buf |-> 0]
  /\ valid = [f \in Buf |-> FALSE]
  /\ owner = [f \in Buf |-> NoOne]
  /\ lru = CHOOSE s \in Bijection(1..Cardinality(Buf), Buf) : TRUE

Init ==
  /\ binit
  /\ \E v \in Val : data = [f \in Buf |-> v] /\ disk = [b \in Block |-> v]
  /\ pinned = {}
  /\ pc = [p \in Proc |-> "out"]
  /\ buf = [p \in Proc |-> NoOne] /\ want = [p \in Proc |-> NoOne]
  /\ panicked = FALSE

----------------------------------------------------------------------------
(* bget and acquiresleep *)

Cached(b) == {f \in Buf : block[f] = b}

Unused == {i \in 1..Len(lru) : refcnt[lru[i]] = 0}

\* Mutant: a recycled buffer keeps its valid flag.
Recycled_StillValid(f) == valid

Recycled(f) == [valid EXCEPT ![f] = FALSE]

\* Is the block cached?  Otherwise recycle the least recently used buffer
\* without references, without writing it.  After the panic the process is
\* stuck and keeps bcache.lock, which every ~panicked below stands for.
bget(p, b) ==
  /\ pc[p] = "out" /\ ~panicked
  /\ \/ \E f \in Cached(b) :
          /\ pc' = [pc EXCEPT ![p] = "lock"]
          /\ want' = [want EXCEPT ![p] = b]
          /\ refcnt' = [refcnt EXCEPT ![f] = @ + 1]
          /\ buf' = [buf EXCEPT ![p] = f]
          /\ UNCHANGED <<block, valid, panicked>>
     \/ /\ Cached(b) = {} /\ Unused # {}
        /\ LET f == lru[CHOOSE i \in Unused : \A j \in Unused : j <= i] IN
             /\ pc' = [pc EXCEPT ![p] = "lock"]
             /\ want' = [want EXCEPT ![p] = b]
             /\ block' = [block EXCEPT ![f] = b]
             /\ valid' = Recycled(f)
             /\ refcnt' = [refcnt EXCEPT ![f] = 1]
             /\ buf' = [buf EXCEPT ![p] = f]
             /\ UNCHANGED panicked
     \/ /\ Cached(b) = {} /\ Unused = {}
        /\ panicked' = TRUE
        /\ UNCHANGED <<block, valid, refcnt, pc, want, buf>>
  /\ UNCHANGED <<lru, data, owner, pinned, disk>>

Free(f) == owner[f] = NoOne

\* while(lk->locked) sleep(lk, &lk->lk)
acquiresleep(p) ==
  /\ pc[p] = "lock"
  /\ IF Free(buf[p])
     THEN /\ owner' = [owner EXCEPT ![buf[p]] = p]
          /\ pc' = [pc EXCEPT ![p] = IF valid[buf[p]] THEN "use" ELSE "fill"]
     ELSE /\ pc' = [pc EXCEPT ![p] = "asleep"]
          /\ UNCHANGED owner
  /\ UNCHANGED <<meta, valid, data, pinned, disk, buf, want, panicked>>

\* bread() reads the block from the disk.
bread(p) ==
  /\ pc[p] = "fill"
  /\ data' = [data EXCEPT ![buf[p]] = disk[block[buf[p]]]]
  /\ valid' = [valid EXCEPT ![buf[p]] = TRUE]
  /\ pc' = [pc EXCEPT ![p] = "use"]
  /\ UNCHANGED <<meta, owner, pinned, disk, buf, want, panicked>>

----------------------------------------------------------------------------
(* What the file system does with a buffer: it changes the data, and writes *)
(* it through or gives it to the log before it lets the buffer go.          *)

Modify(p, v) ==
  /\ pc[p] \in {"use", "dirty"}
  /\ data' = [data EXCEPT ![buf[p]] = v]
  /\ pc' = [pc EXCEPT ![p] = "dirty"]
  /\ UNCHANGED <<meta, valid, owner, pinned, disk, buf, want, panicked>>

bwrite(p) ==
  /\ pc[p] \in {"use", "dirty"}
  /\ disk' = [disk EXCEPT ![block[buf[p]]] = data[buf[p]]]
  /\ pc' = [pc EXCEPT ![p] = "use"]
  /\ UNCHANGED <<meta, valid, data, owner, pinned, buf, want, panicked>>

\* log_write(): bpin(), unless the block is in the log already.
bpin(p) ==
  /\ pc[p] = "dirty" /\ ~panicked
  /\ pc' = [pc EXCEPT ![p] = "use"]
  /\ IF buf[p] \in pinned THEN UNCHANGED <<refcnt, pinned>>
     ELSE /\ Cardinality(pinned) < MaxPins
          /\ pinned' = pinned \cup {buf[p]}
          /\ refcnt' = [refcnt EXCEPT ![buf[p]] = @ + 1]
  /\ UNCHANGED <<block, lru, valid, data, owner, disk, buf, want, panicked>>

\* install_trans() unpins a buffer it has just written home.
bunpin(p) ==
  /\ pc[p] = "use" /\ buf[p] \in pinned /\ ~panicked
  /\ disk[block[buf[p]]] = data[buf[p]]
  /\ pinned' = pinned \ {buf[p]}
  /\ refcnt' = [refcnt EXCEPT ![buf[p]] = @ - 1]
  /\ UNCHANGED <<block, lru, valid, data, owner, disk, pc, buf, want, panicked>>

----------------------------------------------------------------------------
(* brelse *)

Woken(f) ==
  [q \in Proc |-> IF pc[q] = "asleep" /\ buf[q] = f THEN "lock" ELSE pc[q]]

releasesleep(p) ==
  /\ pc[p] = "use"
  /\ owner' = [owner EXCEPT ![buf[p]] = NoOne]
  /\ pc' = [Woken(buf[p]) EXCEPT ![p] = "put"]
  /\ UNCHANGED <<meta, valid, data, pinned, disk, buf, want, panicked>>

LetGo(p) == refcnt[buf[p]] - 1

\* f is unlinked and becomes bcache.head.next.
MostRecent(f) ==
  LET k == CHOOSE i \in 1..Len(lru) : lru[i] = f
  IN  <<f>> \o SubSeq(lru, 1, k - 1) \o SubSeq(lru, k + 1, Len(lru))

brelse(p) ==
  /\ pc[p] = "put" /\ ~panicked
  /\ refcnt' = [refcnt EXCEPT ![buf[p]] = LetGo(p)]
  /\ lru' = IF refcnt'[buf[p]] = 0 THEN MostRecent(buf[p]) ELSE lru
  /\ pc' = [pc EXCEPT ![p] = "out"]
  /\ buf' = [buf EXCEPT ![p] = NoOne]
  /\ want' = [want EXCEPT ![p] = NoOne]
  /\ UNCHANGED <<block, valid, data, owner, pinned, disk, panicked>>

Step(p) == acquiresleep(p) \/ bread(p) \/ bwrite(p) \/ bpin(p)
             \/ releasesleep(p) \/ brelse(p)

Next ==
  \E p \in Proc :
    \/ Step(p) \/ bunpin(p)
    \/ \E b \in Block : bget(p, b)
    \/ \E v \in Val : Modify(p, v)

Spec == Init /\ [][Next]_vars

\* Processes run, disk reads end, holders get round to brelse, and a lock
\* that is free again and again is granted.
Fairness ==
  \A p \in Proc :
    /\ WF_vars(acquiresleep(p)) /\ SF_vars(acquiresleep(p) /\ Free(buf[p]))
    /\ WF_vars(bread(p)) /\ WF_vars(brelse(p))
    /\ SF_vars(bwrite(p) /\ pc[p] = "dirty") /\ SF_vars(releasesleep(p))

----------------------------------------------------------------------------
(* What the cache guarantees. *)

Holds(p) == pc[p] \in {"use", "dirty"}

\* The current contents of a block, and the process that has it.
Value ==
  [b \in Block |-> LET fs == {f \in Cached(b) : valid[f]}
                  IN  IF fs = {} THEN disk[b] ELSE data[CHOOSE f \in fs : TRUE]]
Holder ==
  [b \in Block |-> LET ps == {p \in Proc : Holds(p) /\ want[p] = b}
                  IN  IF ps = {} THEN NoOne ELSE CHOOSE p \in ps : TRUE]

Abstract == INSTANCE BlockStore WITH val <- Value, holder <- Holder

\* The cache is invisible: whoever has a block from bread() to brelse() is
\* alone, and sees the value written last, whatever was recycled, pinned,
\* written or read from disk in between.
Coherent == Abstract!Spec

\* The buffer a process was given in bget stays its block's, and the block's
\* only one, through the window before acquiresleep, the wait there and the
\* window after releasesleep, whoever recycles buffers meanwhile.
IdentityKept ==
  /\ \A p \in Proc : buf[p] # NoOne => block[buf[p]] = want[p]
  /\ \A b \in Block : Cardinality(Cached(b)) <= 1

\* References are counted exactly, so that no buffer is lost to the cache or
\* recycled under its user: one for each process between bget and brelse and
\* one for the log.
RefcntExact ==
  \A f \in Buf :
    refcnt[f] = Cardinality({p \in Proc : buf[p] = f})
                  + (IF f \in pinned THEN 1 ELSE 0)

\* "bget: no buffers" is not reached as long as there is a buffer for every
\* process besides those the log pins.
NoPanic == ~panicked

\* No wakeup is missed: who sleeps in acquiresleep sleeps on a held lock.
SleeperHasHolder ==
  \A p \in Proc : pc[p] = "asleep" => owner[buf[p]] # NoOne

\* Every bread() returns.
BreadReturns(p) == pc[p] = "lock" ~> pc[p] = "use"
=============================================================================
