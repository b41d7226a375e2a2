----------------------------- MODULE PipeProofs -----------------------------
(***************************************************************************)
(* Proofs about Pipe: for any number of readers and writers, any PIPESIZE   *)
(* and any width of the counters that PIPESIZE divides, no wakeup is missed *)
(* and the ring buffer is a bounded queue (Fifo).                           *)
(***************************************************************************)
EXTENDS Pipe, Integers, TLAPS

\* A process that is in a call has the pipe open, and an end that some
\* process has open is open.
HeldInv ==
  /\ \A p \in User : pc[p] # "out" => p \in held
  /\ held \cap Reader # {} => readopen
  /\ held \cap Writer # {} => writeopen

IInv == TypeOK /\ HeldInv /\ ReaderSleepsOnEmpty /\ WriterSleepsOnFull

----------------------------------------------------------------------------
(***************************************************************************)
(* Arithmetic of the counters.                                              *)
(***************************************************************************)
LEMMA ModType ==
  ASSUME NEW m \in Nat \ {0}, NEW x \in Int PROVE x % m \in 0..m-1
OBVIOUS

\* A number below m is its own remainder.
LEMMA ModSmall ==
  ASSUME NEW m \in Nat \ {0}, NEW x \in 0..m-1 PROVE x % m = x
OBVIOUS

\* A multiple of m that lies strictly between -m and m is 0.
LEMMA NoMultiple ==
  ASSUME NEW m \in Nat \ {0}, NEW d \in Int, d * m < m, d * m > -m
  PROVE  d = 0
OBVIOUS

\* The remainder is unique.
LEMMA ModUnique ==
  ASSUME NEW m \in Nat \ {0}, NEW q \in Int, NEW r \in 0..m-1
  PROVE  (q * m + r) % m = r
OBVIOUS

\* One wraparound subtracts m.
LEMMA ModWrap ==
  ASSUME NEW m \in Nat \ {0}, NEW x \in m..2*m-1 PROVE x % m = x - m
OBVIOUS

\* Quotient and remainder.
LEMMA ModExists ==
  ASSUME NEW m \in Nat \ {0}, NEW x \in Int
  PROVE  \E q \in Int : x = q * m + (x % m)
<1> DEFINE q == x \div m
<1>1. q \in Int /\ x % m = x - m * q
  OBVIOUS
<1> HIDE DEF q
<1>2. m * q = q * m /\ m * q \in Int
  BY <1>1
<1>3. x = q * m + (x - m * q)
  BY <1>2
<1>4. x = q * m + (x % m)
  BY <1>1, <1>3, Zenon
<1>5. QED
  BY <1>1, <1>4, Zenon

\* Two indices less than a ring apart have different slots.
LEMMA SlotsDiffer ==
  ASSUME NEW m \in Nat \ {0}, NEW x \in Int, NEW y \in Int, x < y, y < x + m
  PROVE  x % m # y % m
<1> SUFFICES ASSUME x % m = y % m PROVE FALSE
  OBVIOUS
<1>1. PICK q \in Int : x = q * m + (x % m)
  BY ModExists
<1>2. PICK r \in Int : y = r * m + (y % m)
  BY ModExists
<1>3. x % m \in Int
  BY ModType
<1>4. (r - q) * m = y - x
  BY <1>1, <1>2, <1>3
<1>5. r - q = 0
  BY <1>4, NoMultiple
<1>6. QED
  BY <1>4, <1>5

\* The counters' wraparound does not move the slots.
LEMMA WrapKeepsSlot ==
  ASSUME NEW m \in Nat \ {0}, NEW W \in Nat, W % m = 0, NEW x \in Int
  PROVE  (x - W) % m = x % m
<1>1. PICK q \in Int : x = q * m + (x % m)
  BY ModExists
<1>2. PICK r \in Int : W = r * m + (W % m)
  <2>1. W \in Int
    OBVIOUS
  <2>2. QED
    BY <2>1, ModExists, Zenon
<1>3. x % m \in 0..m-1
  BY ModType
<1> DEFINE k == x % m
           d == q - r
<1>4. q * m - r * m = d * m /\ d \in Int
  OBVIOUS
<1>5. x - W = d * m + k
  <2> HIDE DEF k, d
  <2>1. x = q * m + k
    BY <1>1, Zenon DEF k
  <2>2. k \in Int
    BY <1>3 DEF k
  <2>3. W = r * m /\ q * m \in Int /\ r * m \in Int
    BY <1>2
  <2>4. QED
    BY <1>4, <2>1, <2>2, <2>3
<1>6. (d * m + k) % m = k
  <2> HIDE DEF k, d
  <2>1. QED
    BY <1>3, <1>4, ModUnique DEF k
<1>7. QED
  BY <1>5, <1>6

\* How the counters move, and how far they are apart.
LEMMA Advance ==
  ASSUME NEW W \in Nat \ {0}, NEW a \in 0..W-1, NEW k \in 0..W-1
  PROVE  /\ (a + k) % W \in 0..W-1
         /\ a + k < W => (a + k) % W = a + k
         /\ a + k >= W => (a + k) % W = a + k - W
<1>1. a + k \in Int
  OBVIOUS
<1>2. CASE a + k < W
  <2>1. a + k \in 0..W-1
    BY <1>2
  <2>2. QED
    BY <1>2, <2>1, ModSmall
<1>3. CASE a + k >= W
  <2>1. a + k \in W..2*W-1
    BY <1>3
  <2>2. QED
    BY <1>3, <2>1, ModWrap
<1>4. QED
  BY <1>1, <1>2, <1>3

\* The unsigned difference of two counters.
LEMMA Distance ==
  ASSUME NEW W \in Nat \ {0}, NEW a \in 0..W-1, NEW b \in 0..W-1
  PROVE  /\ (b + W - a) % W \in 0..W-1
         /\ a <= b => (b + W - a) % W = b - a
         /\ a > b => (b + W - a) % W = b + W - a
<1>1. b + W - a \in Int
  OBVIOUS
<1>2. CASE a <= b
  <2>1. b + W - a \in W..2*W-1
    BY <1>2
  <2>2. (b + W - a) % W = b + W - a - W
    BY <2>1, ModWrap
  <2>3. QED
    BY <1>2, <2>2
<1>3. CASE a > b
  <2>1. b + W - a \in 0..W-1
    BY <1>3
  <2>2. QED
    BY <1>3, <2>1, ModSmall
<1>4. QED
  BY <1>1, <1>2, <1>3

\* The sizes, in the form the lemmas above ask for.
LEMMA Sizes ==
  /\ PIPESIZE \in Nat \ {0} /\ WRAP \in Nat \ {0} /\ PIPESIZE \in 0..WRAP-1
  /\ 1 \in 0..WRAP-1
BY PipeAssumption

\* The number of unread bytes.
LEMMA UsedIs ==
  ASSUME TypeOK
  PROVE  /\ nread \in Int /\ nwrite \in Int /\ Used \in 0..PIPESIZE
         /\ nread <= nwrite => Used = nwrite - nread
         /\ nread > nwrite => Used = nwrite + WRAP - nread
<1>1. nread \in 0..WRAP-1 /\ nwrite \in 0..WRAP-1 /\ Used <= PIPESIZE
  BY DEF TypeOK
<1>2. Used \in 0..WRAP-1
  BY <1>1, Sizes, Distance DEF Used
<1>3. QED
  BY <1>1, <1>2, Sizes, Distance DEF Used

\* pipewrite's test, nwrite == nread + PIPESIZE, is exact.
LEMMA FullIs == ASSUME TypeOK PROVE Full <=> Used = PIPESIZE
<1>1. nread \in 0..WRAP-1 /\ nwrite \in 0..WRAP-1
  BY DEF TypeOK
<1>2. /\ nread + PIPESIZE < WRAP => (nread + PIPESIZE) % WRAP = nread + PIPESIZE
      /\ nread + PIPESIZE >= WRAP =>
           (nread + PIPESIZE) % WRAP = nread + PIPESIZE - WRAP
  BY <1>1, Sizes, Advance
<1> DEFINE x == (nread + PIPESIZE) % WRAP
<1>3. Full <=> nwrite = x
  BY DEF Full
<1> HIDE DEF x
<1>4. /\ nread + PIPESIZE < WRAP => x = nread + PIPESIZE
      /\ nread + PIPESIZE >= WRAP => x = nread + PIPESIZE - WRAP
  BY <1>2 DEF x
<1>5. QED
  BY <1>1, <1>3, <1>4, Sizes, UsedIs

\* piperead's test, nread == nwrite, is exact.
LEMMA EmptyIs == ASSUME TypeOK PROVE nread = nwrite <=> Used = 0
BY UsedIs, Sizes DEF TypeOK

\* A byte more.
LEMMA UsedByte ==
  ASSUME TypeOK, ~Full, nwrite' = (nwrite + 1) % WRAP, nread' = nread
  PROVE  nwrite' \in 0..WRAP-1 /\ Used' = Used + 1 /\ Used < PIPESIZE
<1>1. nread \in 0..WRAP-1 /\ nwrite \in 0..WRAP-1
  BY DEF TypeOK
<1>2. /\ nwrite' \in 0..WRAP-1
      /\ nwrite + 1 < WRAP => nwrite' = nwrite + 1
      /\ nwrite + 1 >= WRAP => nwrite' = nwrite + 1 - WRAP
  BY <1>1, Sizes, Advance
<1>3. /\ nread <= nwrite' => Used' = nwrite' - nread
      /\ nread > nwrite' => Used' = nwrite' + WRAP - nread
  BY <1>1, <1>2, Sizes, Distance DEF Used
<1>4. Used < PIPESIZE
  BY UsedIs, FullIs, Sizes
<1>5. QED
  BY <1>1, <1>2, <1>3, <1>4, UsedIs, Sizes

\* k bytes less.
LEMMA UsedTake ==
  ASSUME TypeOK, NEW k \in 0..Used, nread' = (nread + k) % WRAP,
         nwrite' = nwrite
  PROVE  nread' \in 0..WRAP-1 /\ Used' = Used - k
<1>1. nread \in 0..WRAP-1 /\ nwrite \in 0..WRAP-1 /\ k \in 0..WRAP-1
  BY UsedIs, Sizes DEF TypeOK
<1>2. /\ nread' \in 0..WRAP-1
      /\ nread + k < WRAP => nread' = nread + k
      /\ nread + k >= WRAP => nread' = nread + k - WRAP
  BY <1>1, Sizes, Advance
<1>3. /\ nread' <= nwrite => Used' = nwrite - nread'
      /\ nread' > nwrite => Used' = nwrite + WRAP - nread'
  BY <1>1, <1>2, Sizes, Distance DEF Used
<1>4. k <= Used /\ k \in Int /\ Used \in Int /\ Used <= PIPESIZE
  BY UsedIs, Sizes
<1>5. CASE nread <= nwrite
  BY <1>1, <1>2, <1>3, <1>4, <1>5, UsedIs, Sizes
<1>6. CASE nread > nwrite
  BY <1>1, <1>2, <1>3, <1>4, <1>6, UsedIs, Sizes
<1>7. QED
  BY <1>1, <1>5, <1>6

----------------------------------------------------------------------------
(***************************************************************************)
(* The invariant holds initially and every action keeps it.                 *)
(***************************************************************************)
LEMMA InitIInv == Init => IInv
<1> SUFFICES ASSUME Init PROVE IInv
  OBVIOUS
<1>1. nread \in 0..WRAP-1 /\ nwrite \in 0..WRAP-1 /\ nread = 0 /\ nwrite = 0
  BY Sizes DEF Init
<1>2. Used = 0
  BY <1>1, Sizes, Distance DEF Used
<1>3. got \in Reader \X (Seq(Byte) \cup {Failed})
  <2>1. <<>> \in Seq(Byte)
    OBVIOUS
  <2>2. PICK r \in Reader : got = <<r, <<>>>>
    BY DEF Init
  <2>3. QED
    BY <2>1, <2>2
<1>4. left \in [User -> 0..MaxN] /\ data \in [0..PIPESIZE-1 -> Byte]
  BY PipeAssumption DEF Init
<1>5. TypeOK
  BY <1>1, <1>2, <1>3, <1>4, Sizes DEF Init, TypeOK
<1>6. HeldInv /\ ReaderSleepsOnEmpty /\ WriterSleepsOnFull
  BY DEF Init, HeldInv, ReaderSleepsOnEmpty, WriterSleepsOnFull, User
<1>7. QED
  BY <1>5, <1>6 DEF IInv

\* What wakeup() leaves: nobody of that side sleeps, the others are as before.
LEMMA WokenIs ==
  ASSUME TypeOK, NEW side, NEW p \in User
  PROVE  /\ Woken(side) \in [User -> {"out", "begin", "loop", "asleep"}]
         /\ p \in side => Woken(side)[p] # "asleep"
         /\ p \notin side => Woken(side)[p] = pc[p]
         /\ Woken(side)[p] = "asleep" => pc[p] = "asleep"
         /\ Woken(side)[p] = "out" <=> pc[p] = "out"
         /\ Woken(side)[p] = "loop" <=> pc[p] = "loop"
BY DEF TypeOK, Woken

\* The steps that leave the ring and the ends alone.
LEMMA QuietIInv ==
  ASSUME IInv, UNCHANGED <<nread, nwrite, data, ends, got, held>>,
         pc' \in [User -> {"out", "begin", "loop", "asleep"}],
         left' \in [User -> 0..MaxN],
         killed' \subseteq User, killed \subseteq killed',
         \A p \in User : pc'[p] # "out" => p \in held,
         \A p \in User : pc'[p] = "asleep" => \/ pc[p] = "asleep"
                                              \/ p \in Reader /\ Waits
                                              \/ p \in Writer /\ Full /\ readopen,
         \/ Locked => Locked'
         \/ Writer \cap killed' # {}
         \/ \A r \in Reader : pc'[r] # "asleep"
  PROVE  IInv'
<1>1. TypeOK'
  BY DEF IInv, TypeOK, Used, ends
<1>2. HeldInv'
  BY DEF IInv, HeldInv, ends
<1>3. ReaderSleepsOnEmpty'
  <2>1. Waits' <=> Waits
    BY DEF Waits, ends
  <2>2. QED
    BY <2>1, PipeAssumption DEF IInv, ReaderSleepsOnEmpty, User
<1>4. WriterSleepsOnFull'
  <2>1. (Full' <=> Full) /\ readopen' = readopen
    BY DEF Full, ends
  <2>2. QED
    BY <2>1, PipeAssumption DEF IInv, WriterSleepsOnFull, User
<1>5. QED
  BY <1>1, <1>2, <1>3, <1>4 DEF IInv

\* A read or write begins.
LEMMA CallIInv ==
  ASSUME IInv, NEW p \in User, NEW n \in 1..MaxN, Call(p, n) PROVE IInv'
<1>1. /\ pc[p] = "out" /\ pc' = [pc EXCEPT ![p] = "begin"] /\ p \in held
      /\ left' = [left EXCEPT ![p] = n]
      /\ UNCHANGED <<nread, nwrite, data, ends, got, held>> /\ killed' = killed
  BY DEF Call
<1>2. /\ pc' \in [User -> {"out", "begin", "loop", "asleep"}]
      /\ left' \in [User -> 0..MaxN]
      /\ killed' \subseteq User /\ killed \subseteq killed'
  BY <1>1, PipeAssumption DEF IInv, TypeOK
<1>3. \A q \in User : /\ pc'[q] # "out" => q \in held
                      /\ pc'[q] = "asleep" => pc[q] = "asleep"
                      /\ pc[q] = "loop" => pc'[q] = "loop"
  BY <1>1 DEF IInv, TypeOK, HeldInv
<1>4. Locked => Locked'
  BY <1>3 DEF Locked, User
<1>5. QED
  BY <1>1, <1>2, <1>3, <1>4, QuietIInv, Zenon

\* pipewrite takes pi->lock.
LEMMA AcquireIInv ==
  ASSUME IInv, NEW w \in Writer, pipewrite_acquire(w) PROVE IInv'
<1>1. /\ pc[w] = "begin" /\ pc' = [pc EXCEPT ![w] = "loop"] /\ w \in User
      /\ UNCHANGED <<nread, nwrite, data, ends, got, held>> /\ killed' = killed
      /\ left' = left
  BY DEF pipewrite_acquire, User
<1>2. /\ pc' \in [User -> {"out", "begin", "loop", "asleep"}]
      /\ left' \in [User -> 0..MaxN]
      /\ killed' \subseteq User /\ killed \subseteq killed'
  BY <1>1 DEF IInv, TypeOK
<1>3. \A q \in User : /\ pc'[q] # "out" => q \in held
                      /\ pc'[q] = "asleep" => pc[q] = "asleep"
  BY <1>1 DEF IInv, TypeOK, HeldInv
<1>4. Locked'
  BY <1>1 DEF IInv, TypeOK, Locked
<1>5. QED
  BY <1>1, <1>2, <1>3, <1>4, QuietIInv, Zenon

\* pipewrite gives up without a wakeup: either nobody reads any more, or the
\* writer was killed.
LEMMA AbortIInv ==
  ASSUME IInv, NEW w \in Writer, pipewrite_abort(w) PROVE IInv'
<1>1. /\ pc' = [pc EXCEPT ![w] = "out"] /\ left' = [left EXCEPT ![w] = 0]
      /\ (~readopen \/ w \in killed) /\ w \in User
      /\ UNCHANGED <<nread, nwrite, data, ends, got, held>> /\ killed' = killed
  BY DEF pipewrite_abort, User
<1>2. /\ pc' \in [User -> {"out", "begin", "loop", "asleep"}]
      /\ left' \in [User -> 0..MaxN]
      /\ killed' \subseteq User /\ killed \subseteq killed'
  BY <1>1, PipeAssumption DEF IInv, TypeOK
<1>3. \A q \in User : /\ pc'[q] # "out" => q \in held
                      /\ pc'[q] = "asleep" => pc[q] = "asleep"
  BY <1>1 DEF IInv, TypeOK, HeldInv
<1>4. \/ Writer \cap killed' # {}
      \/ \A r \in Reader : pc'[r] # "asleep"
  <2>1. CASE w \in killed
    BY <1>1, <2>1
  <2>2. CASE ~readopen
    <3>1. \A r \in Reader : r \notin held
      BY <2>2 DEF IInv, HeldInv
    <3>2. \A r \in Reader : pc'[r] = "out"
      BY <1>3, <3>1 DEF User
    <3>3. QED
      BY <3>2
  <2>3. QED
    BY <1>1, <2>1, <2>2
<1>5. QED
  BY <1>1, <1>2, <1>3, <1>4, QuietIInv, Zenon

\* sleep(&pi->nwrite): the readers were woken, and the pipe is full.
LEMMA SleepIInv ==
  ASSUME IInv, NEW w \in Writer, pipewrite_sleep(w) PROVE IInv'
<1>1. /\ pc' = [Woken(Reader) EXCEPT ![w] = "asleep"]
      /\ pc[w] = "loop" /\ Full /\ readopen /\ w \in User
      /\ UNCHANGED <<nread, nwrite, data, ends, got, held>> /\ killed' = killed
      /\ left' = left
  BY DEF pipewrite_sleep, Goes, User
<1>2. TypeOK
  BY DEF IInv
<1>3. Woken(Reader) \in [User -> {"out", "begin", "loop", "asleep"}]
  BY <1>1, <1>2, WokenIs
<1>4. /\ pc' \in [User -> {"out", "begin", "loop", "asleep"}]
      /\ left' \in [User -> 0..MaxN]
      /\ killed' \subseteq User /\ killed \subseteq killed'
  BY <1>1, <1>2, <1>3 DEF TypeOK
<1>5. \A q \in User :
        /\ pc'[q] # "out" => pc[q] # "out"
        /\ pc'[q] = "asleep" => pc[q] = "asleep" \/ q = w
  BY <1>1, <1>2, <1>3, WokenIs
<1>6. \A r \in Reader : pc'[r] # "asleep"
  BY <1>1, <1>2, <1>3, WokenIs, PipeAssumption DEF User
<1>7. \A q \in User : pc'[q] # "out" => q \in held
  BY <1>5 DEF IInv, HeldInv
<1>8. QED
  BY <1>1, <1>4, <1>5, <1>6, <1>7, QuietIInv

\* pipewrite returns after wakeup(&pi->nread).
LEMMA DoneIInv ==
  ASSUME IInv, NEW w \in Writer, pipewrite_done(w) PROVE IInv'
<1>1. /\ pc' = [Woken(Reader) EXCEPT ![w] = "out"] /\ w \in User
      /\ left' = [left EXCEPT ![w] = 0]
      /\ UNCHANGED <<nread, nwrite, data, ends, got, held>> /\ killed' = killed
  BY DEF pipewrite_done, User
<1>2. TypeOK
  BY DEF IInv
<1>3. Woken(Reader) \in [User -> {"out", "begin", "loop", "asleep"}]
  BY <1>1, <1>2, WokenIs
<1>4. /\ pc' \in [User -> {"out", "begin", "loop", "asleep"}]
      /\ left' \in [User -> 0..MaxN]
      /\ killed' \subseteq User /\ killed \subseteq killed'
  BY <1>1, <1>2, <1>3, PipeAssumption DEF TypeOK
<1>5. \A q \in User : /\ pc'[q] # "out" => pc[q] # "out"
                      /\ pc'[q] = "asleep" => pc[q] = "asleep"
  BY <1>1, <1>2, <1>3, WokenIs
<1>6. \A r \in Reader : pc'[r] # "asleep"
  BY <1>1, <1>2, <1>3, WokenIs, PipeAssumption DEF User
<1>7. \A q \in User : pc'[q] # "out" => q \in held
  BY <1>5 DEF IInv, HeldInv
<1>8. QED
  BY <1>1, <1>4, <1>5, <1>6, <1>7, QuietIInv

\* A kill makes a sleeper runnable; the lock stays with whoever has it.
LEMMA KillIInv ==
  ASSUME IInv, NEW p \in User, kkill(p) PROVE IInv'
<1>1. /\ pc' = [pc EXCEPT ![p] = IF @ = "asleep" THEN "begin" ELSE @]
      /\ killed' = killed \cup {p} /\ left' = left
      /\ UNCHANGED <<nread, nwrite, data, ends, got, held>>
  BY DEF kkill
<1>2. /\ pc' \in [User -> {"out", "begin", "loop", "asleep"}]
      /\ left' \in [User -> 0..MaxN]
      /\ killed' \subseteq User /\ killed \subseteq killed'
  BY <1>1 DEF IInv, TypeOK
<1>3. \A q \in User : /\ pc'[q] # "out" => q \in held
                      /\ pc'[q] = "asleep" => pc[q] = "asleep"
                      /\ pc[q] = "loop" => pc'[q] = "loop"
  BY <1>1 DEF IInv, TypeOK, HeldInv
<1>4. Locked => Locked'
  BY <1>3 DEF Locked, User
<1>5. QED
  BY <1>1, <1>2, <1>3, <1>4, QuietIInv, Zenon

\* A reader that finds nothing sleeps, or returns -1 if it was killed.
LEMMA WaitIInv ==
  ASSUME IInv, NEW r \in Reader, piperead_wait(r) PROVE IInv'
<1>1. /\ pc[r] = "begin" /\ Waits /\ r \in User
      /\ \/ pc' = [pc EXCEPT ![r] = "out"] /\ got' = <<r, Failed>>
         \/ pc' = [pc EXCEPT ![r] = "asleep"] /\ got' = got
      /\ UNCHANGED <<nread, nwrite, data, ends, left, held, killed>>
  BY DEF piperead_wait, User
<1>2. \A q \in User :
        /\ pc'[q] # "out" => q \in held
        /\ pc'[q] = "asleep" => pc[q] = "asleep" \/ q = r
  BY <1>1 DEF IInv, TypeOK, HeldInv
<1>3. /\ UNCHANGED <<nread, nwrite, ends, held, killed>>
      /\ (Waits' <=> Waits) /\ (Full' <=> Full) /\ readopen' = readopen
  BY <1>1 DEF Waits, Full, ends
<1>4. TypeOK'
  <2>1. got' \in Reader \X (Seq(Byte) \cup {Failed})
    BY <1>1 DEF IInv, TypeOK
  <2>2. pc' \in [User -> {"out", "begin", "loop", "asleep"}]
    BY <1>1 DEF IInv, TypeOK
  <2>3. QED
    BY <1>1, <2>1, <2>2 DEF IInv, TypeOK, Used, ends
<1>5. HeldInv'
  BY <1>2, <1>3 DEF IInv, HeldInv, ends
<1>6. ReaderSleepsOnEmpty'
  BY <1>1, <1>3 DEF ReaderSleepsOnEmpty
<1>7. WriterSleepsOnFull'
  BY <1>2, <1>3, PipeAssumption DEF IInv, WriterSleepsOnFull, User
<1>8. QED
  BY <1>4, <1>5, <1>6, <1>7 DEF IInv
\* A byte is stored while the writer has the lock; a sleeping writer would
\* mean that the pipe is full.
LEMMA ByteIInv ==
  ASSUME IInv, NEW w \in Writer, pipewrite_byte(w) PROVE IInv'
<1>1. /\ pc[w] = "loop" /\ left[w] > 0 /\ ~Full /\ w \in User
      /\ nwrite' = (nwrite + 1) % WRAP /\ nread' = nread
      /\ left' = [left EXCEPT ![w] = @ - 1]
      /\ UNCHANGED <<ends, pc, got, held, killed>>
  BY DEF pipewrite_byte, Goes, User
<1>2. TypeOK
  BY DEF IInv
<1>3. TypeOK'
  <2>1. nwrite' \in 0..WRAP-1 /\ Used' = Used + 1 /\ Used < PIPESIZE
    BY <1>1, <1>2, UsedByte
  <2>2. Used' <= PIPESIZE
    BY <1>2, <2>1, Sizes, UsedIs
  <2>3. data' \in [0..PIPESIZE-1 -> Byte]
    BY <1>2 DEF TypeOK, pipewrite_byte
  <2>4. left' \in [User -> 0..MaxN]
    BY <1>1, <1>2, PipeAssumption DEF TypeOK
  <2>5. QED
    BY <1>1, <1>2, <2>1, <2>2, <2>3, <2>4 DEF TypeOK, ends
<1>4. HeldInv'
  BY <1>1 DEF IInv, HeldInv, ends
<1>5. ReaderSleepsOnEmpty'
  BY <1>1 DEF ReaderSleepsOnEmpty, Locked
<1>6. WriterSleepsOnFull'
  BY <1>1 DEF IInv, WriterSleepsOnFull
<1>7. QED
  BY <1>3, <1>4, <1>5, <1>6 DEF IInv

\* What piperead returns is made of bytes of the ring.
LEMMA TakenType ==
  ASSUME TypeOK, NEW k \in Nat
  PROVE  [i \in 1..k |-> data[(nread + i - 1) % PIPESIZE]] \in Seq(Byte)
<1>1. \A i \in 1..k : data[(nread + i - 1) % PIPESIZE] \in Byte
  <2> TAKE i \in 1..k
  <2>1. nread + i - 1 \in Int
    BY UsedIs
  <2>2. (nread + i - 1) % PIPESIZE \in 0..PIPESIZE-1
    BY <2>1, Sizes, ModType
  <2>3. QED
    BY <2>2 DEF TypeOK
<1>2. QED
  BY <1>1

\* piperead wakes the writers.  Another reader that still sleeps was left
\* behind by a killed writer, since there was something to read.
LEMMA ReadIInv ==
  ASSUME IInv, NEW r \in Reader, NEW k \in 0..Used, piperead(r, k) PROVE IInv'
<1>1. /\ pc' = [Woken(Writer) EXCEPT ![r] = "out"] /\ r \in User
      /\ left' = [left EXCEPT ![r] = 0] /\ ~Locked /\ ~Waits
      /\ nread' = (nread + k) % WRAP
      /\ nwrite' = nwrite /\ UNCHANGED <<data, ends, held, killed>>
  BY DEF piperead, Take, User
<1>2. TypeOK
  BY DEF IInv
<1>3. Woken(Writer) \in [User -> {"out", "begin", "loop", "asleep"}]
  BY <1>1, <1>2, WokenIs
<1>4. \A q \in User : /\ pc'[q] # "out" => pc[q] # "out"
                      /\ pc'[q] = "asleep" => pc[q] = "asleep"
  BY <1>1, <1>2, <1>3, WokenIs
<1>5. \A w \in Writer : pc'[w] # "asleep"
  BY <1>1, <1>2, <1>3, WokenIs, PipeAssumption DEF User
<1>6. TypeOK'
  <2>1. nread' \in 0..WRAP-1 /\ Used' = Used - k
    BY <1>1, <1>2, UsedTake
  <2>2. Used' <= PIPESIZE
    BY <1>2, <2>1, Sizes, UsedIs
  <2>3. k \in Nat
    BY <1>2, UsedIs
  <2>4. got' \in Reader \X (Seq(Byte) \cup {Failed})
    BY <1>2, <2>3, TakenType DEF piperead, Take
  <2>5. /\ left' \in [User -> 0..MaxN]
        /\ pc' \in [User -> {"out", "begin", "loop", "asleep"}]
    BY <1>1, <1>2, <1>3, PipeAssumption DEF TypeOK
  <2>6. QED
    BY <1>1, <1>2, <2>1, <2>2, <2>4, <2>5 DEF TypeOK, ends
<1>7. HeldInv'
  BY <1>1, <1>4 DEF IInv, HeldInv, ends
<1>8. ReaderSleepsOnEmpty'
  BY <1>1, <1>4 DEF IInv, ReaderSleepsOnEmpty, User
<1>9. WriterSleepsOnFull'
  BY <1>5 DEF WriterSleepsOnFull
<1>10. QED
  BY <1>6, <1>7, <1>8, <1>9 DEF IInv

\* The last pipeclose of an end wakes the other side, and the processes that
\* still sleep keep their own end open.
LEMMA CloseIInv ==
  ASSUME IInv, NEW p \in User, pipeclose(p) PROVE IInv'
<1>1. /\ pc[p] = "out" /\ held' = held \ {p}
      /\ readopen' = (held' \cap Reader # {})
      /\ writeopen' = (held' \cap Writer # {})
      /\ UNCHANGED <<nread, nwrite, data, left, got, killed>>
  BY DEF pipeclose
<1>2. TypeOK
  BY DEF IInv
<1>3. \/ pc' = Woken(Reader) \/ pc' = Woken(Writer) \/ pc' = pc
  BY DEF pipeclose
<1>4. /\ pc' \in [User -> {"out", "begin", "loop", "asleep"}]
      /\ \A q \in User : /\ pc'[q] # "out" => pc[q] # "out"
                         /\ pc'[q] = "asleep" => pc[q] = "asleep"
                         /\ pc[q] = "loop" => pc'[q] = "loop"
  <2>1. CASE pc' = Woken(Reader)
    BY <1>2, <2>1, WokenIs
  <2>2. CASE pc' = Woken(Writer)
    BY <1>2, <2>2, WokenIs
  <2>3. CASE pc' = pc
    BY <1>2, <2>3 DEF TypeOK
  <2>4. QED
    BY <1>3, <2>1, <2>2, <2>3
<1>5. \A q \in User : pc'[q] # "out" => q \in held'
  BY <1>1, <1>4 DEF IInv, HeldInv
<1>6. TypeOK'
  BY <1>1, <1>2, <1>4 DEF TypeOK, Used
<1>7. HeldInv'
  BY <1>1, <1>5 DEF HeldInv
<1>8. ReaderSleepsOnEmpty'
  <2> SUFFICES ASSUME NEW r \in Reader, pc'[r] = "asleep"
               PROVE  Waits' \/ Locked' \/ Writer \cap killed' # {}
    BY DEF ReaderSleepsOnEmpty
  <2>1. r \in User /\ pc[r] = "asleep"
    BY <1>4 DEF User
  <2>2. Waits \/ Locked \/ Writer \cap killed # {}
    BY <2>1 DEF IInv, ReaderSleepsOnEmpty
  <2>3. Locked => Locked'
    BY <1>4 DEF Locked, User
  <2>4. Waits => Waits'
    <3> SUFFICES ASSUME Waits, ~writeopen' PROVE FALSE
      BY <1>1 DEF Waits
    <3>1. pc' = Woken(Reader)
      BY DEF pipeclose, Waits
    <3>2. QED
      BY <1>2, <2>1, <3>1, WokenIs
  <2>5. QED
    BY <1>1, <2>2, <2>3, <2>4
<1>9. WriterSleepsOnFull'
  <2> SUFFICES ASSUME NEW w \in Writer, pc'[w] = "asleep"
               PROVE  Full' /\ readopen'
    BY DEF WriterSleepsOnFull
  <2>1. w \in User /\ pc[w] = "asleep" /\ w \in held'
    BY <1>4, <1>5 DEF User
  <2>2. Full /\ readopen
    BY <2>1 DEF IInv, WriterSleepsOnFull
  <2>3. writeopen'
    BY <1>1, <2>1
  <2>4. readopen'
    <3> SUFFICES ASSUME ~readopen' PROVE FALSE
      OBVIOUS
    <3>1. pc' = Woken(Writer)
      BY <2>2, <2>3 DEF pipeclose
    <3>2. QED
      BY <1>2, <2>1, <3>1, WokenIs
  <2>5. QED
    BY <1>1, <2>2, <2>4 DEF Full
<1>10. QED
  BY <1>6, <1>7, <1>8, <1>9 DEF IInv
\* The copy loop takes no more than there is.
LEMMA ReadCases ==
  ASSUME TypeOK, NEW r \in Reader, piperead_copy(r) \/ piperead_fault(r)
  PROVE  \E k \in 0..Used : piperead(r, k)
<1>1. left[r] \in Nat /\ Used \in Nat
  BY UsedIs, PipeAssumption DEF TypeOK, User
<1>2. Least(left[r], Used) \in 0..Used
  BY <1>1 DEF Least
<1>3. CASE piperead_copy(r)
  BY <1>2, <1>3 DEF piperead_copy
<1>4. CASE piperead_fault(r)
  <2>1. PICK k \in 0..Least(left[r], Used) - 1 : piperead(r, k)
    BY <1>4 DEF piperead_fault
  <2>2. k \in 0..Used
    BY <1>1, <1>2
  <2>3. QED
    BY <2>1, <2>2
<1>5. QED
  BY <1>3, <1>4

\* Every step keeps the invariant.
LEMMA NextIInv == IInv /\ [Next]_vars => IInv'
<1> SUFFICES ASSUME IInv, [Next]_vars PROVE IInv'
  OBVIOUS
<1>1. ASSUME NEW p \in User, Use(p) \/ kkill(p) PROVE IInv'
  BY <1>1, CallIInv, CloseIInv, KillIInv DEF Use
<1>2. ASSUME NEW w \in Writer, pipewrite_acquire(w) \/ WriteStep(w) PROVE IInv'
  BY <1>2, AcquireIInv, AbortIInv, SleepIInv, ByteIInv, DoneIInv DEF WriteStep
<1>3. ASSUME NEW r \in Reader, ReadStep(r) PROVE IInv'
  <2>1. CASE piperead_wait(r)
    BY <2>1, WaitIInv
  <2>2. CASE piperead_copy(r) \/ piperead_fault(r)
    <3>1. PICK k \in 0..Used : piperead(r, k)
      BY <2>2, ReadCases DEF IInv
    <3>2. QED
      BY <3>1, ReadIInv
  <2>3. QED
    BY <1>3, <2>1, <2>2 DEF ReadStep
<1>4. CASE UNCHANGED vars
  BY <1>4 DEF vars, ends, IInv, TypeOK, HeldInv, ReaderSleepsOnEmpty,
              WriterSleepsOnFull, Used, Waits, Full, Locked
<1>5. QED
  BY <1>1, <1>2, <1>3, <1>4 DEF Next, Freed

\* The inductive invariant holds in every behaviour.
THEOREM SpecIInv == Spec => []IInv
BY InitIInv, NextIInv, PTL DEF Spec

\* Types: in particular no more than PIPESIZE bytes are ever unread, so no
\* byte is overwritten before it is delivered.
THEOREM PipeTypeCorrect == Spec => []TypeOK
<1>1. IInv => TypeOK
  BY DEF IInv
<1>2. QED
  BY <1>1, SpecIInv, PTL

\* piperead's sleep and the wakeups of &pi->nread: for any number of readers
\* and writers no reader is left asleep beside bytes it could read, nor after
\* the last writer has closed, unless a killed writer left it.
THEOREM ReadersWoken == Spec => []ReaderSleepsOnEmpty
<1>1. IInv => ReaderSleepsOnEmpty
  BY DEF IInv
<1>2. QED
  BY <1>1, SpecIInv, PTL

\* pipewrite's sleep and the wakeups of &pi->nwrite: no writer is left asleep
\* beside room it could fill, nor after the last reader has closed.
THEOREM WritersWoken == Spec => []WriterSleepsOnFull
<1>1. IInv => WriterSleepsOnFull
  BY DEF IInv
<1>2. QED
  BY <1>1, SpecIInv, PTL
----------------------------------------------------------------------------
(***************************************************************************)
(* The ring buffer implements the queue of Fifo.                            *)
(***************************************************************************)
\* The slot of a counter, in the ring, at an offset from nread.
Slot(i) == (nread + i - 1) % PIPESIZE

\* The slots are positions of the ring.
LEMMA SlotType == ASSUME TypeOK, NEW i \in Int PROVE Slot(i) \in 0..PIPESIZE-1
<1>1. nread + i - 1 \in Int
  BY UsedIs
<1>2. QED
  BY <1>1, Sizes, ModType DEF Slot

UnreadIs ==
  /\ Unread \in Seq(Byte) /\ Len(Unread) = Used
  /\ \A i \in 1..Used : Unread[i] = data[Slot(i)]

\* The unread bytes as a sequence.
LEMMA UnreadFact == TypeOK => UnreadIs
<1> SUFFICES ASSUME TypeOK PROVE UnreadIs
  OBVIOUS
<1>1. Used \in Nat
  BY UsedIs
<1>2. Unread = [i \in 1..Used |-> data[Slot(i)]]
  BY DEF Unread, Slot
<1>3. \A i \in 1..Used : data[Slot(i)] \in Byte
  <2> TAKE i \in 1..Used
  <2>1. Slot(i) \in 0..PIPESIZE-1
    BY <1>1, SlotType
  <2>2. QED
    BY <2>1 DEF TypeOK
<1>4. QED
  BY <1>1, <1>2, <1>3 DEF UnreadIs

\* The same, after a step.
LEMMA UnreadThen == TypeOK' => UnreadIs'
BY UnreadFact, PTL

\* nwrite's slot is the one after the unread bytes, also when the counters
\* have wrapped around, and none of theirs while the pipe is not full.
LEMMA NextSlot ==
  ASSUME TypeOK
  PROVE  /\ nwrite % PIPESIZE = Slot(Used + 1)
         /\ Used < PIPESIZE =>
              \A i \in 1..Used : Slot(i) # nwrite % PIPESIZE
<1>1. /\ nread \in Int /\ nwrite \in Int /\ Used \in Nat
      /\ nread <= nwrite => Used = nwrite - nread
      /\ nread > nwrite => Used = nwrite + WRAP - nread
  BY UsedIs
<1>2. nwrite % PIPESIZE = Slot(Used + 1)
  <2>1. nread + (Used + 1) - 1 = nread + Used
    BY <1>1
  <2>2. CASE nread <= nwrite
    BY <1>1, <2>1, <2>2 DEF Slot
  <2>3. CASE nread > nwrite
    <3> DEFINE x == nread + Used
    <3>1. x \in Int /\ nwrite = x - WRAP
      BY <1>1, <2>3, PipeAssumption
    <3> HIDE DEF x
    <3>2. (x - WRAP) % PIPESIZE = x % PIPESIZE
      BY <3>1, PipeAssumption, WrapKeepsSlot
    <3>3. QED
      BY <2>1, <3>1, <3>2 DEF Slot, x
  <2>4. QED
    BY <1>1, <2>2, <2>3
<1>3. ASSUME Used < PIPESIZE, NEW i \in 1..Used
      PROVE  Slot(i) # nwrite % PIPESIZE
  <2>1. /\ nread + i - 1 \in Int /\ nread + (Used + 1) - 1 \in Int
        /\ nread + i - 1 < nread + (Used + 1) - 1
        /\ nread + (Used + 1) - 1 < nread + i - 1 + PIPESIZE
    BY <1>1, <1>3, Sizes
  <2>2. Slot(i) # Slot(Used + 1)
    BY <2>1, Sizes, SlotsDiffer DEF Slot
  <2>3. QED
    BY <1>2, <2>2
<1>4. QED
  BY <1>2, <1>3

\* When nread has moved on by k, the slots have shifted by k.
LEMMA SlotsShift ==
  ASSUME TypeOK, NEW k \in 0..Used, nread' = (nread + k) % WRAP,
         NEW i \in Nat
  PROVE  Slot(i)' = Slot(i + k)
<1>1. nread \in 0..WRAP-1 /\ k \in 0..WRAP-1 /\ nread \in Int
  BY UsedIs, Sizes DEF TypeOK
<1>2. nread' = nread + k \/ nread' = nread + k - WRAP
  <2>1. /\ nread + k < WRAP => (nread + k) % WRAP = nread + k
        /\ nread + k >= WRAP => (nread + k) % WRAP = nread + k - WRAP
    BY <1>1, Sizes, Advance
  <2>2. nread + k < WRAP \/ nread + k >= WRAP
    BY <1>1, Sizes
  <2>3. QED
    BY <2>1, <2>2
<1>3. Slot(i)' = (nread' + i - 1) % PIPESIZE
  BY DEF Slot
<1>4. CASE nread' = nread + k
  <2>1. nread' + i - 1 = nread + (i + k) - 1
    BY <1>1, <1>4
  <2>2. QED
    BY <1>3, <2>1 DEF Slot
<1>5. CASE nread' = nread + k - WRAP
  <2> DEFINE x == nread + (i + k) - 1
  <2>1. x \in Int /\ nread' + i - 1 = x - WRAP
    BY <1>1, <1>5, PipeAssumption
  <2> HIDE DEF x
  <2>2. (x - WRAP) % PIPESIZE = x % PIPESIZE
    BY <2>1, PipeAssumption, WrapKeepsSlot
  <2>3. QED
    BY <1>3, <2>1, <2>2 DEF Slot, x
<1>6. QED
  BY <1>2, <1>4, <1>5
\* pipealloc() makes an empty queue.
LEMMA InitRefines == Init => Abstract!Init
<1> SUFFICES ASSUME Init PROVE Abstract!Init
  OBVIOUS
<1>1. Used = 0
  <2>1. 0 \in 0..WRAP-1
    BY Sizes
  <2>2. (0 + WRAP - 0) % WRAP = 0
    BY <2>1, Sizes, Distance
  <2>3. QED
    BY <2>2 DEF Init, Used
<1>2. Unread = <<>>
  BY <1>1 DEF Unread
<1>3. QED
  BY <1>2 DEF Init, Abstract!Init

\* A step that leaves the ring, the ends and the last result alone.
LEMMA QuietRefines ==
  ASSUME UNCHANGED <<nread, nwrite, data, writeopen, got>>
  PROVE  UNCHANGED Abstract!vars
BY DEF Abstract!vars, Unread, Used

\* pipewrite stores a byte behind the unread ones and over none of them.
LEMMA ByteRefines ==
  ASSUME IInv, NEW w \in Writer, pipewrite_byte(w)
  PROVE  \E b \in Byte : Abstract!Put(b)
<1>1. /\ pc[w] = "loop" /\ ~Full /\ w \in User
      /\ nwrite' = (nwrite + 1) % WRAP /\ nread' = nread
      /\ UNCHANGED <<writeopen, got>>
  BY DEF pipewrite_byte, Goes, User, ends
<1>2. PICK ch \in Byte : data' = [data EXCEPT ![nwrite % PIPESIZE] = ch]
  BY DEF pipewrite_byte
<1>3. TypeOK /\ TypeOK'
  BY ByteIInv DEF IInv
<1>4. Used' = Used + 1 /\ Used < PIPESIZE /\ Used \in Nat
  BY <1>1, <1>3, UsedByte, UsedIs
<1>5. writeopen
  BY <1>1 DEF IInv, HeldInv
<1>6. UnreadIs /\ UnreadIs'
  BY <1>3, UnreadFact, UnreadThen
<1>7. \A i \in Nat : Slot(i)' = Slot(i)
  BY <1>1 DEF Slot
<1>8. \A i \in 1..Used : Unread'[i] = Unread[i]
  <2> TAKE i \in 1..Used
  <2>1. Unread'[i] = data'[Slot(i)] /\ Unread[i] = data[Slot(i)]
    BY <1>4, <1>6, <1>7 DEF UnreadIs
  <2>2. Slot(i) # nwrite % PIPESIZE /\ Slot(i) \in 0..PIPESIZE-1
    BY <1>3, <1>4, NextSlot, SlotType
  <2>3. QED
    BY <1>2, <1>3, <2>1, <2>2 DEF TypeOK
<1>9. Unread'[Used + 1] = ch
  <2>1. Unread'[Used + 1] = data'[Slot(Used + 1)]
    BY <1>4, <1>6, <1>7 DEF UnreadIs
  <2>2. Slot(Used + 1) = nwrite % PIPESIZE /\ Slot(Used + 1) \in 0..PIPESIZE-1
    BY <1>3, <1>4, NextSlot, SlotType
  <2>3. QED
    BY <1>2, <1>3, <2>1, <2>2 DEF TypeOK
<1>10. Unread' = Append(Unread, ch)
  <2>1. /\ Unread \in Seq(Byte) /\ Len(Unread) = Used
        /\ Unread' \in Seq(Byte) /\ Len(Unread') = Used + 1
    BY <1>4, <1>6 DEF UnreadIs
  <2>2. QED
    BY <1>4, <1>8, <1>9, <2>1
<1>11. Len(Unread) < PIPESIZE
  BY <1>4, <1>6 DEF UnreadIs
<1>12. QED
  BY <1>1, <1>5, <1>10, <1>11 DEF Abstract!Put

\* What is left of a sequence without its first k elements.
LEMMA Rest ==
  ASSUME NEW S, NEW s \in Seq(S), NEW t \in Seq(S), NEW k \in 1..Len(s),
         Len(t) = Len(s) - k, \A i \in 1..Len(s)-k : t[i] = s[i + k]
  PROVE  t = SubSeq(s, k + 1, Len(s))
<1> DEFINE u == SubSeq(s, k + 1, Len(s))
           n == Len(s)
<1>1. n \in Nat /\ n - k \in Nat
  OBVIOUS
<1>2. u \in Seq(S) /\ Len(u) = n - k
  BY <1>1
<1>3. \A i \in 1..n-k : u[i] = s[i + k]
  BY <1>1
<1> HIDE DEF u
<1>4. t = u
  <2>1. /\ t = [i \in 1..n-k |-> t[i]] /\ u = [i \in 1..n-k |-> u[i]]
    BY <1>1, <1>2
  <2>2. [i \in 1..n-k |-> t[i]] = [i \in 1..n-k |-> u[i]]
    BY <1>3
  <2>3. QED
    BY <2>1, <2>2, Zenon
<1>5. QED
  BY <1>4 DEF u

\* piperead takes the first k unread bytes; it returns 0 only when all was
\* read and the writing end is closed, and -1 only when it takes nothing.
LEMMA ReadRefines ==
  ASSUME IInv, NEW r \in Reader, NEW k \in 0..Used, piperead(r, k)
  PROVE  \/ Abstract!EndOfFile(r) \/ Abstract!Fail(r)
         \/ \E n \in 1..Len(Unread) : Abstract!Take(r, n)
<1>1. /\ ~Waits /\ nread' = (nread + k) % WRAP /\ nwrite' = nwrite
      /\ got' = <<r, IF k = 0 /\ Used > 0 THEN Failed
                      ELSE [i \in 1..k |-> data[(nread + i - 1) % PIPESIZE]]>>
      /\ UNCHANGED <<data, writeopen>>
  BY DEF piperead, Take, ends
<1>2. TypeOK /\ TypeOK'
  BY ReadIInv DEF IInv
<1>3. Used' = Used - k /\ Used \in Nat
  BY <1>1, <1>2, UsedTake, UsedIs
<1>4. UnreadIs /\ UnreadIs'
  BY <1>2, UnreadFact, UnreadThen
<1>5. CASE k = 0
  <2>1. nread' = nread
    <3>1. nread \in 0..WRAP-1 /\ nread \in Int
      BY <1>2, UsedIs DEF TypeOK
    <3>2. nread % WRAP = nread /\ nread + k = nread
      BY <1>5, <3>1, Sizes, ModSmall
    <3>3. QED
      BY <1>1, <3>2
  <2>2. Unread' = Unread
    BY <1>1, <2>1 DEF Unread, Used
  <2>3. CASE Used > 0
    BY <1>1, <1>5, <2>2, <2>3 DEF Abstract!Fail
  <2>4. CASE Used = 0
    <3>1. ~writeopen
      BY <1>1, <1>2, <2>4, EmptyIs DEF Waits
    <3>2. Unread = <<>>
      BY <2>4 DEF Unread
    <3>3. got' = <<r, <<>>>>
      BY <1>1, <1>5, <2>4
    <3>4. QED
      BY <1>1, <2>2, <3>1, <3>2, <3>3 DEF Abstract!EndOfFile
  <2>5. QED
    BY <1>3, <2>3, <2>4
<1>6. CASE k # 0
  <2>1. /\ Unread \in Seq(Byte) /\ Len(Unread) = Used
        /\ Unread' \in Seq(Byte) /\ Len(Unread') = Used - k
        /\ k \in 1..Used
    BY <1>3, <1>4, <1>6 DEF UnreadIs
  <2>2. \A i \in 1..Used-k : Unread'[i] = Unread[i + k]
    <3> TAKE i \in 1..Used-k
    <3>1. i \in Nat /\ i + k \in 1..Used
      BY <1>3
    <3>2. Unread'[i] = data[Slot(i)'] /\ Unread[i + k] = data[Slot(i + k)]
      BY <1>1, <1>3, <1>4, <3>1 DEF UnreadIs
    <3>3. Slot(i)' = Slot(i + k)
      BY <1>1, <1>2, <3>1, SlotsShift
    <3>4. QED
      BY <3>2, <3>3
  <2>3. Unread' = SubSeq(Unread, k + 1, Len(Unread))
    <3>1. /\ k \in 1..Len(Unread) /\ Len(Unread') = Len(Unread) - k
          /\ \A i \in 1..Len(Unread)-k : Unread'[i] = Unread[i + k]
      BY <2>1, <2>2
    <3>2. QED
      BY <2>1, <3>1, Rest
  <2>4. got' = <<r, SubSeq(Unread, 1, k)>>
    <3>1. [i \in 1..k |-> data[(nread + i - 1) % PIPESIZE]]
            = SubSeq(Unread, 1, k)
      <4>1. \A i \in 1..k : data[(nread + i - 1) % PIPESIZE] = Unread[i]
        BY <1>3, <1>4, <2>1 DEF UnreadIs, Slot
      <4>2. QED
        BY <1>3, <2>1, <4>1
    <3>2. QED
      BY <1>1, <1>6, <3>1
  <2>5. Abstract!Take(r, k)
    BY <1>1, <2>3, <2>4 DEF Abstract!Take
  <2>6. QED
    BY <2>1, <2>5
<1>7. QED
  BY <1>5, <1>6

\* Every step of the pipe is a step of the queue, or none.
LEMMA NextRefines == IInv /\ [Next]_vars => [Abstract!Next]_(Abstract!vars)
<1> SUFFICES ASSUME IInv, [Next]_vars
             PROVE  Abstract!Next \/ UNCHANGED Abstract!vars
  OBVIOUS
<1>1. ASSUME NEW p \in User, Use(p) \/ kkill(p)
      PROVE  Abstract!Next \/ UNCHANGED Abstract!vars
  <2>1. CASE (\E n \in 1..MaxN : Call(p, n)) \/ kkill(p)
    BY <2>1, QuietRefines DEF Call, kkill, ends
  <2>2. CASE pipeclose(p)
    <3>1. /\ writeopen' \in BOOLEAN /\ writeopen \in BOOLEAN
          /\ UNCHANGED <<nread, nwrite, data, got>>
          /\ held' = held \ {p} /\ writeopen' = (held' \cap Writer # {})
      BY <2>2 DEF pipeclose, IInv, TypeOK
    <3>2. Unread' = Unread
      BY <3>1 DEF Unread, Used
    <3>3. CASE writeopen' = FALSE
      BY <3>1, <3>2, <3>3 DEF Abstract!Next, Abstract!Close
    <3>4. CASE writeopen' = TRUE
      <4>1. writeopen = TRUE
        BY <3>1, <3>4 DEF IInv, HeldInv
      <4>2. QED
        BY <3>1, <3>4, <4>1, QuietRefines
    <3>5. QED
      BY <3>1, <3>3, <3>4
  <2>3. QED
    BY <1>1, <2>1, <2>2 DEF Use
<1>2. ASSUME NEW w \in Writer, pipewrite_acquire(w) \/ WriteStep(w)
      PROVE  Abstract!Next \/ UNCHANGED Abstract!vars
  <2>1. CASE \/ pipewrite_acquire(w) \/ pipewrite_abort(w)
             \/ pipewrite_sleep(w) \/ pipewrite_done(w)
    BY <2>1, QuietRefines DEF pipewrite_acquire, pipewrite_abort,
         pipewrite_sleep, pipewrite_done, ends
  <2>2. CASE pipewrite_byte(w)
    BY <2>2, ByteRefines DEF Abstract!Next
  <2>3. QED
    BY <1>2, <2>1, <2>2 DEF WriteStep
<1>3. ASSUME NEW r \in Reader, ReadStep(r)
      PROVE  Abstract!Next \/ UNCHANGED Abstract!vars
  <2>1. CASE piperead_wait(r)
    <3>1. UNCHANGED <<nread, nwrite, data, writeopen>>
      BY <2>1 DEF piperead_wait, ends
    <3>2. Unread' = Unread
      BY <3>1 DEF Unread, Used
    <3>3. CASE got' = got
      BY <3>1, <3>3, QuietRefines
    <3>4. CASE got' = <<r, Failed>>
      BY <3>1, <3>2, <3>4 DEF Abstract!Next, Abstract!Fail
    <3>5. QED
      BY <2>1, <3>3, <3>4 DEF piperead_wait
  <2>2. CASE piperead_copy(r) \/ piperead_fault(r)
    <3>1. PICK k \in 0..Used : piperead(r, k)
      BY <2>2, ReadCases DEF IInv
    <3>2. QED
      BY <3>1, ReadRefines DEF Abstract!Next
  <2>3. QED
    BY <1>3, <2>1, <2>2 DEF ReadStep
<1>4. CASE UNCHANGED vars
  BY <1>4, QuietRefines DEF vars, ends
<1>5. QED
  BY <1>1, <1>2, <1>3, <1>4 DEF Next, Freed

\* The ring buffer of pipe.c is a bounded queue, for every PIPESIZE, width of
\* the counters and set of readers and writers.
THEOREM RingIsFifo == Spec => IsFifo
<1>1. Spec => Abstract!Init /\ [][Abstract!Next]_(Abstract!vars)
  BY InitRefines, NextRefines, SpecIInv, PTL DEF Spec
<1>2. QED
  BY <1>1 DEF IsFifo, Abstract!Spec
=============================================================================
