-------------------------------- MODULE Pipe --------------------------------
(***************************************************************************)
(* A pipe of kernel/pipe.c, with several readers and writers, processes     *)
(* killed at any point and copies that fault.                               *)
(*                                                                         *)
(* pi->lock is held through pipewrite's loop except in sleep; since the     *)
(* loop looks at pr->killed, which kkill sets without pi->lock, each of its *)
(* iterations is an action.  piperead from its acquire to its release or    *)
(* its sleep is one action.                                                 *)
(***************************************************************************)
EXTENDS Naturals, Sequences

CONSTANTS
  Reader, Writer,  \* the processes that hold the two ends
  Byte, Failed,    \* the bytes, and the result -1
  PIPESIZE,
  WRAP,            \* nread and nwrite count modulo WRAP (2^32 in the code)
  MaxN             \* bound: the bytes of one read or write

ASSUME PipeAssumption ==
  /\ PIPESIZE \in Nat \ {0} /\ WRAP \in Nat /\ MaxN \in Nat \ {0}
  /\ PIPESIZE < WRAP /\ WRAP % PIPESIZE = 0
  /\ Reader \cap Writer = {}
  /\ Failed \notin Seq(Byte)

VARIABLES
  nread, nwrite, data, readopen, writeopen,  \* struct pipe
  pc,       \* where a process is: a writer in its "loop" has pi->lock
  left,     \* n - i of its call
  got,      \* the last reader that returned, and what
  held,     \* the processes whose file still refers to the pipe
  killed    \* the processes that were killed

ends == <<readopen, writeopen>>
vars == <<nread, nwrite, data, ends, pc, left, got, held, killed>>

User == Reader \cup Writer
Used == (nwrite + WRAP - nread) % WRAP
Locked == \E w \in Writer : pc[w] = "loop"

TypeOK ==
  /\ nread \in 0..WRAP-1 /\ nwrite \in 0..WRAP-1 /\ Used <= PIPESIZE
  /\ data \in [0..PIPESIZE-1 -> Byte]
  /\ readopen \in BOOLEAN /\ writeopen \in BOOLEAN
  /\ pc \in [User -> {"out", "begin", "loop", "asleep"}]
  /\ left \in [User -> 0..MaxN]
  /\ got \in Reader \X (Seq(Byte) \cup {Failed})
  /\ held \subseteq User /\ killed \subseteq User

\* pipealloc() succeeded and fork() passed the two files on.
Init ==
  /\ nread = 0 /\ nwrite = 0
  /\ \E b \in Byte : data = [i \in 0..PIPESIZE-1 |-> b]
  /\ readopen = TRUE /\ writeopen = TRUE
  /\ pc = [p \in User |-> "out"] /\ left = [p \in User |-> 0]
  /\ \E r \in Reader : got = <<r, <<>>>>
  /\ held = User /\ killed = {}

\* Mutant: piperead forgets its wakeup.
Woken_Readers(side) ==
  [p \in User |-> IF p \in side \cap Reader /\ pc[p] = "asleep" THEN "begin" ELSE pc[p]]

\* wakeup(chan): the readers sleep on &pi->nread, the writers on &pi->nwrite.
Woken(side) ==
  [p \in User |-> IF p \in side /\ pc[p] = "asleep" THEN "begin" ELSE pc[p]]

\* read() or write() reaches the pipe; the next step is its acquire.
Call(p, n) ==
  /\ pc[p] = "out" /\ p \in held \ killed
  /\ pc' = [pc EXCEPT ![p] = "begin"]
  /\ left' = [left EXCEPT ![p] = n]
  /\ UNCHANGED <<nread, nwrite, data, ends, got, held, killed>>

----------------------------------------------------------------------------
(* pipewrite *)

pipewrite_acquire(w) ==
  /\ pc[w] = "begin" /\ ~Locked
  /\ pc' = [pc EXCEPT ![w] = "loop"]
  /\ UNCHANGED <<nread, nwrite, data, ends, left, got, held, killed>>

Full == nwrite = (nread + PIPESIZE) % WRAP

Goes(w) == pc[w] = "loop" /\ left[w] > 0 /\ readopen /\ w \notin killed

\* return -1, without a wakeup
pipewrite_abort(w) ==
  /\ pc[w] = "loop" /\ left[w] > 0 /\ (~readopen \/ w \in killed)
  /\ pc' = [pc EXCEPT ![w] = "out"]
  /\ left' = [left EXCEPT ![w] = 0]
  /\ UNCHANGED <<nread, nwrite, data, ends, got, held, killed>>

pipewrite_sleep(w) ==
  /\ Goes(w) /\ Full
  /\ pc' = [Woken(Reader) EXCEPT ![w] = "asleep"]
  /\ UNCHANGED <<nread, nwrite, data, ends, left, got, held, killed>>

\* copyin() reads the next byte, and it is stored.
pipewrite_byte(w) ==
  /\ Goes(w) /\ ~Full
  /\ \E ch \in Byte : data' = [data EXCEPT ![nwrite % PIPESIZE] = ch]
  /\ nwrite' = (nwrite + 1) % WRAP
  /\ left' = [left EXCEPT ![w] = @ - 1]
  /\ UNCHANGED <<nread, ends, pc, got, held, killed>>

\* The loop ends, or copyin fails, which breaks out of it.
pipewrite_done(w) ==
  /\ pc[w] = "loop" /\ (left[w] = 0 \/ (Goes(w) /\ ~Full))
  /\ pc' = [Woken(Reader) EXCEPT ![w] = "out"]
  /\ left' = [left EXCEPT ![w] = 0]
  /\ UNCHANGED <<nread, nwrite, data, ends, got, held, killed>>

----------------------------------------------------------------------------
(* piperead *)

Waits == nread = nwrite /\ writeopen

piperead_wait(r) ==
  /\ pc[r] = "begin" /\ ~Locked /\ Waits
  /\ IF r \in killed
     THEN pc' = [pc EXCEPT ![r] = "out"] /\ got' = <<r, Failed>>
     ELSE pc' = [pc EXCEPT ![r] = "asleep"] /\ UNCHANGED got
  /\ UNCHANGED <<nread, nwrite, data, ends, left, held, killed>>

Least(m, n) == IF m <= n THEN m ELSE n

\* Mutant: nread moves on before the byte is known to be copied out.
Take_TooFar(r, k) ==
  /\ nread' = (nread + Least(k + 1, Used)) % WRAP
  /\ got' = <<r, IF k = 0 /\ Used > 0 THEN Failed
                  ELSE [i \in 1..k |-> data[(nread + i - 1) % PIPESIZE]]>>

\* The copy loop gives the caller k bytes; -1 if the first copyout fails.
Take(r, k) ==
  /\ nread' = (nread + k) % WRAP
  /\ got' = <<r, IF k = 0 /\ Used > 0 THEN Failed
                  ELSE [i \in 1..k |-> data[(nread + i - 1) % PIPESIZE]]>>

piperead(r, k) ==
  /\ pc[r] = "begin" /\ ~Locked /\ ~Waits
  /\ Take(r, k)
  /\ pc' = [Woken(Writer) EXCEPT ![r] = "out"]
  /\ left' = [left EXCEPT ![r] = 0]
  /\ UNCHANGED <<nwrite, data, ends, held, killed>>

piperead_copy(r) == piperead(r, Least(left[r], Used))
piperead_fault(r) ==
  \E k \in 0..Least(left[r], Used) - 1 : piperead(r, k)

----------------------------------------------------------------------------
(* Closing an end, and kill. *)

\* fileclose(): pipeclose() for the last file that refers to the end.
pipeclose(p) ==
  /\ p \in held /\ pc[p] = "out" /\ ~Locked
  /\ held' = held \ {p}
  /\ readopen' = (held' \cap Reader # {})
  /\ writeopen' = (held' \cap Writer # {})
  /\ pc' = IF writeopen /\ ~writeopen' THEN Woken(Reader)
           ELSE IF readopen /\ ~readopen' THEN Woken(Writer) ELSE pc
  /\ UNCHANGED <<nread, nwrite, data, left, got, killed>>

\* kkill: the process is marked, and made runnable if it sleeps.
kkill(p) ==
  /\ p \in held \ killed
  /\ killed' = killed \cup {p}
  /\ pc' = [pc EXCEPT ![p] = IF @ = "asleep" THEN "begin" ELSE @]
  /\ UNCHANGED <<nread, nwrite, data, ends, left, got, held>>

\* Both ends are closed and kfree() took the page back.
Freed == ~readopen /\ ~writeopen /\ UNCHANGED vars

Use(p) == (\E n \in 1..MaxN : Call(p, n)) \/ pipeclose(p)
WriteStep(w) == pipewrite_abort(w) \/ pipewrite_sleep(w)
                  \/ pipewrite_byte(w) \/ pipewrite_done(w)
ReadStep(r) == piperead_wait(r) \/ piperead_copy(r) \/ piperead_fault(r)

Next ==
  \/ \E p \in User : Use(p) \/ kkill(p)
  \/ \E w \in Writer : pipewrite_acquire(w) \/ WriteStep(w)
  \/ \E r \in Reader : ReadStep(r)
  \/ Freed

Spec == Init /\ [][Next]_vars

\* The lock is granted to whoever keeps trying, the loop goes on while the
\* lock is held, the programs at both ends use the pipe or close it, and
\* copyin and copyout do not fail for ever.
Fairness ==
  /\ \A p \in User : SF_vars(Use(p))
  /\ \A w \in Writer : /\ SF_vars(pipewrite_acquire(w))
                       /\ WF_vars(WriteStep(w)) /\ SF_vars(pipewrite_byte(w))
  /\ \A r \in Reader : SF_vars(ReadStep(r)) /\ SF_vars(piperead_copy(r))

----------------------------------------------------------------------------
(* What the pipe guarantees. *)

\* The bytes between the two counters.
Unread == [i \in 1..Used |-> data[(nread + i - 1) % PIPESIZE]]

Abstract == INSTANCE Fifo WITH
  Capacity <- PIPESIZE, open <- writeopen, queue <- Unread

\* The ring buffer is a queue: every byte that pipewrite stored is delivered
\* to one reader, once and in order, through wraparound of the counters,
\* partial copies, faults in copyin and copyout and killed processes, and a
\* read returns 0 only at the end of what was written.
IsFifo == Abstract!Spec

\* No wakeup is missed on the reading side: a reader sleeps in piperead only
\* while there is nothing to read and someone may still write.  The one
\* exception is in the code: a writer that is killed inside its loop leaves
\* without wakeup(&pi->nread).
ReaderSleepsOnEmpty ==
  \A r \in Reader :
    pc[r] = "asleep" => Waits \/ Locked \/ Writer \cap killed # {}

\* No wakeup is missed on the writing side: a writer sleeps in pipewrite only
\* while the pipe is full and someone may still read.
WriterSleepsOnFull ==
  \A w \in Writer : pc[w] = "asleep" => Full /\ readopen

\* With one process at each end every pipewrite and piperead returns: they
\* never wait for each other.  Of two writers one may starve, since the other
\* can fill the pipe whenever it is woken.
CallReturns(p) == pc[p] = "begin" ~> pc[p] = "out"
=============================================================================
