------------------------------ MODULE MCWaits ------------------------------
(***************************************************************************)
(* Liveness of the components whose processes compete for a lock, a buffer  *)
(* or a descriptor: Proc, Pipe, Bcache, VirtioDisk, Console and Uart for    *)
(* TLC, side by side.  A behaviour is one of the component that part names, *)
(* while the others stay in their initial states.                           *)
(***************************************************************************)
EXTENDS Proc, Sequences

CONSTANTS q1, q2     \* two of the processes, for the other components

VARIABLES
  part,
  nread, nwrite, p_data, readopen, writeopen, p_pc, left, got, held,
  p_killed,                                                        \* Pipe
  block, refcnt, valid, b_data, owner, lru, pinned, b_disk, b_pc, b_buf,
  want, b_panicked,                                                \* Bcache
  free, desc, ops, info, status, avail, availidx, used, usedidx, used_idx,
  taken, inflight, v_irq, intr, v_disk, v_pc, req, head, busy, v_data,
  v_panicked,                                                      \* VirtioDisk
  c_buf, r, w, e, c_holder, c_pr, c_killed, c_typed, polls,        \* Console
  fifo, sent, u_irq, handler, tx_busy, u_holder, u_pr, sync, nsync \* Uart

P == INSTANCE Pipe WITH
  Reader <- {q1}, Writer <- {q2}, Byte <- {0}, Failed <- NoProc,
  PIPESIZE <- 1, WRAP <- 2, MaxN <- 2,
  data <- p_data, pc <- p_pc, killed <- p_killed
B == INSTANCE Bcache WITH
  Proc <- {q1, q2}, Block <- {1, 2, 3}, Val <- {0}, Buf <- {1, 2},
  NoOne <- NoProc, MaxPins <- 0, data <- b_data, disk <- b_disk, pc <- b_pc,
  buf <- b_buf, panicked <- b_panicked
V == INSTANCE VirtioDisk WITH
  Proc <- {q1, q2}, Block <- {1}, Val <- {0}, NUM <- 4, IDX <- 8,
  irq <- v_irq, disk <- v_disk, pc <- v_pc, data <- v_data,
  panicked <- v_panicked
C == INSTANCE Console WITH
  Proc <- {q1, q2}, INPUT_BUF_SIZE <- 2, UINT <- 4, Polls <- 0,
  MaxRead <- 1, MaxTyped <- 2, buf <- c_buf, holder <- c_holder, pr <- c_pr,
  killed <- c_killed, typed <- c_typed
U == INSTANCE Uart WITH
  Writer <- {q1, q2}, Hart <- {1}, FifoSize <- 2, BATCH <- 1, MaxN <- 1,
  MaxSync <- 1, irq <- u_irq, holder <- u_holder, pr <- u_pr

ASSUME PartsAssumption ==
  V!VirtioAssumption /\ C!ConsoleAssumption /\ U!UartAssumption

pvars == <<nread, nwrite, p_data, readopen, writeopen, p_pc, left, got, held,
           p_killed>>
bvars == <<block, refcnt, valid, b_data, owner, lru, pinned, b_disk, b_pc,
           b_buf, want, b_panicked>>
vvars == <<free, desc, ops, info, status, avail, availidx, used, usedidx,
           used_idx, taken, inflight, v_irq, intr, v_disk, v_pc, req, head,
           busy, v_data, v_panicked>>
cvars == <<c_buf, r, w, e, c_holder, c_pr, c_killed, c_typed, polls>>
uvars == <<fifo, sent, u_irq, handler, tx_busy, u_holder, u_pr, sync, nsync>>
all == <<part, vars, pvars, bvars, vvars, cvars, uvars>>

PartsInit ==
  /\ part \in {"proc", "pipe", "bcache", "virtio", "console", "uart"}
  /\ Init /\ P!Init /\ B!Init /\ V!Init /\ C!Init /\ U!Init

ProcMoves == part = "proc" /\ UNCHANGED <<part, pvars, bvars, vvars, cvars, uvars>>
PipeMoves == part = "pipe" /\ UNCHANGED <<part, vars, bvars, vvars, cvars, uvars>>
BcacheMoves == part = "bcache" /\ UNCHANGED <<part, vars, pvars, vvars, cvars, uvars>>
VirtioMoves == part = "virtio" /\ UNCHANGED <<part, vars, pvars, bvars, cvars, uvars>>
ConsoleMoves == part = "console" /\ UNCHANGED <<part, vars, pvars, bvars, vvars, uvars>>
UartMoves == part = "uart" /\ UNCHANGED <<part, vars, pvars, bvars, vvars, cvars>>

PartsNext ==
  \/ ProcMoves /\ Next
  \/ PipeMoves /\ P!Next
  \/ BcacheMoves /\ B!Next
  \/ VirtioMoves /\ V!Next
  \/ ConsoleMoves /\ C!Next
  \/ UartMoves /\ U!Next

\* Fairness of every component.  Since part never changes, fairness of a
\* disjunction over the parts is fairness of the disjunct of the part that
\* moves; the conjuncts of the components are paired in any order.
KernelMoves(p) == KernelStep(p) \/ (killed[p] /\ kexit(p))
Strong ==
  /\ SF_all(\/ ProcMoves /\ (\E c \in CPU : Schedule(c, initproc))
            \/ PipeMoves /\ P!Use(q1)
            \/ BcacheMoves /\ B!acquiresleep(q1) /\ B!Free(b_buf[q1])
            \/ VirtioMoves /\ V!virtio_disk_intr
            \/ ConsoleMoves /\ C!consoleread_acquire(q1)
            \/ UartMoves /\ U!uartintr)
  /\ SF_all(\/ ProcMoves /\ (\E c \in CPU : Schedule(c, q1))
            \/ PipeMoves /\ P!Use(q2)
            \/ BcacheMoves /\ B!acquiresleep(q2) /\ B!Free(b_buf[q2])
            \/ VirtioMoves /\ V!virtio_disk_start(q1)
            \/ ConsoleMoves /\ C!consoleread_acquire(q2)
            \/ UartMoves /\ U!uartwrite_acquire(q1))
  /\ SF_all(\/ ProcMoves /\ (\E c \in CPU : Schedule(c, q2))
            \/ PipeMoves /\ P!pipewrite_acquire(q2)
            \/ BcacheMoves /\ B!bwrite(q1) /\ b_pc[q1] = "dirty"
            \/ VirtioMoves /\ V!virtio_disk_start(q2)
            \/ UartMoves /\ U!uartwrite_acquire(q2))
  /\ SF_all(\/ ProcMoves /\ KernelMoves(initproc)
            \/ PipeMoves /\ P!pipewrite_byte(q2)
            \/ BcacheMoves /\ B!bwrite(q2) /\ b_pc[q2] = "dirty"
            \/ VirtioMoves /\ V!virtio_disk_end(q1))
  /\ SF_all(\/ ProcMoves /\ KernelMoves(q1)
            \/ PipeMoves /\ P!ReadStep(q1)
            \/ BcacheMoves /\ B!releasesleep(q1)
            \/ VirtioMoves /\ V!virtio_disk_end(q2))
  /\ SF_all(\/ ProcMoves /\ KernelMoves(q2)
            \/ PipeMoves /\ P!piperead_copy(q1)
            \/ BcacheMoves /\ B!releasesleep(q2))
  /\ SF_all(ProcMoves /\ kwait(initproc))

Read(p) == C!consoleread_sleep(p) \/ C!consoleread_char(p) \/ C!consoleread_done(p)
Weak ==
  /\ \A c \in CPU : WF_all(ProcMoves /\ SchedOut(c))
  /\ WF_all(PipeMoves /\ P!WriteStep(q2))
  /\ \A p \in {q1, q2} :
       /\ WF_all(\/ BcacheMoves /\ B!acquiresleep(p)
                 \/ VirtioMoves /\ V!virtio_disk_publish(p)
                 \/ ConsoleMoves /\ Read(p)
                 \/ UartMoves /\ U!Step(p))
       /\ WF_all(BcacheMoves /\ B!bread(p)) /\ WF_all(BcacheMoves /\ B!brelse(p))
  /\ WF_all((VirtioMoves /\ V!DeviceStep) \/ (UartMoves /\ U!Transmit))
  /\ WF_all((VirtioMoves /\ V!intr_entry) \/ (UartMoves /\ U!uartintr_ack))
  /\ WF_all((VirtioMoves /\ V!intr_end) \/ (UartMoves /\ U!uartputc_sync(1)))
  /\ \A h \in V!D : WF_all(VirtioMoves /\ V!device_complete(h))

PartsSpec == PartsInit /\ [][PartsNext]_all /\ Strong /\ Weak

----------------------------------------------------------------------------
(* What must happen in the end.  Where the processes are symmetric the      *)
(* properties are about one of them.                                        *)

\* A zombie that is init's child, its own or an orphan, is freed in the end;
\* and a killed process exits, unless the kill came between wait()'s last look
\* at p->killed and its sleep() (kexit, kwait, kkill).
ProcessesEnd == OrphanReaped(q1) /\ KilledExits(q1)

\* With one process at each end every piperead and every pipewrite returns.
PipeReturns == P!CallReturns(q1) /\ P!CallReturns(q2)

\* Every bread() gets its buffer, and every virtio_disk_rw() returns: no
\* completion is lost between the used ring, the acknowledgement of the
\* interrupt and the sleeping process.
DiskReturns == B!BreadReturns(q1) /\ V!RequestReturns(q1)

\* A consoleread() that has committed input to take returns or finds the
\* input used up, and a write to the console returns (uartwrite).
TerminalReturns == C!ReadReturns(q2) /\ U!WriteReturns(q1)
=============================================================================
