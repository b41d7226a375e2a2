-------------------------------- MODULE Uart --------------------------------
(***************************************************************************)
(* Console output: consolewrite() of kernel/console.c and kernel/uart.c.    *)
(* Processes send through uartwrite(), which sleeps on tx_busy; the kernel  *)
(* itself sends through uartputc_sync(), which takes no lock and spins.     *)
(* Both write the same transmit FIFO of the device.                         *)
(***************************************************************************)
EXTENDS Integers, Sequences, FiniteSets

CONSTANTS
  Writer,      \* processes in consolewrite()
  Hart,        \* harts that may print or echo; one uartputc_sync() each
  FifoSize,    \* of the device
  BATCH,       \* sizeof(buf) in consolewrite()
  MaxN,        \* bound: bytes of a write
  MaxSync      \* bound: characters sent with uartputc_sync()

UartAssumption ==
  /\ FifoSize \in Nat /\ BATCH \in Nat \ {0} /\ MaxN \in Nat /\ MaxSync \in Nat
  /\ Cardinality(Hart) < FifoSize           \* 8 harts, 16 bytes
  /\ "none" \notin Writer

VARIABLES
  fifo,        \* external: the FIFO behind THR, characters <<who, index>>
  sent,        \* external: how many characters of a writer left the device
  irq,         \* external: an interrupt is pending
  handler,     \* uartintr(): "idle" or "acked"
  tx_busy,
  holder,      \* of tx_lock: a writer or "none"
  pr,          \* writers: pc, bytes asked for, sent so far, end of the batch
  sync, nsync  \* uartputc_sync() on each hart; how many were begun

vars == <<fifo, sent, irq, handler, tx_busy, holder, pr, sync, nsync>>

Init ==
  /\ fifo = <<>> /\ sent = [p \in Writer |-> 0] /\ irq = FALSE
  /\ handler = "idle" /\ tx_busy = FALSE /\ holder = "none"
  /\ pr = [p \in Writer |-> [pc |-> "idle", n |-> 0, i |-> 0, top |-> 0]]
  /\ sync = [h \in Hart |-> "idle"] /\ nsync = 0

\* WriteReg(THR, c): a full FIFO drops the character.
Put(c) == fifo' = IF Len(fifo) < FifoSize THEN Append(fifo, c) ELSE fifo
TX_IDLE == fifo = <<>>

----------------------------------------------------------------------------
(* consolewrite() and uartwrite() *)

\* Each writer makes one call.
consolewrite(p, n) ==
  /\ pr[p].pc = "idle" /\ pr[p].n = 0
  /\ pr' = [pr EXCEPT ![p].pc = "batch", ![p].n = n]
  /\ UNCHANGED <<fifo, sent, irq, handler, tx_busy, holder, sync, nsync>>

\* The next batch; either_copyin() may fail and end the call.
consolewrite_batch(p) ==
  LET left == pr[p].n - pr[p].i IN
  /\ pr[p].pc = "batch"
  /\ \/ left = 0 /\ pr' = [pr EXCEPT ![p].pc = "idle"]
     \/ left > 0 /\ pr' = [pr EXCEPT ![p].pc = "idle"]
     \/ left > 0 /\ pr' = [pr EXCEPT ![p].pc = "lock",
                             ![p].top = pr[p].i + (IF BATCH > left THEN left ELSE BATCH)]
  /\ UNCHANGED <<fifo, sent, irq, handler, tx_busy, holder, sync, nsync>>

uartwrite_acquire(p) ==
  /\ pr[p].pc = "lock" /\ holder = "none"
  /\ holder' = p /\ pr' = [pr EXCEPT ![p].pc = "send"]
  /\ UNCHANGED <<fifo, sent, irq, handler, tx_busy, sync, nsync>>

\* Mutant: the busy flag is not looked at.
Busy_Never == FALSE
Busy == tx_busy

uartwrite_sleep(p) ==
  /\ pr[p].pc = "send" /\ pr[p].i < pr[p].top /\ Busy
  /\ holder' = "none" /\ pr' = [pr EXCEPT ![p].pc = "sleep"]
  /\ UNCHANGED <<fifo, sent, irq, handler, tx_busy, sync, nsync>>

uartwrite_char(p) ==
  /\ pr[p].pc = "send" /\ pr[p].i < pr[p].top /\ ~Busy
  /\ Put(<<p, pr[p].i + 1>>) /\ tx_busy' = TRUE
  /\ pr' = [pr EXCEPT ![p].i = @ + 1]
  /\ UNCHANGED <<sent, irq, handler, holder, sync, nsync>>

uartwrite_done(p) ==
  /\ pr[p].pc = "send" /\ pr[p].i = pr[p].top
  /\ holder' = "none" /\ pr' = [pr EXCEPT ![p].pc = "batch"]
  /\ UNCHANGED <<fifo, sent, irq, handler, tx_busy, sync, nsync>>

----------------------------------------------------------------------------
(* uartputc_sync() and uartintr() *)

Ready == TX_IDLE

uartputc_sync_wait(h) ==
  /\ sync[h] = "idle" /\ nsync < MaxSync /\ Ready
  /\ sync' = [sync EXCEPT ![h] = "seen"] /\ nsync' = nsync + 1
  /\ UNCHANGED <<fifo, sent, irq, handler, tx_busy, holder, pr>>

uartputc_sync(h) ==
  /\ sync[h] = "seen" /\ Put(<<h, 0>>)
  /\ sync' = [sync EXCEPT ![h] = "idle"]
  /\ UNCHANGED <<sent, irq, handler, tx_busy, holder, pr, nsync>>

\* ReadReg(ISR) acknowledges.
uartintr_ack ==
  /\ irq /\ handler = "idle" /\ irq' = FALSE /\ handler' = "acked"
  /\ UNCHANGED <<fifo, sent, tx_busy, holder, pr, sync, nsync>>

\* Mutant: the sleeping writers are not woken.
Woken_None == pr
\* wakeup(&tx_chan)
Woken ==
  [p \in Writer |-> IF pr[p].pc = "sleep" THEN [pr[p] EXCEPT !.pc = "lock"] ELSE pr[p]]

Cleared == TX_IDLE

\* The part under tx_lock; the characters received go to consoleintr().
uartintr ==
  /\ handler = "acked" /\ holder = "none" /\ handler' = "idle"
  /\ IF Cleared THEN tx_busy' = FALSE /\ pr' = Woken ELSE UNCHANGED <<tx_busy, pr>>
  /\ UNCHANGED <<fifo, sent, irq, holder, sync, nsync>>

\* The device sends a character, and interrupts when it has no more.
Transmit ==
  LET c == Head(fifo) IN
  /\ fifo # <<>> /\ fifo' = Tail(fifo)
  /\ irq' = (irq \/ Len(fifo) = 1)
  /\ sent' = IF c[1] \in Writer THEN [sent EXCEPT ![c[1]] = c[2]] ELSE sent
  /\ UNCHANGED <<handler, tx_busy, holder, pr, sync, nsync>>

\* A character comes in.
Receive ==
  /\ ~irq /\ irq' = TRUE
  /\ UNCHANGED <<fifo, sent, handler, tx_busy, holder, pr, sync, nsync>>

Step(p) ==
  \/ consolewrite_batch(p) \/ uartwrite_sleep(p) \/ uartwrite_char(p)
  \/ uartwrite_done(p)

Next ==
  \/ uartintr_ack \/ uartintr \/ Transmit \/ Receive
  \/ \E h \in Hart : uartputc_sync_wait(h) \/ uartputc_sync(h)
  \/ \E p \in Writer : \/ Step(p) \/ uartwrite_acquire(p)
                       \/ \E n \in 1..MaxN : consolewrite(p, n)

Spec == Init /\ [][Next]_vars

\* The device and the processors do not stop, and a free lock is had in turn.
Fairness ==
  /\ WF_vars(Transmit) /\ WF_vars(uartintr_ack) /\ SF_vars(uartintr)
  /\ \A h \in Hart : WF_vars(uartputc_sync(h))
  /\ \A p \in Writer : WF_vars(Step(p)) /\ SF_vars(uartwrite_acquire(p))

----------------------------------------------------------------------------

\* Although uartputc_sync() and uartwrite() share no lock, nothing a process
\* writes is dropped, doubled or overtaken: what left the device and what is
\* in the FIFO is what uartwrite() has sent, in order.
WrittenInOrder ==
  \A p \in Writer :
    LET own == SelectSeq(fifo, LAMBDA c : c[1] = p)
    IN  own = [k \in 1..(pr[p].i - sent[p]) |-> <<p, sent[p] + k>>]

\* A write to the console returns.
WriteReturns(p) == pr[p].pc # "idle" ~> pr[p].pc = "idle"
=============================================================================
