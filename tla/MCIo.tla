-------------------------------- MODULE MCIo --------------------------------
(***************************************************************************)
(* Pipe, Console and Uart for TLC, side by side: a behaviour is one of the  *)
(* component that part names, while the others stay in their initial        *)
(* states.                                                                  *)
(***************************************************************************)
EXTENDS Pipe, FiniteSets, TLC

CONSTANTS
  Hart,
  INPUT_BUF_SIZE, UINT, Polls, MaxRead, MaxTyped,   \* Console
  FifoSize, BATCH, MaxChars, MaxSync                \* Uart

VARIABLES
  part,
  buf, r, w, e, holder, pr, marked, typed, polls,                   \* Console
  fifo, sent, irq, handler, tx_busy, tx_lock, writer, sync, nsync   \* Uart

C == INSTANCE Console WITH Proc <- Writer, killed <- marked
U == INSTANCE Uart WITH holder <- tx_lock, pr <- writer, MaxN <- MaxChars

cvars == <<buf, r, w, e, holder, pr, marked, typed, polls>>
uvars == <<fifo, sent, irq, handler, tx_busy, tx_lock, writer, sync, nsync>>

ASSUME IoAssumption == C!ConsoleAssumption /\ U!UartAssumption

PartsInit ==
  /\ part \in {"pipe", "console", "uart"}
  /\ Init /\ (part # "pipe" => data = [i \in 0..PIPESIZE-1 |-> 0])
  /\ C!Init /\ U!Init

PartsNext ==
  /\ UNCHANGED part
  /\ \/ part = "pipe" /\ Next /\ UNCHANGED <<cvars, uvars>>
     \/ part = "console" /\ C!Next /\ UNCHANGED <<vars, uvars>>
     \/ part = "uart" /\ U!Next /\ UNCHANGED <<vars, cvars>>

PartsSpec == PartsInit /\ [][PartsNext]_<<part, vars, cvars, uvars>>

\* Four processes use the pipe byte by byte, three in larger pieces, and one
\* process is killed.
PipeBound ==
  /\ Cardinality(held) > 3 => \A p \in User : left[p] <= 1
  /\ Cardinality(killed) <= 1

Symmetry ==
  Permutations(Reader) \cup Permutations(Writer)

----------------------------------------------------------------------------


\* What uartwrite() sends leaves the device once and in order.
WrittenInOrder == U!WrittenInOrder
=============================================================================
