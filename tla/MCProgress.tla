----------------------------- MODULE MCProgress -----------------------------
(***************************************************************************)
(* Liveness of the components whose steps need only weak fairness: Log and  *)
(* Shell for TLC, side by side.  A behaviour is one of the component that   *)
(* part names, while the other stays in an initial state.  The log is small *)
(* here, so that it fills up.                                               *)
(***************************************************************************)
EXTENDS Log

CONSTANT p1              \* one of the processes

VARIABLES
  part,
  proc, typed, failed    \* Shell

(* a | a | a     (a | a) & ; a *)
A == [type |-> "EXEC"]
Pipe(l, r) == [type |-> "PIPE", left |-> l, right |-> r]
List(l, r) == [type |-> "LIST", left |-> l, right |-> r]
Back(c) == [type |-> "BACK", cmd |-> c]

S == INSTANCE Shell WITH
  Commands <- {Pipe(A, Pipe(A, A)), List(Back(Pipe(A, A)), A)},
  MaxCmds <- 1, NPROC <- 8, NOFILE <- 6, MaxPipe <- 2, CanFail <- TRUE

ASSUME PartsAssumption == p1 \in Process

svars == <<proc, typed, failed>>
all == <<part, vars, svars>>

PartsInit == part \in {"log", "shell"} /\ Init /\ S!Init

LogMoves == part = "log" /\ UNCHANGED <<part, svars>>
ShellMoves == part = "shell" /\ UNCHANGED <<part, vars>>

PartsNext == (LogMoves /\ Next) \/ (ShellMoves /\ S!Next)

\* Fairness of every component.  Since part never changes, fairness of a
\* disjunction over the parts is fairness of the disjunct of the part that
\* moves.
PartsFairness ==
  /\ WF_all((LogMoves /\ recover_from_log) \/ (ShellMoves /\ S!InitStep))
  /\ \A p \in Process : WF_all(LogMoves /\ Step(p))
  /\ \A q \in S!Proc : WF_all(ShellMoves /\ S!Step(q))

PartsSpec == PartsInit /\ [][PartsNext]_all /\ PartsFairness

----------------------------------------------------------------------------

\* Every begin_op returns, unless the machine crashes: no wakeup(&log) is
\* missing, and whoever waits for room or for a commit gets in (begin_op,
\* end_op).  The processes are symmetric.
BeginOpReturns == BeginReturns(p1)

\* After the last command the shell is back at its prompt and nothing else is
\* left (main and runcmd of sh.c, main of init.c).
PromptReturns == S!PromptReturns
=============================================================================
