------------------------------- MODULE MCProc -------------------------------
(***************************************************************************)
(* Proc and Monitor for TLC, side by side: a behaviour is one of the        *)
(* component that part names, while the other stays in its initial state.   *)
(* Proc has init and further slots, so that there are orphans, and two      *)
(* harts.                                                                   *)
(***************************************************************************)
EXTENDS Proc, TLC

CONSTANTS
  Parts,                     \* the components that a run checks
  NPROC, MaxListed, MaxScan  \* Monitor

VARIABLES
  part,
  m_state, m_pid, m_parent, m_nextpid, m_wait_lock, pr, mon    \* Monitor

M == INSTANCE Monitor WITH
  MaxPid <- MaxListed, state <- m_state, pid <- m_pid, parent <- m_parent,
  nextpid <- m_nextpid, wait_lock <- m_wait_lock

ASSUME PartsAssumption == M!MonitorAssumption /\ Parts \subseteq {"proc", "monitor"}

mvars == <<m_state, m_pid, m_parent, m_nextpid, m_wait_lock, pr, mon>>

PartsInit == part \in Parts /\ Init /\ M!Init

PartsNext ==
  /\ UNCHANGED part
  /\ \/ part = "proc" /\ Next /\ UNCHANGED mvars
     \/ part = "monitor" /\ M!Next /\ UNCHANGED vars

PartsSpec == PartsInit /\ [][PartsNext]_<<part, vars, mvars>>

Symmetry == Permutations(CPU) \cup Permutations(Proc \ {initproc})

----------------------------------------------------------------------------

\* getallprocs() reads the fields of the right parent and lists every process
\* that is there throughout, once (getallprocs, fill_u_proc).
ScanSound == M!ScanSound
=============================================================================
