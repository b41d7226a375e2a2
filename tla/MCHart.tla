------------------------------- MODULE MCHart -------------------------------
(***************************************************************************)
(* Spinlock, Trap and Clock for TLC: what a hart does below the process     *)
(* layer.  The components are checked side by side: a behaviour is one of   *)
(* the component that part names, while the others stay in their initial    *)
(* states.                                                                  *)
(*                                                                         *)
(* Spinlock has two harts, two threads and one further lock that is taken   *)
(* before p->lock, as wait_lock, log.lock and the other condition locks of  *)
(* sleep() are.                                                             *)
(***************************************************************************)
EXTENDS Spinlock, TLC

CONSTANTS
  c1, c2, t1, t2, l1,
  NPC,                                      \* Trap
  Proc, NHART, UINT, ULONG, MaxPause, MaxTick   \* Clock

VARIABLES
  part,
  hart, thr, tf, user,           \* Trap
  ticks, pr, now                 \* Clock

MCRank == [l \in {l1, t1, t2} |-> IF l = l1 THEN 1 ELSE 2]

T == INSTANCE Trap WITH Proc <- Thread, Hart <- CPU
C == INSTANCE Clock

ASSUME HartAssumption == T!TrapAssumption /\ C!ClockAssumption

tvars == <<hart, thr, tf, user>>
cvars == <<ticks, pr, now>>

PartsInit == part \in {"spinlock", "trap", "clock"} /\ Init /\ T!Init /\ C!Init

PartsNext ==
  /\ UNCHANGED part
  /\ \/ part = "spinlock" /\ Next /\ UNCHANGED <<tvars, cvars>>
     \/ part = "trap" /\ T!Next /\ UNCHANGED <<vars, cvars>>
     \/ part = "clock" /\ C!Next /\ UNCHANGED <<vars, tvars>>

PartsSpec == PartsInit /\ [][PartsNext]_<<part, vars, tvars, cvars>>

(* Values that are overwritten before they are read do not tell states      *)
(* apart: sepc and sstatus.SPIE outside a trap and the way back to user     *)
(* mode, intena of a thread that runs, and the trapframe of one that is in  *)
(* user mode, but for kernel_hartid.                                        *)
LiveHart ==
  [h \in CPU |->
     IF T!At(h, "userret") \/ T!At(h, "ktrap") THEN hart[h]
     ELSE [hart[h] EXCEPT !.sepc = T!Place(h, "off"), !.spie = FALSE]]
LiveThr ==
  [t \in DOMAIN thr |->
     IF \E h \in CPU : hart[h].run = t THEN [thr[t] EXCEPT !.intena = FALSE]
     ELSE thr[t]]
LiveTf ==
  [p \in Thread |->
     IF \E h \in CPU : hart[h].user /\ hart[h].run = p
     THEN [kernel_hartid |-> tf[p].kernel_hartid] ELSE tf[p]]
View == <<part, vars, LiveHart, LiveThr, LiveTf, user, cvars>>

Symmetry == Permutations(CPU) \cup Permutations(Thread)

----------------------------------------------------------------------------

\* A user program never sees a trap in its registers or its pc
\* (trampoline.S, usertrap).
UserStateKept == T!UserStateKept

\* A thread that was interrupted or switched out finds its registers again,
\* tp names its hart, and no trap in the kernel goes through uservec
\* (kernelvec.S, swtch.S, prepare_return).
KernelStateKept == T!KernelStateKept


\* A process is not charged more ticks than have passed (usertrap).
ChargeBound == C!ChargeBound
=============================================================================
