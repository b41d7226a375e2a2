---------------------------- MODULE Transactions ----------------------------
(***************************************************************************)
(* What the log promises the file system ("Simple logging that allows      *)
(* concurrent FS system calls", kernel/log.c): a disk whose contents change *)
(* by whole transactions only.                                              *)
(*                                                                         *)
(* view is what bread() returns, stable what a machine that crashed now     *)
(* would find after recovery, active the system calls between begin_op and  *)
(* end_op.  A commit takes the view as a whole, and only when no system     *)
(* call is in progress: after a crash either all the writes of a system     *)
(* call are there or none.                                                  *)
(***************************************************************************)
CONSTANTS Process, Block, Val

VARIABLES view, stable, active

vars == <<view, stable, active>>

Init ==
  /\ view \in [Block -> Val]
  /\ stable = view
  /\ active = {}

Begin(p) ==
  /\ p \notin active
  /\ active' = active \cup {p}
  /\ UNCHANGED <<view, stable>>

Write(p, b, v) ==
  /\ p \in active
  /\ view' = [view EXCEPT ![b] = v]
  /\ UNCHANGED <<stable, active>>

End(p) ==
  /\ p \in active
  /\ active' = active \ {p}
  /\ UNCHANGED <<view, stable>>

Commit ==
  /\ active = {}
  /\ stable' = view
  /\ UNCHANGED <<view, active>>

Crash ==
  /\ view' = stable
  /\ active' = {}
  /\ UNCHANGED stable

Next ==
  \/ \E p \in Process : Begin(p) \/ End(p)
  \/ \E p \in Process, b \in Block, v \in Val : Write(p, b, v)
  \/ Commit
  \/ Crash

Spec == Init /\ [][Next]_vars
=============================================================================
