-------------------------------- MODULE Clock --------------------------------
(***************************************************************************)
(* Time: clockintr() and the timer case of devintr() in kernel/trap.c,      *)
(* sys_pause() and sys_uptime() of kernel/sysproc.c, and the CPU time that  *)
(* allocproc() and usertrap() account for each process.                     *)
(*                                                                         *)
(* ticks is an unsigned int and wraps; cpu_ticks and cpu_ticks_base are 64  *)
(* bits wide.  tickslock is held over each action that reads or writes      *)
(* ticks in sys_pause() and clockintr(); usertrap() reads it without.       *)
(***************************************************************************)
EXTENDS Integers, FiniteSets

CONSTANTS
  Proc, NHART,      \* harts are 0..NHART-1
  UINT, ULONG,      \* numbers of values of an unsigned int and of a uint64
  MaxPause,         \* bound: argument of pause()
  MaxTick           \* bound: timer interrupts of hart 0

ClockAssumption ==
  /\ NHART \in Nat \ {0} /\ UINT \in Nat \ {0} /\ ULONG \in Nat /\ ULONG > UINT
  /\ MaxPause \in Nat /\ MaxTick \in Nat

VARIABLES
  ticks,
  pr,       \* processes: where they are, their accounts, their pause()
  now       \* timer interrupts of hart 0 since start

vars == <<ticks, pr, now>>

\* allocproc() at the start: cpu_ticks_base = ticks, cpu_ticks = 0.
Init ==
  /\ ticks = 0 /\ now = 0
  /\ pr = [p \in Proc |-> [loc |-> "unused", hart |-> 0, base |-> 0, cpu |-> 0,
             born |-> 0, ticks0 |-> 0, n |-> 0, call |-> 0, killed |-> FALSE]]

allocproc(p) ==
  /\ pr[p].loc = "unused"
  /\ pr' = [pr EXCEPT ![p].loc = "new", ![p].base = ticks, ![p].cpu = 0, ![p].born = now]
  /\ UNCHANGED <<ticks, now>>

----------------------------------------------------------------------------
(* User mode, and the accounts *)

\* Mutant: the base is set once, when the process is made.
NewBase_Kept(p) == pr[p].base
NewBase(p) == ticks

\* The return to user mode: from usertrap() the base is set, from forkret()
\* it is not.
Return(p, h) ==
  /\ pr[p].loc \in {"new", "kernel"}
  /\ \A q \in Proc : pr[q].loc = "user" => pr[q].hart # h
  /\ pr' = [pr EXCEPT ![p].base = IF pr[p].loc = "new" THEN @ ELSE NewBase(p),
                      ![p].loc = "user", ![p].hart = h]
  /\ UNCHANGED <<ticks, now>>

\* p->cpu_ticks += ticks - p->cpu_ticks_base
Charged(p) ==
  [pr[p] EXCEPT !.cpu = (@ + ticks - pr[p].base) % ULONG, !.loc = "kernel"]

\* A system call, fault or device interrupt.
usertrap(p) ==
  /\ pr[p].loc = "user" /\ pr' = [pr EXCEPT ![p] = Charged(p)]
  /\ UNCHANGED <<ticks, now>>

\* wakeup(&ticks)
Wake(q) == IF q.loc = "sleep" THEN [q EXCEPT !.loc = "check"] ELSE q

\* Bound: a process that was woken runs before ticks has come round.
InTime(p) == pr[p].loc = "check" => now - pr[p].call < UINT - 1

\* The timer interrupt of hart h: usertrap() charges the process that runs
\* there, then clockintr(), on hart 0, counts and wakes.
clockintr(h) ==
  LET on == {p \in Proc : pr[p].loc = "user" /\ pr[p].hart = h}
  IN  IF h = 0
      THEN /\ now < MaxTick /\ now' = now + 1
           /\ \A p \in Proc : InTime(p)
           /\ ticks' = (ticks + 1) % UINT
           /\ pr' = [p \in Proc |-> IF p \in on THEN Charged(p) ELSE Wake(pr[p])]
      ELSE /\ on # {} /\ pr' = [p \in Proc |-> IF p \in on THEN Charged(p) ELSE pr[p]]
           /\ UNCHANGED <<ticks, now>>

----------------------------------------------------------------------------
(* pause() *)

Early(t0, n) == (ticks - t0 + UINT) % UINT < n

\* The loop's head: enough, killed, or sleep.
Check(p, t0, n, q) ==
  IF Early(t0, n) /\ ~q.killed THEN [q EXCEPT !.loc = "sleep"]
  ELSE [q EXCEPT !.loc = IF Early(t0, n) THEN "kernel" ELSE "paused"]

sys_pause(p, n) ==
  /\ pr[p].loc = "kernel" /\ now + n < MaxTick
  /\ pr' = [pr EXCEPT ![p] =
       Check(p, ticks, n, [@ EXCEPT !.ticks0 = ticks, !.n = n, !.call = now])]
  /\ UNCHANGED <<ticks, now>>

sys_pause_check(p) ==
  /\ pr[p].loc = "check"
  /\ pr' = [pr EXCEPT ![p] = Check(p, @.ticks0, @.n, @)]
  /\ UNCHANGED <<ticks, now>>

\* pause() returned 0; the process goes on.
sys_pause_return(p) ==
  /\ pr[p].loc = "paused"
  /\ pr' = [pr EXCEPT ![p].loc = "kernel", ![p].n = 0, ![p].ticks0 = 0, ![p].call = 0]
  /\ UNCHANGED <<ticks, now>>

kkill(p) ==
  /\ pr[p].loc # "unused" /\ ~pr[p].killed
  /\ pr' = [pr EXCEPT ![p].killed = TRUE, ![p].loc = IF @ = "sleep" THEN "check" ELSE @]
  /\ UNCHANGED <<ticks, now>>

\* A killed process goes no further than the end of its system call.
Done == now = MaxTick /\ UNCHANGED vars

Next ==
  \/ \E h \in 0..(NHART - 1) : clockintr(h) \/ \E p \in Proc : Return(p, h)
  \/ \E p \in Proc :
       \/ allocproc(p) \/ usertrap(p) \/ sys_pause_check(p) \/ sys_pause_return(p)
       \/ kkill(p) \/ \E n \in 0..MaxPause : sys_pause(p, n)
  \/ Done

Spec == Init /\ [][Next]_vars

----------------------------------------------------------------------------


\* A process is never charged more ticks than have passed since it was made,
\* whatever it does and wherever it runs (until the counter wraps).
ChargeBound == now < UINT => \A p \in Proc : pr[p].cpu <= now - pr[p].born
=============================================================================
