-------------------------------- MODULE Trap --------------------------------
(***************************************************************************)
(* Traps and context switches: kernel/trampoline.S, kernelvec.S, swtch.S    *)
(* and trap.c, with yield, sched, scheduler and forkret of kernel/proc.c as *)
(* far as they move registers and the interrupt flag.                       *)
(*                                                                         *)
(* A thread is a process or the scheduler of a hart.  Registers are of      *)
(* three kinds: caller-saved, callee-saved and tp; their contents are a     *)
(* mark of whom they belong to, for user code with a version.  A stretch of *)
(* code that runs with interrupts off is one action.                        *)
(***************************************************************************)
EXTENDS Naturals, Sequences

CONSTANTS Proc, Hart,
          NPC           \* bound: user program counters are modulo NPC

TrapAssumption == NPC \in Nat /\ NPC > 1 /\ Proc \cap Hart = {}

VARIABLES
  hart,   \* sstatus, stvec, sepc, registers, struct cpu, and who runs
  thr,    \* threads: location, struct context, frames on its kernel stack
  tf,     \* trapframes
  user    \* the registers and pc a user program has, whether it runs or not

vars == <<hart, thr, tf, user>>

Threads == Proc \cup Hart               \* a hart's name is its scheduler's
\* A mark says whose a value is, and where it is from.
Mark(t) == <<t, "kernel", 0>>
UMark(p, v) == <<p, "user", v>>
Id(h) == <<h, "hart", 0>>               \* the number of a hart
Place(t, loc) == <<t, loc, 0>>

\* Schedulers are in their loop; processes start in forkret.
Init ==
  /\ hart = [h \in Hart |->
       [user |-> FALSE, sie |-> FALSE, spie |-> FALSE,
        stvec |-> "kernelvec", sepc |-> Place(h, "off"),
        run |-> h, caller |-> Mark(h), callee |-> Mark(h), tp |-> Id(h)]]
  /\ thr = [t \in Threads |->
       [loc |-> IF t \in Hart THEN "off" ELSE "new", intena |-> FALSE,
        ctx |-> Mark(t), frames |-> <<>>]]
  /\ \E h \in Hart : tf = [p \in Proc |->
       [caller |-> UMark(p, 0), callee |-> UMark(p, 0), tp |-> UMark(p, 0),
        epc |-> 0, kernel_hartid |-> Id(h)]]
  /\ user = [p \in Proc |-> [v |-> 0, pc |-> 0]]

At(h, loc) == ~hart[h].user /\ thr[hart[h].run].loc = loc
Go(h, loc) == thr' = [thr EXCEPT ![hart[h].run].loc = loc]

----------------------------------------------------------------------------
(* User mode *)

\* User code changes its registers.
UserStep(h) ==
  LET p == hart[h].run IN
  /\ hart[h].user
  /\ user' = [user EXCEPT ![p] = [v |-> 1 - @.v, pc |-> (@.pc + 1) % NPC]]
  /\ hart' = [hart EXCEPT ![h].caller = UMark(p, user'[p].v),
                          ![h].callee = UMark(p, user'[p].v),
                          ![h].tp = UMark(p, user'[p].v)]
  /\ UNCHANGED <<thr, tf>>

Resume(cause, pc) == IF cause = "ecall" THEN (pc + 1) % NPC ELSE pc

\* Mutant: uservec forgets to save the user's tp.
Saved_NoTp(f, r) == [f EXCEPT !.caller = r.caller, !.callee = r.callee]
\* uservec: the registers go to the trapframe.
Saved(f, r) == [f EXCEPT !.caller = r.caller, !.callee = r.callee, !.tp = r.tp]

\* A trap: the hart saves pc and sstatus, uservec the registers; usertrap up
\* to intr_on() for a system call, to yield() for the timer, to
\* prepare_return() for another device or a fault.
usertrap(h, cause) ==
  LET p == hart[h].run  r == hart[h] IN
  /\ r.user
  /\ tf' = [tf EXCEPT ![p] = [Saved(@, r) EXCEPT !.epc = Resume(cause, user[p].pc)]]
  /\ hart' = [hart EXCEPT ![h] = [@ EXCEPT !.user = FALSE,
       !.spie = r.sie, !.sie = (cause = "ecall"), !.sepc = UMark(p, user[p].pc),
       !.stvec = "kernelvec", !.tp = tf[p].kernel_hartid,
       !.caller = Mark(p), !.callee = Mark(p)]]
  /\ user' = [user EXCEPT ![p].pc = IF cause = "ecall" THEN (@ + 1) % NPC ELSE @]
  /\ Go(h, IF cause = "ecall" THEN "syscall"
           ELSE IF cause = "timer" THEN "yield" ELSE "return")

\* The system call is done.
syscall_done(h) ==
  /\ At(h, "syscall") /\ hart[h].run \in Proc
  /\ Go(h, "return")
  /\ UNCHANGED <<hart, tf, user>>

----------------------------------------------------------------------------
(* The way back: prepare_return() and userret *)

Masked(r) == [r EXCEPT !.sie = FALSE]

intr_off(h) ==
  /\ At(h, "return")
  /\ hart' = [hart EXCEPT ![h] = Masked(@)]
  /\ Go(h, "masked")
  /\ UNCHANGED <<tf, user>>

HartSaved(p, h) == hart[h].tp

\* w_stvec, the trapframe, sstatus and sepc.
prepare_return(h) ==
  LET p == hart[h].run IN
  /\ At(h, "masked")
  /\ tf' = [tf EXCEPT ![p].kernel_hartid = HartSaved(p, h)]
  /\ hart' = [hart EXCEPT ![h].stvec = "uservec",
                          ![h].spie = TRUE, ![h].sepc = UMark(p, tf[p].epc)]
  /\ Go(h, "userret")
  /\ UNCHANGED <<user>>

userret(h) ==
  LET p == hart[h].run IN
  /\ At(h, "userret")
  /\ hart' = [hart EXCEPT ![h].user = TRUE, ![h].sie = hart[h].spie,
       ![h].caller = tf[p].caller, ![h].callee = tf[p].callee,
       ![h].tp = tf[p].tp]
  /\ UNCHANGED <<thr, tf, user>>

----------------------------------------------------------------------------
(* Traps from the kernel *)

\* An interrupt in the kernel: kernelvec pushes the caller-saved registers,
\* kerneltrap keeps sepc and sstatus.  Through uservec it would end in the
\* panic of usertrap(): the thread is lost.
kernelvec(h, timer) ==
  LET t == hart[h].run  r == hart[h] IN
  /\ ~r.user /\ r.sie
  /\ hart' = [hart EXCEPT ![h].spie = TRUE, ![h].sie = FALSE,
                          ![h].sepc = Place(t, thr[t].loc), ![h].caller = Mark(h)]
  /\ thr' = [thr EXCEPT ![t].frames =
               <<[caller |-> r.caller, sepc |-> Place(t, thr[t].loc)]>> \o @,
               ![t].loc = IF r.stvec # "kernelvec" THEN "lost"
                          ELSE IF timer /\ t \in Proc THEN "kyield" ELSE "ktrap"]
  /\ UNCHANGED <<tf, user>>

\* Mutant: kerneltrap trusts sepc and sstatus after yield().
Restored_Not(r, f) == r
Restored(r, f) == [r EXCEPT !.sepc = f.sepc, !.spie = TRUE]

\* The end of kerneltrap, and kernelvec's sret.
kernelvec_sret(h) ==
  LET t == hart[h].run  f == Head(thr[t].frames)  r == Restored(hart[h], f) IN
  /\ At(h, "ktrap")
  /\ hart' = [hart EXCEPT ![h] = [r EXCEPT !.sie = r.spie, !.caller = f.caller]]
  /\ thr' = [thr EXCEPT ![t].loc = IF r.sepc[1] = t THEN r.sepc[2] ELSE "lost",
                        ![t].frames = Tail(@)]
  /\ UNCHANGED <<tf, user>>

----------------------------------------------------------------------------
(* yield, sleep, sched, swtch and the scheduler *)

\* acquire(&p->lock), sched(), swtch() to the scheduler, and its release();
\* the thread goes on at "next".
Switch(h, next) ==
  LET p == hart[h].run  r == hart[h] IN
  /\ thr' = [thr EXCEPT ![p].loc = next, ![p].intena = r.sie,
                        ![p].ctx = r.callee, ![h].loc = "loop"]
  /\ hart' = [hart EXCEPT ![h].run = h, ![h].callee = thr[h].ctx,
                ![h].caller = Mark(h)]
  /\ UNCHANGED <<tf, user>>

yield(h) == At(h, "yield") /\ Switch(h, "return")
kernel_yield(h) == At(h, "kyield") /\ Switch(h, "ktrap")
sleep(h) == At(h, "syscall") /\ hart[h].run \in Proc /\ Switch(h, "syscall")

\* intr_on() and intr_off() of the scheduler's loop.
scheduler_on(h) ==
  /\ At(h, "loop")
  /\ hart' = [hart EXCEPT ![h].sie = TRUE] /\ Go(h, "on")
  /\ UNCHANGED <<tf, user>>
scheduler_off(h) ==
  /\ At(h, "on")
  /\ hart' = [hart EXCEPT ![h].sie = FALSE] /\ Go(h, "off")
  /\ UNCHANGED <<tf, user>>

\* intena after swtch(): forkret has the scheduler's, sched() its own.
Intena(h, p) == IF thr[p].loc = "new" THEN hart[h].sie ELSE thr[p].intena

\* acquire(&p->lock), swtch() to p, and p's release().
scheduler(h, p) ==
  /\ At(h, "off") /\ hart[h].run = h
  /\ \A g \in Hart : hart[g].run # p
  /\ hart' = [hart EXCEPT ![h].run = p, ![h].callee = thr[p].ctx,
       ![h].caller = Mark(p), ![h].sie = Intena(h, p)]
  /\ thr' = [thr EXCEPT ![h].ctx = hart[h].callee,
                        ![p].loc = IF @ = "new" THEN "return" ELSE @]
  /\ UNCHANGED <<tf, user>>

\* Nothing to run.
scheduler_idle(h) ==
  /\ At(h, "off") /\ hart[h].run = h /\ Go(h, "loop")
  /\ UNCHANGED <<hart, tf, user>>

Next ==
  \E h \in Hart :
    \/ UserStep(h) \/ syscall_done(h) \/ intr_off(h) \/ prepare_return(h)
    \/ userret(h) \/ kernelvec_sret(h) \/ yield(h) \/ kernel_yield(h)
    \/ sleep(h) \/ scheduler_on(h) \/ scheduler_off(h) \/ scheduler_idle(h)
    \/ \E cause \in {"ecall", "timer", "device", "fault"} : usertrap(h, cause)
    \/ \E timer \in BOOLEAN : kernelvec(h, timer)
    \/ \E p \in Proc : scheduler(h, p)

Spec == Init /\ [][Next]_vars

----------------------------------------------------------------------------

\* A user program never sees a trap: in user mode all its registers, tp
\* included, are what they were when it trapped, whatever hart it comes back
\* on and however many threads and traps used the harts in between; and sret
\* goes to the instruction after the system call, or to the one that was
\* interrupted (uservec, userret, usertrap).
UserStateKept ==
  \A h \in Hart :
    LET p == hart[h].run  m == UMark(p, user[p].v) IN
    /\ hart[h].user => hart[h].caller = m /\ hart[h].callee = m /\ hart[h].tp = m
    /\ At(h, "userret") => hart[h].sepc = UMark(p, user[p].pc)

\* A kernel thread never sees a trap or a switch either: outside kerneltrap
\* its registers are its own, and it goes on where it was, although other
\* threads trap on the same hart before kerneltrap() returns.  tp is the
\* number of the hart, also after the thread moved: cpuid() and mycpu() are
\* right.  And no interrupt in the kernel enters through uservec ("a trap
\* from kernel code to usertrap would be a disaster", prepare_return).
KernelStateKept ==
  \A h \in Hart :
    LET t == hart[h].run IN
    ~hart[h].user =>
      /\ hart[h].tp = Id(h)
      /\ thr[t].loc \notin {"ktrap", "kyield"} =>
           hart[h].caller = Mark(t) /\ hart[h].callee = Mark(t) /\ thr[t].loc # "lost"
=============================================================================
