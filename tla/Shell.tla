------------------------------- MODULE Shell -------------------------------
(***************************************************************************)
(* How commands run: main() and runcmd() of user/sh.c and main() of         *)
(* user/init.c, with the processes, descriptors and pipe ends they make.    *)
(* The parse trees are those of ShParse; files and programs have no         *)
(* contents.  A program reads its standard input to the end and exits: it   *)
(* waits as long as somebody has the writing end of its pipe open.          *)
(***************************************************************************)
EXTENDS Integers, FiniteSets

CONSTANTS
  Commands,     \* the parse trees that are typed
  MaxCmds,      \* bound: commands typed
  NPROC, NOFILE, MaxPipe,
  CanFail       \* whether fork(), pipe() and open() may fail

ASSUME ShellAssumption ==
  NPROC \in Nat /\ NOFILE \in Nat /\ NOFILE > 4 /\ MaxPipe \in Nat /\ CanFail \in BOOLEAN

Proc == 0..(NPROC - 1)
init == 0

VARIABLES
  proc,     \* processes
  typed,    \* commands typed
  failed    \* some call failed

vars == <<proc, typed, failed>>

\* Open files: the console, pipe ends <<"r", k>> and <<"w", k>>, others.
tty == <<"tty", 0>>
none == <<"none", 0>>

Unused == [st |-> "unused"]
Console == [f \in 0..(NOFILE - 1) |-> IF f <= 2 THEN tty ELSE none]
NoFiles == [f \in 0..(NOFILE - 1) |-> none]

\* A process: its state, parent, point of execution, command, descriptors;
\* std: the input and output the command was given by the shell's syntax;
\* back: it runs in the background; k: its pipe; child: sh, for init.
NewProc(par, pc, cmd, fd, std, back) ==
  [st |-> "live", par |-> par, pc |-> pc, cmd |-> cmd, fd |-> fd, std |-> std,
   back |-> back, p |-> <<0, 0>>, child |-> 0]
Tty == <<tty, tty>>
NoCmd == [type |-> "none"]

Init ==
  /\ proc = [q \in Proc |-> IF q = init THEN NewProc(0, "fork", NoCmd, Console, Tty, FALSE)
                            ELSE Unused]
  /\ typed = 0 /\ failed = FALSE

----------------------------------------------------------------------------
(* System calls *)

Free == {q \in Proc : proc[q].st = "unused"}
Lowest(S) == CHOOSE x \in S : \A y \in S : x <= y
Open(F, file) == [F EXCEPT ![Lowest({f \in DOMAIN F : F[f] = none})] = file]
Close(F, f) == [F EXCEPT ![f] = none]
dup(F, f) == Open(F, F[f])

Live(q, pc) == proc[q].st = "live" /\ proc[q].pc = pc
Held == UNION {{proc[q].fd[f] : f \in 0..(NOFILE - 1)} : q \in {r \in Proc : proc[r].st = "live"}}

\* reparent()
Heir(q) == init

\* exit(): descriptors are closed, children go to init.
Exited(P, q) ==
  [r \in Proc |->
    IF r = q THEN [P[q] EXCEPT !.st = "zombie", !.fd = NoFiles, !.cmd = NoCmd, !.p = <<0, 0>>]
    ELSE IF P[r].st # "unused" /\ P[r].par = q THEN [P[r] EXCEPT !.par = Heir(q)]
    ELSE P[r]]

exit(q) == proc' = Exited(proc, q)

\* fork1(): the child is c, the parent goes on as q2; or it panics.
Fork(q, c, q2) ==
  \/ /\ Free # {}
     /\ proc' = [proc EXCEPT ![q] = q2, ![Lowest(Free)] = c]
     /\ UNCHANGED failed
  \/ /\ CanFail \/ Free = {}
     /\ exit(q) /\ failed' = TRUE

\* wait(0): a child that has exited is gone, q goes on as q2.
Reap(q, c, q2) ==
  /\ proc[c].st = "zombie" /\ proc[c].par = q
  /\ proc' = [proc EXCEPT ![q] = q2, ![c] = Unused]
  /\ UNCHANGED <<typed, failed>>

----------------------------------------------------------------------------
(* init and the shell's main() *)

init_fork ==
  /\ Live(init, "fork") /\ Free # {}
  /\ proc' = [proc EXCEPT ![init].pc = "wait", ![init].child = Lowest(Free),
       ![Lowest(Free)] = NewProc(init, "prompt", NoCmd, Console, Tty, FALSE)]
  /\ UNCHANGED <<typed, failed>>

\* A parentless process exited, or the shell, which is started again.
init_wait(c) ==
  /\ Live(init, "wait")
  /\ Reap(init, c, IF c = proc[init].child THEN [proc[init] EXCEPT !.pc = "fork"]
                   ELSE proc[init])

main(q, cmd) ==
  /\ Live(q, "prompt") /\ typed < MaxCmds /\ typed' = typed + 1
  /\ Fork(q, NewProc(q, "run", cmd, proc[q].fd, Tty, FALSE), [proc[q] EXCEPT !.pc = "wait"])

main_wait(q, c) == Live(q, "wait") /\ q # init /\ Reap(q, c, [proc[q] EXCEPT !.pc = "prompt"])

\* End of file on the console.
main_eof(q) ==
  /\ Live(q, "prompt") /\ typed < MaxCmds /\ typed' = typed + 1
  /\ exit(q) /\ UNCHANGED failed

----------------------------------------------------------------------------
(* runcmd() *)

Runs(q, type) == Live(q, "run") /\ proc[q].cmd.type = type

\* exec() of a program; without arguments, or when it fails, the end.
runcmd_exec(q) ==
  /\ Runs(q, "EXEC")
  /\ \/ proc' = [proc EXCEPT ![q].pc = "program", ![q].cmd = NoCmd]
     \/ exit(q)
  /\ UNCHANGED <<typed, failed>>

\* < is descriptor 0, > and >> are 1.
runcmd_redir(q) ==
  LET c == proc[q].cmd  f == IF c.mode = "<" THEN 0 ELSE 1 IN
  /\ Runs(q, "REDIR")
  /\ \/ /\ proc' = [proc EXCEPT ![q].cmd = c.cmd, ![q].fd = Open(Close(@, f), c.file),
                                ![q].std[f + 1] = c.file]
        /\ UNCHANGED failed
     \/ CanFail /\ exit(q) /\ failed' = TRUE
  /\ UNCHANGED typed

\* The forked copy of q that runs cmd.
Copy(q, cmd) == NewProc(q, "run", cmd, proc[q].fd, proc[q].std, proc[q].back)

runcmd_list(q) ==
  /\ Runs(q, "LIST")
  /\ Fork(q, Copy(q, proc[q].cmd.left), [proc[q] EXCEPT !.pc = "listwait"])
  /\ UNCHANGED typed
runcmd_list_wait(q, c) ==
  /\ Live(q, "listwait")
  /\ Reap(q, c, [proc[q] EXCEPT !.pc = "run", !.cmd = @.right])

\* pipe(p): the two lowest descriptors.
runcmd_pipe(q) ==
  /\ Runs(q, "PIPE")
  /\ \/ \E k \in 1..MaxPipe :
          LET free == {f \in 0..(NOFILE - 1) : proc[q].fd[f] = none}
              rd == Lowest(free)  wr == Lowest(free \ {rd})
          IN  /\ {<<"r", k>>, <<"w", k>>} \cap Held = {}
              /\ \A l \in 1..(k - 1) : {<<"r", l>>, <<"w", l>>} \cap Held # {}
              /\ proc' = [proc EXCEPT ![q].pc = "left", ![q].p = <<rd, wr>>,
                            ![q].fd[rd] = <<"r", k>>, ![q].fd[wr] = <<"w", k>>]
              /\ UNCHANGED failed
     \/ CanFail /\ exit(q) /\ failed' = TRUE
  /\ UNCHANGED typed

\* Mutant: the right side keeps the writing end.
Ends_Read(F, p) == Close(F, p[1])
\* close(p[0]); close(p[1])
Ends(F, p) == Close(Close(F, p[1]), p[2])

\* Mutant: the old descriptor is not closed before dup().
Onto_Open(F, f, end) == dup(F, end)
Onto(F, f, end) == dup(Close(F, f), end)

runcmd_left(q) ==
  LET r == proc[q] IN
  /\ Live(q, "left")
  /\ Fork(q, [Copy(q, r.cmd.left) EXCEPT !.fd = Ends(Onto(r.fd, 1, r.p[2]), r.p),
                                         !.std[2] = r.fd[r.p[2]]],
          [r EXCEPT !.pc = "right"])
  /\ UNCHANGED typed
runcmd_right(q) ==
  LET r == proc[q] IN
  /\ Live(q, "right")
  /\ Fork(q, [Copy(q, r.cmd.right) EXCEPT !.fd = Ends(Onto(r.fd, 0, r.p[1]), r.p),
                                          !.std[1] = r.fd[r.p[1]]],
          [r EXCEPT !.pc = "close"])
  /\ UNCHANGED typed
runcmd_close(q) ==
  /\ Live(q, "close")
  /\ proc' = [proc EXCEPT ![q].pc = "pipewait", ![q].fd = Ends(@, proc[q].p), ![q].cmd = NoCmd]
  /\ UNCHANGED <<typed, failed>>

AfterWait(pc) == IF pc = "pipewait" THEN "pipewait2" ELSE "end"

runcmd_pipe_wait(q, c) ==
  /\ Live(q, "pipewait") \/ Live(q, "pipewait2")
  /\ Reap(q, c, [proc[q] EXCEPT !.pc = AfterWait(@)])

runcmd_back(q) ==
  /\ Runs(q, "BACK")
  /\ Fork(q, [Copy(q, proc[q].cmd.cmd) EXCEPT !.back = TRUE], [proc[q] EXCEPT !.pc = "end"])
  /\ UNCHANGED typed

runcmd_end(q) == Live(q, "end") /\ exit(q) /\ UNCHANGED <<typed, failed>>

\* A program ends when its input has ended.
Program(q) ==
  /\ Live(q, "program")
  /\ \A k \in 1..MaxPipe : proc[q].fd[0] = <<"r", k>> => <<"w", k>> \notin Held
  /\ exit(q) /\ UNCHANGED <<typed, failed>>

Step(q) ==
  \/ runcmd_exec(q) \/ runcmd_redir(q) \/ runcmd_list(q) \/ runcmd_pipe(q)
  \/ runcmd_left(q) \/ runcmd_right(q) \/ runcmd_close(q) \/ runcmd_back(q)
  \/ runcmd_end(q) \/ Program(q)
  \/ \E c \in Proc : main_wait(q, c) \/ runcmd_list_wait(q, c) \/ runcmd_pipe_wait(q, c)

InitStep == init_fork \/ \E c \in Proc : init_wait(c)

\* Nothing more is typed.
Rest == typed = MaxCmds /\ UNCHANGED vars

Next ==
  \/ InitStep \/ Rest
  \/ \E q \in Proc : Step(q) \/ main_eof(q) \/ \E cmd \in Commands : main(q, cmd)

Spec == Init /\ [][Next]_vars

\* The scheduler runs every process that can run, and programs end.
Fairness == WF_vars(InitStep) /\ \A q \in Proc : WF_vars(Step(q))

----------------------------------------------------------------------------

\* A command line runs as it was typed.  Every program has the input and
\* output the line gives it on descriptors 0 and 1, the console on 2, and no
\* other descriptor: no pipe end leaks into it.  And when the prompt is back
\* and no call failed, only background commands are still running: the
\* wait()s of nested lists and pipelines count right (runcmd).
RunsAsTyped ==
  /\ \A q \in Proc : Live(q, "program") =>
       proc[q].fd = [f \in 0..(NOFILE - 1) |-> IF f < 2 THEN proc[q].std[f + 1]
                                               ELSE IF f = 2 THEN tty ELSE none]
  /\ ~failed =>
       \A q \in Proc : Live(q, "prompt") =>
         \A r \in Proc : proc[r].st = "live" /\ r \notin {q, init} => proc[r].back

\* In the end the shell is back at its prompt and nothing else is left: no
\* pipeline waits for an end of file that a forgotten descriptor withholds,
\* and whatever exits is waited for, by its parent or by init.
PromptReturns ==
  typed = MaxCmds ~>
    /\ Live(init, "wait") /\ Live(proc[init].child, "prompt")
    /\ \A q \in Proc \ {init, proc[init].child} : proc[q].st = "unused"
=============================================================================
