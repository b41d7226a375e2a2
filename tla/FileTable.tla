----------------------------- MODULE FileTable ------------------------------
(***************************************************************************)
(* Open files: the table of kernel/file.c, and the descriptors of processes *)
(* through open, dup, close, pipe, fork and exit.                           *)
(*                                                                         *)
(* An object is what a file stands for: a reference to an inode, or one end *)
(* of a pipe.  A process works off a list of things to do, one action for   *)
(* each: between the two halves of fileclose() the entry is free, and the   *)
(* object is not closed yet.                                                *)
(***************************************************************************)
EXTENDS Naturals, FiniteSets, SequencesExt

CONSTANTS Proc, NFILE, NOFILE,
          NObj          \* bound: the objects that are open at once

FileTableAssumption == {NFILE, NOFILE, NObj} \subseteq Nat /\ NObj > NFILE

File == 1..NFILE
Fd == 1..NOFILE
Obj == 1..NObj

VARIABLES
  ftable,       \* [ref, obj]; obj 0 is FD_NONE
  open,         \* the objects that are open
  ofile,        \* the descriptors of a process; 0 is none
  live,         \* the processes there are
  todo,         \* what a process has still to do
  panicked

vars == <<ftable, open, ofile, live, todo, panicked>>

\* One process without files; the others are free slots.
Init ==
  /\ ftable = [f \in File |-> [ref |-> 0, obj |-> 0]]
  /\ open = {}
  /\ ofile = [p \in Proc |-> [fd \in Fd |-> 0]]
  /\ \E p \in Proc : live = {p}
  /\ todo = [p \in Proc |-> <<>>]
  /\ panicked = FALSE

Lowest(S) == CHOOSE x \in S : \A y \in S : x <= y
FreeFiles == {f \in File : ftable[f].ref = 0}
FreeFds(p) == {fd \in Fd : ofile[p][fd] = 0}
Fds(p) == SetToSortSeq(Fd \ FreeFds(p), <)     \* the ones in use
filealloc == Lowest(FreeFiles)
fdalloc(p) == Lowest(FreeFds(p))
Allocated(f, o) == [ftable EXCEPT ![f] = [ref |-> 1, obj |-> o]]

Close(f) == [do |-> "fileclose", f |-> f]
Doing(p, what) == todo[p] # <<>> /\ Head(todo[p]).do = what
\* p is in user mode; kfork() makes its child RUNNABLE last.
Ready(p) ==
  /\ p \in live /\ todo[p] = <<>>
  /\ ~\E q \in Proc : Doing(q, "filedup") /\ Head(todo[q]).np = p

\* sys_open(): a file for an object that has just been opened; without a
\* descriptor the file, still FD_NONE, and the object are let go.
sys_open(p) ==
  LET f == filealloc  o == Lowest(Obj \ open) IN
  /\ Ready(p) /\ open # Obj /\ FreeFiles # {}
  /\ IF FreeFds(p) # {}
     THEN /\ ftable' = Allocated(f, o) /\ open' = open \cup {o}
          /\ ofile' = [ofile EXCEPT ![p][fdalloc(p)] = f]
          /\ UNCHANGED todo
     ELSE /\ ftable' = Allocated(f, 0) /\ todo' = [todo EXCEPT ![p] = <<Close(f)>>]
          /\ UNCHANGED <<open, ofile>>
  /\ UNCHANGED <<live, panicked>>

sys_dup(p, fd) ==
  /\ Ready(p) /\ ofile[p][fd] # 0 /\ FreeFds(p) # {}
  /\ ofile' = [ofile EXCEPT ![p][fdalloc(p)] = ofile[p][fd]]
  /\ panicked' = (panicked \/ ftable[ofile[p][fd]].ref < 1)
  /\ ftable' = [ftable EXCEPT ![ofile[p][fd]].ref = @ + 1]
  /\ UNCHANGED <<open, live, todo>>

sys_close(p, fd) ==
  /\ Ready(p) /\ ofile[p][fd] # 0
  /\ ofile' = [ofile EXCEPT ![p][fd] = 0]
  /\ todo' = [todo EXCEPT ![p] = <<Close(ofile[p][fd])>>]
  /\ UNCHANGED <<ftable, open, live, panicked>>

\* pipealloc(): the first filealloc(), and then the second.
sys_pipe(p) ==
  /\ Ready(p) /\ FreeFiles # {}
  /\ ftable' = Allocated(filealloc, 0)
  /\ todo' = [todo EXCEPT ![p] = <<[Close(filealloc) EXCEPT !.do = "pipealloc"]>>]
  /\ UNCHANGED <<open, ofile, live, panicked>>

Undone(rf, wf) == <<Close(rf), Close(wf)>>

\* The rest of sys_pipe(): "ok" is whether kalloc() and, later, copyout()
\* succeed; fdalloc() may fail for either end.
sys_pipe_rest(p, kalloc, copyout) ==
  LET rf == Head(todo[p]).f  wf == filealloc
      o1 == Lowest(Obj \ open)  o2 == Lowest(Obj \ (open \cup {o1}))
      fd0 == fdalloc(p)  fd1 == Lowest(FreeFds(p) \ {fd0})
  IN  /\ Doing(p, "pipealloc")
      /\ Cardinality(Obj \ open) >= 2
      /\ IF FreeFiles = {}
         THEN /\ todo' = [todo EXCEPT ![p] = <<Close(rf)>>]
              /\ UNCHANGED <<ftable, open, ofile>>
         ELSE IF ~kalloc
         THEN /\ ftable' = Allocated(wf, 0)
              /\ todo' = [todo EXCEPT ![p] = Undone(rf, wf)]
              /\ UNCHANGED <<open, ofile>>
         ELSE /\ ftable' = [Allocated(wf, o2) EXCEPT ![rf].obj = o1]
              /\ open' = open \cup {o1, o2}
              /\ IF copyout /\ Cardinality(FreeFds(p)) >= 2
                 THEN /\ ofile' = [ofile EXCEPT ![p] =
                                     [@ EXCEPT ![fd0] = rf, ![fd1] = wf]]
                      /\ todo' = [todo EXCEPT ![p] = <<>>]
                 ELSE /\ todo' = [todo EXCEPT ![p] = Undone(rf, wf)]
                      /\ UNCHANGED ofile
      /\ UNCHANGED <<live, panicked>>

\* kfork(): np's descriptors, one filedup() after the other.
kfork(p, np) ==
  /\ Ready(p) /\ np \notin live /\ todo[np] = <<>>
  /\ todo' = [todo EXCEPT ![p] = [k \in 1..Len(Fds(p)) |->
                [do |-> "filedup", fd |-> Fds(p)[k], np |-> np]]]
  /\ live' = live \cup {np}
  /\ UNCHANGED <<ftable, open, ofile, panicked>>

filedup(p) ==
  LET t == Head(todo[p])  f == ofile[p][t.fd] IN
  /\ Doing(p, "filedup")
  /\ panicked' = (panicked \/ ftable[f].ref < 1)
  /\ ftable' = [ftable EXCEPT ![f].ref = @ + 1]
  /\ ofile' = [ofile EXCEPT ![t.np][t.fd] = f]
  /\ todo' = [todo EXCEPT ![p] = Tail(@)]
  /\ UNCHANGED <<open, live>>

\* kexit() closes every descriptor; nobody looks at them in between.
kexit(p) ==
  /\ Ready(p) /\ live # {p}
  /\ ofile' = [ofile EXCEPT ![p] = [fd \in Fd |-> 0]]
  /\ todo' = [todo EXCEPT ![p] = 
                [k \in 1..Len(Fds(p)) |-> Close(ofile[p][Fds(p)[k]])]]
  /\ live' = live \ {p}
  /\ UNCHANGED <<ftable, open, panicked>>

\* Mutant: ff is copied after the entry has been given back.
Saved_Late(f) == <<>>
\* What is to be closed once the entry is free: ff.
Saved(f) == IF ftable[f].obj = 0 THEN <<>>
            ELSE <<[do |-> "closeobj", obj |-> ftable[f].obj]>>

LastRef(f) == ftable[f].ref <= 1

\* The half of fileclose() under ftable.lock.
fileclose(p) ==
  LET f == Head(todo[p]).f IN
  /\ Doing(p, "fileclose")
  /\ panicked' = (panicked \/ ftable[f].ref < 1)
  /\ IF ~LastRef(f)
     THEN /\ ftable' = [ftable EXCEPT ![f].ref = @ - 1]
          /\ todo' = [todo EXCEPT ![p] = Tail(@)]
     ELSE /\ ftable' = [ftable EXCEPT ![f] = [ref |-> 0, obj |-> 0]]
          /\ todo' = [todo EXCEPT ![p] = Saved(f) \o Tail(@)]
  /\ UNCHANGED <<open, ofile, live>>

\* pipeclose() or iput() of ff.
closeobj(p) ==
  /\ Doing(p, "closeobj")
  /\ open' = open \ {Head(todo[p]).obj}
  /\ todo' = [todo EXCEPT ![p] = Tail(@)]
  /\ UNCHANGED <<ftable, ofile, live, panicked>>

Next ==
  \E p \in Proc :
    \/ sys_open(p) \/ sys_pipe(p) \/ kexit(p) \/ filedup(p)
    \/ fileclose(p) \/ closeobj(p)
    \/ \E fd \in Fd : sys_dup(p, fd) \/ sys_close(p, fd)
    \/ \E np \in Proc : kfork(p, np)
    \/ \E kalloc, copyout \in BOOLEAN : sys_pipe_rest(p, kalloc, copyout)

Spec == Init /\ [][Next]_vars

----------------------------------------------------------------------------

Holders(f) ==
  {<<p, fd>> \in Proc \X Fd : ofile[p][fd] = f} \cup
  {<<p, NOFILE + k>> : <<p, k>> \in {<<p, k>> \in Proc \X (1..NFILE+NOFILE) :
      /\ k <= Len(todo[p]) /\ todo[p][k].do \in {"fileclose", "pipealloc"}
      /\ todo[p][k].f = f}}

Closers(o) == {p \in Proc : \E k \in 1..Len(todo[p]) :
                 todo[p][k].do = "closeobj" /\ todo[p][k].obj = o}
FilesOf(o) == {f \in File : ftable[f].ref > 0 /\ ftable[f].obj = o}

\* A file is free if and only if no descriptor of any process and no call
\* under way leads to it, through forks that are half done, pipes that fail
\* half way, and exits.  And what it leads to is closed exactly once, after
\* its last descriptor is gone: an open object has one file, or one process
\* that is about to close it; a closed one has neither, although fileclose()
\* gives the entry back first.
ClosedOnce ==
  /\ \A f \in File : ftable[f].ref = Cardinality(Holders(f))
  /\ \A o \in Obj : Cardinality(FilesOf(o)) + Cardinality(Closers(o))
                      = IF o \in open THEN 1 ELSE 0

\* filedup() and fileclose() never meet a file that is not open.
NoPanic == ~panicked
=============================================================================
