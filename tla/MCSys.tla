------------------------------- MODULE MCSys --------------------------------
(***************************************************************************)
(* Namespace, FileTable and Vm for TLC: the paths, the descriptors and the  *)
(* memory of processes, side by side.  A behaviour is one of the component  *)
(* that part names, while the others stay in their initial states.          *)
(***************************************************************************)
EXTENDS Namespace, Integers, TLC

CONSTANTS
  Parts,                          \* the components that a run checks
  a, b,                           \* names
  NFILE, NOFILE, NObj,            \* FileTable
  NPAGE, FAN, USERSTACK, MaxArg   \* Vm

VARIABLES
  part,
  ftable, open, ofile, live, todo, f_panicked,    \* FileTable
  free, proc, held, ret, m_panicked               \* Vm

Slot == {1, 2}

F == INSTANCE FileTable WITH Proc <- Slot, panicked <- f_panicked

\* The second segment ends inside a page or at its end.
M == INSTANCE Vm WITH
  Proc <- Slot, Programs <- {<<1, 2>>}, Amounts <- {-3, 3},
  panicked <- m_panicked

ASSUME PartsAssumption ==
  /\ F!FileTableAssumption /\ M!VmAssumption
  /\ Parts \subseteq {"names", "files", "memory"}

C(op, path, new) == [op |-> op, abs |-> TRUE, path |-> path, new |-> new]
Here(op, path) == [op |-> op, abs |-> FALSE, path |-> path, new |-> <<>>]

\* Two levels, files and directories under the same names.
Absolute ==
  {C(op, path, <<>>) : op \in {"create", "mkdir", "unlink"},
                       path \in {<<a>>, <<a, b>>}}
    \cup {C("link", <<a>>, <<b>>), C("link", <<b>>, <<a, b>>),
          C("link", <<a, b>>, <<b>>), C("openw", <<a>>, <<>>),
          C("unlink", <<a, DotDot>>, <<>>), C("mkdir", <<>>, <<>>),
          C("mknod", <<b>>, <<>>), C("open", <<b>>, <<>>),
          C("chdir", <<a>>, <<>>), Here("mkdir", <<b>>)}

\* A process that works inside the directory it is in.
Relative ==
  {C("mkdir", <<a>>, <<>>), C("mkdir", <<a, b>>, <<>>), C("chdir", <<a, b>>, <<>>),
   C("unlink", <<a>>, <<>>), C("unlink", <<a, b>>, <<>>), Here("open", <<DotDot>>)}

----------------------------------------------------------------------------

fvars == <<ftable, open, ofile, live, todo, f_panicked>>
mvars == <<free, proc, held, ret, m_panicked>>

PartsInit ==
  /\ part \in Parts /\ Init /\ F!Init /\ M!Init
  /\ live = {1} /\ proc[1].tf # 0      \* by symmetry

PartsNext ==
  /\ UNCHANGED part
  /\ \/ part = "names" /\ Next /\ UNCHANGED <<fvars, mvars>>
     \/ part = "files" /\ F!Next /\ UNCHANGED <<vars, mvars>>
     \/ part = "memory" /\ M!Next /\ UNCHANGED <<vars, fvars>>

PartsSpec == PartsInit /\ [][PartsNext]_<<part, vars, fvars, mvars>>

Symmetry == Permutations(Proc)

\* Pages are interchangeable as long as each has one owner (PagesOnce, checked
\* in every state): which entries are in use determines a state up to the
\* numbers of its pages and the names of the two processes.
Memory ==
  <<{<<{x \in M!Prefix : proc[p].pt[x] # 0}, proc[p].sz>> : p \in Slot},
    Cardinality(free), m_panicked>>
View ==
  CASE part = "names" -> <<part, vars>>
    [] part = "files" -> <<part, fvars>>
    [] part = "memory" -> <<part, Memory>>

----------------------------------------------------------------------------

\* References to open files are exact, and what a file leads to is closed
\* once, after its last reference is gone (file.c).
ClosedOnce == part = "files" => F!ClosedOnce

\* No page is lost and none has two owners, whichever allocation failed.
PagesOnce == part = "memory" => M!PagesOnce

\* The kernel runs: no call meets a free inode, filedup() and fileclose() a
\* closed file, mappages() a mapping or freewalk() a leaf.
KernelRuns == NoPanic /\ F!NoPanic /\ (part = "memory" => M!NoPanic)

\* A call that fails leaves every process with the memory it had.
FailureKeepsImage == M!FailureKeepsImage
=============================================================================
