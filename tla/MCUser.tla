------------------------------- MODULE MCUser -------------------------------
(***************************************************************************)
(* User programs for TLC: Shell, ShParse, Umalloc, Grep, Topfree, Display   *)
(* and Mkfs, side by side.  A behaviour is one of the component that part   *)
(* names, while the others stay in an initial state.                        *)
(***************************************************************************)
EXTENDS Shell, Sequences

CONSTANTS
  Alphabet, MaxLen, MAXARGS,                          \* ShParse
  MORE, LIMIT, MaxUnits, MaxGap,                      \* Umalloc
  ReChar, TextChar, MaxRe, MaxInput, BUFSIZE,         \* Grep
  INT_MAX, PerSecond, PerMinute, PerTick, MaxArgs,    \* Topfree
  K, TOTAL_MEM_BYTES, MaxV, Totals, N, Keys,          \* Display
  BSIZE, NDIRECT, NINDIRECT, FSSIZE, BPB, nmeta, Sizes, MaxFiles    \* Mkfs

VARIABLES
  part,
  line,                                        \* ShParse
  heap, brk, live, gap,                        \* Umalloc
  re, input, pos, buf, out, phase,             \* Grep
  argv, i, config, flag, iter, wait, polls, pc,    \* Topfree
  v, procs,                                    \* Display
  img, file                                    \* Mkfs

P == INSTANCE ShParse WITH buf <- line
U == INSTANCE Umalloc
G == INSTANCE Grep
T == INSTANCE Topfree WITH
  Words <- {"p", "K", "cpu", "min", "s", "sec", "?"},
  Numbers <- [zero |-> 0, one |-> 1, nine |-> 9]
D == INSTANCE Display
M == INSTANCE Mkfs

ASSUME UserAssumption ==
  /\ U!UmallocAssumption /\ G!GrepAssumption
  /\ T!TopfreeAssumption /\ D!DisplayAssumption /\ M!MkfsAssumption

(* The trees of a few command lines. *)
A == [type |-> "EXEC"]
Pipe(l, r) == [type |-> "PIPE", left |-> l, right |-> r]
List(l, r) == [type |-> "LIST", left |-> l, right |-> r]
Back(c) == [type |-> "BACK", cmd |-> c]
Redir(c, mode, f) == [type |-> "REDIR", cmd |-> c, mode |-> mode, file |-> f]

\* a < f | a > g > f     a | a | a     a & ; a     (a ; a > f) | a
MCCommands ==
  {Pipe(Redir(A, "<", <<"f", 1>>), Redir(Redir(A, ">", <<"f", 2>>), ">", <<"f", 1>>)),
   Pipe(A, Pipe(A, A)),
   List(Back(A), A),
   Pipe(List(A, Redir(A, ">", <<"f", 1>>)), A)}

----------------------------------------------------------------------------

uvars == <<heap, brk, live, gap>>
gvars == <<re, input, pos, buf, out, phase>>
tvars == <<argv, i, config, flag, iter, wait, polls, pc>>
dvars == <<v, procs>>
mvars == <<img, file>>

\* No arguments and the number 0 where Topfree and Display do not run.
PartsInit ==
  /\ part \in {"shell", "parse", "umalloc", "grep", "topfree", "display", "mkfs"}
  /\ part # "topfree" => argv = <<>>
  /\ part # "display" => v = 0
  /\ Init /\ P!Init /\ U!Init /\ G!Init /\ T!Init /\ D!Init /\ M!Init

PartsNext ==
  /\ UNCHANGED part
  /\ \/ /\ part = "shell" /\ Next
        /\ UNCHANGED <<line, uvars, gvars, tvars, dvars, mvars>>
     \/ /\ part = "parse" /\ P!Next
        /\ UNCHANGED <<vars, uvars, gvars, tvars, dvars, mvars>>
     \/ /\ part = "umalloc" /\ U!Next
        /\ UNCHANGED <<vars, line, gvars, tvars, dvars, mvars>>
     \/ /\ part = "grep" /\ G!Next
        /\ UNCHANGED <<vars, line, uvars, tvars, dvars, mvars>>
     \/ /\ part = "topfree" /\ T!Next
        /\ UNCHANGED <<vars, line, uvars, gvars, dvars, mvars>>
     \/ /\ part = "display" /\ D!Next
        /\ UNCHANGED <<vars, line, uvars, gvars, tvars, mvars>>
     \/ /\ part = "mkfs" /\ M!Next
        /\ UNCHANGED <<vars, line, uvars, gvars, tvars, dvars>>

PartsSpec ==
  PartsInit /\ [][PartsNext]_<<part, vars, line, uvars, gvars, tvars, dvars, mvars>>

\* Headers that are neither in the free list nor of an allocated block are
\* written before they are read.
Heap ==
  <<[a \in U!FreeList |-> <<heap.ptr[a], heap.size[a]>>], heap.freep, brk, live, gap>>
View ==
  <<part, vars, line, IF part = "umalloc" THEN Heap ELSE uvars, gvars, tvars,
    dvars, mvars>>

----------------------------------------------------------------------------

\* The parser accepts the shell's grammar, builds its tree and terminates the
\* words in it (sh.c).
ParsesGrammar == part = "parse" => P!ParsesGrammar


\* Exactly the matching lines are written, however reads are cut (grep.c).
GrepExact == part = "grep" => G!GrepExact



\* The image is what the kernel's file system expects (mkfs.c).
ImageConsistent == part = "mkfs" => M!ImageConsistent
=============================================================================
