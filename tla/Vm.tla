--------------------------------- MODULE Vm ---------------------------------
(***************************************************************************)
(* User memory: the page allocator of kernel/kalloc.c, the page tables of   *)
(* kernel/vm.c, and fork, exec, sbrk, page faults and exit as far as they   *)
(* use them, with an allocation that may fail at any point.                 *)
(*                                                                         *)
(* A page table maps a sequence of indices to a physical page, or to 0: the *)
(* empty sequence to its root, a full one (the indices that PX() takes from *)
(* an address) to what is mapped, the ones between to page-table pages.     *)
(* Processes share nothing but the free pages, so that a call is one        *)
(* action; the pages that others take show as fewer free pages.  Sizes      *)
(* count half pages, to have sizes that are not a multiple of a page.       *)
(***************************************************************************)
EXTENDS Integers, FiniteSets, SequencesExt

CONSTANTS
  Proc,
  NPAGE,        \* physical pages 1..NPAGE
  FAN,          \* entries of a page-table page; there are three levels
  USERSTACK,
  Programs,     \* executable files: the ends of their two segments
  Amounts,      \* bound: the sizes that sbrk is called with
  MaxArg        \* bound: the arguments of exec

VmAssumption ==
  /\ {NPAGE, USERSTACK} \subseteq Nat /\ FAN \in Nat /\ FAN >= 2 /\ MaxArg \in Nat
  /\ Programs \subseteq Nat \X Nat /\ Amounts \subseteq Int

PG == 2                                 \* PGSIZE
TRAMPOLINE == FAN * FAN * FAN - 1       \* page numbers
TRAPFRAME == TRAMPOLINE - 1
Code == NPAGE + 1                       \* the page of trampoline.S

VARIABLES
  free,         \* kmem.freelist
  proc,         \* [tf, pt, sz]: the memory of a process; tf 0 if there is none
  held,         \* pages that pipes hold
  ret,          \* what the last call returned: 0 or -1
  panicked

vars == <<free, proc, held, ret, panicked>>

Up(sz) == (sz + PG - 1) \div PG         \* PGROUNDUP, as a page number

----------------------------------------------------------------------------
(* Page tables.  m is [free, pt, ok, panic]; ok is FALSE after a failure.   *)

Leaf(va) == <<va \div (FAN * FAN), (va \div FAN) % FAN, va % FAN>>
Prefix == {<<>>} \cup UNION {[1..n -> 0..FAN-1] : n \in 1..3}
NoTable == [x \in Prefix |-> 0]

Nth(S, n) == CHOOSE b \in S : Cardinality({c \in S : c < b}) = n

\* The entries that mapping the pages S fills, each with its turn among the
\* requests of the loop to kalloc(): for each page its memory, then what
\* walk() has to add.
Turn(S, x) ==
  LET va == CHOOSE va \in S : /\ IsPrefix(x, Leaf(va))
                              /\ \A b \in S : IsPrefix(x, Leaf(b)) => va <= b
  IN  4 * va + (Len(x) % 3)
Requests(pt, S) ==
  {<<Turn(S, x), x>> : x \in {x \in Prefix :
     x # <<>> /\ pt[x] = 0 /\ \E a \in S : IsPrefix(x, Leaf(a))}}

\* As many of the requests as there are free pages are met.
Met(free_, need) ==
  {<<r[2], Nth(free_, Cardinality({q \in need : q[1] < r[1]}))>> :
     r \in {r \in need :
             Cardinality({q \in need : q[1] < r[1]}) < Cardinality(free_)}}
Filled(m, got, all) ==
  [m EXCEPT !.pt = [x \in Prefix |-> IF \E g \in got : g[1] = x
                      THEN (CHOOSE g \in got : g[1] = x)[2] ELSE @[x]],
            !.free = @ \ {g[2] : g \in got}, !.ok = all]

\* kalloc(), walk() and mappages() for the pages S.
Only(S) == CHOOSE x \in S : TRUE
Map(m, S) ==
  LET n == Only({Only({Filled(m, got, Cardinality(got) = Cardinality(need))
                         : got \in {Met(m.free, need)}})
                   : need \in {Requests(m.pt, S)}})
  IN  [n EXCEPT !.panic = @ \/ \E a \in S : m.pt[Leaf(a)] # 0]

\* kfree() of the pages that the entries X of a page table hold.
kfree(m, X) == m.free \cup ({m.pt[x] : x \in X} \ {0})

\* uvmunmap(), with do_free, of the pages S.
uvmunmap(m, S) ==
  LET leaves == {Leaf(a) : a \in S} IN
  [m EXCEPT !.free = kfree(m, leaves),
            !.pt = [x \in Prefix |-> IF x \in leaves THEN 0 ELSE @[x]]]

uvmdealloc(m, old, new) ==
  IF new >= old THEN m ELSE uvmunmap(m, Up(new)..Up(old)-1)

\* Mutant: the page that walk() had no table for is not given back.
Unmapped_Last(m, S) ==
  LET last == {a \in S : m.pt[Leaf(a)] # 0
                         /\ \A b \in S : m.pt[Leaf(b)] # 0 => b <= a}
  IN  [uvmunmap(m, S) EXCEPT !.free = @ \ {m.pt[Leaf(a)] : a \in last}]
\* The pages that were mapped before one failed, and its own memory, go; the
\* page-table pages stay.
Unmapped(m, S) == uvmunmap(m, S)

uvmalloc(m, old, new) ==
  LET S == Up(old)..Up(new)-1  n == Map(m, S)
  IN  IF new < old THEN m ELSE IF n.ok THEN n ELSE Unmapped(n, S)

Uncopied(m, S) == uvmunmap(m, S)

\* uvmcopy() of the mapped pages below sz.
uvmcopy(m, old, sz) ==
  LET S == {a \in 0..Up(sz)-1 : old[Leaf(a)] # 0}  n == Map(m, S)
  IN  IF n.ok THEN n ELSE Uncopied(n, S)

freewalk(m) ==
  [m EXCEPT !.free = kfree(m, {x \in Prefix : Len(x) < 3}),
            !.pt = NoTable,
            !.panic = @ \/ \E x \in Prefix : Len(x) = 3 /\ m.pt[x] # 0]

Set(m, va, pa) == [m EXCEPT !.pt[Leaf(va)] = pa]

\* uvmcreate() and the mappings of the trampoline and of the trapframe,
\* which share their page-table pages; on failure everything is freed.
proc_pagetable(f, tf) ==
  LET tables == <<<<>>, SubSeq(Leaf(TRAMPOLINE), 1, 1), SubSeq(Leaf(TRAMPOLINE), 1, 2)>>
      k == IF Cardinality(f) < 3 THEN Cardinality(f) ELSE 3
      m == [free |-> {b \in f : \E n \in k..Cardinality(f)-1 : b = Nth(f, n)},
            pt |-> [x \in Prefix |-> IF \E n \in 1..k : tables[n] = x
                    THEN Nth(f, (CHOOSE n \in 1..k : tables[n] = x) - 1) ELSE 0],
            ok |-> k = 3, panic |-> FALSE]
  IN  IF m.ok THEN Set(Set(m, TRAMPOLINE, Code), TRAPFRAME, tf) ELSE freewalk(m)

uvmfree(m, sz) == freewalk(uvmunmap(m, 0..Up(sz)-1))

proc_freepagetable(m, sz) == uvmfree(Set(Set(m, TRAMPOLINE, 0), TRAPFRAME, 0), sz)

----------------------------------------------------------------------------
(* The calls. *)

NoProc == [tf |-> 0, pt |-> NoTable, sz |-> 0]
Live(p) == proc[p].tf # 0
Mem(p) == [free |-> free, pt |-> proc[p].pt, ok |-> TRUE, panic |-> FALSE]

Result(r, m) ==
  /\ ret' = r /\ panicked' = (panicked \/ m.panic)
  /\ UNCHANGED held

\* The process that userinit() sets up.
Init ==
  LET tf == Nth(1..NPAGE, 0)
      m == proc_pagetable(1..NPAGE \ {tf}, tf)
  IN  /\ \E p \in Proc : proc = [q \in Proc |->
           IF q = p THEN [tf |-> tf, pt |-> m.pt, sz |-> 0] ELSE NoProc]
      /\ free = m.free /\ held = {} /\ ret = 0 /\ panicked = FALSE

\* freeproc(), of the memory.
Freed(m, tf, sz) ==
  LET n == proc_freepagetable(m, sz)
  IN  [n EXCEPT !.free = @ \cup ({tf} \ {0})]

\* kfork(): allocproc() and uvmcopy(); each failure ends in freeproc().
kfork(p, np) ==
  /\ Live(p) /\ ~Live(np)
  /\ IF free = {} THEN Result(-1, Mem(p)) /\ UNCHANGED <<free, proc>>
     ELSE \E tf \in {Nth(free, 0)} :
          \E m1 \in {proc_pagetable(free \ {tf}, tf)} :
          IF ~m1.ok
          THEN /\ free' = m1.free \cup {tf} /\ Result(-1, m1) /\ UNCHANGED proc
          ELSE \E m2 \in {uvmcopy(m1, proc[p].pt, proc[p].sz)} :
               IF m2.ok
               THEN /\ free' = m2.free /\ Result(0, m2)
                    /\ proc' = [proc EXCEPT ![np] =
                                  [tf |-> tf, pt |-> m2.pt, sz |-> proc[p].sz]]
               ELSE \E m \in {Freed(m2, tf, 0)} :
                    free' = m.free /\ Result(-1, m) /\ UNCHANGED proc

\* kwait() frees a process that has called exit.
kwait(p) ==
  /\ Live(p) /\ \E q \in Proc \ {p} : Live(q)
  /\ \E m \in {Freed(Mem(p), proc[p].tf, proc[p].sz)} :
       free' = m.free /\ Result(0, m)
  /\ proc' = [proc EXCEPT ![p] = NoProc]

\* growproc(n): the size changes if the memory does.  A size below zero
\* wraps, is not less than the old one, and changes nothing.
growproc(p, n) ==
  LET sz == proc[p].sz  new == IF sz + n < 0 THEN sz ELSE sz + n IN
  \E m \in {IF n < 0 THEN uvmdealloc(Mem(p), sz, new)
            ELSE uvmalloc(Mem(p), sz, new)} :
    /\ free' = m.free /\ Result(IF m.ok THEN 0 ELSE -1, m)
    /\ proc' = [proc EXCEPT ![p].pt = m.pt,
                            ![p].sz = IF m.ok THEN new ELSE @]

TooBig(sz) == sz > TRAPFRAME * PG

\* sys_sbrk(n, eager): growproc(), or only a larger size.
sys_sbrk(p, n, eager) ==
  /\ Live(p)
  /\ IF TooBig(proc[p].sz + n)
     THEN Result(-1, Mem(p)) /\ UNCHANGED <<free, proc>>
     ELSE IF eager \/ n < 0 THEN growproc(p, n)
     ELSE /\ proc' = [proc EXCEPT ![p].sz = @ + n]
          /\ Result(0, Mem(p)) /\ UNCHANGED free

\* vmfault(), of an access by the process, copyin() or copyout().
vmfault(p, va) ==
  /\ Live(p) /\ va * PG < proc[p].sz /\ proc[p].pt[Leaf(va)] = 0
  /\ \E m \in {uvmalloc(Mem(p), va * PG, (va + 1) * PG)} :
       /\ free' = m.free /\ proc' = [proc EXCEPT ![p].pt = m.pt]
       /\ Result(IF m.ok THEN 0 ELSE -1, m)

\* Mutant: a failing exec has let go of the old image.
OldImage_Freed(p, n) == [tf |-> proc[p].tf, pt |-> n.pt, sz |-> n.sz]
OldImage(p, n) == proc[p]

\* A segment of kexec() that ends at e: uvmalloc() and loadseg().
Segment(m, e, readable) ==
  LET n == uvmalloc(m, m.sz, e) IN
  IF ~m.ok THEN m
  ELSE IF ~n.ok THEN n
  ELSE [n EXCEPT !.sz = IF e < @ THEN @ ELSE e, !.ok = readable]

\* The guard page and the stack; the arguments may not fit.
Stack(m, fits) ==
  LET base == Up(m.sz) * PG  top == base + (USERSTACK + 1) * PG
      n == uvmalloc([m EXCEPT !.sz = base], base, top)
  IN  IF ~m.ok THEN m
      ELSE IF ~n.ok THEN n ELSE [n EXCEPT !.sz = top, !.ok = fits]

\* The pages that sys_exec() copies the arguments to.
Argv(argc) == {x \in free : Cardinality({y \in free : y < x}) < argc}

\* sys_exec() and kexec(): the pages that hold the arguments are freed in
\* either case.  "fail" is what goes wrong: the segment that cannot be read,
\* or 3 for arguments that do not fit.
sys_exec(p, prog, argc, fail) ==
  LET argv == Argv(argc) IN
  /\ Live(p)
  /\ \E m \in {proc_pagetable(free \ argv, proc[p].tf)} :
     IF Cardinality(argv) < argc \/ ~m.ok
     THEN /\ Result(-1, m) /\ UNCHANGED <<free, proc>>
     ELSE \E m1 \in {Segment([free |-> m.free, pt |-> m.pt, ok |-> TRUE,
                        panic |-> m.panic, sz |-> 0], prog[1], fail # 1)} :
          \E m2 \in {Segment(m1, prog[2], fail # 2)} :
          \E n \in {Stack(m2, fail # 3)} :
          IF n.ok
          THEN \E old \in {proc_freepagetable([Mem(p) EXCEPT !.free = n.free],
                                              proc[p].sz)} :
               /\ proc' = [proc EXCEPT ![p].pt = n.pt, ![p].sz = n.sz]
               /\ free' = old.free \cup argv
               /\ Result(0, [old EXCEPT !.panic = @ \/ n.panic])
          ELSE \E bad \in {proc_freepagetable(n, n.sz)} :
               /\ proc' = [proc EXCEPT ![p] = OldImage(p, bad)]
               /\ free' = bad.free \cup argv
               /\ Result(-1, bad)

\* pipealloc() and pipeclose() take and return a page.
Pipe ==
  /\ \/ free # {} /\ held' = held \cup {Nth(free, 0)} /\ free' = free \ held'
     \/ \E x \in held : held' = held \ {x} /\ free' = free \cup {x}
  /\ UNCHANGED <<proc, ret, panicked>>

Next ==
  \/ \E p \in Proc :
       \/ kwait(p) \/ \E np \in Proc : kfork(p, np)
       \/ \E n \in Amounts, eager \in BOOLEAN : sys_sbrk(p, n, eager)
       \/ \E va \in 0..TRAPFRAME-1 : vmfault(p, va)
       \/ \E prog \in Programs, argc \in 0..MaxArg :
            \E fail \in 0..3 : sys_exec(p, prog, argc, fail)
  \/ Pipe

Spec == Init /\ [][Next]_vars

----------------------------------------------------------------------------

\* The places that own a page: page tables with what they map, trapframes.
Owners(b) ==
  {<<p, x>> \in Proc \X Prefix :
     proc[p].pt[x] = b /\ x \notin {Leaf(TRAPFRAME), Leaf(TRAMPOLINE)}}
  \cup {<<p, "tf">> : p \in {p \in Proc : proc[p].tf = b}}

\* No page is lost and none has two owners: every page is free, held by a
\* pipe, or in exactly one place of one process, whichever allocation inside
\* fork, exec, sbrk or a fault failed.
PagesOnce ==
  \A b \in 1..NPAGE :
    Cardinality(Owners(b)) + (IF b \in free THEN 1 ELSE 0)
      + (IF b \in held THEN 1 ELSE 0) = 1

\* mappages() never maps over a mapping and freewalk() never finds a leaf:
\* what is mapped lies below the size, whatever lazy and eager growth,
\* shrinking and faults came before.
NoPanic ==
  /\ ~panicked
  /\ \A p \in Proc : \A va \in 0..TRAPFRAME-1 :
       proc[p].pt[Leaf(va)] # 0 => va < Up(proc[p].sz)

Image(p) == [va \in 0..TRAMPOLINE |-> proc[p].pt[Leaf(va)]]

\* A call that fails leaves every process with the memory it had: a failed
\* exec keeps the old image, a failed fork and a failed sbrk change nothing.
FailureKeepsImage ==
  [][ret' = -1 => \A p \in Proc : Image(p)' = Image(p)
                                  /\ proc'[p].sz = proc[p].sz]_vars
=============================================================================
