------------------------------ MODULE Umalloc ------------------------------
(***************************************************************************)
(* The user-level allocator, user/umalloc.c.  Addresses count Headers; the  *)
(* static header "base" is at 0, the heap that sbrk() grows starts at 1.    *)
(***************************************************************************)
EXTENDS Integers, FiniteSets

CONSTANTS
  MORE,       \* the least number of units morecore() asks for (4096)
  LIMIT,      \* the address at which sbrk() fails
  MaxUnits,   \* bound: units of a request, the header included
  MaxGap      \* bound: units the program takes with sbrk() itself

UmallocAssumption ==
  /\ MORE \in Nat \ {0} /\ LIMIT \in Nat \ {0} /\ MaxUnits \in Nat /\ MaxGap \in Nat

Address == 0..(LIMIT - 1)
base == 0

VARIABLES
  heap,   \* ptr and size of the headers, and freep (-1: not yet set)
  brk,    \* end of the heap
  live,   \* allocated blocks: address of the header -> units
  gap     \* units that sbrk() gave to others

vars == <<heap, brk, live, gap>>

Init ==
  /\ heap = [ptr |-> [a \in Address |-> 0], size |-> [a \in Address |-> 0], freep |-> -1]
  /\ brk = 1 /\ live = <<>> /\ gap = {}

Between(ptr, p, bp) == bp > p /\ bp < ptr[p]

\* The loop of free(): the free block after which bp belongs.
RECURSIVE Before(_, _, _)
Before(ptr, p, bp) ==
  IF \/ Between(ptr, p, bp)
     \/ p >= ptr[p] /\ (bp > p \/ bp < ptr[p])
  THEN p ELSE Before(ptr, ptr[p], bp)

JoinsLower(p, size, bp) == p + size[p] = bp

JoinedUpper(size, bp, next) == [size EXCEPT ![bp] = @ + size[next]]

\* free(), for the block whose header is at bp.
Freed(h, bp) ==
  LET p == Before(h.ptr, h.freep, bp)
      next == h.ptr[p]
      upper == bp + h.size[bp] = next
      size1 == IF upper THEN JoinedUpper(h.size, bp, next) ELSE h.size
      ptr1 == [h.ptr EXCEPT ![bp] = IF upper THEN h.ptr[next] ELSE next]
      lower == JoinsLower(p, size1, bp)
  IN  [ptr |-> [ptr1 EXCEPT ![p] = IF lower THEN ptr1[bp] ELSE bp],
       size |-> IF lower THEN [size1 EXCEPT ![p] = @ + size1[bp]] ELSE size1,
       freep |-> p]

\* What morecore() asks for.
Wanted(nu) == IF nu < MORE THEN MORE ELSE nu

\* The new block is given to the free list as free() does.
morecore(h, b, nu) == Freed([h EXCEPT !.size[b] = Wanted(nu)], b)

\* The loop of malloc(): the block before the first fit; when the search is
\* back at freep, morecore() and on.  b is the end of the heap.
RECURSIVE Search(_, _, _, _)
Search(h, b, prevp, nunits) ==
  LET p == h.ptr[prevp] IN
  IF h.size[p] >= nunits THEN [ok |-> TRUE, h |-> h, b |-> b, prevp |-> prevp]
  ELSE IF p # h.freep THEN Search(h, b, p, nunits)
  ELSE IF b + Wanted(nunits) > LIMIT
       THEN [ok |-> FALSE, h |-> h, b |-> b, prevp |-> prevp]
       ELSE LET h2 == morecore(h, b, nunits)
            IN  Search(h2, b + Wanted(nunits), h2.freep, nunits)

\* The address of the part that is given away: the tail of the block.
Cut(h, p, nunits) == p + h.size[p] - nunits

Started ==
  IF heap.freep >= 0 THEN heap
  ELSE [heap EXCEPT !.ptr[base] = base, !.freep = base, !.size[base] = 0]

malloc(nunits) ==
  \E s \in {Search(Started, brk, Started.freep, nunits)} :
    LET p == s.h.ptr[s.prevp]
        q == Cut(s.h, p, nunits)
    IN  /\ brk' = s.b
        /\ IF ~s.ok THEN heap' = s.h /\ UNCHANGED live
           ELSE IF s.h.size[p] = nunits
           THEN /\ heap' = [s.h EXCEPT !.ptr[s.prevp] = s.h.ptr[p], !.freep = s.prevp]
                /\ live' = [a \in DOMAIN live \cup {p} |-> IF a = p THEN nunits ELSE live[a]]
           ELSE /\ heap' = [s.h EXCEPT !.size[p] = @ - nunits, !.freep = s.prevp,
                                       !.size[q] = nunits]
                /\ live' = [a \in DOMAIN live \cup {q} |-> IF a = q THEN nunits ELSE live[a]]
        /\ UNCHANGED gap

free(bp) ==
  /\ heap' = Freed(heap, bp)
  /\ live' = [a \in DOMAIN live \ {bp} |-> live[a]]
  /\ UNCHANGED <<brk, gap>>

\* The program calls sbrk() for itself: the heap has a hole.
sbrk ==
  /\ Cardinality(gap) < MaxGap /\ brk < LIMIT
  /\ brk' = brk + 1 /\ gap' = gap \cup {brk}
  /\ UNCHANGED <<heap, live>>

Next ==
  \/ \E n \in 1..MaxUnits : malloc(n)
  \/ \E bp \in DOMAIN live : free(bp)
  \/ sbrk

Spec == Init /\ [][Next]_vars

----------------------------------------------------------------------------

\* The blocks that can be reached from freep.
RECURSIVE Reach(_, _)
Reach(a, seen) == IF a \in seen THEN seen ELSE Reach(heap.ptr[a], seen \cup {a})
FreeList == IF heap.freep < 0 THEN {base} ELSE Reach(heap.freep, {})
Units(a, n) == a..(a + n - 1)
FreeUnits == UNION {Units(a, heap.size[a]) : a \in FreeList}
LiveUnits == UNION {Units(a, live[a]) : a \in DOMAIN live}

=============================================================================
