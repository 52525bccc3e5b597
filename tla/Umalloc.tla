------------------------------- MODULE Umalloc ------------------------------
(***************************************************************************)
(* The user-level allocator (umalloc.c): a circular list of free blocks in *)
(* address order.  An address counts headers; base is at 0, the memory     *)
(* that sbrk() gave is 1..brk.                                             *)
(***************************************************************************)
EXTENDS Integers, FiniteSets

CONSTANTS Requests,  \* sizes asked for, in units, header included
          CORE,      \* units that morecore() asks for at least (4096)
          LIMIT      \* units that sbrk() can give

VARIABLES heap,  \* ptr and size of the headers, freep (-1: not set), brk
          live,  \* the blocks that the program holds, with their units
          failed \* the last request that malloc() refused, 0 if none

umallocVars == <<heap, live, failed>>

Addr == 0..LIMIT

UmallocInit ==
    /\ heap = [ptr |-> [a \in Addr |-> 0], size |-> [a \in Addr |-> 0],
               freep |-> -1, brk |-> 0]
    /\ live = [a \in {} |-> 0]
    /\ failed = 0

\* The block of the list after which bp belongs: the search starts at freep.
RECURSIVE Before(_, _, _)
Before(h, p, bp) ==
    IF \/ bp > p /\ bp < h.ptr[p]
       \/ p >= h.ptr[p] /\ (bp > p \/ bp < h.ptr[p])
    THEN p ELSE Before(h, h.ptr[p], bp)

\* Variant: the block is not joined with the one before it.
Join_upper(h, p, bp) ==
    LET next  == h.ptr[p]
        joins == bp + h.size[bp] = next
    IN  [h EXCEPT !.size[bp] = IF joins THEN @ + h.size[next] ELSE @,
                  !.ptr = [@ EXCEPT ![bp] = IF joins THEN h.ptr[next] ELSE next,
                                    ![p] = bp],
                  !.freep = p]

\* Variant: joining with the block above forgets that block's units.
Join_short(h, p, bp) ==
    LET next  == h.ptr[p]
        u == IF bp + h.size[bp] = next
             THEN [h EXCEPT !.ptr[bp] = h.ptr[next]]
             ELSE [h EXCEPT !.ptr[bp] = next]
    IN  IF p + u.size[p] = bp
        THEN [u EXCEPT !.size[p] = @ + u.size[bp], !.ptr[p] = u.ptr[bp], !.freep = p]
        ELSE [u EXCEPT !.ptr[p] = bp, !.freep = p]

\* bp joins the list after p, and its two neighbours if it touches them.
Join(h, p, bp) ==
    LET next == h.ptr[p]
        u == IF bp + h.size[bp] = next
             THEN [h EXCEPT !.size[bp] = @ + h.size[next], !.ptr[bp] = h.ptr[next]]
             ELSE [h EXCEPT !.ptr[bp] = next]
    IN  IF p + u.size[p] = bp
        THEN [u EXCEPT !.size[p] = @ + u.size[bp], !.ptr[p] = u.ptr[bp], !.freep = p]
        ELSE [u EXCEPT !.ptr[p] = bp, !.freep = p]

Release(h, bp) == Join(h, Before(h, h.freep, bp), bp)

\* morecore(): sbrk() gives the units after brk, or refuses.
Units(nu) == IF nu < CORE THEN CORE ELSE nu

CanGrow(h, nu) == h.brk + Units(nu) <= LIMIT

morecore(h, nu) ==
    Release([h EXCEPT !.size[h.brk + 1] = Units(nu), !.brk = @ + Units(nu)],
            h.brk + 1)

\* The units are cut from the end of block p, which prevp precedes.
Cut(h, prevp, p, n) ==
    LET rest == h.size[p] - n
    IN  [at |-> p + rest,
         heap |-> IF rest = 0
                  THEN [h EXCEPT !.ptr[prevp] = h.ptr[p], !.freep = prevp]
                  ELSE [h EXCEPT !.size = [@ EXCEPT ![p] = rest, ![p + rest] = n],
                                 !.freep = prevp]]

\* Variant: the block that the search started from is not looked at.
Turned_early(h, p) == h.ptr[p] = h.freep

\* The search is back where it started.
Turned(h, p) == p = h.freep

\* malloc()'s loop: first fit from the block after freep; after a full turn
\* more memory is asked for.  at is 0 when there is none.
RECURSIVE Search(_, _, _, _)
Search(h, prevp, p, n) ==
    IF h.size[p] >= n THEN Cut(h, prevp, p, n)
    ELSE IF ~Turned(h, p) THEN Search(h, p, h.ptr[p], n)
    ELSE IF ~CanGrow(h, n) THEN [at |-> 0, heap |-> h]
    ELSE LET g == morecore(h, n) IN Search(g, g.freep, g.ptr[g.freep], n)

RECURSIVE Ring(_, _, _)
Ring(h, p, seen) == IF p \in seen THEN seen ELSE Ring(h, h.ptr[p], seen \cup {p})

\* What is left in memory where no block begins any more is of no account.
Forget(h, held) ==
    LET ring == Ring(h, h.freep, {})
    IN  [h EXCEPT !.ptr = [a \in Addr |-> IF a \in ring THEN @[a] ELSE 0],
                  !.size = [a \in Addr |-> IF a \in ring \cup held THEN @[a] ELSE 0]]

\* The first call makes base a list of its own.
Prepared(h) == IF h.freep = -1 THEN [h EXCEPT !.freep = 0, !.ptr[0] = 0] ELSE h

malloc(n) ==
    LET h == Prepared(heap)
        r == Search(h, h.freep, h.ptr[h.freep], n)
    IN  /\ heap' = Forget(r.heap, DOMAIN live \cup {r.at})
        /\ IF r.at = 0 THEN failed' = n /\ UNCHANGED live
           ELSE /\ live' = [a \in DOMAIN live \cup {r.at} |->
                               IF a = r.at THEN n ELSE live[a]]
                /\ failed' = 0

free(a) ==
    /\ heap' = Forget(Release(heap, a), DOMAIN live \ {a})
    /\ live' = [b \in DOMAIN live \ {a} |-> live[b]]
    /\ failed' = 0

UmallocNext ==
    \/ \E n \in Requests : malloc(n)
    \/ \E a \in DOMAIN live : free(a)

-----------------------------------------------------------------------------
FreeBlocks == IF heap.freep = -1 THEN {} ELSE Ring(heap, heap.freep, {}) \ {0}

Span(a, n) == a..(a + n - 1)

\* Every unit sbrk() gave is in exactly one block, free or held: no two blocks
\* overlap and none is lost, after any sequence of malloc() and free().
EveryUnitOnce ==
    \A u \in 1..heap.brk :
        Cardinality({a \in FreeBlocks : u \in Span(a, heap.size[a])})
          + Cardinality({a \in DOMAIN live : u \in Span(a, live[a])}) = 1

\* Neighbouring free blocks are one block, so memory that was given back can
\* serve a large request again.
Coalesced ==
    \A a \in FreeBlocks : a + heap.size[a] \notin FreeBlocks

\* malloc() refuses only when no free block is large enough and sbrk() has
\* not enough left.
RefusesLast ==
    failed # 0 => /\ \A a \in FreeBlocks : heap.size[a] < failed
                  /\ heap.brk + Units(failed) > LIMIT

\* The free list and the blocks in use are the memory, cut up no more than need
\* be, and all of it can be had.
HeapKept == EveryUnitOnce /\ Coalesced /\ RefusesLast

=============================================================================
