--------------------------------- MODULE Vm ---------------------------------
(***************************************************************************)
(* Physical and virtual memory: the page allocator (kalloc.c), two-level   *)
(* page tables (vm.c) and the calls that build, grow, copy and destroy an  *)
(* address space: sbrk, exec, fork, exit and wait.                         *)
(*                                                                         *)
(* A physical page is a number of 1..npage (0: none); addresses are in     *)
(* bytes, virtual pages are 0..NV-1 below KERNBASE == NV*PGSIZE, and page  *)
(* directory slot NT stands for all the tables of the kernel's half.       *)
(* Every iteration of a loop that allocates is a step of its own, so that  *)
(* processes run out of memory in the middle of each other's calls.        *)
(***************************************************************************)
EXTENDS Integers, FiniteSets, Sequences

CONSTANTS Process,     \* slots of the process table
          initproc,    \* the first process, which never exits
          Memory,      \* numbers of physical pages that machines have
          PGSIZE,      \* bytes in a page
          NPTENTRIES,  \* entries in a page table
          NV,          \* virtual pages of the user half
          Deltas,      \* arguments of sbrk
          Programs,    \* executable files: sequences of segment ends
          ArgSizes,    \* bytes of arguments given to exec
          MaxExec,     \* bound: programs whose loading is begun
          None

ASSUME VmConstants ==
    /\ Memory \subseteq Nat /\ PGSIZE \in Nat \ {0} /\ NPTENTRIES \in Nat \ {0}
    /\ NV \in Nat /\ initproc \in Process /\ None \notin Process
    /\ Deltas \subseteq Int /\ ArgSizes \subseteq Nat /\ MaxExec \in Nat

VARIABLES npage,    \* physical pages of this machine (PHYSTOP)
          free,     \* kmem.freelist
          image,    \* ptable: state, parent, kstack, sz and page tables
          L,        \* the system call each process is in
          vmPanic,  \* the kernel called panic()
          starved,  \* some page-table page could not be allocated
          execs     \* programs whose loading was begun (bounded)

memoryVars == <<npage, free, image, L, vmPanic, starved, execs>>

Page == 1..npage
VPage == 0..(NV - 1)
NT == (NV + NPTENTRIES - 1) \div NPTENTRIES
Slot == 0..NT
KERNBASE == NV * PGSIZE

PDX(v) == v \div NPTENTRIES
PGROUNDUP(sz) == (sz + PGSIZE - 1) \div PGSIZE      \* in pages

(***************************************************************************)
(* An address space: the directory's page, the tables' pages, the page of  *)
(* each present entry and the entries with PTE_U.                          *)
(***************************************************************************)
NoSpace == [dir |-> 0, tab |-> [t \in Slot |-> 0],
            pte |-> [v \in VPage |-> 0], user |-> {}]

Mapped(as) == {v \in VPage : as.pte[v] # 0}

\* The pages an address space is made of, one owner each.
Tables(as) == ({as.dir} \cup {as.tab[t] : t \in Slot}) \ {0}
Frames(as) == {as.pte[v] : v \in Mapped(as)}
Size(as) == Cardinality(Mapped(as)) + Cardinality({t \in Slot : as.tab[t] # 0})
              + (IF as.dir # 0 THEN 1 ELSE 0)

\* kalloc(): the page at the head of the free list, 0 when it is empty.
kalloc(f) == IF f = {} THEN 0 ELSE CHOOSE x \in f : \A y \in f : x <= y

\* setupkvm(): a directory with the kernel's tables.  When a table cannot be
\* allocated the directory's page is not given back.
setupkvm(f) ==
    LET d == kalloc(f)
        t == kalloc(f \ {d})
    IN  [free |-> f \ {d, t}, starved |-> d # 0 /\ t = 0,
         as |-> IF t = 0 THEN NoSpace
                ELSE [NoSpace EXCEPT !.dir = d, !.tab[NT] = t]]

\* Variant: the table walkpgdir() returns is used without a look at it.
mappages_unchecked(f, as, v, mem, u) ==
    LET t == IF as.tab[PDX(v)] # 0 THEN as.tab[PDX(v)] ELSE kalloc(f)
    IN  [free |-> f \ {t}, ok |-> TRUE, remap |-> as.pte[v] # 0,
         as |-> [as EXCEPT !.tab[PDX(v)] = t, !.pte[v] = mem,
                           !.user = IF u THEN @ \cup {v} ELSE @ \ {v}]]

\* mappages() for one page of user memory, walkpgdir() allocating its table.
mappages(f, as, v, mem, u) ==
    LET t   == IF as.tab[PDX(v)] # 0 THEN as.tab[PDX(v)] ELSE kalloc(f)
        tas == [as EXCEPT !.tab[PDX(v)] = t]
    IN  [free |-> f \ {t}, ok |-> t # 0, remap |-> t # 0 /\ as.pte[v] # 0,
         as |-> IF t = 0 THEN as
                ELSE [tas EXCEPT !.pte[v] = mem,
                                 !.user = IF u THEN @ \cup {v} ELSE @ \ {v}]]

\* The virtual pages deallocuvm() looks at: a missing table makes it skip
\* NPTENTRIES pages from where it is.
Visited(as, lo, hi) ==
    LET V[v \in 0..(NV + NPTENTRIES)] ==
            IF v >= hi THEN {}
            ELSE IF as.tab[PDX(v)] = 0 THEN V[v + NPTENTRIES]
            ELSE {v} \cup V[v + 1]
    IN  V[lo]

\* Variant: the page that newsz falls into is freed too.
deallocuvm_down(f, as, oldsz, newsz) ==
    LET gone == IF newsz >= oldsz THEN {}
                ELSE Visited(as, newsz \div PGSIZE, PGROUNDUP(oldsz)) \cap Mapped(as)
    IN  [free |-> f \cup {as.pte[v] : v \in gone},
         as |-> [as EXCEPT !.pte = [v \in VPage |-> IF v \in gone THEN 0 ELSE @[v]],
                           !.user = @ \ gone]]

\* Variant: the entries keep pointing at the freed pages.
deallocuvm_stale(f, as, oldsz, newsz) ==
    LET gone == IF newsz >= oldsz THEN {}
                ELSE Visited(as, PGROUNDUP(newsz), PGROUNDUP(oldsz)) \cap Mapped(as)
    IN  [free |-> f \cup {as.pte[v] : v \in gone}, as |-> as]

\* deallocuvm(): from oldsz down to newsz; the tables stay.
deallocuvm(f, as, oldsz, newsz) ==
    LET gone == IF newsz >= oldsz THEN {}
                ELSE Visited(as, PGROUNDUP(newsz), PGROUNDUP(oldsz)) \cap Mapped(as)
    IN  [free |-> f \cup {as.pte[v] : v \in gone},
         as |-> [as EXCEPT !.pte = [v \in VPage |-> IF v \in gone THEN 0 ELSE @[v]],
                           !.user = @ \ gone]]

\* Variant: the tables are forgotten.
freevm_tables(f, as) ==
    deallocuvm(f, as, KERNBASE, 0).free \cup {as.dir}

\* freevm(): the user pages, every table, the directory.
freevm(f, as) ==
    LET d == deallocuvm(f, as, KERNBASE, 0) IN d.free \cup Tables(d.as)

-----------------------------------------------------------------------------
\* A process between two system calls; ret is what the last one returned.
NoCall == [pc |-> "user", as |-> NoSpace, sz |-> 0, a |-> 0, goal |-> 0,
           segs |-> <<>>, child |-> None, ret |-> 0, was |-> <<>>]

Unused == [state |-> "UNUSED", parent |-> None, kstack |-> 0, sz |-> 0,
           as |-> NoSpace]

\* kinit1(), kinit2() put every page on the free list; userinit() builds the
\* first process: a kernel stack, the kernel's mappings and one page of code.
MemoryInit ==
    LET k == setupkvm(Page \ {1})
        m == kalloc(k.free)
        u == mappages(k.free \ {m}, k.as, 0, m, TRUE)
    IN  /\ npage \in Memory
        /\ free = u.free
        /\ image = [p \in Process |->
              IF p = initproc
              THEN [Unused EXCEPT !.state = "RUNNING", !.kstack = 1,
                                  !.sz = PGSIZE, !.as = u.as]
              ELSE Unused]
        /\ L = [p \in Process |-> NoCall]
        /\ vmPanic = FALSE
        /\ starved = FALSE
        /\ execs = 0

\* What a process sees of its memory, remembered when a call starts.
View(p) == <<image[p].sz, Mapped(image[p].as), image[p].as.user>>

InUser(p) == ~vmPanic /\ image[p].state = "RUNNING" /\ L[p].pc = "user"
Inside(p, pc) == ~vmPanic /\ L[p].pc = pc

Ret(p, r, was) == L' = [L EXCEPT ![p] =
    IF r = 0 THEN NoCall ELSE [NoCall EXCEPT !.ret = r, !.was = was]]
Return(p, r) == Ret(p, r, L[p].was)
ReturnNow(p, r) == Ret(p, r, View(p))

-----------------------------------------------------------------------------
\* The body of allocuvm()'s loop on address space as: the page at a is
\* allocated and mapped; whether mappages() succeeded is not looked at.
AllocOne(as, a) ==
    LET mem == kalloc(free)
        r   == mappages(free \ {mem}, as, a, mem, TRUE)
    IN  [free |-> r.free, as |-> r.as, starved |-> ~r.ok, remap |-> r.remap]

\* sys_sbrk() and growproc() asked to shrink.  deallocuvm() returns the new
\* size, and growproc() takes a size of 0 for a failure: it returns -1, and the
\* process keeps its old size without the memory (pc "doomed": the next
\* instruction of the program faults).
\* A size below 0 wraps around to a large one, which changes nothing.  init
\* only forks, execs and waits (init.c).
sbrk_shrink(p, n) ==
    LET newsz == image[p].sz + n
        d     == deallocuvm(free, image[p].as, image[p].sz, newsz)
    IN  /\ InUser(p) /\ p # initproc /\ n < 0
        /\ IF newsz < 0
           THEN /\ ReturnNow(p, 0)
                /\ UNCHANGED <<free, image>>
           ELSE /\ free' = d.free
                /\ IF newsz = 0
                   THEN /\ image' = [image EXCEPT ![p].as = d.as]
                        /\ L' = [L EXCEPT ![p] = [NoCall EXCEPT !.pc = "doomed",
                                       !.ret = -1, !.was = View(p)]]
                   ELSE /\ image' = [image EXCEPT ![p].as = d.as, ![p].sz = newsz]
                        /\ ReturnNow(p, 0)
        /\ UNCHANGED <<vmPanic, starved>>

\* growproc() asked to grow enters allocuvm(), which refuses KERNBASE.
sbrk_grow(p, n) ==
    LET newsz == image[p].sz + n
    IN  /\ InUser(p) /\ p # initproc /\ n >= 0
        /\ IF newsz >= KERNBASE
           THEN ReturnNow(p, -1)
           ELSE L' = [L EXCEPT ![p] = [NoCall EXCEPT !.pc = "grow",
                        !.a = PGROUNDUP(image[p].sz), !.goal = newsz,
                        !.was = View(p)]]
        /\ UNCHANGED <<free, image, vmPanic, starved>>

More(p) == L[p].a < PGROUNDUP(L[p].goal)

\* Variant: out of memory, the pages allocated so far are kept.
grow_keep(p) ==
    LET r == AllocOne(image[p].as, L[p].a)
    IN  /\ Inside(p, "grow")
        /\ \/ /\ More(p) /\ free # {}
              /\ free' = r.free
              /\ image' = [image EXCEPT ![p].as = r.as]
              /\ L' = [L EXCEPT ![p].a = @ + 1]
              /\ starved' = (starved \/ r.starved)
              /\ vmPanic' = r.remap
           \/ /\ More(p) /\ free = {}
              /\ Return(p, -1)
              /\ UNCHANGED <<free, image, vmPanic, starved>>
           \/ /\ ~More(p)
              /\ image' = [image EXCEPT ![p].sz = L[p].goal]
              /\ Return(p, 0)
              /\ UNCHANGED <<free, vmPanic, starved>>

\* allocuvm() for growproc(): one more page; out of memory, what was
\* allocated is given back and -1 returned; at the end sz is set.
grow(p) ==
    LET r == AllocOne(image[p].as, L[p].a)
        d == deallocuvm(free, image[p].as, L[p].goal, image[p].sz)
    IN  /\ Inside(p, "grow")
        /\ \/ /\ More(p) /\ free # {}
              /\ free' = r.free
              /\ image' = [image EXCEPT ![p].as = r.as]
              /\ L' = [L EXCEPT ![p].a = @ + 1]
              /\ starved' = (starved \/ r.starved)
              /\ vmPanic' = r.remap
           \/ /\ More(p) /\ free = {}
              /\ free' = d.free
              /\ image' = [image EXCEPT ![p].as = d.as]
              /\ Return(p, -1)
              /\ UNCHANGED <<vmPanic, starved>>
           \/ /\ ~More(p)
              /\ image' = [image EXCEPT ![p].sz = L[p].goal]
              /\ Return(p, 0)
              /\ UNCHANGED <<free, vmPanic, starved>>

-----------------------------------------------------------------------------
\* exec() up to setupkvm(): inside a transaction the file is found, locked
\* and its header read; a missing or malformed file fails.
exec(p, segs) ==
    LET k == setupkvm(free)
    IN  /\ InUser(p)
        /\ \/ ReturnNow(p, -1) /\ UNCHANGED <<free, starved, execs>>
           \/ /\ execs < MaxExec
              /\ execs' = execs + 1
              /\ free' = k.free
              /\ starved' = (starved \/ k.starved)
              /\ IF k.as.dir = 0 THEN ReturnNow(p, -1)
                 ELSE L' = [L EXCEPT ![p] = [NoCall EXCEPT !.pc = "segment",
                              !.as = k.as, !.segs = segs, !.goal = Head(segs),
                              !.was = View(p)]]
        /\ UNCHANGED <<image, vmPanic>>

\* exec()'s label bad: the new address space is freed (and the file released
\* and the transaction closed, if they still are open).
Bad(p) ==
    /\ free' = freevm(free, L[p].as)
    /\ Return(p, -1)
    /\ UNCHANGED <<image, vmPanic, starved>>

\* allocuvm() for a segment or for the stack: one more page, or out of memory.
exec_alloc(p) ==
    LET r == AllocOne(L[p].as, L[p].a)
    IN  /\ Inside(p, "segment") \/ Inside(p, "stack")
        /\ \/ /\ More(p) /\ free # {} /\ L[p].goal < KERNBASE
              /\ free' = r.free
              /\ L' = [L EXCEPT ![p].as = r.as, ![p].a = @ + 1]
              /\ starved' = (starved \/ r.starved)
              /\ vmPanic' = r.remap
              /\ UNCHANGED image
           \/ /\ (More(p) /\ free = {}) \/ L[p].goal >= KERNBASE
              /\ Bad(p)

\* The segment is mapped: loaduvm() reads it from the file, or the file is too
\* short.  allocuvm() returns the larger of the old and the new size.
exec_load(p) ==
    LET sz   == IF L[p].goal > L[p].sz THEN L[p].goal ELSE L[p].sz
        rest == Tail(L[p].segs)
        top  == PGROUNDUP(sz)
    IN  /\ Inside(p, "segment") /\ ~More(p) /\ L[p].goal < KERNBASE
        /\ \/ Bad(p)
           \/ /\ L' = [L EXCEPT ![p] =
                    IF rest # <<>>
                    THEN [@ EXCEPT !.sz = sz, !.segs = rest, !.a = top,
                                   !.goal = Head(rest)]
                    ELSE [@ EXCEPT !.sz = top * PGSIZE, !.segs = rest, !.a = top,
                                   !.goal = (top + 2) * PGSIZE, !.pc = "stack"]]
              /\ UNCHANGED <<free, image, vmPanic, starved>>

\* copyout(): every page from va on is present and has PTE_U (uva2ka()).
copyout(as, va, n) ==
    va >= 0 /\ \A b \in va..(va + n - 1) :
                  b \div PGSIZE \in Mapped(as) \cap as.user

\* The stack is mapped: clearpteu() closes the page below it, the arguments
\* are copied out, and the new image replaces the old one, which is freed.
\* clearpteu() and uva2ka() need the tables of the two pages.
exec_commit(p, n) ==
    LET guard == L[p].a - 2
        as    == [L[p].as EXCEPT !.user = @ \ {guard}]
    IN  /\ Inside(p, "stack") /\ ~More(p)
        /\ IF as.tab[PDX(guard)] = 0 \/ as.tab[PDX(guard + 1)] = 0
           THEN vmPanic' = TRUE /\ UNCHANGED <<free, image, L, starved>>
           ELSE IF copyout(as, L[p].goal - n, n)
           THEN /\ image' = [image EXCEPT ![p].as = as, ![p].sz = L[p].goal]
                /\ free' = freevm(free, image[p].as)
                /\ Return(p, 0)
                /\ UNCHANGED <<vmPanic, starved>>
           ELSE Bad(p)

-----------------------------------------------------------------------------
\* fork(): allocproc() takes a slot and a kernel stack, copyuvm() begins with
\* setupkvm(); what fails is undone.
fork(p, q) ==
    LET ks == kalloc(free)
        k  == setupkvm(free \ {ks})
    IN  /\ InUser(p) /\ image[q].state = "UNUSED"
        /\ starved' = (starved \/ k.starved)
        /\ IF k.as.dir = 0
           THEN /\ free' = k.free \cup ({ks} \ {0})
                /\ ReturnNow(p, -1)
                /\ UNCHANGED image
           ELSE /\ free' = k.free
                /\ image' = [image EXCEPT ![q].state = "EMBRYO", ![q].kstack = ks]
                /\ L' = [L EXCEPT ![p] = [NoCall EXCEPT !.pc = "copy",
                           !.as = k.as, !.child = q, !.was = View(p)]]
        /\ UNCHANGED vmPanic

\* Variant: the loop runs to i <= sz.
Copies_far(p) == L[p].a * PGSIZE <= image[p].sz

\* copyuvm()'s loop has a page left to copy.
Copies(p) == L[p].a * PGSIZE < image[p].sz

\* copyuvm() for one page: the parent's page must be there; a page is
\* allocated for the child and mapped with the parent's flags.
copyuvm(p) ==
    LET v    == L[p].a
        q    == L[p].child
        mem  == kalloc(free)
        r    == mappages(free \ {mem}, L[p].as, v, mem, v \in image[p].as.user)
    IN  /\ Inside(p, "copy") /\ Copies(p)
        /\ IF v \notin Mapped(image[p].as)
           THEN vmPanic' = TRUE /\ UNCHANGED <<free, image, L, starved>>
           ELSE IF mem # 0 /\ r.ok
           THEN /\ free' = r.free
                /\ L' = [L EXCEPT ![p].as = r.as, ![p].a = v + 1]
                /\ UNCHANGED <<image, vmPanic, starved>>
           ELSE /\ free' = freevm(free \ {mem}, L[p].as) \cup {image[q].kstack}
                /\ image' = [image EXCEPT ![q] = Unused]
                /\ Return(p, -1)
                /\ starved' = (starved \/ mem # 0)
                /\ UNCHANGED vmPanic

\* fork() gives the child the copied address space and the parent's size.
fork_done(p) ==
    /\ Inside(p, "copy") /\ ~Copies(p)
    /\ image' = [image EXCEPT ![L[p].child] =
          [@ EXCEPT !.state = "RUNNING", !.parent = p, !.sz = image[p].sz,
                    !.as = L[p].as]]
    /\ Return(p, 0)
    /\ UNCHANGED <<free, vmPanic, starved>>

\* exit(), called or forced by a fault: children go to init, the memory stays
\* until the parent waits.
exit(p) ==
    /\ p # initproc
    /\ InUser(p) \/ Inside(p, "doomed")
    /\ image' = [q \in Process |->
          IF q = p THEN [image[q] EXCEPT !.state = "ZOMBIE"]
          ELSE IF image[q].parent = p THEN [image[q] EXCEPT !.parent = initproc]
          ELSE image[q]]
    /\ L' = [L EXCEPT ![p] = NoCall]
    /\ UNCHANGED <<free, vmPanic, starved>>

\* wait(): the zombie's kernel stack and address space are freed.
wait(p, q) ==
    /\ InUser(p)
    /\ image[q].state = "ZOMBIE" /\ image[q].parent = p
    /\ free' = freevm(free \cup {image[q].kstack}, image[q].as)
    /\ image' = [image EXCEPT ![q] = Unused]
    /\ ReturnNow(p, 0)
    /\ UNCHANGED <<vmPanic, starved>>

\* panic() stops the machine.
halted == vmPanic /\ UNCHANGED memoryVars

MemoryNext ==
    \/ halted
    \/ UNCHANGED npage /\ \E p \in Process, s \in Programs : exec(p, s)
    \/ /\ UNCHANGED <<npage, execs>>
       /\ \E p \in Process :
           \/ \E n \in Deltas : (sbrk_shrink(p, n) \/ sbrk_grow(p, n))
           \/ grow(p)
           \/ exec_alloc(p) \/ exec_load(p)
           \/ \E n \in ArgSizes : exec_commit(p, n)
           \/ \E q \in Process : (fork(p, q) \/ wait(p, q))
           \/ copyuvm(p) \/ fork_done(p) \/ exit(p)

MemorySpec == MemoryInit /\ [][MemoryNext]_memoryVars

-----------------------------------------------------------------------------
Space == [dir : 0..npage, tab : [Slot -> 0..npage], pte : [VPage -> 0..npage],
          user : SUBSET VPage]

Spaces == [p \in Process |-> image[p].as]
New == [p \in Process |-> L[p].as]

\* The state has its type; an entry is present only under a table that is.
MemoryTypeOK ==
    /\ free \subseteq Page
    /\ \A p \in Process :
        /\ image[p].state \in {"UNUSED", "EMBRYO", "RUNNING", "ZOMBIE"}
        /\ image[p].kstack \in 0..npage
        /\ image[p].sz \in 0..KERNBASE
        /\ \A as \in {image[p].as, L[p].as} :
              /\ as \in Space
              /\ as.user \subseteq Mapped(as)
              /\ \A v \in Mapped(as) : as.tab[PDX(v)] # 0
        /\ L[p].pc \in {"user", "doomed", "grow", "segment", "stack", "copy"}
    /\ {vmPanic, starved} \subseteq BOOLEAN

PagesOf(p) == Tables(Spaces[p]) \cup Frames(Spaces[p])
             \cup Tables(New[p]) \cup Frames(New[p])
             \cup ({image[p].kstack} \ {0})

PageCount(p) == Size(Spaces[p]) + Size(New[p])
                  + (IF image[p].kstack # 0 THEN 1 ELSE 0)

\* A physical page has one use: it is free, or a kernel stack, or a directory,
\* or a table, or mapped at one address of one process (kfree() takes any page
\* it is given, so a page freed twice would be allocated twice).
OneOwner ==
    /\ \A p \in Process : PagesOf(p) \cap free = {}
    /\ \A p, q \in Process : p # q => PagesOf(p) \cap PagesOf(q) = {}
    /\ \A p \in Process : Cardinality(PagesOf(p)) = PageCount(p)

\* Whatever calls failed for want of memory, in whatever order, every page is
\* free or in use, unless it was a page-table page that could not be had
\* (setupkvm(), allocuvm() and copyuvm() then lose a page).
NothingLost ==
    ~starved => free \cup UNION {PagesOf(p) : p \in Process} = Page

\* Between two system calls a process has the pages below its size and no
\* others: what fork() copies, and what exit() leaves for wait() to free (pc
\* "user": a process that shrank itself to nothing can only fault).
SizeIsMapped ==
    \A p \in Process :
        (~starved /\ image[p].state = "RUNNING" /\ L[p].pc = "user")
            => Mapped(image[p].as) = 0..(PGROUNDUP(image[p].sz) - 1)

\* The kernel's own checks (remap, copyuvm, clearpteu) are only reached after
\* a page-table page could not be had.
NoMemoryPanic == vmPanic => starved

\* Every physical page is free or in one place, and the kernel's checks hold.
EveryPageOnce == MemoryTypeOK /\ OneOwner /\ NothingLost /\ NoMemoryPanic

\* A system call that returns -1 has left the process as it was: its size, the
\* pages it has and those its program may touch (growproc(), exec(), fork()).
\* The one exception is an sbrk() by minus the whole size, which returns -1 after
\* deallocuvm() has freed every page: growproc() takes the size 0 for a failure.
FailureUndone ==
    \A p \in Process : ~starved /\ L[p].ret = -1 =>
        \/ L[p].was = View(p)
        \/ L[p].pc = "doomed" /\ Mapped(image[p].as) = {}

=============================================================================
