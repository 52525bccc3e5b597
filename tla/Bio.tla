--------------------------------- MODULE Bio ---------------------------------
(***************************************************************************)
(* The buffer cache (bio.c) on top of the IDE driver (ide.c).  Processes   *)
(* read a block, change it and release it again; bcache.lock and idelock   *)
(* make bget(), brelse(), iderw() and ideintr() critical sections from one *)
(* sleep() to the next, and each of these sections is one step here.  Both *)
(* layers sleep on the buffer itself, so that every wakeup reaches the     *)
(* sleepers of both.                                                       *)
(*                                                                         *)
(* A process may hold several buffers: install_trans() and write_log()     *)
(* read a second block while they hold the log's, bmap() and itrunc()      *)
(* while they hold the block of addresses.  It has a hand for each, and    *)
(* uses one hand at a time.                                                *)
(***************************************************************************)
EXTENDS Naturals, Sequences, FiniteSets, Functions

CONSTANTS
    Proc,      \* the processes that use the disk
    Hand,      \* the hands of all of them
    Of,        \* whose hand it is
    Buf,       \* bcache.buf
    Block,     \* the block numbers they ask for
    NoBlock,   \* no block: dev = -1, and an idle disk
    NoBuf,     \* no buffer
    Asks,      \* bound: the blocks that each hand asks for
    Nests,     \* bound: <<a, b>> if a process that holds block a asks for block b
    Written,   \* bound: the blocks whose contents change
    Data,      \* contents of a block
    Image,     \* what the disk holds at first
    MaxDirty,  \* bound: blocks the log may keep pinned in the cache
    MaxFaults  \* bound: failed reads and interrupts without a reason

ASSUME BioConstants ==
    /\ NoBlock \notin Block /\ NoBuf \notin Buf /\ Written \subseteq Block
    /\ Image \in [Block -> Data] /\ Data # {}
    /\ Of \in [Hand -> Proc] /\ Asks \in [Hand -> SUBSET Block]
    /\ MaxDirty \in Nat /\ MaxFaults \in Nat
    /\ IsFiniteSet(Buf) /\ IsFiniteSet(Hand)

VARIABLES
    lru,       \* bcache.head: the buffers, most recently used first
    blockno,   \* buf.blockno
    busy,      \* B_BUSY
    valid,     \* B_VALID
    dirty,     \* B_DIRTY
    data,      \* buf.data
    idequeue,  \* the buffers with a request, the active one first
    device,    \* the request that the disk works on
    irq,       \* the disk has raised its interrupt
    disk,      \* the blocks on the disk
    faults,    \* faults of the disk so far
    misread,   \* the blocks that it has failed to read
    pc,        \* where the process is with this hand
    want,      \* the block it asked for
    buf,       \* the buffer it has or sleeps on
    panic      \* what the kernel has panicked with, "none" while it runs

flags == <<busy, valid, dirty>>
cache == <<lru, blockno, flags, data>>
hardware == <<device, irq, disk, faults, misread>>
vars == <<cache, idequeue, hardware, pc, want, buf, panic>>

Idle == [blk |-> NoBlock, write |-> FALSE, data |-> CHOOSE d \in Data : TRUE,
         done |-> TRUE]

\* binit() and ideinit().
Init ==
    /\ lru = CHOOSE s \in Injection(1..Cardinality(Buf), Buf) : TRUE
    /\ blockno = [b \in Buf |-> NoBlock]
    /\ busy = [b \in Buf |-> FALSE]
    /\ valid = busy /\ dirty = busy
    /\ data = [b \in Buf |-> Idle.data]
    /\ idequeue = <<>>
    /\ device = Idle /\ irq = FALSE /\ faults = 0 /\ misread = {}
    /\ disk = Image
    /\ pc = [h \in Hand |-> "idle"]
    /\ want = [h \in Hand |-> NoBlock]
    /\ buf = [h \in Hand |-> NoBuf]
    /\ panic = "none"

\* The other hands of the process are empty, or hold a buffer: it does one thing
\* at a time.
At(h, l) ==
    /\ pc[h] = l /\ panic = "none"
    /\ \A g \in Hand \ {h} : Of[g] = Of[h] => pc[g] \in {"idle", "has"}

Goto(h, l) == pc' = [pc EXCEPT ![h] = l]

\* wakeup(b): bget() looks for its block again, iderw() at the flags.
Wakeup(b) ==
    [h \in Hand |->
        IF buf[h] # b THEN pc[h]
        ELSE IF pc[h] = "bsleep" THEN "bget"
        ELSE IF pc[h] = "iosleep" THEN "iowait"
        ELSE pc[h]]

-----------------------------------------------------------------------------
(* The buffer cache. *)

Cached(blk) == {b \in Buf : blockno[b] = blk}

\* Variant: a buffer with changes that the log has not committed is recycled.
Recyclable_dirty == {i \in DOMAIN lru : ~busy[lru[i]]}

\* The places in the list of buffers that are not in use.
Recyclable == {i \in DOMAIN lru : ~busy[lru[i]] /\ ~dirty[lru[i]]}

\* Variant: the flag is not looked at.
Got_reread(h, b, isvalid) ==
    /\ buf' = [buf EXCEPT ![h] = b]
    /\ Goto(h, "iderw")

\* bread() goes to the disk for a buffer that is not valid.
Got(h, b, isvalid) ==
    /\ buf' = [buf EXCEPT ![h] = b]
    /\ Goto(h, IF isvalid THEN "has" ELSE "iderw")

bget(h, blk) ==
    /\ \/ \E b \in Cached(blk) :
            IF busy[b]
            THEN /\ buf' = [buf EXCEPT ![h] = b]
                 /\ Goto(h, "bsleep")
                 /\ UNCHANGED <<cache, panic>>
            ELSE /\ busy' = [busy EXCEPT ![b] = TRUE]
                 /\ Got(h, b, valid[b])
                 /\ UNCHANGED <<lru, blockno, valid, dirty, data, panic>>
       \/ /\ Cached(blk) = {}
          /\ \E i \in Recyclable :
                /\ \A j \in Recyclable : j <= i
                /\ blockno' = [blockno EXCEPT ![lru[i]] = blk]
                /\ busy' = [busy EXCEPT ![lru[i]] = TRUE]
                /\ valid' = [valid EXCEPT ![lru[i]] = FALSE]
                /\ dirty' = [dirty EXCEPT ![lru[i]] = FALSE]
                /\ Got(h, lru[i], FALSE)
          /\ UNCHANGED <<lru, data, panic>>
       \/ /\ Cached(blk) = {} /\ Recyclable = {}
          /\ panic' = "bget: no buffers"
          /\ UNCHANGED <<cache, pc, buf>>
    /\ UNCHANGED <<idequeue, hardware>>

bread(h, blk) ==
    /\ At(h, "idle") /\ blk \in Asks[h]
    /\ \A g \in Hand : Of[g] = Of[h] /\ pc[g] = "has" => <<want[g], blk>> \in Nests
    /\ want' = [want EXCEPT ![h] = blk]
    /\ bget(h, blk)

\* After a wakeup bget() starts again from the head of the list.
bgetloop(h) ==
    /\ At(h, "bget")
    /\ bget(h, want[h])
    /\ UNCHANGED want

\* The holder changes the block and writes it to the disk.
bwrite(h, d) ==
    /\ At(h, "has") /\ want[h] \in Written
    /\ data' = [data EXCEPT ![buf[h]] = d]
    /\ IF ~busy[buf[h]]
       THEN panic' = "bwrite" /\ UNCHANGED <<dirty, pc>>
       ELSE /\ dirty' = [dirty EXCEPT ![buf[h]] = TRUE]
            /\ Goto(h, "iderw")
            /\ UNCHANGED panic
    /\ UNCHANGED <<lru, blockno, busy, valid, idequeue, hardware, want, buf>>

\* The holder changes the block and leaves the write to the log, which lets no
\* more blocks be pinned than it has room for.
log_write(h, d) ==
    /\ At(h, "has") /\ want[h] \in Written
    /\ Cardinality({b \in Buf : dirty[b]} \cup {buf[h]}) <= MaxDirty
    /\ data' = [data EXCEPT ![buf[h]] = d]
    /\ dirty' = [dirty EXCEPT ![buf[h]] = TRUE]
    /\ UNCHANGED <<lru, blockno, busy, valid, idequeue, hardware, pc, want,
                   buf, panic>>

\* The buffer is taken out of the list and put in front.
MoveToFront(b) ==
    \E i \in DOMAIN lru :
        /\ lru[i] = b
        /\ lru' = <<b>> \o (SubSeq(lru, 1, i - 1) \o SubSeq(lru, i + 1, Len(lru)))

\* Variant: brelse() wakes nobody.
brelse_silent(h) ==
    /\ At(h, "has")
    /\ MoveToFront(buf[h])
    /\ busy' = [busy EXCEPT ![buf[h]] = FALSE]
    /\ Goto(h, "idle")
    /\ want' = [want EXCEPT ![h] = NoBlock]
    /\ buf' = [buf EXCEPT ![h] = NoBuf]
    /\ UNCHANGED <<blockno, valid, dirty, data, idequeue, hardware, panic>>

brelse(h) ==
    /\ At(h, "has")
    /\ IF ~busy[buf[h]]
       THEN panic' = "brelse" /\ UNCHANGED <<lru, busy, pc, want, buf>>
       ELSE /\ MoveToFront(buf[h])
            /\ busy' = [busy EXCEPT ![buf[h]] = FALSE]
            /\ pc' = [Wakeup(buf[h]) EXCEPT ![h] = "idle"]
            /\ want' = [want EXCEPT ![h] = NoBlock]
            /\ buf' = [buf EXCEPT ![h] = NoBuf]
            /\ UNCHANGED panic
    /\ UNCHANGED <<blockno, valid, dirty, data, idequeue, hardware>>

-----------------------------------------------------------------------------
(* The driver. *)

\* idewait(): the disk has carried out the request it was given last.
Ready == device.done

\* idestart() waits for the disk before it hands it the next request.  The disk
\* has the blocks that processes ask for.
idestart(b) ==
    IF blockno[b] \notin Block
    THEN panic' = "incorrect blockno" /\ UNCHANGED device
    ELSE /\ Ready
         /\ device' = [blk |-> blockno[b], write |-> dirty[b],
                       data |-> IF dirty[b] THEN data[b] ELSE Idle.data,
                       done |-> FALSE]
         /\ UNCHANGED panic

\* The disk is there: ideinit() has found it.
iderw(h) ==
    /\ At(h, "iderw")
    /\ IF ~busy[buf[h]] \/ (valid[buf[h]] /\ ~dirty[buf[h]])
       THEN /\ panic' = IF ~busy[buf[h]] THEN "iderw: buf not busy"
                        ELSE "iderw: nothing to do"
            /\ UNCHANGED <<idequeue, device, pc>>
       ELSE /\ idequeue' = Append(idequeue, buf[h])
            /\ IF idequeue = <<>> THEN idestart(buf[h]) ELSE UNCHANGED <<device, panic>>
            /\ Goto(h, "iosleep")
    /\ UNCHANGED <<cache, irq, disk, faults, misread, want, buf>>

\* The loop of iderw() after a wakeup.
iowait(h) ==
    /\ At(h, "iowait")
    /\ Goto(h, IF valid[buf[h]] /\ ~dirty[buf[h]] THEN "has" ELSE "iosleep")
    /\ UNCHANGED <<cache, idequeue, hardware, want, buf, panic>>

\* The disk carries out its request and raises the interrupt.
DiskDone ==
    /\ ~device.done /\ panic = "none"
    /\ irq' = TRUE
    /\ IF device.write
       THEN /\ disk' = [disk EXCEPT ![device.blk] = device.data]
            /\ device' = [device EXCEPT !.done = TRUE, !.data = Idle.data]
       ELSE /\ device' = [device EXCEPT !.done = TRUE,
                                        !.data = disk[device.blk]]
            /\ UNCHANGED disk
    /\ UNCHANGED <<cache, idequeue, faults, misread, pc, want, buf, panic>>

\* An interrupt that the disk had no reason for.
Spurious ==
    /\ device = Idle /\ ~irq /\ panic = "none" /\ faults < MaxFaults
    /\ irq' = TRUE
    /\ faults' = faults + 1
    /\ UNCHANGED <<cache, idequeue, device, disk, misread, pc, want, buf, panic>>

\* A read waits for the disk.  One that fails leaves in the buffer what was there.
insl(b) ==
    \/ /\ dirty[b]
       /\ UNCHANGED <<data, faults, misread>>
    \/ /\ ~dirty[b] /\ Ready
       /\ data' = [data EXCEPT ![b] = device.data]
       /\ UNCHANGED <<faults, misread>>
    \/ /\ ~dirty[b] /\ Ready /\ faults < MaxFaults
       /\ faults' = faults + 1
       /\ misread' = misread \cup {blockno[b]}
       /\ UNCHANGED data

\* Variant: the next request is not started.
StartNext_never == device' = Idle /\ UNCHANGED panic

StartNext ==
    IF idequeue' # <<>> THEN idestart(Head(idequeue'))
    ELSE device' = (IF Ready THEN Idle ELSE device) /\ UNCHANGED panic

ideintr ==
    /\ irq /\ panic = "none"
    /\ irq' = FALSE
    /\ \/ /\ idequeue = <<>>
          /\ device' = IF Ready THEN Idle ELSE device
          /\ UNCHANGED <<cache, idequeue, faults, misread, pc, panic>>
       \/ /\ idequeue # <<>>
          /\ LET b == Head(idequeue)
             IN /\ idequeue' = Tail(idequeue)
                /\ insl(b)
                /\ valid' = [valid EXCEPT ![b] = TRUE]
                /\ dirty' = [dirty EXCEPT ![b] = FALSE]
                /\ pc' = Wakeup(b)
          /\ StartNext
          /\ UNCHANGED <<lru, blockno, busy>>
    /\ UNCHANGED <<disk, want, buf>>

-----------------------------------------------------------------------------
Inside(h) == bgetloop(h) \/ iderw(h) \/ iowait(h) \/ brelse(h)

\* panic() has stopped the machine.
halted == panic # "none" /\ UNCHANGED vars

Next ==
    \/ \E h \in Hand :
        \/ \E blk \in Block : bread(h, blk)
        \/ \E d \in Data : bwrite(h, d) \/ log_write(h, d)
        \/ Inside(h)
    \/ DiskDone \/ Spurious \/ ideintr \/ halted

Spec == Init /\ [][Next]_vars

-----------------------------------------------------------------------------
(* Properties. *)

Place == {"idle", "bget", "bsleep", "iderw", "iosleep", "iowait", "has"}

Panics ==
    {"bget: no buffers", "bwrite", "brelse", "iderw: buf not busy",
     "iderw: nothing to do", "incorrect blockno"}

TypeOK ==
    /\ lru \in Seq(Buf) /\ IsInjective(lru) /\ Range(lru) = Buf
    /\ blockno \in [Buf -> Block \cup {NoBlock}]
    /\ busy \in [Buf -> BOOLEAN] /\ valid \in [Buf -> BOOLEAN]
    /\ dirty \in [Buf -> BOOLEAN] /\ data \in [Buf -> Data]
    /\ idequeue \in Seq(Buf)
    /\ device \in [blk : Block \cup {NoBlock}, write : BOOLEAN, data : Data,
                   done : BOOLEAN]
    /\ irq \in BOOLEAN /\ disk \in [Block -> Data] /\ faults \in 0..MaxFaults
    /\ misread \subseteq Block
    /\ pc \in [Hand -> Place]
    /\ want \in [Hand -> Block \cup {NoBlock}] /\ buf \in [Hand -> Buf \cup {NoBuf}]
    /\ panic \in Panics \cup {"none"}

\* What a block holds for whoever reads it next: the cached copy, if there is
\* one that has been read, or else what the disk has or is about to have.
Content ==
    [blk \in Block \ misread |->
        LET copies == {b \in Cached(blk) : valid[b] \/ dirty[b]}
        IN IF copies # {} THEN data[CHOOSE b \in copies : TRUE]
           ELSE IF device.write /\ ~device.done /\ device.blk = blk
           THEN device.data
           ELSE disk[blk]]

Holding == {"has", "iderw", "iosleep", "iowait"}

Holder == [blk \in Block |-> {h \in Hand : want[h] = blk /\ pc[h] \in Holding}]

Store == INSTANCE BlockStore WITH content <- Content, holder <- Holder

\* The cache and the disk together behave like one store of blocks: bread()
\* gives a block to one process at a time and hands it what the last holder
\* left, also when the buffer was recycled in between, when the change is only
\* in the cache so far, and when bget() slept on a buffer that meanwhile became
\* another block's.
IsBlockStore == Store!Spec

\* The disk is never asked twice for a buffer; the first request has been
\* handed to it and is being carried out or about to be answered, so that no
\* request waits for an interrupt that never comes; and the owner of each waits
\* for it.  Interrupts that come without a reason change nothing of this.
QueueServed ==
    /\ TypeOK
    /\ IsInjective(idequeue)
    /\ idequeue # <<>> => /\ device.blk = blockno[Head(idequeue)]
                          /\ ~device.done \/ irq
    /\ \A b \in Range(idequeue) :
        Cardinality({h \in Hand : buf[h] = b /\ pc[h] \in {"iosleep", "iowait"}}) = 1

\* The hands that hold a buffer or ask for one.
InUse == {h \in Hand : want[h] # NoBlock}

\* bget() may find no buffer: NBUF is as large as LOGSIZE, and the log may pin all
\* buffers but one.  It takes more pinned blocks and buffers in use than there
\* are buffers, and no other panic on a buffer happens in bio.c and ide.c: a
\* process writes and releases only what it has, asks the disk for nothing twice,
\* and a buffer in the queue has a block number.
NoPanic ==
    /\ panic \in {"none", "bget: no buffers"}
    /\ panic # "none" => Cardinality(Buf) < MaxDirty + Cardinality(InUse)

-----------------------------------------------------------------------------
(* What the proofs need beyond the properties. *)

\* bget(): a block has one buffer, and a busy buffer one process.
Owners ==
    /\ \A b, c \in Buf : blockno[b] = blockno[c] /\ blockno[b] # NoBlock => b = c
    /\ \A b \in Buf : busy[b] => \E h \in Hand : pc[h] \in Holding /\ buf[h] = b
    /\ \A h, g \in Hand :
          pc[h] \in Holding /\ pc[g] \in Holding /\ buf[h] = buf[g] => h = g
    /\ \A h \in Hand :
          /\ pc[h] # "idle" => want[h] \in Block
          /\ pc[h] \in Holding =>
                buf[h] \in Buf /\ busy[buf[h]] /\ blockno[buf[h]] = want[h]

\* iderw(): the queue holds the buffers whose owners sleep for the disk.  The
\* flags of a buffer tell what its owner may do with it.
Requests ==
    /\ IsInjective(idequeue)
    /\ \A b \in Buf :
          /\ b \in Range(idequeue) <=> \E h \in Hand : pc[h] = "iosleep" /\ buf[h] = b
          /\ dirty[b] => valid[b]
    /\ \A h \in Hand :
          /\ pc[h] = "has" => valid[buf[h]]
          /\ pc[h] \in {"iderw", "iosleep"} => (valid[buf[h]] => dirty[buf[h]])
          /\ pc[h] = "iowait" => valid[buf[h]] /\ ~dirty[buf[h]]

\* What the disk holds of a block, or is about to hold.
Below(blk) ==
    IF device.write /\ ~device.done /\ device.blk = blk THEN device.data ELSE disk[blk]

\* The device works on the request at the head of the queue, on the write that
\* an interrupt without a reason has cut short, or on nothing.
Driver ==
    /\ ~device.done => device.blk \in Block
    /\ idequeue # <<>> =>
          LET b == Head(idequeue)
          IN  /\ device.blk = blockno[b]
              /\ device.write <=> dirty[b]
              /\ ~device.done \/ irq
              /\ dirty[b] => Below(blockno[b]) = data[b]
              /\ ~dirty[b] /\ device.done => device.data = disk[blockno[b]]

\* A buffer without changes has what is below it.
Clean ==
    \A b \in Buf :
        valid[b] /\ ~dirty[b] /\ blockno[b] \in Block \ misread
            => data[b] = Below(blockno[b])

\* The buffers with changes that are not on their way to the disk.
Pinned ==
    {b \in Buf : dirty[b] /\ \A h \in Hand : buf[h] = b => pc[h] \notin {"iderw", "iosleep"}}

\* The inductive invariant, and what it allows to show of the room in the cache.
BioInv == TypeOK /\ Owners /\ Requests /\ Driver /\ Clean

Room == Cardinality(Pinned) <= MaxDirty /\ NoPanic

-----------------------------------------------------------------------------
(* A process in the kernel gets on, and gives its buffer back some time; SF  *)
(* because iderw() spins for the disk with idelock held, which keeps others  *)
(* from getting it first.  The disk answers, and its interrupt is taken.     *)
Fairness ==
    /\ \A h \in Hand : SF_vars(Inside(h))
    /\ WF_vars(DiskDone) /\ WF_vars(ideintr)

FairSpec == Spec /\ Fairness

\* The block that a process holds while it waits for another one, which it may
\* find busy again and again: brelse() promises no turn to anybody.
HeldByWaiter(h) ==
    \E g, k \in Hand : /\ Of[g] = Of[k] /\ g # k
                       /\ pc[g] = "has" /\ buf[g] = buf[h]
                       /\ pc[k] \in {"bget", "bsleep"}

\* Every request to the disk is answered, and whoever waits for a buffer looks
\* for the block again some time, unless its holder waits for another one.
Answered ==
    \A h \in Hand :
        pc[h] \in {"bsleep", "iderw", "iosleep", "iowait"}
            ~> pc[h] \in {"bget", "has"} \/ HeldByWaiter(h) \/ panic # "none"

=============================================================================
