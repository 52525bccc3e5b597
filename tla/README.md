# A verification of the HW3 kernel and its programs

The repository holds three pieces of course work. `HW1/tail.c` is a user
program, `HW2` has a linked list and two assembly programs, and `HW3` is an xv6
kernel with changes: process times (`ctime`, `stime`, `retime`, `rutime`,
`ttime`), `wait_stat()`, `update_stat()` on every clock tick, and a scheduler
that sets out to be first-come-first-served. This directory models the kernel
and its programs in TLA+, checks the models with TLC on small instances and
proves theorems about them with TLAPS.

## The system and its parts

| part | source (HW3) | modules | |
|---|---|---|---|
| write-ahead log | log.c | Log, AtomicDisk, LogProofs | modelled, proved |
| process table, scheduling, time accounting | proc.c, trap.c | Proc, ProcProofs | all but procdump, proved |
| spin locks, interrupts, lock order | spinlock.c, trap.c | Locks | modelled |
| clock | sysproc.c, trap.c | Clock, DeviceProofs | modelled, proved |
| pipes | pipe.c | Pipe, Fifo, PipeProofs | modelled, proved |
| buffer cache and disk driver | bio.c, ide.c | Bio, BlockStore, BioProofs, StoreProofs | modelled, proved |
| inodes, directories, paths | fs.c | Fs | mostly |
| file table, file system calls | file.c, sysfile.c | Fs | mostly |
| memory, address spaces, exec | kalloc.c, vm.c, exec.c, proc.c | Vm | mostly |
| console, keyboard, screen | console.c, kbd.c, ulib.c | Console, Lines, Devices, ConsoleProofs, DeviceProofs | mostly, proved |
| user allocator | umalloc.c | Umalloc | modelled |
| shell | sh.c | Shell, ShellParser | modelled |
| mkfs, grep | mkfs.c, grep.c | Mkfs, Grep | modelled |
| tail, linked lists | HW1/tail.c, HW2/linkedList.c | TailText, Lists | modelled |
| boot, device programming, memory disk, strings, test programs | | | not modelled |

How they interact. A process enters the kernel by a trap, checks
`proc->killed`, runs a system call and checks again. It waits with
`sleep(chan, lk)` and is woken by `wakeup(chan)`, both under `ptable.lock`; the
clock interrupt takes the processor away anywhere no lock is held. A file system
call is bracketed by `begin_op()` and `end_op()`; the blocks it changes go
through the buffer cache to the log, and the last call to end commits for all.
The shell reads lines from the console, forks a tree of processes for each, and
joins them with pipes.

## The modules

**Log** is log.c on a disk that writes one block at a time. State: the disk
behind the log header (`disk`), the header on disk (`dhead`), the cached home
blocks (`cache`) and which are `B_DIRTY` (`dirty`), `log.lh`, `outstanding` and
`committing`, and for each process its place in a call (`pc`), the buffer it has
changed and not yet logged (`held`) and the number of blocks it may still add
(`budget`). `write_log`, `write_head`, `install_trans` and `clear_head` are one
disk write each, so `Crash`, which clears everything but the disk, falls between
any two of them. `log_write` is two actions, because the code tests `lh.n`
before it takes `log.lock`. **AtomicDisk** is the promise: contents `durable`
and `visible`; calls change `visible`; `Commit`, possible when no call is
active, makes it durable; a crash goes back to `durable`. `Log!Atomic` maps
`durable` to what recovery would make of the disk.

**Bio** is the layer below: `bget`, `bread`, `bwrite`, `brelse` and the driver's
`iderw` and `ideintr`. A critical section of `bcache.lock` or `idelock` is one
step. The buffers are a list in order of use, with the flags `busy`, `valid` and
`dirty`; `idequeue` holds the requests, `device` the one the disk works on. The
disk answers late (`DiskDone`, then `ideintr`), interrupts without a reason
(`Spurious`) and fails reads (in `insl`). A process may hold several buffers:
`install_trans()` and `write_log()` read a second block while they hold the log's,
`bmap()` and `itrunc()` one while they hold the block of addresses. It has a *hand*
for each (`Hand`, `Of`), uses one hand at a time (`At`), and asks for a second block
only in the pairs of `Nests`. Every panic on a buffer is there (`Panics`), and stops
the machine. **BlockStore** is the promise: a block has one holder, and holds what
the last holder left.

**Fs** is fs.c, file.c and sysfile.c. Functions of fs.c are operators on a
record `fs` (disk inodes, directories and bitmap; the inode cache with `ref`,
`busy` and `valid`), under their C names. A system call is a sequence of steps,
`L[p].pc` says which is next; a step ends wherever the code lets go of a lock on
which another process may act: between `iget()` and `ilock()`, at each element
of a path, and around the truncation in `iput()`. fork() and exit() share and
drop descriptors and the working directory. A call is one transaction and
`filewrite()` one per chunk; the properties are stated at the moments when the
log may commit (`Outside`). What a crash does to a transaction is Log's subject.
A panic (of `ilock`, `iput`, `iunlock`, `iget`, `bfree`, `balloc`, `ialloc`,
`dirlookup`, `create`, `unlink`) is recorded in `fs.panic` and stops the machine. The
inode cache has `NINODE` entries, and `dirlink()` of a name that is taken looks the
inode up and gives it up again with the directory locked.

**Proc** is the process table. What proc.c does under `ptable.lock` is one
action; between two of them anything may happen, since `yield` takes the
processor from a process at any point of a system call. `fork` is four actions
(slot and pid under the lock; stack and times; failure, which gives the slot back
without the lock; the child made runnable). `wait()` and `wait_stat()` share
`Scan`, the search of the table, and differ in the fields they reset. `IO` is one
channel for the sleeps that end whatever programs do (a buffer, an inode, the
log, the clock), `INPUT` one for pipes and the console, where somebody must
write, read or type; the sleeper looks again when woken, as every caller of
`sleep()` does, and a reader tests `killed` a step before it sleeps (`input`).
`Tick` is the clock interrupt of cpu 0. Nobody kills init: its exit is a panic by
design.

**Vm** is the memory of processes: the free pages, and for each process its
page directory, tables and mapped pages. sbrk, exec, fork, exit and wait are
sequences of steps, one for each iteration of a loop that allocates, so that
processes run out of memory in the middle of each other's calls and every error
path of allocuvm, copyuvm, setupkvm and exec is taken. `starved` remembers that
a page for a page *table* could not be had: the code then loses a page, or maps
less than it says (allocuvm() ignores the result of mappages()), and the
properties that this breaks are stated for machines where it did not happen. A
process that shrinks itself to nothing gets -1 after all its pages were freed, and
cannot run another instruction (`doomed`).

**Locks** looks at the same kernel lock by lock. A kernel function is the
sequence of its `acquire`, `release` and `sched` calls (`Code`); each processor
has its interrupt flag, `ncli` and `intena`, and takes interrupts whenever the
flag is on. `sched` goes through the scheduler, which releases `ptable.lock`,
enables interrupts and takes the lock again, and comes back with the saved
`intena`. `lk` stands for each of the locks that are passed to `sleep()`
(`log.lock`, `bcache.lock`, `icache.lock`, `idelock`, `cons.lock`, a pipe's):
all of them are used in the same two ways, `Code("block")` and
`Code("unblock")`, and never inside one another.

**Clock** is sys_sleep() against the tick: a counter that wraps at `TICKS` (2^32
in the code), and for each process the call it is in, with the ticks that really
passed since it began (`since`).

**Pipe** is pipe.c with its callers. A call holds the pipe's lock from one
`sleep` to the next, and is one action per round of its loops. `sleep` is in two
steps, so that the order in which it takes `ptable.lock` and gives up the pipe's
lock is part of what is checked. `kill` may come at
any point, also between the test of `proc->killed` and `sleep`, since it takes
only `ptable.lock`. Processes share the two ends through their file descriptors
(`rfile`, `wfile`); the last close calls `pipeclose`. The counters wrap at
`UINT`, a multiple of `PIPESIZE` as 2^32 is of 512. **Fifo** is the promise.

**Console** is the input ring (`r`, `w`, `e`, which wrap at `INDEX`), the
interrupt that edits the line, consoleread() and gets(). **Lines** is the promise:
a line nobody sees until it ends, then a queue. **Devices** is kbdgetc()'s
decoding of presses and releases, and the cursor of cgaputc().

**Umalloc** is malloc(), free() and morecore() on the circular list of headers,
in units of headers. **ShellParser** is the recursive-descent parser, **Shell** the
processes, descriptors and waits that main() and runcmd() make of a command. A
program reads its input to the end and exits. **Grep**, **TailText**, **Lists** and
**Mkfs** are functions of their input, written as operators after the code and
compared by **Utilities** with reference definitions (`Denotes`, `LinesOf`,
`TailOf`, `Consistent`, the inverse `Text` of the parser) over all inputs within
a bound.

Definitions marked `Variant` are plausible mistakes in the code. They are not
part of any specification; replacing the definition that follows by one of them
breaks a property, which shows that the property depends on that line.

## The runs

| run | instance | shows |
|---|---|---|
| log | 3 processes, room for 2, crashes; calls log one block less than reserved | `Atomic`, `WriteAhead`, `LogFits`, `NoMissedWakeup`, `SleepersWake` |
| log_full | calls that log all they reserved | violation of `LogFits` |
| proc | 4 slots, three loads, preemption anywhere | `ParentsAlive`, `NoMissedWakeup`, `TableKept`, `Accounting` |
| proc_live | 3 slots, every call; 2 processors with kill and reads that may wait for ever | `OrphansReaped`, `KilledExit` |
| proc_kill | 2 slots | violation of `BornAlive` |
| kernel | locks: 2 processors without exit and kill | `NoPanic`, `InterruptsOff`, `NoDeadlock` |
| | memory: 2 processes, 12 or 16 pages of 2 bytes | `EveryPageOnce`, `FailureUndone`, `SizeIsMapped` |
| | console: 2 readers, ring of 2, indexes mod 4 | `IsTerminal`, `InputWakes` |
| | devices: 6 keys; a screen of 3 by 2 | `DevicesKept` |
| | clock: 2 sleepers, counter mod 4 | `SleepsExact` |
| locks_order | 2 processors, every call | violation of `NoDeadlock` |
| pipe_kill | as the pipe of `programs` | violation of `KilledAwake` |
| disk | 2 processes with 3 hands, 2 buffers, 4 blocks, one pinned, one fault | `IsBlockStore`, `QueueServed`, `NoPanic`, `Answered` |
| fs | 2 processes, 4 inodes, 3 or 4 cache entries, 5 blocks, six workloads | `NoPanic`, `RefsCounted`, `LinksCounted`, `NothingLeaked`, `CacheCoherent`, `CallsReturn` |
| fs_rmdir | one process removes the directory another creates in | violation of `LinksCounted` |
| programs | pipe: 2 processes, 2 bytes, counters mod 4, calls of 1 and of 3 | `IsFifo`, `NoMissedWakeup`, `FreedOnce`, `EndsReturn` |
| | umalloc: requests of 2, 3 and 5 units, memory of 12 | `HeapKept` |
| | shell: pipelines, lists, groups, background | `NoChildAtPrompt`, `PromptReturns` |
| | utilities: all inputs within a length | `ParserCorrect`, `ResultsRight` |

Some of these are conjunctions: `TableKept` of `PidsUnique` and `EmbryosOwned`;
`EveryPageOnce` of `OneOwner`, `NothingLost` and `NoMemoryPanic`; `DevicesKept` of
`NoStuckKey` and `CursorOnScreen`; `SleepsExact` of `NeverEarly` and `NoMissedTick`;
`HeapKept` of `EveryUnitOnce`, `Coalesced` and `RefusesLast`; `ParserCorrect` of
`ParsesWhatIsWritten` and `NothingIgnored`; `ResultsRight` of `MatchIsDenotation`,
`GrepPrintsLines`, `TailPrintsEnd`, `TailFits`, `MergeKeepsAll` and
`ImageConsistent`.

`kernel` and `programs` put parts that do not interact side by side: a variable
says which of them a behaviour is about, and only that part takes steps.

Bounds and why they are enough. In `log`, LOGSIZE = 4 and MAXOPBLOCKS = 2 let two
calls in at once and make a third wait, and their writes overlap; the safety
properties are proved for every size, so the instance only has to be large enough
for the liveness property and to show that no case is vacuous. In `proc`, four
slots are init, its child, a grandchild and that one's child, the smallest table
in which init inherits a zombie from a process that is not its own child, and in
which two forks and a failure overlap; more forks than slots reuse them, which is
where stale fields would show; the times are checked with two processors, so that
two processes are charged by one tick. One processor is enough otherwise: a
process can be preempted at every step, so all orders of steps happen. For the
locks, two processors are what a lock order needs to close a cycle of two locks;
interrupts nest at most once more than a process needs. For memory, pages of two
bytes and tables of two entries make sizes cross pages and tables; 12 pages hold
one process and not two, 16 hold two small ones, so calls fail everywhere. The
disk has two buffers for three hands, so that buffers are recycled under those
who sleep for them, and `bget()` runs out when one is pinned and one held; the
pairs of `Nests` have no cycle, as the blocks that log.c and fs.c hold together
have none. The file system has a workload for each kind of sharing: links to one
file, a directory that comes and goes, entries in a directory that stays, a file
unlinked while open, files shared by dup() and fork(), and a process in a
directory that is removed with its parent. Four inodes and five blocks are reused
again and again; blocks and cache entries also run out. In the pipe a call longer
than the pipe is what fills it half-way through the call; indexes mod 4 wrap
after four bytes. The shell has five children, as many as its longest line needs,
or one too few with what is left in the background, so fork() also fails. The
utilities take every input up to a length that passes each of their (scaled-down)
buffers.

`programs` is run without a deadlock check because programs end; all other
passing runs check for deadlock.

Fairness. The log: every kernel step is eventually taken, and a call logs
finitely many blocks. The processes: `scheduler()` scans the whole table again
and again, so a process that is runnable again and again runs (SF); the timer
preempts (WF); a process that gets the processor again and again gets on with its
system call (SF); init returns to `wait()` (init.c:34); the disk answers, and who
holds a buffer, an inode or the log lets it go, so that sleeps on `IO` end (WF).
Nothing is assumed of user programs: a wait for input may last for ever. The
pipe, the buffer cache, the inode locks: a process inside a call goes on; SF
because a process that spins or sleeps for a lock gets it some time when it is
free again and again. The disk answers and its interrupt is taken (WF). A program
in the shell's tree that can end does (WF).

## What the checks show about the code

- **log_full**. `begin_op()` reserves `MAXOPBLOCKS` of `LOGSIZE` blocks for each
  call, but `mkfs` gives the log `LOGSIZE` blocks including its header, and
  `log_write()` panics when `LOGSIZE-1` are in use, even if the block is already
  in the log. Calls that log all ten blocks they reserve can reach the panic;
  calls that log at most nine cannot (theorem `ReservationSuffices`). The chunks
  of `filewrite()` are sized from `LOGSIZE`: with 13 blocks of data, their
  bitmap, indirect and inode blocks, they log more than `MAXOPBLOCKS`.
- **proc_kill**. `kill()` matches free slots: `kill(0)`, or the pid of a fork that
  failed, sets `killed` in a free slot, and the next child there is born killed.
- **locks_order**. `exit()` and `kill()` take `tickslock` inside `ptable.lock`; the
  clock interrupt and `sys_sleep()` take them the other way round. With one
  processor, as in the Makefile, this is harmless; with two it is a deadlock.
- **pipe_kill**. A `kill()` on another processor between a pipe call's test of
  `proc->killed` and its `sleep()` leaves the killed process asleep.
- **fs_rmdir**. `create()` does not look again at the parent directory after it
  locked it: if the directory was removed meanwhile, the new entry is made in a
  directory that is about to be freed, and the new inode is never freed.

Some properties hold only with an exception that the code forces. Each names the
exception and allows nothing else:

- `Pipe!NoMissedWakeup`: a killed `pipewrite()` leaves a full pipe without waking
  the readers.
- `Proc!KilledExit`: a killed process stays asleep on a pipe or the console if
  `kill()` came between its test of `killed` and its `sleep()`, the case of
  pipe_kill.
- `Bio!NoPanic`: `bget()` finds no buffer when the blocks that the log pins and
  the buffers in use are more than there are. `NBUF` and `LOGSIZE` are both 30 and
  `log_write()` lets 29 blocks be pinned, so that this can happen; the property, and
  the theorem, say that it takes nothing less, and that no other panic on a buffer
  happens.
- `Fs!NoPanic`: a process in a directory `a/b` that goes on through `..` after both
  `a/b` and `a` have been removed locks a free inode, and `ilock()` panics
  (fs.c:292): the `..` of a removed directory counts no link. The kernel also panics
  when blocks, inodes or the 50 entries of the inode cache run out.
- `Vm!FailureUndone`: `sbrk()` by minus the whole size returns -1 after every page
  was freed, because `growproc()` takes the size 0 for a failure (proc.c:126).
- `Vm!NothingLost`, `SizeIsMapped` and `FailureUndone` are about machines on which no
  page table was refused (`starved`).
- `Utilities!GrepPrintsLines`: grep drops what it has when its buffer holds no
  newline (grep.c:29), so that a line is lost or cut when it is longer than the
  buffer, and also when a read from a pipe ends in the middle of it.
- `Utilities!TailPrintsEnd`: tail uses `startLine` uninitialised and writes over an
  old temporary file without truncating it; its output is right if the first is 0
  and the second no longer than the input. It prints nothing for `-n +1`, nor for
  `-c k` with k larger than the file.

Reference definitions follow the code where nothing says otherwise: `>>` opens a
file as `>` does; `a & b` is a syntax error; grep and tail look only at lines that
end in a newline; mkfs rounds the root directory up to one block more when it ends
on a block's boundary.

## The proofs

All theorems hold for every value of the constants that the named assumptions of
the modules allow. Each rests on an inductive invariant, which one lemma per action
shows to be kept.

`LogProofs` proves about Log, for every number of processes, every set of
contents and every geometry of the disk:

- `Invariance`: `Spec => []IInv`, and from it `TypeCorrect`,
  `ReservationSuffices` (`[]LogFits`), `WakeupsArrive` (`[]NoMissedWakeup`);
- `LogWritesAhead`: `Spec => WriteAhead`;
- `LogIsAtomic`: `Spec => Atomic`, the refinement of AtomicDisk.

The assumption is `SpaceSuffices`: a call logs at most `OpBlocks` blocks,
`OpBlocks <= MAXOPBLOCKS`, and the most that admitted calls can log leaves the
last block of the log free; `WakeupsArrive` also needs
`MAXOPBLOCKS <= LOGSIZE`.

`LogFits` is not inductive: one has to know that the blocks in the log and the
blocks calls may still add stay within what was reserved. `Space` says so, with
the unspent blocks as a finite set of tokens (`Tokens`) whose cardinality
shrinks by one with each append. For the refinement, `Journal` says for each
phase how header, log blocks and home blocks relate: before the header is
written the blocks copied so far equal the cache; after it the header on disk is
the one in memory and the blocks installed so far equal their log blocks.
`Cache` says that a clean cached block equals the disk, unless a process has it
busy, and that every block in the log is cached and dirty until it is installed.
`Injective` (no block is in the log twice) makes the replay of the log well
defined. The proof has a lemma per action; `AtomicStep` then shows that each
step is a step of AtomicDisk or changes nothing there.

`ProcProofs` is about a table of any size, any number of processors and any choice
of calls: `ProcInvariance` (`[]ProcInv`), `ProcParents`, `ProcWakeups`, `ProcTable`
and `ProcTimes`. `ParentsAlive` alone is not inductive: `Forks` says that each
embryo belongs to one process inside `fork()`, `Family` that a slot without a process
is nobody's child and that init never exits, and `Dates` that the times of a child
have been cleared before it can run.

`PipeProofs` is about any number of processes and calls of any length, for a
`PIPESIZE` that divides the range of the counters: `PipeInvariance`, `PipeFreedOnce`,
`PipeWakeups` and `PipeIsFifo` (the refinement of Fifo). The invariant says who has
which lock at each place (`Mutex`), that an end is open exactly while somebody has
it (`Ends`), and why a sleeper sleeps, from before it gives up the pipe's lock on
(`Sleepers`). That unsigned differences are distances across the wrap is in
`DataLemmas`, which the clock and the console use too.

`BioProofs` and `StoreProofs` are about any number of buffers and blocks and of
processes that hold any number of buffers: `BioInvariance`, `BioQueueServed`,
`BioNoPanic` and `BioIsBlockStore` (the refinement of BlockStore). `Owners` says that
a block has one buffer and a busy buffer one holder, `Requests` that the queue holds
exactly the buffers whose holders sleep for the disk, `Driver` that the disk works
on the head of the queue, or on a write that an interrupt without a reason has cut
short, and `Clean` that a buffer without changes has what is below it.
`BioNoPanic` has no assumption on the number of buffers: when `bget()` finds none,
each buffer is pinned by the log or in the hand of a process, and the one who asks
has another hand, which is counted (`Room`).

`ConsoleProofs` is about a ring of any size and indexes of any width that it divides:
`ConsoleInvariance`, `ConsoleWakes` and `ConsoleIsTerminal` (the refinement of Lines).
The invariant keeps `r`, `w` and `e` in order and at most a ring apart, and says that
nothing that can still be erased ends a line. `DeviceProofs` has `ClockInvariance` and
`SleepsExactly`, for a counter of any width and calls shorter than a turn of it, and
`DeviceInvariance` and `DevicesAreKept`, for a screen of any size and any keys pressed
and released in any order.

Only model-checked: the liveness properties (`SleepersWake`, `OrphansReaped`,
`KilledExit`, `Answered`, `CallsReturn`, `EndsReturn`, `PromptReturns`: fairness is
out of the prover's reach); Locks, Vm, Fs and Shell; and what recursion computes
(Umalloc, the parser, grep, tail, the lists and mkfs).

## What is not modelled

- Boot, multiprocessor start-up and device programming (main.c, mp.c, lapic.c,
  ioapic.c, picirq.c, timer.c, uart.c, the assembly files): straight lines of I/O.
- Strings, printing and argument fetching (string.c, printf.c, cprintf, argint,
  argptr, argstr): data without control; `vectors.S` is generated.
- The test and utility programs: clients of the kernel. The calls they make are
  actions of the kernel's modules.
- procdump(), and the code of the scheduler that the preprocessor leaves out.
- sys_pipe() and the copying of sys_exec()'s arguments; pipealloc()'s failures.
- memide.c, which replaces ide.c in a kernel without a disk.
- In Bio: a second disk, and so the panic "ide disk 1 not present"; the panics of
  idestart() on constants of the code.
- In Fs: crashes (they are Log's subject), reads and writes of devices, offsets
  within a block, and directories of more than one block, with the panics of
  dirlookup() and dirlink() on a failed read or write of one. A file that is
  unlinked while open is lost if the machine crashes before its last close; nothing
  in the code looks for such inodes.
- In Vm: segment registers, TLB, and kernel mappings other than their tables.
