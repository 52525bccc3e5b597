-------------------------------- MODULE Pipe --------------------------------
(***************************************************************************)
(* A pipe: pipewrite(), piperead() and pipeclose() of pipe.c, called by    *)
(* processes that share its two ends.  A call runs under the pipe's lock   *)
(* from one sleep() to the next.  sleep(), wakeup() and kill() work under  *)
(* ptable.lock, so that kill() may come at any point of a call.            *)
(***************************************************************************)
EXTENDS Integers, Sequences, FiniteSets

CONSTANTS
    Proc,      \* the processes that have the pipe open
    Byte,      \* the bytes they write
    NoByte,    \* no byte has been read yet
    PIPESIZE,  \* bytes in the buffer
    UINT,      \* nread and nwrite wrap at UINT (2^32 in the kernel)
    Counts     \* bound: the numbers of bytes that a call asks for

ASSUME PipeConstants ==
    /\ Proc # {}
    /\ PIPESIZE \in Nat \ {0} /\ UINT \in Nat /\ PIPESIZE < UINT
    /\ UINT % PIPESIZE = 0
    /\ Counts \subseteq Nat
    /\ NoByte \notin Byte

VARIABLES
    data,      \* pipe.data
    nread,     \* pipe.nread
    nwrite,    \* pipe.nwrite
    readopen,  \* pipe.readopen
    writeopen, \* pipe.writeopen
    freed,     \* kfree(pipe) calls so far
    locked,    \* the process that has pipe.lock, if any
    ptable,    \* the process that has ptable.lock across two steps, if any
    rfile,     \* the processes whose file descriptors refer to the read end
    wfile,     \* ... and to the write end
    pc,        \* where each process is
    left,      \* bytes it has still to read or write: n - i
    addr,      \* the byte that was copied to a reader last
    killed     \* proc.killed

pipeVars == <<data, nread, nwrite, readopen, writeopen, freed>>
fileVars == <<rfile, wfile>>
vars == <<pipeVars, locked, ptable, fileVars, pc, left, addr, killed>>

NoProc == {}
Free == locked = NoProc

\* Variant: one byte too many fits.
Full_late == nwrite = (nread + PIPESIZE + 1) % UINT

Full == nwrite = (nread + PIPESIZE) % UINT
Empty == nread = nwrite

\* wakeup(chan) and kill() wait for ptable.lock.
Unlocked == ptable = NoProc

\* wakeup(chan): the processes asleep on it contend for the lock again.
Wakeup(asleep, again) ==
    [p \in Proc |-> IF pc[p] = asleep THEN again ELSE pc[p]]

\* Variant: wakeup(&p->nread) finds nobody.
WakeReaders_nobody == pc

WakeReaders == Wakeup("rsleep", "racquire")
WakeWriters == Wakeup("wsleep", "wacquire")

\* pipealloc(), and the forks that hand both ends to every process.
Init ==
    /\ data = [i \in 0..(PIPESIZE - 1) |-> NoByte]
    /\ nread = 0 /\ nwrite = 0
    /\ readopen = TRUE /\ writeopen = TRUE /\ freed = 0
    /\ locked = NoProc /\ ptable = NoProc
    /\ rfile = Proc /\ wfile = Proc
    /\ pc = [p \in Proc |-> "idle"] /\ left = [p \in Proc |-> 0]
    /\ addr = NoByte
    /\ killed = [p \in Proc |-> FALSE]

\* A system call on the pipe; trap() sends a killed process to exit() instead.
Read(p, n) ==
    /\ pc[p] = "idle" /\ p \in rfile /\ ~killed[p]
    /\ pc' = [pc EXCEPT ![p] = "racquire"]
    /\ left' = [left EXCEPT ![p] = n]
    /\ UNCHANGED <<pipeVars, locked, ptable, fileVars, addr, killed>>

Write(p, n) ==
    /\ pc[p] = "idle" /\ p \in wfile /\ ~killed[p]
    /\ pc' = [pc EXCEPT ![p] = "wacquire"]
    /\ left' = [left EXCEPT ![p] = n]
    /\ UNCHANGED <<pipeVars, locked, ptable, fileVars, addr, killed>>

\* acquire(&p->lock), at the start of a call or at the end of sleep().
acquire(p) ==
    /\ pc[p] \in {"racquire", "wacquire"} /\ Free
    /\ locked' = {p}
    /\ pc' = [pc EXCEPT ![p] = IF @ = "racquire" THEN "rwait" ELSE "write"]
    /\ UNCHANGED <<pipeVars, ptable, fileVars, left, addr, killed>>

kill(p) ==
    /\ ~killed[p] /\ Unlocked
    /\ killed' = [killed EXCEPT ![p] = TRUE]
    /\ pc' = CASE pc[p] = "rsleep" -> [pc EXCEPT ![p] = "racquire"]
               [] pc[p] = "wsleep" -> [pc EXCEPT ![p] = "wacquire"]
               [] OTHER -> pc
    /\ UNCHANGED <<pipeVars, locked, ptable, fileVars, left, addr>>

\* Variant: the pipe's lock is released without ptable.lock.
sleep_unlocked(p) ==
    /\ pc[p] \in {"rsleepy", "wsleepy"} /\ Unlocked
    /\ locked' = NoProc
    /\ pc' = [pc EXCEPT ![p] = IF @ = "rsleepy" THEN "rsched" ELSE "wsched"]
    /\ UNCHANGED <<pipeVars, ptable, fileVars, left, addr, killed>>

\* sleep() takes ptable.lock before it gives up the pipe's lock ...
sleep(p) ==
    /\ pc[p] \in {"rsleepy", "wsleepy"} /\ Unlocked
    /\ ptable' = {p} /\ locked' = NoProc
    /\ pc' = [pc EXCEPT ![p] = IF @ = "rsleepy" THEN "rsched" ELSE "wsched"]
    /\ UNCHANGED <<pipeVars, fileVars, left, addr, killed>>

\* ... and is SLEEPING when the scheduler releases ptable.lock.
sched(p) ==
    /\ pc[p] \in {"rsched", "wsched"}
    /\ ptable' = NoProc
    /\ pc' = [pc EXCEPT ![p] = IF @ = "rsched" THEN "rsleep" ELSE "wsleep"]
    /\ UNCHANGED <<pipeVars, locked, fileVars, left, addr, killed>>

-----------------------------------------------------------------------------
(* pipewrite() *)

Return(p, woken) ==
    /\ pc' = [woken EXCEPT ![p] = "idle"]
    /\ left' = [left EXCEPT ![p] = 0]
    /\ locked' = NoProc

\* One round of the loops, or their end.
pipewrite(p) ==
    /\ pc[p] = "write"
    /\ IF left[p] = 0
       THEN Unlocked /\ Return(p, WakeReaders) /\ UNCHANGED pipeVars
       ELSE IF ~Full
       THEN /\ \E b \in Byte : data' = [data EXCEPT ![nwrite % PIPESIZE] = b]
            /\ nwrite' = (nwrite + 1) % UINT
            /\ left' = [left EXCEPT ![p] = @ - 1]
            /\ UNCHANGED <<nread, readopen, writeopen, freed, locked, pc>>
       ELSE IF ~readopen \/ killed[p]
       THEN Return(p, pc) /\ UNCHANGED pipeVars
       ELSE /\ Unlocked
            /\ pc' = [WakeReaders EXCEPT ![p] = "wsleepy"]
            /\ UNCHANGED <<pipeVars, locked, left>>
    /\ UNCHANGED <<ptable, fileVars, addr, killed>>

-----------------------------------------------------------------------------
(* piperead() *)

\* The loop that waits for a byte or for the end of the stream.
pipeempty(p) ==
    /\ pc[p] = "rwait"
    /\ IF ~(Empty /\ writeopen)
       THEN pc' = [pc EXCEPT ![p] = "read"] /\ UNCHANGED <<left, locked>>
       ELSE IF killed[p]
       THEN Return(p, pc)
       ELSE pc' = [pc EXCEPT ![p] = "rsleepy"] /\ UNCHANGED <<left, locked>>
    /\ UNCHANGED <<pipeVars, ptable, fileVars, addr, killed>>

\* One round of the loop that copies bytes, or its end.
piperead(p) ==
    /\ pc[p] = "read"
    /\ IF left[p] = 0 \/ Empty
       THEN Unlocked /\ Return(p, WakeWriters) /\ UNCHANGED <<nread, addr>>
       ELSE /\ addr' = data[nread % PIPESIZE]
            /\ nread' = (nread + 1) % UINT
            /\ left' = [left EXCEPT ![p] = @ - 1]
            /\ UNCHANGED <<locked, pc>>
    /\ UNCHANGED <<data, nwrite, readopen, writeopen, freed, ptable, fileVars,
                   killed>>

-----------------------------------------------------------------------------
(* fileclose() and pipeclose(): the last close of an end closes it. *)

\* Variant: the first end to be closed frees the pipe.
kfree_early(r, w) == freed' = IF ~r \/ ~w THEN freed + 1 ELSE freed

kfree(r, w) == freed' = IF ~r /\ ~w THEN freed + 1 ELSE freed

CloseRead(p) ==
    /\ pc[p] = "idle" /\ p \in rfile
    /\ rfile' = rfile \ {p}
    /\ IF rfile' # {}
       THEN UNCHANGED <<readopen, pc, freed>>
       ELSE /\ Free /\ Unlocked
            /\ readopen' = FALSE
            /\ pc' = WakeWriters
            /\ kfree(FALSE, writeopen)
    /\ UNCHANGED <<data, nread, nwrite, writeopen, locked, ptable, wfile, left,
                   addr, killed>>

CloseWrite(p) ==
    /\ pc[p] = "idle" /\ p \in wfile
    /\ wfile' = wfile \ {p}
    /\ IF wfile' # {}
       THEN UNCHANGED <<writeopen, pc, freed>>
       ELSE /\ Free /\ Unlocked
            /\ writeopen' = FALSE
            /\ pc' = WakeReaders
            /\ kfree(readopen, FALSE)
    /\ UNCHANGED <<data, nread, nwrite, readopen, locked, ptable, rfile, left,
                   addr, killed>>

-----------------------------------------------------------------------------
Inside(p) ==
    \/ acquire(p) \/ sleep(p) \/ sched(p)
    \/ pipewrite(p) \/ pipeempty(p) \/ piperead(p)

Next ==
    \E p \in Proc :
        \/ \E n \in Counts : Read(p, n) \/ Write(p, n)
        \/ Inside(p)
        \/ CloseRead(p) \/ CloseWrite(p)
        \/ kill(p)

Spec == Init /\ [][Next]_vars

-----------------------------------------------------------------------------
(* Properties. *)

Reading == {"racquire", "rwait", "rsleepy", "rsched", "rsleep", "read"}
Writing == {"wacquire", "write", "wsleepy", "wsched", "wsleep"}
Places == {"idle"} \cup Reading \cup Writing

TypeOK ==
    /\ data \in [0..(PIPESIZE - 1) -> Byte \cup {NoByte}]
    /\ nread \in 0..(UINT - 1) /\ nwrite \in 0..(UINT - 1)
    /\ readopen \in BOOLEAN /\ writeopen \in BOOLEAN /\ freed \in Nat
    /\ locked \in {NoProc} \cup {{p} : p \in Proc}
    /\ ptable \in {NoProc} \cup {{p} : p \in Proc}
    /\ rfile \subseteq Proc /\ wfile \subseteq Proc
    /\ pc \in [Proc -> Places]
    /\ left \in [Proc -> Nat]
    /\ addr \in Byte \cup {NoByte} /\ killed \in [Proc -> BOOLEAN]

\* How many bytes are in the buffer ...
InPipe == (nwrite - nread) % UINT

\* ... and which, oldest first.
Contents ==
    [i \in 1..InPipe |-> data[(nread + i - 1) % PIPESIZE]]

F == INSTANCE Fifo WITH queue <- Contents, out <- addr, Capacity <- PIPESIZE

\* The pipe is a first-in first-out queue of PIPESIZE bytes: every byte written
\* is read once and in order, with any number of readers and writers, also when
\* nread and nwrite wrap around.
IsFifo == F!Spec

\* Nobody sleeps on a pipe they could use: when the lock is free, a sleeping
\* writer finds it full and a reader left, and a sleeping reader finds it empty
\* and a writer left.  The last needs that nobody was killed: a killed
\* pipewrite() returns from a full pipe without wakeup(&p->nread), and the bytes
\* it wrote stay unread until another call.
NoMissedWakeup ==
    Free => \A p \in Proc :
        /\ pc[p] = "wsleep" => Full /\ readopen
        /\ pc[p] = "rsleep" => writeopen
        /\ pc[p] = "rsleep" /\ (\A q \in Proc : ~killed[q]) => Empty

\* The pipe is freed once, when both ends are closed, and no call is then in
\* progress that could still touch it.
FreedOnce ==
    /\ TypeOK
    /\ freed <= 1
    /\ freed = 1 <=> rfile = {} /\ wfile = {}
    /\ freed = 1 => Free /\ \A p \in Proc : pc[p] = "idle"

\* Where a process has the pipe's lock, and where it has ptable.lock.
Mutex ==
    \A p \in Proc :
        /\ p \in locked <=> pc[p] \in {"rwait", "rsleepy", "read", "write", "wsleepy"}
        /\ p \in ptable <=> pc[p] \in {"rsched", "wsched"}

\* An end is open as long as somebody has it, and so has everybody who uses it.
Ends ==
    /\ readopen <=> rfile # {}
    /\ writeopen <=> wfile # {}
    /\ freed = IF rfile = {} /\ wfile = {} THEN 1 ELSE 0
    /\ \A p \in Proc : /\ pc[p] \in Reading => p \in rfile
                       /\ pc[p] \in Writing => p \in wfile

\* Why a process sleeps, or is about to: what it waits for has not happened, or
\* is the work of somebody who has the lock and will wake it.
Waits(p) ==
    /\ pc[p] = "wsleepy" => Full /\ readopen
    /\ pc[p] \in {"wsched", "wsleep"} =>
           readopen /\ (Full \/ \E q \in Proc : pc[q] = "read")
    /\ pc[p] = "rsleepy" => Empty /\ writeopen
    /\ pc[p] \in {"rsched", "rsleep"} =>
           /\ writeopen
           /\ \/ Empty
              \/ \E q \in Proc : pc[q] = "write"
              \/ \E q \in Proc : killed[q]

Sleepers == \A p \in Proc : Waits(p)

\* The inductive invariant behind FreedOnce, NoMissedWakeup and IsFifo.
PipeInv == TypeOK /\ Mutex /\ Ends /\ Sleepers /\ InPipe <= PIPESIZE

\* kill() "wakes the process from sleep if necessary": a killed process is not
\* left asleep on the pipe.
KilledAwake == \A p \in Proc : killed[p] => pc[p] \notin {"rsleep", "wsleep"}

-----------------------------------------------------------------------------
(* Every process gets on with its call; SF because it may have to wait for  *)
(* the pipe's lock or for ptable.lock, which it gets some time.             *)
Fairness == \A p \in Proc : SF_vars(Inside(p))

FairSpec == Spec /\ Fairness

\* Once the last writer has closed its end every reader returns, with the rest
\* of the bytes or with the end of the stream; and once the last reader has,
\* every writer does.
EndsReturn ==
    \A p \in Proc :
        (\/ ~writeopen /\ pc[p] \in Reading
         \/ ~readopen /\ pc[p] \in Writing) ~> pc[p] = "idle"

=============================================================================
