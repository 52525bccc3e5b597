-------------------------------- MODULE Log ---------------------------------
(***************************************************************************)
(* The write-ahead log of log.c, together with the part of the buffer      *)
(* cache it relies on (a B_DIRTY buffer is never recycled) and a disk that *)
(* writes one block at a time and survives a crash.                        *)
(*                                                                         *)
(* A file system call is begin_op(); any number of bread/modify/log_write/ *)
(* brelse; end_op().  Several run at once.  The last one to end commits    *)
(* for all of them.  The machine may crash between any two disk writes,    *)
(* also during recovery.                                                   *)
(***************************************************************************)
EXTENDS Integers, Sequences, FiniteSets

CONSTANTS
    Proc,         \* the processes that make file system calls
    Data,         \* the contents a block can have
    LOGSIZE,      \* param.h: entries of logheader.block[]
    MAXOPBLOCKS,  \* param.h: blocks begin_op() reserves for a call
    OpBlocks,     \* blocks that a call really adds to the log
    LOGSTART,     \* superblock.logstart: the header block of the log
    NLOG,         \* superblock.nlog: the blocks of the log, header included
    FSSIZE,       \* superblock.size: the blocks of the file system
    NoData        \* stands for a block that is not cached

ASSUME LogConstants ==
    /\ LOGSIZE \in Nat /\ MAXOPBLOCKS \in Nat /\ OpBlocks \in Nat
    /\ LOGSTART \in Nat /\ NLOG \in Nat \ {0} /\ FSSIZE \in Nat
    /\ NoData \notin Data

(***************************************************************************)
(* mkfs lays the disk out as  boot | super | log | inodes, bitmap, data .  *)
(* The blocks behind the log are the ones that log_write() records.        *)
(***************************************************************************)
Home == (LOGSTART + NLOG)..(FSSIZE - 1)
Addr == (LOGSTART + 1)..(FSSIZE - 1)

\* The disk block of entry i (from 1) of the log.
Slot(i) == LOGSTART + i

NoBlock == 0

VARIABLES
    disk,        \* every block behind the log header, on disk
    dhead,       \* the log header on disk, as the sequence block[0..n-1]
    cache,       \* the buffer cache: the contents of a cached home block
    dirty,       \* the home blocks whose buffer is B_DIRTY
    lh,          \* log.lh in memory, as the sequence block[0..n-1]
    outstanding, \* log.outstanding
    committing,  \* log.committing
    phase,       \* what initlog() or the committer is doing
    tail,        \* blocks copied by the current write_log() or install_trans()
    pc,          \* where each process is
    held,        \* held[p]: the buffer p has modified and not yet logged
    budget       \* budget[p]: blocks the call of p may still add to the log

diskVars == <<disk, dhead>>
cacheVars == <<cache, dirty>>
logVars == <<lh, outstanding, committing>>
stepVars == <<phase, tail>>
procVars == <<pc, held, budget>>
vars == <<diskVars, cacheVars, logVars, stepVars, procVars>>

InLog(b) == \E i \in 1..Len(lh) : lh[i] = b
Busy(b) == \E p \in Proc : held[p] = b

\* bread(): the cached contents, or those on disk when b is not cached.
bread(b) == IF cache[b] # NoData THEN cache[b] ELSE disk[b]

\* Variant: wakeup(&log) finds nobody.
Woken_nobody == pc

\* wakeup(&log): every process asleep on the log tries begin_op() again.
Woken == [p \in Proc |-> IF pc[p] = "asleep" THEN "begin" ELSE pc[p]]

Booted == phase \notin {"read_head", "recover"}

-----------------------------------------------------------------------------
(* Power-up and recovery: initlog(). *)

Init ==
    /\ disk \in [Addr -> Data]
    /\ dhead = <<>>
    /\ cache = [b \in Home |-> NoData] /\ dirty = {}
    /\ lh = <<>> /\ outstanding = 0 /\ committing = FALSE
    /\ phase = "read_head" /\ tail = 0
    /\ pc = [p \in Proc |-> "idle"]
    /\ held = [p \in Proc |-> NoBlock]
    /\ budget = [p \in Proc |-> 0]

\* The machine loses its memory and boots again; the disk stays as it is.
Crash ==
    /\ cache' = [b \in Home |-> NoData] /\ dirty' = {}
    /\ lh' = <<>> /\ outstanding' = 0 /\ committing' = FALSE
    /\ phase' = "read_head" /\ tail' = 0
    /\ pc' = [p \in Proc |-> "idle"]
    /\ held' = [p \in Proc |-> NoBlock]
    /\ budget' = [p \in Proc |-> 0]
    /\ UNCHANGED diskVars

read_head ==
    /\ phase = "read_head"
    /\ lh' = dhead
    /\ phase' = "recover" /\ tail' = 0
    /\ UNCHANGED <<diskVars, cacheVars, outstanding, committing, procVars>>

\* One round of install_trans(), called by recovery or by commit().
install_trans ==
    /\ phase \in {"recover", "install"}
    /\ tail < Len(lh)
    /\ LET b == lh[tail + 1]
           d == disk[Slot(tail + 1)]
       IN  /\ disk' = [disk EXCEPT ![b] = d]
           /\ cache' = [cache EXCEPT ![b] = d]
           /\ dirty' = dirty \ {b}
    /\ tail' = tail + 1
    /\ UNCHANGED <<dhead, logVars, phase, procVars>>

\* log.lh.n = 0; write_head(): the transaction is erased from the log.
clear_head ==
    /\ phase \in {"recover", "install"}
    /\ tail = Len(lh)
    /\ lh' = <<>> /\ dhead' = <<>>
    /\ phase' = IF phase = "recover" THEN "run" ELSE "installed"
    /\ tail' = 0
    /\ UNCHANGED <<disk, cacheVars, outstanding, committing, procVars>>

-----------------------------------------------------------------------------
(* The file system calls. *)

\* A process enters begin_op().
Call(p) ==
    /\ Booted /\ phase # "panic" /\ pc[p] = "idle"
    /\ pc' = [pc EXCEPT ![p] = "begin"]
    /\ UNCHANGED <<diskVars, cacheVars, logVars, stepVars, held, budget>>

\* Variant: a call may begin during a commit.
MustWait_committing == Len(lh) + (outstanding + 1) * MAXOPBLOCKS > LOGSIZE

\* The test of begin_op()'s loop: wait, or reserve MAXOPBLOCKS blocks.
MustWait ==
    committing \/ Len(lh) + (outstanding + 1) * MAXOPBLOCKS > LOGSIZE

begin_op(p) ==
    /\ phase # "panic" /\ pc[p] = "begin"
    /\ IF MustWait
       THEN /\ pc' = [pc EXCEPT ![p] = "asleep"]
            /\ UNCHANGED <<outstanding, budget>>
       ELSE /\ pc' = [pc EXCEPT ![p] = "op"]
            /\ outstanding' = outstanding + 1
            /\ budget' = [budget EXCEPT ![p] = OpBlocks]
    /\ UNCHANGED <<diskVars, cacheVars, lh, committing, stepVars, held>>

\* kill() makes a sleeper runnable; begin_op() finds out that it must wait on.
KillWakes(p) ==
    /\ phase # "panic" /\ pc[p] = "asleep"
    /\ pc' = [pc EXCEPT ![p] = "begin"]
    /\ UNCHANGED <<diskVars, cacheVars, logVars, stepVars, held, budget>>

\* bread(b) brings a block into the cache.
Read(b) ==
    /\ Booted /\ phase # "panic" /\ cache[b] = NoData
    /\ cache' = [cache EXCEPT ![b] = disk[b]]
    /\ UNCHANGED <<diskVars, dirty, logVars, stepVars, procVars>>

\* Variant: bget() takes no notice of B_DIRTY.
Recycle_dirty(b) ==
    /\ phase # "panic"
    /\ cache[b] # NoData /\ ~Busy(b)
    /\ cache' = [cache EXCEPT ![b] = NoData]
    /\ UNCHANGED <<diskVars, dirty, logVars, stepVars, procVars>>

\* bget() recycles a buffer that is neither B_BUSY nor B_DIRTY.
Recycle(b) ==
    /\ phase # "panic"
    /\ cache[b] # NoData /\ b \notin dirty /\ ~Busy(b)
    /\ cache' = [cache EXCEPT ![b] = NoData]
    /\ UNCHANGED <<diskVars, dirty, logVars, stepVars, procVars>>

\* bread(b), a change of the data, and log_write(b) up to its tests, which
\* read log.lh.n and log.outstanding without log.lock.
log_write_test(p, b, d) ==
    /\ phase # "panic" /\ pc[p] = "op" /\ held[p] = NoBlock
    /\ ~Busy(b)
    /\ InLog(b) \/ budget[p] > 0
    /\ cache' = [cache EXCEPT ![b] = d]
    /\ held' = [held EXCEPT ![p] = b]
    /\ phase' = IF \/ Len(lh) >= LOGSIZE \/ Len(lh) >= NLOG - 1
                   \/ outstanding < 1
                THEN "panic" ELSE phase
    /\ UNCHANGED <<diskVars, dirty, logVars, tail, pc, budget>>

\* The rest of log_write(b), under log.lock, and brelse(b).
log_write(p) ==
    /\ phase # "panic" /\ held[p] # NoBlock
    /\ IF InLog(held[p])
       THEN UNCHANGED <<lh, budget>>
       ELSE /\ lh' = Append(lh, held[p])
            /\ budget' = [budget EXCEPT ![p] = @ - 1]
    /\ dirty' = dirty \cup {held[p]}
    /\ held' = [held EXCEPT ![p] = NoBlock]
    /\ UNCHANGED <<diskVars, cache, outstanding, committing, stepVars, pc>>

\* end_op() up to commit(): the last call out commits.
end_op(p) ==
    /\ phase # "panic" /\ pc[p] = "op" /\ held[p] = NoBlock
    /\ outstanding' = outstanding - 1
    /\ budget' = [budget EXCEPT ![p] = 0]
    /\ IF committing
       THEN phase' = "panic" /\ UNCHANGED <<committing, tail, pc>>
       ELSE IF outstanding = 1
       THEN /\ committing' = TRUE
            /\ pc' = [pc EXCEPT ![p] = "commit"]
            /\ phase' = IF lh = <<>> THEN "installed" ELSE "write_log"
            /\ tail' = 0
       ELSE /\ pc' = [Woken EXCEPT ![p] = "idle"]
            /\ UNCHANGED <<committing, stepVars>>
    /\ UNCHANGED <<diskVars, cacheVars, lh, held>>

-----------------------------------------------------------------------------
(* commit(), by the process whose pc is "commit". *)

\* One round of write_log(): copy a modified block to the log.
write_log ==
    /\ phase = "write_log" /\ tail < Len(lh)
    /\ disk' = [disk EXCEPT ![Slot(tail + 1)] = bread(lh[tail + 1])]
    /\ tail' = tail + 1
    /\ UNCHANGED <<dhead, cacheVars, logVars, phase, procVars>>

\* Variant: commit() installs without having written the header.
write_head_skipped ==
    /\ phase = "write_log" /\ tail = Len(lh)
    /\ phase' = "install" /\ tail' = 0
    /\ UNCHANGED <<diskVars, cacheVars, logVars, procVars>>

\* write_head(): the transaction commits.
write_head ==
    /\ phase = "write_log" /\ tail = Len(lh)
    /\ dhead' = lh
    /\ phase' = "install" /\ tail' = 0
    /\ UNCHANGED <<disk, cacheVars, logVars, procVars>>

\* Variant: the committer leaves without wakeup(&log).
commit_done_quiet(p) ==
    /\ phase = "installed" /\ pc[p] = "commit"
    /\ committing' = FALSE
    /\ pc' = [pc EXCEPT ![p] = "idle"]
    /\ phase' = "run"
    /\ UNCHANGED <<diskVars, cacheVars, lh, outstanding, tail, held, budget>>

\* The end of end_op(): let the waiting calls in.
commit_done(p) ==
    /\ phase = "installed" /\ pc[p] = "commit"
    /\ committing' = FALSE
    /\ pc' = [Woken EXCEPT ![p] = "idle"]
    /\ phase' = "run"
    /\ UNCHANGED <<diskVars, cacheVars, lh, outstanding, tail, held, budget>>

-----------------------------------------------------------------------------

Recover == read_head \/ install_trans \/ clear_head
Commit == write_log \/ write_head \/ \E p \in Proc : commit_done(p)

Next ==
    \/ Crash
    \/ Recover
    \/ Commit
    \/ \E p \in Proc :
          \/ Call(p) \/ begin_op(p) \/ KillWakes(p)
          \/ log_write(p) \/ end_op(p)
          \/ \E b \in Home, d \in Data : log_write_test(p, b, d)
    \/ \E b \in Home : Read(b) \/ Recycle(b)

Spec == Init /\ [][Next]_vars

-----------------------------------------------------------------------------
(* Properties. *)

TypeOK ==
    /\ disk \in [Addr -> Data]
    /\ dhead \in Seq(Home) /\ lh \in Seq(Home)
    /\ cache \in [Home -> Data \cup {NoData}] /\ dirty \subseteq Home
    /\ outstanding \in Nat /\ committing \in BOOLEAN
    /\ phase \in {"read_head", "recover", "run", "write_log", "install",
                  "installed", "panic"}
    /\ tail \in Nat
    /\ pc \in [Proc -> {"idle", "begin", "asleep", "op", "commit"}]
    /\ held \in [Proc -> Home \cup {NoBlock}]
    /\ budget \in [Proc -> Nat]

(***************************************************************************)
(* The contents the disk has once recovery has run: the blocks named in    *)
(* the header on disk have the contents of their log blocks.               *)
(***************************************************************************)
Replay(dsk, head) ==
    [b \in Home |->
        IF \E i \in 1..Len(head) : head[i] = b
        THEN dsk[Slot(CHOOSE i \in 1..Len(head) : head[i] = b)]
        ELSE dsk[b]]

Recovered == Replay(disk, dhead)

Visible == IF Booted THEN [b \in Home |-> bread(b)] ELSE Recovered

Active == {p \in Proc : pc[p] = "op"}

AD == INSTANCE AtomicDisk WITH durable <- Recovered, visible <- Visible,
                               active <- Active

(***************************************************************************)
(* The log implements an atomic disk: a crash anywhere, also inside        *)
(* commit() or inside recovery, brings back the contents of a moment at    *)
(* which no file system call was in progress; commit's own disk writes,    *)
(* evictions and re-reads change nothing that can be seen.                 *)
(***************************************************************************)
Atomic == AD!Spec

(***************************************************************************)
(* begin_op()'s reservation suffices: log_write() never panics with "too   *)
(* big a transaction", although it tests log.lh.n before taking log.lock,  *)
(* and write_log() never runs past the last block of the log.              *)
(***************************************************************************)
LogFits == phase # "panic" /\ Len(lh) <= LOGSIZE /\ Len(lh) <= NLOG - 1

(***************************************************************************)
(* A process sleeps in begin_op() only while the wakeup(&log) it needs is  *)
(* still to come, from the end_op() of a call or from a commit.            *)
(***************************************************************************)
NoMissedWakeup ==
    (\E p \in Proc : pc[p] = "asleep") => outstanding > 0 \/ committing

(***************************************************************************)
(* Write-ahead: a home block changes on disk only when a committed header  *)
(* names it, and the log blocks of a committed header never change.        *)
(***************************************************************************)
WriteAhead ==
    [][/\ \A b \in Home :
             disk'[b] # disk[b] => \E i \in 1..Len(dhead) : dhead[i] = b
       /\ \A i \in 1..Len(dhead) : disk'[Slot(i)] = disk[Slot(i)]]_vars

(***************************************************************************)
(* Every step of the kernel is eventually taken; a file system call logs   *)
(* finitely many blocks, hence SF: end_op() is out of reach only while a   *)
(* log_write() is under way.                                               *)
(***************************************************************************)
Fairness ==
    /\ WF_vars(Recover) /\ WF_vars(Commit)
    /\ \A p \in Proc : /\ WF_vars(begin_op(p)) /\ WF_vars(log_write(p))
                       /\ SF_vars(end_op(p))

FairSpec == Spec /\ Fairness

(***************************************************************************)
(* Every process asleep in begin_op() is woken (or the machine crashes).   *)
(***************************************************************************)
SleepersWake == \A p \in Proc : pc[p] = "asleep" ~> pc[p] # "asleep"

=============================================================================
