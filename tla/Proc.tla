-------------------------------- MODULE Proc --------------------------------
(***************************************************************************)
(* The process table of proc.c: allocproc, fork, exit, wait and wait_stat, *)
(* kill, sleep and wakeup, the scheduler's switches, yield, and the time   *)
(* accounting that the timer interrupt does in update_stat.                *)
(*                                                                         *)
(* Everything done under ptable.lock is one step.  Between such steps the  *)
(* processes interleave: one runs on each processor, and a running one may *)
(* be preempted anywhere, in user mode or in the middle of a system call.  *)
(***************************************************************************)
EXTENDS Integers, FiniteSets

CONSTANTS
    NPROC,     \* slots of the process table
    Loads      \* bound: the loads that the table is put under

\* "io" stands for every call that waits for the disk, a buffer, an inode, the
\* log or the clock, "input" for a read or write of a pipe or of the console.
AllCalls == {"fork", "exit", "wait", "wait_stat", "kill", "io", "input"}

\* Processors, the system calls that programs make, and bounds: fork()
\* hands out pids up to pids, and so many timer ticks are counted.
Load == [cpus : Nat \ {0}, calls : SUBSET AllCalls, pids : Nat \ {0}, ticks : Nat]

ASSUME ProcConstants == NPROC \in Nat \ {0} /\ Loads \subseteq Load

Slot == 1..NPROC
initproc == 1       \* userinit() takes the first slot
NoProc == 0         \* a null struct proc *

\* A process waiting for a child sleeps on its own struct proc. IO stands for
\* the channels whose event comes whatever the programs do (a buffer, an inode,
\* the log, &ticks), INPUT for those that another program, or the user, must
\* signal (a pipe, the console).
NoChan == 0
IO == NPROC + 1
INPUT == NPROC + 2
Chan == Slot \cup {NoChan, IO, INPUT}

VARIABLES
    state,    \* proc.state
    pid,      \* proc.pid
    parent,   \* proc.parent
    chan,     \* proc.chan
    killed,   \* proc.killed
    pc,       \* what the process is executing
    np,       \* the slot that fork() is filling in
    nextpid,  \* nextpid
    ticks,    \* ticks
    ctime,    \* proc.ctime
    ttime,    \* proc.ttime
    times,    \* proc.rutime, proc.stime, proc.retime
    load      \* what this behaviour is about

tableVars == <<state, pid, parent, chan, killed, nextpid>>
codeVars == <<pc, np>>
timeVars == <<ticks, ctime, ttime, times>>
vars == <<tableVars, codeVars, timeVars, load>>

NoTimes == [ru |-> 0, s |-> 0, re |-> 0]

Init ==
    /\ state = [p \in Slot |-> IF p = initproc THEN "RUNNABLE" ELSE "UNUSED"]
    /\ pid = [p \in Slot |-> IF p = initproc THEN 1 ELSE 0]
    /\ parent = [p \in Slot |-> NoProc]
    /\ chan = [p \in Slot |-> NoChan]
    /\ killed = [p \in Slot |-> FALSE]
    /\ pc = [p \in Slot |-> "user"]
    /\ np = [p \in Slot |-> NoProc]
    /\ nextpid = 2
    /\ ticks = 0
    /\ ctime = [p \in Slot |-> 0] /\ ttime = [p \in Slot |-> 0]
    /\ times = [p \in Slot |-> NoTimes]
    /\ load \in Loads

Running(p) == state[p] = "RUNNING"

\* wakeup1(c), applied to the states st.
wakeup1(st, c) ==
    [p \in Slot |-> IF st[p] = "SLEEPING" /\ chan[p] = c THEN "RUNNABLE"
                    ELSE st[p]]

First(S) == CHOOSE p \in S : \A q \in S : p <= q

-----------------------------------------------------------------------------
(* Entering and leaving the kernel: trap(). *)

\* A system call: trap() makes a killed process exit instead.
Enter(p, call) ==
    /\ Running(p) /\ pc[p] = "user"
    /\ killed[p] => call = "exit"
    /\ p = initproc => call \notin {"exit", "input"}
    /\ call = "fork" => nextpid + Cardinality({q \in Slot : pc[q] = "fork"}) <= load.pids
    /\ pc' = [pc EXCEPT ![p] = call]
    /\ UNCHANGED <<load, tableVars, np, timeVars>>

\* A fault in user mode: trap() marks the process killed, then it exits.
Fault(p) ==
    /\ Running(p) /\ pc[p] = "user" /\ p # initproc
    /\ killed' = [killed EXCEPT ![p] = TRUE]
    /\ pc' = [pc EXCEPT ![p] = "exit"]
    /\ UNCHANGED <<load, state, pid, parent, chan, nextpid, np, timeVars>>

\* The timer interrupt on cpu 0 counts the tick under tickslock.
update_stat ==
    [p \in Slot |->
        CASE state[p] = "RUNNING"  -> [times[p] EXCEPT !.ru = @ + 1]
          [] state[p] = "SLEEPING" -> [times[p] EXCEPT !.s = @ + 1]
          [] state[p] = "RUNNABLE" -> [times[p] EXCEPT !.re = @ + 1]
          [] OTHER -> times[p]]

Tick ==
    /\ ticks < load.ticks
    /\ ticks' = ticks + 1
    /\ times' = update_stat
    /\ state' = wakeup1(state, IO)
    /\ UNCHANGED <<load, pid, parent, chan, killed, nextpid, codeVars, ctime, ttime>>

-----------------------------------------------------------------------------
(* Scheduling. *)

\* scheduler() switches to a runnable process; sleep() then tidies up.
scheduler(p) ==
    /\ state[p] = "RUNNABLE"
    /\ Cardinality({q \in Slot : Running(q)}) < load.cpus
    /\ state' = [state EXCEPT ![p] = "RUNNING"]
    /\ chan' = [chan EXCEPT ![p] = NoChan]
    /\ UNCHANGED <<load, pid, parent, killed, nextpid, codeVars, timeVars>>

\* A timer interrupt takes the processor away, wherever the process is, unless
\* it holds a spin lock.
yield(p) ==
    /\ Running(p) /\ pc[p] # "block"
    /\ state' = [state EXCEPT ![p] = "RUNNABLE"]
    /\ UNCHANGED <<load, pid, parent, chan, killed, nextpid, codeVars, timeVars>>

-----------------------------------------------------------------------------
(* fork() *)

Unused == {q \in Slot : state[q] = "UNUSED"}

\* Variant: the slot is found under the lock and marked EMBRYO later.
fork_unmarked(p) ==
    /\ Running(p) /\ pc[p] = "fork" /\ Unused # {}
    /\ LET q == First(Unused)
       IN  pid' = [pid EXCEPT ![q] = nextpid] /\ np' = [np EXCEPT ![p] = q]
    /\ nextpid' = nextpid + 1
    /\ pc' = [pc EXCEPT ![p] = "kstack"]
    /\ UNCHANGED <<load, state, parent, chan, killed, timeVars>>

\* The locked part of allocproc().
fork(p) ==
    /\ Running(p) /\ pc[p] = "fork"
    /\ IF Unused = {}
       THEN /\ pc' = [pc EXCEPT ![p] = "user"]
            /\ UNCHANGED <<tableVars, np>>
       ELSE LET q == First(Unused)
            IN  /\ state' = [state EXCEPT ![q] = "EMBRYO"]
                /\ pid' = [pid EXCEPT ![q] = nextpid]
                /\ nextpid' = nextpid + 1
                /\ np' = [np EXCEPT ![p] = q]
                /\ pc' = [pc EXCEPT ![p] = "kstack"]
                /\ UNCHANGED <<parent, chan, killed>>
    /\ UNCHANGED <<load, timeVars>>

\* Variant: the times of the slot's last process stay.
allocproc_stale(p) ==
    /\ Running(p) /\ pc[p] = "kstack"
    /\ ctime' = [ctime EXCEPT ![np[p]] = ticks]
    /\ pc' = [pc EXCEPT ![p] = "copy"]
    /\ UNCHANGED <<load, tableVars, np, ticks, ttime, times>>

\* The rest of allocproc(): a kernel stack, and the times set to zero.
allocproc(p) ==
    /\ Running(p) /\ pc[p] = "kstack"
    /\ LET q == np[p]
       IN  /\ ctime' = [ctime EXCEPT ![q] = ticks]
           /\ ttime' = [ttime EXCEPT ![q] = 0]
           /\ times' = [times EXCEPT ![q] = NoTimes]
    /\ pc' = [pc EXCEPT ![p] = "copy"]
    /\ UNCHANGED <<load, tableVars, np, ticks>>

\* Variant: a failed fork() gives its pid back.
NoMemory_repid(p) ==
    /\ Running(p) /\ pc[p] \in {"kstack", "copy"}
    /\ state' = [state EXCEPT ![np[p]] = "UNUSED"]
    /\ nextpid' = nextpid - 1
    /\ np' = [np EXCEPT ![p] = NoProc]
    /\ pc' = [pc EXCEPT ![p] = "user"]
    /\ UNCHANGED <<load, pid, parent, chan, killed, timeVars>>

\* No memory for the stack or for copyuvm(): the slot is given back, without
\* ptable.lock and with its pid still in it.
NoMemory(p) ==
    /\ Running(p) /\ pc[p] \in {"kstack", "copy"}
    /\ state' = [state EXCEPT ![np[p]] = "UNUSED"]
    /\ np' = [np EXCEPT ![p] = NoProc]
    /\ pc' = [pc EXCEPT ![p] = "user"]
    /\ UNCHANGED <<load, pid, parent, chan, killed, nextpid, timeVars>>

\* The child is complete and may be scheduled; it starts in user mode.
fork_done(p) ==
    /\ Running(p) /\ pc[p] = "copy"
    /\ LET q == np[p]
       IN  /\ parent' = [parent EXCEPT ![q] = p]
           /\ state' = [state EXCEPT ![q] = "RUNNABLE"]
           /\ pc' = [pc EXCEPT ![p] = "user", ![q] = "user"]
    /\ np' = [np EXCEPT ![p] = NoProc]
    /\ UNCHANGED <<load, pid, chan, killed, nextpid, timeVars>>

-----------------------------------------------------------------------------
(* exit(), wait() and wait_stat() *)

Kids(p) == {q \in Slot : parent[q] = p}

\* Variants: the children stay with the dead process; init inherits zombies
\* without being woken; the parent is not woken either.
exit_abandon(p) ==
    /\ Running(p) /\ pc[p] = "exit"
    /\ state' = [wakeup1(state, parent[p]) EXCEPT ![p] = "ZOMBIE"]
    /\ ttime' = [ttime EXCEPT ![p] = ticks]
    /\ UNCHANGED <<load, pid, parent, chan, killed, nextpid, codeVars, ticks, ctime,
                   times>>

exit_quiet(p) ==
    /\ Running(p) /\ pc[p] = "exit"
    /\ parent' = [q \in Slot |-> IF parent[q] = p THEN initproc ELSE parent[q]]
    /\ state' = [wakeup1(state, parent[p]) EXCEPT ![p] = "ZOMBIE"]
    /\ ttime' = [ttime EXCEPT ![p] = ticks]
    /\ UNCHANGED <<load, pid, chan, killed, nextpid, codeVars, ticks, ctime, times>>

exit_silent(p) ==
    /\ Running(p) /\ pc[p] = "exit"
    /\ parent' = [q \in Slot |-> IF parent[q] = p THEN initproc ELSE parent[q]]
    /\ state' = [state EXCEPT ![p] = "ZOMBIE"]
    /\ ttime' = [ttime EXCEPT ![p] = ticks]
    /\ UNCHANGED <<load, pid, chan, killed, nextpid, codeVars, ticks, ctime, times>>

\* exit() from acquire(&ptable.lock) on, its files closed.
exit(p) ==
    /\ Running(p) /\ pc[p] = "exit"
    /\ LET kids == Kids(p)
           woken == wakeup1(state, parent[p])
           st == IF \E q \in kids : woken[q] = "ZOMBIE"
                 THEN wakeup1(woken, initproc) ELSE woken
       IN  /\ parent' = [q \in Slot |-> IF q \in kids THEN initproc
                                        ELSE parent[q]]
           /\ state' = [st EXCEPT ![p] = "ZOMBIE"]
    /\ ttime' = [ttime EXCEPT ![p] = ticks]
    /\ UNCHANGED <<load, pid, chan, killed, nextpid, codeVars, ticks, ctime, times>>

ZombieKids(p) == {q \in Kids(p) : state[q] = "ZOMBIE"}

\* One scan of the table by wait() or wait_stat(): the first zombie child in
\* table order is freed.
Scan(p) ==
    /\ Running(p)
    /\ LET z == First(ZombieKids(p))
       IN  IF ZombieKids(p) # {}
           THEN /\ state' = [state EXCEPT ![z] = "UNUSED"]
                /\ pid' = [pid EXCEPT ![z] = 0]
                /\ parent' = [parent EXCEPT ![z] = NoProc]
                /\ killed' = [killed EXCEPT ![z] = FALSE]
                /\ pc' = [pc EXCEPT ![p] = "user"]
                /\ UNCHANGED chan
           ELSE IF Kids(p) = {} \/ killed[p]
           THEN /\ pc' = [pc EXCEPT ![p] = "user"]
                /\ UNCHANGED <<state, pid, parent, chan, killed>>
           ELSE /\ state' = [state EXCEPT ![p] = "SLEEPING"]
                /\ chan' = [chan EXCEPT ![p] = p]
                /\ UNCHANGED <<pid, parent, killed, pc>>
    /\ UNCHANGED <<load, nextpid, np, ticks>>

wait(p) ==
    /\ pc[p] = "wait" /\ Scan(p)
    /\ UNCHANGED <<ctime, ttime, times>>

\* wait_stat() also reports and clears the times.
wait_stat(p) ==
    /\ pc[p] = "wait_stat" /\ Scan(p)
    /\ LET z == First(ZombieKids(p))
       IN  IF ZombieKids(p) # {}
           THEN /\ ctime' = [ctime EXCEPT ![z] = 0]
                /\ ttime' = [ttime EXCEPT ![z] = 0]
                /\ times' = [times EXCEPT ![z] = NoTimes]
           ELSE UNCHANGED <<ctime, ttime, times>>

-----------------------------------------------------------------------------
(* kill(), and every other sleep and wakeup *)

\* Variant: a sleeping victim is left asleep.
kill_asleep(p, n) ==
    /\ Running(p) /\ pc[p] = "kill"
    /\ killed' = [q \in Slot |-> killed[q] \/ pid[q] = n]
    /\ pc' = [pc EXCEPT ![p] = "user"]
    /\ UNCHANGED <<load, state, pid, parent, chan, nextpid, np, timeVars>>

\* kill(n) marks the first slot whose pid is n, whatever its state.
kill(p, n) ==
    /\ Running(p) /\ pc[p] = "kill"
    /\ LET found == {q \in Slot : pid[q] = n}
           q == First(found)
       IN  IF found = {}
           THEN UNCHANGED <<state, killed, ttime>>
           ELSE /\ killed' = [killed EXCEPT ![q] = TRUE]
                /\ ttime' = [ttime EXCEPT ![q] = ticks]
                /\ state' = IF state[q] = "SLEEPING"
                            THEN [state EXCEPT ![q] = "RUNNABLE"] ELSE state
    /\ pc' = [pc EXCEPT ![p] = "user"]
    /\ UNCHANGED <<load, pid, parent, chan, nextpid, np, ticks, ctime, times>>

\* A wait for an event, in a system call or in exit() as it closes the files:
\* sleep(IO, lk) in a loop, or sleep(INPUT, lk) of a pipe or the console, whose
\* condition is tested again on waking.
sleep(p) ==
    /\ Running(p) /\ pc[p] \in {"io", "exit", "block"}
    /\ state' = [state EXCEPT ![p] = "SLEEPING"]
    /\ chan' = [chan EXCEPT ![p] = IF pc[p] = "block" THEN INPUT ELSE IO]
    /\ pc' = [pc EXCEPT ![p] = IF @ = "block" THEN "input" ELSE @]
    /\ UNCHANGED <<load, pid, parent, killed, nextpid, np, timeVars>>

\* Its condition holds, or it finds itself killed: it returns.
io_done(p) ==
    /\ Running(p) /\ pc[p] \in {"io", "input"}
    /\ pc' = [pc EXCEPT ![p] = "user"]
    /\ UNCHANGED <<load, tableVars, np, timeVars>>

\* piperead(), pipewrite() or consoleread() has nothing to do yet and sees that
\* it is not killed: it holds the pipe's or the console's lock, not ptable.lock.
input(p) ==
    /\ Running(p) /\ pc[p] = "input" /\ ~killed[p]
    /\ pc' = [pc EXCEPT ![p] = "block"]
    /\ UNCHANGED <<load, tableVars, np, timeVars>>

\* An interrupt handler or another process signals the event.
wakeup(c) ==
    /\ state' = wakeup1(state, c)
    /\ UNCHANGED <<load, pid, parent, chan, killed, nextpid, codeVars, timeVars>>

-----------------------------------------------------------------------------
\* Nobody kills init, whose exit is a panic.
Targets == (0..load.pids) \ {1}

Step(p) ==
    \/ fork(p) \/ allocproc(p) \/ NoMemory(p) \/ fork_done(p)
    \/ exit(p) \/ wait(p) \/ wait_stat(p)
    \/ \E n \in Targets : kill(p, n)
    \/ sleep(p) \/ io_done(p) \/ input(p)

Next ==
    \/ \E p \in Slot :
          \/ \E call \in load.calls : Enter(p, call)
          \/ Fault(p) \/ Step(p)
          \/ scheduler(p) \/ yield(p)
    \/ Tick \/ wakeup(IO) \/ wakeup(INPUT)

Spec == Init /\ [][Next]_vars

-----------------------------------------------------------------------------
(* Properties. *)

States == {"UNUSED", "EMBRYO", "SLEEPING", "RUNNABLE", "RUNNING", "ZOMBIE"}

Place == AllCalls \cup {"user", "kstack", "copy", "block"}

\* Every field of struct proc, and the place of every process in its call, has a
\* value of its kind.
TypeOK ==
    /\ state \in [Slot -> States]
    /\ pid \in [Slot -> Nat] /\ nextpid \in Nat
    /\ parent \in [Slot -> Slot \cup {NoProc}]
    /\ chan \in [Slot -> Chan]
    /\ killed \in [Slot -> BOOLEAN]
    /\ pc \in [Slot -> Place]
    /\ np \in [Slot -> Slot \cup {NoProc}]
    /\ ticks \in Nat
    /\ ctime \in [Slot -> Nat] /\ ttime \in [Slot -> Nat]
    /\ times \in [Slot -> [ru : Nat, s : Nat, re : Nat]]

Active == {p \in Slot : state[p] \in {"SLEEPING", "RUNNABLE", "RUNNING"}}
Zombies == {p \in Slot : state[p] = "ZOMBIE"}

\* Every process but init, dead or alive, has a parent that has not exited, so
\* that somebody can wait for it: exit() leaves no orphan behind, in whatever
\* order parents and children exit.
ParentsAlive ==
    /\ initproc \in Active
    /\ \A p \in (Active \cup Zombies) \ {initproc} : parent[p] \in Active

\* A process asleep in wait() still has a child to wait for, none of its
\* children is already a zombie, and it has not been killed: neither exit(),
\* its own child's or that of a process whose zombies it inherits, nor kill()
\* can slip in between wait()'s scan and its sleep.
NoMissedWakeup ==
    \A p \in Slot : state[p] = "SLEEPING" /\ chan[p] = p =>
        /\ \E q \in Slot : parent[q] = p
        /\ \A q \in Zombies : parent[q] # p
        /\ ~killed[p]

\* No two processes in the table, or a process and one being created, have the
\* same pid, so that kill() and wait() name one process.
PidsUnique ==
    \A p, q \in Slot :
        state[p] # "UNUSED" /\ state[q] # "UNUSED" /\ pid[p] = pid[q] => p = q

\* A slot being filled in by fork() belongs to exactly one process that is
\* still in fork(): two fork()s never share a slot and none is lost.
EmbryosOwned ==
    \A q \in Slot : state[q] = "EMBRYO" <=> \E p \in Active : np[p] = q

\* allocproc() and fork(), failed or not, leave a table in which every slot in
\* use has one owner and one name.
TableKept == TypeOK /\ PidsUnique /\ EmbryosOwned

Total(p) == times[p].ru + times[p].s + times[p].re

\* The times wait_stat() reports never add up to more than the time since the
\* process was created, nor, once it is dead, to more than its life: what
\* update_stat() counted for an earlier process in the slot is never reported.
Accounting ==
    /\ \A p \in Active : ctime[p] + Total(p) <= ticks
    /\ \A p \in Zombies : ctime[p] + Total(p) <= ttime[p]

\* kill() ends "the process with the given pid": a new process starts its life
\* not killed.
BornAlive ==
    [][\A q \in Slot : state[q] = "UNUSED" /\ state'[q] = "EMBRYO" => ~killed'[q]]_vars

-----------------------------------------------------------------------------
(* What the proofs need beyond the properties. *)

InFork(p) == pc[p] \in {"kstack", "copy"}

\* fork() has a slot of its own from allocproc() on; it may lose the processor
\* there, but it does not sleep.
Forks ==
    /\ \A p \in Slot :
          /\ InFork(p) <=> np[p] # NoProc
          /\ InFork(p) => state[p] \in {"RUNNABLE", "RUNNING"} /\ state[np[p]] = "EMBRYO"
          /\ state[p] = "EMBRYO" => \E q \in Slot : np[q] = p
    /\ \A p, q \in Slot : np[p] # NoProc /\ np[p] = np[q] => p = q

\* Init has no parent and never exits, no process is its own parent, and a slot
\* without a process is nobody's child.
Family ==
    /\ parent[initproc] = NoProc /\ pc[initproc] # "exit"
    /\ \A p \in Slot :
          /\ parent[p] # p
          /\ state[p] \in {"UNUSED", "EMBRYO"} => parent[p] = NoProc

\* Nothing is dated in the future, and the times of a process about to be born
\* have been cleared.
Dates ==
    \A p \in Slot :
        /\ ttime[p] <= ticks
        /\ pc[p] = "copy" => ctime[np[p]] + Total(np[p]) <= ticks

\* The inductive invariant behind the safety properties.
ProcInv ==
    /\ TypeOK /\ load \in Load
    /\ Forks /\ Family /\ ParentsAlive /\ NoMissedWakeup
    /\ PidsUnique /\ \A p \in Slot : pid[p] < nextpid
    /\ Dates /\ Accounting

-----------------------------------------------------------------------------
(* Liveness. The scheduler scans the whole table again and again, so a       *)
(* runnable process is not passed over for ever, and the timer takes the     *)
(* processor from a running one; a process that gets the processor again and *)
(* again gets through the system call it is in; init calls wait() for ever;  *)
(* the disk answers, and who holds a buffer, an inode or the log lets it go. *)
(* Nothing is assumed of what other programs choose to do: nobody need ever  *)
(* write to the pipe or type the line that a process waits for.              *)

\* The step with which p gets on with the system call it is in, or goes to
\* its death in trap().
Progress(p) ==
    \/ fork(p) \/ allocproc(p) \/ NoMemory(p) \/ fork_done(p)
    \/ exit(p) \/ wait(p) \/ wait_stat(p)
    \/ (pc[p] = "io" \/ killed[p]) /\ io_done(p)
    \/ pc[p] = "block" /\ sleep(p)
    \/ \E n \in Targets : kill(p, n)
    \/ killed[p] /\ Enter(p, "exit")

Fairness ==
    /\ \A p \in Slot :
          SF_vars(scheduler(p)) /\ SF_vars(Progress(p)) /\ WF_vars(yield(p))
    /\ SF_vars(Enter(initproc, "wait"))
    /\ WF_vars(wakeup(IO))

FairSpec == Spec /\ Fairness

\* A zombie whose parent is init, its own or inherited from a process that
\* exited without waiting, is eventually freed.
OrphansReaped ==
    \A q \in Slot : state[q] = "ZOMBIE" /\ parent[q] = initproc
                        ~> state[q] = "UNUSED"

\* Asleep on a pipe or the console though it is killed: kill() came after the
\* test of proc->killed and before the sleep(), and found nobody to wake.
MissedKill(q) == state[q] = "SLEEPING" /\ chan[q] = INPUT /\ killed[q]

\* A process that is killed eventually exits, whatever the other programs do and
\* wherever kill() finds it, in user mode, ready, in fork(), asleep in wait() or
\* waiting for input, except in one place: between the test of proc->killed and
\* the sleep() of a pipe or the console.
KilledExit ==
    \A q \in Slot : q \in Active /\ killed[q] ~> q \notin Active \/ MissedKill(q)

=============================================================================
