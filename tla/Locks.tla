------------------------------- MODULE Locks --------------------------------
(***************************************************************************)
(* The kernel's spin locks at the level of single acquire() and release()  *)
(* calls: several processors, each with its interrupt flag and its count   *)
(* of pushcli()s, run the lock operations of the kernel's functions and    *)
(* take interrupts whenever they are enabled.                              *)
(*                                                                         *)
(* A kernel function is the sequence of its lock operations.  A process    *)
(* that gives up the processor is followed to its resumption: sched() is   *)
(* the switch to scheduler(), which releases ptable.lock, enables the      *)
(* interrupts, acquires ptable.lock again and switches back.               *)
(***************************************************************************)
EXTENDS Integers, Sequences

CONSTANTS
    NCPU,      \* processors of the machine
    LeftOut,   \* kernel functions not called when several processors run
    MaxDepth   \* bound: interrupts taken inside one another

ASSUME LocksConstants == NCPU \in Nat \ {0} /\ MaxDepth \in Nat

CPU == 0..(NCPU - 1)
NoCPU == NCPU

\* "lk" stands for a lock that a sleeping function passes to sleep(): those
\* of the log, the inode and buffer caches, the disk driver, the console and
\* a pipe.  "kmem" is the one of the page allocator.
Lock == {"ptable", "tickslock", "lk", "kmem"}

acq(l) == <<"acquire", l>>
rel(l) == <<"release", l>>
sched == <<"sched", "ptable">>

Held(l, ops) == <<acq(l)>> \o ops \o <<rel(l)>>

\* Variants: lk stays locked in sched(); lk is taken back before ptable.lock is
\* released.
sleep_locked(l) == <<acq("ptable"), sched, rel("ptable")>>
sleep_reversed(l) == <<acq("ptable"), rel(l), sched, acq(l), rel("ptable")>>

\* sleep(chan, lk): ptable.lock is taken before lk is given up.
sleep(l) == <<acq("ptable"), rel(l), sched, rel("ptable"), acq(l)>>
wakeup == Held("ptable", <<>>)
update_stat == Held("ptable", <<>>)
yield == Held("ptable", <<sched>>)

Syscalls == {"fork", "exit", "wait", "kill", "sleep", "uptime", "block",
             "unblock"}

\* What a system call does with locks.  "block" and "unblock" are the two
\* sides of every wait for an event, such as piperead() and pipewrite().
Code(f) ==
    CASE f = "fork"    -> Held("ptable", <<>>) \o Held("kmem", <<>>)
                          \o Held("tickslock", <<>>) \o Held("ptable", <<>>)
      [] f = "exit"    -> Held("ptable", Held("tickslock", <<>>) \o <<sched>>)
      [] f = "wait"    -> Held("ptable", <<sched>> \o Held("kmem", <<>>))
      [] f = "kill"    -> Held("ptable", Held("tickslock", <<>>))
      [] f = "sleep"   -> Held("tickslock", sleep("tickslock"))
      [] f = "uptime"  -> Held("tickslock", <<>>)
      [] f = "block"   -> Held("lk", sleep("lk"))
      [] f = "unblock" -> Held("lk", wakeup)

\* The interrupt handlers of trap(): the clock, which cpu 0 counts and which
\* takes the processor from a process, and a device's.
timer(c, inProcess) ==
    (IF c = 0 THEN Held("tickslock", update_stat \o wakeup) ELSE <<>>)
    \o (IF inProcess THEN yield ELSE <<>>)
device == Held("lk", wakeup)

VARIABLES
    started,  \* the processors that main() has started
    holder,   \* the processor that has locked each lock
    todo,     \* the operations each processor has still to do
    stacked,  \* those of the code that its interrupts interrupted
    spinning, \* it is in acquire(), past pushcli()
    flag,     \* its interrupt flag
    ncli,     \* cpu.ncli
    intena,   \* cpu.intena
    proc,     \* whether it runs a process or the scheduler
    saved,    \* the intena that sched() keeps for the process
    panicked  \* some panic() was reached

vars == <<started, holder, todo, stacked, spinning, flag, ncli, intena, proc,
          saved, panicked>>

Init ==
    /\ started \in {0..n : n \in CPU}
    /\ holder = [l \in Lock |-> NoCPU]
    /\ todo = [c \in CPU |-> <<>>] /\ stacked = [c \in CPU |-> <<>>]
    /\ spinning = [c \in CPU |-> FALSE]
    /\ flag = [c \in CPU |-> TRUE]
    /\ ncli = [c \in CPU |-> 0] /\ intena = [c \in CPU |-> TRUE]
    /\ proc = [c \in CPU |-> TRUE] /\ saved = [c \in CPU |-> TRUE]
    /\ panicked = FALSE

Does(c, kind) == ~panicked /\ todo[c] # <<>> /\ Head(todo[c])[1] = kind
Subject(c) == Head(todo[c])[2]
Pop(c) == todo' = [todo EXCEPT ![c] = Tail(@)]

\* A process in user mode makes a system call.
Syscall(c, f) ==
    /\ ~panicked /\ todo[c] = <<>> /\ stacked[c] = <<>>
    /\ started # {0} => f \notin LeftOut
    /\ todo' = [todo EXCEPT ![c] = Code(f)]
    /\ UNCHANGED <<holder, stacked, spinning, flag, ncli, intena, proc, saved,
                   panicked>>

\* An interrupt is taken through an interrupt gate, with interrupts off.
Interrupt(c, ops) ==
    /\ ~panicked /\ flag[c] /\ Len(stacked[c]) < MaxDepth
    /\ stacked' = [stacked EXCEPT ![c] = <<todo[c]>> \o @]
    /\ todo' = [todo EXCEPT ![c] = Append(ops, <<"iret", "ptable">>)]
    /\ flag' = [flag EXCEPT ![c] = FALSE]
    /\ UNCHANGED <<holder, spinning, ncli, intena, proc, saved, panicked>>

\* The return from the interrupt restores the interrupt flag.
iret(c) ==
    /\ Does(c, "iret")
    /\ todo' = [todo EXCEPT ![c] = Head(stacked[c])]
    /\ stacked' = [stacked EXCEPT ![c] = Tail(@)]
    /\ flag' = [flag EXCEPT ![c] = TRUE]
    /\ UNCHANGED <<holder, spinning, ncli, intena, proc, saved, panicked>>

\* Variant: pushcli() records intena every time.
pushcli_nested(c) ==
    /\ flag' = [flag EXCEPT ![c] = FALSE]
    /\ ncli' = [ncli EXCEPT ![c] = @ + 1]
    /\ intena' = [intena EXCEPT ![c] = flag[c]]

pushcli(c) ==
    /\ flag' = [flag EXCEPT ![c] = FALSE]
    /\ ncli' = [ncli EXCEPT ![c] = @ + 1]
    /\ intena' = IF ncli[c] = 0 THEN [intena EXCEPT ![c] = flag[c]] ELSE intena

\* popcli(): the interrupts come back with the last popcli(), and only if
\* they were on before the first pushcli().
popcli(c) ==
    /\ ncli' = [ncli EXCEPT ![c] = @ - 1]
    /\ flag' = [flag EXCEPT ![c] = @ \/ (ncli[c] = 1 /\ intena[c])]
    /\ panicked' = (panicked \/ flag[c] \/ ncli[c] < 1)

\* acquire() as far as the loop on xchg() ...
acquire(c) ==
    /\ Does(c, "acquire") /\ ~spinning[c]
    /\ pushcli(c)
    /\ spinning' = [spinning EXCEPT ![c] = TRUE]
    /\ panicked' = (holder[Subject(c)] = c)
    /\ UNCHANGED <<holder, todo, stacked, proc, saved>>

\* ... and the xchg() that finds the lock free.
xchg(c) ==
    /\ Does(c, "acquire") /\ spinning[c]
    /\ holder[Subject(c)] = NoCPU
    /\ holder' = [holder EXCEPT ![Subject(c)] = c]
    /\ spinning' = [spinning EXCEPT ![c] = FALSE]
    /\ Pop(c)
    /\ UNCHANGED <<stacked, flag, ncli, intena, proc, saved, panicked>>

release(c) ==
    /\ Does(c, "release")
    /\ IF holder[Subject(c)] # c
       THEN panicked' = TRUE /\ UNCHANGED <<holder, flag, ncli>>
       ELSE /\ holder' = [holder EXCEPT ![Subject(c)] = NoCPU]
            /\ popcli(c)
    /\ Pop(c)
    /\ UNCHANGED <<stacked, spinning, intena, proc, saved>>

\* sched() switches to the scheduler, which looks for a process again.
Sched(c) ==
    /\ Does(c, "sched")
    /\ IF holder["ptable"] # c \/ ncli[c] # 1 \/ flag[c]
       THEN panicked' = TRUE /\ UNCHANGED <<todo, proc, saved>>
       ELSE /\ saved' = [saved EXCEPT ![c] = intena[c]]
            /\ proc' = [proc EXCEPT ![c] = FALSE]
            /\ todo' = [todo EXCEPT ![c] =
                  <<rel("ptable"), <<"sti", "ptable">>, acq("ptable"),
                    <<"swtch", "ptable">>>> \o Tail(@)]
            /\ UNCHANGED panicked
    /\ UNCHANGED <<holder, stacked, spinning, flag, ncli, intena>>

sti(c) ==
    /\ Does(c, "sti")
    /\ flag' = [flag EXCEPT ![c] = TRUE]
    /\ Pop(c)
    /\ UNCHANGED <<holder, stacked, spinning, ncli, intena, proc, saved,
                   panicked>>

\* The scheduler switches back to a process, which returns from sched().
swtch(c) ==
    /\ Does(c, "swtch")
    /\ proc' = [proc EXCEPT ![c] = TRUE]
    /\ intena' = [intena EXCEPT ![c] = saved[c]]
    /\ Pop(c)
    /\ UNCHANGED <<holder, stacked, spinning, flag, ncli, saved, panicked>>

Next ==
    /\ UNCHANGED started
    /\ \E c \in started :
        \/ \E f \in Syscalls : Syscall(c, f)
        \/ Interrupt(c, timer(c, proc[c])) \/ Interrupt(c, device) \/ iret(c)
        \/ acquire(c) \/ xchg(c) \/ release(c)
        \/ Sched(c) \/ sti(c) \/ swtch(c)

Spec == Init /\ [][Next]_vars

-----------------------------------------------------------------------------
(* Properties. *)

\* A processor never counts below zero pushcli()s and holds what it says.
TypeOK ==
    /\ started \subseteq CPU
    /\ holder \in [Lock -> CPU \cup {NoCPU}]
    /\ ncli \in [CPU -> Nat] /\ intena \in [CPU -> BOOLEAN]
    /\ flag \in [CPU -> BOOLEAN] /\ spinning \in [CPU -> BOOLEAN]
    /\ proc \in [CPU -> BOOLEAN] /\ saved \in [CPU -> BOOLEAN]
    /\ panicked \in BOOLEAN

\* None of the checks that acquire(), release(), popcli() and sched() make
\* fails: no processor acquires a lock it has, not in an interrupt handler
\* either, none calls sched() with another lock held or interrupts on.
NoPanic == ~panicked

\* Interrupts are off on a processor for as long as it holds a lock or spins
\* for one, whatever locks it takes and releases in between and across every
\* switch to the scheduler and back; and they are on in user mode.
InterruptsOff ==
    /\ TypeOK
    /\ \A c \in CPU :
        /\ (\E l \in Lock : holder[l] = c) \/ spinning[c] => ~flag[c]
        /\ todo[c] = <<>> => flag[c]

Spins(c, d) == spinning[c] /\ holder[Subject(c)] = d

\* No group of processors is stuck, each spinning in acquire() for a lock that
\* another one of the group holds.
NoDeadlock ==
    ~ \E S \in SUBSET CPU : S # {} /\ \A c \in S : \E d \in S : Spins(c, d)

=============================================================================
