----------------------------- MODULE AtomicDisk -----------------------------
(***************************************************************************)
(* What log.c promises to the file system: a disk on which the writes of   *)
(* concurrent file system calls become durable together, at a moment when  *)
(* no call is in progress.  A crash brings back the last durable contents, *)
(* so after a reboot every system call happened entirely or not at all.    *)
(***************************************************************************)

CONSTANTS
    Proc,    \* the processes that make file system calls
    Home,    \* the block numbers of the file system proper
    Data     \* the contents a block can have

VARIABLES
    durable, \* durable[b]: the contents of b after a crash and recovery
    visible, \* visible[b]: the contents of b that bread() returns
    active   \* the processes between begin_op() and end_op()

vars == <<durable, visible, active>>

Init ==
    /\ durable \in [Home -> Data]
    /\ visible = durable
    /\ active = {}

Begin(p) ==
    /\ p \notin active
    /\ active' = active \cup {p}
    /\ UNCHANGED <<durable, visible>>

Write(p, b, d) ==
    /\ p \in active
    /\ visible' = [visible EXCEPT ![b] = d]
    /\ UNCHANGED <<durable, active>>

End(p) ==
    /\ p \in active
    /\ active' = active \ {p}
    /\ UNCHANGED <<durable, visible>>

(***************************************************************************)
(* Everything written so far becomes durable at once, between calls.       *)
(***************************************************************************)
Commit ==
    /\ active = {}
    /\ durable' = visible
    /\ UNCHANGED <<visible, active>>

Crash ==
    /\ visible' = durable
    /\ active' = {}
    /\ UNCHANGED durable

Next ==
    \/ \E p \in Proc : Begin(p) \/ End(p)
    \/ \E p \in Proc, b \in Home, d \in Data : Write(p, b, d)
    \/ Commit
    \/ Crash

Spec == Init /\ [][Next]_vars

=============================================================================
