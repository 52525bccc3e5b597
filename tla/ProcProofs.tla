----------------------------- MODULE ProcProofs -----------------------------
(***************************************************************************)
(* Proofs about Proc, for a table of any size and every load: any number   *)
(* of processors, any choice of system calls, any number of forks.         *)
(***************************************************************************)
EXTENDS Proc, WellFoundedInduction, TLAPS

\* The provers: Zenon where nothing else is named, SMT where a step needs arithmetic
\* or much case analysis.
USE Zenon

-----------------------------------------------------------------------------
(* What the actions do, without First. *)

\* A scan of the table in order finds an entry if there is one.
LEMMA FirstIn ==
    ASSUME NEW S, S \subseteq Slot, S # {}
    PROVE  First(S) \in S
  <1> DEFINE R == OpToRel(<, Nat)
  <1>1. IsWellFoundedOn(R, Nat)
    BY NatLessThanWellFounded
  <1>2. S \subseteq Nat
    BY ProcConstants, SMT DEF Slot
  <1>3. \A x, y \in Nat : <<y, x>> \in R <=> y < x
    BY DEF OpToRel
  <1> HIDE DEF R
  <1>4. PICK x \in S : \A y \in S : ~(<<y, x>> \in R)
    BY <1>1, <1>2, WFMin
  <1>5. ASSUME NEW y \in S
        PROVE  x <= y
    <2>1. x \in Nat /\ y \in Nat
      BY <1>2
    <2>2. ~(y < x)
      BY <1>3, <1>4, <2>1
    <2> QED
      BY <2>1, <2>2, SMT
  <1> QED
    BY <1>5 DEF First

\* allocproc() takes some slot that is free.
Takes(p, q) ==
    /\ state[q] = "UNUSED"
    /\ state' = [state EXCEPT ![q] = "EMBRYO"]
    /\ pid' = [pid EXCEPT ![q] = nextpid]
    /\ nextpid' = nextpid + 1
    /\ np' = [np EXCEPT ![p] = q]
    /\ pc' = [pc EXCEPT ![p] = "kstack"]
    /\ UNCHANGED <<parent, chan, killed>>

\* fork() takes a free slot of the table and fills it.
LEMMA ForkTakes ==
    ASSUME NEW p \in Slot, fork(p)
    PROVE  /\ Running(p) /\ pc[p] = "fork" /\ UNCHANGED <<load, timeVars>>
           /\ \/ pc' = [pc EXCEPT ![p] = "user"] /\ UNCHANGED <<tableVars, np>>
              \/ \E q \in Slot : Takes(p, q)
  <1>1. CASE Unused = {}
    BY <1>1 DEF fork
  <1>2. CASE Unused # {}
    <2>1. First(Unused) \in Unused
      BY <1>2, FirstIn DEF Unused
    <2> QED
      BY <1>2, <2>1 DEF fork, Takes, Unused
  <1> QED
    BY <1>1, <1>2

\* wait() frees some zombie child, returns, or sleeps.
Reaps(p, z) ==
    /\ parent[z] = p /\ state[z] = "ZOMBIE"
    /\ state' = [state EXCEPT ![z] = "UNUSED"]
    /\ pid' = [pid EXCEPT ![z] = 0]
    /\ parent' = [parent EXCEPT ![z] = NoProc]
    /\ killed' = [killed EXCEPT ![z] = FALSE]
    /\ pc' = [pc EXCEPT ![p] = "user"]
    /\ UNCHANGED chan
    /\ \/ UNCHANGED <<ctime, ttime, times>>
       \/ /\ ctime' = [ctime EXCEPT ![z] = 0]
          /\ ttime' = [ttime EXCEPT ![z] = 0]
          /\ times' = [times EXCEPT ![z] = NoTimes]

Returns(p) ==
    /\ pc' = [pc EXCEPT ![p] = "user"]
    /\ UNCHANGED <<state, pid, parent, chan, killed, ctime, ttime, times>>

FallsAsleep(p) ==
    /\ \E q \in Slot : parent[q] = p
    /\ \A q \in Slot : ~(parent[q] = p /\ state[q] = "ZOMBIE")
    /\ ~killed[p]
    /\ state' = [state EXCEPT ![p] = "SLEEPING"]
    /\ chan' = [chan EXCEPT ![p] = p]
    /\ UNCHANGED <<pid, parent, killed, pc, ctime, ttime, times>>

\* wait() frees a zombie child, fails, or sleeps.
LEMMA WaitDoes ==
    ASSUME NEW p \in Slot, wait(p) \/ wait_stat(p)
    PROVE  /\ Running(p) /\ pc[p] \in {"wait", "wait_stat"}
           /\ UNCHANGED <<load, nextpid, np, ticks>>
           /\ \/ \E z \in Slot : Reaps(p, z)
              \/ Returns(p)
              \/ FallsAsleep(p)
  <1>1. CASE ZombieKids(p) # {}
    <2>1. First(ZombieKids(p)) \in ZombieKids(p)
      BY <1>1, FirstIn DEF ZombieKids, Kids
    <2>2. Reaps(p, First(ZombieKids(p)))
      BY <1>1, <2>1 DEF wait, wait_stat, Scan, Reaps, ZombieKids, Kids
    <2> QED
      BY <2>1, <2>2 DEF wait, wait_stat, Scan, ZombieKids, Kids
  <1>2. CASE ZombieKids(p) = {}
    BY <1>2 DEF wait, wait_stat, Scan, Returns, FallsAsleep, ZombieKids, Kids
  <1> QED
    BY <1>1, <1>2

\* kill() marks one slot and wakes it, or finds none.
Marks(q) ==
    /\ killed' = [killed EXCEPT ![q] = TRUE]
    /\ ttime' = [ttime EXCEPT ![q] = ticks]
    /\ state' = IF state[q] = "SLEEPING" THEN [state EXCEPT ![q] = "RUNNABLE"] ELSE state

\* kill() marks a process and makes it runnable if it sleeps.
LEMMA KillMarks ==
    ASSUME NEW p \in Slot, NEW n \in Targets, kill(p, n)
    PROVE  /\ Running(p) /\ pc[p] = "kill" /\ pc' = [pc EXCEPT ![p] = "user"]
           /\ UNCHANGED <<load, pid, parent, chan, nextpid, np, ticks, ctime, times>>
           /\ \/ UNCHANGED <<state, killed, ttime>>
              \/ \E q \in Slot : Marks(q)
  <1> DEFINE found == {q \in Slot : pid[q] = n}
  <1>1. CASE found = {}
    BY <1>1 DEF kill
  <1>2. CASE found # {}
    <2>1. First(found) \in found
      BY <1>2, FirstIn
    <2>2. First(found) \in Slot
      BY <2>1
    <2> HIDE DEF found
    <2> QED
      BY <1>2, <2>2 DEF kill, Marks, found
  <1> QED
    BY <1>1, <1>2

\* exit() makes a zombie, hands over the children, and wakes the parent, and
\* init if it inherits a zombie.
LEMMA ExitDoes ==
    ASSUME TypeOK, NEW p \in Slot, exit(p)
    PROVE  /\ Running(p) /\ pc[p] = "exit"
           /\ UNCHANGED <<load, pid, chan, killed, nextpid, codeVars, ticks, ctime, times>>
           /\ ttime' = [ttime EXCEPT ![p] = ticks]
           /\ parent' = [q \in Slot |-> IF parent[q] = p THEN initproc ELSE parent[q]]
           /\ state' \in [Slot -> States] /\ state'[p] = "ZOMBIE"
           /\ \A q \in Slot \ {p} :
                 /\ \/ state'[q] = state[q]
                    \/ state[q] = "SLEEPING" /\ state'[q] = "RUNNABLE"
                 /\ chan[q] = parent[p] => state'[q] # "SLEEPING"
                 /\ /\ chan[q] = initproc
                    /\ \E z \in Slot : parent[z] = p /\ state[z] = "ZOMBIE"
                    => state'[q] # "SLEEPING"
  <1> DEFINE woken == wakeup1(state, parent[p])
             st == IF \E q \in Kids(p) : woken[q] = "ZOMBIE"
                   THEN wakeup1(woken, initproc) ELSE woken
  <1>0. state \in [Slot -> States] /\ "RUNNABLE" \in States /\ "ZOMBIE" \in States
    BY DEF TypeOK, States
  <1>1. /\ woken \in [Slot -> States]
        /\ \A q \in Slot : woken[q] = IF state[q] = "SLEEPING" /\ chan[q] = parent[p]
                                      THEN "RUNNABLE" ELSE state[q]
    BY <1>0 DEF wakeup1
  <1> HIDE DEF woken
  <1>2. /\ wakeup1(woken, initproc) \in [Slot -> States]
        /\ \A q \in Slot :
              wakeup1(woken, initproc)[q] = IF woken[q] = "SLEEPING" /\ chan[q] = initproc
                                            THEN "RUNNABLE" ELSE woken[q]
    BY <1>0, <1>1 DEF wakeup1
  <1>3. /\ st \in [Slot -> States]
        /\ \A q \in Slot :
              /\ st[q] = state[q] \/ (state[q] = "SLEEPING" /\ st[q] = "RUNNABLE")
              /\ chan[q] = parent[p] => st[q] # "SLEEPING"
              /\ /\ chan[q] = initproc
                 /\ \E z \in Slot : parent[z] = p /\ state[z] = "ZOMBIE"
                 => st[q] # "SLEEPING"
    <2>1. CASE \E q \in Kids(p) : woken[q] = "ZOMBIE"
      BY <1>1, <1>2, <2>1
    <2>2. CASE ~ \E q \in Kids(p) : woken[q] = "ZOMBIE"
      <3>1. ~ \E z \in Slot : parent[z] = p /\ state[z] = "ZOMBIE"
        BY <1>1, <2>2 DEF Kids
      <3> QED
        BY <1>1, <2>2, <3>1
    <2> QED
      BY <2>1, <2>2
  <1>4. /\ Running(p) /\ pc[p] = "exit"
        /\ UNCHANGED <<load, pid, chan, killed, nextpid, codeVars, ticks, ctime, times>>
        /\ ttime' = [ttime EXCEPT ![p] = ticks]
        /\ parent' = [q \in Slot |-> IF parent[q] = p THEN initproc ELSE parent[q]]
        /\ state' = [st EXCEPT ![p] = "ZOMBIE"]
    BY DEF exit, woken, Kids
  <1> HIDE DEF st
  <1> QED
    BY <1>0, <1>3, <1>4

-----------------------------------------------------------------------------
(* Type correctness *)

\* The states and the places of the code, one by one.
LEMMA Names ==
    /\ "UNUSED" \in States /\ "EMBRYO" \in States /\ "SLEEPING" \in States
    /\ "RUNNABLE" \in States /\ "RUNNING" \in States /\ "ZOMBIE" \in States
    /\ "user" \in Place /\ "kstack" \in Place /\ "copy" \in Place /\ "exit" \in Place
    /\ "block" \in Place /\ "input" \in Place
    /\ AllCalls \subseteq Place
    /\ initproc \in Slot /\ NoProc \notin Slot /\ NoProc \notin {initproc}
    /\ Slot \subseteq Chan /\ NoChan \in Chan /\ IO \in Chan /\ INPUT \in Chan
    /\ IO \notin Slot /\ INPUT \notin Slot /\ NoChan \notin Slot
  BY ProcConstants, SMT DEF States, Place, AllCalls, initproc, NoProc, Slot, Chan, NoChan, IO,
     INPUT

\* wakeup1() makes sleepers runnable, and changes no other state.
LEMMA Woken ==
    ASSUME TypeOK, NEW c
    PROVE  /\ wakeup1(state, c) \in [Slot -> States]
           /\ \A q \in Slot :
                 wakeup1(state, c)[q] = IF state[q] = "SLEEPING" /\ chan[q] = c
                                        THEN "RUNNABLE" ELSE state[q]
  BY Names DEF wakeup1, TypeOK

\* The slot that fork() fills in is one of the table.
LEMMA ForkSlot ==
    ASSUME TypeOK, Forks, NEW p \in Slot, InFork(p)
    PROVE  np[p] \in Slot /\ state[np[p]] = "EMBRYO" /\ np[p] # p
  BY Names, SMT DEF TypeOK, Forks

\* Every step keeps the types.
LEMMA TypeStep ==
    ASSUME TypeOK, load \in Load, Forks, [Next]_vars
    PROVE  TypeOK' /\ load' = load
  <1> USE Names DEF TypeOK
  <1>1. ASSUME NEW p \in Slot, NEW call \in load.calls, Enter(p, call)
        PROVE  TypeOK' /\ load' = load
    <2>1. call \in AllCalls
      BY DEF Load
    <2> QED
      BY <1>1, <2>1 DEF Enter, tableVars, timeVars
  <1>2. ASSUME NEW p \in Slot, Fault(p) \/ io_done(p) \/ input(p)
        PROVE  TypeOK' /\ load' = load
    <2>1. killed' \in [Slot -> BOOLEAN]
      BY <1>2 DEF Fault, io_done, input, tableVars
    <2> QED
      <3>1. \/ pc' = [pc EXCEPT ![p] = "user"]
            \/ pc' = [pc EXCEPT ![p] = "exit"]
            \/ pc' = [pc EXCEPT ![p] = "block"]
        BY <1>2 DEF Fault, io_done, input
      <3>2. UNCHANGED <<load, state, pid, parent, chan, nextpid, np, timeVars>>
        BY <1>2 DEF Fault, io_done, input, tableVars
      <3>3. pc' \in [Slot -> Place]
        BY <3>1
      <3> QED
        BY <2>1, <3>2, <3>3 DEF timeVars
  <1>3. ASSUME NEW p \in Slot, fork(p)
        PROVE  TypeOK' /\ load' = load
    <2>1. ASSUME NEW q \in Slot, Takes(p, q)
          PROVE  TypeOK'
      <3>1. UNCHANGED <<parent, chan, killed, ticks, ctime, ttime, times>>
        BY <1>3, <2>1, ForkTakes DEF Takes, timeVars
      <3>2. pid' \in [Slot -> Nat] /\ nextpid' \in Nat
        BY <2>1, SMT DEF Takes
      <3>3. /\ state' \in [Slot -> States] /\ pc' \in [Slot -> Place]
            /\ np' \in [Slot -> Slot \cup {NoProc}]
        BY <2>1 DEF Takes
      <3> QED
        BY <3>1, <3>2, <3>3
    <2>2. CASE pc' = [pc EXCEPT ![p] = "user"] /\ UNCHANGED <<tableVars, np>>
      BY <1>3, <2>2, ForkTakes DEF tableVars, timeVars
    <2> QED
      BY <1>3, <2>1, <2>2, ForkTakes
  <1>4. ASSUME NEW p \in Slot, allocproc(p)
        PROVE  TypeOK' /\ load' = load
    <2>1. np[p] \in Slot
      BY <1>4, ForkSlot DEF allocproc, InFork
    <2>2. NoTimes \in [ru : Nat, s : Nat, re : Nat]
      BY DEF NoTimes
    <2> QED
      BY <1>4, <2>1, <2>2 DEF allocproc, tableVars, timeVars
  <1>5. ASSUME NEW p \in Slot, NoMemory(p) \/ fork_done(p)
        PROVE  TypeOK' /\ load' = load
    <2>1. np[p] \in Slot
      BY <1>5, ForkSlot DEF NoMemory, fork_done, InFork
    <2>2. CASE NoMemory(p)
      BY <2>1, <2>2 DEF NoMemory, timeVars
    <2>3. CASE fork_done(p)
      BY <2>1, <2>3 DEF fork_done, timeVars
    <2> QED
      BY <1>5, <2>2, <2>3
  <1>6. ASSUME NEW p \in Slot, exit(p)
        PROVE  TypeOK' /\ load' = load
    <2>1. parent' \in [Slot -> Slot \cup {NoProc}]
      BY <1>6, ExitDoes, SMT
    <2> QED
      BY <1>6, <2>1, ExitDoes, SMT DEF codeVars
  <1>7. ASSUME NEW p \in Slot, wait(p) \/ wait_stat(p)
        PROVE  TypeOK' /\ load' = load
    <2>1. NoTimes \in [ru : Nat, s : Nat, re : Nat]
      BY DEF NoTimes
    <2>2. ASSUME NEW z \in Slot, Reaps(p, z)
          PROVE  TypeOK'
      <3>1. killed' \in [Slot -> BOOLEAN]
        BY <2>2 DEF Reaps
      <3>2. ctime' \in [Slot -> Nat] /\ ttime' \in [Slot -> Nat]
            /\ times' \in [Slot -> [ru : Nat, s : Nat, re : Nat]]
        BY <2>1, <2>2, SMT DEF Reaps
      <3>3. UNCHANGED <<nextpid, np, ticks>>
        BY <1>7, WaitDoes
      <3> QED
        BY <2>2, <3>1, <3>2, <3>3 DEF Reaps
    <2>3. CASE Returns(p)
      BY <1>7, <2>3, WaitDoes DEF Returns
    <2>4. CASE FallsAsleep(p)
      BY <1>7, <2>4, WaitDoes DEF FallsAsleep
    <2> QED
      BY <1>7, <2>2, <2>3, <2>4, WaitDoes
  <1>8. ASSUME NEW p \in Slot, NEW n \in Targets, kill(p, n)
        PROVE  TypeOK' /\ load' = load
    <2>1. killed' \in [Slot -> BOOLEAN]
      BY <1>8, KillMarks DEF Marks
    <2>2. state' \in [Slot -> States] /\ ttime' \in [Slot -> Nat]
      BY <1>8, KillMarks, SMT DEF Marks
    <2>3. /\ pc' = [pc EXCEPT ![p] = "user"]
          /\ UNCHANGED <<load, pid, parent, chan, nextpid, np, ticks, ctime, times>>
      BY <1>8, KillMarks
    <2> QED
      BY <2>1, <2>2, <2>3
  <1>9. ASSUME NEW p \in Slot, sleep(p) \/ scheduler(p) \/ yield(p)
        PROVE  TypeOK' /\ load' = load
    <2>1. CASE sleep(p)
      <3>1. chan' \in [Slot -> Chan] /\ pc' \in [Slot -> Place]
        BY <2>1, SMT DEF sleep
      <3> QED
        BY <2>1, <3>1 DEF sleep, timeVars
    <2>2. CASE scheduler(p)
      BY <2>2 DEF scheduler, codeVars, timeVars
    <2>3. CASE yield(p)
      BY <2>3 DEF yield, codeVars, timeVars
    <2> QED
      BY <1>9, <2>1, <2>2, <2>3
  <1>10. CASE wakeup(IO) \/ wakeup(INPUT)
    BY <1>10, Woken DEF wakeup, codeVars, timeVars
  <1>11. CASE Tick
    <2>1. times' = update_stat /\ times \in [Slot -> [ru : Nat, s : Nat, re : Nat]]
      BY <1>11 DEF Tick
    <2>2. ASSUME NEW p \in Slot
          PROVE  update_stat[p] \in [ru : Nat, s : Nat, re : Nat]
      <3> HIDE DEF TypeOK
      <3>1. times[p] \in [ru : Nat, s : Nat, re : Nat]
        BY <2>1
      <3>2. update_stat[p] \in {times[p], [times[p] EXCEPT !.ru = @ + 1],
                                [times[p] EXCEPT !.s = @ + 1],
                                [times[p] EXCEPT !.re = @ + 1]}
        BY SMT DEF update_stat
      <3> QED
        BY <3>1, <3>2, SMT
    <2>3. update_stat = [p \in Slot |-> update_stat[p]]
      BY DEF update_stat
    <2>4. times' \in [Slot -> [ru : Nat, s : Nat, re : Nat]]
      BY <2>1, <2>2, <2>3
    <2> QED
      BY <1>11, <2>4, Woken, SMT DEF Tick, codeVars
  <1>12. CASE UNCHANGED vars
    BY <1>12 DEF vars, tableVars, codeVars, timeVars
  <1> QED
    BY <1>1, <1>2, <1>3, <1>4, <1>5, <1>6, <1>7, <1>8, <1>9, <1>10, <1>11, <1>12
       DEF Next, Step

-----------------------------------------------------------------------------
(* Three kinds of step that leave a part of the invariant alone. *)

Alive == {"SLEEPING", "RUNNABLE", "RUNNING"}

\* Processes that change between running, runnable and asleep, and do not enter
\* or leave the unlocked part of fork(), change nothing in the table's order.
LEMMA Quiet ==
    ASSUME ProcInv, TypeOK', UNCHANGED <<pid, parent, nextpid, np>>,
           \A q \in Slot :
              /\ \/ state'[q] = state[q]
                 \/ /\ state[q] \in Alive /\ state'[q] \in Alive
                    /\ InFork(q) => state'[q] # "SLEEPING"
              /\ InFork(q)' <=> InFork(q)
              /\ pc'[q] = "exit" => pc[q] = "exit" \/ q # initproc
    PROVE  /\ Forks' /\ Family' /\ ParentsAlive'
           /\ PidsUnique' /\ \A p \in Slot : pid'[p] < nextpid'
  <1> USE DEF ProcInv
  <1>1. Forks'
    <2>1. ASSUME NEW q \in Slot
          PROVE  /\ InFork(q)' <=> np'[q] # NoProc
                 /\ InFork(q)' => state'[q] \in {"RUNNABLE", "RUNNING"}
                                    /\ state'[np'[q]] = "EMBRYO"
                 /\ state'[q] = "EMBRYO" => state[q] = "EMBRYO"
      <3>1. InFork(q) => np[q] \in Slot /\ state[np[q]] = "EMBRYO"
        BY ForkSlot
      <3>2. \A r \in Slot : state[r] = "EMBRYO" <=> state'[r] = "EMBRYO"
        BY DEF Alive
      <3>3. InFork(q) => state'[q] \in {"RUNNABLE", "RUNNING"}
        BY DEF Forks, Alive
      <3> QED
        BY <3>1, <3>2, <3>3 DEF Forks
    <2> QED
      BY <2>1, SMT DEF Forks
  <1>2. Family'
    BY Names DEF Family, Alive
  <1>3. \A q \in Slot : /\ q \in Active' <=> q \in Active
                        /\ q \in Zombies' <=> q \in Zombies
    BY DEF Active, Zombies, Alive
  <1>4. ParentsAlive'
    BY <1>3, Names DEF ParentsAlive, Active, Zombies
  <1>5. PidsUnique'
    BY DEF PidsUnique, Alive
  <1> QED
    BY <1>1, <1>2, <1>4, <1>5

\* Nobody who was not there before is asleep in wait(), and nothing happens to
\* those who are.
LEMMA StillAsleep ==
    ASSUME ProcInv, UNCHANGED parent,
           \A q \in Slot :
              /\ state'[q] = "SLEEPING" /\ chan'[q] = q =>
                    state[q] = "SLEEPING" /\ chan[q] = q /\ killed'[q] = killed[q]
              /\ state'[q] = "ZOMBIE" => state[q] = "ZOMBIE"
    PROVE  NoMissedWakeup'
  BY SMT DEF ProcInv, NoMissedWakeup, Zombies

\* No time is counted, nobody is born and nobody dies.
LEMMA Untimed ==
    ASSUME ProcInv, UNCHANGED timeVars,
           \A q \in Slot :
              /\ state'[q] \in Alive => state[q] \in Alive
              /\ state'[q] = "ZOMBIE" => state[q] = "ZOMBIE"
              /\ pc'[q] = "copy" => pc[q] = "copy" /\ np'[q] = np[q]
    PROVE  Dates' /\ Accounting'
  <1>1. \A q : Total(q)' = Total(q)
    BY DEF timeVars, Total
  <1>2. /\ Active' \subseteq Active /\ Zombies' \subseteq Zombies
    BY DEF Active, Zombies, Alive
  <1>3. Accounting'
    BY <1>1, <1>2 DEF ProcInv, Accounting, timeVars, Total
  <1>4. Dates'
    BY <1>1 DEF ProcInv, Dates, timeVars, Total
  <1> QED
    BY <1>3, <1>4

\* A step is harmless if it is all three.
LEMMA Harmless ==
    ASSUME ProcInv, TypeOK', load' = load, UNCHANGED <<pid, parent, nextpid, np, timeVars>>,
           \A q \in Slot :
              /\ \/ state'[q] = state[q]
                 \/ /\ state[q] \in Alive /\ state'[q] \in Alive
                    /\ InFork(q) => state'[q] # "SLEEPING"
              /\ \/ pc'[q] = pc[q]
                 \/ ~InFork(q) /\ pc'[q] \notin {"kstack", "copy"}
              /\ pc'[q] = "exit" => pc[q] = "exit" \/ q # initproc
              /\ state'[q] = "SLEEPING" /\ chan'[q] = q =>
                    state[q] = "SLEEPING" /\ chan[q] = q /\ killed'[q] = killed[q]
    PROVE  ProcInv'
  <1>1. \A q \in Slot : InFork(q)' <=> InFork(q)
    BY DEF InFork
  <1>2. /\ Forks' /\ Family' /\ ParentsAlive'
        /\ PidsUnique' /\ \A p \in Slot : pid'[p] < nextpid'
    BY <1>1, Quiet
  <1>3. \A q \in Slot :
           /\ state'[q] \in Alive => state[q] \in Alive
           /\ state'[q] = "ZOMBIE" => state[q] = "ZOMBIE"
           /\ pc'[q] = "copy" => pc[q] = "copy" /\ np'[q] = np[q]
    BY DEF Alive
  <1>4. NoMissedWakeup'
    BY <1>3, StillAsleep
  <1>5. Dates' /\ Accounting'
    BY <1>3, Untimed
  <1> QED
    BY <1>2, <1>4, <1>5 DEF ProcInv

\* Entering and leaving the kernel, and the scheduler's switches.
LEMMA SwitchStep ==
    ASSUME ProcInv, TypeOK', load' = load, NEW p \in Slot,
           \/ \E call \in load.calls : Enter(p, call)
           \/ Fault(p) \/ io_done(p) \/ input(p) \/ sleep(p) \/ scheduler(p) \/ yield(p)
    PROVE  ProcInv'
  <1>0. /\ state \in [Slot -> States] /\ pc \in [Slot -> Place]
        /\ chan \in [Slot -> Chan] /\ killed \in [Slot -> BOOLEAN]
        /\ IO # p /\ INPUT # p
    BY Names DEF ProcInv, TypeOK
  <1>1. CASE \E call \in load.calls : Enter(p, call)
    <2>1. PICK call \in load.calls : Enter(p, call)
      BY <1>1
    <2>2. call \notin {"kstack", "copy"}
      <3>1. call \in AllCalls
        BY DEF ProcInv, Load
      <3> QED
        BY <3>1 DEF AllCalls
    <2>3. /\ pc[p] = "user" /\ pc' = [pc EXCEPT ![p] = call]
          /\ p = initproc => call # "exit"
          /\ UNCHANGED <<state, chan, killed, pid, parent, nextpid, np, timeVars>>
      BY <2>1 DEF Enter, tableVars
    <2> QED
      BY <1>0, <2>2, <2>3, Harmless DEF InFork
  <1>2. CASE Fault(p) \/ io_done(p) \/ input(p)
    <2>1. /\ Running(p) /\ pc[p] \in {"user", "io", "input"}
          /\ \/ pc' = [pc EXCEPT ![p] = "user"]
             \/ pc' = [pc EXCEPT ![p] = "block"]
             \/ pc' = [pc EXCEPT ![p] = "exit"] /\ p # initproc
          /\ UNCHANGED <<state, chan, pid, parent, nextpid, np, timeVars>>
      BY <1>2 DEF Fault, io_done, input, tableVars
    <2>2. \A q \in Slot : q # p => killed'[q] = killed[q]
      BY <1>0, <1>2 DEF Fault, io_done, input, tableVars
    <2> QED
      BY <1>0, <2>1, <2>2, Harmless DEF InFork, Running
  <1>3. CASE sleep(p)
    <2>1. /\ Running(p) /\ pc[p] \in {"io", "exit", "block"}
          /\ state' = [state EXCEPT ![p] = "SLEEPING"]
          /\ UNCHANGED <<killed, pid, parent, nextpid, np, timeVars>>
      BY <1>3 DEF sleep
    <2>2. \/ chan' = [chan EXCEPT ![p] = IO]
          \/ chan' = [chan EXCEPT ![p] = INPUT]
      BY <1>3 DEF sleep
    <2>3. chan'[p] # p /\ \A q \in Slot : q # p => chan'[q] = chan[q]
      BY <1>0, <2>2
    <2>4. CASE pc[p] = "block"
      <3>1. pc' = [pc EXCEPT ![p] = "input"]
        BY <1>3, <2>4 DEF sleep
      <3> QED
        BY <1>0, <2>1, <2>3, <2>4, <3>1, Harmless DEF InFork, Running, Alive
    <2>5. CASE pc[p] # "block"
      <3>1. pc' = pc
        BY <1>0, <1>3, <2>5, SMT DEF sleep
      <3>2. ~InFork(p) /\ state[p] \in Alive /\ "SLEEPING" \in Alive
        BY <2>1 DEF InFork, Running, Alive
      <3>3. /\ state'[p] = "SLEEPING"
            /\ \A q \in Slot : q # p => state'[q] = state[q]
        BY <1>0, <2>1
      <3> QED
        BY <2>1, <2>3, <3>1, <3>2, <3>3, Harmless
    <2> QED
      BY <2>4, <2>5
  <1>4. CASE scheduler(p)
    <2>1. /\ state[p] = "RUNNABLE" /\ state' = [state EXCEPT ![p] = "RUNNING"]
          /\ chan' = [chan EXCEPT ![p] = NoChan]
          /\ UNCHANGED <<pc, killed, pid, parent, nextpid, np, timeVars>>
      BY <1>4 DEF scheduler, codeVars
    <2> QED
      BY <1>0, <2>1, Harmless DEF InFork, Alive
  <1>5. CASE yield(p)
    <2>1. /\ Running(p) /\ state' = [state EXCEPT ![p] = "RUNNABLE"]
          /\ UNCHANGED <<pc, chan, killed, pid, parent, nextpid, np, timeVars>>
      BY <1>5 DEF yield, codeVars
    <2> QED
      BY <1>0, <2>1, Harmless DEF InFork, Running, Alive
  <1> QED
    BY <1>1, <1>2, <1>3, <1>4, <1>5

\* A wakeup() of those who wait for an event.
LEMMA WakeupStep ==
    ASSUME ProcInv, TypeOK', load' = load, NEW c, wakeup(c)
    PROVE  ProcInv'
  <1>1. /\ state' = wakeup1(state, c)
        /\ UNCHANGED <<pc, chan, killed, pid, parent, nextpid, np, timeVars>>
    BY DEF wakeup, codeVars
  <1>2. \A q \in Slot : state'[q] = state[q] \/ (state[q] = "SLEEPING" /\ state'[q] = "RUNNABLE")
    BY <1>1, Woken DEF ProcInv
  <1> QED
    BY <1>1, <1>2, Harmless DEF Alive

\* The clock counts the tick once for every process and never for an embryo.
LEMMA TickStep ==
    ASSUME ProcInv, TypeOK', load' = load, Tick
    PROVE  ProcInv'
  <1>0. TypeOK /\ ProcInv
    BY DEF ProcInv
  <1>1. /\ state' = wakeup1(state, IO) /\ ticks' = ticks + 1 /\ times' = update_stat
        /\ UNCHANGED <<pc, chan, killed, pid, parent, nextpid, np, ctime, ttime>>
    BY DEF Tick, codeVars
  <1>2. \A q \in Slot : state'[q] = state[q] \/ (state[q] = "SLEEPING" /\ state'[q] = "RUNNABLE")
    BY <1>1, Woken DEF ProcInv
  <1>3. /\ Forks' /\ Family' /\ ParentsAlive'
        /\ PidsUnique' /\ \A p \in Slot : pid'[p] < nextpid'
    BY <1>1, <1>2, Quiet DEF Alive, InFork
  <1>4. NoMissedWakeup'
    BY <1>1, <1>2, StillAsleep
  <1>5. ASSUME NEW q \in Slot
        PROVE  Total(q)' = IF state[q] \in Alive THEN Total(q) + 1 ELSE Total(q)
    <2>1. times[q] \in [ru : Nat, s : Nat, re : Nat] /\ state[q] \in States
      BY <1>0 DEF TypeOK
    <2>2. times'[q] = CASE state[q] = "RUNNING"  -> [times[q] EXCEPT !.ru = @ + 1]
                        [] state[q] = "SLEEPING" -> [times[q] EXCEPT !.s = @ + 1]
                        [] state[q] = "RUNNABLE" -> [times[q] EXCEPT !.re = @ + 1]
                        [] OTHER -> times[q]
      BY <1>1 DEF update_stat
    <2>3. CASE state[q] = "RUNNING"
      BY <2>1, <2>2, <2>3, SMT DEF Total, Alive
    <2>4. CASE state[q] = "SLEEPING"
      BY <2>1, <2>2, <2>4, SMT DEF Total, Alive
    <2>5. CASE state[q] = "RUNNABLE"
      BY <2>1, <2>2, <2>5, SMT DEF Total, Alive
    <2>6. CASE state[q] \notin Alive
      BY <2>1, <2>2, <2>6 DEF Total, Alive
    <2> QED
      BY <2>3, <2>4, <2>5, <2>6 DEF Alive
  <1>6. \A q \in Slot : Total(q) \in Nat /\ ctime[q] \in Nat /\ ttime[q] \in Nat /\ ticks \in Nat
    BY <1>0, SMT DEF TypeOK, Total
  <1>7. Accounting'
    <2>1. ASSUME NEW q \in Active'
          PROVE  ctime'[q] + Total(q)' <= ticks'
      <3>1. q \in Slot /\ q \in Active /\ state[q] \in Alive
        BY <1>2 DEF Active, Alive
      <3>2. ctime[q] + Total(q) <= ticks
        BY <3>1 DEF ProcInv, Accounting
      <3> QED
        BY <1>1, <1>5, <1>6, <3>1, <3>2, SMT
    <2>2. ASSUME NEW q \in Zombies'
          PROVE  ctime'[q] + Total(q)' <= ttime'[q]
      <3>1. q \in Slot /\ q \in Zombies /\ state[q] \notin Alive
        BY <1>2 DEF Zombies, Alive
      <3>2. ctime[q] + Total(q) <= ttime[q]
        BY <3>1 DEF ProcInv, Accounting
      <3> QED
        BY <1>1, <1>5, <1>6, <3>1, <3>2
    <2> QED
      BY <2>1, <2>2 DEF Accounting
  <1>8. Dates'
    <2>1. ASSUME NEW q \in Slot
          PROVE  /\ ttime'[q] <= ticks'
                 /\ (pc[q] = "copy" => ctime[np[q]] + Total(np[q]) <= ticks)'
      <3>1. ttime[q] <= ticks /\ (pc[q] = "copy" => ctime[np[q]] + Total(np[q]) <= ticks)
        BY DEF ProcInv, Dates
      <3>2. pc[q] = "copy" => np[q] \in Slot /\ state[np[q]] = "EMBRYO"
        BY ForkSlot DEF ProcInv, InFork
      <3>3. pc[q] = "copy" => Total(np[q])' = Total(np[q])
        BY <1>1, <1>5, <3>2 DEF Alive, Total
      <3> QED
        BY <1>1, <1>6, <3>1, <3>2, <3>3, SMT
    <2> QED
      BY <2>1 DEF Dates
  <1> QED
    BY <1>3, <1>4, <1>7, <1>8 DEF ProcInv

\* kill() wakes whom it marks, and dates no death before the last tick counted.
LEMMA KillStep ==
    ASSUME ProcInv, TypeOK', load' = load, NEW p \in Slot, NEW n \in Targets, kill(p, n)
    PROVE  ProcInv'
  <1>0. TypeOK
    BY DEF ProcInv
  <1>1. /\ Running(p) /\ pc[p] = "kill" /\ pc' = [pc EXCEPT ![p] = "user"]
        /\ UNCHANGED <<pid, parent, chan, nextpid, np, ticks, ctime, times>>
    BY KillMarks
  <1>2. \A q \in Slot : /\ InFork(q)' <=> InFork(q)
                        /\ pc'[q] = "exit" => pc[q] = "exit"
                        /\ pc'[q] = "copy" => pc[q] = "copy"
    BY <1>0, <1>1 DEF InFork, TypeOK
  <1>3. \A q \in Slot :
           /\ state'[q] = state[q] \/ (state[q] = "SLEEPING" /\ state'[q] = "RUNNABLE")
           /\ state'[q] = "SLEEPING" => killed'[q] = killed[q]
           /\ ttime'[q] \in {ttime[q], ticks}
    <2>1. CASE UNCHANGED <<state, killed, ttime>>
      BY <2>1
    <2>2. ASSUME NEW r \in Slot, Marks(r)
          PROVE  \A q \in Slot :
                    /\ state'[q] = state[q] \/ (state[q] = "SLEEPING" /\ state'[q] = "RUNNABLE")
                    /\ state'[q] = "SLEEPING" => killed'[q] = killed[q]
                    /\ ttime'[q] \in {ttime[q], ticks}
      BY <1>0, <2>2 DEF Marks, TypeOK
    <2> QED
      BY <2>1, <2>2, KillMarks
  <1>4. /\ Forks' /\ Family' /\ ParentsAlive'
        /\ PidsUnique' /\ \A q \in Slot : pid'[q] < nextpid'
    BY <1>1, <1>2, <1>3, Quiet DEF Alive
  <1>5. NoMissedWakeup'
    BY <1>1, <1>3, StillAsleep
  <1>6. \A q \in Slot : /\ Total(q) \in Nat /\ ctime[q] \in Nat /\ ticks \in Nat
                        /\ ttime[q] \in Nat /\ ttime[q] <= ticks
    BY <1>0, SMT DEF TypeOK, Total, ProcInv, Dates
  <1>7. \A q \in Slot : Total(q)' = Total(q)
    BY <1>1 DEF Total
  <1>8. Accounting'
    <2>1. ASSUME NEW q \in Active'
          PROVE  ctime'[q] + Total(q)' <= ticks'
      <3>1. q \in Slot /\ q \in Active
        BY <1>3 DEF Active
      <3> QED
        BY <1>1, <1>7, <3>1 DEF ProcInv, Accounting
    <2>2. ASSUME NEW q \in Zombies'
          PROVE  ctime'[q] + Total(q)' <= ttime'[q]
      <3>1. q \in Slot /\ q \in Zombies
        BY <1>3 DEF Zombies
      <3>2. ctime[q] + Total(q) <= ttime[q]
        BY <3>1 DEF ProcInv, Accounting
      <3>3. ctime'[q] = ctime[q] /\ Total(q)' = Total(q) /\ ttime'[q] \in {ttime[q], ticks}
        BY <1>1, <1>3, <1>7, <3>1
      <3>4. /\ Total(q) \in Nat /\ ctime[q] \in Nat /\ ticks \in Nat
            /\ ttime[q] \in Nat /\ ttime[q] <= ticks
        BY <1>6, <3>1
      <3> QED
        BY <3>2, <3>3, <3>4, SMT
    <2> QED
      BY <2>1, <2>2 DEF Accounting
  <1>9. Dates'
    BY <1>1, <1>2, <1>3, <1>6, SMT DEF ProcInv, Dates, Total
  <1> QED
    BY <1>4, <1>5, <1>8, <1>9 DEF ProcInv

\* allocproc() clears the times of its own slot, which no other fork() has.
LEMMA AllocStep ==
    ASSUME ProcInv, TypeOK', load' = load, NEW p \in Slot, allocproc(p)
    PROVE  ProcInv'
  <1>0. TypeOK
    BY DEF ProcInv
  <1> DEFINE q == np[p]
  <1>1. /\ pc[p] = "kstack" /\ pc' = [pc EXCEPT ![p] = "copy"]
        /\ ctime' = [ctime EXCEPT ![q] = ticks] /\ ttime' = [ttime EXCEPT ![q] = 0]
        /\ times' = [times EXCEPT ![q] = NoTimes]
        /\ UNCHANGED <<state, pid, parent, chan, killed, nextpid, np, ticks>>
    BY DEF allocproc, tableVars
  <1>2. q \in Slot /\ state[q] = "EMBRYO"
    BY <1>1, ForkSlot DEF ProcInv, InFork
  <1> HIDE DEF q
  <1>3. \A r \in Slot : /\ InFork(r)' <=> InFork(r)
                        /\ pc'[r] = "exit" => pc[r] = "exit"
                        /\ pc'[r] = "copy" => r = p \/ pc[r] = "copy"
    BY <1>0, <1>1 DEF InFork, TypeOK
  <1>4. /\ Forks' /\ Family' /\ ParentsAlive'
        /\ PidsUnique' /\ \A r \in Slot : pid'[r] < nextpid'
    BY <1>1, <1>3, Quiet
  <1>5. NoMissedWakeup'
    BY <1>1, StillAsleep
  <1>6. /\ \A r \in Slot \ {q} : /\ ctime'[r] = ctime[r] /\ ttime'[r] = ttime[r]
                                 /\ times'[r] = times[r]
        /\ ctime'[q] = ticks /\ ttime'[q] = 0 /\ times'[q] = NoTimes
    BY <1>0, <1>1, <1>2, SMT DEF TypeOK
  <1>7. \A r \in Slot : r # q => Total(r)' = Total(r)
    BY <1>6 DEF Total
  <1>8. times'[q].ru + times'[q].s + times'[q].re = 0
    BY <1>6, SMT DEF NoTimes
  <1>9. Accounting'
    <2>1. q \notin Active /\ q \notin Zombies
      BY <1>2 DEF Active, Zombies
    <2>2. Active' = Active /\ Zombies' = Zombies
      BY <1>1 DEF Active, Zombies
    <2> QED
      BY <1>1, <1>6, <1>7, <2>1, <2>2, SMT DEF ProcInv, Accounting, Active, Zombies
  <1>10. Dates'
    <2>1. ASSUME NEW r \in Slot
          PROVE  /\ ttime'[r] <= ticks'
                 /\ (pc[r] = "copy" => ctime[np[r]] + Total(np[r]) <= ticks)'
      <3>1. ttime'[r] <= ticks'
        BY <1>0, <1>1, <1>6, SMT DEF ProcInv, Dates, TypeOK
      <3>2. CASE r = p
        BY <1>0, <1>1, <1>6, <1>8, <3>1, <3>2, SMT DEF q, Total, TypeOK
      <3>3. CASE r # p /\ pc'[r] = "copy"
        <4>1. pc[r] = "copy" /\ ctime[np[r]] + Total(np[r]) <= ticks
          BY <1>3, <3>3 DEF ProcInv, Dates
        <4>2. np[r] \in Slot /\ np[r] # q
          BY <1>2, <3>3, <4>1, ForkSlot, Names, SMT DEF ProcInv, Forks, InFork, q
        <4> QED
          BY <1>1, <1>6, <3>1, <4>1, <4>2, SMT DEF Total
      <3> QED
        BY <3>1, <3>2, <3>3
    <2> QED
      BY <2>1 DEF Dates
  <1> QED
    BY <1>4, <1>5, <1>9, <1>10 DEF ProcInv

\* A slot that allocproc() takes is nobody's, and so is the pid.
LEMMA ForkStep ==
    ASSUME ProcInv, TypeOK', load' = load, NEW p \in Slot, fork(p)
    PROVE  ProcInv'
  <1>0. /\ TypeOK /\ Running(p) /\ pc[p] = "fork" /\ UNCHANGED timeVars
    BY ForkTakes DEF ProcInv
  <1>1. CASE pc' = [pc EXCEPT ![p] = "user"] /\ UNCHANGED <<tableVars, np>>
    BY <1>0, <1>1, Harmless DEF InFork, tableVars, TypeOK
  <1>2. ASSUME NEW q \in Slot, Takes(p, q)
        PROVE  ProcInv'
    <2>0. p # q /\ np[p] = NoProc
      BY <1>0, <1>2 DEF Takes, Running, ProcInv, Forks, InFork
    <2>1. /\ state'[q] = "EMBRYO" /\ \A r \in Slot \ {q} : state'[r] = state[r]
          /\ pid'[q] = nextpid /\ \A r \in Slot \ {q} : pid'[r] = pid[r]
          /\ np'[p] = q /\ \A r \in Slot \ {p} : np'[r] = np[r]
          /\ pc'[p] = "kstack" /\ \A r \in Slot \ {p} : pc'[r] = pc[r]
          /\ state[q] = "UNUSED" /\ nextpid' = nextpid + 1
          /\ UNCHANGED <<parent, chan, killed>>
      BY <1>0, <1>2, SMT DEF Takes, TypeOK
    <2>2. \A r \in Slot : InFork(r) => np[r] \in Slot /\ state[np[r]] = "EMBRYO"
                                       /\ np[r] # q /\ r # q
      BY <2>1, ForkSlot, SMT DEF ProcInv, Forks
    <2>3. Forks'
      <3>1. ASSUME NEW r \in Slot
            PROVE  /\ InFork(r)' <=> np'[r] # NoProc
                   /\ InFork(r)' => state'[r] \in {"RUNNABLE", "RUNNING"}
                                      /\ state'[np'[r]] = "EMBRYO"
                   /\ state'[r] = "EMBRYO" => \E w \in Slot : np'[w] = r
        <4>1. CASE r = p
          BY <1>0, <2>0, <2>1, <4>1, Names DEF InFork, Running
        <4>2. CASE r # p
          BY <2>0, <2>1, <2>2, <4>2, Names, SMT DEF ProcInv, Forks, InFork
        <4> QED
          BY <4>1, <4>2
      <3>2. ASSUME NEW r \in Slot, NEW w \in Slot, np'[r] # NoProc, np'[r] = np'[w]
            PROVE  r = w
        <4>1. /\ \A x \in Slot : InFork(x) <=> np[x] # NoProc
              /\ np[r] # NoProc /\ np[r] = np[w] => r = w
          BY DEF ProcInv, Forks
        <4>2. CASE r # p /\ w # p
          BY <2>1, <3>2, <4>1, <4>2
        <4>3. CASE r = p \/ w = p
          BY <2>1, <2>2, <3>2, <4>1, <4>3, SMT
        <4> QED
          BY <4>2, <4>3
      <3> QED
        BY <3>1, <3>2 DEF Forks
    <2>4. Family'
      BY <2>1, Names DEF ProcInv, Family
    <2>5. ParentsAlive'
      <3>1. Active' = Active /\ Zombies' = Zombies
        BY <2>1 DEF Active, Zombies
      <3> QED
        BY <2>1, <3>1 DEF ProcInv, ParentsAlive
    <2>6. PidsUnique' /\ \A r \in Slot : pid'[r] < nextpid'
      <3>1. nextpid \in Nat /\ \A r \in Slot : pid[r] \in Nat /\ pid[r] < nextpid
        BY <1>0 DEF ProcInv, TypeOK
      <3>2. \A r \in Slot : pid'[r] < nextpid'
        BY <2>1, <3>1, SMT
      <3>3. \A r \in Slot : pid[r] # nextpid
        BY <3>1, SMT
      <3>4. PidsUnique'
        BY <2>1, <3>3, SMT DEF ProcInv, PidsUnique
      <3> QED
        BY <3>2, <3>4
    <2>7. NoMissedWakeup'
      BY <2>1, StillAsleep
    <2>8. Dates' /\ Accounting'
      BY <1>0, <2>1, Untimed DEF Alive
    <2> QED
      BY <2>3, <2>4, <2>5, <2>6, <2>7, <2>8 DEF ProcInv
  <1> QED
    BY <1>1, <1>2, ForkTakes

\* A fork() that fails gives back its own slot.
LEMMA NoMemoryStep ==
    ASSUME ProcInv, TypeOK', load' = load, NEW p \in Slot, NoMemory(p)
    PROVE  ProcInv'
  <1> DEFINE q == np[p]
  <1>0. /\ TypeOK /\ Running(p) /\ InFork(p)
        /\ q \in Slot /\ q # p /\ state[q] = "EMBRYO" /\ q # NoProc
    BY ForkSlot, Names DEF ProcInv, NoMemory, InFork
  <1>1. /\ state'[q] = "UNUSED" /\ \A r \in Slot \ {q} : state'[r] = state[r]
        /\ np'[p] = NoProc /\ \A r \in Slot \ {p} : np'[r] = np[r]
        /\ pc'[p] = "user" /\ \A r \in Slot \ {p} : pc'[r] = pc[r]
        /\ UNCHANGED <<pid, parent, chan, killed, nextpid, timeVars>>
    BY <1>0 DEF NoMemory, TypeOK
  <1>2. \A r \in Slot \ {p} : InFork(r) => np[r] \in Slot /\ state[np[r]] = "EMBRYO"
                                           /\ np[r] # q /\ r # q
    BY <1>0, ForkSlot, SMT DEF ProcInv, Forks
  <1>3. \A r \in Slot : np[r] = q => r = p
    BY <1>0 DEF ProcInv, Forks
  <1> HIDE DEF q
  <1>4. Forks'
    <2>1. ASSUME NEW r \in Slot
          PROVE  /\ InFork(r)' <=> np'[r] # NoProc
                 /\ InFork(r)' => state'[r] \in {"RUNNABLE", "RUNNING"}
                                    /\ state'[np'[r]] = "EMBRYO"
                 /\ state'[r] = "EMBRYO" => \E w \in Slot : np'[w] = r
      <3>1. CASE r = p
        BY <1>0, <1>1, <3>1 DEF InFork, Running
      <3>2. CASE r # p
        <4>1. /\ InFork(r)' <=> np'[r] # NoProc
              /\ InFork(r)' => state'[r] \in {"RUNNABLE", "RUNNING"}
                                 /\ state'[np'[r]] = "EMBRYO"
          BY <1>1, <1>2, <3>2, SMT DEF ProcInv, Forks, InFork
        <4>2. ASSUME state'[r] = "EMBRYO"
              PROVE  \E w \in Slot : np'[w] = r
          <5>1. r # q /\ state[r] = "EMBRYO"
            BY <1>1, <4>2
          <5>2. PICK w \in Slot : np[w] = r
            BY <5>1 DEF ProcInv, Forks
          <5>3. w # p
            BY <5>1, <5>2 DEF q
          <5> QED
            BY <1>1, <5>2, <5>3
        <4> QED
          BY <4>1, <4>2
      <3> QED
        BY <3>1, <3>2
    <2>2. ASSUME NEW r \in Slot, NEW w \in Slot, np'[r] # NoProc, np'[r] = np'[w]
          PROVE  r = w
      BY <1>1, <2>2, SMT DEF ProcInv, Forks
    <2> QED
      BY <2>1, <2>2 DEF Forks
  <1>5. Family'
    BY <1>0, <1>1, Names DEF ProcInv, Family
  <1>6. ParentsAlive'
    <2>1. Active' = Active /\ Zombies' = Zombies
      BY <1>0, <1>1 DEF Active, Zombies
    <2> QED
      BY <1>1, <2>1 DEF ProcInv, ParentsAlive
  <1>7. PidsUnique' /\ \A r \in Slot : pid'[r] < nextpid'
    BY <1>0, <1>1, ZenonT(40) DEF ProcInv, PidsUnique
  <1>8. NoMissedWakeup'
    BY <1>0, <1>1, StillAsleep
  <1>9. Dates' /\ Accounting'
    BY <1>0, <1>1, Untimed DEF Alive
  <1> QED
    BY <1>4, <1>5, <1>6, <1>7, <1>8, <1>9 DEF ProcInv

\* The child is born with a parent that is alive and with its times cleared.
LEMMA BirthStep ==
    ASSUME ProcInv, TypeOK', load' = load, NEW p \in Slot, fork_done(p)
    PROVE  ProcInv'
  <1> DEFINE q == np[p]
  <1>0. /\ TypeOK /\ Running(p) /\ InFork(p) /\ pc[p] = "copy"
        /\ q \in Slot /\ q # p /\ state[q] = "EMBRYO" /\ q # NoProc
        /\ ctime[q] + Total(q) <= ticks
    BY ForkSlot, Names DEF ProcInv, fork_done, InFork, Dates
  <1>1. /\ state'[q] = "RUNNABLE" /\ \A r \in Slot \ {q} : state'[r] = state[r]
        /\ parent'[q] = p /\ \A r \in Slot \ {q} : parent'[r] = parent[r]
        /\ np'[p] = NoProc /\ \A r \in Slot \ {p} : np'[r] = np[r]
        /\ pc'[p] = "user" /\ pc'[q] = "user" /\ \A r \in Slot \ {p, q} : pc'[r] = pc[r]
        /\ UNCHANGED <<pid, chan, killed, nextpid, timeVars>>
    BY <1>0, SMT DEF fork_done, TypeOK
  <1>2. \A r \in Slot \ {p} : InFork(r) => np[r] \in Slot /\ state[np[r]] = "EMBRYO"
                                           /\ np[r] # q /\ r # q
    BY <1>0, ForkSlot, SMT DEF ProcInv, Forks
  <1>3. np[q] = NoProc /\ parent[q] = NoProc /\ q # initproc
    BY <1>0, <1>2 DEF ProcInv, Forks, Family, ParentsAlive, Active
  <1> HIDE DEF q
  <1>4. Forks'
    <2>1. ASSUME NEW r \in Slot
          PROVE  /\ InFork(r)' <=> np'[r] # NoProc
                 /\ InFork(r)' => state'[r] \in {"RUNNABLE", "RUNNING"}
                                    /\ state'[np'[r]] = "EMBRYO"
                 /\ state'[r] = "EMBRYO" => \E w \in Slot : np'[w] = r
      <3>1. CASE r \in {p, q}
        BY <1>0, <1>1, <1>3, <3>1, SMT DEF InFork, Running
      <3>2. CASE r \notin {p, q}
        <4>1. /\ InFork(r)' <=> np'[r] # NoProc
              /\ InFork(r)' => state'[r] \in {"RUNNABLE", "RUNNING"}
                                 /\ state'[np'[r]] = "EMBRYO"
          <5>1. /\ InFork(r)' <=> InFork(r)
                /\ np'[r] = np[r] /\ state'[r] = state[r]
            BY <1>1, <3>2 DEF InFork
          <5>2. /\ InFork(r) <=> np[r] # NoProc
                /\ InFork(r) => state[r] \in {"RUNNABLE", "RUNNING"}
            BY DEF ProcInv, Forks
          <5>3. InFork(r) => state'[np[r]] = "EMBRYO"
            BY <1>1, <1>2, <3>2
          <5> QED
            BY <5>1, <5>2, <5>3
        <4>2. ASSUME state'[r] = "EMBRYO"
              PROVE  \E w \in Slot : np'[w] = r
          <5>1. state[r] = "EMBRYO"
            BY <1>1, <3>2, <4>2
          <5>2. PICK w \in Slot : np[w] = r
            BY <5>1 DEF ProcInv, Forks
          <5>3. w # p
            BY <3>2, <5>2 DEF q
          <5> QED
            BY <1>1, <5>2, <5>3
        <4> QED
          BY <4>1, <4>2
      <3> QED
        BY <3>1, <3>2
    <2>2. ASSUME NEW r \in Slot, NEW w \in Slot, np'[r] # NoProc, np'[r] = np'[w]
          PROVE  r = w
      BY <1>1, <2>2, SMT DEF ProcInv, Forks
    <2> QED
      BY <2>1, <2>2 DEF Forks
  <1>5. Family'
    BY <1>0, <1>1, <1>3, Names, ZenonT(40) DEF ProcInv, Family
  <1>6. ParentsAlive'
    <2>1. Active' = Active \cup {q} /\ Zombies' = Zombies /\ p \in Active
      BY <1>0, <1>1 DEF Active, Zombies, Running
    <2> QED
      BY <1>0, <1>1, <2>1 DEF ProcInv, ParentsAlive, Active, Zombies
  <1>7. PidsUnique' /\ \A r \in Slot : pid'[r] < nextpid'
    BY <1>0, <1>1, ZenonT(40) DEF ProcInv, PidsUnique
  <1>8. NoMissedWakeup'
    <2>1. ASSUME NEW r \in Slot, state'[r] = "SLEEPING", chan'[r] = r
          PROVE  /\ \E c \in Slot : parent'[c] = r
                 /\ \A z \in Zombies' : parent'[z] # r
                 /\ ~killed'[r]
      <3>1. r # q /\ r # p /\ state[r] = "SLEEPING" /\ chan[r] = r /\ r # NoProc
        BY <1>0, <1>1, <2>1, Names, SMT DEF Running
      <3>2. /\ \E c \in Slot : parent[c] = r
            /\ \A z \in Zombies : parent[z] # r
            /\ ~killed[r]
        BY <3>1 DEF ProcInv, NoMissedWakeup
      <3>3. \A c \in Slot : parent[c] = r => parent'[c] = r
        BY <1>1, <1>3, <3>1
      <3>4. \A z \in Zombies' : z \in Zombies /\ parent'[z] = parent[z]
        BY <1>1 DEF Zombies
      <3> QED
        BY <1>1, <3>2, <3>3, <3>4
    <2> QED
      BY <2>1 DEF NoMissedWakeup
  <1>9. Dates'
    BY <1>0, <1>1 DEF ProcInv, Dates, timeVars, Total
  <1>10. Accounting'
    <2>1. Active' = Active \cup {q} /\ Zombies' = Zombies
      BY <1>0, <1>1 DEF Active, Zombies
    <2> QED
      BY <1>0, <1>1, <2>1 DEF ProcInv, Accounting, timeVars, Total
  <1> QED
    BY <1>4, <1>5, <1>6, <1>7, <1>8, <1>9, <1>10 DEF ProcInv

\* exit() leaves every child a parent and nobody asleep beside a zombie.
LEMMA ExitStep ==
    ASSUME ProcInv, TypeOK', load' = load, NEW p \in Slot, exit(p)
    PROVE  ProcInv'
  <1>0. TypeOK /\ Running(p) /\ pc[p] = "exit" /\ p # initproc /\ ~InFork(p)
    BY ExitDoes DEF ProcInv, Family, InFork
  <1>1. /\ UNCHANGED <<pid, chan, killed, nextpid, pc, np, ticks, ctime, times>>
        /\ ttime'[p] = ticks /\ \A q \in Slot \ {p} : ttime'[q] = ttime[q]
        /\ \A q \in Slot : parent'[q] = IF parent[q] = p THEN initproc ELSE parent[q]
        /\ state'[p] = "ZOMBIE"
    BY <1>0, ExitDoes, SMT DEF codeVars, TypeOK
  <1>2. \A q \in Slot \ {p} :
           /\ \/ state'[q] = state[q]
              \/ state[q] = "SLEEPING" /\ state'[q] = "RUNNABLE"
           /\ chan[q] = parent[p] => state'[q] # "SLEEPING"
           /\ /\ chan[q] = initproc
              /\ \E z \in Slot : parent[z] = p /\ state[z] = "ZOMBIE"
              => state'[q] # "SLEEPING"
    BY <1>0, ExitDoes
  <1>3. /\ p \in Active /\ Active' = Active \ {p} /\ Zombies' = Zombies \cup {p}
    BY <1>0, <1>1, <1>2 DEF Active, Zombies, Running
  <1>4. Forks'
    <2>1. ASSUME NEW r \in Slot
          PROVE  /\ InFork(r)' <=> np'[r] # NoProc
                 /\ InFork(r)' => state'[r] \in {"RUNNABLE", "RUNNING"}
                                    /\ state'[np'[r]] = "EMBRYO"
                 /\ state'[r] = "EMBRYO" => \E w \in Slot : np'[w] = r
      <3>1. InFork(r) => np[r] \in Slot /\ np[r] # p /\ r # p /\ state[np[r]] = "EMBRYO"
        BY <1>0, ForkSlot DEF ProcInv, Running
      <3> QED
        BY <1>0, <1>1, <1>2, <3>1, SMT DEF ProcInv, Forks, InFork, Running
    <2>2. ASSUME NEW r \in Slot, NEW w \in Slot, np'[r] # NoProc, np'[r] = np'[w]
          PROVE  r = w
      BY <1>1, <2>2 DEF ProcInv, Forks
    <2> QED
      BY <2>1, <2>2 DEF Forks
  <1>5. Family'
    <2>1. parent[initproc] = NoProc /\ NoProc # p
      BY Names DEF ProcInv, Family
    <2> QED
      BY <1>1, <1>2, <2>1, Names, ZenonT(40) DEF ProcInv, Family
  <1>6. ParentsAlive'
    <2>1. ParentsAlive /\ p \in Active /\ initproc \in Active
      BY <1>3 DEF ProcInv, ParentsAlive
    <2> QED
      BY <1>0, <1>1, <1>3, <2>1, ZenonT(40) DEF ParentsAlive, Active, Zombies
  <1>7. PidsUnique' /\ \A r \in Slot : pid'[r] < nextpid'
    BY <1>0, <1>1, <1>2, ZenonT(40) DEF ProcInv, PidsUnique, Running
  <1>8. NoMissedWakeup'
    <2>1. ASSUME NEW r \in Slot, state'[r] = "SLEEPING", chan'[r] = r
          PROVE  /\ \E c \in Slot : parent'[c] = r
                 /\ \A z \in Zombies' : parent'[z] # r
                 /\ ~killed'[r]
      <3>1. r # p /\ state[r] = "SLEEPING" /\ chan[r] = r
        BY <1>1, <1>2, <2>1
      <3>2. /\ \E c \in Slot : parent[c] = r
            /\ \A z \in Zombies : parent[z] # r
            /\ ~killed[r]
        BY <3>1 DEF ProcInv, NoMissedWakeup
      <3>3. \E c \in Slot : parent'[c] = r
        BY <1>1, <3>1, <3>2
      <3>4. parent'[p] # r
        <4>1. parent'[p] = parent[p]
          BY <1>1 DEF ProcInv, Family
        <4> QED
          BY <1>2, <2>1, <3>1, <4>1
      <3>5. ASSUME NEW z \in Zombies, parent'[z] = r
            PROVE  FALSE
        <4>1. z \in Slot /\ state[z] = "ZOMBIE" /\ parent[z] # r
          BY <3>2 DEF Zombies
        <4>2. parent[z] = p /\ r = initproc
          BY <1>1, <3>5, <4>1
        <4> QED
          BY <1>2, <2>1, <3>1, <4>1, <4>2
      <3>6. ~killed'[r]
        BY <1>1, <3>2
      <3> QED
        BY <1>3, <3>3, <3>4, <3>5, <3>6
    <2> QED
      BY <2>1 DEF NoMissedWakeup
  <1>9. \A q : Total(q)' = Total(q)
    BY <1>1 DEF Total
  <1>10. Dates'
    <2>1. ticks \in Nat
      BY <1>0 DEF TypeOK
    <2> QED
      BY <1>1, <1>9, <2>1, SMT DEF ProcInv, Dates
  <1>11. Accounting'
    BY <1>1, <1>3, <1>9 DEF ProcInv, Accounting, Active, Zombies
  <1> QED
    BY <1>4, <1>5, <1>6, <1>7, <1>8, <1>10, <1>11 DEF ProcInv

\* The slot of a zombie is freed by its parent.
LEMMA ReapStep ==
    ASSUME ProcInv, TypeOK', load' = load, NEW p \in Slot, NEW z \in Slot,
           Running(p), pc[p] \in {"wait", "wait_stat"},
           UNCHANGED <<nextpid, np, ticks>>, Reaps(p, z)
    PROVE  ProcInv'
  <1>0. /\ TypeOK /\ z # p /\ parent[z] = p /\ state[z] = "ZOMBIE" /\ z # initproc
        /\ ~InFork(p) /\ ~InFork(z) /\ z # NoProc
    BY Names DEF Reaps, Running, ProcInv, ParentsAlive, Active, InFork, Forks
  <1>1. /\ state'[z] = "UNUSED" /\ \A r \in Slot \ {z} : state'[r] = state[r]
        /\ pid'[z] = 0 /\ \A r \in Slot \ {z} : pid'[r] = pid[r]
        /\ parent'[z] = NoProc /\ \A r \in Slot \ {z} : parent'[r] = parent[r]
        /\ pc'[p] = "user" /\ \A r \in Slot \ {p} : pc'[r] = pc[r]
        /\ UNCHANGED chan
    BY <1>0, SMT DEF Reaps, TypeOK
  <1>2. \A r \in Slot \ {z} : killed'[r] = killed[r]
    BY <1>0 DEF Reaps, TypeOK
  <1>3. Active' = Active /\ Zombies' = Zombies \ {z}
    BY <1>0, <1>1 DEF Active, Zombies
  <1>4. Forks'
    <2>1. ASSUME NEW r \in Slot
          PROVE  /\ InFork(r)' <=> np'[r] # NoProc
                 /\ InFork(r)' => state'[r] \in {"RUNNABLE", "RUNNING"}
                                    /\ state'[np'[r]] = "EMBRYO"
                 /\ state'[r] = "EMBRYO" => \E w \in Slot : np'[w] = r
      <3>1. InFork(r) => np[r] \in Slot /\ np[r] # z /\ r # z /\ state[np[r]] = "EMBRYO"
        BY <1>0, ForkSlot DEF ProcInv
      <3>2. InFork(r)' <=> InFork(r)
        BY <1>0, <1>1 DEF InFork
      <3>3. Forks
        BY DEF ProcInv
      <3>4. /\ state'[r] = "EMBRYO" => state[r] = "EMBRYO"
            /\ np' = np /\ (r # z => state'[r] = state[r])
            /\ InFork(r) => state'[np[r]] = "EMBRYO"
        BY <1>0, <1>1, <3>1
      <3> QED
        BY <3>1, <3>2, <3>3, <3>4, SMT DEF Forks
    <2>2. ASSUME NEW r \in Slot, NEW w \in Slot, np'[r] # NoProc, np'[r] = np'[w]
          PROVE  r = w
      BY <2>2 DEF ProcInv, Forks
    <2> QED
      BY <2>1, <2>2, SMT DEF Forks
  <1>5. Family'
    BY <1>0, <1>1, Names, ZenonT(40) DEF ProcInv, Family
  <1>6. ParentsAlive'
    BY <1>1, <1>3 DEF ProcInv, ParentsAlive, Active, Zombies
  <1>7. PidsUnique' /\ \A r \in Slot : pid'[r] < nextpid'
    <2>1. 0 < nextpid
      BY <1>0, SMT DEF ProcInv, TypeOK
    <2> QED
      BY <1>1, <2>1, ZenonT(40) DEF ProcInv, PidsUnique
  <1>8. NoMissedWakeup'
    <2>1. ASSUME NEW r \in Slot, state'[r] = "SLEEPING", chan'[r] = r
          PROVE  /\ \E c \in Slot : parent'[c] = r
                 /\ \A c \in Zombies' : parent'[c] # r
                 /\ ~killed'[r]
      <3>1. r # p /\ r # z /\ state[r] = "SLEEPING" /\ chan[r] = r
        BY <1>0, <1>1, <2>1 DEF Running
      <3>2. /\ \E c \in Slot : parent[c] = r
            /\ \A c \in Zombies : parent[c] # r
            /\ ~killed[r]
        BY <3>1 DEF ProcInv, NoMissedWakeup
      <3>3. \E c \in Slot : parent'[c] = r
        BY <1>0, <1>1, <3>1, <3>2
      <3>4. \A c \in Zombies' : parent'[c] # r
        BY <1>1, <1>3, <3>2 DEF Zombies
      <3> QED
        BY <1>2, <3>1, <3>2, <3>3, <3>4
    <2> QED
      BY <2>1 DEF NoMissedWakeup
  <1>9. \A r \in Slot \ {z} : Total(r)' = Total(r) /\ ctime'[r] = ctime[r] /\ ttime'[r] = ttime[r]
    BY <1>0, SMT DEF Reaps, Total, TypeOK
  <1>10. ttime'[z] = ttime[z] \/ ttime'[z] = 0
    BY <1>0, SMT DEF Reaps, TypeOK
  <1>11. Dates'
    <2>1. ASSUME NEW r \in Slot
          PROVE  ttime'[r] <= ticks'
      <3>1. /\ ttime[r] <= ticks /\ ticks' = ticks /\ ticks \in Nat
            /\ ttime'[r] = ttime[r] \/ ttime'[r] = 0
        BY <1>0, <1>9, <1>10 DEF ProcInv, Dates, TypeOK
      <3> QED
        BY <3>1, SMT
    <2>2. ASSUME NEW r \in Slot, pc'[r] = "copy"
          PROVE  (ctime[np[r]] + Total(np[r]) <= ticks)'
      <3>1. pc[r] = "copy" /\ InFork(r)
        BY <1>0, <1>1, <2>2 DEF InFork
      <3>2. np[r] \in Slot \ {z}
        BY <1>0, <3>1, ForkSlot DEF ProcInv
      <3> QED
        BY <1>9, <3>1, <3>2 DEF ProcInv, Dates
    <2> QED
      BY <2>1, <2>2 DEF Dates
  <1>12. Accounting'
    <2>1. z \notin Active
      BY <1>0 DEF Active
    <2> QED
      BY <1>3, <1>9, <2>1 DEF ProcInv, Accounting, Active, Zombies
  <1> QED
    BY <1>4, <1>5, <1>6, <1>7, <1>8, <1>11, <1>12 DEF ProcInv

\* wait() and wait_stat(): a process that falls asleep has just looked at all
\* its children.
LEMMA WaitStep ==
    ASSUME ProcInv, TypeOK', load' = load, NEW p \in Slot, wait(p) \/ wait_stat(p)
    PROVE  ProcInv'
  <1>0. /\ TypeOK /\ Running(p) /\ pc[p] \in {"wait", "wait_stat"} /\ ~InFork(p)
        /\ UNCHANGED <<nextpid, np, ticks>>
    BY WaitDoes DEF ProcInv, InFork
  <1>1. ASSUME NEW z \in Slot, Reaps(p, z)
        PROVE  ProcInv'
    BY <1>0, <1>1, ReapStep
  <1>2. CASE Returns(p)
    <2>1. pc' = [pc EXCEPT ![p] = "user"] /\ pc \in [Slot -> Place]
      BY <1>0, <1>2 DEF Returns, TypeOK
    <2>2. \A q \in Slot :
             /\ \/ pc'[q] = pc[q]
                \/ ~InFork(q) /\ pc'[q] \notin {"kstack", "copy"}
             /\ pc'[q] = "exit" => pc[q] = "exit" \/ q # initproc
      BY <1>0, <2>1 DEF InFork
    <2>3. UNCHANGED <<state, chan, killed, pid, parent, nextpid, np, timeVars>>
      BY <1>0, <1>2 DEF Returns, timeVars
    <2> QED
      BY <2>2, <2>3, Harmless
  <1>3. CASE FallsAsleep(p)
    <2>1. /\ state'[p] = "SLEEPING" /\ \A q \in Slot \ {p} : state'[q] = state[q]
          /\ chan'[p] = p /\ \A q \in Slot \ {p} : chan'[q] = chan[q]
      BY <1>0, <1>3 DEF FallsAsleep, TypeOK
    <2>2. UNCHANGED <<pid, parent, nextpid, np, killed, pc, timeVars>>
      BY <1>0, <1>3 DEF FallsAsleep, timeVars
    <2>3. \A q \in Slot :
             /\ \/ state'[q] = state[q]
                \/ /\ state[q] \in Alive /\ state'[q] \in Alive
                   /\ InFork(q) => state'[q] # "SLEEPING"
             /\ InFork(q)' <=> InFork(q)
             /\ pc'[q] = "exit" => pc[q] = "exit" \/ q # initproc
      BY <1>0, <2>1, <2>2 DEF Alive, Running, InFork
    <2>4. /\ Forks' /\ Family' /\ ParentsAlive'
          /\ PidsUnique' /\ \A r \in Slot : pid'[r] < nextpid'
      BY <2>2, <2>3, Quiet
    <2>5. Dates' /\ Accounting'
      BY <1>0, <2>1, <2>2, Untimed DEF Alive, Running
    <2>6. NoMissedWakeup'
      <3>1. Zombies' = Zombies
        BY <1>0, <2>1 DEF Zombies, Running
      <3>2. /\ \E q \in Slot : parent[q] = p
            /\ \A q \in Zombies : parent[q] # p
            /\ ~killed[p]
        BY <1>3 DEF FallsAsleep, Zombies
      <3> QED
        BY <2>1, <2>2, <3>1, <3>2 DEF ProcInv, NoMissedWakeup
    <2> QED
      BY <2>4, <2>5, <2>6 DEF ProcInv
  <1> QED
    BY <1>0, <1>1, <1>2, <1>3, WaitDoes

-----------------------------------------------------------------------------
(* The theorems *)

\* userinit() makes the first process, and the rest of the table is free.
LEMMA ProcInvInit == Init => ProcInv
  <1> SUFFICES ASSUME Init
               PROVE  ProcInv
    OBVIOUS
  <1>1. NoTimes \in [ru : Nat, s : Nat, re : Nat]
    BY DEF NoTimes
  <1>2. TypeOK
    <2>1. killed \in [Slot -> BOOLEAN]
      BY DEF Init
    <2>2. /\ state \in [Slot -> States] /\ pid \in [Slot -> Nat] /\ nextpid \in Nat
          /\ parent \in [Slot -> Slot \cup {NoProc}] /\ chan \in [Slot -> Chan]
      BY Names DEF Init
    <2>3. /\ pc \in [Slot -> Place] /\ np \in [Slot -> Slot \cup {NoProc}]
      BY Names DEF Init
    <2>4. /\ ticks \in Nat /\ ctime \in [Slot -> Nat] /\ ttime \in [Slot -> Nat]
          /\ times \in [Slot -> [ru : Nat, s : Nat, re : Nat]]
      BY <1>1 DEF Init
    <2> QED
      BY <2>1, <2>2, <2>3, <2>4 DEF TypeOK
  <1>3. load \in Load
    BY ProcConstants DEF Init
  <1>4. \A p \in Slot : /\ pc[p] = "user" /\ np[p] = NoProc /\ parent[p] = NoProc
                        /\ state[p] = IF p = initproc THEN "RUNNABLE" ELSE "UNUSED"
                        /\ p # NoProc
    BY Names DEF Init
  <1>5. Forks /\ Family
    BY <1>4, Names DEF Forks, Family, InFork
  <1>6. Active = {initproc} /\ Zombies = {}
    BY <1>4, Names, SMT DEF Active, Zombies
  <1>7. ParentsAlive /\ NoMissedWakeup /\ PidsUnique
    BY <1>4, <1>6 DEF ParentsAlive, NoMissedWakeup, PidsUnique
  <1>8. \A p \in Slot : pid[p] < nextpid
    BY SMT DEF Init
  <1>9. Dates
    BY <1>4, SMT DEF Init, Dates
  <1>10. Accounting
    BY <1>6, Names, SMT DEF Init, Accounting, Total, NoTimes
  <1> QED
    BY <1>2, <1>3, <1>5, <1>7, <1>8, <1>9, <1>10 DEF ProcInv

\* Every step of the process table keeps the invariant.
LEMMA ProcInvStep == ProcInv /\ [Next]_vars => ProcInv'
  <1> SUFFICES ASSUME ProcInv, [Next]_vars
               PROVE  ProcInv'
    OBVIOUS
  <1>1. TypeOK' /\ load' = load
    BY TypeStep DEF ProcInv
  <1>2. ASSUME NEW p \in Slot, \E call \in load.calls : Enter(p, call)
        PROVE  ProcInv'
    BY <1>1, <1>2, SwitchStep
  <1>3. ASSUME NEW p \in Slot, Fault(p) \/ scheduler(p) \/ yield(p)
        PROVE  ProcInv'
    BY <1>1, <1>3, SwitchStep
  <1>4. ASSUME NEW p \in Slot, Step(p)
        PROVE  ProcInv'
    <2>1. CASE fork(p) \/ allocproc(p) \/ NoMemory(p) \/ fork_done(p)
      BY <1>1, <2>1, ForkStep, AllocStep, NoMemoryStep, BirthStep
    <2>2. CASE exit(p) \/ wait(p) \/ wait_stat(p)
      BY <1>1, <2>2, ExitStep, WaitStep
    <2>3. CASE \E n \in Targets : kill(p, n)
      BY <1>1, <2>3, KillStep
    <2>4. CASE sleep(p) \/ io_done(p) \/ input(p)
      BY <1>1, <2>4, SwitchStep
    <2> QED
      BY <1>4, <2>1, <2>2, <2>3, <2>4 DEF Step
  <1>5. CASE Tick \/ wakeup(IO) \/ wakeup(INPUT)
    BY <1>1, <1>5, TickStep, WakeupStep
  <1>6. CASE UNCHANGED vars
    <2>1. UNCHANGED <<state, chan, killed, pid, parent, nextpid, pc, np, timeVars>>
      BY <1>6 DEF vars, tableVars, codeVars
    <2> QED
      BY <1>1, <2>1, Harmless
  <1> QED
    BY <1>2, <1>3, <1>4, <1>5, <1>6 DEF Next

\* The invariant behind the properties of the process table, for a table of any
\* size, any number of processors and any mix of system calls.
THEOREM ProcInvariance == Spec => []ProcInv
  BY ProcInvInit, ProcInvStep, PTL DEF Spec

\* fork(), exit() and wait(): the parent of every process, and of every zombie
\* that is waiting to be reaped, is alive.
THEOREM ProcParents == Spec => []ParentsAlive
  <1>1. ProcInv => ParentsAlive
    BY DEF ProcInv
  <1> QED
    BY <1>1, ProcInvariance, PTL

\* wait() and wait_stat() never sleep beside a zombie child, without a child,
\* or killed.
THEOREM ProcWakeups == Spec => []NoMissedWakeup
  <1>1. ProcInv => NoMissedWakeup
    BY DEF ProcInv
  <1> QED
    BY <1>1, ProcInvariance, PTL

\* allocproc() and fork(), failed or not, leave every slot in use with one owner
\* and one pid.
THEOREM ProcTable == Spec => []TableKept
  <1>1. ProcInv => TableKept
    <2> SUFFICES ASSUME ProcInv
                 PROVE  EmbryosOwned
      BY DEF ProcInv, TableKept
    <2>1. ASSUME NEW q \in Slot, state[q] = "EMBRYO"
          PROVE  \E p \in Active : np[p] = q
      <3>1. PICK p \in Slot : np[p] = q
        BY <2>1 DEF ProcInv, Forks
      <3>2. p \in Active
        BY <3>1, Names, SMT DEF ProcInv, Forks, Active
      <3> QED
        BY <3>1, <3>2
    <2>2. ASSUME NEW q \in Slot, NEW p \in Active, np[p] = q
          PROVE  state[q] = "EMBRYO"
      BY <2>2, Names, SMT DEF ProcInv, Forks, Active
    <2> QED
      BY <2>1, <2>2 DEF EmbryosOwned
  <1> QED
    BY <1>1, ProcInvariance, PTL

\* What update_stat() counted for a process never exceeds its life, and nothing
\* counted for an earlier process in the slot is reported for it.
THEOREM ProcTimes == Spec => []Accounting
  <1>1. ProcInv => Accounting
    BY DEF ProcInv
  <1> QED
    BY <1>1, ProcInvariance, PTL

=============================================================================
