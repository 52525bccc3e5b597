-------------------------------- MODULE Clock -------------------------------
(***************************************************************************)
(* sys_sleep() (sysproc.c) against the timer interrupt (trap.c): processes *)
(* that sleep for a number of ticks of a counter that wraps.               *)
(***************************************************************************)
EXTENDS Integers, FiniteSets

CONSTANTS Sleeper,   \* processes that call sleep()
          TICKS,     \* number of values of the unsigned counter
          Naps,      \* arguments of sleep(), as unsigned numbers
          MaxLapse   \* bound: ticks since a call began, below TICKS

ASSUME ClockConstants ==
    /\ TICKS \in Nat \ {0}
    /\ Naps \subseteq 0..(TICKS - 1)
    /\ MaxLapse \in 0..(TICKS - 1)

VARIABLES ticks,   \* the counter
          nap      \* the call each process is in, with the ticks since then

clockVars == <<ticks, nap>>

Awake == [pc |-> "user", n |-> 0, t0 |-> 0, since |-> 0, killed |-> FALSE]

ClockInit == ticks = 0 /\ nap = [p \in Sleeper |-> Awake]

\* The timer interrupt on cpu 0, under tickslock: count and wake everybody.
\* (since counts the ticks that really passed.)
tick ==
    /\ \A p \in Sleeper : nap[p].since < MaxLapse
    /\ ticks' = (ticks + 1) % TICKS
    /\ nap' = [p \in Sleeper |->
          IF nap[p].pc = "user" THEN nap[p]
          ELSE [nap[p] EXCEPT !.since = @ + 1,
                              !.pc = IF @ = "asleep" THEN "woken" ELSE @]]

\* Variant: the tick that is under way counts.
Sleeps_early(t0, n) == ((ticks - t0) % TICKS) + 1 < n

\* Variant: the comparison does not wrap.
Sleeps_signed(t0, n) == ticks - t0 < n

\* while(ticks - ticks0 < n)
Sleeps(t0, n) == (ticks - t0) % TICKS < n

\* The loop from one acquisition of tickslock to the next sleep or the return.
Loop(p, r) ==
    nap' = [nap EXCEPT ![p] =
        IF ~Sleeps(r.t0, r.n) THEN [r EXCEPT !.pc = "slept"]
        ELSE IF r.killed THEN Awake
        ELSE [r EXCEPT !.pc = "asleep"]]

Asked(n) == [pc |-> "user", n |-> n, t0 |-> ticks, since |-> 0, killed |-> FALSE]

sys_sleep(p) ==
    /\ nap[p].pc = "user"
    /\ \E n \in Naps : Loop(p, Asked(n))
    /\ UNCHANGED ticks

resume(p) == nap[p].pc = "woken" /\ Loop(p, nap[p]) /\ UNCHANGED ticks

sleep_returns(p) ==
    nap[p].pc = "slept" /\ nap' = [nap EXCEPT ![p] = Awake] /\ UNCHANGED ticks

kill_sleeper(p) ==
    /\ nap[p].pc \in {"asleep", "woken"} /\ ~nap[p].killed
    /\ nap' = [nap EXCEPT ![p].killed = TRUE, ![p].pc = "woken"]
    /\ UNCHANGED ticks

ClockNext ==
    \/ tick
    \/ \E p \in Sleeper : sys_sleep(p) \/ resume(p) \/ sleep_returns(p) \/ kill_sleeper(p)

ClockSpec == ClockInit /\ [][ClockNext]_clockVars

\* A sleep that succeeds lasted at least as many ticks as were asked for, also
\* across the wrap of the counter (sysproc.c:91).
NeverEarly == \A p \in Sleeper : nap[p].pc = "slept" => nap[p].since >= nap[p].n

\* No process is asleep past its time: the comparison and the sleep are under
\* the lock under which the tick is counted.
NoMissedTick == \A p \in Sleeper : nap[p].pc = "asleep" => nap[p].since < nap[p].n

\* sys_sleep() sleeps for as long as it was asked to.
SleepsExact == NeverEarly /\ NoMissedTick

-----------------------------------------------------------------------------
(* The inductive invariant behind the two. *)

Nap == [pc : {"user", "asleep", "woken", "slept"}, n : 0..(TICKS - 1),
        t0 : 0..(TICKS - 1), since : 0..MaxLapse, killed : BOOLEAN]

\* The difference that the loop computes from the wrapped counter is the number
\* of ticks that really passed since the call began.
Lapse == \A p \in Sleeper :
            nap[p].pc # "user" => (ticks - nap[p].t0) % TICKS = nap[p].since

ClockInv ==
    /\ ticks \in 0..(TICKS - 1) /\ nap \in [Sleeper -> Nap]
    /\ Lapse /\ NeverEarly /\ NoMissedTick

=============================================================================
