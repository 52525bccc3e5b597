---------------------------- MODULE DeviceProofs ----------------------------
(***************************************************************************)
(* Proofs about Clock and Devices.  sys_sleep() neither returns early nor  *)
(* sleeps past its time, whatever the width of the counter, as long as no  *)
(* call lasts for TICKS ticks; the cursor stays on the screen, whatever    *)
(* its size, and the keyboard reads inside its tables.                     *)
(***************************************************************************)
EXTENDS Clock, Devices, DataLemmas

-----------------------------------------------------------------------------
(* The clock *)

\* The loop of sys_sleep(), entered with a call r that agrees with the counter.
LEMMA LoopStep ==
    ASSUME ClockInv, UNCHANGED ticks, NEW p \in Sleeper, NEW r \in Nap,
           (ticks - r.t0) % TICKS = r.since, Loop(p, r)
    PROVE  ClockInv'
  <1> USE ClockConstants
  <1> DEFINE s == nap'[p]
  <1>0. Awake \in Nap
    BY DEF Awake, Nap
  <1>1. nap' \in [Sleeper -> Nap] /\ \A q \in Sleeper \ {p} : nap'[q] = nap[q]
    BY <1>0 DEF Loop, ClockInv, Nap
  <1>2. \/ s = [r EXCEPT !.pc = "slept"] /\ ~Sleeps(r.t0, r.n)
        \/ s = Awake
        \/ s = [r EXCEPT !.pc = "asleep"] /\ Sleeps(r.t0, r.n)
    BY DEF Loop, ClockInv
  <1>3. s.pc # "user" => (ticks' - s.t0) % TICKS = s.since
    BY <1>2 DEF Awake, Nap
  <1>4. s.pc = "slept" => s.since >= s.n
    BY <1>2 DEF Awake, Nap, Sleeps
  <1>5. s.pc = "asleep" => s.since < s.n
    BY <1>2 DEF Awake, Nap, Sleeps
  <1> HIDE DEF s
  <1>6. Lapse'
    BY <1>1, <1>3 DEF s, Lapse, ClockInv
  <1>7. NeverEarly' /\ NoMissedTick'
    BY <1>1, <1>4, <1>5 DEF s, NeverEarly, NoMissedTick, ClockInv
  <1> QED
    BY <1>1, <1>6, <1>7 DEF ClockInv

\* The clock interrupt counts for every call in progress.
LEMMA TickStep ==
    ASSUME ClockInv, tick
    PROVE  ClockInv'
  <1> USE ClockConstants
  <1>1. ticks' \in 0..(TICKS - 1)
    BY Successor DEF tick, ClockInv
  <1>2. nap' \in [Sleeper -> Nap]
    <2>1. ASSUME NEW p \in Sleeper
          PROVE  nap'[p] \in Nap
      <3>1. nap[p] \in Nap /\ nap[p].since < MaxLapse
        BY DEF tick, ClockInv
      <3>2. nap[p].since + 1 \in 0..MaxLapse
        BY <3>1 DEF Nap
      <3> QED
        BY <3>1, <3>2 DEF tick, Nap
    <2> QED
      BY <2>1 DEF tick
  <1>3. ASSUME NEW p \in Sleeper
        PROVE  /\ nap'[p].pc # "user" => (ticks' - nap'[p].t0) % TICKS = nap'[p].since
               /\ nap'[p].pc = "slept" => nap'[p].since >= nap'[p].n
               /\ nap'[p].pc # "asleep"
    <2>1. nap[p] \in Nap /\ nap[p].since < MaxLapse
      BY DEF tick, ClockInv
    <2>2. CASE nap[p].pc = "user"
      BY <2>1, <2>2 DEF tick
    <2>3. CASE nap[p].pc # "user"
      <3>1. nap'[p] = [nap[p] EXCEPT !.since = @ + 1,
                                     !.pc = IF @ = "asleep" THEN "woken" ELSE @]
        BY <2>3 DEF tick
      <3>2. (ticks - nap[p].t0) % TICKS = nap[p].since
        BY <2>3 DEF ClockInv, Lapse
      <3>3. nap[p].since < TICKS - 1
        BY <2>1 DEF Nap
      <3>4. (ticks' - nap[p].t0) % TICKS = nap[p].since + 1
        <4>1. ticks \in 0..(TICKS - 1) /\ nap[p].t0 \in 0..(TICKS - 1)
          BY <2>1 DEF ClockInv, Nap
        <4>2. (ticks - nap[p].t0) % TICKS < TICKS - 1
          BY <3>2, <3>3
        <4>3. (((ticks + 1) % TICKS) - nap[p].t0) % TICKS
                = ((ticks - nap[p].t0) % TICKS) + 1
          BY <4>1, <4>2, AheadByOne
        <4> QED
          BY <3>2, <4>3 DEF tick
      <3>5. nap[p].pc = "slept" => nap[p].since >= nap[p].n
        BY DEF ClockInv, NeverEarly
      <3> QED
        BY <2>1, <3>1, <3>4, <3>5 DEF Nap
    <2> QED
      BY <2>2, <2>3
  <1> QED
    BY <1>1, <1>2, <1>3 DEF ClockInv, Lapse, NeverEarly, NoMissedTick

\* sys_sleep() and the clock interrupt keep the difference that the loop
\* compares (sysproc.c:91) equal to the ticks that passed.
THEOREM ClockInvariance == ClockSpec => []ClockInv
  <1> USE ClockConstants
  <1>1. ClockInit => ClockInv
    <2>1. Awake \in Nap
      BY DEF Awake, Nap
    <2> QED
      BY <2>1 DEF ClockInit, ClockInv, Awake, Lapse, NeverEarly, NoMissedTick
  <1>2. ClockInv /\ [ClockNext]_clockVars => ClockInv'
    <2> SUFFICES ASSUME ClockInv, [ClockNext]_clockVars
                 PROVE  ClockInv'
      OBVIOUS
    <2>1. CASE tick
      BY <2>1, TickStep
    <2>2. ASSUME NEW p \in Sleeper, sys_sleep(p)
          PROVE  ClockInv'
      <3>1. PICK n \in Naps : Loop(p, Asked(n))
        BY <2>2 DEF sys_sleep
      <3> DEFINE r == Asked(n)
      <3>0. n \in 0..(TICKS - 1) /\ ticks \in 0..(TICKS - 1)
        BY DEF ClockInv
      <3>2. r \in Nap /\ r.t0 = ticks /\ r.since = 0
        BY <3>0 DEF Asked, Nap
      <3>3. (ticks - ticks) % TICKS = 0
        BY Difference DEF ClockInv
      <3> QED
        <4>1. (ticks - r.t0) % TICKS = r.since
          BY <3>2, <3>3
        <4>2. Loop(p, r) /\ UNCHANGED ticks
          BY <2>2, <3>1 DEF sys_sleep
        <4> HIDE DEF r
        <4> QED
          BY <3>2, <4>1, <4>2, LoopStep
    <2>3. ASSUME NEW p \in Sleeper, resume(p)
          PROVE  ClockInv'
      <3>1. nap[p] \in Nap /\ (ticks - nap[p].t0) % TICKS = nap[p].since
        BY <2>3 DEF resume, ClockInv, Lapse
      <3> QED
        BY <2>3, <3>1, LoopStep DEF resume
    <2>4. ASSUME NEW p \in Sleeper, sleep_returns(p)
          PROVE  ClockInv'
      <3>1. Awake \in Nap
        BY DEF Awake, Nap
      <3> QED
        BY <2>4, <3>1 DEF sleep_returns, Awake, ClockInv, Lapse, NeverEarly, NoMissedTick
    <2>5. ASSUME NEW p \in Sleeper, kill_sleeper(p)
          PROVE  ClockInv'
      BY <2>5 DEF kill_sleeper, ClockInv, Nap, Lapse, NeverEarly, NoMissedTick
    <2>6. CASE UNCHANGED clockVars
      BY <2>6 DEF clockVars, ClockInv, Lapse, NeverEarly, NoMissedTick
    <2> QED
      BY <2>1, <2>2, <2>3, <2>4, <2>5, <2>6 DEF ClockNext
  <1> QED
    BY <1>1, <1>2, PTL DEF ClockSpec

\* A sleep that succeeds lasted as long as was asked (sysproc.c:91), and nobody
\* is asleep past the tick that ends the sleep, for a counter of any width.
THEOREM SleepsExactly == ClockSpec => []SleepsExact
  <1>1. ClockInv => SleepsExact
    BY DEF ClockInv, SleepsExact
  <1> QED
    BY <1>1, ClockInvariance, PTL

-----------------------------------------------------------------------------
(* The screen *)

\* Of two products with the same factor the one with more is the larger.
LEMMA TimesMonotone ==
    ASSUME NEW a \in Nat, NEW b \in Nat, NEW c \in Nat, a <= b
    PROVE  c * a <= c * b
  <1>1. c * b = c * a + c * (b - a)
    OBVIOUS
  <1>2. c * (b - a) >= 0
    OBVIOUS
  <1> QED
    BY <1>1, <1>2

\* A position is above row n exactly when it is below n full rows.
LEMMA Rows ==
    ASSUME NEW p \in Nat, NEW n \in Nat
    PROVE  p \div COLS < n <=> p < n * COLS
  <1> DEFINE d == p \div COLS
             r == p % COLS
  <1>1. d \in Int /\ r \in 0..(COLS - 1) /\ p = COLS * d + r
    BY DivMod, DeviceConstants
  <1>2. COLS \in Nat \ {0}
    BY DeviceConstants
  <1> HIDE DEF d, r
  <1>3. d >= 0
    <2>1. ASSUME d < 0 PROVE FALSE
      <3>1. COLS * d <= -COLS
        BY <1>1, <1>2, <2>1
      <3> QED
        BY <1>1, <1>2, <3>1
    <2> QED
      BY <1>1, <2>1
  <1>4. ASSUME d < n
        PROVE  p < n * COLS
    <2>1. COLS * (d + 1) <= COLS * n
      BY <1>1, <1>2, <1>3, <1>4, TimesMonotone
    <2>2. COLS * (d + 1) = COLS * d + COLS /\ n * COLS = COLS * n
      BY <1>1, <1>2
    <2>3. COLS * d \in Int /\ COLS * n \in Int
      BY <1>1, <1>2
    <2> QED
      BY <1>1, <1>2, <2>1, <2>2, <2>3
  <1>5. ASSUME n <= d
        PROVE  n * COLS <= p
    <2>1. COLS * n <= COLS * d
      BY <1>1, <1>2, <1>3, <1>5, TimesMonotone
    <2>2. COLS * d \in Int /\ COLS * n \in Int /\ n * COLS = COLS * n
      BY <1>1, <1>2
    <2> QED
      BY <1>1, <1>2, <2>1, <2>2
  <1> QED
    BY <1>1, <1>2, <1>4, <1>5 DEF d

\* cgaputc() leaves the cursor on the screen.
LEMMA CursorStep ==
    ASSUME DeviceInv, NEW c, consputc(c)
    PROVE  pos' \in Nat /\ pos' < ROWS * COLS
  <1> DEFINE p == CASE c = "nl" -> pos + COLS - (pos % COLS)
                    [] c = "backspace" -> IF pos > 0 THEN pos - 1 ELSE pos
                    [] OTHER -> pos + 1
  <1>1. pos \in Nat /\ pos < ROWS * COLS /\ ROWS \in Nat \ {0} /\ COLS \in Nat \ {0}
    BY DeviceConstants DEF DeviceInv
  <1>2. pos % COLS \in 0..(COLS - 1) /\ pos % COLS <= pos
    <2>1. pos = COLS * (pos \div COLS) + (pos % COLS) /\ pos % COLS \in 0..(COLS - 1)
      BY <1>1, DivMod
    <2>2. pos \div COLS \in Nat
      BY <1>1
    <2>3. COLS * (pos \div COLS) \in Nat
      BY <1>1, <2>2
    <2> QED
      BY <1>1, <2>1, <2>3
  <1>3. p \in Nat /\ p <= pos + COLS
    BY <1>1, <1>2
  <1>4. pos' = IF p \div COLS >= ROWS THEN p - COLS ELSE p
    BY DEF consputc, cgaputc
  <1> HIDE DEF p
  <1>5. p \div COLS \in Int
    BY <1>1, <1>3, DivMod
  <1>6. ROWS * COLS \in Nat /\ COLS <= ROWS * COLS
    <2>1. COLS * 1 <= COLS * ROWS /\ ROWS * COLS = COLS * ROWS
      BY <1>1, TimesMonotone
    <2> QED
      BY <1>1, <2>1
  <1>7. CASE p \div COLS >= ROWS
    <2>1. ~(p < ROWS * COLS)
      BY <1>1, <1>3, <1>5, <1>7, Rows
    <2> QED
      BY <1>1, <1>3, <1>4, <1>6, <1>7, <2>1
  <1>8. CASE p \div COLS < ROWS
    <2>1. p < ROWS * COLS
      BY <1>1, <1>3, <1>8, Rows
    <2> QED
      BY <1>1, <1>3, <1>4, <1>5, <1>8, <2>1
  <1> QED
    BY <1>1, <1>5, <1>7, <1>8

-----------------------------------------------------------------------------
(* The keyboard *)

\* No two keys share a scan code; which keys shift, and which toggle.
LEMMA KeyFacts ==
    /\ \A k \in Key : Down(k) # E0 /\ Up(k) # E0 /\ Down(k).key = k /\ Up(k).key = k
    /\ \A k \in Key : Up(k).up /\ ~Down(k).up
    /\ \A j, k \in Key : Up(j) # Down(k)
    /\ \A j, k \in Key : Up(j) = Up(k) => j = k
    /\ \A k \in Key : shiftcode(k) \subseteq {"SHIFT", "CTL"}
    /\ \A k \in Key : togglecode(k) \subseteq {"CAPSLOCK"}
  BY DEF Key, Down, Up, E0, shiftcode, togglecode

\* kbdgetc() reads a byte.
LEMMA KeyStep ==
    ASSUME DeviceInv, kbdintr
    PROVE  DeviceInv'
  <1>1. wire # <<>> /\ UNCHANGED <<down, pos>>
    BY DEF kbdintr
  <1>2. PICK k \in Key : wire = <<Report(k)>> \/ wire = <<E0, Report(k)>>
    BY <1>1 DEF DeviceInv
  <1>3. CASE wire = <<E0, Report(k)>>
    <2>1. wire' = <<Report(k)>> /\ shift' = shift \cup {"E0ESC"}
      BY <1>3 DEF kbdintr, kbdgetc
    <2>2. ASSUME NEW m \in shift' \cap {"SHIFT", "CTL"}
          PROVE  \E j \in Key : /\ m \in shiftcode(j)
                                /\ j \in down' \/ wire' = <<Up(j)>> \/ wire' = <<E0, Up(j)>>
      <3>1. m \in shift \cap {"SHIFT", "CTL"}
        BY <2>1, <2>2
      <3>2. PICK j \in Key : /\ m \in shiftcode(j)
                             /\ j \in down \/ wire = <<Up(j)>> \/ wire = <<E0, Up(j)>>
        BY <3>1 DEF DeviceInv
      <3>3. CASE j \in down
        BY <1>1, <3>2, <3>3
      <3>4. CASE wire = <<Up(j)>> \/ wire = <<E0, Up(j)>>
        <4>1. Report(k) = Up(j)
          BY <1>3, <3>4
        <4> QED
          BY <2>1, <3>2, <4>1
      <3> QED
        BY <3>2, <3>3, <3>4
    <2>3. Report(k)' = Report(k)
      BY <1>1 DEF Report
    <2>4. shift' \subseteq {"SHIFT", "CTL", "CAPSLOCK", "E0ESC"}
      BY <2>1 DEF DeviceInv
    <2>5. wire' # <<>>
      BY <2>1
    <2> QED
      BY <1>1, <2>1, <2>2, <2>3, <2>4, <2>5 DEF DeviceInv
  <1>4. CASE wire = <<Report(k)>>
    <2>1. wire' = <<>> /\ Head(wire) = Report(k)
      BY <1>4 DEF kbdintr
    <2>2. /\ shift' \subseteq {"SHIFT", "CTL", "CAPSLOCK"}
          /\ k \notin down => shift' \subseteq shift \ shiftcode(k)
          /\ k \in down => shift' \cap {"SHIFT", "CTL"} \subseteq shift \cup shiftcode(k)
      <3>1. /\ shiftcode(k) \subseteq {"SHIFT", "CTL"} /\ togglecode(k) \subseteq {"CAPSLOCK"}
            /\ shift \subseteq {"SHIFT", "CTL", "CAPSLOCK", "E0ESC"}
        BY KeyFacts DEF DeviceInv
      <3>2. CASE k \in down
        <4>1. shift' = SymDiff((shift \ {"E0ESC"}) \cup shiftcode(k), togglecode(k))
          BY <2>1, <3>2, KeyFacts DEF kbdintr, kbdgetc, Report
        <4> QED
          BY <3>1, <3>2, <4>1 DEF SymDiff
      <3>3. CASE k \notin down
        <4>1. shift' = shift \ (shiftcode(k) \cup {"E0ESC"})
          BY <2>1, <3>3, KeyFacts DEF kbdintr, kbdgetc, Report
        <4> QED
          BY <3>1, <3>3, <4>1
      <3> QED
        BY <3>2, <3>3
    <2>3. ASSUME NEW m \in shift' \cap {"SHIFT", "CTL"}
          PROVE  \E j \in Key : m \in shiftcode(j) /\ j \in down
      <3>1. CASE m \notin shift
        BY <2>2, <3>1
      <3>2. CASE m \in shift
        <4>1. PICK j \in Key : /\ m \in shiftcode(j)
                               /\ j \in down \/ wire = <<Up(j)>> \/ wire = <<E0, Up(j)>>
          BY <3>2 DEF DeviceInv
        <4>2. CASE j \notin down
          <5>1. Report(k) = Up(j)
            BY <1>4, <4>1, <4>2
          <5>2. k = j /\ k \notin down
            BY <5>1, KeyFacts DEF Report
          <5> QED
            BY <2>2, <4>1, <5>2
        <4> QED
          BY <4>1, <4>2
      <3> QED
        BY <3>1, <3>2
    <2> QED
      BY <1>1, <2>1, <2>2, <2>3 DEF DeviceInv
  <1> QED
    BY <1>2, <1>3, <1>4

\* A key is pressed or released.
LEMMA HandStep ==
    ASSUME DeviceInv, NEW k \in Key, press(k) \/ lift(k)
    PROVE  DeviceInv'
  <1>1. /\ wire = <<>> /\ UNCHANGED <<shift, pos>>
        /\ wire' = <<Report(k)'>> \/ wire' = <<E0, Report(k)'>>
        /\ \A j \in Key : j # k => (j \in down' <=> j \in down)
        /\ down' \subseteq Key
        /\ k \notin down' => wire' = <<Up(k)>> \/ wire' = <<E0, Up(k)>>
    BY DEF press, lift, Send, Report, DeviceInv
  <1>2. wire' # <<>>
    BY <1>1
  <1>3. ASSUME NEW m \in shift' \cap {"SHIFT", "CTL"}
        PROVE  \E j \in Key : /\ m \in shiftcode(j)
                              /\ j \in down' \/ wire' = <<Up(j)>> \/ wire' = <<E0, Up(j)>>
    <2>1. PICK j \in Key : m \in shiftcode(j) /\ j \in down
      BY <1>1 DEF DeviceInv
    <2> QED
      BY <1>1, <2>1
  <1> QED
    BY <1>1, <1>2, <1>3 DEF DeviceInv

\* Every reachable state of the keyboard and the screen satisfies the invariant.
THEOREM DeviceInvariance == DeviceSpec => []DeviceInv
  <1>1. DeviceInit => DeviceInv
    <2> SUFFICES ASSUME DeviceInit PROVE DeviceInv
      OBVIOUS
    <2>1. 0 < ROWS * COLS
      <3>1. COLS * 1 <= COLS * ROWS /\ ROWS * COLS = COLS * ROWS
        BY DeviceConstants, TimesMonotone
      <3> QED
        BY DeviceConstants, <3>1
    <2> QED
      BY <2>1 DEF DeviceInit, DeviceInv
  <1>2. DeviceInv /\ [DeviceNext]_deviceVars => DeviceInv'
    <2> SUFFICES ASSUME DeviceInv, [DeviceNext]_deviceVars PROVE DeviceInv'
      OBVIOUS
    <2>1. ASSUME NEW c, consputc(c)
          PROVE  DeviceInv'
      <3>1. UNCHANGED <<shift, wire, down>>
        BY <2>1 DEF consputc
      <3> QED
        BY <2>1, <3>1, CursorStep DEF DeviceInv, Report
    <2>2. CASE UNCHANGED deviceVars
      BY <2>2 DEF deviceVars, DeviceInv, Report
    <2> QED
      BY <2>1, <2>2, KeyStep, HandStep DEF DeviceNext
  <1> QED
    BY <1>1, <1>2, PTL DEF DeviceSpec

\* No modifier stays on when all keys are up, and the cursor stays on the screen,
\* for a screen of any size (kbd.c:20, console.c:150).
THEOREM DevicesAreKept == DeviceSpec => []DevicesKept
  <1>1. DeviceInv => DevicesKept
    BY DEF DeviceInv, DevicesKept, NoStuckKey, CursorOnScreen
  <1> QED
    BY <1>1, DeviceInvariance, PTL

=============================================================================
