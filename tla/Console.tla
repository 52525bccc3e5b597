------------------------------- MODULE Console ------------------------------
(***************************************************************************)
(* The console driver (console.c): the interrupt that edits the line being *)
(* typed in a ring buffer, consoleread() that sleeps for complete lines,   *)
(* and gets() of the user library, through which the shell reads commands. *)
(* The indexes r, w and e are unsigned and wrap at INDEX.                   *)
(***************************************************************************)
EXTENDS Integers, FiniteSets, Sequences

CONSTANTS Reader,     \* processes that read the console
          INPUT_BUF,  \* characters in the ring
          INDEX,       \* number of values of an index, a multiple of INPUT_BUF
          Letter,     \* characters with no special meaning
          ReadSizes,  \* lengths asked of read()
          GetsMax     \* length of the buffer given to gets()

ASSUME ConsoleConstants ==
    /\ INPUT_BUF \in Nat \ {0}
    /\ INDEX \in Nat /\ INDEX % INPUT_BUF = 0 /\ INPUT_BUF < INDEX
    /\ ReadSizes \subseteq Nat /\ GetsMax \in Nat \ {0}

VARIABLES input,      \* the ring: buf, r, w, e
          reader,     \* the call each process is in
          consLock    \* {} or the process that holds cons.lock

consoleVars == <<input, reader, consLock>>

Keys == Letter \cup {"nl", "cr", "eot", "kill", "erase", "procdump", "nul"}
Stored == Letter \cup {"nl", "eot"}

Dist(a, b) == (a - b) % INDEX
Next1(a) == (a + 1) % INDEX
At(i) == input.buf[i % INPUT_BUF]

AtUser == [pc |-> "user", n |-> 0, got |-> <<>>, gets |-> FALSE,
           line |-> <<>>, killed |-> FALSE]

\* consoleinit()
ConsoleInit ==
    /\ input = [buf |-> [i \in 0..(INPUT_BUF - 1) |-> "nl"],
                r |-> 0, w |-> 0, e |-> 0]
    /\ reader = [p \in Reader |-> AtUser]
    /\ consLock = {}

-----------------------------------------------------------------------------
\* Control-U: back to the last committed character or newline.
KillLine ==
    LET n == CHOOSE k \in 0..INPUT_BUF :
                /\ Dist(input.e, k) = input.w \/ At(Dist(input.e, k + 1)) = "nl"
                /\ \A j \in 0..(k - 1) :
                      Dist(input.e, j) # input.w /\ At(Dist(input.e, j + 1)) # "nl"
    IN  [input EXCEPT !.e = Dist(@, n)]

\* Control-H erases one character that is not committed.
Backspace ==
    IF input.e # input.w THEN [input EXCEPT !.e = Dist(@, 1)] ELSE input

HasRoom == Dist(input.e, input.r) < INPUT_BUF

\* Variant: a full ring is not handed to the readers.
Ends_line(c, e) == c \in {"nl", "eot"}

\* A newline, an end of file or a full ring ends the line.
Ends(c, e) == c \in {"nl", "eot"} \/ Dist(e, input.r) = INPUT_BUF

Insert(k) ==
    LET c == IF k = "cr" THEN "nl" ELSE k
        e == Next1(input.e)
    IN  IF k # "nul" /\ HasRoom
        THEN [input EXCEPT !.buf[input.e % INPUT_BUF] = c, !.e = e,
                           !.w = IF Ends(c, e) THEN e ELSE @]
        ELSE input

\* Variant: a ring that fills up wakes nobody.
Wakes_line(new) == new.w # input.w /\ new.buf[input.e % INPUT_BUF] \in {"nl", "eot"}

\* wakeup(&input.r): the line has ended.
Wakes(new) == new.w # input.w

\* consoleintr() for one character, under cons.lock; the readers that sleep are
\* woken when the line ends.
consoleintr(k) ==
    LET new == CASE k = "procdump" -> input
                 [] k = "kill"     -> KillLine
                 [] k = "erase"    -> Backspace
                 [] OTHER          -> Insert(k)
    IN  /\ consLock = {}
        /\ input' = new
        /\ reader' = [p \in Reader |->
              IF Wakes(new) /\ reader[p].pc = "asleep"
              THEN [reader[p] EXCEPT !.pc = "woken"] ELSE reader[p]]
        /\ UNCHANGED consLock

-----------------------------------------------------------------------------
\* A process calls read(), or gets(), which reads one character at a time:
\* consoleread() acquires cons.lock.
read(p) ==
    /\ reader[p].pc = "user" /\ consLock = {}
    /\ \/ \E n \in ReadSizes :
            reader' = [reader EXCEPT ![p] = [AtUser EXCEPT !.pc = "loop", !.n = n]]
       \/ /\ GetsMax > 1
          /\ reader' = [reader EXCEPT ![p] = [AtUser EXCEPT !.pc = "loop", !.n = 1,
                                                            !.gets = TRUE]]
    /\ consLock' = {p}
    /\ UNCHANGED input

\* Variant: the terminating NUL is written past the buffer.
GetsMore_late(line) == Len(line) < GetsMax

\* gets() has room for a character and the terminating NUL.
GetsMore(line) == Len(line) + 1 < GetsMax

\* consoleread() returns: to the program, which exits if it was killed, or to
\* gets(), which stops at nothing read, a newline or a full buffer.
Returns(p, got, ok) ==
    LET line == IF reader[p].gets THEN reader[p].line \o got ELSE <<>>
    IN  /\ consLock' = {}
        /\ reader' = [reader EXCEPT ![p] =
              IF /\ reader[p].gets /\ ok /\ got # <<>> /\ got # <<"nl">>
                 /\ GetsMore(line) /\ ~reader[p].killed
              THEN [@ EXCEPT !.pc = "again", !.got = got, !.line = line]
              ELSE [AtUser EXCEPT !.got = got, !.line = line]]

\* gets() calls read() for the next character.
gets(p) ==
    /\ reader[p].pc = "again" /\ consLock = {}
    /\ reader' = [reader EXCEPT ![p].pc = "loop", ![p].n = 1, ![p].got = <<>>]
    /\ consLock' = {p}
    /\ UNCHANGED input

Holds(p, pc) == reader[p].pc = pc /\ consLock = {p}
NoInput == input.r = input.w

\* Nothing to read: a killed process gives up, another one goes to sleep.
consoleread_wait(p) ==
    /\ Holds(p, "loop") /\ reader[p].n > 0 /\ NoInput
    /\ IF reader[p].killed
       THEN Returns(p, reader[p].got, FALSE)
       ELSE reader' = [reader EXCEPT ![p].pc = "sleep"] /\ UNCHANGED consLock
    /\ UNCHANGED input

\* sleep() gives the lock back as the process falls asleep.
consoleread_sleep(p) ==
    /\ Holds(p, "sleep")
    /\ reader' = [reader EXCEPT ![p].pc = "asleep"]
    /\ consLock' = {}
    /\ UNCHANGED input

\* sleep() returns with the lock.
wakes(p) ==
    /\ reader[p].pc = "woken" /\ consLock = {}
    /\ reader' = [reader EXCEPT ![p].pc = "loop"]
    /\ consLock' = {p}
    /\ UNCHANGED input

\* One character is taken.  An end of file after other characters is left for
\* the next read.
consoleread_char(p) ==
    LET c    == At(input.r)
        got  == Append(reader[p].got, c)
        rest == [input EXCEPT !.r = Next1(@)]
    IN  /\ Holds(p, "loop") /\ reader[p].n > 0 /\ ~NoInput
        /\ \/ /\ c = "eot"
              /\ input' = IF reader[p].got = <<>> THEN rest ELSE input
              /\ Returns(p, reader[p].got, TRUE)
           \/ /\ c = "nl"
              /\ input' = rest /\ Returns(p, got, TRUE)
           \/ /\ c \notin {"eot", "nl"}
              /\ input' = rest
              /\ reader' = [reader EXCEPT ![p].n = @ - 1, ![p].got = got]
              /\ UNCHANGED consLock

\* As many characters as were asked for.
consoleread_full(p) ==
    /\ Holds(p, "loop") /\ reader[p].n = 0
    /\ Returns(p, reader[p].got, TRUE)
    /\ UNCHANGED input

\* kill() from another process, at any moment of the call.
kill_reader(p) ==
    /\ reader[p].pc # "user" /\ ~reader[p].killed
    /\ reader' = [reader EXCEPT ![p].killed = TRUE,
                     ![p].pc = IF @ = "asleep" THEN "woken" ELSE @]
    /\ UNCHANGED <<input, consLock>>

ConsoleNext ==
    \/ \E k \in Keys : consoleintr(k)
    \/ \E p \in Reader :
          \/ read(p) \/ gets(p) \/ consoleread_wait(p) \/ consoleread_sleep(p) \/ wakes(p)
          \/ consoleread_char(p) \/ consoleread_full(p) \/ kill_reader(p)

ConsoleSpec == ConsoleInit /\ [][ConsoleNext]_consoleVars

-----------------------------------------------------------------------------
Content(from, to) == [k \in 1..Dist(to, from) |-> At(from + k - 1)]

\* The indexes are in order and at most a ring apart, also when they have
\* wrapped (console.c:214), and gets() stays inside its buffer.
ConsoleTypeOK ==
    /\ input.buf \in [0..(INPUT_BUF - 1) -> Stored]
    /\ {input.r, input.w, input.e} \subseteq 0..(INDEX - 1)
    /\ Dist(input.w, input.r) <= Dist(input.e, input.r)
    /\ Dist(input.e, input.r) <= INPUT_BUF
    /\ consLock \in {{}} \cup {{p} : p \in Reader}
    /\ \A p \in Reader :
          /\ reader[p].pc \in {"user", "loop", "sleep", "asleep", "woken", "again"}
          /\ Len(reader[p].line) < GetsMax

\* No reader sleeps while there is something to read: the test of r == w and
\* the sleep are under the lock that consoleintr() takes to move w.  And neither
\* the ring nor the buffer of gets() is ever overrun.
InputWakes ==
    /\ ConsoleTypeOK
    /\ \A p \in Reader : reader[p].pc = "asleep" => NoInput

\* The ring is a line being edited followed by a queue of finished lines:
\* what a program can read is never edited, overwritten, lost or reordered,
\* and an end of file is a read of nothing.
Terminal == INSTANCE Lines WITH
    Process <- Reader, NL <- "nl", EOT <- "eot", Capacity <- INPUT_BUF,
    line <- Content(input.w, input.e), queue <- Content(input.r, input.w),
    got <- [p \in Reader |-> reader[p].got]

IsTerminal == Terminal!Spec

-----------------------------------------------------------------------------
(* What the proofs need beyond the properties. *)

Place == {"user", "loop", "sleep", "asleep", "woken", "again"}

Index == 0..(INDEX - 1)

Ring == [buf : [0..(INPUT_BUF - 1) -> Stored], r : Index, w : Index, e : Index]

Call == [pc : Place, n : Nat, got : Seq(Stored), gets : BOOLEAN, line : Seq(Stored),
         killed : BOOLEAN]

\* A call of gets() asks for one character, and has room for it.
GetsCall(c) ==
    /\ c.gets /\ c.pc \notin {"user", "again"} => Len(c.got) + c.n = 1
    /\ c.gets /\ c.pc # "user" => Len(c.line) + 1 < GetsMax
    /\ Len(c.line) < GetsMax

\* The characters that can still be erased end no line.
Unfinished == \A k \in 1..Dist(input.e, input.w) : At(input.w + k - 1) \notin {"nl", "eot"}

\* The inductive invariant.
ConsoleInv ==
    /\ input \in Ring /\ reader \in [Reader -> Call]
    /\ Dist(input.w, input.r) <= Dist(input.e, input.r)
    /\ Dist(input.e, input.r) <= INPUT_BUF
    /\ consLock \in {{}} \cup {{p} : p \in Reader}
    /\ Unfinished
    /\ \A p \in Reader :
          /\ reader[p].pc \in {"loop", "sleep"} <=> consLock = {p}
          /\ reader[p].pc \in {"sleep", "asleep"} => NoInput
          /\ GetsCall(reader[p])

=============================================================================
