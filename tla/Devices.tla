------------------------------ MODULE Devices -------------------------------
(***************************************************************************)
(* The character devices under the console: the keyboard's decoder         *)
(* kbdgetc() (kbd.c) and the screen's cursor in cgaputc() (console.c).     *)
(* A key is named by its scan code; a right-hand key sends the byte E0     *)
(* before its code, and a key that is released sends its code with 0x80.   *)
(***************************************************************************)
EXTENDS Integers, FiniteSetsExt, Sequences

CONSTANTS ROWS,  \* rows that are used before the screen scrolls (24)
          COLS   \* characters in a row (80)

ASSUME DeviceConstants == ROWS \in Nat \ {0} /\ COLS \in Nat \ {0}

VARIABLES shift,  \* the flags kbdgetc() keeps
          wire,   \* the bytes in the controller
          down,   \* the keys that are pressed
          pos     \* the cursor

deviceVars == <<shift, wire, down, pos>>

Key == {"lshift", "rshift", "lctl", "rctl", "capslock", "a"}
Extended == {"rctl"}                     \* keys that send E0 first

\* The tables of kbd.h.
shiftcode(k) == IF k \in {"lshift", "rshift"} THEN {"SHIFT"}
                ELSE IF k \in {"lctl", "rctl"} THEN {"CTL"} ELSE {}
togglecode(k) == IF k = "capslock" THEN {"CAPSLOCK"} ELSE {}

Up(k) == [key |-> k, up |-> TRUE]
Down(k) == [key |-> k, up |-> FALSE]
E0 == [key |-> "E0", up |-> FALSE]

\* Variant: a release leaves the escape flag set.
kbdgetc_escape(data) ==
    IF data = E0 THEN shift \cup {"E0ESC"}
    ELSE IF data.up THEN shift \ shiftcode(data.key)
    ELSE SymDiff((shift \ {"E0ESC"}) \cup shiftcode(data.key), togglecode(data.key))

\* The flags after kbdgetc() has read data.  A right-hand key is looked up
\* with 0x80 added to its code when E0 came before it.
kbdgetc(data) ==
    IF data = E0 THEN shift \cup {"E0ESC"}
    ELSE IF data.up THEN shift \ (shiftcode(data.key) \cup {"E0ESC"})
    ELSE SymDiff((shift \ {"E0ESC"}) \cup shiftcode(data.key), togglecode(data.key))

\* Variant: the last row is written before the screen scrolls.
cgaputc_late(c) ==
    LET p == CASE c = "nl" -> pos + COLS - (pos % COLS)
               [] c = "backspace" -> IF pos > 0 THEN pos - 1 ELSE pos
               [] OTHER -> pos + 1
    IN  IF p \div COLS > ROWS THEN p - COLS ELSE p

\* The cursor after cgaputc(): a row that would be the last scrolls the screen.
cgaputc(c) ==
    LET p == CASE c = "nl" -> pos + COLS - (pos % COLS)
               [] c = "backspace" -> IF pos > 0 THEN pos - 1 ELSE pos
               [] OTHER -> pos + 1
    IN  IF p \div COLS >= ROWS THEN p - COLS ELSE p

DeviceInit == shift = {} /\ wire = <<>> /\ down = {} /\ pos = 0

Send(k, data) == wire' = IF k \in Extended THEN <<E0, data>> ELSE <<data>>

press(k) ==
    /\ wire = <<>> /\ k \notin down
    /\ down' = down \cup {k}
    /\ Send(k, Down(k))
    /\ UNCHANGED <<shift, pos>>

lift(k) ==
    /\ wire = <<>> /\ k \in down
    /\ down' = down \ {k}
    /\ Send(k, Up(k))
    /\ UNCHANGED <<shift, pos>>

\* kbdintr(): consoleintr() reads one byte.
kbdintr ==
    /\ wire # <<>>
    /\ shift' = kbdgetc(Head(wire))
    /\ wire' = Tail(wire)
    /\ UNCHANGED <<down, pos>>

\* consputc() of a character, by an echo or a write.
consputc(c) == pos' = cgaputc(c) /\ UNCHANGED <<shift, wire, down>>

DeviceNext ==
    \/ \E k \in Key : press(k) \/ lift(k)
    \/ kbdintr
    \/ \E c \in {"nl", "backspace", "a"} : consputc(c)

DeviceSpec == DeviceInit /\ [][DeviceNext]_deviceVars

\* With every key released no modifier stays on, whatever the order in which
\* they were pressed and released (kbd.c:20-35); only the caps lock remains.
NoStuckKey == (wire = <<>> /\ down = {}) => shift \subseteq {"CAPSLOCK"}

\* The cursor is always in a row above the last, so that the write at crt[pos]
\* is on the screen and the panic of cgaputc() is never reached.
CursorOnScreen == 0 <= pos /\ pos < ROWS * COLS

\* The state that kbdgetc() and cgaputc() keep between calls stays right for any
\* sequence of keys and characters.
DevicesKept == NoStuckKey /\ CursorOnScreen

-----------------------------------------------------------------------------
(* What the proofs need beyond the properties. *)

\* What the controller still has to say of the keys.
Report(k) == IF k \in down THEN Down(k) ELSE Up(k)

\* The last byte in the controller is about a key; a flag that is set is due to
\* a key that is down or whose release is still to be read.
DeviceInv ==
    /\ shift \subseteq {"SHIFT", "CTL", "CAPSLOCK", "E0ESC"}
    /\ down \subseteq Key
    /\ wire # <<>> => \E k \in Key : wire = <<Report(k)>> \/ wire = <<E0, Report(k)>>
    /\ wire = <<>> => "E0ESC" \notin shift
    /\ \A m \in shift \cap {"SHIFT", "CTL"} : \E k \in Key :
          /\ m \in shiftcode(k)
          /\ k \in down \/ wire = <<Up(k)>> \/ wire = <<E0, Up(k)>>
    /\ pos \in Nat /\ pos < ROWS * COLS

=============================================================================
