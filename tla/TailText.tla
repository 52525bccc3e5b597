------------------------------ MODULE TailText ------------------------------
(***************************************************************************)
(* tail (HW1/tail.c): the last lines or characters of a file, from a copy  *)
(* in which the lines and the characters were counted first.               *)
(***************************************************************************)
EXTENDS Integers, Sequences, SequencesExt

CONSTANT LINEBUF   \* the first size of eachLine, and the size of buf2 (512)

\* main(): the arguments of tail() for -n k, -n +k, -c k, -c +k, and without
\* an option; a number that is 0 is refused.
Arguments(o) ==
    CASE o.opt = "" -> [linenumber |-> 10, offset |-> 0, whichC |-> 0]
      [] o.opt = "n" /\ o.plus -> [linenumber |-> 0, offset |-> o.val - 1, whichC |-> 0]
      [] o.opt = "n" /\ ~o.plus -> [linenumber |-> o.val, offset |-> 0, whichC |-> 0]
      [] o.opt = "c" /\ o.plus -> [linenumber |-> 0, offset |-> o.val - 1, whichC |-> 1]
      [] o.opt = "c" /\ ~o.plus -> [linenumber |-> 0, offset |-> o.val, whichC |-> 2]

Newlines(s) == Len(SelectSeq(s, LAMBDA c : c = "nl"))

\* The number of lines that will not be skipped.
Wanted(a, lesser) ==
    IF a.whichC # 0 THEN lesser
    ELSE IF a.offset # 0 THEN lesser - a.offset
    ELSE a.linenumber

\* What the line's buffer holds before its first character.
Garbage(n) == [i \in 1..n |-> "?"]

\* Variant: the line's buffer is doubled one character too late.
Doubled_late(t) == IF Len(t.line) > t.doubler THEN t.doubler * 2 ELSE t.doubler

\* doubleSize() when the line fills its buffer.
Doubled(t) == IF Len(t.line) = t.doubler THEN t.doubler * 2 ELSE t.doubler

\* A character of the part that is printed; over: it went past the buffer.
Printed(t, c) ==
    IF c = "nl"
    THEN [t EXCEPT !.out = Append(@, t.line), !.line = <<>>, !.doubler = LINEBUF]
    ELSE [t EXCEPT !.doubler = Doubled(t), !.line = Append(@, c),
                   !.over = @ \/ Len(t.line) >= Doubled(t)]

\* Variant: one line too many is skipped.
Skips_more(t, wanted) == t.lesser >= wanted

Skips(t, wanted) == t.lesser > wanted

\* One character of the second pass: for -c k the characters before the last k
\* are counted off, then the lines before the wanted ones, the rest is printed.
Second(t, c, offset, wanted) ==
    LET u == IF t.thisC # 2 THEN t
             ELSE IF t.charcount > offset THEN [t EXCEPT !.charcount = @ - 1]
             ELSE IF t.charcount = offset THEN [t EXCEPT !.thisC = 0]
             ELSE t
    IN  IF u.thisC = 2 THEN u
        ELSE IF Skips(u, wanted)
        THEN [u EXCEPT !.lesser = IF c = "nl" THEN @ - 1 ELSE @]
        ELSE Printed(u, c)

\* tail(): in.start is what the uninitialised startLine holds, in.old what the
\* file "destroy" held before the copy was written over it.
tail(in) ==
    LET a      == Arguments(in.opts)
        lesser == Newlines(in.file)
        copy   == in.file \o SubSeq(in.old, Len(in.file) + 1, Len(in.old))
        rest   == IF a.whichC = 1 THEN SubSeq(copy, a.offset + 1, Len(copy)) ELSE copy
        start  == [lesser |-> lesser, charcount |-> Len(in.file), thisC |-> a.whichC,
                   line |-> Garbage(in.start), doubler |-> LINEBUF, out |-> <<>>,
                   over |-> Len(copy) - Len(rest) > LINEBUF]
    IN  FoldLeft(LAMBDA t, c : Second(t, c, a.offset, Wanted(a, lesser)), start, rest)

-----------------------------------------------------------------------------
\* The reference: the lines of s that a newline ends.
RECURSIVE LinesOf(_, _)
LinesOf(s, line) ==
    IF s = <<>> THEN <<>>
    ELSE IF Head(s) = "nl" THEN <<line>> \o LinesOf(SubSeq(s, 2, Len(s)), <<>>)
    ELSE LinesOf(SubSeq(s, 2, Len(s)), Append(line, Head(s)))

\* What the options ask for: the last val lines, or 10; the lines from line val
\* on; the text from character val on; the last val characters.
TailOf(file, o) ==
    LET lines == LinesOf(file, <<>>)
        drop(s, n) == IF n < 0 THEN s ELSE SubSeq(s, n + 1, Len(s))
    IN  CASE o.opt = "" -> drop(lines, Len(lines) - 10)
          [] o.opt = "n" /\ o.plus -> drop(lines, o.val - 1)
          [] o.opt = "n" /\ ~o.plus -> drop(lines, Len(lines) - o.val)
          [] o.opt = "c" /\ o.plus -> LinesOf(drop(file, o.val - 1), <<>>)
          [] o.opt = "c" /\ ~o.plus -> LinesOf(drop(file, Len(file) - o.val), <<>>)

=============================================================================
