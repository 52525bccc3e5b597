-------------------------------- MODULE Grep --------------------------------
(***************************************************************************)
(* grep (grep.c): the pattern matcher and the loop that cuts a file read   *)
(* through a buffer into lines.  Patterns and lines are sequences of       *)
(* characters; "nl" ends a line.                                           *)
(***************************************************************************)
EXTENDS Integers, Sequences, SequencesExt, FiniteSetsExt

CONSTANT GREPBUF   \* size of buf (1024)

Meta == {"^", ".", "*", "$"}
Char == {"a", "b", "nl"} \cup Meta
From(s, i) == SubSeq(s, i, Len(s))

\* One character of the pattern against one of the text.
Fits(c, t) == c = "." \/ c = t

\* Variant: a star wants one instance at least.
StarCounts_plus(c, text) ==
    {k \in 1..Len(text) : \A i \in 1..k : Fits(c, text[i])}

\* The numbers of instances that matchstar() tries.
StarCounts(c, text) ==
    {k \in 0..Len(text) : \A i \in 1..k : Fits(c, text[i])}

\* matchhere(): x is the pattern and the text.
matchhere[x \in Seq(Char) \X Seq(Char)] ==
    LET re == x[1]
        text == x[2]
    IN  CASE re = <<>> -> TRUE
          [] Len(re) > 1 /\ re[2] = "*" ->
               \E k \in StarCounts(re[1], text) : matchhere[<<From(re, 3), From(text, k + 1)>>]
          [] re = <<"$">> -> text = <<>>
          [] OTHER -> /\ text # <<>> /\ Fits(re[1], text[1])
                      /\ matchhere[<<Tail(re), Tail(text)>>]

match(re, text) ==
    IF re # <<>> /\ re[1] = "^" THEN matchhere[<<Tail(re), text>>]
    ELSE \E i \in 1..(Len(text) + 1) : matchhere[<<re, From(text, i)>>]

\* The lines that are ended by a newline, and what follows the last newline.
NewlinesIn(s) == {i \in 1..Len(s) : s[i] = "nl"}
CutAt(s) == IF NewlinesIn(s) = {} THEN 0 ELSE Max(NewlinesIn(s))
EndedLines(s) ==
    LET first(e) == IF \E i \in NewlinesIn(s) : i < e
                    THEN Max({i \in NewlinesIn(s) : i < e}) + 1 ELSE 1
    IN  [k \in 1..Cardinality(NewlinesIn(s)) |->
            LET e == CHOOSE i \in NewlinesIn(s) : Cardinality({j \in NewlinesIn(s) : j <= i}) = k
            IN  SubSeq(s, first(e), e - 1)]

Matching(re, lines) == SelectSeq(lines, LAMBDA l : match(re, l))

\* Variant: what follows the last newline is dropped from the buffer.
Kept_none(buf) == <<>>

\* The end of the buffer that is kept for the next read: nothing when no line
\* ended in it (if(p == buf) m = 0).
Kept(buf) == IF NewlinesIn(buf) = {} THEN <<>> ELSE From(buf, CutAt(buf) + 1)

\* read() of the input in, of which the first at characters have been read, into
\* the rest of the buffer: it returns less when the input ends, or when a pipe or
\* the console has no more at that moment (one of in.cuts; none in a file).
ReadTo(in, at, held) ==
    Min({at + GREPBUF - Len(held) - 1, Len(in.file)} \cup {c \in in.cuts : c > at})

\* grep(), from the character at on, with what the buffer still holds.
RECURSIVE grep(_, _, _)
grep(in, at, held) ==
    LET to == ReadTo(in, at, held)
        buf == held \o SubSeq(in.file, at + 1, to)
    IN  IF to = at THEN <<>>
        ELSE Matching(in.re, EndedLines(buf)) \o grep(in, to, Kept(buf))

-----------------------------------------------------------------------------
(***************************************************************************)
(* The reference: a pattern is a sequence of items, each a character that  *)
(* is repeated once or any number of times; a text matches when some part  *)
(* of it can be divided among the items.                                   *)
(***************************************************************************)
RECURSIVE Items(_)
Items(re) ==
    IF re = <<>> THEN <<>>
    ELSE IF Len(re) > 1 /\ re[2] = "*"
         THEN <<[c |-> re[1], star |-> TRUE]>> \o Items(From(re, 3))
    ELSE <<[c |-> re[1], star |-> FALSE]>> \o Items(Tail(re))

Divided(items, text) ==
    \E end \in [0..Len(items) -> 0..Len(text)] :
        /\ end[0] = 0 /\ end[Len(items)] = Len(text)
        /\ \A i \in 1..Len(items) :
              /\ end[i - 1] <= end[i]
              /\ items[i].star \/ end[i] = end[i - 1] + 1
              /\ \A j \in (end[i - 1] + 1)..end[i] : Fits(items[i].c, text[j])

Denotes(re, text) ==
    LET anchored == re # <<>> /\ re[1] = "^"
        items == Items(IF anchored THEN Tail(re) ELSE re)
        toEnd == items # <<>> /\ Last(items) = [c |-> "$", star |-> FALSE]
        body == IF toEnd THEN Front(items) ELSE items
    IN  \E i \in 1..(Len(text) + 1), j \in 0..Len(text) :
            /\ i <= j + 1
            /\ anchored => i = 1
            /\ toEnd => j = Len(text)
            /\ Divided(body, SubSeq(text, i, j))

=============================================================================
