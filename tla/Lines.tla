-------------------------------- MODULE Lines -------------------------------
(***************************************************************************)
(* What the console promises to programs: characters typed are edited in a *)
(* line that nobody sees, a line that is ended joins the queue and can no  *)
(* longer be edited, and readers take the queue's characters in order.  A  *)
(* reader meets the end-of-file mark only as a read of no characters.      *)
(***************************************************************************)
EXTENDS Naturals, Sequences

CONSTANTS Process, Letter, NL, EOT, Capacity

VARIABLES
    line,   \* the characters that can still be erased
    queue,  \* the characters that readers may take
    got     \* what each reader's call has taken so far

vars == <<line, queue, got>>

Init == line = <<>> /\ queue = <<>> /\ got = [p \in Process |-> <<>>]

Type(c) ==
    LET l == Append(line, c)
    IN  /\ Len(l) + Len(queue) <= Capacity
        /\ IF c \in {NL, EOT} \/ Len(l) + Len(queue) = Capacity
           THEN queue' = queue \o l /\ line' = <<>>
           ELSE line' = l /\ UNCHANGED queue
        /\ UNCHANGED got

Erase == line # <<>> /\ line' = SubSeq(line, 1, Len(line) - 1) /\ UNCHANGED <<queue, got>>

KillLine == line' = <<>> /\ UNCHANGED <<queue, got>>

Begin(p) == got' = [got EXCEPT ![p] = <<>>] /\ UNCHANGED <<line, queue>>

Take(p) ==
    /\ queue # <<>> /\ Head(queue) # EOT
    /\ got' = [got EXCEPT ![p] = Append(@, Head(queue))]
    /\ queue' = Tail(queue)
    /\ UNCHANGED line

EndOfFile(p) ==
    /\ queue # <<>> /\ Head(queue) = EOT /\ got[p] = <<>>
    /\ queue' = Tail(queue)
    /\ UNCHANGED <<line, got>>

Next ==
    \/ \E c \in Letter \cup {NL, EOT} : Type(c)
    \/ Erase \/ KillLine
    \/ \E p \in Process : Begin(p) \/ Take(p) \/ EndOfFile(p)

Spec == Init /\ [][Next]_vars
=============================================================================
