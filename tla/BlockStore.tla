----------------------------- MODULE BlockStore -----------------------------
(***************************************************************************)
(* What the buffer cache promises to the rest of the kernel: a block has   *)
(* one holder at a time, its holder may change it, and the next holder     *)
(* finds it as the last one left it, unless the disk failed.               *)
(***************************************************************************)
EXTENDS Naturals

CONSTANTS
    Hand,     \* the hands of the processes, one for each block that they hold at a time
    Block,
    Data

VARIABLES
    content,  \* the contents of every block that the disk never failed to read
    holder    \* the hands between bread() and brelse(), block by block

vars == <<content, holder>>

Init ==
    /\ content \in [Block -> Data]
    /\ holder = [b \in Block |-> {}]

Hold(h, b) ==
    /\ holder[b] = {}
    /\ \A c \in Block : h \notin holder[c]
    /\ holder' = [holder EXCEPT ![b] = {h}]
    /\ UNCHANGED content

Change(h, b) ==
    /\ holder[b] = {h} /\ b \in DOMAIN content
    /\ \E d \in Data : content' = [content EXCEPT ![b] = d]
    /\ UNCHANGED holder

Release(h, b) ==
    /\ holder[b] = {h}
    /\ holder' = [holder EXCEPT ![b] = {}]
    /\ UNCHANGED content

\* Nothing is promised of a block from the first read of it that fails.
Misread(b) ==
    /\ holder[b] # {}
    /\ content' = [c \in DOMAIN content \ {b} |-> content[c]]
    /\ UNCHANGED holder

Next ==
    \E b \in Block :
        \/ Misread(b)
        \/ \E h \in Hand : Hold(h, b) \/ Change(h, b) \/ Release(h, b)

Spec == Init /\ [][Next]_vars

=============================================================================
