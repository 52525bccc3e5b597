-------------------------------- MODULE Lists -------------------------------
(***************************************************************************)
(* The linked lists of HW2/linkedList.c, as sequences of their data.       *)
(***************************************************************************)
EXTENDS Integers, Sequences

listInsertTail(list, data) == Append(list, data)

\* Variant: an element that is in both lists is taken from both at once.
MergeStep_equal(l1, l2) ==
    IF l1[1] = l2[1] THEN [data |-> l1[1], l1 |-> Tail(l1), l2 |-> Tail(l2)]
    ELSE IF l1[1] < l2[1] THEN [data |-> l1[1], l1 |-> Tail(l1), l2 |-> l2]
    ELSE [data |-> l2[1], l1 |-> l1, l2 |-> Tail(l2)]

\* Neither list is empty: the smaller head is taken, the first list's if equal.
MergeStep(l1, l2) ==
    IF l1[1] <= l2[1] THEN [data |-> l1[1], l1 |-> Tail(l1), l2 |-> l2]
    ELSE [data |-> l2[1], l1 |-> l1, l2 |-> Tail(l2)]

\* mergeLists()'s loop, merged so far; when one list is empty the other one is
\* copied to the end.
RECURSIVE Merge(_, _, _)
Merge(merged, l1, l2) ==
    IF l1 = <<>> /\ l2 = <<>> THEN merged
    ELSE IF l1 = <<>> THEN Merge(listInsertTail(merged, Head(l2)), l1, Tail(l2))
    ELSE IF l2 = <<>> THEN Merge(listInsertTail(merged, Head(l1)), Tail(l1), l2)
    ELSE LET s == MergeStep(l1, l2) IN Merge(listInsertTail(merged, s.data), s.l1, s.l2)

mergeLists(l1, l2) ==
    IF l1 = <<>> THEN l2 ELSE IF l2 = <<>> THEN l1 ELSE Merge(<<>>, l1, l2)

COMMA == -1      \* the argument ","; the others are numbers

\* main(): the numbers before the comma and after it; without one, an error.
Split(argv) ==
    IF ~\E i \in 1..Len(argv) : argv[i] = COMMA
    THEN [ok |-> FALSE, l1 |-> <<>>, l2 |-> <<>>]
    ELSE LET comma == CHOOSE i \in 1..Len(argv) :
                         argv[i] = COMMA /\ \A j \in 1..(i - 1) : argv[j] # COMMA
         IN  [ok |-> TRUE, l1 |-> SubSeq(argv, 1, comma - 1),
              l2 |-> SubSeq(argv, comma + 1, Len(argv))]

Sorted(s) == \A i \in 1..(Len(s) - 1) : s[i] <= s[i + 1]
Count(s, x) == Len(SelectSeq(s, LAMBDA y : y = x))

=============================================================================
