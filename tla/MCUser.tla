------------------------------- MODULE MCUser -------------------------------
(***************************************************************************)
(* What programs are made of: pipes, the user-level allocator, the shell   *)
(* and the utilities on small instances.  A behaviour is about one of      *)
(* them.                                                                   *)
(***************************************************************************)
EXTENDS MCPipe, Umalloc, Shell, Utilities

VARIABLE running   \* the part that the behaviour is about

allVars == <<vars, umallocVars, shellVars, job, running>>

Parts == {"pipe", "umalloc", "shell", "utilities"}

\* The lines typed: a pipeline of three and a list; both in the
\* background, where they can leave no process for the next line; a group
\* with a redirection, a syntax error and a cd; nothing, while another part
\* runs.
MCSessions ==
    {<<>>, <<<<"w", "|", "w", "|", "w">>, <<"w", ";", "w">>>>,
     <<<<"w", "|", "w", "|", "w", "&">>, <<"w", ";", "w", "&">>>>,
     <<<<"(", "w", ";", "w", "<", "f", ")", "|", "w">>, <<"w", "|", ")">>, CD, <<"w">>>>}

Strings(S, n) == UNION {[1..k -> S] : k \in 0..n}

MCOptions == [opt : {""}, plus : {FALSE}, val : {0}] \cup
             [opt : {"n", "c"}, plus : BOOLEAN, val : 1..4]

MCJob ==
    \/ job \in Jobs("parse", Strings({"w", " "} \cup Symbols, 4))
    \/ job \in Jobs("written", Trees(2))
    \/ job \in Jobs("match", [re : Strings({"a", "b"} \cup Meta, 3),
                               text : Strings({"a", "b"}, 3)])
    \/ job \in Jobs("grep", [re : {<<"a">>, <<"^", "$">>, <<"b", "*", "a", "$">>},
                              file : Strings({"a", "b", "nl"}, 6),
                              cuts : {{}, {1}, {2}, {3}, {4}}])
    \/ job \in Jobs("tail", [file : Strings({"a", "nl"}, 5), opts : MCOptions,
                              start : {0, 1, LINEBUF, LINEBUF + 1},
                              old : {<<>>, <<"b", "b", "nl">>}])
    \/ job \in Jobs("merge", Strings({COMMA, 0, 1, 2}, 5))
    \/ job \in Jobs("mkfs", Strings({0, 1, 4, 5, 8, 12, 13}, 3))

MCInit ==
    /\ running \in Parts
    /\ Init /\ UmallocInit /\ ShellInit
    /\ running # "shell" <=> task[sh].cmd = <<>>
    /\ IF running = "utilities" THEN MCJob ELSE job \in Jobs("none", {<<>>})

PipeRuns ==
    /\ running = "pipe" /\ Next
    /\ UNCHANGED <<umallocVars, shellVars, job, running>>

UmallocRuns ==
    /\ running = "umalloc" /\ UmallocNext
    /\ UNCHANGED <<vars, shellVars, job, running>>

ShellRuns ==
    /\ running = "shell" /\ ShellNext
    /\ UNCHANGED <<vars, umallocVars, job, running>>

UtilityRuns ==
    /\ running = "utilities" /\ UtilitiesNext
    /\ UNCHANGED <<vars, umallocVars, shellVars, running>>

MCNext == PipeRuns \/ UmallocRuns \/ ShellRuns \/ UtilityRuns

MCSpec == MCInit /\ [][MCNext]_allVars /\ Fairness /\ ShellFairness
=============================================================================
