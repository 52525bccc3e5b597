-------------------------------- MODULE Shell -------------------------------
(***************************************************************************)
(* The shell running commands (sh.c main() and runcmd()): the processes it *)
(* forks, the pipes between them and who waits for whom.  A program reads  *)
(* its standard input to the end and exits: it is stuck while its input is *)
(* a pipe whose write end is open in any process, itself included.         *)
(***************************************************************************)
EXTENDS ShellParser, Integers, FiniteSets

CONSTANTS NCHILD,  \* processes besides the shell
          Sessions \* the sequences of lines that may be typed

VARIABLES task,   \* what each process does (the shell's cmd: lines to come)
          fds     \* the descriptors of each process: in, out, others

shellVars == <<task, fds>>

sh == 0
Pid == 0..NCHILD

Gone == [st |-> "none", cmd |-> <<>>, parent |-> -1, pipe |-> 0, waits |-> 0]
NoFds == [in |-> <<"none">>, out |-> <<"none">>, more |-> {}]
Terminal0 == [in |-> <<"tty">>, out |-> <<"tty">>, more |-> {}]

CD == <<"cd">>             \* a line that starts with cd

R(k) == <<"r", k>>
W(k) == <<"w", k>>

ShellInit ==
    /\ \E s \in Sessions :
          task = [p \in Pid |-> IF p = sh THEN [Gone EXCEPT !.st = "prompt", !.cmd = s]
                                ELSE Gone]
    /\ fds = [p \in Pid |-> IF p = sh THEN Terminal0 ELSE NoFds]

Open(e) == \E p \in Pid : e \in {fds[p].in, fds[p].out} \cup fds[p].more
FreePipe == CHOOSE k \in 1..(NCHILD + 1) :
    /\ ~Open(R(k)) /\ ~Open(W(k))
    /\ \A j \in 1..(k - 1) : Open(R(j)) \/ Open(W(j))
Unused(q) == task[q].st = "none"
CanFork == \E q \in Pid : Unused(q)
Fresh == CHOOSE q \in Pid : Unused(q) /\ \A r \in Pid : Unused(r) => q <= r

Child(p, cmd) == [Gone EXCEPT !.st = "run", !.cmd = cmd, !.parent = p]

\* Variant: the children of a process go to the process it came from.
Orphan_up(p, q) == [task[q] EXCEPT !.parent = task[p].parent]

\* The children of a process that exits go to init, which reaps the zombies
\* among them.
Orphan(p, q) == IF task[q].st = "zombie" THEN Gone ELSE [task[q] EXCEPT !.parent = -1]

\* exit(): the descriptors are closed; a parent is left a zombie to wait for.
Exit(p) ==
    /\ task' = [q \in Pid |->
          IF q = p
          THEN IF task[p].parent = -1 THEN Gone
               ELSE [Gone EXCEPT !.st = "zombie", !.parent = task[p].parent]
          ELSE IF task[q].parent = p /\ ~Unused(q) THEN Orphan(p, q)
          ELSE task[q]]
    /\ fds' = [fds EXCEPT ![p] = NoFds]

\* fork1(): the child gets cmd and f; without a free slot panic() exits.
Fork(p, cmd, f, rest) ==
    IF CanFork
    THEN /\ task' = [task EXCEPT ![Fresh] = Child(p, cmd), ![p] = rest]
         /\ fds' = [fds EXCEPT ![Fresh] = f]
    ELSE Exit(p)

-----------------------------------------------------------------------------
\* main() reads a line and forks a child, which parses it and runs it or exits
\* on a syntax error.  A shell that cannot fork exits, and init starts another.
main ==
    /\ task[sh].st = "prompt" /\ task[sh].cmd # <<>> /\ Head(task[sh].cmd) # CD
    /\ LET c == parsecmd(Head(task[sh].cmd))
           child == IF c.ok THEN Child(sh, c.cmd)
                    ELSE [Child(sh, <<>>) EXCEPT !.st = "exit"]
       IN  IF CanFork
           THEN /\ task' = [task EXCEPT ![Fresh] = child, ![sh].st = "wait",
                                        ![sh].waits = 1, ![sh].cmd = Tail(@)]
                /\ fds' = [fds EXCEPT ![Fresh] = fds[sh]]
           ELSE /\ task' = [task EXCEPT ![sh].cmd = Tail(@)]
                /\ UNCHANGED fds

\* A cd is done by the shell itself.
main_cd ==
    /\ task[sh].st = "prompt" /\ task[sh].cmd # <<>> /\ Head(task[sh].cmd) = CD
    /\ task' = [task EXCEPT ![sh].cmd = Tail(@)]
    /\ UNCHANGED fds

Runs(p, type) == task[p].st = "run" /\ task[p].cmd[1] = type

\* EXEC: an empty command exits, another one becomes a program (or exits when
\* exec() fails).
run_exec(p) ==
    /\ Runs(p, "EXEC")
    /\ \/ Exit(p)
       \/ /\ task[p].cmd[2] # <<>>
          /\ task' = [task EXCEPT ![p].st = "program", ![p].cmd = <<>>]
          /\ UNCHANGED fds

\* The program reads to the end of its input and exits.
program(p) ==
    /\ task[p].st = "program"
    /\ fds[p].in[1] = "r" => ~Open(W(fds[p].in[2]))
    /\ Exit(p)

\* REDIR: the file replaces standard input or output, or cannot be opened.
run_redir(p) ==
    /\ Runs(p, "REDIR")
    /\ \/ /\ task' = [task EXCEPT ![p].cmd = @[2]]
          /\ fds' = [fds EXCEPT ![p] = IF task[p].cmd[3] = 0
                                       THEN [@ EXCEPT !.in = <<"file">>]
                                       ELSE [@ EXCEPT !.out = <<"file">>]]
       \/ Exit(p)

\* LIST: a child runs the left side; then this process runs the right side.
run_list(p) ==
    /\ Runs(p, "LIST")
    /\ Fork(p, task[p].cmd[2], fds[p],
            [task[p] EXCEPT !.st = "wait", !.waits = 1, !.cmd = @[3]])

\* BACK: a child runs the command, nobody waits.
run_back(p) ==
    /\ Runs(p, "BACK")
    /\ Fork(p, task[p].cmd[2], fds[p], [task[p] EXCEPT !.st = "exit"])

\* The child on one side of a pipe: dup() of its end, both ends closed.
Left(f, k) == [f EXCEPT !.out = W(k), !.more = @ \ {R(k), W(k)}]
Right(f, k) == [f EXCEPT !.in = R(k), !.more = @ \ {R(k), W(k)}]

\* PIPE: pipe() and the left side's child; either may fail.
run_pipe(p) ==
    LET k == FreePipe
        f == [fds[p] EXCEPT !.more = @ \cup {R(k), W(k)}]
    IN  /\ Runs(p, "PIPE")
        /\ \/ /\ CanFork
              /\ task' = [task EXCEPT ![Fresh] = Child(p, task[p].cmd[2]),
                                      ![p].st = "pipe2", ![p].pipe = k]
              /\ fds' = [fds EXCEPT ![p] = f, ![Fresh] = Left(f, k)]
           \/ Exit(p)

\* The right side's child.
run_pipe2(p) ==
    /\ task[p].st = "pipe2"
    /\ Fork(p, task[p].cmd[3], Right(fds[p], task[p].pipe), [task[p] EXCEPT !.st = "pipe3"])

\* Variant: the parent keeps the write end.
Closed_read(f, k) == [f EXCEPT !.more = @ \ {R(k)}]

\* Both ends are closed in the parent.
Closed(f, k) == [f EXCEPT !.more = @ \ {R(k), W(k)}]

\* Two waits follow.
run_pipe3(p) ==
    /\ task[p].st = "pipe3"
    /\ fds' = [fds EXCEPT ![p] = Closed(@, task[p].pipe)]
    /\ task' = [task EXCEPT ![p].st = "wait", ![p].waits = 2, ![p].cmd = <<>>]

\* What follows the last wait: the prompt, the right side of a list, the end.
AfterWait(p) ==
    IF p = sh THEN "prompt" ELSE IF task[p].cmd = <<>> THEN "exit" ELSE "run"

Children(p) == {q \in Pid : task[q].parent = p /\ ~Unused(q)}

\* wait(): any zombie child is reaped; without children it returns at once.
wait(p) ==
    /\ task[p].st = "wait"
    /\ \E q \in Children(p) \cup {-2} :
          /\ IF q = -2 THEN Children(p) = {} ELSE task[q].st = "zombie"
          /\ task' = [r \in Pid |->
                IF r = q THEN Gone
                ELSE IF r # p THEN task[r]
                ELSE [task[p] EXCEPT !.waits = @ - 1,
                                     !.st = IF task[p].waits = 1 THEN AfterWait(p) ELSE @]]
    /\ UNCHANGED fds

done(p) == task[p].st = "exit" /\ Exit(p)

Step(p) ==
    \/ run_exec(p) \/ program(p) \/ run_redir(p) \/ run_list(p) \/ run_back(p)
    \/ run_pipe(p) \/ run_pipe2(p) \/ run_pipe3(p) \/ wait(p) \/ done(p)

ShellNext == main \/ main_cd \/ \E p \in Pid : Step(p)

\* Every process that can run is scheduled.
ShellFairness == \A p \in Pid : WF_shellVars(Step(p))

-----------------------------------------------------------------------------
\* At the prompt the shell has no child, running or dead: its one wait() was
\* for the command it started, whatever ran in the background.
NoChildAtPrompt == task[sh].st = "prompt" => Children(sh) = {}

\* The shell gets back to the prompt after every line: each program of a
\* pipeline meets the end of its input, because every process that does not
\* write to a pipe has closed its write end.
PromptReturns == (task[sh].st = "wait") ~> (task[sh].st = "prompt")

=============================================================================
