------------------------------- MODULE MCProc -------------------------------
(***************************************************************************)
(* The process table on small instances, while the clock stands still.     *)
(***************************************************************************)
EXTENDS Proc

\* Every call, on one processor.
Busy(n) == [cpus |-> 1, pids |-> n, ticks |-> 0, calls |-> AllCalls]
BusyOfTwo == {Busy(2)}

\* The same, and on two processors a kill() that meets a wait for input.
Lively ==
    {Busy(3),
     [cpus |-> 2, pids |-> 3, ticks |-> 0,
      calls |-> {"fork", "exit", "wait", "kill", "input"}]}
=============================================================================
