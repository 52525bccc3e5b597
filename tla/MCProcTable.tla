---------------------------- MODULE MCProcTable -----------------------------
(***************************************************************************)
(* The process table of four slots under three loads.                      *)
(***************************************************************************)
EXTENDS Proc

\* The life of processes on one processor, with kill() or with more forks than
\* slots, while the clock stands still; and the times reported of them, on two.
MCLoads ==
    {[cpus |-> 1, pids |-> 4, ticks |-> 0, calls |-> {"fork", "exit", "wait", "kill"}],
     [cpus |-> 1, pids |-> 6, ticks |-> 0, calls |-> {"fork", "exit", "wait"}],
     [cpus |-> 2, pids |-> 3, ticks |-> 1,
      calls |-> {"fork", "exit", "wait", "wait_stat", "io"}]}
=============================================================================
