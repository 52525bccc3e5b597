------------------------------ MODULE MCKernel ------------------------------
(***************************************************************************)
(* Parts of the kernel that need no file system: the spin locks, the       *)
(* memory that processes are made of, the console with its devices, and    *)
(* the clock.  A behaviour is about one of them.  Memory: two process      *)
(* slots, pages of two bytes, two entries to a page table.                 *)
(***************************************************************************)
EXTENDS MCLocks, Vm, Console, Devices, Clock

CONSTANTS p1, p2

VARIABLE about   \* the part that the behaviour is about

\* Growing by a part of a page and by several pages; shrinking by a part, to
\* exactly nothing and to below nothing.
MCDeltas == {1, 4, -1, -2}

\* A program of one segment, and one of two segments.
MCPrograms == {<<2>>, <<1, 3>>}

\* Arguments that fit in the stack's page, and arguments that do not.
MCArgSizes == {1, 3}

Parts == {"locks", "memory", "console", "devices", "clock"}

MCInit ==
    /\ about \in Parts
    /\ Init /\ MemoryInit /\ ConsoleInit /\ DeviceInit /\ ClockInit
    /\ about # "locks" => started = {0}
    /\ about # "memory" => \A n \in Memory : npage <= n

LocksRun ==
    /\ about = "locks" /\ Next
    /\ UNCHANGED <<memoryVars, consoleVars, deviceVars, clockVars, about>>

MemoryRuns ==
    /\ about = "memory" /\ MemoryNext
    /\ UNCHANGED <<vars, consoleVars, deviceVars, clockVars, about>>

ConsoleRuns ==
    /\ about = "console" /\ ConsoleNext
    /\ UNCHANGED <<vars, memoryVars, deviceVars, clockVars, about>>

DevicesRun ==
    /\ about = "devices" /\ DeviceNext
    /\ UNCHANGED <<vars, memoryVars, consoleVars, clockVars, about>>

ClockRuns ==
    /\ about = "clock" /\ ClockNext
    /\ UNCHANGED <<vars, memoryVars, consoleVars, deviceVars, about>>

MCNext == LocksRun \/ MemoryRuns \/ ConsoleRuns \/ DevicesRun \/ ClockRuns

MCSpec ==
    MCInit /\ [][MCNext]_<<vars, memoryVars, consoleVars, deviceVars, clockVars, about>>
=============================================================================
