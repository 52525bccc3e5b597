------------------------------- MODULE MCPipe -------------------------------
(***************************************************************************)
(* A pipe of two bytes shared by two processes.                            *)
(***************************************************************************)
EXTENDS Pipe
=============================================================================
