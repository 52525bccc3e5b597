------------------------------ MODULE MCLocks -------------------------------
(***************************************************************************)
(* The lock operations of the kernel on one and on two processors.         *)
(***************************************************************************)
EXTENDS Locks
=============================================================================
