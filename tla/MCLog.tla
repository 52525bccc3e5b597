------------------------------- MODULE MCLog --------------------------------
(***************************************************************************)
(* Small instances of Log, with the inductive invariant of its proofs.     *)
(***************************************************************************)
EXTENDS LogProofs
=============================================================================
