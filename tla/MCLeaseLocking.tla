---------------------------- MODULE MCLeaseLocking ----------------------------
(***************************************************************************)
(* Instances of LeaseLocking for TLC.  The validators are interchangeable. *)
(***************************************************************************)
EXTENDS LeaseLocking, TLC

Symmetry == Permutations(Validators)
=============================================================================
