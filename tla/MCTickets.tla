------------------------------ MODULE MCTickets ------------------------------
(***************************************************************************)
(* Instances of Tickets for TLC.  Validators are interchangeable, and so   *)
(* are agents; the liveness run does without the symmetry, which is        *)
(* unsound there.                                                          *)
(***************************************************************************)
EXTENDS Tickets, TLC

Symmetry == Permutations(Validators) \cup Permutations(Agents)
=============================================================================
