--------------------------- MODULE MCScoringLanes ---------------------------
(***************************************************************************)
(* Instances of ScoringLanes for TLC.  Validators are interchangeable, and *)
(* so are agents.                                                          *)
(***************************************************************************)
EXTENDS ScoringLanes

Symmetry == Permutations(Validators) \cup Permutations(Agents)
=============================================================================
