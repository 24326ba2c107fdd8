-------------------------- MODULE MCLeaderElection --------------------------
(***************************************************************************)
(* LeaderElection for TLC.                                                 *)
(***************************************************************************)
EXTENDS LeaderElection, TLC

Symmetry == Permutations(Client)
=============================================================================
