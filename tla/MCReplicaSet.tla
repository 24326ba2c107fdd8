---------------------------- MODULE MCReplicaSet ----------------------------
(***************************************************************************)
(* ReplicaSet for TLC.                                                     *)
(***************************************************************************)
EXTENDS ReplicaSet
=============================================================================
