---------------------------- MODULE MCInformer ----------------------------
(***************************************************************************)
(* Informer for TLC.                                                       *)
(***************************************************************************)
EXTENDS Informer
=============================================================================
