---------------------------- MODULE MCWorkQueue ----------------------------
(***************************************************************************)
(* WorkQueue for TLC.  Three items and three workers give every overlap of *)
(* a queued, a held and a held-and-dirty item with a parked worker.        *)
(***************************************************************************)
EXTENDS WorkQueue, TLC

\* Items and workers are never compared but for equality.
Symmetry == Permutations(Item) \cup Permutations(Worker)
=============================================================================
