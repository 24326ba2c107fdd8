----------------------------- MODULE MCScheduler -----------------------------
(***************************************************************************)
(* Scheduler for TLC: one event besides the ones the handlers use.         *)
(***************************************************************************)
EXTENDS Scheduler, TLC

MCEvent == {"AssignedPodAdd", "AssignedPodUpdate", "AssignedPodDelete",
            "UnschedulableTimeout"}
MCHelps == [pl \in Plugin |-> {"AssignedPodDelete"}]

Symmetry == Permutations(Pod) \cup Permutations(Binder) \cup Permutations(Node)
=============================================================================
