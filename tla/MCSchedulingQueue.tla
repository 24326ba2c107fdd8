------------------------- MODULE MCSchedulingQueue -------------------------
(***************************************************************************)
(* SchedulingQueue for TLC.  The plugins are registered for one event of   *)
(* the three that are not wildcards.                                       *)
(***************************************************************************)
EXTENDS SchedulingQueue

MCEvent == {"AssignedPodAdd", "AssignedPodUpdate", "UnschedulableTimeout", "NodeAdd"}
MCHelps == [pl \in Plugin |-> {"NodeAdd"}]
=============================================================================
