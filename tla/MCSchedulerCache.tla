-------------------------- MODULE MCSchedulerCache --------------------------
(***************************************************************************)
(* SchedulerCache for TLC.  Two nodes, two zones, two pods: one declares   *)
(* affinity, the other required anti-affinity.                             *)
(***************************************************************************)
EXTENDS SchedulerCache

CONSTANTS p1, p2, z1, z2, i1

MCNodeObj == {[zone |-> z1, images |-> {i1}], [zone |-> z2, images |-> {}]}
MCOneObj == {[zone |-> z1, images |-> {i1}]}
MCTermKind == {"affinity", "antiAffinity"}
MCDeclares == [k \in MCTermKind |-> IF k = "affinity" THEN {p1} ELSE Pod \ {p1}]

Symmetry == Permutations(Node) \cup Permutations(Binder)
=============================================================================
