------------------------- MODULE SchedulerCacheAbs -------------------------
(***************************************************************************)
(* What the scheduler's cache promises (internal/cache/interface.go): the  *)
(* state machine its comment draws for a pod, and a snapshot that a        *)
(* refresh makes equal to the cache's contents.                            *)
(*                                                                         *)
(* "Initial", "Expired" and "Deleted" pods do not exist in the cache, so   *)
(* they are one state here: the pod has no node.                           *)
(***************************************************************************)
CONSTANTS Pod, Node, NoNode

VARIABLES where,    \* the node each pod is counted on, NoNode if it is not cached
          assumed,  \* the cached pods the informer has not confirmed
          objects,  \* the node object of each node, as far as it is not deleted
          view      \* what the scheduling cycle sees of each node

absVars == <<where, assumed, objects, view>>

PodsOn(n) == {p \in Pod : where[p] = n}

AbsInit ==
    /\ where = [p \in Pod |-> NoNode]
    /\ assumed = {}
    /\ objects = [n \in Node |-> NoNode]
    /\ view = [n \in Node |-> NoNode]

Assume(p, n) ==
    /\ where[p] = NoNode
    /\ where' = [where EXCEPT ![p] = n]
    /\ assumed' = assumed \cup {p}
    /\ UNCHANGED <<objects, view>>

\* Confirms an assumed pod, wherever it was assumed, or adds one not cached.
Add(p, n) ==
    /\ where[p] = NoNode \/ p \in assumed
    /\ where' = [where EXCEPT ![p] = n]
    /\ assumed' = assumed \ {p}
    /\ UNCHANGED <<objects, view>>

\* Forget (one pod) and Expire (any number at once).
Drop(P) ==
    /\ P \subseteq assumed
    /\ where' = [p \in Pod |-> IF p \in P THEN NoNode ELSE where[p]]
    /\ assumed' = assumed \ P
    /\ UNCHANGED <<objects, view>>

Remove(p) ==
    /\ where[p] # NoNode /\ p \notin assumed
    /\ where' = [where EXCEPT ![p] = NoNode]
    /\ UNCHANGED <<assumed, objects, view>>

ChangeNode ==
    /\ \E n \in Node : \A m \in Node \ {n} : objects'[m] = objects[m]
    /\ UNCHANGED <<where, assumed, view>>

\* UpdateSnapshot: deleted nodes are left out, the others are seen as they are.
Refresh ==
    /\ view' = [n \in Node |->
                  IF objects[n] = NoNode THEN NoNode
                  ELSE [object |-> objects[n], pods |-> PodsOn(n)]]
    /\ UNCHANGED <<where, assumed, objects>>

AbsNext ==
    \/ \E p \in Pod, n \in Node : Assume(p, n) \/ Add(p, n)
    \/ \E P \in SUBSET Pod : Drop(P)
    \/ \E p \in Pod : Remove(p)
    \/ ChangeNode
    \/ Refresh

AbsSpec == AbsInit /\ [][AbsNext]_absVars
=============================================================================
