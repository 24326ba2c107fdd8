--------------------------- MODULE PriorityQueue ---------------------------
(***************************************************************************)
(* pkg/scheduler/internal/queue/scheduling_queue.go: the scheduling queue. *)
(* Every method holds p.lock throughout, so a method is one step, written  *)
(* here as an action on the queue's variables; SchedulingQueue and         *)
(* Scheduler say who calls it.                                             *)
(*                                                                         *)
(* A pod stands for its key and its UID: it is created once.  The heap     *)
(* order of activeQ is the QueueSort plugin's, so Pop may take any pod.    *)
(* The clock is what it makes of a pod's timestamp and attempts: whether   *)
(* the pod is still backing off, and whether it has been unschedulable for *)
(* longer than unschedulableQTimeInterval.                                 *)
(***************************************************************************)
EXTENDS Integers

CONSTANTS Pod, Node, Plugin,
          Event,      \* the events of events.go a move request is made for
          Helps,      \* clusterEventMap: the events each plugin registered for
          NoNode      \* no node: an empty NominatedNodeName

ASSUME QueueAssumption ==
    /\ NoNode \notin Node
    /\ {"AssignedPodAdd", "AssignedPodUpdate", "UnschedulableTimeout"} \subseteq Event
    /\ Helps \in [Plugin -> SUBSET Event]

VARIABLES
    activeQ, podBackoffQ, unschedulableQ,  \* the pods in each sub-queue
    plugins,                               \* QueuedPodInfo.UnschedulablePlugins
    backingOff, leftover,                  \* what the clock says of a pod
    schedulingCycle, moveRequestCycle,
    nominator,                             \* nominatedPods, nominatedPodToNode
    parked,                                \* Pop sleeps in cond.Wait
    closed

queueVars == <<activeQ, podBackoffQ, unschedulableQ, plugins, backingOff, leftover,
               schedulingCycle, moveRequestCycle, nominator, parked, closed>>

Queued == activeQ \cup podBackoffQ \cup unschedulableQ

QueueInit ==
    /\ activeQ = {} /\ podBackoffQ = {} /\ unschedulableQ = {}
    /\ plugins = [p \in Pod |-> {}]
    /\ backingOff = {} /\ leftover = {}
    /\ schedulingCycle = 0
    /\ moveRequestCycle = -1
    /\ nominator = [pods |-> [n \in Node |-> {}], node |-> [p \in Pod |-> NoNode]]
    /\ parked = FALSE
    /\ closed = FALSE
-----------------------------------------------------------------------------
(***************************************************************************)
(* nominatedPodMap, with its own lock.  status is the NominatedNodeName of *)
(* the pod object at hand.                                                 *)
(***************************************************************************)
nominatedDelete(nom, p) ==
    IF nom.node[p] = NoNode THEN nom
    ELSE [pods |-> [nom.pods EXCEPT ![nom.node[p]] = @ \ {p}],
          node |-> [nom.node EXCEPT ![p] = NoNode]]

nominatedAdd(nom, p, nodeName, status) ==
    LET nnn == IF nodeName # NoNode THEN nodeName ELSE status
        del == nominatedDelete(nom, p)
    IN  IF nnn = NoNode THEN del
        ELSE [pods |-> [del.pods EXCEPT ![nnn] = @ \cup {p}],
              node |-> [del.node EXCEPT ![p] = nnn]]

\* Mutant of UpdateNominatedPod: the reservation is the one of the new object.
UpdateForgetsNomination(nom, p, old, new) ==
    nominatedAdd(nominatedDelete(nom, p), p, NoNode, new)

\* An update that knows of no nomination keeps the one made in memory.
UpdateNominatedPod(nom, p, old, new) ==
    nominatedAdd(nominatedDelete(nom, p), p,
                 IF old = NoNode /\ new = NoNode THEN nom.node[p] ELSE NoNode, new)

DeleteNominatedPodIfExists(p) == nominator' = nominatedDelete(nominator, p)

AddNominatedPod(p, nodeName, status) ==
    nominator' = nominatedAdd(nominator, p, nodeName, status)
-----------------------------------------------------------------------------
Broadcast == parked' = FALSE

\* Add, for a pod object whose NominatedNodeName is status.
Add(p, status) ==
    /\ activeQ' = activeQ \cup {p}
    /\ unschedulableQ' = unschedulableQ \ {p}
    /\ podBackoffQ' = podBackoffQ \ {p}
    /\ plugins' = [plugins EXCEPT ![p] = {}]
    /\ AddNominatedPod(p, NoNode, status)
    /\ Broadcast
    /\ UNCHANGED <<backingOff, leftover, schedulingCycle, moveRequestCycle, closed>>

\* The pod failed with plugins pl; podSchedulingCycle is what the caller says.
AddUnschedulableIfNotPresent(p, podSchedulingCycle, pl, status) ==
    \/ /\ p \in Queued
       /\ UNCHANGED queueVars
    \/ /\ p \notin Queued
       /\ backingOff' = backingOff \cup {p}
       /\ leftover' = leftover \ {p}
       /\ plugins' = [plugins EXCEPT ![p] = pl]
       /\ \/ /\ moveRequestCycle >= podSchedulingCycle
             /\ podBackoffQ' = podBackoffQ \cup {p}
             /\ UNCHANGED unschedulableQ
          \/ /\ moveRequestCycle < podSchedulingCycle
             /\ unschedulableQ' = unschedulableQ \cup {p}
             /\ UNCHANGED podBackoffQ
       /\ AddNominatedPod(p, NoNode, status)
       /\ UNCHANGED <<activeQ, schedulingCycle, moveRequestCycle, parked, closed>>

\* Mutant of podMatchesEvent: the timeout is no wildcard.
podMatchesRegistered(p, event) == \E pl \in plugins[p] : event \in Helps[pl]

podMatchesEvent(p, event) ==
    \/ event = "UnschedulableTimeout"
    \/ \E pl \in plugins[p] : event \in Helps[pl]

\* Mutant of movePodsToActiveOrBackoffQueue: the request is recorded only if it
\* moved a pod.
moveWithoutRequest(P, event) ==
    LET moving == {p \in P : plugins[p] = {} \/ podMatchesEvent(p, event)}
    IN  /\ podBackoffQ' = podBackoffQ \cup (moving \cap backingOff)
        /\ activeQ' = activeQ \cup (moving \ backingOff)
        /\ unschedulableQ' = unschedulableQ \ moving
        /\ moveRequestCycle' = IF moving = {} THEN moveRequestCycle ELSE schedulingCycle
        /\ parked' = (parked /\ moving = {})
        /\ UNCHANGED <<plugins, backingOff, leftover, schedulingCycle, nominator, closed>>

\* Pods the event cannot help stay; the request is recorded in any case.
movePodsToActiveOrBackoffQueue(P, event) ==
    LET moving == {p \in P : plugins[p] = {} \/ podMatchesEvent(p, event)}
    IN  /\ podBackoffQ' = podBackoffQ \cup (moving \cap backingOff)
        /\ activeQ' = activeQ \cup (moving \ backingOff)
        /\ unschedulableQ' = unschedulableQ \ moving
        /\ moveRequestCycle' = schedulingCycle
        /\ parked' = (parked /\ moving = {})
        /\ UNCHANGED <<plugins, backingOff, leftover, schedulingCycle, nominator, closed>>

MoveAllToActiveOrBackoffQueue(event) == movePodsToActiveOrBackoffQueue(unschedulableQ, event)

\* P are the unschedulable pods with a required affinity term that matches the
\* assigned pod (getUnschedulablePodsWithMatchingAffinityTerm).
AssignedPodAdded(P) == movePodsToActiveOrBackoffQueue(P, "AssignedPodAdd")

AssignedPodUpdated(P) == movePodsToActiveOrBackoffQueue(P, "AssignedPodUpdate")
-----------------------------------------------------------------------------
\* Mutant of Update: a pod moved to activeQ stays in unschedulableQ too.
UpdateKeepsOld(p, old, new, updated) ==
    \/ /\ p \in activeQ \cup podBackoffQ \cup unschedulableQ
       /\ nominator' = UpdateNominatedPod(nominator, p, old, new)
       /\ activeQ' = activeQ \cup (IF updated THEN {p} \cap unschedulableQ ELSE {})
       /\ parked' = (parked /\ ~(updated /\ p \in unschedulableQ))
       /\ UNCHANGED <<podBackoffQ, unschedulableQ, plugins, backingOff, leftover,
                      schedulingCycle, moveRequestCycle, closed>>
    \/ p \notin Queued /\ Add(p, new)

\* Mutant of Update: nobody is told of the pod it puts in activeQ.
UpdateSilently(p, old, new, updated) ==
    \/ p \in Queued /\ UNCHANGED queueVars
    \/ /\ p \notin Queued
       /\ activeQ' = activeQ \cup {p}
       /\ plugins' = [plugins EXCEPT ![p] = {}]
       /\ AddNominatedPod(p, NoNode, new)
       /\ UNCHANGED <<podBackoffQ, unschedulableQ, backingOff, leftover, schedulingCycle,
                      moveRequestCycle, parked, closed>>

\* Update, from a pod object with NominatedNodeName old to one with new; updated
\* if they differ in more than status (isPodUpdated).  A pod that is in no
\* sub-queue, because it is being tried, is put in activeQ.
Update(p, old, new, updated) ==
    \/ /\ p \in activeQ \cup podBackoffQ
       /\ nominator' = UpdateNominatedPod(nominator, p, old, new)
       /\ UNCHANGED <<activeQ, podBackoffQ, unschedulableQ, plugins, backingOff, leftover,
                      schedulingCycle, moveRequestCycle, parked, closed>>
    \/ /\ p \in unschedulableQ \ (activeQ \cup podBackoffQ)
       /\ nominator' = UpdateNominatedPod(nominator, p, old, new)
       /\ \/ /\ ~updated
             /\ UNCHANGED <<activeQ, podBackoffQ, unschedulableQ, parked>>
          \/ /\ updated /\ p \in backingOff
             /\ podBackoffQ' = podBackoffQ \cup {p}
             /\ unschedulableQ' = unschedulableQ \ {p}
             /\ UNCHANGED <<activeQ, parked>>
          \/ /\ updated /\ p \notin backingOff
             /\ activeQ' = activeQ \cup {p}
             /\ unschedulableQ' = unschedulableQ \ {p}
             /\ Broadcast
             /\ UNCHANGED podBackoffQ
       /\ UNCHANGED <<plugins, backingOff, leftover, schedulingCycle, moveRequestCycle, closed>>
    \/ /\ p \notin Queued
       /\ activeQ' = activeQ \cup {p}
       /\ plugins' = [plugins EXCEPT ![p] = {}]
       /\ AddNominatedPod(p, NoNode, new)
       /\ Broadcast
       /\ UNCHANGED <<podBackoffQ, unschedulableQ, backingOff, leftover, schedulingCycle,
                      moveRequestCycle, closed>>

\* The pod's QueuedPodInfo leaves the queue with it.
InfoLeaves(p) ==
    /\ plugins' = [plugins EXCEPT ![p] = {}]
    /\ backingOff' = backingOff \ {p}
    /\ leftover' = leftover \ {p}

\* Delete looks in the other two only if the pod is not in activeQ.
Delete(p) ==
    /\ DeleteNominatedPodIfExists(p)
    /\ activeQ' = activeQ \ {p}
    /\ podBackoffQ' = IF p \in activeQ THEN podBackoffQ ELSE podBackoffQ \ {p}
    /\ unschedulableQ' = IF p \in activeQ THEN unschedulableQ ELSE unschedulableQ \ {p}
    /\ InfoLeaves(p)
    /\ UNCHANGED <<schedulingCycle, moveRequestCycle, parked, closed>>

\* Pop finds activeQ empty and sleeps.
PopWait ==
    /\ ~parked /\ ~closed
    /\ activeQ = {}
    /\ parked' = TRUE
    /\ UNCHANGED <<activeQ, podBackoffQ, unschedulableQ, plugins, backingOff, leftover,
                   schedulingCycle, moveRequestCycle, nominator, closed>>

Pop(p) ==
    /\ ~parked
    /\ p \in activeQ
    /\ activeQ' = activeQ \ {p}
    /\ schedulingCycle' = schedulingCycle + 1
    /\ InfoLeaves(p)
    /\ UNCHANGED <<podBackoffQ, unschedulableQ, moveRequestCycle, nominator, parked, closed>>

Close ==
    /\ ~closed
    /\ closed' = TRUE
    /\ Broadcast
    /\ UNCHANGED <<activeQ, podBackoffQ, unschedulableQ, plugins, backingOff, leftover,
                   schedulingCycle, moveRequestCycle, nominator>>
-----------------------------------------------------------------------------
(***************************************************************************)
(* The two goroutines Run starts, and the clock.  Close stops them, but a  *)
(* flush that waits for the lock then still runs.                          *)
(***************************************************************************)
flushBackoffQCompleted ==
    LET completed == podBackoffQ \ backingOff
    IN  /\ completed # {}
        /\ podBackoffQ' = podBackoffQ \ completed
        /\ activeQ' = activeQ \cup completed
        /\ Broadcast
        /\ UNCHANGED <<unschedulableQ, plugins, backingOff, leftover, schedulingCycle,
                       moveRequestCycle, nominator, closed>>

flushUnschedulableQLeftover ==
    LET podsToMove == unschedulableQ \cap leftover
    IN  /\ podsToMove # {}
        /\ movePodsToActiveOrBackoffQueue(podsToMove, "UnschedulableTimeout")

BackoffCompletes(p) ==
    /\ p \in backingOff \cap Queued
    /\ backingOff' = backingOff \ {p}
    /\ UNCHANGED <<activeQ, podBackoffQ, unschedulableQ, plugins, leftover, schedulingCycle,
                   moveRequestCycle, nominator, parked, closed>>

BecomesLeftover(p) ==
    /\ p \in unschedulableQ \ leftover
    /\ leftover' = leftover \cup {p}
    /\ UNCHANGED <<activeQ, podBackoffQ, unschedulableQ, plugins, backingOff, schedulingCycle,
                   moveRequestCycle, nominator, parked, closed>>
-----------------------------------------------------------------------------
(***************************************************************************)
(* What any clients may do to the queue.                                   *)
(***************************************************************************)
Names == Node \cup {NoNode}

HandlerStep ==
    \E p \in Pod, old, new \in Names :
        \/ Add(p, new)
        \/ \E updated \in BOOLEAN : Update(p, old, new, updated)
        \/ Delete(p)

AttemptStep ==
    \E p \in Pod, status \in Names :
        \/ Pop(p)
        \/ \E cycle \in Nat, pl \in SUBSET Plugin :
              AddUnschedulableIfNotPresent(p, cycle, pl, status)

NominateStep ==
    /\ \E p \in Pod, nodeName, status \in Names :
          DeleteNominatedPodIfExists(p) \/ AddNominatedPod(p, nodeName, status)
    /\ UNCHANGED <<activeQ, podBackoffQ, unschedulableQ, plugins, backingOff, leftover,
                   schedulingCycle, moveRequestCycle, parked, closed>>

MoveStep ==
    \/ \E P \in SUBSET unschedulableQ, e \in Event : movePodsToActiveOrBackoffQueue(P, e)
    \/ flushUnschedulableQLeftover

QueueStep ==
    \/ HandlerStep \/ AttemptStep \/ NominateStep \/ MoveStep
    \/ PopWait \/ Close \/ flushBackoffQCompleted
    \/ \E p \in Pod : BackoffCompletes(p) \/ BecomesLeftover(p)

QueueSpec == QueueInit /\ [][QueueStep]_queueVars
-----------------------------------------------------------------------------
QueueTypeOK ==
    /\ activeQ \in SUBSET Pod /\ podBackoffQ \in SUBSET Pod /\ unschedulableQ \in SUBSET Pod
    /\ plugins \in [Pod -> SUBSET Plugin]
    /\ backingOff \in SUBSET Pod /\ leftover \in SUBSET Pod
    /\ schedulingCycle \in Nat
    /\ moveRequestCycle \in Int
    /\ nominator \in [pods : [Node -> SUBSET Pod], node : [Pod -> Node \cup {NoNode}]]
    /\ parked \in BOOLEAN /\ closed \in BOOLEAN

\* A pod is in at most one sub-queue: Delete (scheduling_queue.go:493-494 "It
\* assumes the pod is only in one queue") and Pop rely on it.
SubqueuesDisjoint ==
    /\ activeQ \cap podBackoffQ = {}
    /\ activeQ \cap unschedulableQ = {}
    /\ podBackoffQ \cap unschedulableQ = {}

\* Whoever puts a pod in activeQ, or closes the queue, wakes the scheduling loop.
PopNotAsleep == parked => activeQ = {} /\ ~closed

\* The two maps of the nominator say the same: a pod reserves at most one node,
\* and no reservation survives the pod's entry.
NominatorConsistent ==
    \A p \in Pod, n \in Node : p \in nominator.pods[n] <=> nominator.node[p] = n

\* A move request is recorded with a cycle that has begun.
RequestInPast == moveRequestCycle <= schedulingCycle
=============================================================================
