-------------------------- MODULE SchedulingQueue --------------------------
(***************************************************************************)
(* The scheduling queue with every client it may have: the informer's      *)
(* handlers add, update and delete a pod once each in that order, cluster  *)
(* events request moves at any time, and any number of attempts to         *)
(* schedule a popped pod are under way at once (the cycle in the           *)
(* scheduling loop and the binding goroutines of earlier ones).  A failed  *)
(* attempt returns the pod with a cycle between the one the pod was popped *)
(* in, which AddUnschedulableIfNotPresent means, and the current one,      *)
(* which the scheduler's error function passes.                            *)
(***************************************************************************)
EXTENDS PriorityQueue

CONSTANT MaxPops    \* bound: no Pop once schedulingCycle reaches it

VARIABLES
    known,     \* a pod is "new", "pending" once the informer has it, then "left"
    status,    \* the NominatedNodeName of the informer's pod object
    attempts   \* attempts under way: the pod, its cycle, and the history flag
               \* moved: a move request was made since the pod was popped

clientVars == <<known, status, attempts>>
allVars == <<queueVars, clientVars>>

ClientInit ==
    /\ QueueInit
    /\ known = [p \in Pod |-> "new"]
    /\ status = [p \in Pod |-> NoNode]
    /\ attempts = {}

\* Every attempt under way sees the move request.
MoveSeen == attempts' = {[a EXCEPT !.moved = TRUE] : a \in attempts}
-----------------------------------------------------------------------------
\* addPodToSchedulingQueue: the pod may be nominated already, after a restart.
AddPod(p, n) ==
    /\ known[p] = "new"
    /\ known' = [known EXCEPT ![p] = "pending"]
    /\ status' = [status EXCEPT ![p] = n]
    /\ Add(p, n)
    /\ UNCHANGED attempts

\* updatePodInSchedulingQueue
UpdatePod(p, n, updated) ==
    /\ known[p] = "pending"
    /\ status' = [status EXCEPT ![p] = n]
    /\ Update(p, status[p], n, updated)
    /\ UNCHANGED <<known, attempts>>

\* deletePodFromSchedulingQueue: deleted, or assigned to a node.  Assigning it
\* does not request a move for the pods that wait.
DeletePod(p) ==
    /\ known[p] = "pending"
    /\ known' = [known EXCEPT ![p] = "left"]
    /\ Delete(p)
    /\ UNCHANGED <<status, attempts>>

TakePod(p) ==
    /\ schedulingCycle < MaxPops
    /\ Pop(p)
    /\ attempts' = attempts \cup {[pod |-> p, cycle |-> schedulingCycle + 1, moved |-> FALSE]}
    /\ UNCHANGED <<known, status>>

WaitToTake == PopWait /\ UNCHANGED clientVars

\* The attempt fails with plugins pl.  The pod object comes from the lister,
\* with NominatedNodeName n; the informer's handlers may have reported a later
\* one, or the pod's end, by the time it is put back.
Fail(a, pl, n) ==
    /\ \E c \in a.cycle..schedulingCycle : AddUnschedulableIfNotPresent(a.pod, c, pl, n)
    /\ attempts' = attempts \ {a}
    /\ UNCHANGED <<known, status>>

\* The pod is bound, or skipped: the queue is not told, but assume takes back
\* the nomination.
Succeed(a) ==
    /\ attempts' = attempts \ {a}
    /\ DeleteNominatedPodIfExists(a.pod)
    /\ UNCHANGED <<activeQ, podBackoffQ, unschedulableQ, plugins, backingOff, leftover,
                   schedulingCycle, moveRequestCycle, parked, closed, known, status>>

\* A preemption nominates a node for a pod, recordSchedulingFailure's last step.
NominatePod(p, n) ==
    /\ known[p] = "pending"
    /\ AddNominatedPod(p, n, status[p])
    /\ UNCHANGED <<activeQ, podBackoffQ, unschedulableQ, plugins, backingOff, leftover,
                   schedulingCycle, moveRequestCycle, parked, closed, clientVars>>

RequestMove ==
    /\ \/ \E e \in Event : MoveAllToActiveOrBackoffQueue(e)
       \/ \E P \in SUBSET unschedulableQ : AssignedPodAdded(P) \/ AssignedPodUpdated(P)
    /\ MoveSeen
    /\ UNCHANGED <<known, status>>

FlushBackoff == flushBackoffQCompleted /\ UNCHANGED clientVars

FlushUnschedulable ==
    /\ flushUnschedulableQLeftover
    /\ MoveSeen
    /\ UNCHANGED <<known, status>>

QueueTick(p) == (BackoffCompletes(p) \/ BecomesLeftover(p)) /\ UNCHANGED clientVars

CloseQueue == Close /\ UNCHANGED clientVars

ClientNext ==
    \/ \E p \in Pod, n \in Node \cup {NoNode} :
          AddPod(p, n) \/ \E updated \in BOOLEAN : UpdatePod(p, n, updated)
    \/ \E p \in Pod : DeletePod(p) \/ TakePod(p) \/ QueueTick(p)
    \/ \E a \in attempts :
          Succeed(a) \/ \E pl \in SUBSET Plugin, n \in Node \cup {NoNode} : Fail(a, pl, n)
    \/ \E p \in Pod, n \in Node : NominatePod(p, n)
    \/ WaitToTake
    \/ RequestMove
    \/ FlushBackoff
    \/ FlushUnschedulable
    \/ CloseQueue

ClientSpec == ClientInit /\ [][ClientNext]_allVars

(***************************************************************************)
(* Time passes and the two goroutines of Run run every 1 s and every 30 s, *)
(* until Close, of whose aftermath nothing is claimed.  Nothing is assumed *)
(* of the scheduling loop, the informer or the events.                     *)
(***************************************************************************)
FairClientSpec ==
    /\ ClientSpec
    /\ \A p \in Pod : WF_allVars(QueueTick(p))
    /\ WF_allVars(FlushBackoff)
    /\ WF_allVars(FlushUnschedulable)
-----------------------------------------------------------------------------
Attempt == [pod : Pod, cycle : Nat, moved : BOOLEAN]

SchedulingQueueTypeOK ==
    /\ QueueTypeOK
    /\ known \in [Pod -> {"new", "pending", "left"}]
    /\ status \in [Pod -> Node \cup {NoNode}]
    /\ attempts \in SUBSET Attempt

\* The one number moveRequestCycle answers for every attempt under way whether
\* a move was requested since its pod was popped (scheduling_queue.go:147-150):
\* compared with the pod's own cycle, it backs off exactly the pods that were.
MoveIsRemembered ==
    \A a \in attempts : a.moved <=> moveRequestCycle >= a.cycle

\* A node reserved for a pod that waits, by a preemption that the informer's
\* object may not show yet, is given up only when an attempt under way takes the
\* nomination back, the pod leaves, or its object's own nomination changes: "we
\* need to keep reserving the NominatedNode when updating the pod pointer"
\* (UpdateNominatedPod, scheduling_queue.go:815-817).
ReservationKept ==
    [][\A p \in Pod :
          p \in Queued /\ nominator.node[p] # NoNode /\ nominator'.node[p] = NoNode =>
              \/ known'[p] # known[p]
              \/ status'[p] # status[p]
              \/ \E a \in attempts \ attempts' : a.pod = p]_allVars

\* A pod that waits is activated, or taken away, unless the queue is closed.
WaitingIsActivated ==
    \A p \in Pod : (p \in podBackoffQ \cup unschedulableQ)
                     ~> (p \notin podBackoffQ \cup unschedulableQ \/ closed)
=============================================================================
