--------------------------- MODULE SchedulerProofs ---------------------------
(***************************************************************************)
(* The scheduling queue and the scheduler, for any number of pods, nodes,  *)
(* plugins and binding goroutines: what the queue's methods keep whoever   *)
(* calls them, what the queue promises any clients (SchedulingQueue), and  *)
(* that the scheduler, which is one client, loses no pod, binds none twice *)
(* at once and overcommits no node.                                        *)
(***************************************************************************)
EXTENDS Scheduler, SchedulingQueue, FiniteSetTheorems, TLAPS

-----------------------------------------------------------------------------
(***************************************************************************)
(* The queue's methods, whatever the order of the calls.                   *)
(***************************************************************************)
Nominator == [pods : [Node -> SUBSET Pod], node : [Pod -> Names]]

Consistent(nom) == \A p \in Pod, n \in Node : p \in nom.pods[n] <=> nom.node[p] = n

\* nominatedPodMap.delete takes the pod, and nothing else, out of both maps.
LEMMA DeleteKeepsConsistent ==
    ASSUME NEW nom \in Nominator, Consistent(nom), NEW p \in Pod
    PROVE  /\ nominatedDelete(nom, p) \in Nominator
           /\ Consistent(nominatedDelete(nom, p))
           /\ nominatedDelete(nom, p).node[p] = NoNode
<1>1. CASE nom.node[p] = NoNode
  BY <1>1 DEF nominatedDelete, Nominator
<1>2. CASE nom.node[p] # NoNode
  <2>1. nom.node[p] \in Node
    BY <1>2 DEF Nominator, Names
  <2> DEFINE del == nominatedDelete(nom, p)
  <2>2. /\ del.pods = [nom.pods EXCEPT ![nom.node[p]] = @ \ {p}]
        /\ del.node = [nom.node EXCEPT ![p] = NoNode]
    BY <1>2 DEF nominatedDelete
  <2>3. del \in Nominator
    BY <1>2, <2>1 DEF nominatedDelete, Nominator, Names
  <2>4. Consistent(del)
    <3> SUFFICES ASSUME NEW q \in Pod, NEW n \in Node
                 PROVE  q \in del.pods[n] <=> del.node[q] = n
      BY DEF Consistent
    <3>1. q \in nom.pods[n] <=> nom.node[q] = n
      BY DEF Consistent
    <3>2. del.pods[n] = IF n = nom.node[p] THEN nom.pods[n] \ {p} ELSE nom.pods[n]
      BY <2>1, <2>2 DEF Nominator
    <3>3. del.node[q] = IF q = p THEN NoNode ELSE nom.node[q]
      BY <2>2 DEF Nominator
    <3> QED
      BY <3>1, <3>2, <3>3, QueueAssumption
  <2> QED
    BY <2>2, <2>3, <2>4 DEF Nominator
<1> QED
  BY <1>1, <1>2

\* nominatedPodMap.add reserves one node and releases any other.
LEMMA AddKeepsConsistent ==
    ASSUME NEW nom \in Nominator, Consistent(nom), NEW p \in Pod,
           NEW nodeName \in Names, NEW fallback \in Names
    PROVE  /\ nominatedAdd(nom, p, nodeName, fallback) \in Nominator
           /\ Consistent(nominatedAdd(nom, p, nodeName, fallback))
<1> DEFINE nnn == IF nodeName # NoNode THEN nodeName ELSE fallback
           del == nominatedDelete(nom, p)
           add == nominatedAdd(nom, p, nodeName, fallback)
<1>1. del \in Nominator /\ Consistent(del) /\ del.node[p] = NoNode
  BY DeleteKeepsConsistent
<1>2. CASE nnn = NoNode
  BY <1>1, <1>2 DEF nominatedAdd
<1>3. CASE nnn # NoNode
  <2>1. nnn \in Node
    BY <1>3 DEF Names
  <2>2. add = [pods |-> [del.pods EXCEPT ![nnn] = @ \cup {p}],
               node |-> [del.node EXCEPT ![p] = nnn]]
    BY <1>3 DEF nominatedAdd
  <2> HIDE DEF nnn, del, add
  <2>3. add \in Nominator
    BY <1>1, <2>1, <2>2 DEF Nominator, Names
  <2>4. Consistent(add)
    <3> SUFFICES ASSUME NEW q \in Pod, NEW n \in Node
                 PROVE  q \in add.pods[n] <=> add.node[q] = n
      BY DEF Consistent
    <3>1. q \in del.pods[n] <=> del.node[q] = n
      BY <1>1 DEF Consistent
    <3>2. add.pods[n] = IF n = nnn THEN del.pods[n] \cup {p} ELSE del.pods[n]
      BY <1>1, <2>1, <2>2 DEF Nominator
    <3>3. add.node[q] = IF q = p THEN nnn ELSE del.node[q]
      BY <1>1, <2>2 DEF Nominator
    <3> QED
      BY <1>1, <3>1, <3>2, <3>3, QueueAssumption
  <2> QED
    BY <2>3, <2>4 DEF add
<1> QED
  BY <1>2, <1>3

\* UpdateNominatedPod is a delete and an add.
LEMMA UpdateKeepsConsistent ==
    ASSUME NEW nom \in Nominator, Consistent(nom), NEW p \in Pod,
           NEW old \in Names, NEW new \in Names
    PROVE  /\ UpdateNominatedPod(nom, p, old, new) \in Nominator
           /\ Consistent(UpdateNominatedPod(nom, p, old, new))
<1>1. nominatedDelete(nom, p) \in Nominator /\ Consistent(nominatedDelete(nom, p))
  BY DeleteKeepsConsistent
<1>2. (IF old = NoNode /\ new = NoNode THEN nom.node[p] ELSE NoNode) \in Names
  BY DEF Nominator, Names
<1> QED
  BY <1>1, <1>2, AddKeepsConsistent DEF UpdateNominatedPod
-----------------------------------------------------------------------------
\* Whatever is done to the nominator, the two maps stay well typed and agree.
LEMMA NominatorStep ==
    ASSUME nominator \in Nominator, NominatorConsistent,
           NEW p \in Pod, NEW old \in Names, NEW new \in Names,
           \/ DeleteNominatedPodIfExists(p)
           \/ AddNominatedPod(p, old, new)
           \/ nominator' = UpdateNominatedPod(nominator, p, old, new)
           \/ UNCHANGED nominator
    PROVE  nominator' \in Nominator /\ NominatorConsistent'
<1>1. Consistent(nominator)
  BY DEF Consistent, NominatorConsistent
<1>2. nominator' \in Nominator /\ Consistent(nominator')
  BY <1>1, DeleteKeepsConsistent, AddKeepsConsistent, UpdateKeepsConsistent
     DEF DeleteNominatedPodIfExists, AddNominatedPod
<1> QED
  BY <1>2 DEF Consistent, NominatorConsistent

QueueInv ==
    /\ QueueTypeOK
    /\ SubqueuesDisjoint
    /\ PopNotAsleep
    /\ NominatorConsistent
    /\ RequestInPast

\* A move request, for any of the unschedulable pods.
LEMMA MoveKeeps ==
    ASSUME QueueInv, NEW P \in SUBSET unschedulableQ, NEW e,
           movePodsToActiveOrBackoffQueue(P, e)
    PROVE  QueueInv'
<1> DEFINE moving == {p \in P : plugins[p] = {} \/ podMatchesEvent(p, e)}
<1>1. moving \in SUBSET unschedulableQ
  OBVIOUS
<1>2. /\ podBackoffQ' = podBackoffQ \cup (moving \cap backingOff)
      /\ activeQ' = activeQ \cup (moving \ backingOff)
      /\ unschedulableQ' = unschedulableQ \ moving
      /\ moveRequestCycle' = schedulingCycle
      /\ parked' = (parked /\ moving = {})
      /\ UNCHANGED <<plugins, backingOff, leftover, schedulingCycle, nominator, closed>>
  BY DEF movePodsToActiveOrBackoffQueue
<1> HIDE DEF moving
<1>3. QueueTypeOK'
  BY <1>1, <1>2 DEF QueueInv, QueueTypeOK
<1>4. SubqueuesDisjoint'
  BY <1>1, <1>2 DEF QueueInv, SubqueuesDisjoint
<1>5. PopNotAsleep'
  BY <1>2 DEF QueueInv, PopNotAsleep
<1>6. NominatorConsistent'
  BY <1>2 DEF QueueInv, NominatorConsistent
<1>7. RequestInPast'
  BY <1>2 DEF QueueInv, QueueTypeOK, RequestInPast
<1> QED
  BY <1>3, <1>4, <1>5, <1>6, <1>7 DEF QueueInv

\* The calls of the informer's handlers.
LEMMA HandlerKeeps ==
    ASSUME QueueInv, HandlerStep
    PROVE  QueueInv'
<1> USE DEF QueueInv, QueueTypeOK
<1>1. nominator \in Nominator
  BY DEF Nominator, Names
<1>2. ASSUME NEW p \in Pod, NEW new \in Names, Add(p, new)
      PROVE  QueueInv'
  <2>1. nominator' \in Nominator /\ NominatorConsistent'
    BY <1>1, <1>2, NominatorStep DEF Add, Names
  <2>2. QueueTypeOK'
    BY <1>2, <2>1 DEF Add, Broadcast, Nominator, Names
  <2>3. SubqueuesDisjoint' /\ PopNotAsleep' /\ RequestInPast'
    BY <1>2 DEF Add, Broadcast, SubqueuesDisjoint, PopNotAsleep, RequestInPast
  <2> QED
    BY <2>1, <2>2, <2>3
<1>3. ASSUME NEW p \in Pod, NEW old \in Names, NEW new \in Names,
             NEW updated \in BOOLEAN, Update(p, old, new, updated)
      PROVE  QueueInv'
  <2>1. NoNode \in Names
    BY DEF Names
  <2>2. nominator' \in Nominator /\ NominatorConsistent'
    <3>1. CASE p \in Queued
      BY <1>1, <1>3, <3>1, NominatorStep DEF Update, Queued
    <3>2. CASE p \notin Queued
      BY <1>1, <1>3, <2>1, <3>2, NominatorStep DEF Update, Queued
    <3> QED
      BY <3>1, <3>2
  <2>3. QueueTypeOK'
    BY <1>3, <2>2 DEF Update, Broadcast, Nominator, Names
  <2>4. SubqueuesDisjoint'
    BY <1>3 DEF Update, Queued, SubqueuesDisjoint
  <2>5. PopNotAsleep' /\ RequestInPast'
    BY <1>3 DEF Update, Broadcast, PopNotAsleep, RequestInPast
  <2> QED
    BY <2>2, <2>3, <2>4, <2>5
<1>4. ASSUME NEW p \in Pod, Delete(p)
      PROVE  QueueInv'
  <2>1. nominator' \in Nominator /\ NominatorConsistent'
    BY <1>1, <1>4, NominatorStep DEF Delete, Names
  <2>2. QueueTypeOK'
    BY <1>4, <2>1 DEF Delete, InfoLeaves, Nominator, Names
  <2>3. SubqueuesDisjoint' /\ PopNotAsleep' /\ RequestInPast'
    BY <1>4 DEF Delete, SubqueuesDisjoint, PopNotAsleep, RequestInPast
  <2> QED
    BY <2>1, <2>2, <2>3
<1> QED
  BY <1>2, <1>3, <1>4 DEF HandlerStep

\* Pop and the return of a pod that could not be scheduled.
LEMMA AttemptKeeps ==
    ASSUME QueueInv, AttemptStep
    PROVE  QueueInv'
<1> USE DEF QueueInv, QueueTypeOK
<1>1. nominator \in Nominator
  BY DEF Nominator, Names
<1>2. ASSUME NEW p \in Pod, Pop(p)
      PROVE  QueueInv'
  <2>1. QueueTypeOK'
    BY <1>2 DEF Pop, InfoLeaves
  <2>2. SubqueuesDisjoint' /\ PopNotAsleep' /\ RequestInPast'
    BY <1>2 DEF Pop, SubqueuesDisjoint, PopNotAsleep, RequestInPast
  <2>3. NominatorConsistent'
    BY <1>2 DEF Pop, NominatorConsistent
  <2> QED
    BY <2>1, <2>2, <2>3
<1>3. ASSUME NEW p \in Pod, NEW fallback \in Names, NEW cycle \in Nat,
             NEW pl \in SUBSET Plugin, AddUnschedulableIfNotPresent(p, cycle, pl, fallback)
      PROVE  QueueInv'
  <2>1. CASE p \in Queued
    BY <1>3, <2>1 DEF AddUnschedulableIfNotPresent, queueVars, SubqueuesDisjoint,
                      PopNotAsleep, NominatorConsistent, RequestInPast
  <2>2. CASE p \notin Queued
    <3>1. nominator' \in Nominator /\ NominatorConsistent'
      BY <1>1, <1>3, <2>2, NominatorStep DEF AddUnschedulableIfNotPresent, Names
    <3>2. QueueTypeOK'
      BY <1>3, <2>2, <3>1 DEF AddUnschedulableIfNotPresent, Nominator, Names
    <3>3. SubqueuesDisjoint'
      BY <1>3, <2>2 DEF AddUnschedulableIfNotPresent, Queued, SubqueuesDisjoint
    <3>4. PopNotAsleep' /\ RequestInPast'
      BY <1>3, <2>2 DEF AddUnschedulableIfNotPresent, PopNotAsleep, RequestInPast
    <3> QED
      BY <3>1, <3>2, <3>3, <3>4
  <2> QED
    BY <2>1, <2>2
<1> QED
  BY <1>2, <1>3 DEF AttemptStep

\* Every call, by whoever makes it, keeps the queue's invariants.
LEMMA StepKeeps ==
    ASSUME QueueInv, [QueueStep]_queueVars
    PROVE  QueueInv'
<1>1. CASE HandlerStep
  BY <1>1, HandlerKeeps
<1>2. CASE AttemptStep
  BY <1>2, AttemptKeeps
<1>3. CASE NominateStep
  <2>1. nominator \in Nominator
    BY DEF QueueInv, QueueTypeOK, Nominator, Names
  <2>2. nominator' \in Nominator /\ NominatorConsistent'
    BY <1>3, <2>1, NominatorStep DEF NominateStep, QueueInv
  <2> QED
    BY <1>3, <2>2 DEF NominateStep, QueueInv, QueueTypeOK, Nominator, Names,
                      SubqueuesDisjoint, PopNotAsleep, RequestInPast
<1>4. CASE MoveStep
  <2>1. ASSUME flushUnschedulableQLeftover
        PROVE  QueueInv'
    BY <2>1, MoveKeeps DEF flushUnschedulableQLeftover
  <2> QED
    BY <1>4, <2>1, MoveKeeps DEF MoveStep
<1>5. CASE PopWait \/ Close \/ flushBackoffQCompleted
  <2>1. QueueTypeOK' /\ RequestInPast'
    BY <1>5 DEF PopWait, Close, flushBackoffQCompleted, Broadcast, QueueInv, QueueTypeOK,
                RequestInPast
  <2>2. SubqueuesDisjoint'
    BY <1>5 DEF PopWait, Close, flushBackoffQCompleted, QueueInv, SubqueuesDisjoint
  <2>3. PopNotAsleep'
    BY <1>5 DEF PopWait, Close, flushBackoffQCompleted, Broadcast, PopNotAsleep
  <2>4. NominatorConsistent'
    BY <1>5 DEF PopWait, Close, flushBackoffQCompleted, QueueInv, NominatorConsistent
  <2> QED
    BY <2>1, <2>2, <2>3, <2>4 DEF QueueInv
<1>6. CASE \E p \in Pod : BackoffCompletes(p) \/ BecomesLeftover(p)
  BY <1>6 DEF BackoffCompletes, BecomesLeftover, QueueInv, QueueTypeOK, SubqueuesDisjoint,
              PopNotAsleep, NominatorConsistent, RequestInPast
<1>7. CASE UNCHANGED queueVars
  BY <1>7 DEF queueVars, QueueInv, QueueTypeOK, SubqueuesDisjoint, PopNotAsleep,
              NominatorConsistent, RequestInPast
<1> QED
  BY <1>1, <1>2, <1>3, <1>4, <1>5, <1>6, <1>7 DEF QueueStep

\* A new queue satisfies the invariants.
LEMMA InitialQueue ==
    ASSUME QueueInit
    PROVE  QueueInv
<1>1. moveRequestCycle \in Int /\ RequestInPast
  BY DEF QueueInit, RequestInPast
<1>2. nominator \in [pods : [Node -> SUBSET Pod], node : [Pod -> Node \cup {NoNode}]]
  BY DEF QueueInit
<1>3. QueueTypeOK
  BY <1>1, <1>2 DEF QueueInit, QueueTypeOK
<1>4. NominatorConsistent
  BY QueueAssumption DEF QueueInit, NominatorConsistent
<1> QED
  BY <1>1, <1>3, <1>4 DEF QueueInit, QueueInv, SubqueuesDisjoint, PopNotAsleep

\* The queue keeps its invariants for every client: a pod is in one sub-queue,
\* the scheduling loop never sleeps over a pod, and the nominator is consistent.
THEOREM QueueCorrect == QueueSpec => []QueueInv
  BY InitialQueue, StepKeeps, PTL DEF QueueSpec

-----------------------------------------------------------------------------
(***************************************************************************)
(* SchedulingQueue's clients only call the queue's methods, so the queue's *)
(* invariants hold of it, and moveRequestCycle answers for every attempt.  *)
(*                                                                         *)
(* MoveIsRemembered is not inductive alone: a move request records the     *)
(* present cycle, which must not be before any attempt's, and a new        *)
(* attempt's cycle must be after every request's.                          *)
(***************************************************************************)
ClientTypeOK ==
    /\ known \in [Pod -> {"new", "pending", "left"}]
    /\ status \in [Pod -> Node \cup {NoNode}]
    /\ attempts \in SUBSET Attempt

AttemptsBegun == \A a \in attempts : a.cycle <= schedulingCycle

ClientInv == QueueInv /\ ClientTypeOK /\ AttemptsBegun /\ MoveIsRemembered

\* The clients use the queue as QueueStep allows.
LEMMA ClientSteps ==
    ASSUME ClientTypeOK, [ClientNext]_allVars
    PROVE  [QueueStep]_queueVars
<1> USE DEF ClientTypeOK
<1>1. ASSUME NEW p \in Pod, NEW n \in Node \cup {NoNode},
             AddPod(p, n) \/ \E updated \in BOOLEAN : UpdatePod(p, n, updated)
      PROVE  HandlerStep
  BY <1>1 DEF AddPod, UpdatePod, HandlerStep, Names
<1>2. ASSUME NEW p \in Pod, DeletePod(p)
      PROVE  HandlerStep
  BY <1>2 DEF DeletePod, HandlerStep, Names
<1>3. ASSUME NEW p \in Pod, TakePod(p)
      PROVE  AttemptStep
  BY <1>3 DEF TakePod, AttemptStep, Names
<1>4. ASSUME NEW p \in Pod, QueueTick(p)
      PROVE  QueueStep
  BY <1>4 DEF QueueTick, QueueStep
<1>5. ASSUME NEW a \in attempts, Succeed(a)
      PROVE  NominateStep
  BY <1>5 DEF Succeed, NominateStep, Attempt, Names
<1>6. ASSUME NEW a \in attempts, NEW pl \in SUBSET Plugin, NEW n \in Node \cup {NoNode},
             Fail(a, pl, n)
      PROVE  AttemptStep
  BY <1>6 DEF Fail, AttemptStep, Attempt, Names
<1>7. ASSUME NEW p \in Pod, NEW n \in Node, NominatePod(p, n)
      PROVE  NominateStep
  BY <1>7 DEF NominatePod, NominateStep, Names
<1>8. ASSUME RequestMove
      PROVE  MoveStep
  BY <1>8, QueueAssumption
     DEF RequestMove, MoveStep, MoveAllToActiveOrBackoffQueue, AssignedPodAdded,
         AssignedPodUpdated
<1>9. CASE UNCHANGED allVars
  BY <1>9 DEF allVars
<1> QED
  BY <1>1, <1>2, <1>3, <1>4, <1>5, <1>6, <1>7, <1>8, <1>9
     DEF ClientNext, QueueStep, WaitToTake, FlushBackoff, FlushUnschedulable, CloseQueue, MoveStep

\* Attempts come from Pop and change only by move requests.
LEMMA ClientTypes ==
    ASSUME QueueTypeOK, ClientTypeOK, [ClientNext]_allVars
    PROVE  ClientTypeOK'
<1> USE DEF ClientTypeOK, QueueTypeOK
<1>1. ASSUME NEW p \in Pod, TakePod(p)
      PROVE  ClientTypeOK'
  <2>1. schedulingCycle + 1 \in Nat
    OBVIOUS
  <2>2. [pod |-> p, cycle |-> schedulingCycle + 1, moved |-> FALSE] \in Attempt
    BY <2>1 DEF Attempt
  <2> QED
    BY <1>1, <2>2 DEF TakePod
<1>2. ASSUME MoveSeen
      PROVE  attempts' \in SUBSET Attempt
  <2>1. ASSUME NEW a \in attempts
        PROVE  [a EXCEPT !.moved = TRUE] \in Attempt
    <3>1. a \in [pod : Pod, cycle : Nat, moved : BOOLEAN]
      BY DEF Attempt
    <3> QED
      BY <3>1 DEF Attempt
  <2> QED
    BY <1>2, <2>1 DEF MoveSeen
<1>3. CASE UNCHANGED allVars
  BY <1>3 DEF allVars, clientVars
<1> QED
  BY <1>1, <1>2, <1>3
     DEF ClientNext, AddPod, UpdatePod, DeletePod, WaitToTake, Fail, Succeed, NominatePod,
         RequestMove, FlushBackoff, FlushUnschedulable, QueueTick, CloseQueue, clientVars

\* A step requests a move and every attempt sees it, or starts an attempt, or
\* leaves the two counters alone and at most ends an attempt.
LEMMA Remembered ==
    ASSUME ClientInv, [ClientNext]_allVars
    PROVE  AttemptsBegun' /\ MoveIsRemembered'
<1> USE DEF ClientInv, AttemptsBegun, MoveIsRemembered
<1>1. /\ attempts \in SUBSET Attempt
      /\ schedulingCycle \in Nat
      /\ moveRequestCycle \in Int
      /\ moveRequestCycle <= schedulingCycle
  BY DEF QueueInv, QueueTypeOK, ClientTypeOK, RequestInPast
<1>2. ASSUME MoveSeen, moveRequestCycle' = schedulingCycle, UNCHANGED schedulingCycle
      PROVE  AttemptsBegun' /\ MoveIsRemembered'
  BY <1>1, <1>2 DEF MoveSeen, Attempt
<1>3. ASSUME NEW p \in Pod, TakePod(p)
      PROVE  AttemptsBegun' /\ MoveIsRemembered'
  BY <1>1, <1>3 DEF TakePod, Pop, Attempt
<1>4. ASSUME attempts' \subseteq attempts, UNCHANGED <<schedulingCycle, moveRequestCycle>>
      PROVE  AttemptsBegun' /\ MoveIsRemembered'
  BY <1>4
<1>5. CASE RequestMove \/ FlushUnschedulable
  BY <1>2, <1>5
     DEF RequestMove, FlushUnschedulable, flushUnschedulableQLeftover, AssignedPodAdded,
         AssignedPodUpdated, MoveAllToActiveOrBackoffQueue, movePodsToActiveOrBackoffQueue
<1>6. CASE \E a \in attempts :
              \/ Succeed(a)
              \/ \E pl \in SUBSET Plugin, n \in Node \cup {NoNode} : Fail(a, pl, n)
  BY <1>4, <1>6 DEF Succeed, Fail, AddUnschedulableIfNotPresent, queueVars
<1>7. CASE \E p \in Pod, n \in Node \cup {NoNode} :
              AddPod(p, n) \/ \E updated \in BOOLEAN : UpdatePod(p, n, updated)
  BY <1>4, <1>7 DEF AddPod, UpdatePod, Add, Update
<1>8. CASE \E p \in Pod : DeletePod(p) \/ QueueTick(p)
  BY <1>4, <1>8 DEF DeletePod, QueueTick, Delete, BackoffCompletes, BecomesLeftover, clientVars
<1>9. CASE (\E p \in Pod, n \in Node : NominatePod(p, n)) \/ WaitToTake \/ FlushBackoff \/ CloseQueue
  BY <1>4, <1>9 DEF NominatePod, WaitToTake, FlushBackoff, CloseQueue, PopWait,
                    flushBackoffQCompleted, Close, clientVars
<1>10. CASE UNCHANGED allVars
  BY <1>4, <1>10 DEF allVars, queueVars, clientVars
<1> QED
  BY <1>3, <1>5, <1>6, <1>7, <1>8, <1>9, <1>10 DEF ClientNext

\* The inductive invariant of the queue and its clients.
LEMMA ClientInvariant == ClientSpec => []ClientInv
<1>1. ASSUME ClientInit
      PROVE  ClientInv
  <2>1. QueueInv
    BY <1>1, InitialQueue DEF ClientInit
  <2> QED
    BY <1>1, <2>1 DEF ClientInit, ClientInv, ClientTypeOK, AttemptsBegun, MoveIsRemembered
<1>2. ASSUME ClientInv, [ClientNext]_allVars
      PROVE  ClientInv'
  <2>1. QueueInv'
    BY <1>2, ClientSteps, StepKeeps DEF ClientInv
  <2>2. ClientTypeOK'
    BY <1>2, ClientTypes DEF ClientInv, QueueInv
  <2>3. AttemptsBegun' /\ MoveIsRemembered'
    BY <1>2, Remembered
  <2> QED
    BY <2>1, <2>2, <2>3 DEF ClientInv
<1> QED
  BY <1>1, <1>2, PTL DEF ClientSpec

\* Type correctness of the queue and of the attempts under way.
THEOREM QueueTypeCorrect == ClientSpec => []SchedulingQueueTypeOK
<1>1. ClientInv => SchedulingQueueTypeOK
  BY DEF ClientInv, QueueInv, ClientTypeOK, SchedulingQueueTypeOK
<1> QED
  BY <1>1, ClientInvariant, PTL

\* A pod is in at most one sub-queue, however its attempts, updates, deletion
\* and the flushes interleave.
THEOREM OneSubqueue == ClientSpec => []SubqueuesDisjoint
<1>1. ClientInv => SubqueuesDisjoint
  BY DEF ClientInv, QueueInv
<1> QED
  BY <1>1, ClientInvariant, PTL

\* The scheduling loop never sleeps while a pod is in activeQ.
THEOREM LoopAwake == ClientSpec => []PopNotAsleep
<1>1. ClientInv => PopNotAsleep
  BY DEF ClientInv, QueueInv
<1> QED
  BY <1>1, ClientInvariant, PTL

\* A pod reserves at most one node, and the nominator's two maps agree.
THEOREM Reservations == ClientSpec => []NominatorConsistent
<1>1. ClientInv => NominatorConsistent
  BY DEF ClientInv, QueueInv
<1> QED
  BY <1>1, ClientInvariant, PTL

\* moveRequestCycle tells, for any number of attempts at once, which of them a
\* move request overtook.
THEOREM RequestsRemembered == ClientSpec => []MoveIsRemembered
<1>1. ClientInv => MoveIsRemembered
  BY DEF ClientInv
<1> QED
  BY <1>1, ClientInvariant, PTL

\* Only the reservation of the pod at hand changes, to the node nominated if any
\* is, and UpdateNominatedPod keeps one that neither object shows.
LEMMA ReservedAfter ==
    ASSUME NEW nom \in Nominator, Consistent(nom), NEW p \in Pod, NEW q \in Pod,
           NEW nodeName \in Names, NEW fallback \in Names
    PROVE  /\ q # p => nominatedDelete(nom, p).node[q] = nom.node[q]
           /\ q # p => nominatedAdd(nom, p, nodeName, fallback).node[q] = nom.node[q]
           /\ nodeName # NoNode \/ fallback # NoNode =>
                 nominatedAdd(nom, p, nodeName, fallback).node[p] # NoNode
<1> DEFINE nnn == IF nodeName # NoNode THEN nodeName ELSE fallback
           del == nominatedDelete(nom, p)
           add == nominatedAdd(nom, p, nodeName, fallback)
<1>1. del \in Nominator
  BY DeleteKeepsConsistent
<1>2. q # p => del.node[q] = nom.node[q]
  BY DEF nominatedDelete, Nominator
<1>3. add = IF nnn = NoNode THEN del
            ELSE [pods |-> [del.pods EXCEPT ![nnn] = @ \cup {p}],
                  node |-> [del.node EXCEPT ![p] = nnn]]
  BY DEF nominatedAdd
<1>4. nodeName # NoNode \/ fallback # NoNode => nnn # NoNode
  OBVIOUS
<1> HIDE DEF nnn, del, add
<1>5. add.node[q] = del.node[q] \/ q = p
  BY <1>1, <1>3 DEF Nominator
<1>6. nnn # NoNode => add.node[p] = nnn
  BY <1>1, <1>3 DEF Nominator
<1> QED
  BY <1>2, <1>4, <1>5, <1>6 DEF del, add

LEMMA UpdateReserves ==
    ASSUME NEW nom \in Nominator, Consistent(nom), NEW p \in Pod, NEW q \in Pod,
           NEW old \in Names, NEW new \in Names
    PROVE  /\ q # p => UpdateNominatedPod(nom, p, old, new).node[q] = nom.node[q]
           /\ old = new /\ nom.node[p] # NoNode =>
                 UpdateNominatedPod(nom, p, old, new).node[p] # NoNode
<1> DEFINE del == nominatedDelete(nom, p)
           name == IF old = NoNode /\ new = NoNode THEN nom.node[p] ELSE NoNode
<1>1. del \in Nominator /\ Consistent(del)
  BY DeleteKeepsConsistent
<1>2. name \in Names
  BY DEF Nominator, Names
<1>3. UpdateNominatedPod(nom, p, old, new) = nominatedAdd(del, p, name, new)
  BY DEF UpdateNominatedPod
<1>4. q # p => del.node[q] = nom.node[q]
  BY <1>2, ReservedAfter
<1>5. old = new /\ nom.node[p] # NoNode => name # NoNode \/ new # NoNode
  OBVIOUS
<1> HIDE DEF del, name
<1>6. /\ q # p => nominatedAdd(del, p, name, new).node[q] = del.node[q]
      /\ name # NoNode \/ new # NoNode => nominatedAdd(del, p, name, new).node[p] # NoNode
  BY <1>1, <1>2, ReservedAfter
<1> QED
  BY <1>3, <1>4, <1>5, <1>6

\* A reservation is lost for a reason ReservationKept names.
GivesUp(p) ==
    p \in Queued /\ nominator.node[p] # NoNode /\ nominator'.node[p] = NoNode =>
        \/ known'[p] # known[p]
        \/ status'[p] # status[p]
        \/ \E a \in attempts \ attempts' : a.pod = p

LEMMA Kept ==
    ASSUME ClientInv, [ClientNext]_allVars, NEW q \in Pod
    PROVE  GivesUp(q)
<1>1. nominator \in Nominator /\ Consistent(nominator)
  BY DEF ClientInv, QueueInv, QueueTypeOK, Nominator, Names, NominatorConsistent, Consistent
<1>2. NoNode \in Names /\ Node \subseteq Names /\ \A p \in Pod : status[p] \in Names
  BY DEF ClientInv, ClientTypeOK, Names
<1>3. ASSUME NEW p \in Pod, NEW n \in Names, AddPod(p, n)
      PROVE  GivesUp(q)
  <2>1. known'[p] # known[p]
    BY <1>3 DEF AddPod, ClientInv, ClientTypeOK
  <2>2. q # p => nominator'.node[q] = nominator.node[q]
    BY <1>1, <1>2, <1>3, ReservedAfter DEF AddPod, Add, AddNominatedPod
  <2> QED
    BY <2>1, <2>2 DEF GivesUp
<1>4. ASSUME NEW p \in Pod, NEW n \in Names, NEW updated \in BOOLEAN, UpdatePod(p, n, updated)
      PROVE  GivesUp(q)
  <2>1. status'[p] = n
    BY <1>4 DEF UpdatePod, ClientInv, ClientTypeOK
  <2>2. CASE p \in Queued
    <3>1. nominator' = UpdateNominatedPod(nominator, p, status[p], n)
      BY <1>4, <2>2 DEF UpdatePod, Update, Queued
    <3>2. /\ q # p => nominator'.node[q] = nominator.node[q]
          /\ status[p] = n /\ nominator.node[p] # NoNode => nominator'.node[p] # NoNode
      BY <1>1, <1>2, <1>4, <3>1, UpdateReserves
    <3> QED
      BY <2>1, <3>2 DEF GivesUp
  <2>3. CASE p \notin Queued
    <3>1. nominator' = nominatedAdd(nominator, p, NoNode, n)
      BY <1>4, <2>3 DEF UpdatePod, Update, Queued, AddNominatedPod
    <3>2. q # p => nominator'.node[q] = nominator.node[q]
      BY <1>1, <1>2, <1>4, <3>1, ReservedAfter
    <3> QED
      BY <2>3, <3>2 DEF GivesUp
  <2> QED
    BY <2>2, <2>3
<1>5. ASSUME NEW p \in Pod, DeletePod(p)
      PROVE  GivesUp(q)
  <2>1. known'[p] # known[p]
    BY <1>5 DEF DeletePod, ClientInv, ClientTypeOK
  <2>2. q # p => nominator'.node[q] = nominator.node[q]
    BY <1>1, <1>2, <1>5, ReservedAfter DEF DeletePod, Delete, DeleteNominatedPodIfExists
  <2> QED
    BY <2>1, <2>2 DEF GivesUp
<1>6. ASSUME NEW a \in attempts, attempts' = attempts \ {a},
             \/ nominator' = nominatedDelete(nominator, a.pod)
             \/ \E n \in Names : nominator' = nominatedAdd(nominator, a.pod, NoNode, n)
             \/ UNCHANGED nominator
      PROVE  GivesUp(q)
  <2>1. a.pod \in Pod
    BY DEF ClientInv, ClientTypeOK, Attempt
  <2>2. q # a.pod => nominator'.node[q] = nominator.node[q]
    BY <1>1, <1>2, <1>6, <2>1, ReservedAfter
  <2> QED
    BY <1>6, <2>2 DEF GivesUp
<1>7. ASSUME NEW a \in attempts, Succeed(a)
      PROVE  GivesUp(q)
  BY <1>6, <1>7 DEF Succeed, DeleteNominatedPodIfExists
<1>8. ASSUME NEW a \in attempts, NEW pl, NEW n \in Names, Fail(a, pl, n)
      PROVE  GivesUp(q)
  BY <1>6, <1>8 DEF Fail, AddUnschedulableIfNotPresent, AddNominatedPod, queueVars
<1>9. ASSUME NEW p \in Pod, NEW n \in Node, NominatePod(p, n)
      PROVE  GivesUp(q)
  <2>1. nominator' = nominatedAdd(nominator, p, n, status[p]) /\ n # NoNode
    BY <1>9, QueueAssumption DEF NominatePod, AddNominatedPod
  <2>2. /\ q # p => nominator'.node[q] = nominator.node[q]
        /\ nominator'.node[p] # NoNode
    BY <1>1, <1>2, <2>1, ReservedAfter
  <2> QED
    BY <2>2 DEF GivesUp
<1>10. ASSUME UNCHANGED nominator
       PROVE  GivesUp(q)
  BY <1>10 DEF GivesUp
<1>11. ASSUME NEW p \in Pod, TakePod(p) \/ QueueTick(p)
       PROVE  UNCHANGED nominator
  BY <1>11 DEF TakePod, Pop, QueueTick, BackoffCompletes, BecomesLeftover
<1>12. ASSUME WaitToTake \/ RequestMove \/ FlushBackoff \/ FlushUnschedulable \/ CloseQueue
       PROVE  UNCHANGED nominator
  BY <1>12 DEF WaitToTake, PopWait, RequestMove, MoveAllToActiveOrBackoffQueue,
               AssignedPodAdded, AssignedPodUpdated, movePodsToActiveOrBackoffQueue,
               FlushBackoff, flushBackoffQCompleted, FlushUnschedulable,
               flushUnschedulableQLeftover, CloseQueue, Close
<1>13. CASE UNCHANGED allVars
  BY <1>10, <1>13 DEF allVars, queueVars
<1>14. CASE ClientNext
  BY <1>3, <1>4, <1>5, <1>7, <1>8, <1>9, <1>10, <1>11, <1>12, <1>14 DEF ClientNext, Names
<1> QED
  BY <1>13, <1>14

\* A reservation made in memory is given up only for the pod's own sake
\* (UpdateNominatedPod, scheduling_queue.go:812-833), for any pods and nodes.
THEOREM ReservationsKept == ClientSpec => ReservationKept
<1>1. ASSUME ClientInv, [ClientNext]_allVars
      PROVE  [\A p \in Pod :
                p \in Queued /\ nominator.node[p] # NoNode /\ nominator'.node[p] = NoNode =>
                    \/ known'[p] # known[p]
                    \/ status'[p] # status[p]
                    \/ \E a \in attempts \ attempts' : a.pod = p]_allVars
  BY <1>1, Kept DEF GivesUp
<1> QED
  BY <1>1, ClientInvariant, PTL DEF ClientSpec, ReservationKept

\* The clients are clients of the queue: its specification holds of theirs.
THEOREM ImplementsQueue == ClientSpec => QueueSpec
<1>1. ClientInit => QueueInit
  BY DEF ClientInit
<1>2. ClientInv /\ [ClientNext]_allVars => [QueueStep]_queueVars
  BY ClientSteps DEF ClientInv
<1> QED
  BY <1>1, <1>2, ClientInvariant, PTL DEF ClientSpec, QueueSpec

-----------------------------------------------------------------------------
(***************************************************************************)
(* The scheduler.  Its three invariants hold together or not at all.  A    *)
(* pod the loop skips because it is assumed is not lost because whoever    *)
(* assumed it still has it (AssumedHeld); nobody else can assume it        *)
(* because that assumption stays until its owner forgets it (OwnersKeep,   *)
(* OwnersAlone); and the room a node had when it was chosen is still there *)
(* when the pod is assumed because only the loop takes room: the           *)
(* informer's pods are those that the cache already counts                 *)
(* (BoundIsCounted).                                                       *)
(***************************************************************************)
Stage == {"idle", "popped", "chosen", "assumed", "bind", "bound", "refused", "forget",
          "lookup", "requeue", "nominate", "patch"}

Ver == [node : Node \cup {Pending, Gone}, nnn : Names]

ActorState ==
    [stage : Stage, pod : Pod \cup {NoNode}, node : Names, pl : SUBSET Plugin,
     error : BOOLEAN, nnn : Names, cycle : Nat, moved : BOOLEAN]

\* Every variable has its type; a sequence of versions is never empty.
TypeOK ==
    /\ QueueInv
    /\ versions \in [Pod -> Seq(Ver)] /\ \A p \in Pod : Len(versions[p]) >= 1
    /\ storeAt \in [Pod -> Nat] /\ queueAt \in [Pod -> Nat] /\ cacheAt \in [Pod -> Nat]
    /\ where \in [Pod -> Names] /\ assumed \in SUBSET Pod /\ finished \in SUBSET assumed
    /\ act \in [Actor -> ActorState]

\* A pod is pending, then perhaps on one node, then perhaps gone for good.
History ==
    \A p \in Pod : \A i, j \in 1..Len(versions[p]) : i <= j =>
        /\ versions[p][i].node # Pending => versions[p][j].node # Pending
        /\ versions[p][i].node \in Node =>
              versions[p][j].node \in {versions[p][i].node, Gone}
        /\ versions[p][i].node = Gone => j = i

\* The informer follows the API server, and the handlers the informer.  The
\* handler for the cache lags only once there is an assigned version.
Progress ==
    \A p \in Pod :
        /\ queueAt[p] <= storeAt[p] /\ cacheAt[p] <= storeAt[p]
        /\ storeAt[p] <= Len(versions[p])
        /\ cacheAt[p] < storeAt[p] =>
              \E i \in 1..cacheAt[p] + 1 : versions[p][i].node \in Node

\* The actors: the stages each may be in, and what they know of their pod.
Acting ==
    \A x \in Actor : act[x].stage # "idle" =>
        /\ act[x].pod \in Pod /\ storeAt[act[x].pod] >= 1
        /\ act[x].stage \in {"chosen", "assumed", "bind", "bound", "refused", "forget"}
              => act[x].node \in Node
        /\ act[x].stage \in {"popped", "chosen", "assumed"} => x = Loop
        /\ act[x].stage \in {"bind", "bound", "refused"} => x # Loop
        /\ act[x].stage = "bound" => API(act[x].pod).node # Pending

\* x has assumed p and has not forgotten it.
Owns(x, p) ==
    act[x].pod = p /\ act[x].stage \in {"assumed", "bind", "refused", "forget"}

\* Somebody still answers for a pending pod that is assumed.
AssumedHeld ==
    \A p \in assumed : /\ where[p] # NoNode
                       /\ API(p).node = Pending =>
                             \E x \in Actor : Owns(x, p) /\ act[x].node = where[p]

\* The assumption of a pending pod stays as long as its owner has it.
OwnersKeep ==
    "slowForget" \in Faults \/ \A x \in Actor, p \in Pod :
        Owns(x, p) /\ API(p).node = Pending =>
            /\ p \in assumed /\ where[p] = act[x].node
            /\ act[x].stage # "forget" => p \notin finished

\* A pending pod has one owner.
OwnersAlone ==
    "slowForget" \in Faults \/ \A x, y \in Actor, p \in Pod :
        Owns(x, p) /\ Owns(y, p) /\ API(p).node = Pending => x = y

\* The API server has bound p to n, and the cache has not heard of its deletion.
Bound(p, n) ==
    /\ \E i \in 1..Len(versions[p]) : versions[p][i].node = n
    /\ ~(cacheAt[p] >= 1 /\ versions[p][cacheAt[p]].node = Gone)

\* A bound pod is counted on its node from the binding to the report of its
\* deletion, confirmed by the informer or not.
BoundIsCounted ==
    Faults = {} => \A p \in Pod, n \in Node : Bound(p, n) => where[p] = n

\* Whoever may still forget a pod has one that is not bound: forgetting it
\* frees no room that is taken.
OwnersUnbound ==
    Faults = {} => \A x \in Actor, p \in Pod : Owns(x, p) => \A n \in Node : ~Bound(p, n)

\* The cache fits, and the node the loop has chosen still has room for its pod.
RoomLeft ==
    Faults = {} =>
        /\ \A n \in Node : Cardinality(Cache!PodsOn(n)) <= Capacity
        /\ At(Loop, "chosen") =>
              Cardinality(Cache!PodsOn(act[Loop].node) \ {act[Loop].pod}) < Capacity

\* A move request since the loop's pod was popped was made in the pod's cycle.
LoopHeard == At(Loop, "idle") \/ ~act[Loop].moved \/ moveRequestCycle >= schedulingCycle

\* The inductive invariant.
IInv ==
    /\ TypeOK /\ History /\ Progress /\ Acting /\ AssumedHeld /\ NoPodLost
    /\ OwnersKeep /\ OwnersAlone /\ BoundIsCounted /\ OwnersUnbound /\ RoomLeft /\ LoopHeard
-----------------------------------------------------------------------------
(***************************************************************************)
(* What each step does to the actors.                                      *)
(***************************************************************************)
\* Only x changes: it is in stage s with pod p and node n.
Becomes(x, s, p, n) ==
    /\ act' \in [Actor -> ActorState]
    /\ \A y \in Actor : y # x => act'[y] = act[y]
    /\ act'[x].stage = s /\ act'[x].pod = p /\ act'[x].node = n
    /\ act'[x].moved => act[x].moved

\* Idle is the state of an actor.
LEMMA IdleType == Idle \in ActorState
<1> DEFINE zero == 0
<1>1. zero \in Nat
  OBVIOUS
<1> HIDE DEF zero
<1>2. Idle = [stage |-> "idle", pod |-> NoNode, node |-> NoNode, pl |-> {}, error |-> FALSE,
              nnn |-> NoNode, cycle |-> zero, moved |-> FALSE]
  BY DEF Idle, zero
<1> QED
  BY <1>1, <1>2 DEF ActorState, Stage, Names

\* What Idle says.
LEMMA IdleFields ==
    /\ Idle.stage = "idle" /\ Idle.pod = NoNode /\ Idle.node = NoNode /\ Idle.moved = FALSE
  BY DEF Idle

\* The loop is no binding goroutine.
LEMMA LoopActor == Loop \in Actor /\ Binder \subseteq Actor /\ Loop \notin Binder
  BY SchedulerAssumption DEF Actor

\* Replacing the state of one actor.
LEMMA Replace ==
    ASSUME TypeOK, NEW x \in Actor, NEW s \in ActorState, act' = [act EXCEPT ![x] = s],
           s.moved => act[x].moved
    PROVE  Becomes(x, s.stage, s.pod, s.node) /\ act'[x] = s
  BY DEF TypeOK, Becomes

\* A Pop: the loop has a new attempt, and no move request is in it.
LEMMA NextPodAct ==
    ASSUME TypeOK, Progress, NEW p \in Pod, NextPod(p)
    PROVE  /\ Becomes(Loop, "popped", p, NoNode)
           /\ ~act'[Loop].moved /\ storeAt[p] >= 1
<1>1. PICK i \in 1..storeAt[p] :
          act' = [act EXCEPT ![Loop] = [Idle EXCEPT !.stage = "popped", !.pod = p,
                                          !.pl = plugins[p], !.nnn = versions[p][i].nnn]]
  BY DEF NextPod
<1>2. versions[p][i].nnn \in Names /\ storeAt[p] >= 1
  <2>1. storeAt[p] \in Nat /\ storeAt[p] <= Len(versions[p])
    BY DEF TypeOK, Progress
  <2>2. versions[p] \in Seq(Ver)
    BY DEF TypeOK
  <2>3. i \in 1..Len(versions[p])
    BY <2>1, <2>2
  <2>4. versions[p][i] \in Ver
    BY <2>2, <2>3
  <2> QED
    BY <2>1, <2>4 DEF Ver
<1>3. plugins[p] \in SUBSET Plugin
  BY DEF TypeOK, QueueInv, QueueTypeOK
<1> DEFINE s == [Idle EXCEPT !.stage = "popped", !.pod = p, !.pl = plugins[p],
                             !.nnn = versions[p][i].nnn]
<1>4. s \in ActorState
  BY <1>2, <1>3, IdleType DEF ActorState, Stage
<1>5. s.stage = "popped" /\ s.pod = p /\ s.node = NoNode /\ s.moved = FALSE
  BY IdleType, IdleFields DEF ActorState
<1> HIDE DEF s
<1>6. act' = [act EXCEPT ![Loop] = s]
  BY <1>1 DEF s
<1> QED
  BY <1>2, <1>4, <1>5, <1>6, Replace, LoopActor

\* The outcomes of Schedule: skipped, a node, no fit, an error.
LEMMA LoopActs ==
    ASSUME TypeOK
    PROVE  /\ SkipPod => Becomes(Loop, "idle", NoNode, NoNode)
           /\ \A n \in Node : Schedule(n) => Becomes(Loop, "chosen", act[Loop].pod, n)
           /\ \A pl \in SUBSET Plugin, n \in Names :
                 NoFit(pl, n) => Becomes(Loop, "lookup", act[Loop].pod, n)
           /\ ScheduleError => Becomes(Loop, "lookup", act[Loop].pod, act[Loop].node)
<1> USE LoopActor
<1>1. ASSUME SkipPod PROVE Becomes(Loop, "idle", NoNode, NoNode)
  BY <1>1, Replace, IdleType, IdleFields DEF SkipPod
<1>2. ASSUME NEW n \in Node, Schedule(n) PROVE Becomes(Loop, "chosen", act[Loop].pod, n)
  <2> DEFINE s == [act[Loop] EXCEPT !.stage = "chosen", !.node = n]
  <2>1. act[Loop] \in ActorState /\ act' = [act EXCEPT ![Loop] = s]
    BY <1>2 DEF Schedule, TypeOK
  <2>2. s \in ActorState
    BY <2>1 DEF ActorState, Stage, Names
  <2>3. s.stage = "chosen" /\ s.pod = act[Loop].pod /\ s.node = n /\ s.moved = act[Loop].moved
    BY <2>1 DEF ActorState
  <2> HIDE DEF s
  <2> QED
    BY <2>1, <2>2, <2>3, Replace
<1>3. ASSUME NEW pl \in SUBSET Plugin, NEW n \in Names, NoFit(pl, n)
      PROVE  Becomes(Loop, "lookup", act[Loop].pod, n)
  <2> DEFINE s == [act[Loop] EXCEPT !.stage = "lookup", !.node = n, !.pl = pl]
  <2>1. act[Loop] \in ActorState /\ act' = [act EXCEPT ![Loop] = s]
    BY <1>3 DEF NoFit, TypeOK
  <2>2. s \in ActorState
    BY <2>1 DEF ActorState, Stage
  <2>3. s.stage = "lookup" /\ s.pod = act[Loop].pod /\ s.node = n /\ s.moved = act[Loop].moved
    BY <2>1 DEF ActorState
  <2> HIDE DEF s
  <2> QED
    BY <2>1, <2>2, <2>3, Replace
<1>4. ASSUME ScheduleError PROVE Becomes(Loop, "lookup", act[Loop].pod, act[Loop].node)
  <2> DEFINE s == [act[Loop] EXCEPT !.stage = "lookup", !.error = TRUE]
  <2>1. act[Loop] \in ActorState /\ act' = [act EXCEPT ![Loop] = s]
    BY <1>4 DEF ScheduleError, TypeOK
  <2>2. s \in ActorState
    BY <2>1 DEF ActorState, Stage
  <2>3. /\ s.stage = "lookup" /\ s.pod = act[Loop].pod /\ s.node = act[Loop].node
        /\ s.moved = act[Loop].moved
    BY <2>1 DEF ActorState
  <2> HIDE DEF s
  <2> QED
    BY <2>1, <2>2, <2>3, Replace
<1> QED
  BY <1>1, <1>2, <1>3, <1>4
\* A step that only changes the stage.
LEMMA GoesAct ==
    ASSUME TypeOK, NEW x \in Actor, NEW st \in Stage, Goes(x, st)
    PROVE  Becomes(x, st, act[x].pod, act[x].node)
<1> DEFINE s == [act[x] EXCEPT !.stage = st]
<1>1. act[x] \in ActorState /\ act' = [act EXCEPT ![x] = s]
  BY DEF Goes, TypeOK
<1>2. s \in ActorState
  BY <1>1 DEF ActorState
<1>3. s.stage = st /\ s.pod = act[x].pod /\ s.node = act[x].node /\ s.moved = act[x].moved
  BY <1>1 DEF ActorState
<1> HIDE DEF s
<1> QED
  BY <1>1, <1>2, <1>3, Replace

\* assume succeeds exactly for a pod that is not in the cache.
LEMMA AssumeAct ==
    ASSUME TypeOK, Assume
    PROVE  \/ /\ where[act[Loop].pod] = NoNode
              /\ Becomes(Loop, "assumed", act[Loop].pod, act[Loop].node)
              /\ Cache!Assume(act[Loop].pod, act[Loop].node) /\ UNCHANGED finished
           \/ /\ where[act[Loop].pod] # NoNode
              /\ Becomes(Loop, "lookup", act[Loop].pod, NoNode)
              /\ UNCHANGED cacheVars
<1> USE LoopActor
<1>0. act[Loop] \in ActorState
  BY DEF TypeOK
<1>1. CASE where[act[Loop].pod] = NoNode
  <2> DEFINE s == [act[Loop] EXCEPT !.stage = "assumed", !.pl = {}]
  <2>1. act' = [act EXCEPT ![Loop] = s]
    BY <1>0, <1>1 DEF Assume, Copied, TypeOK
  <2>2. s \in ActorState
    BY <1>0 DEF ActorState, Stage
  <2>3. /\ s.stage = "assumed" /\ s.pod = act[Loop].pod /\ s.node = act[Loop].node
        /\ s.moved = act[Loop].moved
    BY <1>0 DEF ActorState
  <2> HIDE DEF s
  <2>4. Becomes(Loop, "assumed", act[Loop].pod, act[Loop].node)
    BY <2>1, <2>2, <2>3, Replace
  <2> QED
    BY <1>1, <2>4 DEF Assume
<1>2. CASE where[act[Loop].pod] # NoNode
  <2> DEFINE s == [[act[Loop] EXCEPT !.stage = "lookup", !.pl = {}]
                     EXCEPT !.error = TRUE, !.node = NoNode]
  <2>1. act' = [act EXCEPT ![Loop] = s]
    BY <1>0, <1>2 DEF Assume, Copied, TypeOK
  <2>2. s \in ActorState
    BY <1>0 DEF ActorState, Stage, Names
  <2>3. /\ s.stage = "lookup" /\ s.pod = act[Loop].pod /\ s.node = NoNode
        /\ s.moved = act[Loop].moved
    BY <1>0 DEF ActorState
  <2> HIDE DEF s
  <2>4. Becomes(Loop, "lookup", act[Loop].pod, NoNode)
    BY <2>1, <2>2, <2>3, Replace
  <2> QED
    BY <1>2, <2>4 DEF Assume, cacheVars
<1> QED
  BY <1>1, <1>2

\* The loop hands its pod to a goroutine.
LEMMA StartBindingAct ==
    ASSUME TypeOK, NEW b \in Binder, StartBinding(b)
    PROVE  /\ act' \in [Actor -> ActorState]
           /\ \A y \in Actor : y # b /\ y # Loop => act'[y] = act[y]
           /\ act'[Loop] = Idle
           /\ act'[b].stage = "bind" /\ act'[b].pod = act[Loop].pod
           /\ act'[b].node = act[Loop].node
<1> USE LoopActor
<1> DEFINE s == [act[Loop] EXCEPT !.stage = "bind"]
<1>1. act[Loop] \in ActorState /\ b \in Actor /\ b # Loop
  BY DEF TypeOK
<1>2. s \in ActorState /\ s.stage = "bind" /\ s.pod = act[Loop].pod /\ s.node = act[Loop].node
  BY <1>1 DEF ActorState, Stage
<1>3. act' = [act EXCEPT ![Loop] = Idle, ![b] = s]
  BY DEF StartBinding
<1> HIDE DEF s
<1>4. /\ act' \in [Actor -> ActorState]
      /\ \A y \in Actor : y # b /\ y # Loop => act'[y] = act[y]
      /\ act'[Loop] = Idle /\ act'[b] = s
  BY <1>1, <1>2, <1>3, IdleType DEF TypeOK
<1> QED
  BY <1>2, <1>4

\* The failure path and the end of an attempt.
LEMMA ActorActs ==
    ASSUME TypeOK, NEW x \in Actor
    PROVE  /\ PluginFails(x) => Becomes(x, "forget", act[x].pod, act[x].node)
           /\ FinishBinding(x) =>
                 \/ At(x, "bound") /\ Becomes(x, "idle", NoNode, NoNode)
                 \/ At(x, "refused") /\ Becomes(x, "forget", act[x].pod, act[x].node)
           /\ ForgetPod(x) => Becomes(x, "lookup", act[x].pod, NoNode)
           /\ Nominate(x) => Becomes(x, "patch", act[x].pod, act[x].node)
           /\ Patch(x) => Becomes(x, "idle", NoNode, NoNode)
<1>0. act[x] \in ActorState
  BY DEF TypeOK
<1>1. ASSUME PluginFails(x) PROVE Becomes(x, "forget", act[x].pod, act[x].node)
  BY <1>1, GoesAct DEF PluginFails, Stage
<1>2. ASSUME FinishBinding(x)
      PROVE  \/ At(x, "bound") /\ Becomes(x, "idle", NoNode, NoNode)
             \/ At(x, "refused") /\ Becomes(x, "forget", act[x].pod, act[x].node)
  <2>1. CASE At(x, "bound")
    <3>1. act' = [act EXCEPT ![x] = Idle]
      BY <1>2, <2>1 DEF FinishBinding, At
    <3> QED
      BY <2>1, <3>1, Replace, IdleType, IdleFields
  <2>2. CASE At(x, "refused")
    <3>1. act' = [act EXCEPT ![x] = [@ EXCEPT !.stage = "forget"]]
      BY <1>2, <2>2 DEF FinishBinding, At
    <3>2. Goes(x, "forget")
      BY <3>1 DEF Goes
    <3> QED
      BY <2>2, <3>2, GoesAct DEF Stage
  <2> QED
    BY <1>2, <2>1, <2>2 DEF FinishBinding
<1>3. ASSUME ForgetPod(x) PROVE Becomes(x, "lookup", act[x].pod, NoNode)
  <2> DEFINE s == [act[x] EXCEPT !.stage = "lookup", !.error = TRUE, !.node = NoNode]
  <2>1. act' = [act EXCEPT ![x] = s]
    BY <1>3 DEF ForgetPod, TypeOK
  <2>2. s \in ActorState
    BY <1>0 DEF ActorState, Stage, Names
  <2>3. s.stage = "lookup" /\ s.pod = act[x].pod /\ s.node = NoNode /\ s.moved = act[x].moved
    BY <1>0 DEF ActorState
  <2> HIDE DEF s
  <2> QED
    BY <2>1, <2>2, <2>3, Replace
<1>4. ASSUME Nominate(x) PROVE Becomes(x, "patch", act[x].pod, act[x].node)
  BY <1>4, GoesAct DEF Nominate, Stage
<1>5. ASSUME Patch(x) PROVE Becomes(x, "idle", NoNode, NoNode)
  BY <1>5, Replace, IdleType, IdleFields DEF Patch
<1> QED
  BY <1>1, <1>2, <1>3, <1>4, <1>5

\* The error function puts a pod back only if the lister has it without a node.
LEMMA LookupAct ==
    ASSUME TypeOK, Progress, Acting, NEW x \in Actor, Lookup(x)
    PROVE  /\ storeAt[act[x].pod] \in 1..Len(versions[act[x].pod])
           /\ IF versions[act[x].pod][storeAt[act[x].pod]].node = Pending
              THEN Becomes(x, "requeue", act[x].pod, act[x].node)
              ELSE Becomes(x, "nominate", act[x].pod, act[x].node)
<1> DEFINE p == act[x].pod
           cached == versions[p][storeAt[p]]
<1>0. act[x] \in ActorState
  BY DEF TypeOK
<1>1. p \in Pod /\ storeAt[p] >= 1
  BY DEF Lookup, At, Acting
<1>2. storeAt[p] \in Nat /\ storeAt[p] <= Len(versions[p]) /\ versions[p] \in Seq(Ver)
  BY <1>1 DEF TypeOK, Progress
<1>3. storeAt[p] \in 1..Len(versions[p])
  BY <1>1, <1>2
<1>4. cached.nnn \in Names
  <2>1. versions[p][storeAt[p]] \in Ver
    BY <1>2, <1>3
  <2> QED
    BY <2>1 DEF Ver
<1>5. CASE cached.node = Pending
  <2> DEFINE s == [act[x] EXCEPT !.stage = "requeue", !.nnn = cached.nnn,
                                 !.cycle = schedulingCycle]
  <2>1. act' = [act EXCEPT ![x] = s]
    BY <1>5 DEF Lookup, TypeOK
  <2>2. s \in ActorState
    BY <1>0, <1>4 DEF ActorState, Stage, TypeOK, QueueInv, QueueTypeOK
  <2>3. s.stage = "requeue" /\ s.pod = p /\ s.node = act[x].node /\ s.moved = act[x].moved
    BY <1>0 DEF ActorState
  <2> HIDE DEF s
  <2> QED
    BY <1>3, <1>5, <2>1, <2>2, <2>3, Replace
<1>6. CASE cached.node # Pending
  <2>1. Goes(x, "nominate")
    BY <1>6 DEF Lookup, Goes, TypeOK
  <2> QED
    BY <1>3, <1>6, <2>1, GoesAct DEF Stage
<1> QED
  BY <1>5, <1>6

\* AddUnschedulableIfNotPresent ends the actor's hold on the pod.
LEMMA RequeueAct ==
    ASSUME TypeOK, NEW x \in Actor, Requeue(x)
    PROVE  Becomes(x, "nominate", act[x].pod, act[x].node)
<1> DEFINE zero == 0
           s == [act[x] EXCEPT !.stage = "nominate", !.cycle = zero]
<1>0. act[x] \in ActorState /\ zero \in Nat
  BY DEF TypeOK
<1>1. act' = [act EXCEPT ![x] = s]
  BY DEF Requeue, TypeOK
<1> HIDE DEF zero
<1>2. s \in ActorState
  BY <1>0 DEF ActorState, Stage
<1>3. s.stage = "nominate" /\ s.pod = act[x].pod /\ s.node = act[x].node
      /\ s.moved = act[x].moved
  BY <1>0 DEF ActorState
<1> HIDE DEF s
<1> QED
  BY <1>1, <1>2, <1>3, Replace

\* A move request is seen; nothing else changes.
LEMMA SeenAct ==
    ASSUME TypeOK, act' = Seen(act)
    PROVE  /\ act' \in [Actor -> ActorState]
           /\ \A x \in Actor : /\ act'[x].stage = act[x].stage
                               /\ act'[x].pod = act[x].pod /\ act'[x].node = act[x].node
<1> SUFFICES ASSUME NEW x \in Actor
             PROVE  /\ act'[x] \in ActorState /\ act'[x].stage = act[x].stage
                    /\ act'[x].pod = act[x].pod /\ act'[x].node = act[x].node
  BY DEF Seen
<1> DEFINE m == (act[x].stage # "idle")
<1>1. act'[x] = [act[x] EXCEPT !.moved = m] /\ m \in BOOLEAN /\ act[x] \in ActorState
  BY DEF Seen, TypeOK
<1> HIDE DEF m
<1> QED
  BY <1>1 DEF ActorState
-----------------------------------------------------------------------------
(***************************************************************************)
(* What each step does to the queue.                                       *)
(***************************************************************************)
LEMMA VersionType ==
    ASSUME TypeOK, NEW p \in Pod
    PROVE  /\ versions[p] \in Seq(Ver) /\ Len(versions[p]) \in Nat /\ Len(versions[p]) >= 1
           /\ API(p) \in Ver
           /\ \A i \in 1..Len(versions[p]) : versions[p][i] \in Ver
           /\ \A i \in 0..Len(versions[p]) : Version(p, i).nnn \in Names
<1>1. versions[p] \in Seq(Ver) /\ Len(versions[p]) \in Nat /\ Len(versions[p]) >= 1
  BY DEF TypeOK
<1>2. \A i \in 1..Len(versions[p]) : versions[p][i] \in Ver
  BY <1>1
<1>3. API(p) \in Ver
  BY <1>1, <1>2 DEF API
<1>4. ASSUME NEW i \in 0..Len(versions[p]) PROVE Version(p, i).nnn \in Names
  <2>1. CASE i = 0
    BY <2>1 DEF Version, Names
  <2>2. CASE i # 0
    <3>1. i \in 1..Len(versions[p])
      BY <1>1, <2>2
    <3>2. versions[p][i].nnn \in Names
      BY <1>2, <3>1 DEF Ver
    <3> QED
      BY <2>2, <3>2 DEF Version
  <2> QED
    BY <2>1, <2>2
<1> QED
  BY <1>1, <1>2, <1>3, <1>4

\* Calls a move request has made keep every pod in the queue.
LEMMA MoveEffect ==
    ASSUME QueueInv, NEW P \in SUBSET unschedulableQ, NEW e,
           movePodsToActiveOrBackoffQueue(P, e)
    PROVE  /\ QueueInv' /\ Queued' = Queued
           /\ schedulingCycle' = schedulingCycle /\ moveRequestCycle' = schedulingCycle
<1>1. QueueInv'
  BY MoveKeeps
<1> DEFINE moving == {p \in P : plugins[p] = {} \/ podMatchesEvent(p, e)}
<1>2. /\ podBackoffQ' = podBackoffQ \cup (moving \cap backingOff)
      /\ activeQ' = activeQ \cup (moving \ backingOff)
      /\ unschedulableQ' = unschedulableQ \ moving
      /\ schedulingCycle' = schedulingCycle /\ moveRequestCycle' = schedulingCycle
  BY DEF movePodsToActiveOrBackoffQueue
<1>3. moving \in SUBSET unschedulableQ
  OBVIOUS
<1> HIDE DEF moving
<1> QED
  BY <1>1, <1>2, <1>3 DEF Queued

\* The flushes move pods inside the queue; the one of unschedulableQ is a move
\* request.
LEMMA FlushEffect ==
    ASSUME QueueInv, Flush
    PROVE  /\ QueueInv' /\ Queued' = Queued /\ schedulingCycle' = schedulingCycle
           /\ \/ act' = act /\ moveRequestCycle' = moveRequestCycle
              \/ act' = Seen(act) /\ moveRequestCycle' = schedulingCycle
<1>1. CASE flushBackoffQCompleted /\ UNCHANGED act
  <2>1. QueueInv'
    BY <1>1, StepKeeps DEF QueueStep
  <2>2. /\ Queued' = Queued /\ schedulingCycle' = schedulingCycle
        /\ moveRequestCycle' = moveRequestCycle
    BY <1>1 DEF flushBackoffQCompleted, Queued
  <2> QED
    BY <1>1, <2>1, <2>2
<1>2. CASE flushUnschedulableQLeftover /\ act' = Seen(act)
  <2>1. /\ unschedulableQ \cap leftover \in SUBSET unschedulableQ
        /\ movePodsToActiveOrBackoffQueue(unschedulableQ \cap leftover,
                                          "UnschedulableTimeout")
    BY <1>2 DEF flushUnschedulableQLeftover
  <2> QED
    BY <1>2, <2>1, MoveEffect
<1> QED
  BY <1>1, <1>2 DEF Flush

\* Every handler for assigned pods ends in a move request.
LEMMA CacheHandlerEffect ==
    ASSUME TypeOK, NEW p \in Pod, CacheHandler(p)
    PROVE  /\ QueueInv' /\ Queued' = Queued
           /\ schedulingCycle' = schedulingCycle /\ moveRequestCycle' = schedulingCycle
<1>2. QueueInv
  BY DEF TypeOK
<1>3. CASE MoveAllToActiveOrBackoffQueue("AssignedPodDelete")
  BY <1>2, <1>3, MoveEffect DEF MoveAllToActiveOrBackoffQueue
<1>4. CASE \E P \in SUBSET unschedulableQ : AssignedPodAdded(P) \/ AssignedPodUpdated(P)
  BY <1>2, <1>4, MoveEffect DEF AssignedPodAdded, AssignedPodUpdated
<1> QED
  BY <1>3, <1>4 DEF CacheHandler

\* Whatever the scheduler does to its queue, the queue's own invariants stay.
LEMMA QueueKept ==
    ASSUME TypeOK, Progress, Acting, Next
    PROVE  QueueInv'
<1>0. QueueInv /\ NoNode \in Names
  BY DEF TypeOK, Names
<1>a. ASSUME [QueueStep]_queueVars PROVE QueueInv'
  BY <1>0, <1>a, StepKeeps
<1>1. CASE SkipPod \/ ScheduleError \/ \E n \in Node : Schedule(n)
  BY <1>1, <1>a DEF SkipPod, ScheduleError, Schedule
<1>2. CASE WaitForPod \/ \E p \in Pod : NextPod(p)
  BY <1>0, <1>2, <1>a DEF WaitForPod, NextPod, QueueStep, AttemptStep
<1>3. CASE Assume
  <2>1. act[Loop].pod \in Pod
    BY <1>3, LoopActor DEF Assume, At, Acting
  <2>2. NominateStep \/ UNCHANGED queueVars
    BY <1>0, <1>3, <2>1 DEF Assume, NominateStep, queueVars
  <2> QED
    BY <1>a, <2>2 DEF QueueStep
<1>4. CASE \E pl \in SUBSET Plugin, n \in Node \cup {NoNode} : NoFit(pl, n)
  BY <1>4, <1>a DEF NoFit
<1>5. CASE \E b \in Binder : StartBinding(b) \/ Bind(b) \/ FinishBinding(b)
  BY <1>5, <1>a DEF StartBinding, Bind, FinishBinding
<1>6. CASE \E x \in Actor : PluginFails(x) \/ ForgetPod(x) \/ Lookup(x) \/ Patch(x)
  BY <1>6, <1>a DEF PluginFails, ForgetPod, Lookup, Patch
<1>7. ASSUME NEW x \in Actor, Requeue(x) PROVE QueueInv'
  <2>1. act[x] \in ActorState /\ act[x].pod \in Pod
    BY <1>7 DEF TypeOK, Requeue, At, Acting
  <2>2. PICK cycle \in act[x].cycle..schedulingCycle :
            AddUnschedulableIfNotPresent(act[x].pod, cycle, act[x].pl, act[x].nnn)
    BY <1>7 DEF Requeue
  <2>3. cycle \in Nat /\ act[x].pl \in SUBSET Plugin /\ act[x].nnn \in Names
    BY <1>0, <2>1 DEF ActorState, QueueInv, QueueTypeOK
  <2>4. AttemptStep
    BY <2>1, <2>2, <2>3 DEF AttemptStep
  <2> QED
    BY <1>a, <2>4 DEF QueueStep
<1>8. ASSUME NEW x \in Actor, Nominate(x) PROVE QueueInv'
  <2>1. act[x] \in ActorState /\ act[x].pod \in Pod
    BY <1>8 DEF TypeOK, Nominate, At, Acting
  <2>2. act[x].node \in Names /\ act[x].nnn \in Names
    BY <2>1 DEF ActorState
  <2>3. NominateStep
    BY <1>8, <2>1, <2>2 DEF Nominate, NominateStep
  <2> QED
    BY <1>a, <2>3 DEF QueueStep
<1>9. CASE \E p \in Pod : Expire(p) \/ ChangePod(p) \/ Observe(p)
  BY <1>9, <1>a DEF Expire, ChangePod, Observe
<1>10. ASSUME NEW p \in Pod, QueueHandler(p) PROVE QueueInv'
  <2> DEFINE old == Version(p, queueAt[p])
             new == Version(p, queueAt[p] + 1)
  <2>1. queueAt[p] \in Nat /\ queueAt[p] + 1 <= Len(versions[p])
    BY <1>10 DEF TypeOK, Progress, QueueHandler
  <2>2. old.nnn \in Names /\ new.nnn \in Names
    BY <2>1, VersionType
  <2>3. \/ Add(p, new.nnn)
        \/ \E updated \in BOOLEAN : Update(p, old.nnn, new.nnn, updated)
        \/ Delete(p)
        \/ UNCHANGED queueVars
    BY <1>10 DEF QueueHandler
  <2> HIDE DEF old, new
  <2>4. HandlerStep \/ UNCHANGED queueVars
    BY <2>2, <2>3 DEF HandlerStep
  <2> QED
    BY <1>a, <2>4 DEF QueueStep
<1>11. CASE \E p \in Pod : CacheHandler(p)
  BY <1>11, CacheHandlerEffect
<1>12. ASSUME NEW p \in Pod, Tick(p) PROVE QueueInv'
  BY <1>0, <1>12 DEF Tick, QueueInv, QueueTypeOK, SubqueuesDisjoint, PopNotAsleep,
                     NominatorConsistent, RequestInPast
<1>13. CASE \E e \in Event : ClusterEvent(e)
  BY <1>0, <1>13, MoveEffect DEF ClusterEvent, MoveAllToActiveOrBackoffQueue
<1>14. CASE Flush
  BY <1>0, <1>14, FlushEffect
<1> QED
  BY <1>1, <1>2, <1>3, <1>4, <1>5, <1>6, <1>7, <1>8, <1>9, <1>10, <1>11, <1>12, <1>13,
     <1>14 DEF Next
-----------------------------------------------------------------------------
(***************************************************************************)
(* What each step does to the API server's history of the pods.            *)
(***************************************************************************)
\* A new version v of p, which keeps its node once it has one.
Writes(p, v) ==
    /\ versions' = [versions EXCEPT ![p] = Append(@, v)]
    /\ v \in Ver
    /\ API(p).node # Gone
    /\ API(p).node \in Node => v.node \in {API(p).node, Gone}

\* Who gives a pod a node: a binding goroutine, or another scheduler.
Cause(p, v) ==
    \/ v.node \in {API(p).node, Gone}
    \/ \E b \in Binder : /\ Bind(b) /\ act[b].pod = p /\ v.node = act[b].node
                        /\ API(p).node = Pending
    \/ "otherScheduler" \in Faults

\* Every write keeps a pod's node or is a binding or a deletion, and none
\* follows a deletion.
LEMMA VersionsStep ==
    ASSUME TypeOK, Acting, Next
    PROVE  UNCHANGED versions \/ \E p \in Pod, v \in Ver : Writes(p, v) /\ Cause(p, v)
<1>0. /\ \A p \in Pod : API(p) \in Ver
      /\ Pending # Gone /\ Pending \notin Node /\ Gone \notin Node
  BY VersionType, SchedulerAssumption
<1>1. ASSUME NEW b \in Binder, Bind(b)
      PROVE  UNCHANGED versions \/ \E p \in Pod, v \in Ver : Writes(p, v) /\ Cause(p, v)
  <2> DEFINE p == act[b].pod
             v == [API(p) EXCEPT !.node = act[b].node]
  <2>1. p \in Pod /\ act[b].node \in Node
    BY <1>1, LoopActor DEF Bind, At, Acting
  <2>2. v \in Ver /\ v.node = act[b].node
    BY <1>0, <2>1 DEF Ver
  <2>3. UNCHANGED versions \/ (API(p).node = Pending /\ Write(p, v))
    BY <1>1 DEF Bind
  <2>4. API(p).node = Pending => Cause(p, v)
    BY <1>1, <2>2 DEF Cause
  <2> HIDE DEF p, v
  <2> QED
    BY <1>0, <2>1, <2>2, <2>3, <2>4 DEF Writes, Write
<1>2. ASSUME NEW x \in Actor, Patch(x)
      PROVE  UNCHANGED versions \/ \E p \in Pod, v \in Ver : Writes(p, v) /\ Cause(p, v)
  <2> DEFINE p == act[x].pod
             v == IF act[x].node = NoNode THEN API(p) ELSE [API(p) EXCEPT !.nnn = act[x].node]
  <2>1. p \in Pod
    BY <1>2 DEF Patch, At, Acting
  <2>2. act[x].node \in Names
    BY DEF TypeOK, ActorState
  <2>3. v \in Ver /\ v.node = API(p).node
    BY <1>0, <2>1, <2>2 DEF Ver
  <2>4. UNCHANGED versions \/ (API(p).node # Gone /\ Write(p, v))
    BY <1>2 DEF Patch
  <2> HIDE DEF p, v
  <2> QED
    BY <1>0, <2>1, <2>3, <2>4 DEF Writes, Write, Cause
<1>3. ASSUME NEW p \in Pod, ChangePod(p)
      PROVE  UNCHANGED versions \/ \E q \in Pod, v \in Ver : Writes(q, v) /\ Cause(q, v)
  <2>0. API(p) \in Ver
    BY <1>0
  <2>1. CASE API(p).node # Gone /\ Write(p, [API(p) EXCEPT !.node = Gone])
    <3> DEFINE v == [API(p) EXCEPT !.node = Gone]
    <3>1. v \in Ver /\ v.node = Gone
      BY <2>0 DEF Ver
    <3> QED
      BY <2>1, <3>1 DEF Writes, Write, Cause
  <2>2. ASSUME API(p).node = Pending, NEW nnn \in {API(p).nnn, NoNode},
               Write(p, [API(p) EXCEPT !.nnn = nnn])
        PROVE  \E q \in Pod, v \in Ver : Writes(q, v) /\ Cause(q, v)
    <3> DEFINE v == [API(p) EXCEPT !.nnn = nnn]
    <3>1. v \in Ver /\ v.node = API(p).node
      BY <2>0 DEF Ver, Names
    <3> HIDE DEF v
    <3> QED
      BY <1>0, <2>2, <3>1 DEF Writes, Write, Cause, v
  <2>3. ASSUME "otherScheduler" \in Faults, API(p).node = Pending, NEW n \in Node,
               Write(p, [API(p) EXCEPT !.node = n])
        PROVE  \E q \in Pod, v \in Ver : Writes(q, v) /\ Cause(q, v)
    <3> DEFINE v == [API(p) EXCEPT !.node = n]
    <3>1. v \in Ver
      BY <2>0 DEF Ver
    <3> HIDE DEF v
    <3> QED
      BY <1>0, <2>3, <3>1 DEF Writes, Write, Cause, v
  <2> QED
    BY <1>3, <2>1, <2>2, <2>3 DEF ChangePod
<1>4. CASE WaitForPod \/ SkipPod \/ ScheduleError \/ Assume
  BY <1>4 DEF WaitForPod, SkipPod, ScheduleError, Assume
<1>5. CASE \/ \E p \in Pod : NextPod(p)
           \/ \E n \in Node : Schedule(n)
           \/ \E pl \in SUBSET Plugin, n \in Node \cup {NoNode} : NoFit(pl, n)
  BY <1>5 DEF NextPod, Schedule, NoFit
<1>6. CASE \E b \in Binder : StartBinding(b) \/ FinishBinding(b)
  BY <1>6 DEF StartBinding, FinishBinding
<1>7. CASE \E x \in Actor : PluginFails(x) \/ ForgetPod(x) \/ Lookup(x) \/ Requeue(x)
                              \/ Nominate(x)
  BY <1>7 DEF PluginFails, ForgetPod, Lookup, Requeue, Nominate
<1>8. CASE \E p \in Pod : Expire(p) \/ Observe(p) \/ QueueHandler(p) \/ CacheHandler(p)
                            \/ Tick(p)
  BY <1>8 DEF Expire, Observe, QueueHandler, CacheHandler, Tick
<1>9. CASE Flush \/ \E e \in Event : ClusterEvent(e)
  BY <1>9 DEF Flush, ClusterEvent
<1> QED
  BY <1>1, <1>2, <1>3, <1>4, <1>5, <1>6, <1>7, <1>8, <1>9 DEF Next

\* A history only grows.
Grows ==
    /\ versions' \in [Pod -> Seq(Ver)]
    /\ \A p \in Pod : /\ Len(versions'[p]) \in Nat /\ Len(versions'[p]) >= Len(versions[p])
                      /\ \A i \in 1..Len(versions[p]) : versions'[p][i] = versions[p][i]
                      /\ API(p)'.node = Pending => API(p).node = Pending

\* A write appends one version.
LEMMA WriteEffect ==
    ASSUME TypeOK, NEW p \in Pod, NEW v \in Ver, Writes(p, v)
    PROVE  /\ versions' \in [Pod -> Seq(Ver)]
           /\ \A q \in Pod : q # p => versions'[q] = versions[q]
           /\ Len(versions'[p]) = Len(versions[p]) + 1
           /\ \A i \in 1..Len(versions[p]) : versions'[p][i] = versions[p][i]
           /\ versions'[p][Len(versions[p]) + 1] = v /\ API(p)' = v
<1>1. versions[p] \in Seq(Ver)
  BY DEF TypeOK
<1>2. versions'[p] = Append(versions[p], v)
  BY DEF TypeOK, Writes
<1>3. Append(versions[p], v) \in Seq(Ver)
  BY <1>1
<1>4. /\ versions' \in [Pod -> Seq(Ver)]
      /\ \A q \in Pod : q # p => versions'[q] = versions[q]
  BY <1>3 DEF TypeOK, Writes
<1>5. /\ Len(versions'[p]) = Len(versions[p]) + 1
      /\ \A i \in 1..Len(versions[p]) : versions'[p][i] = versions[p][i]
      /\ versions'[p][Len(versions[p]) + 1] = v
  BY <1>1, <1>2
<1>6. API(p)' = v
  BY <1>5 DEF API
<1> QED
  BY <1>4, <1>5, <1>6

\* The last version says what became of the pod.
LEMMA LastVersion ==
    ASSUME TypeOK, History, NEW p \in Pod, NEW i \in 1..Len(versions[p])
    PROVE  /\ versions[p][i].node # Pending => API(p).node # Pending
           /\ versions[p][i].node \in Node => API(p).node \in {versions[p][i].node, Gone}
           /\ versions[p][i].node = Gone => i = Len(versions[p])
<1>1. Len(versions[p]) \in 1..Len(versions[p]) /\ i <= Len(versions[p])
  BY VersionType
<1> QED
  BY <1>1 DEF History, API

\* No step takes a version back, and a pod keeps the node it was bound to.
LEMMA HistoryKept ==
    ASSUME TypeOK, Acting, History, Next
    PROVE  Grows /\ History'
<1>1. CASE UNCHANGED versions
  BY <1>1, VersionType DEF Grows, History, API, TypeOK
<1>2. ASSUME NEW p \in Pod, NEW v \in Ver, Writes(p, v)
      PROVE  Grows /\ History'
  <2> DEFINE L == Len(versions[p])
  <2>1. /\ versions' \in [Pod -> Seq(Ver)]
        /\ \A q \in Pod : q # p => versions'[q] = versions[q]
        /\ Len(versions'[p]) = L + 1
        /\ \A i \in 1..L : versions'[p][i] = versions[p][i]
        /\ versions'[p][L + 1] = v /\ API(p)' = v
    BY <1>2, WriteEffect
  <2>2. L \in Nat /\ L >= 1
    BY VersionType
  <2>3. Pending # Gone /\ Pending \notin Node /\ Gone \notin Node /\ API(p) \in Ver
    BY VersionType, SchedulerAssumption
  <2>4. v.node = Pending => API(p).node = Pending
    BY <1>2, <2>3 DEF Writes, Ver
  <2>5. Grows
    <3> SUFFICES ASSUME NEW q \in Pod
                 PROVE  /\ Len(versions'[q]) \in Nat /\ Len(versions'[q]) >= Len(versions[q])
                        /\ \A i \in 1..Len(versions[q]) : versions'[q][i] = versions[q][i]
                        /\ API(q)'.node = Pending => API(q).node = Pending
      BY <2>1 DEF Grows
    <3>1. CASE q = p
      BY <2>1, <2>2, <2>4, <3>1
    <3>2. CASE q # p
      BY <2>1, <3>2, VersionType DEF API
    <3> QED
      BY <3>1, <3>2
  <2>6. History'
    <3> SUFFICES ASSUME NEW q \in Pod, NEW i \in 1..Len(versions'[q]),
                        NEW j \in 1..Len(versions'[q]), i <= j
                 PROVE  /\ versions'[q][i].node # Pending => versions'[q][j].node # Pending
                        /\ versions'[q][i].node \in Node =>
                              versions'[q][j].node \in {versions'[q][i].node, Gone}
                        /\ versions'[q][i].node = Gone => j = i
      BY DEF History
    <3>1. CASE q # p
      BY <2>1, <3>1 DEF History
    <3>2. CASE q = p /\ j \in 1..L
      <4>1. i \in 1..L
        BY <2>2, <3>2
      <4>2. versions'[q][i] = versions[p][i] /\ versions'[q][j] = versions[p][j]
        BY <2>1, <3>2, <4>1
      <4>3. i \in 1..Len(versions[p]) /\ j \in 1..Len(versions[p])
        BY <3>2, <4>1
      <4> QED
        BY <4>2, <4>3 DEF History
    <3>3. CASE q = p /\ j = L + 1 /\ i = L + 1
      BY <2>1, <3>3
    <3>4. CASE q = p /\ j = L + 1 /\ i \in 1..L
      <4>1. /\ versions'[q][j] = v /\ versions'[q][i] = versions[p][i]
        BY <2>1, <3>4
      <4>2. /\ versions[p][i].node # Pending => API(p).node # Pending
            /\ versions[p][i].node \in Node => API(p).node \in {versions[p][i].node, Gone}
            /\ versions[p][i].node = Gone => i = L
        BY <3>4, LastVersion
      <4>3. versions[p][i].node # Gone
        BY <1>2, <4>2 DEF Writes, API
      <4> QED
        BY <1>2, <2>3, <2>4, <4>1, <4>2, <4>3 DEF Writes
    <3> QED
      BY <2>1, <2>2, <3>1, <3>2, <3>3, <3>4
  <2> QED
    BY <2>5, <2>6
<1> QED
  BY <1>1, <1>2, VersionsStep
-----------------------------------------------------------------------------
(***************************************************************************)
(* What each step does to the informer's progress and to the cache.        *)
(***************************************************************************)
\* What the handler for the cache is told of next.
LEMMA CacheHears ==
    ASSUME TypeOK, History, Progress, NEW p \in Pod, cacheAt[p] < storeAt[p]
    PROVE  LET old == Version(p, cacheAt[p]).node
               new == Version(p, cacheAt[p] + 1).node
           IN  /\ cacheAt[p] + 1 \in 1..Len(versions[p])
               /\ new = versions[p][cacheAt[p] + 1].node
               /\ API(p).node # Pending
               /\ old \notin Node => new \in Node
               /\ old \in Node => /\ new \in {old, Gone}
                                  /\ cacheAt[p] >= 1 /\ old = versions[p][cacheAt[p]].node
<1> DEFINE c == cacheAt[p]
           old == Version(p, c).node
           new == Version(p, c + 1).node
<1>1. /\ c \in Nat /\ storeAt[p] \in Nat /\ storeAt[p] <= Len(versions[p])
      /\ Len(versions[p]) \in Nat
  BY VersionType DEF TypeOK, Progress
<1>2. c + 1 \in 1..Len(versions[p]) /\ new = versions[p][c + 1].node
  BY <1>1 DEF Version
<1>3. Pending # Gone /\ Pending \notin Node /\ Gone \notin Node
  BY SchedulerAssumption
<1>4. PICK i \in 1..c + 1 : versions[p][i].node \in Node
  BY DEF Progress
<1>5. i \in 1..Len(versions[p])
  BY <1>1, <1>2
<1>6. API(p).node # Pending
  BY <1>3, <1>4, <1>5, LastVersion
<1>7. CASE i = c + 1
  <2>1. new \in Node
    BY <1>2, <1>4, <1>7
  <2>2. ASSUME old \in Node
        PROVE  c >= 1 /\ old = versions[p][c].node /\ new \in {old, Gone}
    <3>1. c # 0 /\ c >= 1 /\ c \in 1..Len(versions[p]) /\ c <= c + 1
      BY <1>1, <1>2, <1>3, <2>2 DEF Version
    <3>2. old = versions[p][c].node
      BY <3>1 DEF Version
    <3> QED
      BY <1>2, <2>2, <3>1, <3>2 DEF History
  <2> QED
    BY <1>2, <1>6, <2>1, <2>2
<1>8. CASE i # c + 1
  <2>1. c \in 1..Len(versions[p]) /\ i <= c /\ c <= c + 1 /\ c # c + 1
    BY <1>1, <1>2, <1>8
  <2>2. old = versions[p][c].node
    BY <1>1, <2>1 DEF Version
  <2>3. old \in {versions[p][i].node, Gone}
    BY <1>4, <1>5, <2>1, <2>2 DEF History
  <2>4. old # Gone
    BY <1>2, <2>1, <2>2 DEF History
  <2>5. old \in Node /\ new \in {old, Gone}
    BY <1>2, <1>4, <2>1, <2>2, <2>3, <2>4 DEF History
  <2> QED
    BY <1>1, <1>2, <1>6, <2>1, <2>2, <2>5
<1> QED
  BY <1>7, <1>8

\* Only the informer and its two handlers advance.
LEMMA InformerStep ==
    ASSUME Next
    PROVE  \/ UNCHANGED informerVars
           \/ \E p \in Pod : Observe(p) \/ QueueHandler(p) \/ CacheHandler(p)
<1>1. CASE WaitForPod \/ SkipPod \/ ScheduleError \/ Assume
  BY <1>1 DEF WaitForPod, SkipPod, ScheduleError, Assume
<1>2. CASE \/ \E p \in Pod : NextPod(p)
           \/ \E n \in Node : Schedule(n)
           \/ \E pl \in SUBSET Plugin, n \in Node \cup {NoNode} : NoFit(pl, n)
  BY <1>2 DEF NextPod, Schedule, NoFit
<1>3. CASE \E b \in Binder : StartBinding(b) \/ Bind(b) \/ FinishBinding(b)
  BY <1>3 DEF StartBinding, Bind, FinishBinding
<1>4. CASE \E x \in Actor : PluginFails(x) \/ ForgetPod(x) \/ Lookup(x) \/ Requeue(x)
                              \/ Nominate(x) \/ Patch(x)
  BY <1>4 DEF PluginFails, ForgetPod, Lookup, Requeue, Nominate, Patch
<1>5. CASE \E p \in Pod : Expire(p) \/ ChangePod(p) \/ Tick(p)
  BY <1>5 DEF Expire, ChangePod, Tick
<1>6. CASE Flush \/ \E e \in Event : ClusterEvent(e)
  BY <1>6 DEF Flush, ClusterEvent
<1> QED
  BY <1>1, <1>2, <1>3, <1>4, <1>5, <1>6 DEF Next

\* The informer and its handlers only advance.
Advances ==
    /\ storeAt' \in [Pod -> Nat] /\ queueAt' \in [Pod -> Nat] /\ cacheAt' \in [Pod -> Nat]
    /\ \A p \in Pod : /\ storeAt'[p] >= storeAt[p] /\ queueAt'[p] >= queueAt[p]
                      /\ cacheAt'[p] \in {cacheAt[p], cacheAt[p] + 1}

\* The handlers stay behind the store, and the store behind the API server.
LEMMA ProgressKept ==
    ASSUME TypeOK, History, Progress, Grows, Next
    PROVE  Advances /\ Progress'
<1>0. storeAt \in [Pod -> Nat] /\ queueAt \in [Pod -> Nat] /\ cacheAt \in [Pod -> Nat]
  BY DEF TypeOK
<1>a. \A p \in Pod : /\ Len(versions[p]) \in Nat /\ Len(versions'[p]) \in Nat
                     /\ Len(versions'[p]) >= Len(versions[p])
                     /\ \A i \in 1..Len(versions[p]) : versions'[p][i] = versions[p][i]
  BY VersionType DEF Grows
<1>b. ASSUME NEW p \in Pod,
             storeAt'[p] = storeAt[p] /\ queueAt'[p] = queueAt[p] /\ cacheAt'[p] = cacheAt[p]
      PROVE  /\ queueAt'[p] <= storeAt'[p] /\ cacheAt'[p] <= storeAt'[p]
             /\ storeAt'[p] <= Len(versions'[p])
             /\ cacheAt'[p] < storeAt'[p] =>
                   \E i \in 1..cacheAt'[p] + 1 : versions'[p][i].node \in Node
  <2>1. /\ queueAt[p] <= storeAt[p] /\ cacheAt[p] <= storeAt[p]
        /\ storeAt[p] <= Len(versions[p]) /\ storeAt[p] \in Nat /\ cacheAt[p] \in Nat
    BY <1>0 DEF Progress
  <2>2. ASSUME cacheAt[p] < storeAt[p]
        PROVE  \E i \in 1..cacheAt[p] + 1 : versions'[p][i].node \in Node
    <3>1. PICK i \in 1..cacheAt[p] + 1 : versions[p][i].node \in Node
      BY <2>2 DEF Progress
    <3>2. i \in 1..Len(versions[p])
      BY <1>a, <2>1, <2>2
    <3> QED
      BY <1>a, <3>1, <3>2
  <2> QED
    BY <1>a, <1>b, <2>1, <2>2
<1>1. CASE UNCHANGED informerVars
  <2>1. storeAt' = storeAt /\ queueAt' = queueAt /\ cacheAt' = cacheAt
    BY <1>1 DEF informerVars
  <2>2. Advances
    BY <1>0, <2>1 DEF Advances
  <2>3. Progress'
    BY <1>b, <2>1 DEF Progress
  <2> QED
    BY <2>2, <2>3
<1>2. ASSUME NEW p \in Pod, Observe(p) PROVE Advances /\ Progress'
  <2>1. \A q \in Pod : q # p => storeAt'[q] = storeAt[q] /\ queueAt'[q] = queueAt[q]
                                 /\ cacheAt'[q] = cacheAt[q]
    BY <1>0, <1>2 DEF Observe
  <2>2. /\ storeAt'[p] = storeAt[p] + 1 /\ queueAt'[p] = queueAt[p]
        /\ cacheAt'[p] = IF \A i \in 1..storeAt[p] + 1 : versions[p][i].node \notin Node
                         THEN cacheAt[p] + 1 ELSE cacheAt[p]
        /\ versions' = versions /\ storeAt[p] < Len(versions[p])
    BY <1>0, <1>2 DEF Observe
  <2>3. /\ queueAt[p] <= storeAt[p] /\ cacheAt[p] <= storeAt[p]
        /\ cacheAt[p] < storeAt[p] => \E i \in 1..cacheAt[p] + 1 : versions[p][i].node \in Node
        /\ storeAt[p] \in Nat /\ cacheAt[p] \in Nat /\ queueAt[p] \in Nat
    BY <1>0 DEF Progress
  <2>4. /\ queueAt'[p] <= storeAt'[p] /\ cacheAt'[p] <= storeAt'[p]
        /\ storeAt'[p] <= Len(versions'[p])
    BY <1>a, <2>2, <2>3
  <2>5. ASSUME cacheAt'[p] < storeAt'[p]
        PROVE  \E i \in 1..cacheAt'[p] + 1 : versions'[p][i].node \in Node
    <3>1. CASE cacheAt[p] < storeAt[p]
      <4>1. PICK i \in 1..cacheAt[p] + 1 : versions[p][i].node \in Node
        BY <2>3, <3>1
      <4>2. i \in 1..cacheAt'[p] + 1
        BY <2>2, <2>3, <4>1
      <4> QED
        BY <2>2, <4>1, <4>2
    <3>2. CASE cacheAt[p] = storeAt[p]
      <4>1. cacheAt'[p] = storeAt[p]
        BY <2>2, <2>3, <2>5, <3>2
      <4>2. \E i \in 1..storeAt[p] + 1 : versions[p][i].node \in Node
        BY <2>2, <2>3, <2>5, <3>2
      <4> QED
        BY <2>2, <4>1, <4>2
    <3> QED
      BY <2>3, <3>1, <3>2
  <2>6. Progress'
    BY <1>b, <2>1, <2>4, <2>5 DEF Progress
  <2>7. /\ storeAt' \in [Pod -> Nat] /\ queueAt' \in [Pod -> Nat] /\ cacheAt' \in [Pod -> Nat]
    BY <1>0, <1>2 DEF Observe
  <2> QED
    BY <1>0, <2>1, <2>2, <2>3, <2>6, <2>7 DEF Advances
<1>3. ASSUME NEW p \in Pod, QueueHandler(p) PROVE Advances /\ Progress'
  <2>1. /\ queueAt' = [queueAt EXCEPT ![p] = @ + 1] /\ queueAt[p] < storeAt[p]
        /\ UNCHANGED <<versions, storeAt, cacheAt>>
    BY <1>3 DEF QueueHandler
  <2>2. queueAt' \in [Pod -> Nat]
    BY <1>0, <2>1
  <2>3. \A q \in Pod : q # p => queueAt'[q] = queueAt[q]
    BY <1>0, <2>1
  <2>4. queueAt'[p] = queueAt[p] + 1 /\ queueAt[p] \in Nat /\ storeAt[p] \in Nat
    BY <1>0, <2>1
  <2>5. Advances
    BY <1>0, <2>1, <2>2, <2>3, <2>4 DEF Advances
  <2>6. Progress'
    BY <2>1, <2>3, <2>4 DEF Progress
  <2> QED
    BY <2>5, <2>6
<1>4. ASSUME NEW p \in Pod, CacheHandler(p) PROVE Advances /\ Progress'
  <2>1. /\ cacheAt' = [cacheAt EXCEPT ![p] = @ + 1] /\ cacheAt[p] < storeAt[p]
        /\ UNCHANGED <<versions, storeAt, queueAt>>
    BY <1>4 DEF CacheHandler
  <2>2. cacheAt' \in [Pod -> Nat]
    BY <1>0, <2>1
  <2>3. \A q \in Pod : q # p => cacheAt'[q] = cacheAt[q]
    BY <1>0, <2>1
  <2>4. /\ cacheAt'[p] = cacheAt[p] + 1 /\ cacheAt[p] \in Nat /\ storeAt[p] \in Nat
        /\ queueAt[p] <= storeAt[p] /\ storeAt[p] <= Len(versions[p])
    BY <1>0, <2>1 DEF Progress
  <2>5. PICK i \in 1..cacheAt[p] + 1 : versions[p][i].node \in Node
    BY <2>1 DEF Progress
  <2>6. i \in 1..cacheAt'[p] + 1
    BY <2>4
  <2>7. ASSUME NEW q \in Pod
        PROVE  /\ queueAt'[q] <= storeAt'[q] /\ cacheAt'[q] <= storeAt'[q]
               /\ storeAt'[q] <= Len(versions'[q])
               /\ cacheAt'[q] < storeAt'[q] =>
                     \E j \in 1..cacheAt'[q] + 1 : versions'[q][j].node \in Node
    <3>1. CASE q = p
      BY <2>1, <2>4, <2>5, <2>6, <3>1
    <3>2. CASE q # p
      BY <2>1, <2>3, <3>2 DEF Progress
    <3> QED
      BY <3>1, <3>2
  <2>8. Progress'
    BY <2>7 DEF Progress
  <2> QED
    BY <1>0, <2>1, <2>2, <2>3, <2>4, <2>8 DEF Advances
<1> QED
  BY <1>1, <1>2, <1>3, <1>4, InformerStep
\* The steps that change the cache.
LEMMA CacheStep ==
    ASSUME Next
    PROVE  \/ UNCHANGED cacheVars
           \/ Assume
           \/ \E x \in Actor : FinishBinding(x) \/ ForgetPod(x)
           \/ \E p \in Pod : Expire(p) \/ CacheHandler(p)
<1>1. CASE WaitForPod \/ SkipPod \/ ScheduleError
  BY <1>1 DEF WaitForPod, SkipPod, ScheduleError
<1>2. CASE \/ \E p \in Pod : NextPod(p)
           \/ \E n \in Node : Schedule(n)
           \/ \E pl \in SUBSET Plugin, n \in Node \cup {NoNode} : NoFit(pl, n)
  BY <1>2 DEF NextPod, Schedule, NoFit
<1>3. CASE \E b \in Binder : StartBinding(b) \/ Bind(b)
  BY <1>3 DEF StartBinding, Bind
<1>4. CASE \E x \in Actor : PluginFails(x) \/ Lookup(x) \/ Requeue(x) \/ Nominate(x) \/ Patch(x)
  BY <1>4 DEF PluginFails, Lookup, Requeue, Nominate, Patch
<1>5. CASE \E p \in Pod : ChangePod(p) \/ Tick(p) \/ Observe(p) \/ QueueHandler(p)
  BY <1>5 DEF ChangePod, Tick, Observe, QueueHandler
<1>6. CASE Flush \/ \E e \in Event : ClusterEvent(e)
  BY <1>6 DEF Flush, ClusterEvent
<1> QED
  BY <1>1, <1>2, <1>3, <1>4, <1>5, <1>6, LoopActor DEF Next

\* What a step of the cache's handler does to the cache.
LEMMA CacheHandlerCache ==
    ASSUME TypeOK, History, Progress, NEW p \in Pod, CacheHandler(p)
    PROVE  LET old == Version(p, cacheAt[p]).node
               new == Version(p, cacheAt[p] + 1).node
           IN  /\ where' \in [Pod -> Names]
               /\ \A q \in Pod : q # p => where'[q] = where[q]
               /\ where'[p] = IF old \notin Node THEN new
                              ELSE IF new \in Node THEN where[p] ELSE NoNode
               /\ assumed' = assumed \/ (assumed' = assumed \ {p} /\ old \notin Node)
               /\ p \in assumed' => old \in Node /\ new \in Node
               /\ finished' = finished \ {p}
<1> DEFINE old == Version(p, cacheAt[p]).node
           new == Version(p, cacheAt[p] + 1).node
<1>1. /\ old \notin Node => new \in Node
      /\ old \in Node => new \in {old, Gone}
  BY CacheHears DEF CacheHandler
<1>2. Gone \notin Node
  BY SchedulerAssumption
<1>3. where \in [Pod -> Names] /\ finished' = finished \ {p}
  BY DEF TypeOK, CacheHandler
<1>4. CASE old \notin Node
  <2>1. Cache!Add(p, new)
    BY <1>1, <1>2, <1>4 DEF CacheHandler
  <2> QED
    BY <1>1, <1>3, <1>4, <2>1 DEF Cache!Add, Names
<1>5. CASE old \in Node /\ new \in Node
  <2>1. UNCHANGED <<where, assumed>>
    BY <1>2, <1>5 DEF CacheHandler
  <2> QED
    BY <1>3, <1>5, <2>1
<1>6. CASE old \in Node /\ new \notin Node
  <2>1. Cache!Remove(p)
    BY <1>6 DEF CacheHandler
  <2> QED
    BY <1>3, <1>6, <2>1 DEF Cache!Remove, Names
<1> QED
  BY <1>4, <1>5, <1>6

\* The cache keeps its types, and only assumed pods are finished.
LEMMA CacheTypes ==
    ASSUME TypeOK, History, Progress, Acting, Next
    PROVE  where' \in [Pod -> Names] /\ assumed' \in SUBSET Pod /\ finished' \in SUBSET assumed'
<1>0. where \in [Pod -> Names] /\ assumed \in SUBSET Pod /\ finished \in SUBSET assumed
  BY DEF TypeOK
<1>1. CASE UNCHANGED cacheVars
  BY <1>0, <1>1 DEF cacheVars
<1>2. CASE Assume
  <2>1. act[Loop].pod \in Pod /\ act[Loop].node \in Node
    BY <1>2, LoopActor DEF Assume, At, Acting
  <2> QED
    BY <1>0, <1>2, <2>1, AssumeAct DEF Cache!Assume, cacheVars, Names
<1>3. ASSUME NEW x \in Actor, FinishBinding(x)
      PROVE  where' \in [Pod -> Names] /\ assumed' \in SUBSET Pod /\ finished' \in SUBSET assumed'
  BY <1>0, <1>3 DEF FinishBinding
<1>4. ASSUME NEW p, Cache!Drop({p}), finished' = finished \ {p}
      PROVE  where' \in [Pod -> Names] /\ assumed' \in SUBSET Pod /\ finished' \in SUBSET assumed'
  BY <1>0, <1>4 DEF Cache!Drop, Names
<1>5. ASSUME NEW x \in Actor, ForgetPod(x)
      PROVE  where' \in [Pod -> Names] /\ assumed' \in SUBSET Pod /\ finished' \in SUBSET assumed'
  BY <1>1, <1>4, <1>5 DEF ForgetPod
<1>6. ASSUME NEW p \in Pod, Expire(p)
      PROVE  where' \in [Pod -> Names] /\ assumed' \in SUBSET Pod /\ finished' \in SUBSET assumed'
  BY <1>4, <1>6 DEF Expire
<1>7. ASSUME NEW p \in Pod, CacheHandler(p)
      PROVE  where' \in [Pod -> Names] /\ assumed' \in SUBSET Pod /\ finished' \in SUBSET assumed'
  BY <1>0, <1>7, CacheHandlerCache
<1> QED
  BY <1>1, <1>2, <1>3, <1>5, <1>6, <1>7, CacheStep

\* What an actor in stage s must know of its pod p and node n.
Fits(x, s, p, n) ==
    s # "idle" =>
        /\ p \in Pod /\ storeAt[p] >= 1
        /\ s \in {"chosen", "assumed", "bind", "bound", "refused", "forget"} => n \in Node
        /\ s \in {"popped", "chosen", "assumed"} => x = Loop
        /\ s \in {"bind", "bound", "refused"} => x # Loop
        /\ s = "bound" => API(p)'.node # Pending

\* What an actor knows of its pod outlives any step of the others.
LEMMA StillFits ==
    ASSUME TypeOK, Acting, Grows, Advances, NEW y \in Actor, act[y].stage # "idle"
    PROVE  /\ act[y].pod \in Pod /\ storeAt'[act[y].pod] >= 1
           /\ act[y].stage \in {"chosen", "assumed", "bind", "bound", "refused", "forget"}
                 => act[y].node \in Node
           /\ act[y].stage \in {"popped", "chosen", "assumed"} => y = Loop
           /\ act[y].stage \in {"bind", "bound", "refused"} => y # Loop
           /\ act[y].stage = "bound" =>
                 versions'[act[y].pod][Len(versions'[act[y].pod])].node # Pending
<1> DEFINE p == act[y].pod
<1>1. p \in Pod /\ storeAt[p] >= 1
  BY DEF Acting
<1>2. storeAt'[p] >= 1
  <2>1. storeAt[p] \in Nat /\ storeAt'[p] \in Nat /\ storeAt'[p] >= storeAt[p]
    BY <1>1 DEF Advances, TypeOK
  <2> QED
    BY <1>1, <2>1
<1>3. \A q \in Pod : versions'[q][Len(versions'[q])].node = Pending => API(q).node = Pending
  BY DEF Grows, API
<1> QED
  BY <1>1, <1>2, <1>3 DEF Acting

\* An actor that moves on knows what its next stage needs.
LEMMA ActingBecomes ==
    ASSUME TypeOK, Acting, Grows, Advances, NEW x \in Actor, NEW s, NEW p, NEW n,
           Becomes(x, s, p, n), Fits(x, s, p, n)
    PROVE  act' \in [Actor -> ActorState] /\ Acting'
<1> SUFFICES ASSUME NEW y \in Actor, act'[y].stage # "idle"
             PROVE  /\ act'[y].pod \in Pod /\ storeAt'[act'[y].pod] >= 1
                    /\ act'[y].stage \in {"chosen", "assumed", "bind", "bound", "refused",
                                          "forget"} => act'[y].node \in Node
                    /\ act'[y].stage \in {"popped", "chosen", "assumed"} => y = Loop
                    /\ act'[y].stage \in {"bind", "bound", "refused"} => y # Loop
                    /\ act'[y].stage = "bound" =>
                          versions'[act'[y].pod][Len(versions'[act'[y].pod])].node # Pending
  BY DEF Becomes, Acting, API
<1>1. CASE y # x
  <2>1. act'[y] = act[y]
    BY <1>1 DEF Becomes
  <2> QED
    BY <2>1, StillFits
<1>2. CASE y = x
  <2>1. act'[y].stage = s /\ act'[y].pod = p /\ act'[y].node = n
    BY <1>2 DEF Becomes
  <2>2. p \in Pod /\ storeAt'[p] >= 1
    BY <2>1 DEF Fits, Advances, TypeOK
  <2> QED
    BY <1>2, <2>1, <2>2 DEF Fits, API
<1> QED
  BY <1>1, <1>2
\* Steps that leave the actors alone but for the history flag.
Watched == \A x \in Actor : /\ act'[x].stage = act[x].stage
                            /\ act'[x].pod = act[x].pod /\ act'[x].node = act[x].node

\* The informer, the handlers, the queue's own goroutines and the API server's
\* other clients leave the actors where they are.
LEMMA WatchedSteps ==
    ASSUME TypeOK,
           \/ WaitForPod \/ Flush
           \/ \E p \in Pod : Expire(p) \/ ChangePod(p) \/ Observe(p) \/ QueueHandler(p)
                               \/ CacheHandler(p) \/ Tick(p)
           \/ \E e \in Event : ClusterEvent(e)
    PROVE  act' \in [Actor -> ActorState] /\ Watched
<1>1. act' = act \/ act' = Seen(act)
  BY DEF WaitForPod, Expire, ChangePod, Observe, QueueHandler, CacheHandler, Tick,
         ClusterEvent, Flush
<1>2. CASE act' = act
  BY <1>2 DEF TypeOK, Watched
<1>3. CASE act' = Seen(act)
  BY <1>3, SeenAct DEF Watched
<1> QED
  BY <1>1, <1>2, <1>3

\* A binding succeeds for a pending pod, and is refused for any other.
LEMMA BindAct ==
    ASSUME TypeOK, Acting, History, Next, NEW b \in Binder, Bind(b)
    PROVE  \/ /\ Becomes(b, "bound", act[b].pod, act[b].node)
              /\ API(act[b].pod).node = Pending
              /\ Writes(act[b].pod, [API(act[b].pod) EXCEPT !.node = act[b].node])
              /\ \A p \in Pod : p = act[b].pod => API(p)'.node = act[b].node
           \/ /\ Becomes(b, "refused", act[b].pod, act[b].node)
              /\ API(act[b].pod).node # Pending \/ "lostAnswer" \in Faults
<1> DEFINE p == act[b].pod
           v == [API(p) EXCEPT !.node = act[b].node]
<1>0. b \in Actor /\ p \in Pod /\ act[b].node \in Node
  BY LoopActor DEF Bind, At, Acting
<1>1. CASE API(p).node = Pending /\ Write(p, v) /\ Goes(b, "bound")
  <2>1. API(p) \in Ver /\ Pending # Gone /\ Pending \notin Node
    BY <1>0, VersionType, SchedulerAssumption
  <2>2. v \in Ver /\ v.node = act[b].node
    BY <1>0, <2>1 DEF Ver
  <2>3. Writes(p, v)
    BY <1>1, <2>1, <2>2 DEF Write, Writes
  <2> HIDE DEF v
  <2>4. \A q \in Pod : q = p => API(q)'.node = act[b].node
    BY <1>0, <2>2, <2>3, WriteEffect
  <2>5. Becomes(b, "bound", p, act[b].node)
    BY <1>0, <1>1, GoesAct DEF Stage
  <2> QED
    BY <1>1, <2>3, <2>4, <2>5 DEF v
<1>2. CASE Goes(b, "refused") /\ (API(p).node # Pending \/ "lostAnswer" \in Faults)
  BY <1>0, <1>2, GoesAct DEF Stage
<1> QED
  BY <1>1, <1>2 DEF Bind

\* Every step keeps what the actors know.
LEMMA ActingKept ==
    ASSUME TypeOK, History, Progress, Acting, Grows, Advances, Next
    PROVE  act' \in [Actor -> ActorState] /\ Acting'
<1>1. CASE \/ WaitForPod \/ Flush
           \/ \E p \in Pod : Expire(p) \/ ChangePod(p) \/ Observe(p) \/ QueueHandler(p)
                               \/ CacheHandler(p) \/ Tick(p)
           \/ \E e \in Event : ClusterEvent(e)
  <2>1. act' \in [Actor -> ActorState] /\ Watched
    BY <1>1, WatchedSteps
  <2> SUFFICES ASSUME NEW y \in Actor, act'[y].stage # "idle"
               PROVE  /\ act'[y].pod \in Pod /\ storeAt'[act'[y].pod] >= 1
                      /\ act'[y].stage \in {"chosen", "assumed", "bind", "bound", "refused",
                                            "forget"} => act'[y].node \in Node
                      /\ act'[y].stage \in {"popped", "chosen", "assumed"} => y = Loop
                      /\ act'[y].stage \in {"bind", "bound", "refused"} => y # Loop
                      /\ act'[y].stage = "bound" =>
                            versions'[act'[y].pod][Len(versions'[act'[y].pod])].node # Pending
    BY <2>1 DEF Acting, API
  <2>2. /\ act'[y].stage = act[y].stage
        /\ act'[y].pod = act[y].pod /\ act'[y].node = act[y].node
    BY <2>1 DEF Watched
  <2> QED
    BY <2>2, StillFits
<1>2. ASSUME NEW x \in Actor, NEW s, NEW n, act[x].stage # "idle",
             Becomes(x, s, act[x].pod, n),
             s \in {"lookup", "requeue", "nominate", "patch"}
      PROVE  act' \in [Actor -> ActorState] /\ Acting'
  <2>1. Fits(x, s, act[x].pod, n)
    BY <1>2 DEF Fits, Acting
  <2> QED
    BY <1>2, <2>1, ActingBecomes
<1>3. ASSUME NEW x \in Actor, Becomes(x, "idle", NoNode, NoNode)
      PROVE  act' \in [Actor -> ActorState] /\ Acting'
  BY <1>3, ActingBecomes DEF Fits
<1>4. ASSUME NEW x \in Actor, act[x].stage \in {"assumed", "bind", "refused"},
             Becomes(x, "forget", act[x].pod, act[x].node)
      PROVE  act' \in [Actor -> ActorState] /\ Acting'
  <2>1. Fits(x, "forget", act[x].pod, act[x].node)
    BY <1>4 DEF Fits, Acting
  <2> QED
    BY <1>4, <2>1, ActingBecomes
<1>5. ASSUME NEW p \in Pod, NextPod(p) PROVE act' \in [Actor -> ActorState] /\ Acting'
  <2>1. Becomes(Loop, "popped", p, NoNode) /\ storeAt[p] >= 1
    BY <1>5, NextPodAct
  <2>2. Fits(Loop, "popped", p, NoNode)
    BY <2>1 DEF Fits
  <2> QED
    BY <2>1, <2>2, LoopActor, ActingBecomes
<1>6. CASE SkipPod
  BY <1>3, <1>6, LoopActor, LoopActs
<1>7. ASSUME NEW n \in Node, Schedule(n) PROVE act' \in [Actor -> ActorState] /\ Acting'
  <2>1. Becomes(Loop, "chosen", act[Loop].pod, n)
    BY <1>7, LoopActs
  <2>2. Fits(Loop, "chosen", act[Loop].pod, n)
    BY <1>7, LoopActor DEF Schedule, At, Fits, Acting
  <2> QED
    BY <2>1, <2>2, LoopActor, ActingBecomes
<1>8. ASSUME NEW pl \in SUBSET Plugin, NEW n \in Names, NoFit(pl, n)
      PROVE  act' \in [Actor -> ActorState] /\ Acting'
  BY <1>2, <1>8, LoopActor, LoopActs DEF NoFit, At
<1>9. CASE ScheduleError
  BY <1>2, <1>9, LoopActor, LoopActs DEF ScheduleError, At
<1>10. CASE Assume
  <2>1. At(Loop, "chosen")
    BY <1>10 DEF Assume
  <2>2. ASSUME Becomes(Loop, "assumed", act[Loop].pod, act[Loop].node)
        PROVE  act' \in [Actor -> ActorState] /\ Acting'
    <3>1. Fits(Loop, "assumed", act[Loop].pod, act[Loop].node)
      BY <2>1, LoopActor DEF At, Fits, Acting
    <3> QED
      BY <2>2, <3>1, LoopActor, ActingBecomes
  <2> QED
    BY <1>2, <1>10, <2>1, <2>2, AssumeAct, LoopActor DEF At
<1>11. ASSUME NEW b \in Binder, StartBinding(b)
       PROVE  act' \in [Actor -> ActorState] /\ Acting'
  <2>1. /\ act' \in [Actor -> ActorState]
        /\ \A y \in Actor : y # b /\ y # Loop => act'[y] = act[y]
        /\ act'[Loop].stage = "idle"
        /\ act'[b].stage = "bind" /\ act'[b].pod = act[Loop].pod
        /\ act'[b].node = act[Loop].node
    BY <1>11, StartBindingAct, IdleFields
  <2>2. act[Loop].stage = "assumed"
    BY <1>11 DEF StartBinding, At
  <2>3. act[Loop].pod \in Pod /\ act[Loop].node \in Node /\ storeAt'[act[Loop].pod] >= 1
    BY <2>2, LoopActor, StillFits
  <2> SUFFICES ASSUME NEW y \in Actor, act'[y].stage # "idle"
               PROVE  /\ act'[y].pod \in Pod /\ storeAt'[act'[y].pod] >= 1
                      /\ act'[y].stage \in {"chosen", "assumed", "bind", "bound", "refused",
                                            "forget"} => act'[y].node \in Node
                      /\ act'[y].stage \in {"popped", "chosen", "assumed"} => y = Loop
                      /\ act'[y].stage \in {"bind", "bound", "refused"} => y # Loop
                      /\ act'[y].stage = "bound" =>
                            versions'[act'[y].pod][Len(versions'[act'[y].pod])].node # Pending
    BY <2>1 DEF Acting, API
  <2>4. CASE y = b
    BY <2>1, <2>3, <2>4, LoopActor
  <2>5. CASE y # b
    <3>1. act'[y] = act[y]
      BY <2>1, <2>5
    <3> QED
      BY <3>1, StillFits
  <2> QED
    BY <2>4, <2>5
<1>12. ASSUME NEW b \in Binder, Bind(b) PROVE act' \in [Actor -> ActorState] /\ Acting'
  <2>1. b \in Actor /\ act[b].stage = "bind"
    BY <1>12, LoopActor DEF Bind, At
  <2>2. /\ act[b].pod \in Pod /\ storeAt[act[b].pod] >= 1 /\ act[b].node \in Node /\ b # Loop
        /\ Pending \notin Node
    BY <2>1, SchedulerAssumption DEF Acting
  <2>3. ASSUME Becomes(b, "bound", act[b].pod, act[b].node),
               \A p \in Pod : p = act[b].pod => API(p)'.node = act[b].node
        PROVE  act' \in [Actor -> ActorState] /\ Acting'
    <3>1. PICK p \in Pod : p = act[b].pod
      BY <2>2
    <3>2. Fits(b, "bound", p, act[b].node)
      BY <2>2, <2>3, <3>1 DEF Fits
    <3> QED
      BY <2>1, <2>3, <3>1, <3>2, ActingBecomes
  <2>4. ASSUME Becomes(b, "refused", act[b].pod, act[b].node)
        PROVE  act' \in [Actor -> ActorState] /\ Acting'
    <3>1. Fits(b, "refused", act[b].pod, act[b].node)
      BY <2>2 DEF Fits
    <3> QED
      BY <2>1, <2>4, <3>1, ActingBecomes
  <2> QED
    BY <1>12, <2>3, <2>4, BindAct
<1>13. ASSUME NEW x \in Actor, FinishBinding(x)
       PROVE  act' \in [Actor -> ActorState] /\ Acting'
  BY <1>3, <1>4, <1>13, ActorActs DEF At
<1>14. ASSUME NEW x \in Actor, PluginFails(x)
       PROVE  act' \in [Actor -> ActorState] /\ Acting'
  BY <1>4, <1>14, ActorActs DEF PluginFails, At
<1>15. ASSUME NEW x \in Actor, ForgetPod(x) \/ Nominate(x) \/ Patch(x)
       PROVE  act' \in [Actor -> ActorState] /\ Acting'
  BY <1>2, <1>3, <1>15, ActorActs DEF ForgetPod, Nominate, At
<1>16. ASSUME NEW x \in Actor, Lookup(x)
       PROVE  act' \in [Actor -> ActorState] /\ Acting'
  BY <1>2, <1>16, LookupAct DEF Lookup, At
<1>17. ASSUME NEW x \in Actor, Requeue(x)
       PROVE  act' \in [Actor -> ActorState] /\ Acting'
  BY <1>2, <1>17, RequeueAct DEF Requeue, At
<1> QED
  BY <1>1, <1>5, <1>6, <1>7, <1>8, <1>9, <1>10, <1>11, <1>12, <1>13, <1>14, <1>15, <1>16,
     <1>17, LoopActor DEF Next, Names
-----------------------------------------------------------------------------
(***************************************************************************)
(* Who answers for an assumed pod: the invariants on owners, pod by pod.   *)
(***************************************************************************)
Owning == {"assumed", "bind", "refused", "forget"}

\* AssumedHeld, OwnersKeep and OwnersAlone, of one pod.
PodOwned(p) ==
    /\ p \in assumed => /\ where[p] # NoNode
                        /\ API(p).node = Pending =>
                              \E x \in Actor : Owns(x, p) /\ act[x].node = where[p]
    /\ "slowForget" \in Faults \/ API(p).node # Pending \/ \A x \in Actor :
          Owns(x, p) => /\ p \in assumed /\ where[p] = act[x].node
                        /\ act[x].stage # "forget" => p \notin finished
    /\ "slowForget" \in Faults \/ API(p).node # Pending \/ \A x, y \in Actor :
          Owns(x, p) /\ Owns(y, p) => x = y

\* The three invariants are PodOwned of every pod.
LEMMA OwnersByPod ==
    ASSUME assumed \in SUBSET Pod
    PROVE  (AssumedHeld /\ OwnersKeep /\ OwnersAlone) <=> \A p \in Pod : PodOwned(p)
<1>1. ASSUME AssumedHeld, OwnersKeep, OwnersAlone, NEW p \in Pod
      PROVE  PodOwned(p)
  <2>1. p \in assumed => /\ where[p] # NoNode
                         /\ API(p).node = Pending =>
                              \E x \in Actor : Owns(x, p) /\ act[x].node = where[p]
    BY <1>1 DEF AssumedHeld
  <2>2. "slowForget" \in Faults \/ API(p).node # Pending \/ \A x \in Actor :
          Owns(x, p) => /\ p \in assumed /\ where[p] = act[x].node
                        /\ act[x].stage # "forget" => p \notin finished
    BY <1>1 DEF OwnersKeep
  <2>3. "slowForget" \in Faults \/ API(p).node # Pending \/ \A x, y \in Actor :
          Owns(x, p) /\ Owns(y, p) => x = y
    BY <1>1 DEF OwnersAlone
  <2> QED
    BY <2>1, <2>2, <2>3 DEF PodOwned
<1>2. ASSUME \A p \in Pod : PodOwned(p) PROVE AssumedHeld /\ OwnersKeep /\ OwnersAlone
  <2>1. AssumedHeld
    BY <1>2 DEF AssumedHeld, PodOwned
  <2>2. OwnersKeep
    BY <1>2 DEF OwnersKeep, PodOwned
  <2>3. OwnersAlone
    BY <1>2 DEF OwnersAlone, PodOwned
  <2> QED
    BY <2>1, <2>2, <2>3
<1> QED
  BY <1>1, <1>2

\* The step changes nothing about x's owning p.
SameOwner(x, p) ==
    /\ Owns(x, p)' <=> Owns(x, p)
    /\ Owns(x, p) => act'[x].stage = act[x].stage /\ act'[x].node = act[x].node

\* A step that changes nothing about a pod's owners and its place in the cache.
LEMMA Untouched ==
    ASSUME Grows, NEW p \in Pod, PodOwned(p), where'[p] = where[p],
           p \in assumed' <=> p \in assumed, p \in finished' <=> p \in finished,
           \A x \in Actor : SameOwner(x, p)
    PROVE  PodOwned(p)'
<1>1. API(p)'.node = Pending => API(p).node = Pending
  BY DEF Grows
<1>2. \A x \in Actor : Owns(x, p)' <=> Owns(x, p)
  BY DEF SameOwner
<1>3. \A x \in Actor : Owns(x, p)
                         => act'[x].stage = act[x].stage /\ act'[x].node = act[x].node
  BY DEF SameOwner
<1>4. p \in assumed' => /\ where'[p] # NoNode
                        /\ API(p)'.node = Pending =>
                              \E x \in Actor : Owns(x, p)' /\ act'[x].node = where'[p]
  BY <1>1, <1>2, <1>3 DEF PodOwned
<1>5. "slowForget" \in Faults \/ API(p)'.node # Pending \/ \A x \in Actor :
          Owns(x, p)' => /\ p \in assumed' /\ where'[p] = act'[x].node
                         /\ act'[x].stage # "forget" => p \notin finished'
  BY <1>1, <1>2, <1>3 DEF PodOwned
<1>6. "slowForget" \in Faults \/ API(p)'.node # Pending \/ \A x, y \in Actor :
          Owns(x, p)' /\ Owns(y, p)' => x = y
  BY <1>1, <1>2 DEF PodOwned
<1> QED
  BY <1>4, <1>5, <1>6 DEF PodOwned

\* Nobody answers for a pod that is bound or gone.
LEMMA NoLongerPending ==
    ASSUME NEW p \in Pod, API(p)'.node # Pending, p \in assumed' => where'[p] # NoNode
    PROVE  PodOwned(p)'
  BY DEF PodOwned

\* A step of an actor says nothing about pods that are not its own.
LEMMA BecomesSame ==
    ASSUME NEW x \in Actor, NEW s, NEW p, NEW n, Becomes(x, s, p, n), NEW q \in Pod,
           act[x].pod # q \/ act[x].stage \notin Owning, p # q \/ s \notin Owning
    PROVE  \A y \in Actor : SameOwner(y, q)
<1> SUFFICES ASSUME NEW y \in Actor PROVE SameOwner(y, q)
  OBVIOUS
<1>1. CASE y # x
  BY <1>1 DEF Becomes, SameOwner, Owns
<1>2. CASE y = x
  BY <1>2 DEF Becomes, SameOwner, Owns, Owning
<1> QED
  BY <1>1, <1>2

\* A step that leaves the actors alone leaves the owners alone.
LEMMA WatchedSame ==
    ASSUME Watched, NEW q \in Pod
    PROVE  \A y \in Actor : SameOwner(y, q)
  BY DEF Watched, SameOwner, Owns
\* Steps that end where they began as far as owners and the cache go.
LEMMA OwnersQuiet ==
    ASSUME TypeOK, Progress, Acting, Next,
           \/ WaitForPod \/ Flush
           \/ \E p \in Pod : ChangePod(p) \/ Observe(p) \/ QueueHandler(p) \/ Tick(p)
           \/ \E e \in Event : ClusterEvent(e)
           \/ \E p \in Pod : NextPod(p)
           \/ SkipPod \/ ScheduleError \/ \E n \in Node : Schedule(n)
           \/ \E pl \in SUBSET Plugin, n \in Names : NoFit(pl, n)
           \/ \E x \in Actor : Lookup(x) \/ Requeue(x) \/ Nominate(x) \/ Patch(x)
    PROVE  UNCHANGED cacheVars /\ \A p \in Pod, x \in Actor : SameOwner(x, p)
<1>1. CASE \/ WaitForPod \/ Flush
           \/ \E p \in Pod : ChangePod(p) \/ Observe(p) \/ QueueHandler(p) \/ Tick(p)
           \/ \E e \in Event : ClusterEvent(e)
  <2>1. Watched
    BY <1>1, WatchedSteps
  <2>2. UNCHANGED cacheVars
    BY <1>1 DEF WaitForPod, Flush, ChangePod, Observe, QueueHandler, Tick, ClusterEvent
  <2> QED
    BY <2>1, <2>2, WatchedSame
<1>2. ASSUME NEW x \in Actor, NEW s, NEW p, NEW n, Becomes(x, s, p, n), s \notin Owning,
             act[x].stage \notin Owning
      PROVE  \A q \in Pod, y \in Actor : SameOwner(y, q)
  BY <1>2, BecomesSame
<1>3. CASE \E p \in Pod : NextPod(p)
  <2>1. PICK p \in Pod : NextPod(p)
    BY <1>3
  <2>2. Becomes(Loop, "popped", p, NoNode) /\ act[Loop].stage = "idle" /\ UNCHANGED cacheVars
    BY <2>1, NextPodAct DEF NextPod, At
  <2> QED
    BY <1>2, <2>2, LoopActor DEF Owning
<1>4. CASE \/ SkipPod \/ ScheduleError \/ \E n \in Node : Schedule(n)
           \/ \E pl \in SUBSET Plugin, n \in Names : NoFit(pl, n)
  <2>1. act[Loop].stage = "popped" /\ UNCHANGED cacheVars
    BY <1>4 DEF SkipPod, ScheduleError, Schedule, NoFit, At
  <2>2. \E s, p, n : Becomes(Loop, s, p, n) /\ s \in {"idle", "lookup", "chosen"}
    BY <1>4, LoopActs
  <2> QED
    BY <1>2, <2>1, <2>2, LoopActor DEF Owning
<1>5. ASSUME NEW x \in Actor, Lookup(x) \/ Requeue(x) \/ Nominate(x) \/ Patch(x)
      PROVE  UNCHANGED cacheVars /\ \A q \in Pod, y \in Actor : SameOwner(y, q)
  <2>1. act[x].stage \in {"lookup", "requeue", "nominate", "patch"} /\ UNCHANGED cacheVars
    BY <1>5 DEF Lookup, Requeue, Nominate, Patch, At
  <2>2. \E s, p, n : Becomes(x, s, p, n) /\ s \in {"idle", "requeue", "nominate", "patch"}
    BY <1>5, LookupAct, RequeueAct, ActorActs
  <2> QED
    BY <1>2, <2>1, <2>2 DEF Owning
<1> QED
  BY <1>1, <1>3, <1>4, <1>5

\* The loop assumes a pod that is not in the cache.
LEMMA OwnersAssume ==
    ASSUME TypeOK, Acting, Grows, \A p \in Pod : PodOwned(p), Assume, NEW q \in Pod
    PROVE  PodOwned(q)'
<1> DEFINE p == act[Loop].pod
           n == act[Loop].node
<1>0. /\ act[Loop].stage = "chosen" /\ p \in Pod /\ n \in Node /\ Loop \in Actor
      /\ NoNode \notin Node
  BY LoopActor, QueueAssumption DEF Assume, At, Acting
<1>1. CASE where[p] # NoNode /\ Becomes(Loop, "lookup", p, NoNode) /\ UNCHANGED cacheVars
  BY <1>0, <1>1, Untouched, BecomesSame DEF cacheVars, Owning
<1>2. CASE /\ where[p] = NoNode /\ Becomes(Loop, "assumed", p, n)
           /\ Cache!Assume(p, n) /\ UNCHANGED finished
  <2>1. /\ where' = [where EXCEPT ![p] = n] /\ assumed' = assumed \cup {p}
        /\ finished' = finished
    BY <1>2 DEF Cache!Assume
  <2>2. where \in [Pod -> Names] /\ finished \subseteq assumed
    BY DEF TypeOK
  <2>3. CASE q # p
    <3>1. where'[q] = where[q] /\ (q \in assumed' <=> q \in assumed)
      BY <2>1, <2>2, <2>3
    <3> QED
      BY <1>0, <1>2, <2>1, <2>3, <3>1, Untouched, BecomesSame DEF Owning
  <2>4. CASE q = p
    <3>1. q \notin assumed /\ q \notin finished /\ q \in assumed' /\ where'[q] = n
      BY <1>2, <2>1, <2>2, <2>4 DEF PodOwned
    <3>2. API(q)'.node = Pending => API(q).node = Pending
      BY DEF Grows
    <3>3. Owns(Loop, q)' /\ act'[Loop].node = n
      BY <1>2, <2>4 DEF Becomes, Owns
    <3>4. ASSUME NEW x \in Actor, Owns(x, q)', x # Loop, API(q)'.node = Pending,
                 "slowForget" \notin Faults
          PROVE  FALSE
      <4>1. Owns(x, q)
        BY <1>2, <3>4 DEF Becomes, Owns
      <4> QED
        BY <3>1, <3>2, <3>4, <4>1 DEF PodOwned
    <3>5. q \notin finished'
      BY <2>1, <3>1
    <3>6. /\ where'[q] # NoNode
          /\ \E x \in Actor : Owns(x, q)' /\ act'[x].node = where'[q]
      BY <1>0, <3>1, <3>3
    <3>7. "slowForget" \in Faults \/ API(q)'.node # Pending \/ \A x \in Actor :
              Owns(x, q)' => x = Loop
      BY <3>4
    <3> QED
      BY <3>1, <3>3, <3>5, <3>6, <3>7 DEF PodOwned
  <2> QED
    BY <2>3, <2>4
<1> QED
  BY <1>1, <1>2, AssumeAct

\* The loop's pod changes hands.
LEMMA OwnersStartBinding ==
    ASSUME TypeOK, Acting, Grows, NEW b \in Binder, StartBinding(b), NEW q \in Pod,
           PodOwned(q)
    PROVE  PodOwned(q)'
<1>1. /\ \A y \in Actor : y # b /\ y # Loop => act'[y] = act[y]
      /\ act'[Loop].stage = "idle"
      /\ act'[b].stage = "bind" /\ act'[b].pod = act[Loop].pod
      /\ act'[b].node = act[Loop].node
  BY StartBindingAct, IdleFields
<1>2. /\ act[Loop].stage = "assumed" /\ act[b].stage = "idle" /\ UNCHANGED cacheVars
      /\ b \in Actor /\ Loop \in Actor
  BY LoopActor DEF StartBinding, At
<1>3. API(q)'.node = Pending => API(q).node = Pending
  BY DEF Grows
<1>4. /\ Owns(b, q)' <=> Owns(Loop, q)
      /\ ~Owns(Loop, q)' /\ ~Owns(b, q)
      /\ \A y \in Actor : y # b /\ y # Loop => (Owns(y, q)' <=> Owns(y, q))
  BY <1>1, <1>2 DEF Owns
<1>5. where' = where /\ assumed' = assumed /\ finished' = finished
  BY <1>2 DEF cacheVars
<1>6. q \in assumed' => /\ where'[q] # NoNode
                        /\ API(q)'.node = Pending =>
                              \E x \in Actor : Owns(x, q)' /\ act'[x].node = where'[q]
  BY <1>1, <1>2, <1>3, <1>4, <1>5 DEF PodOwned
<1>7. "slowForget" \in Faults \/ API(q)'.node # Pending \/ \A x \in Actor :
          Owns(x, q)' => /\ q \in assumed' /\ where'[q] = act'[x].node
                         /\ act'[x].stage # "forget" => q \notin finished'
  BY <1>1, <1>2, <1>3, <1>4, <1>5 DEF PodOwned
<1>8. "slowForget" \in Faults \/ API(q)'.node # Pending \/ \A x, y \in Actor :
          Owns(x, q)' /\ Owns(y, q)' => x = y
  BY <1>2, <1>3, <1>4 DEF PodOwned
<1> QED
  BY <1>6, <1>7, <1>8 DEF PodOwned

\* An owner moves on to another stage and keeps its pod; one about to forget it
\* may have called FinishBinding.
LEMMA OwnersAdvance ==
    ASSUME TypeOK, Grows, NEW x \in Actor, NEW s, act[x].stage \in Owning \ {"forget"},
           s \in {"refused", "forget"}, Becomes(x, s, act[x].pod, act[x].node),
           UNCHANGED <<where, assumed>>,
           \/ UNCHANGED finished
           \/ s = "forget" /\ finished' = finished \cup ({act[x].pod} \cap assumed),
           NEW q \in Pod, PodOwned(q)
    PROVE  PodOwned(q)'
<1>1. API(q)'.node = Pending => API(q).node = Pending
  BY DEF Grows
<1>2. \A y \in Actor : Owns(y, q)' <=> Owns(y, q)
  BY DEF Becomes, Owns, Owning
<1>3. \A y \in Actor : act'[y].node = act[y].node /\ (y # x => act'[y] = act[y])
  BY DEF Becomes
<1>4. q \in assumed' => /\ where'[q] # NoNode
                        /\ API(q)'.node = Pending =>
                              \E y \in Actor : Owns(y, q)' /\ act'[y].node = where'[q]
  BY <1>1, <1>2, <1>3 DEF PodOwned
<1>5. ASSUME "slowForget" \notin Faults, API(q)'.node = Pending, NEW y \in Actor, Owns(y, q)'
      PROVE  /\ q \in assumed' /\ where'[q] = act'[y].node
             /\ act'[y].stage # "forget" => q \notin finished'
  <2>1. Owns(y, q) /\ API(q).node = Pending
    BY <1>1, <1>2, <1>5
  <2>2. /\ q \in assumed /\ where[q] = act[y].node
        /\ act[y].stage # "forget" => q \notin finished
    BY <1>5, <2>1 DEF PodOwned
  <2>3. ASSUME act'[y].stage # "forget" PROVE q \notin finished'
    <3>1. CASE y = x
      BY <2>2, <2>3, <3>1, <2>1 DEF Becomes, Owns
    <3>2. CASE y # x
      <4>1. act[x].pod # q
        BY <1>5, <2>1, <3>2 DEF PodOwned, Owns, Owning
      <4> QED
        BY <1>3, <2>2, <2>3, <3>2, <4>1
    <3> QED
      BY <3>1, <3>2
  <2> QED
    BY <1>3, <2>2, <2>3
<1>6. "slowForget" \in Faults \/ API(q)'.node # Pending \/ \A y, z \in Actor :
          Owns(y, q)' /\ Owns(z, q)' => y = z
  BY <1>1, <1>2 DEF PodOwned
<1> QED
  BY <1>4, <1>5, <1>6 DEF PodOwned
\* The cache drops p: it was forgotten, or it expired.
LEMMA OwnersForget ==
    ASSUME TypeOK, Grows, NEW x \in Actor, ForgetPod(x), NEW q \in Pod, PodOwned(q)
    PROVE  PodOwned(q)'
<1> DEFINE p == act[x].pod
<1>1. Becomes(x, "lookup", p, NoNode) /\ act[x].stage = "forget"
  BY ActorActs DEF ForgetPod, At
<1>2. where \in [Pod -> Names] /\ assumed \in SUBSET Pod /\ finished \in SUBSET assumed
  BY DEF TypeOK
<1>3. CASE q # p
  <2>1. /\ where'[q] = where[q] /\ (q \in assumed' <=> q \in assumed)
        /\ q \in finished' <=> q \in finished
    BY <1>2, <1>3 DEF ForgetPod, Cache!Drop, cacheVars
  <2> QED
    BY <1>1, <1>3, <2>1, Untouched, BecomesSame DEF Owning
<1>4. CASE q = p
  <2>1. API(q)'.node = Pending => API(q).node = Pending
    BY DEF Grows
  <2>2. /\ \A y \in Actor : Owns(y, q)' => Owns(y, q) /\ y # x
        /\ \A y \in Actor : Owns(y, q) /\ y # x => Owns(y, q)'
        /\ \A y \in Actor : y # x => act'[y] = act[y]
    BY <1>1 DEF Becomes, Owns
  <2>3. Owns(x, q)
    BY <1>1, <1>4 DEF Owns
  <2>4. CASE q \in assumed /\ where[q] = act[x].node
    <3>1. q \notin assumed'
      BY <1>4, <2>4 DEF ForgetPod, Cache!Drop
    <3>2. "slowForget" \in Faults \/ API(q)'.node # Pending \/ \A y \in Actor : ~Owns(y, q)'
      BY <2>1, <2>2, <2>3 DEF PodOwned
    <3> QED
      BY <3>1, <3>2 DEF PodOwned
  <2>5. CASE ~(q \in assumed /\ where[q] = act[x].node)
    <3>1. where' = where /\ assumed' = assumed /\ finished' = finished
      BY <1>4, <2>5 DEF ForgetPod, cacheVars
    <3>2. q \in assumed' => /\ where'[q] # NoNode
                            /\ API(q)'.node = Pending =>
                                \E y \in Actor : Owns(y, q)' /\ act'[y].node = where'[q]
      BY <2>1, <2>2, <2>5, <3>1 DEF PodOwned
    <3>3. "slowForget" \in Faults \/ API(q)'.node # Pending \/ \A y \in Actor : ~Owns(y, q)'
      BY <2>1, <2>2, <2>3 DEF PodOwned
    <3> QED
      BY <3>2, <3>3 DEF PodOwned
  <2> QED
    BY <2>4, <2>5
<1> QED
  BY <1>3, <1>4

\* A pod expires only after FinishBinding, when no owner is left but one about
\* to forget it.
LEMMA OwnersExpire ==
    ASSUME TypeOK, Grows, NEW p \in Pod, Expire(p), NEW q \in Pod, PodOwned(q)
    PROVE  PodOwned(q)'
<1>1. where \in [Pod -> Names] /\ act' = act
  BY DEF TypeOK, Expire
<1>2. \A y \in Actor : SameOwner(y, q)
  BY <1>1 DEF SameOwner, Owns
<1>3. CASE q # p
  <2>1. /\ where'[q] = where[q] /\ (q \in assumed' <=> q \in assumed)
        /\ q \in finished' <=> q \in finished
    BY <1>1, <1>3 DEF Expire, Cache!Drop
  <2> QED
    BY <1>2, <2>1, Untouched
<1>4. CASE q = p
  <2>1. q \notin assumed'
    BY <1>4 DEF Expire, Cache!Drop
  <2>2. API(q)'.node = Pending => API(q).node = Pending
    BY DEF Grows
  <2>3. "slowForget" \in Faults \/ API(q).node # Pending \/ \A y \in Actor : ~Owns(y, q)
    BY <1>4 DEF Expire, PodOwned, Owns, At
  <2>4. "slowForget" \in Faults \/ API(q)'.node # Pending \/ \A y \in Actor : ~Owns(y, q)'
    BY <1>2, <2>2, <2>3 DEF SameOwner
  <2> QED
    BY <2>1, <2>4 DEF PodOwned
<1> QED
  BY <1>3, <1>4

\* The informer confirms a pod or reports its deletion: it is pending no more.
LEMMA OwnersCacheHandler ==
    ASSUME TypeOK, History, Progress, Grows, NEW p \in Pod, CacheHandler(p), NEW q \in Pod,
           PodOwned(q)
    PROVE  PodOwned(q)'
<1> DEFINE old == Version(p, cacheAt[p]).node
           new == Version(p, cacheAt[p] + 1).node
<1>1. /\ \A r \in Pod : r # p => where'[r] = where[r]
      /\ where'[p] = IF old \notin Node THEN new ELSE IF new \in Node THEN where[p] ELSE NoNode
      /\ assumed' = assumed \/ (assumed' = assumed \ {p} /\ old \notin Node)
      /\ p \in assumed' => old \in Node /\ new \in Node
      /\ finished' = finished \ {p}
  BY CacheHandlerCache
<1> HIDE DEF old, new
<1>2. CASE q # p
  <2>1. \A y \in Actor : SameOwner(y, q)
    BY WatchedSteps, WatchedSame
  <2> QED
    BY <1>1, <1>2, <2>1, Untouched
<1>3. CASE q = p
  <2>1. API(q).node # Pending
    BY <1>3, CacheHears DEF CacheHandler
  <2>2. API(q)'.node # Pending
    BY <2>1 DEF Grows
  <2>3. q \in assumed' => where'[q] # NoNode
    BY <1>1, <1>3 DEF PodOwned
  <2> QED
    BY <2>2, <2>3, NoLongerPending
<1> QED
  BY <1>2, <1>3

\* Every step keeps the invariants on owners.
LEMMA OwnersKept ==
    ASSUME TypeOK, History, Progress, Acting, Grows, \A p \in Pod : PodOwned(p), Next,
           NEW q \in Pod
    PROVE  PodOwned(q)'
<1>1. CASE \/ WaitForPod \/ Flush
           \/ \E p \in Pod : ChangePod(p) \/ Observe(p) \/ QueueHandler(p) \/ Tick(p)
           \/ \E e \in Event : ClusterEvent(e)
           \/ \E p \in Pod : NextPod(p)
           \/ SkipPod \/ ScheduleError \/ \E n \in Node : Schedule(n)
           \/ \E pl \in SUBSET Plugin, n \in Names : NoFit(pl, n)
           \/ \E x \in Actor : Lookup(x) \/ Requeue(x) \/ Nominate(x) \/ Patch(x)
  <2>1. UNCHANGED cacheVars /\ \A p \in Pod, x \in Actor : SameOwner(x, p)
    BY <1>1, OwnersQuiet
  <2> QED
    BY <2>1, Untouched DEF cacheVars
<1>2. CASE Assume
  BY <1>2, OwnersAssume
<1>3. CASE \E b \in Binder : StartBinding(b)
  BY <1>3, OwnersStartBinding
<1>4. ASSUME NEW b \in Binder, Bind(b) PROVE PodOwned(q)'
  <2>0. b \in Actor /\ act[b].stage = "bind" /\ UNCHANGED cacheVars
    BY <1>4, LoopActor DEF Bind, At
  <2>1. ASSUME Becomes(b, "refused", act[b].pod, act[b].node) PROVE PodOwned(q)'
    BY <2>0, <2>1, OwnersAdvance DEF Owning, cacheVars
  <2>2. ASSUME Becomes(b, "bound", act[b].pod, act[b].node),
               \A p \in Pod : p = act[b].pod => API(p)'.node = act[b].node
        PROVE  PodOwned(q)'
    <3>1. CASE q = act[b].pod
      <4>1. act[b].node \in Node /\ Pending \notin Node
        BY <2>0, SchedulerAssumption DEF Acting
      <4>2. API(q)'.node # Pending
        BY <2>2, <3>1, <4>1
      <4> QED
        BY <2>0, <4>2, NoLongerPending DEF PodOwned, cacheVars
    <3>2. CASE q # act[b].pod
      BY <2>0, <2>2, <3>2, Untouched, BecomesSame DEF cacheVars
    <3> QED
      BY <3>1, <3>2
  <2> QED
    BY <1>4, <2>1, <2>2, BindAct
<1>5. ASSUME NEW x \in Actor, FinishBinding(x) PROVE PodOwned(q)'
  <2>0. /\ UNCHANGED <<where, assumed>>
        /\ finished' = finished \cup ({act[x].pod} \cap assumed)
    BY <1>5 DEF FinishBinding
  <2>1. ASSUME At(x, "bound"), Becomes(x, "idle", NoNode, NoNode) PROVE PodOwned(q)'
    <3>1. CASE q = act[x].pod
      <4>1. API(q).node # Pending
        BY <2>1, <3>1 DEF At, Acting
      <4>2. API(q)'.node # Pending
        BY <4>1 DEF Grows
      <4> QED
        BY <2>0, <4>2, NoLongerPending DEF PodOwned
    <3>2. CASE q # act[x].pod
      <4>1. \A y \in Actor : SameOwner(y, q)
        BY <2>1, <3>2, BecomesSame DEF Owning
      <4>2. q \in finished' <=> q \in finished
        BY <2>0, <3>2
      <4> QED
        BY <2>0, <4>1, <4>2, Untouched
    <3> QED
      BY <3>1, <3>2
  <2>2. ASSUME At(x, "refused"), Becomes(x, "forget", act[x].pod, act[x].node)
        PROVE  PodOwned(q)'
    BY <2>0, <2>2, OwnersAdvance DEF At, Owning
  <2> QED
    BY <1>5, <2>1, <2>2, ActorActs
<1>6. ASSUME NEW x \in Actor, PluginFails(x) PROVE PodOwned(q)'
  <2>1. /\ act[x].stage \in {"assumed", "bind"} /\ UNCHANGED cacheVars
        /\ Becomes(x, "forget", act[x].pod, act[x].node)
    BY <1>6, ActorActs DEF PluginFails, At
  <2> QED
    BY <2>1, OwnersAdvance DEF Owning, cacheVars
<1>7. CASE \E x \in Actor : ForgetPod(x)
  BY <1>7, OwnersForget
<1>8. CASE \E p \in Pod : Expire(p)
  BY <1>8, OwnersExpire
<1>9. CASE \E p \in Pod : CacheHandler(p)
  BY <1>9, OwnersCacheHandler
<1> QED
  BY <1>1, <1>2, <1>3, <1>4, <1>5, <1>6, <1>7, <1>8, <1>9, LoopActor DEF Next, Names
-----------------------------------------------------------------------------
(***************************************************************************)
(* No pod is lost, pod by pod.                                             *)
(***************************************************************************)
Holding == {"popped", "chosen", "assumed", "bind", "bound", "refused", "forget", "lookup",
            "requeue"}

\* NoPodLost, of one pod.
PodKept(p) ==
    queueAt[p] > 0 /\ API(p).node = Pending => p \in Queued \/ \E x \in Actor : Holds(x, p)

\* A step that keeps the pod's place and its holders, or puts it in the queue.
LEMMA StillKept ==
    ASSUME Grows, NEW q \in Pod, PodKept(q), queueAt'[q] = queueAt[q],
           q \in Queued => q \in Queued',
           \A x \in Actor : Holds(x, q) => q \in Queued' \/ \E y \in Actor : Holds(y, q)'
    PROVE  PodKept(q)'
<1>1. API(q)'.node = Pending => API(q).node = Pending
  BY DEF Grows
<1> QED
  BY <1>1 DEF PodKept

\* A step of an actor keeps its pod while the stage does.
LEMMA BecomesHolds ==
    ASSUME NEW x \in Actor, NEW s, NEW p, NEW n, Becomes(x, s, p, n), NEW q \in Pod,
           act[x].pod # q \/ act[x].stage \notin Holding \/ (s \in Holding /\ p = q)
    PROVE  \A y \in Actor : Holds(y, q) => Holds(y, q)'
<1> SUFFICES ASSUME NEW y \in Actor, Holds(y, q) PROVE Holds(y, q)'
  OBVIOUS
<1>1. CASE y # x
  BY <1>1 DEF Becomes, Holds
<1>2. CASE y = x
  BY <1>2 DEF Becomes, Holds, Holding
<1> QED
  BY <1>1, <1>2

\* A step that leaves the actors alone leaves the holders alone.
LEMMA WatchedHolds ==
    ASSUME Watched, NEW q \in Pod
    PROVE  \A y \in Actor : Holds(y, q) => Holds(y, q)'
  BY DEF Watched, Holds

\* Steps after which a pod is where it was.
LEMMA KeptQuiet ==
    ASSUME TypeOK, Acting, History, Grows, Next, NEW q \in Pod, PodKept(q),
           \/ WaitForPod \/ Flush
           \/ \E p \in Pod : Expire(p) \/ ChangePod(p) \/ Observe(p) \/ CacheHandler(p) \/ Tick(p)
           \/ \E e \in Event : ClusterEvent(e)
           \/ ScheduleError \/ Assume \/ \E n \in Node : Schedule(n)
           \/ \E pl \in SUBSET Plugin, n \in Names : NoFit(pl, n)
           \/ \E b \in Binder : Bind(b)
           \/ \E x \in Actor : PluginFails(x) \/ ForgetPod(x) \/ Nominate(x) \/ Patch(x)
    PROVE  PodKept(q)'
<1>0. QueueInv
  BY DEF TypeOK
<1>1. CASE \/ WaitForPod \/ Flush
           \/ \E p \in Pod : Expire(p) \/ ChangePod(p) \/ Observe(p) \/ CacheHandler(p) \/ Tick(p)
           \/ \E e \in Event : ClusterEvent(e)
  <2>1. Watched
    BY <1>1, WatchedSteps
  <2>2. Queued' = Queued
    <3>1. CASE Flush
      BY <1>0, <3>1, FlushEffect
    <3>2. CASE \E p \in Pod : CacheHandler(p)
      BY <3>2, CacheHandlerEffect
    <3>3. CASE \E e \in Event : ClusterEvent(e)
      BY <1>0, <3>3, MoveEffect DEF ClusterEvent, MoveAllToActiveOrBackoffQueue
    <3>4. CASE WaitForPod \/ \E p \in Pod : Tick(p)
      BY <3>4 DEF WaitForPod, PopWait, Tick, Queued
    <3>5. CASE \E p \in Pod : Expire(p) \/ ChangePod(p) \/ Observe(p)
      BY <3>5 DEF Expire, ChangePod, Observe, queueVars, Queued
    <3> QED
      BY <1>1, <3>1, <3>2, <3>3, <3>4, <3>5
  <2>3. queueAt' = queueAt
    BY <1>1 DEF WaitForPod, Flush, Expire, ChangePod, Observe, CacheHandler, Tick,
                ClusterEvent, informerVars
  <2> QED
    BY <2>1, <2>2, <2>3, WatchedHolds, StillKept
<1>2. ASSUME NEW x \in Actor, NEW s, NEW n, Becomes(x, s, act[x].pod, n), s \in Holding,
             queueAt' = queueAt, Queued' = Queued
      PROVE  PodKept(q)'
  BY <1>2, BecomesHolds, StillKept
<1>3. CASE \/ ScheduleError \/ \E n \in Node : Schedule(n)
           \/ \E pl \in SUBSET Plugin, n \in Names : NoFit(pl, n)
  <2>1. queueAt' = queueAt /\ Queued' = Queued
    BY <1>3 DEF ScheduleError, Schedule, NoFit, queueVars, informerVars, Queued
  <2>2. \E s, n : Becomes(Loop, s, act[Loop].pod, n) /\ s \in Holding
    BY <1>3, LoopActs DEF Holding
  <2> QED
    BY <1>2, <2>1, <2>2, LoopActor
<1>4. CASE Assume
  <2>1. queueAt' = queueAt /\ Queued' = Queued
    BY <1>4 DEF Assume, informerVars, Queued
  <2>2. \E s, n : Becomes(Loop, s, act[Loop].pod, n) /\ s \in Holding
    BY <1>4, AssumeAct DEF Holding
  <2> QED
    BY <1>2, <2>1, <2>2, LoopActor
<1>5. ASSUME NEW b \in Binder, Bind(b) PROVE PodKept(q)'
  <2>1. queueAt' = queueAt /\ Queued' = Queued
    BY <1>5 DEF Bind, queueVars, informerVars, Queued
  <2>2. \E s, n : Becomes(b, s, act[b].pod, n) /\ s \in Holding
    BY <1>5, BindAct DEF Holding
  <2> QED
    BY <1>2, <2>1, <2>2, LoopActor
<1>6. ASSUME NEW x \in Actor, PluginFails(x) \/ ForgetPod(x) PROVE PodKept(q)'
  <2>1. queueAt' = queueAt /\ Queued' = Queued
    BY <1>6 DEF PluginFails, ForgetPod, queueVars, informerVars, Queued
  <2>2. \E s, n : Becomes(x, s, act[x].pod, n) /\ s \in Holding
    BY <1>6, ActorActs DEF Holding
  <2> QED
    BY <1>2, <2>1, <2>2
<1>7. ASSUME NEW x \in Actor, Nominate(x) \/ Patch(x) PROVE PodKept(q)'
  <2>1. /\ queueAt' = queueAt /\ Queued' = Queued
        /\ act[x].stage \in {"nominate", "patch"}
    BY <1>7 DEF Nominate, Patch, queueVars, informerVars, Queued, At
  <2>2. \E s, p, n : Becomes(x, s, p, n)
    BY <1>7, ActorActs
  <2>3. \A y \in Actor : Holds(y, q) => Holds(y, q)'
    BY <2>1, <2>2, BecomesHolds DEF Holding
  <2> QED
    BY <2>1, <2>3, StillKept
<1> QED
  BY <1>1, <1>3, <1>4, <1>5, <1>6, <1>7

\* The handler for the queue drops only pods that are bound or gone, and skips
\* only pods it was told of before.
LEMMA KeptQueueHandler ==
    ASSUME TypeOK, Progress, History, Grows, NEW q \in Pod, PodKept(q), NEW p \in Pod,
           QueueHandler(p)
    PROVE  PodKept(q)'
<1> DEFINE old == Version(p, queueAt[p])
           new == Version(p, queueAt[p] + 1)
<1>1. Watched
  BY WatchedSteps
<1>2. queueAt' = [queueAt EXCEPT ![p] = @ + 1] /\ queueAt \in [Pod -> Nat]
  BY DEF QueueHandler, TypeOK
<1>3. CASE q # p
  <2>1. queueAt'[q] = queueAt[q]
    BY <1>2, <1>3
  <2>2. q \in Queued => q \in Queued'
    <3>1. \/ Add(p, new.nnn) \/ Delete(p) \/ UNCHANGED queueVars
          \/ \E updated \in BOOLEAN : Update(p, old.nnn, new.nnn, updated)
      BY DEF QueueHandler
    <3> HIDE DEF old, new
    <3> QED
      BY <1>3, <3>1 DEF Add, Delete, Update, queueVars, Queued
  <2> QED
    BY <1>1, <2>1, <2>2, WatchedHolds, StillKept
<1>4. CASE q = p
  <2>1. CASE new.node = Pending /\ (Add(p, new.nnn) \/ \E updated \in BOOLEAN :
                                                   Update(p, old.nnn, new.nnn, updated))
    <3>1. p \in Queued'
      <4> HIDE DEF old, new
      <4> QED
        BY <2>1 DEF Add, Update, Queued
    <3> QED
      BY <1>4, <3>1 DEF PodKept
  <2>2. CASE old.node = Pending /\ UNCHANGED queueVars
    <3>1. queueAt[p] > 0
      BY <1>2, <2>2, SchedulerAssumption DEF Version
    <3>2. Queued' = Queued
      BY <2>2 DEF queueVars, Queued
    <3>3. API(q)'.node = Pending => API(q).node = Pending
      BY DEF Grows
    <3>4. \A y \in Actor : Holds(y, q) => Holds(y, q)'
      BY <1>1, WatchedHolds
    <3> QED
      BY <1>4, <3>1, <3>2, <3>3, <3>4 DEF PodKept
  <2>3. CASE new.node # Pending
    <3>1. /\ queueAt[p] + 1 \in 1..Len(versions[p]) /\ queueAt[p] + 1 # 0
      BY <1>2 DEF QueueHandler, Progress, TypeOK
    <3>2. new = versions[p][queueAt[p] + 1]
      BY <3>1 DEF Version
    <3>3. API(p).node # Pending
      BY <2>3, <3>1, <3>2, LastVersion
    <3>4. API(q)'.node # Pending
      BY <1>4, <3>3 DEF Grows
    <3> QED
      BY <3>4 DEF PodKept
  <2> QED
    BY <2>1, <2>2, <2>3 DEF QueueHandler
<1> QED
  BY <1>3, <1>4
\* Every step keeps every pod.
LEMMA PodsKept ==
    ASSUME TypeOK, History, Progress, Acting, Grows, Next, NEW q \in Pod, PodKept(q),
           PodOwned(q)
    PROVE  PodKept(q)'
<1>1. CASE \/ WaitForPod \/ Flush
           \/ \E p \in Pod : Expire(p) \/ ChangePod(p) \/ Observe(p) \/ CacheHandler(p) \/ Tick(p)
           \/ \E e \in Event : ClusterEvent(e)
           \/ ScheduleError \/ Assume \/ \E n \in Node : Schedule(n)
           \/ \E pl \in SUBSET Plugin, n \in Names : NoFit(pl, n)
           \/ \E b \in Binder : Bind(b)
           \/ \E x \in Actor : PluginFails(x) \/ ForgetPod(x) \/ Nominate(x) \/ Patch(x)
  BY <1>1, KeptQuiet
<1>2. CASE \E p \in Pod : QueueHandler(p)
  BY <1>2, KeptQueueHandler
<1>3. ASSUME NEW p \in Pod, NextPod(p) PROVE PodKept(q)'
  <2>1. /\ Becomes(Loop, "popped", p, NoNode) /\ act[Loop].stage = "idle"
        /\ queueAt' = queueAt
    BY <1>3, NextPodAct DEF NextPod, At, informerVars
  <2>2. q # p /\ q \in Queued => q \in Queued'
    BY <1>3 DEF NextPod, Pop, Queued
  <2>3. CASE q = p
    <3>1. Holds(Loop, q)'
      BY <2>1, <2>3 DEF Becomes, Holds
    <3> QED
      BY <3>1, LoopActor DEF PodKept
  <2>4. CASE q # p
    BY <2>1, <2>2, <2>4, LoopActor, BecomesHolds, StillKept DEF Holding
  <2> QED
    BY <2>3, <2>4
<1>4. CASE SkipPod
  <2>1. /\ Becomes(Loop, "idle", NoNode, NoNode) /\ act[Loop].stage = "popped"
        /\ queueAt' = queueAt /\ Queued' = Queued
        /\ API(act[Loop].pod).node = Gone \/ act[Loop].pod \in assumed
    BY <1>4, LoopActs DEF SkipPod, At, informerVars, queueVars, Queued
  <2>2. CASE q # act[Loop].pod
    BY <2>1, <2>2, LoopActor, BecomesHolds, StillKept
  <2>3. CASE q = act[Loop].pod /\ API(q).node = Pending
    <3>1. Pending # Gone
      BY SchedulerAssumption
    <3>2. PICK x \in Actor : Owns(x, q)
      BY <2>1, <2>3, <3>1 DEF PodOwned
    <3>3. x # Loop /\ Holds(x, q)
      BY <2>1, <3>2 DEF Owns, Holds
    <3>4. Holds(x, q)'
      BY <2>1, <3>3 DEF Becomes, Holds
    <3> QED
      BY <3>4 DEF PodKept
  <2>4. CASE API(q).node # Pending
    <3>1. API(q)'.node # Pending
      BY <2>4 DEF Grows
    <3> QED
      BY <3>1 DEF PodKept
  <2> QED
    BY <2>2, <2>3, <2>4
<1>5. ASSUME NEW b \in Binder, StartBinding(b) PROVE PodKept(q)'
  <2>1. /\ \A y \in Actor : y # b /\ y # Loop => act'[y] = act[y]
        /\ act'[b].stage = "bind" /\ act'[b].pod = act[Loop].pod
    BY <1>5, StartBindingAct
  <2>2. /\ act[b].stage = "idle" /\ queueAt' = queueAt /\ Queued' = Queued /\ b \in Actor
    BY <1>5, LoopActor DEF StartBinding, At, informerVars, queueVars, Queued
  <2>3. \A y \in Actor : Holds(y, q) => \E z \in Actor : Holds(z, q)'
    BY <2>1, <2>2 DEF Holds
  <2> QED
    BY <2>2, <2>3, StillKept
<1>6. ASSUME NEW x \in Actor, FinishBinding(x) PROVE PodKept(q)'
  <2>1. queueAt' = queueAt /\ Queued' = Queued
    BY <1>6 DEF FinishBinding, informerVars, queueVars, Queued
  <2>2. ASSUME At(x, "bound"), Becomes(x, "idle", NoNode, NoNode) PROVE PodKept(q)'
    <3>1. CASE q # act[x].pod
      BY <2>1, <2>2, <3>1, BecomesHolds, StillKept
    <3>2. CASE q = act[x].pod
      <4>1. API(q).node # Pending
        BY <2>2, <3>2 DEF At, Acting
      <4>2. API(q)'.node # Pending
        BY <4>1 DEF Grows
      <4> QED
        BY <4>2 DEF PodKept
    <3> QED
      BY <3>1, <3>2
  <2>3. ASSUME Becomes(x, "forget", act[x].pod, act[x].node) PROVE PodKept(q)'
    BY <2>1, <2>3, BecomesHolds, StillKept DEF Holding
  <2> QED
    BY <1>6, <2>2, <2>3, ActorActs
<1>7. ASSUME NEW x \in Actor, Lookup(x) PROVE PodKept(q)'
  <2> DEFINE p == act[x].pod
  <2>1. queueAt' = queueAt /\ Queued' = Queued
    BY <1>7 DEF Lookup, informerVars, queueVars, Queued
  <2>2. p \in Pod /\ storeAt[p] \in 1..Len(versions[p])
    BY <1>7, LookupAct DEF Lookup, At, Acting
  <2>3. CASE versions[p][storeAt[p]].node = Pending
    <3>1. Becomes(x, "requeue", p, act[x].node)
      BY <1>7, <2>3, LookupAct
    <3> QED
      BY <2>1, <3>1, BecomesHolds, StillKept DEF Holding
  <2>4. CASE versions[p][storeAt[p]].node # Pending
    <3>1. Becomes(x, "nominate", p, act[x].node)
      BY <1>7, <2>4, LookupAct
    <3>2. CASE q # p
      BY <2>1, <3>1, <3>2, BecomesHolds, StillKept
    <3>3. CASE q = p
      <4>1. API(q).node # Pending
        BY <2>2, <2>4, <3>3, LastVersion
      <4>2. API(q)'.node # Pending
        BY <4>1 DEF Grows
      <4> QED
        BY <4>2 DEF PodKept
    <3> QED
      BY <3>2, <3>3
  <2> QED
    BY <2>3, <2>4
<1>8. ASSUME NEW x \in Actor, Requeue(x) PROVE PodKept(q)'
  <2> DEFINE p == act[x].pod
  <2>1. queueAt' = queueAt /\ Becomes(x, "nominate", p, act[x].node)
    BY <1>8, RequeueAct DEF Requeue, informerVars
  <2>2. PICK cycle : AddUnschedulableIfNotPresent(p, cycle, act[x].pl, act[x].nnn)
    BY <1>8 DEF Requeue
  <2>3. p \in Queued' /\ (q \in Queued => q \in Queued')
    BY <2>2 DEF AddUnschedulableIfNotPresent, queueVars, Queued
  <2>4. CASE q = p
    BY <2>3, <2>4 DEF PodKept
  <2>5. CASE q # p
    BY <2>1, <2>3, <2>5, BecomesHolds, StillKept
  <2> QED
    BY <2>4, <2>5
<1> QED
  BY <1>1, <1>2, <1>3, <1>4, <1>5, <1>6, <1>7, <1>8, LoopActor DEF Next, Names
-----------------------------------------------------------------------------
(***************************************************************************)
(* Room on the nodes, when nothing goes wrong outside the scheduler.       *)
(***************************************************************************)
\* Only a binding goroutine of this scheduler binds a pod.
LEMMA BoundStep ==
    ASSUME TypeOK, History, Progress, Acting, Grows, Advances, Progress', Next, Faults = {},
           NEW p \in Pod, NEW n \in Node, Bound(p, n)'
    PROVE  \/ Bound(p, n)
           \/ \E b \in Binder : /\ Bind(b) /\ act[b].pod = p /\ act[b].node = n
                                /\ API(p).node = Pending
<1> DEFINE L == Len(versions[p])
           c == cacheAt[p]
<1>0. /\ L \in Nat /\ L >= 1 /\ c \in Nat /\ c <= L /\ cacheAt'[p] \in {c, c + 1}
      /\ cacheAt'[p] <= Len(versions'[p]) /\ Gone \notin Node
  <2>1. storeAt[p] \in Nat /\ storeAt'[p] \in Nat /\ c \in Nat /\ cacheAt'[p] \in {c, c + 1}
    BY DEF TypeOK, Advances
  <2>2. c <= storeAt[p] /\ storeAt[p] <= L
    BY DEF Progress
  <2>3. cacheAt'[p] <= storeAt'[p] /\ storeAt'[p] <= Len(versions'[p])
    BY DEF Progress
  <2>4. Len(versions'[p]) \in Nat
    BY DEF Grows
  <2> QED
    BY <2>1, <2>2, <2>3, <2>4, VersionType, SchedulerAssumption
<1>1. PICK i \in 1..Len(versions'[p]) : versions'[p][i].node = n
  BY DEF Bound
<1>2. ~(cacheAt'[p] >= 1 /\ versions'[p][cacheAt'[p]].node = Gone)
  BY DEF Bound
<1>3. versions'[p] = versions[p] \/ \E v \in Ver : Writes(p, v) /\ Cause(p, v)
  <2>1. ASSUME NEW q \in Pod, NEW v \in Ver, Writes(q, v), q # p
        PROVE  versions'[p] = versions[p]
    BY <2>1, WriteEffect
  <2> QED
    BY <2>1, VersionsStep
<1>4. ~(c >= 1 /\ versions[p][c].node = Gone)
  <2> SUFFICES ASSUME c >= 1, versions[p][c].node = Gone PROVE FALSE
    OBVIOUS
  <2>1. c \in 1..L
    BY <1>0
  <2>2. c = L /\ API(p).node = Gone
    BY <2>1, LastVersion DEF API
  <2>3. versions'[p] = versions[p]
    BY <1>3, <2>2 DEF Writes
  <2>4. cacheAt'[p] = c
    BY <1>0, <2>2, <2>3
  <2> QED
    BY <1>2, <2>3, <2>4
<1>5. ASSUME NEW j \in 1..L, versions[p][j].node = n PROVE Bound(p, n)
  BY <1>4, <1>5 DEF Bound
<1>6. CASE versions'[p] = versions[p]
  BY <1>1, <1>5, <1>6
<1>7. ASSUME NEW v \in Ver, Writes(p, v), Cause(p, v)
      PROVE  \/ Bound(p, n)
             \/ \E b \in Binder : /\ Bind(b) /\ act[b].pod = p /\ act[b].node = n
                                  /\ API(p).node = Pending
  <2>1. /\ Len(versions'[p]) = L + 1
        /\ \A j \in 1..L : versions'[p][j] = versions[p][j]
        /\ versions'[p][L + 1] = v
    BY <1>7, WriteEffect
  <2>2. CASE i \in 1..L
    BY <1>1, <1>5, <2>1, <2>2
  <2>3. CASE i = L + 1
    <3>1. v.node = n
      BY <1>1, <2>1, <2>3
    <3>2. CASE n = API(p).node
      <4>1. L \in 1..L /\ versions[p][L].node = n
        BY <1>0, <3>2 DEF API
      <4> QED
        BY <1>5, <4>1
    <3> QED
      BY <1>0, <1>7, <3>1, <3>2 DEF Cause
  <2> QED
    BY <1>0, <1>1, <2>1, <2>2, <2>3
<1> QED
  BY <1>3, <1>6, <1>7

\* BoundIsCounted and OwnersUnbound, of one pod.
PodCounted(p) ==
    /\ \A n \in Node : Bound(p, n) => where[p] = n
    /\ \A x \in Actor : Owns(x, p) => \A n \in Node : ~Bound(p, n)

\* The two invariants are PodCounted of every pod.
LEMMA CountedByPod ==
    (BoundIsCounted /\ OwnersUnbound) <=> (Faults = {} => \A p \in Pod : PodCounted(p))
  BY DEF BoundIsCounted, OwnersUnbound, PodCounted

\* The handler for the cache finds the pod where the scheduler counts it.
LEMMA HandlerAgrees ==
    ASSUME TypeOK, History, Progress, NEW p \in Pod, CacheHandler(p), PodCounted(p)
    PROVE  LET new == versions[p][cacheAt[p] + 1].node
           IN  \/ new \in Node /\ where[p] = new /\ UNCHANGED where
               \/ /\ new = Gone /\ where'[p] = NoNode
                  /\ \A q \in Pod : q # p => where'[q] = where[q]
<1> DEFINE c == cacheAt[p]
           old == Version(p, c).node
           new == Version(p, c + 1).node
<1>1. /\ c + 1 \in 1..Len(versions[p]) /\ new = versions[p][c + 1].node
      /\ old \notin Node => new \in Node
      /\ old \in Node => new \in {old, Gone}
  BY CacheHears DEF CacheHandler
<1>2. /\ where' \in [Pod -> Names] /\ where \in [Pod -> Names]
      /\ \A q \in Pod : q # p => where'[q] = where[q]
      /\ where'[p] = IF old \notin Node THEN new ELSE IF new \in Node THEN where[p] ELSE NoNode
  BY CacheHandlerCache DEF TypeOK
<1>3. c \in Nat /\ Gone \notin Node
  BY SchedulerAssumption DEF TypeOK
<1>4. ~(c >= 1 /\ versions[p][c].node = Gone)
  <2> SUFFICES ASSUME c >= 1, versions[p][c].node = Gone PROVE FALSE
    OBVIOUS
  <2>1. c \in 1..Len(versions[p]) /\ c # Len(versions[p])
    BY <1>1, <1>3, VersionType
  <2> QED
    BY <2>1, LastVersion
<1>5. CASE new \in Node
  <2>1. Bound(p, new)
    BY <1>1, <1>4 DEF Bound
  <2>2. where[p] = new
    BY <1>5, <2>1 DEF PodCounted
  <2>3. where'[p] = where[p]
    BY <1>2, <1>5, <2>2
  <2>4. where' = where
    BY <1>2, <2>3
  <2> QED
    BY <1>1, <1>5, <2>2, <2>4
<1>6. CASE new \notin Node
  <2>1. new = Gone /\ old \in Node
    BY <1>1, <1>6
  <2> QED
    BY <1>1, <1>2, <1>6, <2>1
<1> QED
  BY <1>5, <1>6
\* An owner was one before, or the loop has just assumed a pod not in the cache.
LEMMA OwnsStep ==
    ASSUME TypeOK, History, Progress, Acting, Next, NEW x \in Actor, NEW q \in Pod,
           Owns(x, q)'
    PROVE  (\E y \in Actor : Owns(y, q)) \/ (Assume /\ where[q] = NoNode)
<1>1. ASSUME NEW y \in Actor, NEW s, NEW p, NEW n, Becomes(y, s, p, n),
             s \notin Owning \/ (p = act[y].pod /\ act[y].stage \in Owning)
      PROVE  \E z \in Actor : Owns(z, q)
  <2>1. CASE x = y
    BY <1>1, <2>1 DEF Becomes, Owns, Owning
  <2>2. CASE x # y
    BY <1>1, <2>2 DEF Becomes, Owns
  <2> QED
    BY <2>1, <2>2
<1>2. CASE \/ WaitForPod \/ Flush
           \/ \E p \in Pod : ChangePod(p) \/ Observe(p) \/ QueueHandler(p) \/ Tick(p)
           \/ \E e \in Event : ClusterEvent(e)
           \/ \E p \in Pod : NextPod(p)
           \/ SkipPod \/ ScheduleError \/ \E n \in Node : Schedule(n)
           \/ \E pl \in SUBSET Plugin, n \in Names : NoFit(pl, n)
           \/ \E y \in Actor : Lookup(y) \/ Requeue(y) \/ Nominate(y) \/ Patch(y)
  BY <1>2, OwnersQuiet DEF SameOwner
<1>3. CASE \E p \in Pod : Expire(p) \/ CacheHandler(p)
  <2>1. Watched
    BY <1>3, WatchedSteps
  <2> QED
    BY <2>1, WatchedSame DEF SameOwner
<1>4. CASE Assume
  <2>1. CASE Becomes(Loop, "lookup", act[Loop].pod, NoNode)
    BY <1>1, <2>1, LoopActor DEF Owning
  <2>2. CASE /\ Becomes(Loop, "assumed", act[Loop].pod, act[Loop].node)
             /\ where[act[Loop].pod] = NoNode
    BY <1>4, <2>2 DEF Becomes, Owns
  <2> QED
    BY <1>4, <2>1, <2>2, AssumeAct
<1>5. ASSUME NEW b \in Binder, StartBinding(b) PROVE \E z \in Actor : Owns(z, q)
  <2>1. /\ \A y \in Actor : y # b /\ y # Loop => act'[y] = act[y]
        /\ act'[Loop].stage = "idle" /\ act'[b].pod = act[Loop].pod
    BY <1>5, StartBindingAct, IdleFields
  <2>2. act[Loop].stage = "assumed" /\ Loop \in Actor
    BY <1>5, LoopActor DEF StartBinding, At
  <2> QED
    BY <2>1, <2>2 DEF Owns
<1>6. ASSUME NEW b \in Binder, Bind(b) PROVE \E z \in Actor : Owns(z, q)
  <2>1. b \in Actor /\ act[b].stage = "bind"
    BY <1>6, LoopActor DEF Bind, At
  <2>2. \E s, n : Becomes(b, s, act[b].pod, n)
    BY <1>6, BindAct
  <2> QED
    BY <1>1, <2>1, <2>2 DEF Owning
<1>7. ASSUME NEW y \in Actor, FinishBinding(y) \/ PluginFails(y) \/ ForgetPod(y)
      PROVE  \E z \in Actor : Owns(z, q)
  <2>1. FinishBinding(y) => \/ Becomes(y, "idle", NoNode, NoNode)
                            \/ /\ act[y].stage = "refused"
                               /\ Becomes(y, "forget", act[y].pod, act[y].node)
    BY ActorActs DEF At
  <2>2. PluginFails(y) => /\ act[y].stage \in {"assumed", "bind"}
                          /\ Becomes(y, "forget", act[y].pod, act[y].node)
    BY ActorActs DEF PluginFails, At
  <2>3. ForgetPod(y) => Becomes(y, "lookup", act[y].pod, NoNode)
    BY ActorActs
  <2> QED
    BY <1>1, <1>7, <2>1, <2>2, <2>3 DEF Owning
<1> QED
  BY <1>2, <1>3, <1>4, <1>5, <1>6, <1>7, LoopActor DEF Next, Names

\* The cache grows only by what the loop assumes, and loses only what is not bound.
LEMMA WhereStep ==
    ASSUME TypeOK, History, Progress, Acting, Next, Faults = {}, NEW q \in Pod, PodCounted(q)
    PROVE  \/ where'[q] = where[q]
           \/ where'[q] = NoNode /\ \A n \in Node : ~Bound(q, n)'
           \/ /\ Assume /\ where[q] = NoNode /\ q = act[Loop].pod /\ act'[Loop].stage = "assumed"
              /\ where'[q] = act[Loop].node
<1>0. where \in [Pod -> Names]
  BY DEF TypeOK
<1>1. CASE UNCHANGED cacheVars
  BY <1>1 DEF cacheVars
<1>2. CASE Assume
  <2>1. CASE UNCHANGED cacheVars
    BY <2>1 DEF cacheVars
  <2>2. CASE /\ Cache!Assume(act[Loop].pod, act[Loop].node)
             /\ Becomes(Loop, "assumed", act[Loop].pod, act[Loop].node)
    BY <1>0, <1>2, <2>2 DEF Cache!Assume, Becomes
  <2> QED
    BY <1>2, <2>1, <2>2, AssumeAct
<1>3. ASSUME NEW x \in Actor, FinishBinding(x) PROVE where'[q] = where[q]
  BY <1>3 DEF FinishBinding
<1>4. ASSUME NEW x \in Actor, ForgetPod(x)
      PROVE  where'[q] = where[q] \/ (where'[q] = NoNode /\ \A n \in Node : ~Bound(q, n)')
  <2>1. CASE q # act[x].pod \/ UNCHANGED cacheVars
    BY <1>0, <1>4, <2>1 DEF ForgetPod, Cache!Drop, cacheVars
  <2>2. CASE q = act[x].pod /\ Cache!Drop({q})
    <3>1. Owns(x, q)
      BY <1>4, <2>2 DEF ForgetPod, At, Owns
    <3>2. versions' = versions /\ cacheAt' = cacheAt
      BY <1>4 DEF ForgetPod, informerVars
    <3>3. \A n \in Node : ~Bound(q, n)'
      BY <3>1, <3>2 DEF PodCounted, Bound
    <3>4. where'[q] = NoNode
      BY <2>2 DEF Cache!Drop
    <3> QED
      BY <3>3, <3>4
  <2> QED
    BY <1>4, <2>1, <2>2 DEF ForgetPod
<1>5. ASSUME NEW p \in Pod, Expire(p) PROVE FALSE
  BY <1>5 DEF Expire
<1>6. ASSUME NEW p \in Pod, CacheHandler(p)
      PROVE  where'[q] = where[q] \/ (where'[q] = NoNode /\ \A n \in Node : ~Bound(q, n)')
  <2>1. CASE q # p
    BY <1>6, <2>1, CacheHandlerCache
  <2>2. CASE q = p
    <3> DEFINE c == cacheAt[q]
    <3>1. /\ cacheAt'[q] = c + 1 /\ c + 1 >= 1 /\ versions' = versions
      BY <1>6, <2>2 DEF CacheHandler, TypeOK
    <3>2. CASE UNCHANGED where
      BY <3>2
    <3>3. CASE versions[q][c + 1].node = Gone /\ where'[q] = NoNode
      <4>1. \A n \in Node : ~Bound(q, n)'
        BY <3>1, <3>3 DEF Bound
      <4> QED
        BY <3>3, <4>1
    <3> QED
      BY <1>6, <2>2, <3>2, <3>3, HandlerAgrees
  <2> QED
    BY <2>1, <2>2
<1> QED
  BY <1>1, <1>2, <1>3, <1>4, <1>5, <1>6, CacheStep

\* A binding finds the pod already counted, and nothing uncounts it before its
\* deletion is reported.
LEMMA CountedKept ==
    ASSUME TypeOK, History, Progress, Acting, Grows, Advances, Progress', Next, Faults = {},
           NEW q \in Pod, PodOwned(q), PodCounted(q)
    PROVE  PodCounted(q)'
<1>0. NoNode \notin Node
  BY QueueAssumption
<1>1. ASSUME NEW b \in Binder, Bind(b), act[b].pod = q, API(q).node = Pending
      PROVE  /\ where[q] = act[b].node /\ UNCHANGED where /\ Owns(b, q)
             /\ act[b].node \in Node
             /\ \A x \in Actor : ~Owns(x, q)'
  <2>1. b \in Actor /\ Owns(b, q) /\ UNCHANGED cacheVars /\ act[b].node \in Node
    BY <1>1, LoopActor DEF Bind, At, Owns, Acting
  <2>2. where[q] = act[b].node /\ \A x \in Actor : Owns(x, q) => x = b
    BY <1>1, <2>1 DEF PodOwned
  <2>3. Becomes(b, "bound", q, act[b].node)
    BY <1>1, BindAct
  <2>4. \A x \in Actor : ~Owns(x, q)'
    BY <2>2, <2>3 DEF Becomes, Owns
  <2> QED
    BY <2>1, <2>2, <2>4 DEF cacheVars
<1>2. ASSUME NEW n \in Node, Bound(q, n)' PROVE where'[q] = n
  <2>1. CASE Bound(q, n)
    <3>1. where[q] = n
      BY <2>1 DEF PodCounted
    <3> QED
      BY <1>0, <1>2, <3>1, WhereStep
  <2>2. CASE \E b \in Binder : /\ Bind(b) /\ act[b].pod = q /\ act[b].node = n
                               /\ API(q).node = Pending
    BY <1>1, <2>2
  <2> QED
    BY <1>2, <2>1, <2>2, BoundStep
<1>3. ASSUME NEW x \in Actor, Owns(x, q)', NEW n \in Node, Bound(q, n)' PROVE FALSE
  <2>1. CASE Bound(q, n)
    <3>1. Assume /\ where[q] = NoNode
      BY <1>3, <2>1, OwnsStep DEF PodCounted
    <3> QED
      BY <1>0, <2>1, <3>1 DEF PodCounted
  <2>2. CASE \E b \in Binder : /\ Bind(b) /\ act[b].pod = q /\ act[b].node = n
                               /\ API(q).node = Pending
    BY <1>1, <1>3, <2>2
  <2> QED
    BY <1>3, <2>1, <2>2, BoundStep
<1> QED
  BY <1>2, <1>3 DEF PodCounted
\* Fewer pods on a node take no more room.
LEMMA Fewer ==
    ASSUME NEW S \in SUBSET Pod, NEW T \in SUBSET S
    PROVE  /\ IsFiniteSet(S) /\ IsFiniteSet(T)
           /\ Cardinality(S) \in Nat /\ Cardinality(T) \in Nat /\ Cardinality(T) <= Cardinality(S)
<1>1. IsFiniteSet(Pod)
  BY SchedulerAssumption
<1>2. IsFiniteSet(S)
  BY <1>1, FS_Subset
<1>3. IsFiniteSet(T) /\ Cardinality(T) <= Cardinality(S)
  BY <1>2, FS_Subset
<1> QED
  BY <1>2, <1>3, FS_CardinalityType

\* The loop chooses a node only in Schedule.
LEMMA ChosenStep ==
    ASSUME TypeOK, History, Progress, Acting, Next, act'[Loop].stage = "chosen"
    PROVE  \/ /\ act[Loop].stage = "chosen"
              /\ act'[Loop].pod = act[Loop].pod /\ act'[Loop].node = act[Loop].node
           \/ /\ act'[Loop].pod = act[Loop].pod /\ UNCHANGED cacheVars
              /\ \E n \in Node : act'[Loop].node = n /\
                    Cardinality(Cache!PodsOn(n) \ {act[Loop].pod}) < Capacity
<1> DEFINE same == /\ act[Loop].stage = "chosen"
                   /\ act'[Loop].pod = act[Loop].pod /\ act'[Loop].node = act[Loop].node
<1>1. ASSUME NEW x \in Actor, NEW s, NEW p, NEW n, Becomes(x, s, p, n), s # "chosen"
      PROVE  same
  BY <1>1, LoopActor DEF Becomes
<1>2. CASE \/ WaitForPod \/ Flush
           \/ \E p \in Pod : Expire(p) \/ ChangePod(p) \/ Observe(p) \/ QueueHandler(p)
                               \/ CacheHandler(p) \/ Tick(p)
           \/ \E e \in Event : ClusterEvent(e)
  BY <1>2, WatchedSteps, LoopActor DEF Watched
<1>3. CASE \E p \in Pod : NextPod(p)
  BY <1>1, <1>3, NextPodAct, LoopActor
<1>4. ASSUME NEW n \in Node, Schedule(n)
      PROVE  /\ act'[Loop].pod = act[Loop].pod /\ UNCHANGED cacheVars
             /\ act'[Loop].node = n
             /\ Cardinality(Cache!PodsOn(n) \ {act[Loop].pod}) < Capacity
  <2>1. Becomes(Loop, "chosen", act[Loop].pod, n)
    BY <1>4, LoopActs
  <2> QED
    BY <1>4, <2>1 DEF Schedule, Becomes
<1>5. CASE SkipPod \/ ScheduleError \/ \E pl \in SUBSET Plugin, n \in Names : NoFit(pl, n)
  <2>1. \E s, p, n : Becomes(Loop, s, p, n) /\ s # "chosen"
    BY <1>5, LoopActs
  <2> QED
    BY <1>1, <2>1, LoopActor
<1>6. CASE Assume
  BY <1>1, <1>6, AssumeAct, LoopActor
<1>7. CASE \E b \in Binder : StartBinding(b)
  BY <1>7, StartBindingAct, IdleFields
<1>8. ASSUME NEW b \in Binder, Bind(b) PROVE same
  BY <1>1, <1>8, BindAct, LoopActor
<1>9. ASSUME NEW x \in Actor, \/ FinishBinding(x) \/ PluginFails(x) \/ ForgetPod(x)
                              \/ Nominate(x) \/ Patch(x) \/ Lookup(x) \/ Requeue(x)
      PROVE  same
  <2>1. \E s, p, n : Becomes(x, s, p, n) /\ s # "chosen"
    <3>1. CASE \/ FinishBinding(x) \/ PluginFails(x) \/ ForgetPod(x) \/ Nominate(x) \/ Patch(x)
      BY <3>1, ActorActs
    <3>2. CASE Lookup(x) \/ Requeue(x)
      BY <3>2, LookupAct, RequeueAct
    <3> QED
      BY <1>9, <3>1, <3>2
  <2> QED
    BY <1>1, <2>1
<1> QED
  BY <1>2, <1>3, <1>4, <1>5, <1>6, <1>7, <1>8, <1>9, LoopActor DEF Next, Names

\* Only assume takes room on a node, the room Schedule found.
LEMMA RoomKept ==
    ASSUME TypeOK, History, Progress, Acting, Next, RoomLeft, \A p \in Pod : PodCounted(p),
           where' \in [Pod -> Names], Faults = {}
    PROVE  /\ \A n \in Node : Cardinality(Cache!PodsOn(n))' <= Capacity
           /\ At(Loop, "chosen")' =>
                 Cardinality(Cache!PodsOn(act[Loop].node) \ {act[Loop].pod})' < Capacity
<1> DEFINE On(n) == {p \in Pod : where[p] = n}
           Then(n) == {p \in Pod : where'[p] = n}
           taking == Assume /\ where[act[Loop].pod] = NoNode
                       /\ act'[Loop].stage = "assumed"
<1>0. NoNode \notin Node /\ Capacity \in Nat /\ where \in [Pod -> Names] /\ Loop \in Actor
  BY QueueAssumption, SchedulerAssumption, LoopActor DEF TypeOK
<1>1. /\ \A n \in Node : Cardinality(On(n)) <= Capacity
      /\ At(Loop, "chosen") => Cardinality(On(act[Loop].node) \ {act[Loop].pod}) < Capacity
  BY DEF RoomLeft, Cache!PodsOn
<1>2. \A q \in Pod : \/ where'[q] \in {where[q], NoNode}
                     \/ /\ taking /\ q = act[Loop].pod /\ where'[q] = act[Loop].node
  BY WhereStep
<1>3. \A n \in Node : Then(n) \in SUBSET Pod /\ On(n) \in SUBSET Pod
  OBVIOUS
<1>4. ASSUME NEW n \in Node PROVE Cardinality(Then(n)) <= Capacity
  <2>1. CASE ~(taking /\ n = act[Loop].node)
    <3>1. Then(n) \subseteq On(n)
      BY <1>0, <1>2, <2>1
    <3>2. Cardinality(Then(n)) <= Cardinality(On(n)) /\ Cardinality(On(n)) <= Capacity
          /\ Cardinality(Then(n)) \in Nat /\ Cardinality(On(n)) \in Nat
      BY <1>1, <3>1, Fewer
    <3> QED
      BY <1>0, <3>2
  <2>2. CASE taking /\ n = act[Loop].node
    <3> DEFINE p == act[Loop].pod
    <3>1. act[Loop].stage = "chosen" /\ p \in Pod
      BY <1>0, <2>2 DEF Assume, At, Acting
    <3>2. p \notin On(n)
      BY <1>0, <2>2
    <3>3. Cardinality(On(n)) < Capacity
      <4>1. On(n) \ {p} = On(n)
        BY <3>2
      <4> QED
        BY <1>1, <2>2, <3>1, <4>1 DEF At
    <3>4. Then(n) \subseteq On(n) \cup {p}
      BY <1>0, <1>2
    <3>5. IsFiniteSet(On(n)) /\ Cardinality(On(n)) \in Nat
      BY Fewer
    <3>6. Cardinality(On(n) \cup {p}) = Cardinality(On(n)) + 1
      BY <3>2, <3>5, FS_AddElement
    <3>7. On(n) \cup {p} \in SUBSET Pod
      BY <3>1
    <3>8. Cardinality(Then(n)) \in Nat /\ Cardinality(Then(n)) <= Cardinality(On(n) \cup {p})
      <4> DEFINE T == Then(n)
                 S == On(n) \cup {p}
      <4>1. S \in SUBSET Pod /\ T \in SUBSET S
        BY <3>4, <3>7
      <4> HIDE DEF S, T
      <4>2. Cardinality(T) \in Nat /\ Cardinality(T) <= Cardinality(S)
        BY <4>1, Fewer
      <4> QED
        BY <4>2 DEF S, T
    <3> HIDE DEF p
    <3> QED
      BY <1>0, <3>3, <3>5, <3>6, <3>8
  <2> QED
    BY <2>1, <2>2
<1>5. ASSUME act'[Loop].stage = "chosen"
      PROVE  Cardinality(Then(act'[Loop].node) \ {act'[Loop].pod}) < Capacity
  <2> DEFINE p == act'[Loop].pod
             n == act'[Loop].node
  <2>1. n \in Node /\ p = act[Loop].pod /\ Cardinality(On(n) \ {p}) < Capacity
    <3>1. CASE act[Loop].stage = "chosen" /\ p = act[Loop].pod /\ n = act[Loop].node
      BY <1>0, <1>1, <3>1 DEF At, Acting
    <3>2. CASE p = act[Loop].pod /\ \E m \in Node : n = m /\
                    Cardinality(Cache!PodsOn(m) \ {act[Loop].pod}) < Capacity
      BY <3>2 DEF Cache!PodsOn
    <3> QED
      BY <1>5, <3>1, <3>2, ChosenStep
  <2>2. Then(n) \subseteq On(n)
    BY <1>0, <1>2, <1>5, <2>1
  <2> DEFINE T == Then(n) \ {p}
             S == On(n) \ {p}
  <2>3. T \in SUBSET S /\ S \in SUBSET Pod
    BY <2>2
  <2>4. Cardinality(T) \in Nat /\ Cardinality(S) \in Nat /\ Cardinality(T) <= Cardinality(S)
    <3> HIDE DEF S, T
    <3> QED
      BY <2>3, Fewer
  <2>5. Cardinality(S) < Capacity
    BY <2>1
  <2> HIDE DEF S, T
  <2>6. Cardinality(T) < Capacity
    BY <1>0, <2>4, <2>5
  <2> QED
    BY <2>6 DEF T
<1>6. \A n \in Node : Cardinality(Cache!PodsOn(n))' = Cardinality(Then(n))
  BY DEF Cache!PodsOn
<1>7. Cardinality(Cache!PodsOn(act[Loop].node) \ {act[Loop].pod})'
        = Cardinality(Then(act'[Loop].node) \ {act'[Loop].pod})
  BY DEF Cache!PodsOn
<1> QED
  BY <1>4, <1>5, <1>6, <1>7 DEF At
-----------------------------------------------------------------------------
(***************************************************************************)
(* The loop's pod and the move requests made since it was popped.          *)
(***************************************************************************)
\* Steps that are neither a Pop nor a move request leave the two cycles alone.
SameCycles == schedulingCycle' = schedulingCycle /\ moveRequestCycle' = moveRequestCycle

\* A move request is recorded in the cycle of the pod the loop has.
LEMMA HeardKept ==
    ASSUME TypeOK, History, Progress, Acting, Next, LoopHeard
    PROVE  LoopHeard'
<1>0. QueueInv /\ schedulingCycle \in Nat /\ moveRequestCycle \in Int /\ Loop \in Actor
  BY LoopActor DEF TypeOK, QueueInv, QueueTypeOK
<1>1. ASSUME NEW x \in Actor, NEW s, NEW p, NEW n, Becomes(x, s, p, n), SameCycles,
             act[x].stage # "idle"
      PROVE  LoopHeard'
  <2>1. CASE x = Loop
    BY <1>1, <2>1 DEF Becomes, LoopHeard, At, SameCycles
  <2>2. CASE x # Loop
    <3>1. act'[Loop] = act[Loop]
      BY <1>0, <1>1, <2>2 DEF Becomes
    <3> QED
      BY <1>1, <3>1 DEF LoopHeard, At, SameCycles
  <2> QED
    BY <2>1, <2>2
<1>2. ASSUME act' = act, SameCycles PROVE LoopHeard'
  BY <1>2 DEF LoopHeard, At, SameCycles
<1>3. ASSUME schedulingCycle' = schedulingCycle, moveRequestCycle' = schedulingCycle
      PROVE  LoopHeard'
  BY <1>0, <1>3 DEF LoopHeard
<1>4. CASE \/ WaitForPod
           \/ \E p \in Pod : Expire(p) \/ ChangePod(p) \/ Observe(p) \/ Tick(p)
  <2>1. act' = act /\ SameCycles
    BY <1>4 DEF WaitForPod, PopWait, Expire, ChangePod, Observe, Tick, queueVars, SameCycles
  <2> QED
    BY <1>2, <2>1
<1>5. ASSUME NEW p \in Pod, QueueHandler(p) PROVE LoopHeard'
  <2> DEFINE old == Version(p, queueAt[p]).nnn
             new == Version(p, queueAt[p] + 1).nnn
  <2>1. /\ act' = act
        /\ \/ Add(p, new) \/ Delete(p) \/ UNCHANGED queueVars
           \/ \E updated \in BOOLEAN : Update(p, old, new, updated)
    BY <1>5 DEF QueueHandler
  <2> HIDE DEF old, new
  <2>2. SameCycles
    BY <2>1 DEF Add, Delete, Update, queueVars, SameCycles
  <2> QED
    BY <1>2, <2>1, <2>2
<1>6. CASE \E p \in Pod : CacheHandler(p)
  BY <1>3, <1>6, CacheHandlerEffect
<1>7. CASE \E e \in Event : ClusterEvent(e)
  BY <1>0, <1>3, <1>7, MoveEffect DEF ClusterEvent, MoveAllToActiveOrBackoffQueue
<1>8. CASE Flush
  BY <1>0, <1>2, <1>3, <1>8, FlushEffect DEF SameCycles
<1>9. CASE \E p \in Pod : NextPod(p)
  <2>1. ~act'[Loop].moved
    BY <1>9, NextPodAct
  <2> QED
    BY <2>1 DEF LoopHeard
<1>10. CASE \/ SkipPod \/ ScheduleError \/ \E n \in Node : Schedule(n)
            \/ \E pl \in SUBSET Plugin, n \in Names : NoFit(pl, n)
  <2>1. \E s, p, n : Becomes(Loop, s, p, n)
    BY <1>10, LoopActs
  <2>2. SameCycles /\ act[Loop].stage # "idle"
    BY <1>10 DEF SkipPod, ScheduleError, Schedule, NoFit, At, queueVars, SameCycles
  <2> QED
    BY <1>0, <1>1, <2>1, <2>2
<1>11. CASE Assume
  <2>1. \E s, p, n : Becomes(Loop, s, p, n)
    BY <1>11, AssumeAct
  <2>2. SameCycles /\ act[Loop].stage # "idle"
    BY <1>11 DEF Assume, At, SameCycles
  <2> QED
    BY <1>0, <1>1, <2>1, <2>2
<1>12. CASE \E b \in Binder : StartBinding(b)
  BY <1>12, StartBindingAct, IdleFields DEF LoopHeard, At
<1>13. ASSUME NEW b \in Binder, Bind(b) PROVE LoopHeard'
  <2>1. \E s, p, n : Becomes(b, s, p, n)
    BY <1>13, BindAct
  <2>2. SameCycles /\ act[b].stage # "idle"
    BY <1>13 DEF Bind, At, queueVars, SameCycles
  <2> QED
    BY <1>1, <2>1, <2>2, LoopActor
<1>14. ASSUME NEW x \in Actor, \/ FinishBinding(x) \/ PluginFails(x) \/ ForgetPod(x)
                               \/ Nominate(x) \/ Patch(x) \/ Lookup(x) \/ Requeue(x)
       PROVE  LoopHeard'
  <2>1. \E s, p, n : Becomes(x, s, p, n)
    <3>1. CASE \/ FinishBinding(x) \/ PluginFails(x) \/ ForgetPod(x) \/ Nominate(x) \/ Patch(x)
      BY <3>1, ActorActs
    <3>2. CASE Lookup(x) \/ Requeue(x)
      BY <3>2, LookupAct, RequeueAct
    <3> QED
      BY <1>14, <3>1, <3>2
  <2>2. SameCycles
    <3>1. CASE Requeue(x)
      <4>1. PICK c : AddUnschedulableIfNotPresent(act[x].pod, c, act[x].pl, act[x].nnn)
        BY <3>1 DEF Requeue
      <4> QED
        BY <4>1 DEF AddUnschedulableIfNotPresent, queueVars, SameCycles
    <3>2. CASE \/ FinishBinding(x) \/ PluginFails(x) \/ ForgetPod(x) \/ Nominate(x) \/ Patch(x)
               \/ Lookup(x)
      BY <3>2 DEF FinishBinding, PluginFails, ForgetPod, Nominate, Patch, Lookup, queueVars,
                  SameCycles
    <3> QED
      BY <1>14, <3>1, <3>2
  <2>3. act[x].stage # "idle"
    BY <1>14 DEF FinishBinding, PluginFails, ForgetPod, Nominate, Patch, Lookup, Requeue, At
  <2> QED
    BY <1>1, <2>1, <2>2, <2>3
<1> QED
  BY <1>4, <1>5, <1>6, <1>7, <1>8, <1>9, <1>10, <1>11, <1>12, <1>13, <1>14, LoopActor
     DEF Next, Names
-----------------------------------------------------------------------------
\* The initial states satisfy the invariant.
LEMMA Initially == Init => IInv
<1> SUFFICES ASSUME Init PROVE IInv
  OBVIOUS
<1> DEFINE first == [node |-> Pending, nnn |-> NoNode]
<1>1. /\ versions = [p \in Pod |-> <<first>>]
      /\ storeAt = [p \in Pod |-> 0] /\ queueAt = [p \in Pod |-> 0]
      /\ cacheAt = [p \in Pod |-> 0] /\ where = [p \in Pod |-> NoNode]
      /\ assumed = {} /\ finished = {} /\ act = [x \in Actor |-> Idle]
  BY DEF Init
<1>2. first \in Ver /\ first.node = Pending
  BY DEF Ver, Names
<1> HIDE DEF first
<1>3. \A p \in Pod : /\ versions[p] \in Seq(Ver) /\ Len(versions[p]) = 1
                     /\ versions[p][1].node = Pending
  <2>1. <<first>> \in Seq(Ver) /\ Len(<<first>>) = 1 /\ <<first>>[1] = first
    BY <1>2
  <2> QED
    BY <1>1, <1>2, <2>1
<1>4. QueueInv
  BY InitialQueue DEF Init
<1>5. act \in [Actor -> ActorState] /\ \A x \in Actor : act[x].stage = "idle"
  BY <1>1, IdleType, IdleFields
<1>6. TypeOK
  <2>1. versions \in [Pod -> Seq(Ver)] /\ \A p \in Pod : Len(versions[p]) >= 1
    BY <1>1, <1>3
  <2> QED
    BY <1>1, <1>4, <1>5, <2>1 DEF TypeOK, Names
<1>7. Pending \notin Node /\ Pending # Gone
  BY SchedulerAssumption
<1>8. History
  BY <1>3, <1>7 DEF History
<1>9. Progress
  <2>1. \A p \in Pod : storeAt[p] = 0 /\ queueAt[p] = 0 /\ cacheAt[p] = 0
    BY <1>1
  <2> SUFFICES ASSUME NEW p \in Pod
               PROVE  /\ queueAt[p] <= storeAt[p] /\ cacheAt[p] <= storeAt[p]
                      /\ storeAt[p] <= Len(versions[p]) /\ ~(cacheAt[p] < storeAt[p])
    BY DEF Progress
  <2>2. storeAt[p] = 0 /\ queueAt[p] = 0 /\ cacheAt[p] = 0 /\ Len(versions[p]) = 1
    BY <1>3, <2>1
  <2> QED
    BY <2>2
<1>10. Acting /\ LoopHeard
  BY <1>5, LoopActor DEF Acting, LoopHeard, At
<1>11. \A x \in Actor, p \in Pod : ~Owns(x, p)
  BY <1>5 DEF Owns
<1>12. AssumedHeld /\ OwnersKeep /\ OwnersAlone /\ OwnersUnbound
  BY <1>1, <1>11 DEF AssumedHeld, OwnersKeep, OwnersAlone, OwnersUnbound
<1>13. NoPodLost
  BY <1>1 DEF NoPodLost
<1>14. \A p \in Pod, n \in Node : ~Bound(p, n)
  BY <1>3, <1>7 DEF Bound
<1>15. BoundIsCounted
  BY <1>14 DEF BoundIsCounted
<1>16. RoomLeft
  <2>1. \A n \in Node : Cache!PodsOn(n) = {}
    BY <1>1, QueueAssumption DEF Cache!PodsOn
  <2>2. Cardinality({}) = 0 /\ Capacity \in Nat
    BY FS_EmptySet, SchedulerAssumption
  <2>3. ~At(Loop, "chosen")
    BY <1>5, LoopActor DEF At
  <2> QED
    BY <2>1, <2>2, <2>3 DEF RoomLeft
<1> QED
  BY <1>6, <1>8, <1>9, <1>10, <1>12, <1>13, <1>15, <1>16 DEF IInv

\* Every step keeps the invariant.
LEMMA NextKeeps ==
    ASSUME IInv, Next
    PROVE  IInv'
<1>0. /\ TypeOK /\ History /\ Progress /\ Acting /\ AssumedHeld /\ NoPodLost
      /\ OwnersKeep /\ OwnersAlone /\ BoundIsCounted /\ OwnersUnbound /\ RoomLeft /\ LoopHeard
  BY DEF IInv
<1>1. Grows /\ History'
  BY <1>0, HistoryKept
<1>2. Advances /\ Progress'
  BY <1>0, <1>1, ProgressKept
<1>3. act' \in [Actor -> ActorState] /\ Acting'
  BY <1>0, <1>1, <1>2, ActingKept
<1>4. where' \in [Pod -> Names] /\ assumed' \in SUBSET Pod /\ finished' \in SUBSET assumed'
  BY <1>0, CacheTypes
<1>5. TypeOK'
  <2>1. QueueInv'
    BY <1>0, QueueKept
  <2>2. \A p \in Pod : Len(versions'[p]) >= 1
    <3> SUFFICES ASSUME NEW p \in Pod PROVE Len(versions'[p]) >= 1
      OBVIOUS
    <3>1. Len(versions[p]) \in Nat /\ Len(versions[p]) >= 1
      BY <1>0, VersionType
    <3> QED
      BY <1>1, <3>1 DEF Grows
  <2>3. versions' \in [Pod -> Seq(Ver)]
    BY <1>1 DEF Grows
  <2>4. storeAt' \in [Pod -> Nat] /\ queueAt' \in [Pod -> Nat] /\ cacheAt' \in [Pod -> Nat]
    BY <1>2 DEF Advances
  <2> QED
    BY <1>3, <1>4, <2>1, <2>2, <2>3, <2>4 DEF TypeOK
<1>6. \A p \in Pod : PodOwned(p)
  <2>1. assumed \in SUBSET Pod
    BY <1>0 DEF TypeOK
  <2> QED
    BY <1>0, <2>1, OwnersByPod
<1>7. \A p \in Pod : PodOwned(p)'
  BY <1>0, <1>1, <1>6, OwnersKept
<1>8. AssumedHeld' /\ OwnersKeep' /\ OwnersAlone'
  <2>1. AssumedHeld'
    BY <1>4, <1>7 DEF AssumedHeld, PodOwned
  <2>2. OwnersKeep'
    BY <1>7 DEF OwnersKeep, PodOwned
  <2>3. OwnersAlone'
    BY <1>7 DEF OwnersAlone, PodOwned
  <2> QED
    BY <2>1, <2>2, <2>3
<1>9. NoPodLost'
  <2>1. \A p \in Pod : PodKept(p)
    BY <1>0 DEF NoPodLost, PodKept
  <2>2. \A p \in Pod : PodKept(p)'
    BY <1>0, <1>1, <1>6, <2>1, PodsKept
  <2> QED
    BY <2>2 DEF NoPodLost, PodKept
<1>10. Faults = {} => \A p \in Pod : PodCounted(p)
  BY <1>0, CountedByPod
<1>11. BoundIsCounted' /\ OwnersUnbound'
  <2>1. Faults = {} => \A p \in Pod : PodCounted(p)'
    BY <1>0, <1>1, <1>2, <1>6, <1>10, CountedKept
  <2> QED
    BY <2>1 DEF BoundIsCounted, OwnersUnbound, PodCounted
<1>12. RoomLeft'
  <2>1. ASSUME Faults = {}
        PROVE  /\ \A n \in Node : Cardinality(Cache!PodsOn(n))' <= Capacity
               /\ At(Loop, "chosen")' =>
                     Cardinality(Cache!PodsOn(act[Loop].node) \ {act[Loop].pod})' < Capacity
    BY <1>0, <1>4, <1>10, <2>1, RoomKept
  <2> QED
    BY <2>1 DEF RoomLeft
<1>13. LoopHeard'
  BY <1>0, HeardKept
<1> QED
  BY <1>1, <1>2, <1>3, <1>5, <1>8, <1>9, <1>11, <1>12, <1>13 DEF IInv
\* The scheduler, with any pods, nodes, goroutines and faults, keeps the
\* inductive invariant.
THEOREM Invariance == Spec => []IInv
<1>1. ASSUME IInv, UNCHANGED vars PROVE IInv'
  <2>1. /\ UNCHANGED queueVars /\ versions' = versions /\ storeAt' = storeAt
        /\ queueAt' = queueAt /\ cacheAt' = cacheAt /\ where' = where /\ assumed' = assumed
        /\ finished' = finished /\ act' = act
    BY <1>1 DEF vars, informerVars, cacheVars
  <2>2. QueueInv'
    BY <1>1, <2>1, StepKeeps DEF IInv, TypeOK
  <2>3. TypeOK'
    BY <1>1, <2>1, <2>2 DEF IInv, TypeOK
  <2>4. History' /\ Progress' /\ Acting'
    BY <1>1, <2>1 DEF IInv, History, Progress, Acting, API
  <2>5. AssumedHeld' /\ OwnersKeep' /\ OwnersAlone'
    BY <1>1, <2>1 DEF IInv, AssumedHeld, OwnersKeep, OwnersAlone, Owns, API
  <2>6. NoPodLost'
    BY <1>1, <2>1 DEF IInv, NoPodLost, Holds, Queued, queueVars, API
  <2>7. BoundIsCounted' /\ OwnersUnbound'
    BY <1>1, <2>1 DEF IInv, BoundIsCounted, OwnersUnbound, Bound, Owns
  <2>8. RoomLeft'
    BY <1>1, <2>1 DEF IInv, RoomLeft, At, Cache!PodsOn
  <2>9. LoopHeard'
    BY <1>1, <2>1 DEF IInv, LoopHeard, At, queueVars
  <2> QED
    BY <2>3, <2>4, <2>5, <2>6, <2>7, <2>8, <2>9 DEF IInv
<1> QED
  BY <1>1, Initially, NextKeeps, PTL DEF Spec

\* A pending pod that was handed to the scheduling queue is always in the queue
\* or in somebody's hands (scheduleOne, bind, the error function), whatever
\* fails, expires or is bound by others.
THEOREM NoPodIsLost == Spec => []NoPodLost
<1>1. IInv => NoPodLost
  BY DEF IInv
<1> QED
  BY <1>1, Invariance, PTL

\* Two attempts never bind the same pending pod at once, unless the cache lets
\* an assumed pod expire while its goroutine is about to forget it.
THEOREM OneBindingHolds == Spec => []OneBindingPerPod
<1>1. ASSUME IInv PROVE OneBindingPerPod
  <2> SUFFICES ASSUME "slowForget" \notin Faults, NEW x \in Actor, NEW y \in Actor,
                      NEW p \in Pod,
                      act[x].pod = p /\ act[x].stage \in {"assumed", "bind"},
                      act[y].pod = p /\ act[y].stage \in {"assumed", "bind"},
                      API(p).node = Pending
               PROVE  x = y
    BY DEF OneBindingPerPod
  <2>1. Owns(x, p) /\ Owns(y, p)
    BY DEF Owns
  <2> QED
    BY <1>1, <2>1 DEF IInv, OwnersAlone
<1> QED
  BY <1>1, Invariance, PTL

\* Without faults no node is overcommitted: the cache's assumed pods stand for
\* bindings under way and unconfirmed.
THEOREM NodesHaveRoom == Spec => []CapacityRespected
<1>1. ASSUME IInv PROVE CapacityRespected
  <2> SUFFICES ASSUME Faults = {}, NEW n \in Node
               PROVE  Cardinality({p \in Pod : API(p).node = n}) <= Capacity
    BY DEF CapacityRespected
  <2>0. TypeOK /\ History /\ Progress /\ BoundIsCounted /\ RoomLeft
    BY <1>1 DEF IInv
  <2>1. ASSUME NEW p \in Pod, API(p).node = n PROVE where[p] = n
    <3> DEFINE L == Len(versions[p])
    <3>1. L \in 1..L /\ versions[p][L].node = n /\ n # Gone
      BY <2>0, <2>1, VersionType, SchedulerAssumption DEF API
    <3>2. ~(cacheAt[p] >= 1 /\ versions[p][cacheAt[p]].node = Gone)
      <4> SUFFICES ASSUME cacheAt[p] >= 1, versions[p][cacheAt[p]].node = Gone PROVE FALSE
        OBVIOUS
      <4>1. cacheAt[p] \in Nat /\ storeAt[p] \in Nat /\ L \in Nat
        BY <2>0, VersionType DEF TypeOK
      <4>2. cacheAt[p] \in 1..L
        BY <2>0, <4>1 DEF Progress
      <4>3. cacheAt[p] = L
        BY <2>0, <4>2, LastVersion
      <4> QED
        BY <3>1, <4>3
    <3>3. Bound(p, n)
      BY <3>1, <3>2 DEF Bound
    <3> QED
      BY <2>0, <3>3 DEF BoundIsCounted
  <2> DEFINE T == {p \in Pod : API(p).node = n}
             S == {p \in Pod : where[p] = n}
  <2>2. T \in SUBSET S /\ S \in SUBSET Pod
    BY <2>1
  <2>3. Cardinality(S) <= Capacity
    BY <2>0 DEF RoomLeft, Cache!PodsOn
  <2> HIDE DEF S, T
  <2>4. /\ Cardinality(T) \in Nat /\ Cardinality(S) \in Nat /\ Capacity \in Nat
        /\ Cardinality(T) <= Cardinality(S)
    BY <2>2, Fewer, SchedulerAssumption
  <2>5. Cardinality(T) <= Capacity
    BY <2>3, <2>4
  <2> QED
    BY <2>5 DEF T
<1> QED
  BY <1>1, Invariance, PTL

\* A pod that fails in the scheduling loop goes to unschedulableQ only if no
\* move request was made since its Pop.
THEOREM LoopIsHeard == Spec => LoopHearsMoves
<1>1. ASSUME IInv, Shelves(Loop) PROVE ~act[Loop].moved
  <2>0. /\ act[Loop] \in ActorState /\ schedulingCycle \in Nat /\ moveRequestCycle \in Int
    BY <1>1, LoopActor DEF IInv, TypeOK, QueueInv, QueueTypeOK
  <2>1. PICK cycle \in act[Loop].cycle..schedulingCycle :
            AddUnschedulableIfNotPresent(act[Loop].pod, cycle, act[Loop].pl, act[Loop].nnn)
    BY <1>1 DEF Shelves, Requeue
  <2>2. moveRequestCycle < cycle
    BY <1>1, <2>1 DEF Shelves, AddUnschedulableIfNotPresent, queueVars
  <2>3. cycle \in Int /\ cycle <= schedulingCycle
    BY <2>0, <2>1 DEF ActorState
  <2>4. moveRequestCycle < schedulingCycle
    BY <2>0, <2>2, <2>3
  <2>5. ~At(Loop, "idle")
    BY <1>1 DEF Shelves, Requeue, At
  <2> QED
    BY <1>1, <2>0, <2>4, <2>5 DEF IInv, LoopHeard
<1>2. IInv => [Shelves(Loop) => ~act[Loop].moved]_vars
  BY <1>1
<1> QED
  BY <1>2, Invariance, PTL DEF LoopHearsMoves
=============================================================================
