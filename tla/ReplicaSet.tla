----------------------------- MODULE ReplicaSet -----------------------------
(***************************************************************************)
(* The ReplicaSet controller (pkg/controller/replicaset) for one           *)
(* ReplicaSet: its worker, its informers' handlers and the expectations    *)
(* that keep it from acting twice on what its cache does not show yet.     *)
(*                                                                         *)
(* The API server and the informers are external.  What happens to a pod   *)
(* goes through the watch (log) to the store, from which the worker lists, *)
(* and later (notes) to the handlers, which lower the expectations.        *)
(***************************************************************************)
EXTENDS Integers, Sequences, FiniteSets, FiniteSetsExt, SequencesExt

CONSTANTS
    Pod,           \* names of pods; a name is used again once nobody knows it
    Existing,      \* pods of the ReplicaSet, when there are some at the start
    MaxReplicas,   \* the largest spec.replicas
    BurstReplicas, \* most pods created or deleted by one sync
    MaxChanges,    \* bound: what users, nodes and other controllers do
    MaxFaults      \* bound: failed or lost requests, lists, slow informers

ASSUME ReplicasAssumption ==
    /\ IsFiniteSet(Pod) /\ Existing \subseteq Pod
    /\ MaxReplicas \in Nat /\ BurstReplicas \in Nat \ {0}
    /\ MaxChanges \in Nat /\ MaxFaults \in Nat

VARIABLES
    pods,          \* at the API server, by name
    log, store,    \* the watch's events, and podLister
    notes,         \* what the store told the handlers and they have not handled
    rs,            \* the ReplicaSet at the API server
    rsStore,       \* rsLister
    rsNote,        \* the handlers have not heard of the store's last change
    exp, uids,     \* ControlleeExpectations and the UIDSet
    queued,        \* the key is in the work queue
    sync,          \* the worker
    changes, faults,
    touched,       \* history: pods others changed and the worker's list did not show
    misled         \* history: the expectations were lowered or expired too early

watch == <<log, store, notes>>
rsVars == <<rs, rsStore, rsNote>>
vars == <<pods, watch, rsVars, exp, uids, queued, sync, changes, faults, touched, misled>>
-----------------------------------------------------------------------------
NoPod == [exists |-> FALSE]
\* owned: the controllerRef is this ReplicaSet; match: the selector's labels;
\* up: the phase is neither Succeeded nor Failed.
NewPod == [exists |-> TRUE, owned |-> TRUE, match |-> TRUE, up |-> TRUE, deleting |-> FALSE]
NoRS == [exists |-> FALSE]
NoExp == [exists |-> FALSE]

\* needs: rsNeedsSync; pods: filteredPods; adopt, release: the calls ClaimPods has
\* to make; can: canAdoptErr; err: the error to return; remaining, batch, calls,
\* errs: slowStartBatch; victims: podsToDelete that nobody has deleted yet.
Idle == [stage |-> "idle", rs |-> NoRS, needs |-> FALSE, pods |-> {}, adopt |-> {},
         release |-> {}, can |-> "unknown", err |-> FALSE,
         remaining |-> 0, batch |-> 0, calls |-> 0, errs |-> 0, victims |-> {}]

IsPodActive(pod) == pod.exists /\ pod.up /\ ~pod.deleting
Replica(pod) == IsPodActive(pod) /\ pod.owned /\ pod.match
Replicas == {p \in Pod : Replica(pods[p])}

\* The controller starts with its caches filled, among no pods or among Existing.
\* In the second case others change nothing and nothing fails: this is a bound.
Init ==
    /\ \E there \in {{}, Existing} :
        /\ pods = [p \in Pod |-> IF p \in there THEN NewPod ELSE NoPod]
        /\ changes = IF there = {} THEN 0 ELSE MaxChanges
        /\ faults = IF there = {} THEN 0 ELSE MaxFaults
    /\ store = pods /\ log = <<>> /\ notes = <<>>
    /\ \E n \in 0..MaxReplicas : rs = [exists |-> TRUE, replicas |-> n, deleting |-> FALSE]
    /\ rsStore = rs /\ rsNote = FALSE
    /\ exp = NoExp /\ uids = {}
    /\ queued = TRUE /\ sync = Idle
    /\ touched = {} /\ misled = FALSE

Change == changes < MaxChanges /\ changes' = changes + 1 /\ UNCHANGED <<faults, misled>>
Faulty == faults < MaxFaults /\ faults' = faults + 1 /\ UNCHANGED changes
Fault == Faulty /\ UNCHANGED misled
Misled == Faulty /\ misled' = TRUE
NoFault == UNCHANGED <<changes, faults, misled>>
-----------------------------------------------------------------------------
(***************************************************************************)
(* UIDTrackingControllerExpectations.  An expectation that is set replaces *)
(* the one before; setting creations leaves the UIDs of deletions behind.  *)
(***************************************************************************)
Expect(add, del) == exp' = [exists |-> TRUE, add |-> add, del |-> del, expired |-> FALSE]

ExpectCreations(n) == Expect(n, 0) /\ UNCHANGED uids

ExpectDeletions(ps) == Expect(0, Cardinality(ps)) /\ uids' = ps

LowerExpectations(e, add, del) ==
    IF e.exists THEN [e EXCEPT !.add = @ - add, !.del = @ - del] ELSE e

CreationObserved(n) == exp' = LowerExpectations(exp, n, 0) /\ UNCHANGED uids

\* Mutant of DeletionObserved: the UIDs are not consulted, so the update that
\* sets the deletion timestamp and the deletion are both counted.
DeletionCounted(p) ==
    exp' = LowerExpectations(exp, 0, 1) /\ uids' = uids \ {p}

DeletionObserved(p) ==
    IF p \in uids
    THEN exp' = LowerExpectations(exp, 0, 1) /\ uids' = uids \ {p}
    ELSE UNCHANGED <<exp, uids>>

DeleteExpectations == exp' = NoExp /\ uids' = {}

\* Mutant of Fulfilled: one of the two counts is enough.
FulfilledEither(e) == e.add <= 0 \/ e.del <= 0

Fulfilled(e) == e.add <= 0 /\ e.del <= 0

SatisfiedExpectations == exp.exists => Fulfilled(exp) \/ exp.expired

\* isExpired.  That time runs out while the events that would fulfil the
\* expectation are still on their way, or have not been caused yet, is a fault.
Expires ==
    LET early == log # <<>> \/ notes # <<>> \/ sync.stage \in {"create", "delete"} IN
    /\ ~SatisfiedExpectations
    /\ exp' = [exp EXCEPT !.expired = TRUE]
    /\ IF early THEN Misled ELSE NoFault
    /\ UNCHANGED <<pods, watch, rsVars, uids, queued, sync, touched>>
-----------------------------------------------------------------------------
(***************************************************************************)
(* The API server, the watches, and everybody else who changes the pods    *)
(* and the ReplicaSet.                                                     *)
(***************************************************************************)
StorePod(p, pod) ==
    /\ pods' = [pods EXCEPT ![p] = pod]
    /\ log' = Append(log, [name |-> p, pod |-> pod])
    /\ UNCHANGED <<store, notes>>

StoreRS(r) == rs' = r /\ UNCHANGED <<rsStore, rsNote>>

\* A name that nobody mentions any more.
Free(p) ==
    /\ ~pods[p].exists /\ ~store[p].exists /\ p \notin uids
    /\ \A i \in DOMAIN log : log[i].name # p
    /\ \A i \in DOMAIN notes : notes[i].name # p
    /\ p \notin sync.pods \cup sync.adopt \cup sync.release

\* A pod fails or completes, is relabelled, or is deleted with or without grace,
\* or a user creates a pod that the selector matches.
PodChanges ==
    /\ Change
    /\ \E p \in Pod :
        /\ \/ Free(p) /\ StorePod(p, [NewPod EXCEPT !.owned = FALSE])
           \/ pods[p].exists /\ pods[p].up /\ StorePod(p, [pods[p] EXCEPT !.up = FALSE])
           \/ pods[p].exists /\ StorePod(p, [pods[p] EXCEPT !.match = ~@])
           \/ pods[p].exists /\ ~pods[p].deleting /\ StorePod(p, [pods[p] EXCEPT !.deleting = TRUE])
           \/ pods[p].exists /\ StorePod(p, NoPod)
        /\ touched' = touched \cup {p}
    /\ UNCHANGED <<rsVars, exp, uids, queued, sync>>

\* The kubelet removes a pod whose containers have stopped.
PodRemoved ==
    /\ \E p \in Pod : pods[p].exists /\ pods[p].deleting /\ StorePod(p, NoPod)
    /\ UNCHANGED <<rsVars, exp, uids, queued, sync, changes, faults, touched, misled>>

\* The ReplicaSet is scaled or deleted, in the foreground (first a deletion
\* timestamp) or at once.
RSChanges ==
    /\ Change /\ rs.exists
    /\ \/ \E n \in 0..MaxReplicas \ {rs.replicas} :
            ~rs.deleting /\ StoreRS([rs EXCEPT !.replicas = n])
       \/ ~rs.deleting /\ StoreRS([rs EXCEPT !.deleting = TRUE])
       \/ StoreRS(NoRS)
    /\ UNCHANGED <<pods, watch, exp, uids, queued, sync, touched>>

\* The pod informer's store takes the next event; the handlers hear of it later.
PodStored ==
    /\ log # <<>>
    /\ LET e == Head(log) IN
        /\ store' = [store EXCEPT ![e.name] = e.pod]
        /\ notes' = Append(notes, [name |-> e.name, old |-> store[e.name], new |-> e.pod])
    /\ log' = Tail(log)
    /\ UNCHANGED <<pods, rsVars, exp, uids, queued, sync, changes, faults, touched, misled>>

\* The watch breaks and a list takes its place: what came and went is not seen.
PodsRelisted ==
    LET order == SetToSeq({p \in Pod : store[p] # pods[p]}) IN
    /\ log # <<>> /\ Fault
    /\ store' = pods /\ log' = <<>>
    /\ notes' = notes \o [i \in DOMAIN order |->
                  [name |-> order[i], old |-> store[order[i]], new |-> pods[order[i]]]]
    /\ UNCHANGED <<pods, rsVars, exp, uids, queued, sync, touched>>

\* The ReplicaSet's store catches up.  That it may be several versions behind makes
\* no difference to the controller, which reads all it acts on from the store.
RSStored ==
    /\ rsStore # rs /\ rsStore' = rs
    /\ rsNote' = TRUE
    /\ UNCHANGED <<pods, watch, rs, exp, uids, queued, sync, changes, faults, touched, misled>>
-----------------------------------------------------------------------------
(***************************************************************************)
(* The handlers.  One goroutine per informer calls them, in the order of   *)
(* the notes.                                                              *)
(***************************************************************************)
Handled(enqueue) ==
    /\ notes' = Tail(notes) /\ queued' = (queued \/ enqueue)
    /\ UNCHANGED <<pods, log, store, rsVars, sync, changes, faults, touched, misled>>

\* deletePod, for a pod object with or without this ReplicaSet as its controller.
deletePod(p, owned) ==
    LET resolved == owned /\ rsStore.exists IN
    /\ IF resolved THEN DeletionObserved(p) ELSE UNCHANGED <<exp, uids>>
    /\ Handled(resolved)

addPod(p, pod) ==
    \/ pod.deleting /\ deletePod(p, pod.owned)
    \/ ~pod.deleting /\ pod.owned /\ rsStore.exists /\ CreationObserved(1) /\ Handled(TRUE)
    \/ /\ ~pod.deleting /\ ~(pod.owned /\ rsStore.exists)
       /\ UNCHANGED <<exp, uids>>
       /\ Handled(~pod.owned /\ pod.match /\ rsStore.exists)

updatePod(p, old, cur) ==
    LET labelChanged == old.match # cur.match
        controllerRefChanged == old.owned # cur.owned
    IN  \/ cur.deleting /\ deletePod(p, cur.owned \/ (labelChanged /\ old.owned))
        \/ /\ ~cur.deleting /\ UNCHANGED <<exp, uids>>
           /\ Handled(/\ rsStore.exists
                      /\ \/ old.owned
                         \/ cur.owned
                         \/ cur.match /\ (labelChanged \/ controllerRefChanged))

HandlePod ==
    /\ notes # <<>>
    /\ LET n == Head(notes) IN
        \/ ~n.old.exists /\ addPod(n.name, n.new)
        \/ n.old.exists /\ n.new.exists /\ updatePod(n.name, n.old, n.new)
        \/ ~n.new.exists /\ deletePod(n.name, n.old.owned)

\* addRS and updateRS, or deleteRS.
HandleRS ==
    /\ rsNote /\ rsNote' = FALSE
    /\ IF rsStore.exists THEN UNCHANGED <<exp, uids>> ELSE DeleteExpectations
    /\ queued' = TRUE
    /\ UNCHANGED <<pods, watch, rs, rsStore, sync, changes, faults, touched, misled>>

\* The periodic resync of the ReplicaSet informer calls updateRS.
Resync ==
    /\ rsStore.exists /\ ~queued /\ queued' = TRUE
    /\ UNCHANGED <<pods, watch, rsVars, exp, uids, sync, changes, faults, touched, misled>>
-----------------------------------------------------------------------------
(***************************************************************************)
(* The worker: syncReplicaSet.  It stops at each call of the API server    *)
(* and between its reads of the lister and of the expectations.            *)
(***************************************************************************)
At(stage) == sync.stage = stage
Local == UNCHANGED <<pods, watch, rsVars, changes, faults, touched, misled>>

\* processNextWorkItem's end: Forget or AddRateLimited, and Done.  The delay after an
\* error is part of the time until the worker takes the key.
Return(err) == sync' = Idle /\ queued' = (queued \/ err)

ToStatus(err) == sync' = [Idle EXCEPT !.stage = "status", !.err = err]

\* Mutant of Start: a ReplicaSet that is not found is left to deleteRS.
StartIgnoresDeleted ==
    /\ At("idle") /\ queued /\ queued' = FALSE
    /\ sync' = IF rsStore.exists THEN [Idle EXCEPT !.stage = "check", !.rs = rsStore] ELSE Idle
    /\ Local /\ UNCHANGED <<exp, uids>>

Start ==
    /\ At("idle") /\ queued /\ queued' = FALSE
    /\ \/ /\ rsStore.exists /\ UNCHANGED <<exp, uids>>
          /\ sync' = [Idle EXCEPT !.stage = "check", !.rs = rsStore]
       \/ ~rsStore.exists /\ DeleteExpectations /\ UNCHANGED sync
    /\ Local

Check ==
    /\ At("check")
    /\ sync' = [sync EXCEPT !.stage = "list", !.needs = SatisfiedExpectations]
    /\ Local /\ UNCHANGED <<exp, uids, queued>>

\* What is to be done with a listed pod, unless the ReplicaSet is being deleted.
ClaimObject(pod) ==
    CASE pod.owned /\ pod.match                         -> "claimed"
      [] pod.owned /\ ~pod.match /\ ~sync.rs.deleting   -> "release"
      [] ~pod.owned /\ pod.match /\ ~sync.rs.deleting   -> "adopt"
      [] OTHER                                          -> "ignore"

ListPods ==
    LET active == {p \in Pod : IsPodActive(store[p])}
        those(what) == {p \in active : ClaimObject(store[p]) = what}
    IN  /\ At("list")
        /\ sync' = [sync EXCEPT !.stage = "claim", !.pods = those("claimed"),
                                !.adopt = those("adopt"), !.release = those("release")]
        /\ touched' = {p \in touched : \E i \in DOMAIN log : log[i].name = p}
        /\ UNCHANGED <<pods, watch, rsVars, exp, uids, queued, changes, faults, misled>>

\* PatchPod of a controllerRef: nothing happens to a pod that has it already.
PatchPod(p, owned) ==
    IF pods[p].exists /\ pods[p].owned # owned
    THEN StorePod(p, [pods[p] EXCEPT !.owned = owned])
    ELSE UNCHANGED <<pods, watch>>

\* AdoptPod.  CanAdopt reads the ReplicaSet from the API server once per sync, and
\* remembers a failure too.
AdoptPod(p) ==
    LET can == IF sync.can # "unknown" THEN sync.can
               ELSE IF rs.exists /\ ~rs.deleting THEN "yes" ELSE "no"
        adopted(err) == [sync EXCEPT !.adopt = @ \ {p}, !.can = can, !.err = @ \/ err,
                           !.pods = IF ~err /\ pods[p].exists THEN @ \cup {p} ELSE @]
    IN  /\ At("claim") /\ p \in sync.adopt
        /\ \/ can = "no" /\ sync' = adopted(TRUE) /\ UNCHANGED <<pods, watch>> /\ NoFault
           \/ can = "yes" /\ sync' = adopted(FALSE) /\ PatchPod(p, TRUE) /\ NoFault
           \/ can = "yes" /\ sync' = adopted(TRUE) /\ Fault
              /\ (PatchPod(p, TRUE) \/ UNCHANGED <<pods, watch>>)
           \/ /\ sync.can = "unknown" /\ sync' = [adopted(TRUE) EXCEPT !.can = "no"] /\ Fault
              /\ UNCHANGED <<pods, watch>>
        /\ UNCHANGED <<rsVars, exp, uids, queued, touched>>

ReleasePod(p) ==
    LET released(err) == [sync EXCEPT !.release = @ \ {p}, !.err = @ \/ err] IN
    /\ At("claim") /\ p \in sync.release
    /\ \/ sync' = released(FALSE) /\ PatchPod(p, FALSE) /\ NoFault
       \/ sync' = released(TRUE) /\ Fault /\ (PatchPod(p, FALSE) \/ UNCHANGED <<pods, watch>>)
    /\ UNCHANGED <<rsVars, exp, uids, queued, touched>>

Claimed == At("claim") /\ sync.adopt = {} /\ sync.release = {}

ClaimFails == Claimed /\ sync.err /\ Return(TRUE) /\ Local /\ UNCHANGED <<exp, uids>>

NoManage ==
    /\ Claimed /\ ~sync.err /\ ~(sync.needs /\ ~sync.rs.deleting)
    /\ ToStatus(FALSE)
    /\ Local /\ UNCHANGED <<exp, uids, queued>>

\* manageReplicas up to its first call.  Which pods are deleted is left open: the
\* order depends on their phases, nodes and ages.
manageReplicas ==
    LET diff == Cardinality(sync.pods) - sync.rs.replicas
        few == Min({-diff, BurstReplicas})
        many == Min({diff, BurstReplicas})
    IN  /\ Claimed /\ ~sync.err /\ sync.needs /\ ~sync.rs.deleting
        /\ \/ /\ diff < 0 /\ ExpectCreations(few)
              /\ sync' = [Idle EXCEPT !.stage = "create", !.rs = sync.rs,
                                      !.remaining = few, !.batch = 1, !.calls = 1]
           \/ /\ diff > 0
              /\ \E victims \in kSubset(many, sync.pods) :
                    /\ ExpectDeletions(victims)
                    /\ sync' = [sync EXCEPT !.stage = "delete", !.victims = victims]
           \/ diff = 0 /\ ToStatus(FALSE) /\ UNCHANGED <<exp, uids>>
        /\ Local /\ UNCHANGED queued

\* CreatePodsWithControllerRef, called by slowStartBatch: the pod is created; it
\* is refused, always when every name is taken; it is created but the answer is
\* lost; or the namespace is terminating, which is no error.
CreatePod ==
    LET answered(err) == [sync EXCEPT !.calls = @ - 1, !.errs = IF err THEN @ + 1 ELSE @]
        free == {p \in Pod : Free(p)}
        p == CHOOSE q \in free : TRUE
    IN  /\ At("create") /\ sync.calls > 0
        /\ \/ /\ free # {} /\ StorePod(p, NewPod) /\ touched' = touched \ {p}
              /\ \/ sync' = answered(FALSE) /\ NoFault
                 \/ sync' = answered(TRUE) /\ Misled
           \/ /\ UNCHANGED <<pods, watch, touched>>
              /\ \/ sync' = answered(TRUE) /\ (Fault \/ (free = {} /\ NoFault))
                 \/ sync' = answered(FALSE) /\ Fault
        /\ UNCHANGED <<rsVars, exp, uids, queued>>

\* The end of a batch.  What failed or was skipped is no longer expected.
slowStartBatch ==
    LET remaining == sync.remaining - sync.batch
        batch == Min({2 * sync.batch, remaining})
    IN  /\ At("create") /\ sync.calls = 0
        /\ \/ /\ sync.errs > 0
              /\ CreationObserved(remaining + sync.errs)
              /\ ToStatus(TRUE)
           \/ /\ sync.errs = 0 /\ batch = 0 /\ ToStatus(FALSE) /\ UNCHANGED <<exp, uids>>
           \/ /\ sync.errs = 0 /\ batch > 0 /\ UNCHANGED <<exp, uids>>
              /\ sync' = [sync EXCEPT !.remaining = remaining, !.batch = batch, !.calls = batch]
        /\ Local /\ UNCHANGED queued

\* DeletePod, by one of the goroutines: with grace, at once, in vain, or with an
\* error, which may come after the deletion.
DeletePod(p) ==
    LET answered(err) ==
            IF sync.victims = {p} THEN ToStatus(sync.err \/ err)
            ELSE sync' = [sync EXCEPT !.victims = @ \ {p}, !.err = @ \/ err]
        gone == StorePod(p, NoPod)
        deleted == \/ gone
                   \/ ~pods[p].deleting /\ StorePod(p, [pods[p] EXCEPT !.deleting = TRUE])
                   \/ pods[p].deleting /\ UNCHANGED <<pods, watch>>
    IN  /\ At("delete") /\ p \in sync.victims
        /\ \/ /\ pods[p].exists /\ deleted /\ answered(FALSE)
              /\ NoFault /\ UNCHANGED <<exp, uids>>
           \/ /\ ~pods[p].exists /\ answered(FALSE) /\ DeletionObserved(p)
              /\ NoFault /\ UNCHANGED <<pods, watch>>
           \/ /\ pods[p].exists /\ answered(TRUE) /\ DeletionObserved(p)
              /\ \/ deleted /\ Misled
                 \/ Fault /\ UNCHANGED <<pods, watch>>
        /\ UNCHANGED <<rsVars, queued, touched>>

\* calculateStatus, updateReplicaSetStatus and the end of the sync.  The status
\* itself is left out; writing it, when it has to be written, may fail.
UpdateStatus ==
    /\ At("status")
    /\ \/ Return(sync.err) /\ NoFault
       \/ Return(TRUE) /\ IF rs.exists THEN Fault ELSE NoFault
    /\ UNCHANGED <<pods, watch, rsVars, exp, uids, touched>>

Worker ==
    \/ Start \/ Check \/ ListPods \/ ClaimFails \/ NoManage \/ manageReplicas
    \/ CreatePod \/ slowStartBatch \/ UpdateStatus
    \/ \E p \in Pod : AdoptPod(p) \/ ReleasePod(p) \/ DeletePod(p)

Next ==
    \/ Worker \/ HandlePod \/ HandleRS \/ Resync \/ Expires
    \/ PodStored \/ PodsRelisted \/ RSStored \/ PodRemoved \/ PodChanges \/ RSChanges

Spec == Init /\ [][Next]_vars

\* The resync that is counted on.  Its period is much longer than the timeout: one
\* comes when expectations have expired and nothing else wakes the controller.
ExpiredResync == exp.exists /\ exp.expired /\ Resync

\* The worker and the handlers run, the watches deliver, delays and timeouts end,
\* and pods that are being deleted go.
FairSpec ==
    /\ Spec
    /\ WF_vars(Worker) /\ WF_vars(HandlePod) /\ WF_vars(HandleRS) /\ WF_vars(PodStored)
    /\ WF_vars(RSStored) /\ WF_vars(ExpiredResync) /\ WF_vars(Expires)
    /\ WF_vars(PodRemoved)
-----------------------------------------------------------------------------
\* A pod is created only when one is missing at the API server, whatever the
\* lister shows: the expectations cover the creations that it does not show yet.
\* Left out are pods others changed behind the lister's back, expectations that a
\* lost answer or a slow informer cut short, and a ReplicaSet that is gone.
CreatesOnlyMissing ==
    [][LET created == {p \in Pod : ~pods[p].exists /\ pods'[p].exists /\ pods'[p].owned}
       IN  created # {} /\ ~misled /\ rsStore.exists
           => Cardinality(Replicas \ touched) < sync.rs.replicas]_vars

\* A worker deletes a pod only when there is one too many, counting the pods of
\* its list that others took away without its knowledge.
DeletesOnlySurplus ==
    [][LET deleted == {p \in sync.victims : Replica(pods[p]) /\ ~Replica(pods'[p])}
       IN  At("delete") /\ sync' # sync /\ deleted # {} /\ ~misled /\ rsStore.exists
           => Cardinality(Replicas \cup (sync.pods \cap touched)) > sync.rs.replicas]_vars

\* When nothing changes any more, a ReplicaSet has the pods it asks for, whatever was
\* lost, refused or expired before; one that is gone has left no expectations,
\* although its last sync may have set them after deleteRS deleted them.
Settles ==
    <>[](IF rs.exists THEN rs.deleting \/ Cardinality(Replicas) = rs.replicas
                      ELSE ~exp.exists /\ uids = {})
=============================================================================
