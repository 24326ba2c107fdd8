------------------------------ MODULE Scheduler ------------------------------
(***************************************************************************)
(* The scheduler as a whole: scheduler.go's loop and binding goroutines,   *)
(* factory.go's error function and eventhandlers.go's handlers, on the     *)
(* scheduling queue (PriorityQueue) and on what the cache promises         *)
(* (SchedulerCacheAbs, which SchedulerCache implements), with the API      *)
(* server and the pod informer around them.                                *)
(*                                                                         *)
(* The API server's history of a pod is the sequence of its versions: the  *)
(* node (Pending before it is bound, Gone after it is deleted) and the     *)
(* NominatedNodeName.  The informer's store, the handler for the queue and *)
(* the handler for the cache follow it at their own pace, the handlers     *)
(* behind the store, each in a goroutine of its own.  Nodes do not change. *)
(***************************************************************************)
EXTENDS PriorityQueue, FiniteSets, Sequences

CONSTANTS Loop, Binder,   \* the scheduling loop; binding goroutines, a bound
          Pending, Gone,
          Capacity,       \* pods a node has room for
          PostFilter,     \* HasPostFilterPlugins: preemption may nominate nodes
          Faults,         \* what goes wrong: "lostAnswer" of a binding, "expiry"
                          \* of an assumed pod, "otherScheduler" binds pods, and
                          \* "slowForget": a pod expires before its ForgetPod
          MaxCycle,       \* bound: no Pop once schedulingCycle reaches it
          MaxVersions     \* bound: versions of a pod

ASSUME SchedulerAssumption ==
    /\ IsFiniteSet(Pod) /\ Loop \notin Binder
    /\ {Pending, Gone} \cap (Node \cup {NoNode}) = {} /\ Pending # Gone
    /\ Capacity \in Nat /\ PostFilter \in BOOLEAN
    /\ Faults \subseteq {"lostAnswer", "expiry", "otherScheduler", "slowForget"}

VARIABLES
    versions,                    \* the API server's history of each pod
    storeAt, queueAt, cacheAt,   \* how far the informer and its handlers are
    where, assumed, finished,    \* the cache; FinishBinding was called
    act                          \* what the loop and each goroutine is doing

cacheVars == <<where, assumed, finished>>
informerVars == <<storeAt, queueAt, cacheAt>>
vars == <<queueVars, versions, informerVars, cacheVars, act>>

Actor == {Loop} \cup Binder

\* The cache, whose snapshot is read in the step that takes it.
Cache == INSTANCE SchedulerCacheAbs WITH objects <- <<>>, view <- <<>>

(***************************************************************************)
(* An actor: the stage of scheduleOne it is in, the pod, the node chosen   *)
(* for it (or nominated), the plugins in its QueuedPodInfo, whether the    *)
(* attempt failed for another reason than a FitError, what the lister and  *)
(* SchedulingCycle() told the error function, and the history flag moved:  *)
(* a move was requested since the pod was popped.                          *)
(***************************************************************************)
Idle == [stage |-> "idle", pod |-> NoNode, node |-> NoNode, pl |-> {}, error |-> FALSE,
         nnn |-> NoNode, cycle |-> 0, moved |-> FALSE]

Init ==
    /\ QueueInit
    /\ versions = [p \in Pod |-> <<[node |-> Pending, nnn |-> NoNode]>>]
    /\ storeAt = [p \in Pod |-> 0]
    /\ queueAt = [p \in Pod |-> 0]
    /\ cacheAt = [p \in Pod |-> 0]
    /\ where = [p \in Pod |-> NoNode]
    /\ assumed = {}
    /\ finished = {}
    /\ act = [x \in Actor |-> Idle]

At(x, stage) == act[x].stage = stage
Goes(x, stage) == act' = [act EXCEPT ![x].stage = stage]

\* Every attempt under way sees a move request.
Seen(a) == [x \in Actor |-> [a[x] EXCEPT !.moved = (a[x].stage # "idle")]]

API(p) == versions[p][Len(versions[p])]
Write(p, v) == versions' = [versions EXCEPT ![p] = Append(@, v)]
-----------------------------------------------------------------------------
(***************************************************************************)
(* scheduleOne, up to the start of the binding goroutine.                  *)
(***************************************************************************)
WaitForPod ==
    /\ At(Loop, "idle")
    /\ PopWait
    /\ UNCHANGED <<versions, informerVars, cacheVars, act>>

\* The pod object in its QueuedPodInfo is one the informer has had.
NextPod(p) ==
    /\ At(Loop, "idle")
    /\ schedulingCycle < MaxCycle
    /\ Pop(p)
    /\ \E i \in 1..storeAt[p] :
          act' = [act EXCEPT ![Loop] = [Idle EXCEPT !.stage = "popped", !.pod = p,
                                          !.pl = plugins[p], !.nnn = versions[p][i].nnn]]
    /\ UNCHANGED <<versions, informerVars, cacheVars>>

\* skipPodSchedule: the pod is being deleted, or it is assumed and the queued
\* object differs only in fields that do not matter (left open).
SkipPod ==
    /\ At(Loop, "popped")
    /\ API(act[Loop].pod).node = Gone \/ act[Loop].pod \in assumed
    /\ act' = [act EXCEPT ![Loop] = Idle]
    /\ UNCHANGED <<queueVars, versions, informerVars, cacheVars>>

\* Mutant of Schedule: pods that are assumed take no room.
ScheduleByConfirmed(n) ==
    /\ At(Loop, "popped")
    /\ Cardinality(Cache!PodsOn(n) \ (assumed \cup {act[Loop].pod})) < Capacity
    /\ act' = [act EXCEPT ![Loop].stage = "chosen", ![Loop].node = n]
    /\ UNCHANGED <<queueVars, versions, informerVars, cacheVars>>

\* Schedule takes a snapshot and finds a node with room in it.
Schedule(n) ==
    /\ At(Loop, "popped")
    /\ Cardinality(Cache!PodsOn(n) \ {act[Loop].pod}) < Capacity
    /\ act' = [act EXCEPT ![Loop].stage = "chosen", ![Loop].node = n]
    /\ UNCHANGED <<queueVars, versions, informerVars, cacheVars>>

\* Schedule fails with a FitError: plugins pl rejected nodes (there are other
\* filters than room), none if an extender did, and preemption may have
\* nominated a node.
NoFit(pl, n) ==
    /\ At(Loop, "popped")
    /\ n # NoNode => PostFilter
    /\ act' = [act EXCEPT ![Loop].stage = "lookup", ![Loop].node = n, ![Loop].pl = pl]
    /\ UNCHANGED <<queueVars, versions, informerVars, cacheVars>>

\* Schedule fails with another error: the QueuedPodInfo keeps its plugins.
ScheduleError ==
    /\ At(Loop, "popped")
    /\ act' = [act EXCEPT ![Loop].stage = "lookup", ![Loop].error = TRUE]
    /\ UNCHANGED <<queueVars, versions, informerVars, cacheVars>>

\* From here on the pod's info is a DeepCopy, which has no plugins.
Copied(x, stage) == [x EXCEPT !.stage = stage, !.pl = {}]

\* Mutant of Assume: a pod in the cache is assumed again.
AssumeAgain ==
    /\ At(Loop, "chosen")
    /\ where' = [where EXCEPT ![act[Loop].pod] = act[Loop].node]
    /\ assumed' = assumed \cup {act[Loop].pod}
    /\ finished' = finished \ {act[Loop].pod}
    /\ DeleteNominatedPodIfExists(act[Loop].pod)
    /\ act' = [act EXCEPT ![Loop] = Copied(@, "assumed")]
    /\ UNCHANGED <<activeQ, podBackoffQ, unschedulableQ, plugins, backingOff, leftover,
                   schedulingCycle, moveRequestCycle, parked, closed,
                   versions, informerVars>>

\* assume fails for a pod that is in the cache.
Assume ==
    /\ At(Loop, "chosen")
    /\ LET p == act[Loop].pod
           n == act[Loop].node
       IN  \/ /\ where[p] = NoNode
              /\ Cache!Assume(p, n)
              /\ UNCHANGED finished
              /\ DeleteNominatedPodIfExists(p)
              /\ act' = [act EXCEPT ![Loop] = Copied(@, "assumed")]
           \/ /\ where[p] # NoNode
              /\ act' = [act EXCEPT ![Loop] =
                            [Copied(@, "lookup") EXCEPT !.error = TRUE, !.node = NoNode]]
              /\ UNCHANGED <<cacheVars, nominator>>
    /\ UNCHANGED <<activeQ, podBackoffQ, unschedulableQ, plugins, backingOff, leftover,
                   schedulingCycle, moveRequestCycle, parked, closed,
                   versions, informerVars>>

\* The reserve and permit plugins agree: the binding goroutine starts.
StartBinding(b) ==
    /\ At(Loop, "assumed") /\ At(b, "idle")
    /\ act' = [act EXCEPT ![Loop] = Idle, ![b] = [act[Loop] EXCEPT !.stage = "bind"]]
    /\ UNCHANGED <<queueVars, versions, informerVars, cacheVars>>

\* Mutant of PluginFails: the pod is forgotten but not put back.
PluginFailsSilently(x) ==
    /\ At(x, "assumed") \/ At(x, "bind")
    /\ \/ /\ act[x].pod \in assumed /\ where[act[x].pod] = act[x].node
          /\ Cache!Drop({act[x].pod})
          /\ finished' = finished \ {act[x].pod}
       \/ act[x].pod \notin assumed /\ UNCHANGED cacheVars
    /\ act' = [act EXCEPT ![x] = Idle]
    /\ UNCHANGED <<queueVars, versions, informerVars>>

\* Reserve and permit in the loop, or waiting on permit and prebind in the
\* goroutine, fail.
PluginFails(x) ==
    /\ At(x, "assumed") \/ At(x, "bind")
    /\ Goes(x, "forget")
    /\ UNCHANGED <<queueVars, versions, informerVars, cacheVars>>
-----------------------------------------------------------------------------
(***************************************************************************)
(* The binding goroutine.                                                  *)
(***************************************************************************)
\* The API server binds a pod that is pending and refuses any other; the request
\* or the answer may be lost.
Bind(b) ==
    /\ At(b, "bind")
    /\ \/ /\ API(act[b].pod).node = Pending
          /\ Write(act[b].pod, [API(act[b].pod) EXCEPT !.node = act[b].node])
          /\ Goes(b, "bound") \/ ("lostAnswer" \in Faults /\ Goes(b, "refused"))
       \/ /\ API(act[b].pod).node # Pending \/ "lostAnswer" \in Faults
          /\ Goes(b, "refused")
          /\ UNCHANGED versions
    /\ UNCHANGED <<queueVars, informerVars, cacheVars>>

\* bind's deferred finishBinding.
FinishBinding(b) ==
    /\ At(b, "bound") \/ At(b, "refused")
    /\ finished' = finished \cup ({act[b].pod} \cap assumed)
    /\ act' = [act EXCEPT ![b] = IF @.stage = "bound" THEN Idle
                                 ELSE [@ EXCEPT !.stage = "forget"]]
    /\ UNCHANGED <<queueVars, versions, informerVars, where, assumed>>

\* ForgetPod touches only a pod that is still assumed, on the same node; its
\* error is logged.
ForgetPod(x) ==
    /\ At(x, "forget")
    /\ \/ /\ act[x].pod \in assumed /\ where[act[x].pod] = act[x].node
          /\ Cache!Drop({act[x].pod})
          /\ finished' = finished \ {act[x].pod}
       \/ /\ ~(act[x].pod \in assumed /\ where[act[x].pod] = act[x].node)
          /\ UNCHANGED cacheVars
    /\ act' = [act EXCEPT ![x].stage = "lookup", ![x].error = TRUE, ![x].node = NoNode]
    /\ UNCHANGED <<queueVars, versions, informerVars>>

\* The cache's cleanup drops a pod 30 s after FinishBinding: too late, unless the
\* reserve plugins are that slow, for a goroutine that is about to forget it.
Expire(p) ==
    /\ "expiry" \in Faults
    /\ p \in assumed \cap finished
    /\ "slowForget" \in Faults \/ ~\E x \in Actor : act[x].pod = p /\ At(x, "forget")
    /\ Cache!Drop({p})
    /\ finished' = finished \ {p}
    /\ UNCHANGED <<queueVars, versions, informerVars, act>>
-----------------------------------------------------------------------------
(***************************************************************************)
(* recordSchedulingFailure: the error function (lookup, requeue), then the *)
(* nomination and the patch of the pod's status.                           *)
(***************************************************************************)
\* The error function asks the lister; a pod that is deleted or assigned there
\* is not put back.
Lookup(x) ==
    /\ At(x, "lookup")
    /\ LET p == act[x].pod
           cached == versions[p][storeAt[p]]
       IN  act' = [act EXCEPT ![x] =
                      IF cached.node = Pending
                      THEN [@ EXCEPT !.stage = "requeue", !.nnn = cached.nnn,
                                     !.cycle = schedulingCycle]
                      ELSE [@ EXCEPT !.stage = "nominate"]]
    /\ UNCHANGED <<queueVars, versions, informerVars, cacheVars>>

\* podSchedulingCycle is SchedulingCycle(), read after the lookup and not when
\* the pod was popped.
Requeue(x) ==
    /\ At(x, "requeue")
    /\ \E cycle \in act[x].cycle..schedulingCycle :
          AddUnschedulableIfNotPresent(act[x].pod, cycle, act[x].pl, act[x].nnn)
    /\ act' = [act EXCEPT ![x].stage = "nominate", ![x].cycle = 0]
    /\ UNCHANGED <<versions, informerVars, cacheVars>>

\* AddNominatedPod, with the pod object the error function may have replaced.
Nominate(x) ==
    /\ At(x, "nominate")
    /\ AddNominatedPod(act[x].pod, act[x].node, act[x].nnn)
    /\ Goes(x, "patch")
    /\ UNCHANGED <<activeQ, podBackoffQ, unschedulableQ, plugins, backingOff, leftover,
                   schedulingCycle, moveRequestCycle, parked, closed,
                   versions, informerVars, cacheVars>>

\* updatePod patches a condition or the nomination if they changed; the call may
\* fail.
Patch(x) ==
    /\ At(x, "patch")
    /\ act' = [act EXCEPT ![x] = Idle]
    /\ LET p == act[x].pod
       IN  \/ /\ API(p).node # Gone /\ Len(versions[p]) < MaxVersions
              /\ Write(p, IF act[x].node = NoNode THEN API(p)
                          ELSE [API(p) EXCEPT !.nnn = act[x].node])
           \/ UNCHANGED versions
    /\ UNCHANGED <<queueVars, informerVars, cacheVars>>
-----------------------------------------------------------------------------
(***************************************************************************)
(* Other clients of the API server, and the informer.                      *)
(***************************************************************************)
ChangePod(p) ==
    /\ Len(versions[p]) < MaxVersions
    /\ \/ API(p).node # Gone /\ Write(p, [API(p) EXCEPT !.node = Gone])
       \/ /\ API(p).node = Pending
          /\ \E nnn \in {API(p).nnn, NoNode} : Write(p, [API(p) EXCEPT !.nnn = nnn])
       \/ /\ "otherScheduler" \in Faults /\ API(p).node = Pending
          /\ \E n \in Node : Write(p, [API(p) EXCEPT !.node = n])
    /\ UNCHANGED <<queueVars, informerVars, cacheVars, act>>

Version(p, i) == IF i = 0 THEN [node |-> Gone, nnn |-> NoNode] ELSE versions[p][i]

\* The store takes the next version.  The handler for the cache ignores pods
\* that are not assigned, which is all it hears of until one is.
Observe(p) ==
    /\ storeAt[p] < Len(versions[p])
    /\ storeAt' = [storeAt EXCEPT ![p] = @ + 1]
    /\ cacheAt' = [cacheAt EXCEPT ![p] =
                      IF \A i \in 1..storeAt[p] + 1 : versions[p][i].node \notin Node
                      THEN @ + 1 ELSE @]
    /\ UNCHANGED <<queueVars, versions, queueAt, cacheVars, act>>

\* The handlers for pods without a node: addPodToSchedulingQueue,
\* updatePodInSchedulingQueue (which may skip an assumed pod) and
\* deletePodFromSchedulingQueue.
QueueHandler(p) ==
    /\ queueAt[p] < storeAt[p]
    /\ queueAt' = [queueAt EXCEPT ![p] = @ + 1]
    /\ LET old == Version(p, queueAt[p])
           new == Version(p, queueAt[p] + 1)
       IN  \/ old.node # Pending /\ new.node = Pending /\ Add(p, new.nnn)
           \/ /\ old.node = Pending /\ new.node = Pending
              /\ \/ \E updated \in BOOLEAN : Update(p, old.nnn, new.nnn, updated)
                 \/ p \in assumed /\ UNCHANGED queueVars
           \/ old.node = Pending /\ new.node # Pending /\ Delete(p)
    /\ UNCHANGED <<versions, storeAt, cacheAt, cacheVars, act>>

\* The handlers for pods with a node: addPodToCache, updatePodInCache and
\* deletePodFromCache, each of which ends in a move request.  Which pods have a
\* matching affinity term is left open.
CacheHandler(p) ==
    /\ cacheAt[p] < storeAt[p]
    /\ cacheAt' = [cacheAt EXCEPT ![p] = @ + 1]
    /\ LET old == Version(p, cacheAt[p]).node
           new == Version(p, cacheAt[p] + 1).node
       IN  \/ /\ old \notin Node
              /\ Cache!Add(p, new)
              /\ \E P \in SUBSET unschedulableQ : AssignedPodAdded(P)
           \/ /\ old \in Node /\ new \in Node
              /\ \E P \in SUBSET unschedulableQ : AssignedPodUpdated(P)
              /\ UNCHANGED <<where, assumed>>
           \/ /\ new = Gone
              /\ Cache!Remove(p)
              /\ MoveAllToActiveOrBackoffQueue("AssignedPodDelete")
    /\ finished' = finished \ {p}
    /\ act' = Seen(act)
    /\ UNCHANGED <<versions, storeAt, queueAt>>

\* The handlers of nodes, volumes and services.
ClusterEvent(e) ==
    /\ MoveAllToActiveOrBackoffQueue(e)
    /\ act' = Seen(act)
    /\ UNCHANGED <<versions, informerVars, cacheVars>>

Flush ==
    /\ \/ flushBackoffQCompleted /\ UNCHANGED act
       \/ flushUnschedulableQLeftover /\ act' = Seen(act)
    /\ UNCHANGED <<versions, informerVars, cacheVars>>

\* A pod's backoff ends; it has been unschedulable for a minute some time after,
\* so that from now on the flush may take it at any time.
Tick(p) ==
    /\ p \in backingOff \cap Queued
    /\ backingOff' = backingOff \ {p}
    /\ leftover' = leftover \cup ({p} \cap unschedulableQ)
    /\ UNCHANGED <<activeQ, podBackoffQ, unschedulableQ, plugins, schedulingCycle,
                   moveRequestCycle, nominator, parked, closed,
                   versions, informerVars, cacheVars, act>>

Next ==
    \/ WaitForPod \/ SkipPod \/ ScheduleError \/ Assume
    \/ \E p \in Pod : NextPod(p)
    \/ \E n \in Node : Schedule(n)
    \/ \E pl \in SUBSET Plugin, n \in Node \cup {NoNode} : NoFit(pl, n)
    \/ \E b \in Binder : StartBinding(b) \/ Bind(b) \/ FinishBinding(b)
    \/ \E x \in Actor : \/ PluginFails(x) \/ ForgetPod(x)
                        \/ Lookup(x) \/ Requeue(x) \/ Nominate(x) \/ Patch(x)
    \/ \E p \in Pod : \/ Expire(p) \/ ChangePod(p) \/ Observe(p)
                      \/ QueueHandler(p) \/ CacheHandler(p) \/ Tick(p)
    \/ \E e \in Event \ {"AssignedPodAdd", "AssignedPodUpdate", "UnschedulableTimeout"} :
          ClusterEvent(e)
    \/ Flush

Spec == Init /\ [][Next]_vars
-----------------------------------------------------------------------------
\* The actor has not yet given the pod back.
Holds(x, p) ==
    act[x].pod = p /\ act[x].stage \in {"popped", "chosen", "assumed", "bind", "bound",
                                        "refused", "forget", "lookup", "requeue"}

\* A pending pod the queue was told of is never lost: it is in the queue or
\* somebody holds it, through failures, skips, updates and expiry.
NoPodLost ==
    \A p \in Pod : queueAt[p] > 0 /\ API(p).node = Pending
                     => p \in Queued \/ \E x \in Actor : Holds(x, p)

\* Without faults, nodes never get more pods than they have room for, although
\* cycles run ahead of bindings, of their confirmation and of deletions.
CapacityRespected ==
    Faults = {} => \A n \in Node : Cardinality({p \in Pod : API(p).node = n}) <= Capacity

\* Two goroutines never bind the same pending pod at once, as long as no pod
\* expires between FinishBinding and ForgetPod.
OneBindingPerPod ==
    "slowForget" \in Faults \/ \A x, y \in Actor : \A p \in Pod :
        /\ act[x].pod = p /\ act[x].stage \in {"assumed", "bind"}
        /\ act[y].pod = p /\ act[y].stage \in {"assumed", "bind"}
        /\ API(p).node = Pending
        => x = y

\* x puts its pod in unschedulableQ.
Shelves(x) ==
    Requeue(x) /\ act[x].pod \in unschedulableQ' \ unschedulableQ

\* The loop's own failures hear of every move request made since the pod was
\* popped, although SchedulingCycle() is read at the end of the attempt.
LoopHearsMoves == [][Shelves(Loop) => ~act[Loop].moved]_vars

\* scheduling_queue.go:147-150 "Unschedulable pods in and before this scheduling
\* cycle will be put back to activeQueue if we were trying to schedule them when
\* we received move request."
EveryoneHearsMoves == [][\A x \in Actor : Shelves(x) => ~act[x].moved]_vars
=============================================================================
