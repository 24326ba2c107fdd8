--------------------------- MODULE SchedulerCache ---------------------------
(***************************************************************************)
(* pkg/scheduler/internal/cache: the scheduler's view of pods and nodes,   *)
(* with the incrementally refreshed snapshot each scheduling cycle uses,   *)
(* driven by the scheduling loop, the binding goroutines and the informer  *)
(* handlers of scheduler.go and eventhandlers.go.                          *)
(*                                                                         *)
(* Every cache method holds cache.mu throughout, so a method is one step.  *)
(* The doubly linked list of NodeInfos is the sequence list, its head      *)
(* first; a node is in cache.nodes exactly when it is in list.  A NodeInfo *)
(* is the node object, the pods with how often each was added (Pods is a   *)
(* slice: a pod counted twice would be there twice) and the generation.    *)
(* How often one locked method bumps the generation counter cannot be      *)
(* seen outside the lock: a method bumps it once per NodeInfo it touches.  *)
(***************************************************************************)
EXTENDS Integers, FiniteSets, Sequences, SequencesExt, SeqFilter

CONSTANTS Pod, Node, Zone, Image,
          Binder,     \* binding goroutines: as many run at once, a bound
          NodeObj,    \* node objects the API holds: [zone, images]
          TermKind,   \* "affinity" and "antiAffinity"
          Declares,   \* the pods with terms of each kind, [TermKind -> SUBSET Pod]
          NoNode,     \* no node, no node object, no snapshot entry
          Pending,    \* a pod the API server has not assigned to a node
          Gone,       \* a pod the API server has deleted
          MaxGen      \* bound: no call from outside once generation reaches it

\* What the cache keeps of a node.
NodeInfo == [node : NodeObj \cup {NoNode}, pods : [Pod -> Nat], gen : Int]

ASSUME CacheAssumption ==
    /\ NodeObj \subseteq [zone : Zone, images : SUBSET Image]
    /\ Declares \in [TermKind -> SUBSET Pod]
    /\ NoNode \notin Node \cup NodeObj
    /\ {Pending, Gone} \cap Node = {} /\ Pending # Gone
    /\ IsFiniteSet(Node) /\ NoNode \notin NodeInfo

VARIABLES
    list, info, generation,                      \* nodes, headNode, NodeInfo
    nodeTree,                                    \* nodeTree
    imageStates,                                 \* imageStates
    podNode, assumedPods,                        \* podStates[p].pod.Spec.NodeName, assumedPods
    bindingFinished, deadline,                   \* podStates[p]
    fatal,                                       \* klog.Fatalf was called
    snap, snapErr,                               \* Snapshot, UpdateSnapshot's error
    api, seen, lister,                           \* API server's pods; informers' pods and nodes
    binder                                       \* binding goroutines: pod, node and stage

cacheVars == <<list, info, generation, nodeTree, imageStates>>
podVars == <<podNode, assumedPods, bindingFinished, deadline, fatal>>
snapVars == <<snap, snapErr>>
envVars == <<api, seen, lister, binder>>
vars == <<cacheVars, podVars, snapVars, envVars>>

EmptyInfo == [node |-> NoNode, pods |-> [p \in Pod |-> 0], gen |-> 0]
InCache(n) == n \in Range(list)

Init ==
    /\ list = <<>>
    /\ info = [n \in Node |-> EmptyInfo]
    /\ generation = 0
    /\ nodeTree = [tree |-> [z \in Zone |-> <<>>], zones |-> <<>>, numNodes |-> 0]
    /\ imageStates = [i \in Image |-> {}]
    /\ podNode = [p \in Pod |-> NoNode]
    /\ assumedPods = {}
    /\ bindingFinished = [p \in Pod |-> FALSE]
    /\ deadline = [p \in Pod |-> "nil"]
    /\ fatal = FALSE
    /\ snap = [map |-> [n \in Node |-> NoNode], list |-> <<>>,
               have |-> [k \in TermKind |-> <<>>], gen |-> 0]
    /\ snapErr = FALSE
    /\ api = [p \in Pod |-> Pending]
    /\ seen = [p \in Pod |-> Pending]
    /\ lister = [n \in Node |-> NoNode]
    /\ binder = [b \in Binder |-> NoNode]
-----------------------------------------------------------------------------
(***************************************************************************)
(* NodeInfos.  Touch(order, inf) makes inf the NodeInfos, after the nodes  *)
(* in order were changed, the last of them first: they get new generations *)
(* and go to the head of the list, and one left with neither pods nor node *)
(* object is dropped (moveNodeInfoToHead, removeNodeInfoFromList).         *)
(***************************************************************************)
Alive(i) == i.node # NoNode \/ \E p \in Pod : i.pods[p] > 0

\* Mutant of moveNodeInfoToHead: nodes already in the list stay where they are.
moveOnlyNewToHead(order) ==
    Keep(order, Node \ Range(list)) \o list

moveNodeInfoToHead(order) ==
    order \o Keep(list, Node \ Range(order))

removeNodeInfoFromList(l, inf) == Keep(l, {n \in Node : Alive(inf[n])})

Touch(order, inf) ==
    LET stamped == [n \in Node |->
            IF n \in Range(order)
            THEN [inf[n] EXCEPT !.gen = generation + Len(order) + 1
                                        - (CHOOSE i \in 1..Len(order) : order[i] = n)]
            ELSE inf[n]]
    IN  /\ list' = removeNodeInfoFromList(moveNodeInfoToHead(order), stamped)
        /\ info' = [n \in Node |-> IF Alive(stamped[n]) THEN stamped[n] ELSE EmptyInfo]
        /\ generation' = generation + Len(order)

addPod(inf, p, n) == [inf EXCEPT ![n].pods[p] = @ + 1]

\* Mutant of removePod: the pod stays in the NodeInfo's slice.
removePodKeepsCount(inf, p, n) == inf

removePod(inf, p, n) == [inf EXCEPT ![n].pods[p] = IF @ = 0 THEN 0 ELSE @ - 1]

\* removePod fails when the NodeInfo is there and the pod is not in it.
CanRemove(p) == InCache(podNode[p]) => info[podNode[p]].pods[p] > 0
-----------------------------------------------------------------------------
(***************************************************************************)
(* node_tree.go                                                            *)
(***************************************************************************)
treeAddNode(t, n, z) ==
    IF n \in Range(t.tree[z]) THEN t
    ELSE [tree |-> [t.tree EXCEPT ![z] = Append(@, n)],
          zones |-> IF z \in Range(t.zones) THEN t.zones ELSE Append(t.zones, z),
          numNodes |-> t.numNodes + 1]

treeRemoveNode(t, n, z) ==
    IF n \notin Range(t.tree[z]) THEN t
    ELSE LET rest == Keep(t.tree[z], Node \ {n})
         IN  [tree |-> [t.tree EXCEPT ![z] = rest],
              zones |-> IF rest = <<>> THEN Keep(t.zones, Zone \ {z}) ELSE t.zones,
              numNodes |-> t.numNodes - 1]

\* Mutant of treeUpdateNode: the node is not taken out of its old zone.
treeUpdateOnlyAdds(t, n, old, new) == treeAddNode(t, n, new)

treeUpdateNode(t, n, old, new) ==
    IF old = new THEN t ELSE treeAddNode(treeRemoveNode(t, n, old), n, new)

\* list: round r takes the r-th node of every zone that has one, zone by zone.
treeList(t) ==
    LET round(r) == LET having == Keep(t.zones, {z \in Zone : Len(t.tree[z]) >= r})
                    IN  [i \in DOMAIN having |-> t.tree[having[i]][r]]
    IN  FlattenSeq([r \in 1..t.numNodes |-> round(r)])
-----------------------------------------------------------------------------
(***************************************************************************)
(* Image states: which nodes have each image.                              *)
(***************************************************************************)
ImagesOf(o) == IF o = NoNode THEN {} ELSE o.images

addNodeImageStates(s, n, o) ==
    [i \in Image |-> IF i \in ImagesOf(o) THEN s[i] \cup {n} ELSE s[i]]

removeNodeImageStates(s, n, o) ==
    [i \in Image |-> IF i \in ImagesOf(o) THEN s[i] \ {n} ELSE s[i]]
-----------------------------------------------------------------------------
(***************************************************************************)
(* Nodes come, change and go as the node informer says (lister is its      *)
(* store before the event).                                                *)
(***************************************************************************)
AddNode(n, o) ==
    /\ generation < MaxGen
    /\ lister[n] = NoNode
    /\ lister' = [lister EXCEPT ![n] = o]
    /\ imageStates' = addNodeImageStates(
                          removeNodeImageStates(imageStates, n, info[n].node), n, o)
    /\ nodeTree' = treeAddNode(nodeTree, n, o.zone)
    /\ Touch(<<n>>, [info EXCEPT ![n].node = o])
    /\ UNCHANGED <<podVars, snapVars, api, seen, binder>>

UpdateNode(n, o) ==
    /\ generation < MaxGen
    /\ lister[n] # NoNode
    /\ lister' = [lister EXCEPT ![n] = o]
    /\ imageStates' = addNodeImageStates(
                          removeNodeImageStates(imageStates, n, info[n].node), n, o)
    /\ nodeTree' = treeUpdateNode(
                       IF InCache(n) THEN nodeTree ELSE treeAddNode(nodeTree, n, o.zone),
                       n, lister[n].zone, o.zone)
    /\ Touch(<<n>>, [info EXCEPT ![n].node = o])
    /\ UNCHANGED <<podVars, snapVars, api, seen, binder>>

\* A node that still has pods stays as a ghost.  Image states are kept if the
\* tree lookup fails, and a node that is not cached is an error.
RemoveNode(n) ==
    /\ generation < MaxGen
    /\ lister[n] # NoNode
    /\ lister' = [lister EXCEPT ![n] = NoNode]
    /\ \/ /\ InCache(n)
          /\ Touch(<<n>>, [info EXCEPT ![n].node = NoNode])
          /\ nodeTree' = treeRemoveNode(nodeTree, n, lister[n].zone)
          /\ imageStates' = IF nodeTree' = nodeTree THEN imageStates
                            ELSE removeNodeImageStates(imageStates, n, lister[n])
       \/ ~InCache(n) /\ UNCHANGED cacheVars
    /\ UNCHANGED <<podVars, snapVars, api, seen, binder>>
-----------------------------------------------------------------------------
(***************************************************************************)
(* The scheduling loop and the binding goroutines.                         *)
(***************************************************************************)
\* UpdateSnapshot clones the NodeInfos in front of the first one no newer than
\* the snapshot, drops deleted nodes by count, and rebuilds lists if it must.
Visited == {list[i] : i \in {j \in DOMAIN list :
               \A m \in 1..j : info[list[m]].gen > snap.gen}}

\* Mutant of Has: one kind of terms is looked up for both lists.
HasAffinity(k, i) == i # NoNode /\ \E p \in Declares["affinity"] : i.pods[p] > 0

Has(k, i) == i # NoNode /\ \E p \in Declares[k] : i.pods[p] > 0

Entries(map) == {n \in Node : map[n] # NoNode}

\* Mutant of removeDeletedNodesFromSnapshot: ghosts count as nodes of the cache.
removeOnlyUnlisted(map) == {[n \in Node |-> IF InCache(n) THEN map[n] ELSE NoNode]}

\* removeDeletedNodesFromSnapshot, whose iteration order is the map's.
removeDeletedNodesFromSnapshot(map) ==
    LET dead == {n \in Entries(map) : ~InCache(n) \/ info[n].node = NoNode}
        excess == Cardinality(Entries(map)) - nodeTree.numNodes
        wanted == IF excess < Cardinality(dead) THEN excess ELSE Cardinality(dead)
    IN  {[n \in Node |-> IF n \in D THEN NoNode ELSE map[n]] :
            D \in {E \in SUBSET dead : Cardinality(E) = wanted}}

HavingTerms(l, map) == [k \in TermKind |-> Keep(l, {n \in Node : Has(k, map[n])})]

UpdateSnapshot ==
    LET cloned == {n \in Visited : info[n].node # NoNode}
        copied == [n \in Node |-> IF n \in cloned THEN info[n] ELSE snap.map[n]]
        added == \E n \in cloned : snap.map[n] = NoNode
        termsChanged == \E n \in cloned, k \in TermKind :
                            Has(k, snap.map[n]) # Has(k, info[n])
        shrink == Cardinality(Entries(copied)) > nodeTree.numNodes
    IN  \E map \in IF shrink THEN removeDeletedNodesFromSnapshot(copied) ELSE {copied} :
          LET rebuilt == Keep(treeList(nodeTree), Entries(map))
              tried == IF added \/ shrink THEN rebuilt ELSE snap.list
              bad == Len(tried) # nodeTree.numNodes
              final == IF bad THEN rebuilt ELSE tried
          IN  /\ snap' = [map |-> map,
                          list |-> final,
                          have |-> IF added \/ shrink \/ termsChanged \/ bad
                                   THEN HavingTerms(final, map) ELSE snap.have,
                          gen |-> IF list = <<>> THEN snap.gen ELSE info[Head(list)].gen]
              /\ snapErr' = bad
              /\ UNCHANGED <<cacheVars, podVars, envVars>>

\* The cycle picked a node of its snapshot for a pod it took from its queue;
\* the pod may have been deleted or assigned by others since.  AssumePod
\* fails, changing nothing, for a pod that is in the cache.
AssumePod(b, p, n) ==
    /\ generation < MaxGen
    /\ binder[b] = NoNode
    /\ n \in Range(snap.list)
    /\ podNode[p] = NoNode
    /\ Touch(<<n>>, addPod(info, p, n))
    /\ podNode' = [podNode EXCEPT ![p] = n]
    /\ assumedPods' = assumedPods \cup {p}
    /\ bindingFinished' = [bindingFinished EXCEPT ![p] = FALSE]
    /\ deadline' = [deadline EXCEPT ![p] = "nil"]
    /\ binder' = [binder EXCEPT ![b] = [pod |-> p, node |-> n, stage |-> "binding"]]
    /\ UNCHANGED <<nodeTree, imageStates, fatal, snapVars, api, seen, lister>>

At(b, stages) == binder[b] # NoNode /\ binder[b].stage \in stages

\* The API server answers the binding: it takes it, refuses it, or takes it and
\* the answer is lost, which is an error to the goroutine.
Bind(b) ==
    /\ At(b, {"binding"})
    /\ \/ /\ api[binder[b].pod] = Pending
          /\ api' = [api EXCEPT ![binder[b].pod] = binder[b].node]
          /\ \E answer \in {"bound", "refused"} :
                binder' = [binder EXCEPT ![b].stage = answer]
       \/ binder' = [binder EXCEPT ![b].stage = "refused"] /\ UNCHANGED api
    /\ UNCHANGED <<cacheVars, podVars, snapVars, seen, lister>>

\* What follows bind's deferred finishBinding: the end, or the failure path.
AfterFinish(b) ==
    /\ At(b, {"bound", "refused"})
    /\ binder' = [binder EXCEPT ![b] =
                     IF @.stage = "bound" THEN NoNode ELSE [@ EXCEPT !.stage = "failed"]]

Expirable(b, p) == p = binder[b].pod /\ p \in assumedPods

\* Mutant of FinishBinding: the deadline is not set.
FinishBindingNoDeadline(b) ==
    /\ AfterFinish(b)
    /\ bindingFinished' = [p \in Pod |-> bindingFinished[p] \/ Expirable(b, p)]
    /\ UNCHANGED <<cacheVars, podNode, assumedPods, deadline, fatal, snapVars,
                   api, seen, lister>>

\* Mutant of FinishBinding: the pod is never marked as expirable.
FinishBindingUnmarked(b) ==
    /\ AfterFinish(b)
    /\ deadline' = [p \in Pod |-> IF Expirable(b, p) THEN "ahead" ELSE deadline[p]]
    /\ UNCHANGED <<cacheVars, podNode, assumedPods, bindingFinished, fatal, snapVars,
                   api, seen, lister>>

\* FinishBinding, called whether the binding succeeded or not, starts the clock
\* of a pod that is still assumed.
FinishBinding(b) ==
    /\ AfterFinish(b)
    /\ bindingFinished' = [p \in Pod |-> bindingFinished[p] \/ Expirable(b, p)]
    /\ deadline' = [p \in Pod |-> IF Expirable(b, p) THEN "ahead" ELSE deadline[p]]
    /\ UNCHANGED <<cacheVars, podNode, assumedPods, fatal, snapVars, api, seen, lister>>

\* The pod's entry leaves podStates (and assumedPods).
DropStates(P) ==
    /\ podNode' = [p \in Pod |-> IF p \in P THEN NoNode ELSE podNode[p]]
    /\ assumedPods' = assumedPods \ P
    /\ bindingFinished' = [p \in Pod |-> p \notin P /\ bindingFinished[p]]
    /\ deadline' = [p \in Pod |-> IF p \in P THEN "nil" ELSE deadline[p]]

\* Mutant of ForgetPod: forgets the pod even when it was confirmed meanwhile.
ForgetAnyPod(p, n) ==
    \/ /\ podNode[p] = n
       /\ Touch(<<n>>, removePod(info, p, n))
       /\ DropStates({p})
    \/ /\ podNode[p] # n
       /\ UNCHANGED <<cacheVars, podNode, assumedPods, bindingFinished, deadline>>

\* ForgetPod touches only a pod that is still assumed, on the same node.
ForgetPod(p, n) ==
    \/ /\ p \in assumedPods
       /\ podNode[p] = n
       /\ CanRemove(p)
       /\ Touch(<<n>>, removePod(info, p, n))
       /\ DropStates({p})
    \/ /\ p \notin assumedPods \/ podNode[p] # n \/ ~CanRemove(p)
       /\ UNCHANGED <<cacheVars, podNode, assumedPods, bindingFinished, deadline>>

\* The binding failed, or a reserve, permit or prebind plugin did before it.
BindFails(b) ==
    /\ At(b, {"binding", "failed"})
    /\ ForgetPod(binder[b].pod, binder[b].node)
    /\ binder' = [binder EXCEPT ![b] = NoNode]
    /\ UNCHANGED <<nodeTree, imageStates, fatal, snapVars, api, seen, lister>>

DeadlinePasses(p) ==
    /\ deadline[p] = "ahead"
    /\ deadline' = [deadline EXCEPT ![p] = "passed"]
    /\ UNCHANGED <<cacheVars, podNode, assumedPods, bindingFinished, fatal, snapVars, envVars>>

\* Every assumed pod past its deadline expires, in the set's iteration order:
\* only the order in which their nodes are touched last can be told.
cleanupAssumedPods ==
    LET expired == {p \in assumedPods : /\ bindingFinished[p]
                                        /\ deadline[p] = "passed"
                                        /\ CanRemove(p)}
    IN  /\ expired # {}
        /\ \E order \in SetToSeqs({podNode[p] : p \in expired}) :
              Touch(order, [n \in Node |-> [info[n] EXCEPT !.pods =
                  [p \in Pod |-> IF p \in expired /\ podNode[p] = n /\ @[p] > 0
                                 THEN @[p] - 1 ELSE @[p]]]])
        /\ DropStates(expired)
        /\ UNCHANGED <<nodeTree, imageStates, fatal, snapVars, envVars>>
-----------------------------------------------------------------------------
(***************************************************************************)
(* The API server's pods change, and the pod informer reports what it      *)
(* finds: states in between may be lost in a relist.                       *)
(***************************************************************************)
BindElsewhere(p, n) ==
    /\ api[p] = Pending
    /\ api' = [api EXCEPT ![p] = n]
    /\ UNCHANGED <<cacheVars, podVars, snapVars, seen, lister, binder>>

DeletePod(p) ==
    /\ api[p] # Gone
    /\ api' = [api EXCEPT ![p] = Gone]
    /\ UNCHANGED <<cacheVars, podVars, snapVars, seen, lister, binder>>

\* addPodToCache: the pod is seen on a node for the first time.
AddPod(p) ==
    /\ seen[p] = Pending
    /\ api[p] \in Node
    /\ seen' = [seen EXCEPT ![p] = api[p]]
    /\ \/ /\ p \in assumedPods
          /\ \/ podNode[p] = api[p] /\ UNCHANGED <<list, info, generation>>
             \/ /\ podNode[p] # api[p]
                /\ Touch(<<api[p], podNode[p]>>,
                         addPod(IF CanRemove(p) THEN removePod(info, p, podNode[p]) ELSE info,
                                p, api[p]))
          /\ assumedPods' = assumedPods \ {p}
          /\ deadline' = [deadline EXCEPT ![p] = "nil"]
          /\ podNode' = [podNode EXCEPT ![p] = api[p]]
       \/ /\ podNode[p] = NoNode
          /\ Touch(<<api[p]>>, addPod(info, p, api[p]))
          /\ podNode' = [podNode EXCEPT ![p] = api[p]]
          /\ UNCHANGED <<assumedPods, deadline>>
       \/ /\ podNode[p] # NoNode /\ p \notin assumedPods
          /\ UNCHANGED <<list, info, generation, podNode, assumedPods, deadline>>
    /\ UNCHANGED <<nodeTree, imageStates, bindingFinished, fatal, snapVars,
                   api, lister, binder>>

\* updatePodInCache: the pod is taken out of its NodeInfo and put back.
UpdatePod(p) ==
    /\ generation < MaxGen
    /\ seen[p] \in Node /\ api[p] = seen[p]
    /\ podNode[p] # NoNode /\ p \notin assumedPods
    /\ \/ /\ podNode[p] # seen[p]
          /\ fatal' = TRUE
          /\ UNCHANGED <<list, info, generation>>
       \/ /\ podNode[p] = seen[p] /\ CanRemove(p)
          /\ Touch(<<seen[p]>>, addPod(removePod(info, p, seen[p]), p, seen[p]))
          /\ UNCHANGED fatal
    /\ UNCHANGED <<nodeTree, imageStates, podNode, assumedPods, bindingFinished, deadline,
                   snapVars, envVars>>

\* deletePodFromCache, with the object the informer last saw.  A pod last seen
\* unassigned leaves the scheduling queue, not the cache.
RemovePod(p) ==
    /\ seen[p] # Gone /\ api[p] = Gone
    /\ seen' = [seen EXCEPT ![p] = Gone]
    /\ \/ /\ seen[p] \in Node /\ podNode[p] # NoNode /\ p \notin assumedPods
          /\ \/ /\ podNode[p] # seen[p]
                /\ fatal' = TRUE
                /\ UNCHANGED <<list, info, generation, podNode, assumedPods,
                               bindingFinished, deadline>>
             \/ /\ podNode[p] = seen[p] /\ CanRemove(p)
                /\ Touch(<<seen[p]>>, removePod(info, p, seen[p]))
                /\ DropStates({p})
                /\ UNCHANGED fatal
       \/ /\ seen[p] \notin Node \/ podNode[p] = NoNode \/ p \in assumedPods
          /\ UNCHANGED <<list, info, generation, podVars>>
    /\ UNCHANGED <<nodeTree, imageStates, snapVars, api, lister, binder>>

Next ==
    \/ \E n \in Node, o \in NodeObj : AddNode(n, o) \/ UpdateNode(n, o)
    \/ \E n \in Node : RemoveNode(n)
    \/ UpdateSnapshot
    \/ \E b \in Binder, p \in Pod, n \in Node : AssumePod(b, p, n)
    \/ \E b \in Binder : Bind(b) \/ FinishBinding(b) \/ BindFails(b)
    \/ \E p \in Pod, n \in Node : BindElsewhere(p, n)
    \/ \E p \in Pod : \/ DeadlinePasses(p)
                      \/ DeletePod(p) \/ AddPod(p) \/ UpdatePod(p) \/ RemovePod(p)
    \/ cleanupAssumedPods

Spec == Init /\ [][Next]_vars

(***************************************************************************)
(* Binding calls end, finished bindings are reported, time passes and the  *)
(* cleanup goroutine runs every cleanAssumedPeriod.  Nothing is assumed of *)
(* the API server, the informers or the scheduling loop.                   *)
(***************************************************************************)
FairSpec ==
    /\ Spec
    /\ \A b \in Binder : WF_vars(Bind(b) \/ BindFails(b)) /\ WF_vars(FinishBinding(b))
    /\ \A p \in Pod : WF_vars(DeadlinePasses(p))
    /\ WF_vars(cleanupAssumedPods)
-----------------------------------------------------------------------------
(***************************************************************************)
(* Properties                                                              *)
(***************************************************************************)
\* A pod's resources are counted once, on the node podStates has it on, however
\* assumption, confirmation, expiry, forgetting and removal interleave.
CountedOnce ==
    \A n \in Node, p \in Pod : info[n].pods[p] = IF podNode[p] = n THEN 1 ELSE 0

\* What UpdateSnapshot's early break relies on: from the head of the list on,
\* generations fall strictly, the list has every NodeInfo in use, and whatever
\* is not newer than the snapshot is in it as it is in the cache, even after
\* generations the snapshot had seen have left the cache.
RecencyOrder ==
    /\ \A i, j \in DOMAIN list : i < j => info[list[i]].gen > info[list[j]].gen
    /\ \A n \in Node : InCache(n) <=> Alive(info[n])
    /\ \A n \in Node : (info[n].node # NoNode /\ info[n].gen <= snap.gen)
                          => snap.map[n] = info[n]

\* nodeTree has each node the informer has, once, in its present zone, and no
\* ghost; numNodes counts them; an image is credited to exactly the nodes that
\* report it now.
IndexesHoldLiveNodes ==
    /\ \A z \in Zone, n \in Node :
          Cardinality({i \in DOMAIN nodeTree.tree[z] : nodeTree.tree[z][i] = n})
             = IF lister[n] # NoNode /\ lister[n].zone = z THEN 1 ELSE 0
    /\ \A z \in Zone : nodeTree.tree[z] # <<>> <=>
          Cardinality({i \in DOMAIN nodeTree.zones : nodeTree.zones[i] = z}) = 1
    /\ nodeTree.numNodes = Cardinality({n \in Node : info[n].node # NoNode})
    /\ \A i \in Image : imageStates[i] = {n \in Node : i \in ImagesOf(lister[n])}

\* The cache and the informer agree: a pod reported on a node is counted there
\* and no longer assumed, and a pod counted without a report is an assumption.
CacheAgreesWithInformer ==
    \A p \in Pod : /\ seen[p] \in Node => podNode[p] = seen[p] /\ p \notin assumedPods
                   /\ seen[p] \notin Node /\ podNode[p] # NoNode => p \in assumedPods

\* None of the cache's own alarms goes off: no klog.Fatalf on a pod that moved
\* (cache.go:524,552), no inconsistent snapshot (268), no nil deadline (741).
NoAlarm ==
    /\ ~fatal
    /\ ~snapErr
    /\ \A p \in assumedPods : podNode[p] # NoNode
                               /\ (bindingFinished[p] => deadline[p] # "nil")

\* After every refresh the snapshot's lists hold each live node once, and the
\* lists for affinity and anti-affinity exactly the nodes with such pods.
RefreshedLists ==
    /\ Cardinality(Range(snap.list)) = Len(snap.list)
    /\ Range(snap.list) = {n \in Node : info[n].node # NoNode}
    /\ \A k \in TermKind :
          snap.have[k] = Keep(snap.list, {n \in Node : \E p \in Declares[k] : podNode[p] = n})

RefreshIsComplete == [][UpdateSnapshot => RefreshedLists']_vars

\* cache.go and interface.go's pod state machine, node set and snapshot, with
\* the incremental machinery hidden: a refresh sees every live node's pods.
Abs == INSTANCE SchedulerCacheAbs WITH
          where <- podNode, assumed <- assumedPods,
          objects <- [n \in Node |-> info[n].node],
          view <- [n \in Node |->
                     IF snap.map[n] = NoNode THEN NoNode
                     ELSE [object |-> snap.map[n].node,
                           pods |-> {p \in Pod : snap.map[n].pods[p] > 0}]]

AbsSpec == Abs!AbsSpec

\* No pod stays assumed for ever: it is confirmed, forgotten or expired.
AssumedIsTemporary == \A p \in Pod : p \in assumedPods ~> p \notin assumedPods
=============================================================================
