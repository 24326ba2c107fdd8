-------------------------- MODULE ReplicaSetProofs --------------------------
(***************************************************************************)
(* The ReplicaSet controller creates a pod only when one is missing and    *)
(* deletes one only when there is one too many, for any number of pods and *)
(* replicas, any burst, and any changes and faults.                        *)
(*                                                                         *)
(* The worker decides by a lister that lags, so the argument follows each  *)
(* pod from the API server through the watch to the store and the          *)
(* handlers.  The watch keeps the order of a pod's versions (WatchInv).    *)
(* Every creation and deletion of the controller that the store does not   *)
(* show is counted by the expectations until a handler hears of it         *)
(* (CreationInv, DeletionInv), so that a list made after they are          *)
(* fulfilled differs from the API server only by what others did           *)
(* (SyncInv).                                                              *)
(***************************************************************************)
EXTENDS ReplicaSet, SequenceLemmas

-----------------------------------------------------------------------------
(***************************************************************************)
(* Types                                                                   *)
(***************************************************************************)
PodObject ==
    {NoPod} \cup [exists : {TRUE}, owned : BOOLEAN, match : BOOLEAN, up : BOOLEAN,
                  deleting : BOOLEAN]

RSObject == {NoRS} \cup [exists : {TRUE}, replicas : 0..MaxReplicas, deleting : BOOLEAN]

Expectation == {NoExp} \cup [exists : {TRUE}, add : Int, del : Int, expired : BOOLEAN]

Event == [name : Pod, pod : PodObject]

Note == [name : Pod, old : PodObject, new : PodObject]

Sync ==
    [stage : {"idle", "check", "list", "claim", "create", "delete", "status"},
     rs : RSObject, needs : BOOLEAN, pods : SUBSET Pod, adopt : SUBSET Pod,
     release : SUBSET Pod, can : {"unknown", "yes", "no"}, err : BOOLEAN,
     remaining : Nat, batch : Nat, calls : Nat, errs : Nat, victims : SUBSET Pod]

WatchTypes ==
    /\ pods \in [Pod -> PodObject] /\ store \in [Pod -> PodObject]
    /\ log \in Seq(Event) /\ notes \in Seq(Note)

RSTypes ==
    /\ rs \in RSObject /\ rsStore \in RSObject /\ rsNote \in BOOLEAN
    /\ rs.exists => rsStore.exists

TypeOK ==
    /\ WatchTypes /\ RSTypes
    /\ exp \in Expectation /\ uids \in SUBSET Pod
    /\ queued \in BOOLEAN /\ sync \in Sync
    /\ changes \in Nat /\ faults \in Nat
    /\ touched \in SUBSET Pod /\ misled \in BOOLEAN

\* What the worker holds at each stage.
StageInv ==
    /\ sync.stage \notin {"idle", "status"} => sync.rs.exists
    /\ sync.stage \notin {"claim", "delete"} => sync.pods = {}
    /\ sync.stage # "claim" => sync.adopt = {} /\ sync.release = {}
    /\ sync.stage # "delete" => sync.victims = {}
    /\ sync.victims \subseteq sync.pods
    /\ sync.release \cap (sync.pods \cup sync.adopt) = {}
    /\ sync.stage = "create" => sync.batch >= 1 /\ sync.remaining >= sync.batch

-----------------------------------------------------------------------------
(***************************************************************************)
(* The versions of a pod, from the API server to the handlers              *)
(***************************************************************************)
Named(s, p) == \E i \in DOMAIN s : s[i].name = p

Doomed(pod) == ~pod.exists \/ pod.deleting

Ready(pod) == IsPodActive(pod) /\ pod.match

\* What the controller and the kubelet may do to a pod: adopt it, release it when
\* it does not match, delete it.
Leads(v, w) == Ready(w) => Ready(v) /\ (v.owned => w.owned)

Before(others, p, v, w) ==
    /\ v.exists
    /\ v.deleting => Doomed(w)
    /\ p \notin others => Leads(v, w)

\* The API server has what comes last out of the watch.
IsLast(p, i) ==
    /\ log[i].name = p /\ log[i].pod = pods[p]
    /\ \A j \in DOMAIN log : j > i => log[j].name # p

LastIsCurrent ==
    \A p \in Pod : IF Named(log, p) THEN \E i \in DOMAIN log : IsLast(p, i)
                                    ELSE store[p] = pods[p]

InOrder ==
    /\ \A i, j \in DOMAIN log : i < j /\ log[i].name = log[j].name =>
           Before(touched, log[i].name, log[i].pod, log[j].pod)
    /\ \A i \in DOMAIN log : store[log[i].name].exists =>
           Before(touched, log[i].name, store[log[i].name], log[i].pod)

\* A pod is created before it is deleted.
BornFirst ==
    /\ \A i \in DOMAIN log : ~store[log[i].name].exists /\ ~log[i].pod.exists =>
           \E j \in DOMAIN log : j < i /\ log[j].name = log[i].name
    /\ \A i \in DOMAIN notes : notes[i].old.exists \/ notes[i].new.exists

\* Nobody has had to do with a pod that the store does not have yet, but for those
\* who created or touched it.
NewIsReady ==
    \A i \in DOMAIN log :
        ~store[log[i].name].exists /\ log[i].name \notin touched => Ready(log[i].pod)

\* A name that the handlers have still to hear of is not used again.
NotesInOrder ==
    /\ \A p \in Pod : ~store[p].exists /\ Named(notes, p) => ~Named(log, p)
    /\ \A i, j \in DOMAIN notes : i < j /\ notes[i].name = notes[j].name => notes[j].old.exists
    /\ \A i \in DOMAIN notes : Doomed(notes[i].new) => Doomed(store[notes[i].name])

\* Nor is a name that the worker has in hand.
Held == sync.pods \cup sync.adopt \cup sync.release

HeldInv ==
    /\ \A p \in Held : ~store[p].exists => ~Named(log, p)
    /\ \A p \in sync.release \ touched : ~Ready(store[p])

WatchInv == LastIsCurrent /\ InOrder /\ BornFirst /\ NewIsReady /\ NotesInOrder /\ HeldInv

-----------------------------------------------------------------------------
(***************************************************************************)
(* What the expectations count                                             *)
(***************************************************************************)
\* The expectations are not defeated by a lost answer, a slow informer or the end
\* of the ReplicaSet.
Reliable == ~misled /\ rsStore.exists

Counted == exp.exists /\ ~exp.expired

\* Pods of the ReplicaSet whose creation no handler has heard of.
Unheard ==
    {p \in Pod :
        \/ /\ ~store[p].exists
           /\ \E i \in DOMAIN log : log[i].name = p /\ log[i].pod.exists /\ log[i].pod.owned
        \/ \E i \in DOMAIN notes : /\ notes[i].name = p
                                   /\ ~notes[i].old.exists
                                   /\ notes[i].new.exists /\ notes[i].new.owned}

\* Creations that are still expected and have not happened.
ToCome == IF At("create") THEN sync.calls + sync.errs + sync.remaining - sync.batch ELSE 0

Deciding == sync.stage \in {"list", "claim"} /\ sync.needs

CreationInv ==
    /\ IF Counted THEN Cardinality(Unheard) + ToCome <= exp.add
                  ELSE Unheard = {} /\ ~At("create")
    /\ Deciding => Unheard = {}

\* Pods whose deletion the store does not show, and those that are about to be
\* deleted.
Fading == {p \in Pod \ touched : Ready(store[p]) /\ ~Ready(pods[p])}

Unseen == Fading \cup (sync.victims \ touched)

DeletionInv ==
    /\ Unseen # {} => Counted /\ Unseen \subseteq uids /\ Cardinality(uids) <= exp.del
    /\ Deciding => Unseen = {}

\* What a list that was made then tells of the API server now.
Listed ==
    /\ Replicas \ touched \subseteq sync.pods \cup sync.adopt
    /\ sync.pods \subseteq Replicas \cup touched
    /\ \A p \in sync.adopt \ touched : Ready(pods[p])

SyncInv ==
    /\ At("claim") /\ sync.needs /\ ~sync.rs.deleting /\ ~sync.err => Listed
    /\ At("create") =>
           Cardinality(Replicas \ touched) + sync.calls + sync.remaining - sync.batch
              <= sync.rs.replicas
    /\ At("delete") =>
           /\ sync.victims \subseteq Replicas \cup touched
           /\ Cardinality((sync.pods \ sync.victims) \cap (Replicas \cup touched)) >= sync.rs.replicas

IInv ==
    /\ TypeOK /\ StageInv /\ WatchInv
    /\ Reliable => CreationInv /\ DeletionInv /\ SyncInv
-----------------------------------------------------------------------------
(***************************************************************************)
(* Types are kept                                                          *)
(***************************************************************************)
LEMMA PodFacts ==
    ASSUME NEW pod \in PodObject
    PROVE  /\ pod.exists \in BOOLEAN
           /\ pod.exists => /\ pod \in [exists : {TRUE}, owned : BOOLEAN, match : BOOLEAN,
                                        up : BOOLEAN, deleting : BOOLEAN]
                            /\ pod.owned \in BOOLEAN /\ pod.match \in BOOLEAN
                            /\ pod.up \in BOOLEAN /\ pod.deleting \in BOOLEAN
<1>1. CASE pod = NoPod
  BY <1>1 DEF NoPod
<1>2. CASE pod \in [exists : {TRUE}, owned : BOOLEAN, match : BOOLEAN, up : BOOLEAN,
                    deleting : BOOLEAN]
  BY <1>2
<1> QED
  BY <1>1, <1>2 DEF PodObject

\* The objects that somebody may write.
LEMMA PodTypes ==
    /\ NoPod \in PodObject /\ ~NoPod.exists
    /\ NewPod \in PodObject
    /\ \A pod \in PodObject : pod.exists =>
          /\ [pod EXCEPT !.up = FALSE] \in PodObject
          /\ [pod EXCEPT !.match = ~@] \in PodObject
          /\ [pod EXCEPT !.deleting = TRUE] \in PodObject
          /\ \A owned \in BOOLEAN : [pod EXCEPT !.owned = owned] \in PodObject
    /\ [NewPod EXCEPT !.owned = FALSE] \in PodObject
<1>1. ASSUME NEW pod \in PodObject, pod.exists
      PROVE  /\ [pod EXCEPT !.up = FALSE] \in PodObject
             /\ [pod EXCEPT !.match = ~@] \in PodObject
             /\ [pod EXCEPT !.deleting = TRUE] \in PodObject
             /\ \A owned \in BOOLEAN : [pod EXCEPT !.owned = owned] \in PodObject
  BY <1>1, PodFacts DEF PodObject
<1>2. NewPod \in PodObject /\ [NewPod EXCEPT !.owned = FALSE] \in PodObject
  BY DEF PodObject, NewPod
<1>3. NoPod \in PodObject /\ ~NoPod.exists
  BY DEF PodObject, NoPod
<1> QED
  BY <1>1, <1>2, <1>3

LEMMA StorePodTypes ==
    ASSUME WatchTypes, NEW p \in Pod, NEW pod \in PodObject, StorePod(p, pod)
    PROVE  WatchTypes'
<1>1. [name |-> p, pod |-> pod] \in Event
  BY DEF Event
<1>2. log' \in Seq(Event)
  BY <1>1, AppendProperties DEF StorePod, WatchTypes
<1>3. pods' \in [Pod -> PodObject]
  BY DEF StorePod, WatchTypes
<1> QED
  BY <1>2, <1>3 DEF StorePod, WatchTypes

LEMMA MinOfTwo ==
    ASSUME NEW a \in Int, NEW b \in Int
    PROVE  /\ Min({a, b}) \in {a, b}
           /\ Min({a, b}) <= a /\ Min({a, b}) <= b
<1>1. \E x \in {a, b} : \A y \in {a, b} : x <= y
  <2>1. CASE a <= b
    BY <2>1
  <2>2. CASE b <= a
    BY <2>2
  <2> QED
    BY <2>1, <2>2
<1>2. Min({a, b}) \in {a, b} /\ \A y \in {a, b} : Min({a, b}) <= y
  BY <1>1 DEF Min
<1> QED
  BY <1>2

LEMMA FinitePods ==
    ASSUME NEW S \in SUBSET Pod
    PROVE  IsFiniteSet(S) /\ Cardinality(S) \in Nat
  BY ReplicasAssumption, FS_Subset, FS_CardinalityType

LEMMA IdleType ==
    /\ Idle \in Sync /\ Idle.stage = "idle" /\ Idle.pods = {} /\ Idle.adopt = {}
    /\ Idle.release = {} /\ Idle.victims = {}
  BY DEF Idle, Sync, RSObject, NoRS

LEMMA InitTypes ==
    ASSUME Init
    PROVE  TypeOK /\ StageInv
<1>1. pods \in [Pod -> PodObject] /\ changes \in Nat /\ faults \in Nat
  <2>1. PICK there \in {{}, Existing} :
           /\ pods = [p \in Pod |-> IF p \in there THEN NewPod ELSE NoPod]
           /\ changes = IF there = {} THEN 0 ELSE MaxChanges
           /\ faults = IF there = {} THEN 0 ELSE MaxFaults
    BY DEF Init
  <2> QED
    BY <2>1, PodTypes, ReplicasAssumption
<1>2. log \in Seq(Event) /\ notes \in Seq(Note)
  BY DEF Init
<1>3. RSTypes
  <2>1. PICK n \in 0..MaxReplicas : rs = [exists |-> TRUE, replicas |-> n, deleting |-> FALSE]
    BY DEF Init
  <2>2. rs \in RSObject
    BY <2>1 DEF RSObject
  <2> QED
    BY <2>2 DEF Init, RSTypes
<1>4. exp \in Expectation
  BY DEF Init, Expectation
<1>5. TypeOK
  BY <1>1, <1>2, <1>3, <1>4, IdleType DEF Init, TypeOK, WatchTypes
<1> QED
  BY <1>5, IdleType DEF Init, StageInv

\* What the server, the watches and the handlers do to the types.
LEMMA PatchPodTypes ==
    ASSUME WatchTypes, NEW p \in Pod, NEW owned \in BOOLEAN, PatchPod(p, owned)
    PROVE  WatchTypes'
<1>1. CASE pods[p].exists /\ StorePod(p, [pods[p] EXCEPT !.owned = owned])
  <2>1. pods[p] \in PodObject
    BY DEF WatchTypes
  <2>2. [pods[p] EXCEPT !.owned = owned] \in PodObject
    BY <1>1, <2>1, PodTypes
  <2> QED
    BY <1>1, <2>2, StorePodTypes
<1>2. CASE UNCHANGED <<pods, watch>>
  BY <1>2 DEF WatchTypes, watch
<1> QED
  BY <1>1, <1>2 DEF PatchPod

LEMMA ExpectationTypes ==
    ASSUME exp \in Expectation, uids \in SUBSET Pod
    PROVE  /\ exp.exists \in BOOLEAN
           /\ exp.exists => exp.add \in Int /\ exp.del \in Int /\ exp.expired \in BOOLEAN
           /\ \A a \in Int, b \in Int : LowerExpectations(exp, a, b) \in Expectation
           /\ \A n \in Int : CreationObserved(n) => exp' \in Expectation /\ uids' \in SUBSET Pod
           /\ \A p \in Pod : DeletionObserved(p) => exp' \in Expectation /\ uids' \in SUBSET Pod
           /\ DeleteExpectations => exp' \in Expectation /\ uids' \in SUBSET Pod
<1>1. /\ exp.exists \in BOOLEAN
      /\ exp.exists => exp \in [exists : {TRUE}, add : Int, del : Int, expired : BOOLEAN]
  <2>1. CASE exp = NoExp
    BY <2>1 DEF NoExp
  <2>2. CASE exp \in [exists : {TRUE}, add : Int, del : Int, expired : BOOLEAN]
    BY <2>2
  <2> QED
    BY <2>1, <2>2 DEF Expectation
<1>2. ASSUME NEW a \in Int, NEW b \in Int
      PROVE  LowerExpectations(exp, a, b) \in Expectation
  <2>1. CASE ~exp.exists
    BY <2>1 DEF LowerExpectations
  <2>2. CASE exp.exists
    <3>1. LowerExpectations(exp, a, b) = [exp EXCEPT !.add = exp.add - a, !.del = exp.del - b]
      BY <2>2 DEF LowerExpectations
    <3>2. exp.add - a \in Int /\ exp.del - b \in Int
      BY <1>1, <2>2
    <3>3. LowerExpectations(exp, a, b) \in [exists : {TRUE}, add : Int, del : Int, expired : BOOLEAN]
      BY <1>1, <2>2, <3>1, <3>2
    <3> QED
      BY <3>3 DEF Expectation
  <2> QED
    BY <1>1, <2>1, <2>2
<1>3. ASSUME NEW n \in Int, CreationObserved(n)
      PROVE  exp' \in Expectation /\ uids' \in SUBSET Pod
  BY <1>2, <1>3 DEF CreationObserved
<1>4. ASSUME NEW p \in Pod, DeletionObserved(p)
      PROVE  exp' \in Expectation /\ uids' \in SUBSET Pod
  BY <1>2, <1>4 DEF DeletionObserved
<1>5. DeleteExpectations => exp' \in Expectation /\ uids' \in SUBSET Pod
  BY DEF DeleteExpectations, Expectation
<1> QED
  BY <1>1, <1>2, <1>3, <1>4, <1>5

Budget == Change \/ Fault \/ Misled \/ NoFault

LEMMA BudgetTypes ==
    ASSUME TypeOK, Budget
    PROVE  /\ changes' \in Nat /\ faults' \in Nat /\ misled' \in BOOLEAN
           /\ misled => misled'
<1>1. changes \in Nat /\ faults \in Nat /\ misled \in BOOLEAN
  BY DEF TypeOK
<1>2. changes' \in Nat /\ faults' \in Nat
  BY <1>1 DEF Budget, Change, Fault, Faulty, Misled, NoFault
<1>3. misled' = misled \/ misled' = TRUE
  BY DEF Budget, Change, Fault, Faulty, Misled, NoFault
<1> QED
  BY <1>1, <1>2, <1>3

LEMMA RSFacts ==
    ASSUME NEW r \in RSObject
    PROVE  /\ r.exists \in BOOLEAN
           /\ r.exists => /\ r \in [exists : {TRUE}, replicas : 0..MaxReplicas, deleting : BOOLEAN]
                          /\ r.replicas \in Nat /\ r.deleting \in BOOLEAN
<1>0. 0..MaxReplicas \subseteq Nat
  BY ReplicasAssumption
<1>1. CASE r = NoRS
  BY <1>1 DEF NoRS
<1>2. CASE r \in [exists : {TRUE}, replicas : 0..MaxReplicas, deleting : BOOLEAN]
  BY <1>0, <1>2
<1> QED
  BY <1>1, <1>2 DEF RSObject

\* The worker between two calls.
LEMMA LocalTypes ==
    ASSUME TypeOK, StageInv, Start \/ Check \/ ListPods \/ ClaimFails \/ NoManage \/ UpdateStatus
    PROVE  TypeOK' /\ StageInv'
<1> USE DEF At
<1>1. sync \in Sync /\ exp \in Expectation /\ uids \in SUBSET Pod /\ queued \in BOOLEAN
      /\ rsStore \in RSObject
  BY DEF TypeOK, RSTypes
<1>2. WatchTypes' /\ RSTypes'
  BY DEF TypeOK, WatchTypes, RSTypes, Start, Check, ListPods, ClaimFails, NoManage, UpdateStatus,
         Local, watch, rsVars
<1>3. changes' \in Nat /\ faults' \in Nat /\ misled' \in BOOLEAN
  <2>1. Budget
    BY DEF Start, Check, ListPods, ClaimFails, NoManage, UpdateStatus, Local, Budget, NoFault
  <2> QED
    BY <2>1, BudgetTypes
<1>4. touched' \in SUBSET Pod
  BY DEF TypeOK, Start, Check, ListPods, ClaimFails, NoManage, UpdateStatus, Local
<1>5. exp' \in Expectation /\ uids' \in SUBSET Pod
  BY <1>1, ExpectationTypes DEF Start, Check, ListPods, ClaimFails, NoManage, UpdateStatus
<1>6. ASSUME sync' \in Sync, queued' \in BOOLEAN
      PROVE  TypeOK'
  BY <1>2, <1>3, <1>4, <1>5, <1>6 DEF TypeOK
<1>7. ASSUME NEW err, Return(err)
      PROVE  sync' \in Sync /\ StageInv'
  BY <1>7, IdleType DEF Return, StageInv
<1>8. ASSUME NEW err \in BOOLEAN, ToStatus(err)
      PROVE  sync' \in Sync /\ StageInv'
  <2>1. sync' \in Sync /\ sync'.stage = "status"
    BY <1>8, IdleType DEF ToStatus, Sync
  <2> QED
    BY <1>8, <2>1, IdleType DEF ToStatus, StageInv, Idle
<1>9. CASE Start
  <2>1. CASE rsStore.exists /\ sync' = [Idle EXCEPT !.stage = "check", !.rs = rsStore]
    <3>1. sync' \in Sync
      BY <1>1, <2>1, IdleType DEF Sync
    <3>2. StageInv'
      BY <2>1, IdleType DEF StageInv, Idle
    <3> QED
      BY <1>6, <1>9, <3>1, <3>2 DEF Start
  <2>2. CASE UNCHANGED sync
    BY <1>1, <1>6, <1>9, <2>2 DEF Start, StageInv
  <2> QED
    BY <1>9, <2>1, <2>2 DEF Start
<1>10. CASE Check
  <2>1. SatisfiedExpectations \in BOOLEAN
    BY DEF SatisfiedExpectations, Fulfilled
  <2>2. sync' \in Sync
    BY <1>1, <1>10, <2>1 DEF Check, Sync
  <2>3. StageInv'
    BY <1>1, <1>10 DEF Check, Sync, StageInv
  <2> QED
    BY <1>1, <1>6, <1>10, <2>2, <2>3 DEF Check
<1>11. CASE ListPods
  <2> DEFINE those(what) == {p \in {p \in Pod : IsPodActive(store[p])} : ClaimObject(store[p]) = what}
             a == those("claimed")
             b == those("adopt")
             c == those("release")
  <2>1. a \in SUBSET Pod /\ b \in SUBSET Pod /\ c \in SUBSET Pod /\ c \cap (a \cup b) = {}
    OBVIOUS
  <2>2. sync' = [sync EXCEPT !.stage = "claim", !.pods = a, !.adopt = b, !.release = c]
    BY <1>11 DEF ListPods
  <2> HIDE DEF a, b, c
  <2>3. sync' \in Sync
    BY <1>1, <2>1, <2>2 DEF Sync
  <2>4. StageInv'
    BY <1>1, <1>11, <2>1, <2>2 DEF ListPods, Sync, StageInv
  <2> QED
    BY <1>1, <1>6, <1>11, <2>3, <2>4 DEF ListPods
<1>12. CASE ClaimFails
  BY <1>1, <1>6, <1>7, <1>12 DEF ClaimFails, Return
<1>13. CASE NoManage
  BY <1>1, <1>6, <1>8, <1>13 DEF NoManage
<1>14. CASE UpdateStatus
  <2>1. sync.err \in BOOLEAN
    BY <1>1 DEF Sync
  <2> QED
    BY <1>1, <1>6, <1>7, <1>14, <2>1 DEF UpdateStatus, Return
<1> QED
  BY <1>9, <1>10, <1>11, <1>12, <1>13, <1>14

\* What manageReplicas comes to when pods are missing, and when there are too many.
Missing(few) ==
    /\ Cardinality(sync.pods) + few <= sync.rs.replicas
    /\ ExpectCreations(few)
    /\ sync' = [Idle EXCEPT !.stage = "create", !.rs = sync.rs,
                            !.remaining = few, !.batch = 1, !.calls = 1]

Surplus(victims) ==
    /\ victims # {} /\ Cardinality(sync.pods \ victims) >= sync.rs.replicas
    /\ ExpectDeletions(victims)
    /\ sync' = [sync EXCEPT !.stage = "delete", !.victims = victims]

LEMMA Managed ==
    ASSUME TypeOK, StageInv, manageReplicas
    PROVE  \/ \E few \in Nat \ {0} : Missing(few)
           \/ \E victims \in SUBSET sync.pods : Surplus(victims)
           \/ ToStatus(FALSE) /\ UNCHANGED <<exp, uids>>
<1> DEFINE n == Cardinality(sync.pods)
           diff == n - sync.rs.replicas
           few == Min({-diff, BurstReplicas})
           many == Min({diff, BurstReplicas})
<1>1. /\ sync.pods \in SUBSET Pod /\ IsFiniteSet(sync.pods) /\ n \in Nat
      /\ sync.rs \in RSObject /\ sync.rs.exists /\ sync.rs.replicas \in Nat
  <2>1. sync.pods \in SUBSET Pod /\ sync.rs \in RSObject
    BY DEF TypeOK, Sync
  <2>2. sync.rs.exists
    BY DEF manageReplicas, Claimed, At, StageInv
  <2> QED
    BY <2>1, <2>2, FinitePods, RSFacts
<1>2. BurstReplicas \in Nat \ {0} /\ BurstReplicas \in Int
  BY ReplicasAssumption
<1>3. CASE diff < 0 /\ ExpectCreations(few)
           /\ sync' = [Idle EXCEPT !.stage = "create", !.rs = sync.rs,
                                   !.remaining = few, !.batch = 1, !.calls = 1]
  <2>1. -diff \in Int /\ diff \in Int
    BY <1>1
  <2> HIDE DEF diff, n
  <2>2. few \in {-diff, BurstReplicas} /\ few <= -diff
    BY <1>2, <2>1, MinOfTwo, Zenon
  <2> HIDE DEF few
  <2>3. few \in Nat \ {0}
    BY <1>2, <1>3, <2>1, <2>2
  <2>4. n + few <= sync.rs.replicas
    BY <1>1, <2>2, <2>3 DEF diff
  <2>5. Missing(few)
    BY <1>3, <2>4 DEF Missing, n
  <2> QED
    BY <2>3, <2>5
<1>4. ASSUME diff > 0, NEW victims \in kSubset(many, sync.pods), ExpectDeletions(victims),
             sync' = [sync EXCEPT !.stage = "delete", !.victims = victims]
      PROVE  victims \in SUBSET sync.pods /\ Surplus(victims)
  <2>1. diff \in Int
    BY <1>1
  <2> HIDE DEF diff, n
  <2>2. many \in {diff, BurstReplicas} /\ many <= diff
    BY <1>2, <2>1, MinOfTwo, Zenon
  <2> HIDE DEF many
  <2>3. many \in Nat \ {0}
    BY <1>2, <1>4, <2>1, <2>2
  <2>4. victims \in SUBSET sync.pods /\ Cardinality(victims) = many
    BY <1>4 DEF kSubset
  <2>5. Cardinality(sync.pods \ victims) = n - many
    <3>1. Cardinality(sync.pods \ victims) = n - Cardinality(sync.pods \cap victims)
      BY <1>1, FS_Difference, Zenon DEF n
    <3>2. sync.pods \cap victims = victims
      BY <2>4
    <3> QED
      BY <2>4, <3>1, <3>2
  <2>6. n - many >= sync.rs.replicas
    BY <1>1, <2>2, <2>3 DEF diff
  <2>7. victims # {}
    BY <2>3, <2>4, FS_EmptySet
  <2> QED
    BY <1>4, <2>4, <2>5, <2>6, <2>7 DEF Surplus
<1> QED
  BY <1>3, <1>4 DEF manageReplicas

\* slowStartBatch at the end of a batch.
Rest == sync.remaining - sync.batch

NextBatch(remaining, batch) ==
    /\ sync.errs = 0 /\ UNCHANGED <<exp, uids>>
    /\ sync' = [sync EXCEPT !.remaining = remaining, !.batch = batch, !.calls = batch]

LEMMA Batched ==
    ASSUME TypeOK, StageInv, slowStartBatch
    PROVE  /\ Rest \in Nat
           /\ \/ CreationObserved(Rest + sync.errs) /\ ToStatus(TRUE)
              \/ sync.errs = 0 /\ Rest = 0 /\ ToStatus(FALSE) /\ UNCHANGED <<exp, uids>>
              \/ \E batch \in Nat \ {0} : batch <= Rest /\ NextBatch(Rest, batch)
<1> DEFINE batch == Min({2 * sync.batch, Rest})
<1>1. /\ sync.remaining \in Nat /\ sync.batch \in Nat /\ sync.errs \in Nat
      /\ sync.batch >= 1 /\ sync.remaining >= sync.batch
  BY DEF TypeOK, Sync, StageInv, slowStartBatch, At
<1>2. Rest \in Nat /\ Rest \in Int /\ 2 * sync.batch \in Int
  BY <1>1 DEF Rest
<1>3. \/ sync.errs > 0 /\ CreationObserved(Rest + sync.errs) /\ ToStatus(TRUE)
      \/ sync.errs = 0 /\ batch = 0 /\ ToStatus(FALSE) /\ UNCHANGED <<exp, uids>>
      \/ batch > 0 /\ NextBatch(Rest, batch)
  BY DEF slowStartBatch, NextBatch, Rest
<1>4. batch \in {2 * sync.batch, Rest} /\ batch <= Rest
  BY <1>2, MinOfTwo, Zenon
<1> HIDE DEF batch
<1>5. /\ batch \in Nat /\ (batch = 0 => Rest = 0)
      /\ batch > 0 => batch \in Nat \ {0}
  BY <1>1, <1>2, <1>4
<1>6. CASE batch > 0 /\ NextBatch(Rest, batch)
  <2>1. \E b \in Nat \ {0} : b <= Rest /\ NextBatch(Rest, b)
    BY <1>4, <1>5, <1>6, Zenon
  <2> QED
    BY <1>2, <2>1, Zenon
<1> QED
  BY <1>2, <1>3, <1>5, <1>6, Zenon

\* The calls of the API server, each as what it writes and what the worker is told.
Untouched == UNCHANGED <<pods, watch>>

Adopts(p, can, err) ==
    /\ sync' = [sync EXCEPT !.adopt = @ \ {p}, !.can = can, !.err = @ \/ err,
                            !.pods = IF ~err /\ pods[p].exists THEN @ \cup {p} ELSE @]
    /\ PatchPod(p, TRUE) \/ (err /\ Untouched)

LEMMA Adopted ==
    ASSUME NEW p \in Pod, AdoptPod(p), TypeOK
    PROVE  /\ At("claim") /\ p \in sync.adopt
           /\ \E can \in {"yes", "no"}, err \in BOOLEAN : Adopts(p, can, err)
           /\ Budget /\ misled' = misled
           /\ UNCHANGED <<rsVars, exp, uids, queued, touched>>
<1> DEFINE can == IF sync.can # "unknown" THEN sync.can
                  ELSE IF rs.exists /\ ~rs.deleting THEN "yes" ELSE "no"
<1>1. can \in {"yes", "no"}
  BY DEF TypeOK, Sync
<1>2. \/ \E err \in BOOLEAN : Adopts(p, can, err)
      \/ Adopts(p, "no", TRUE)
  BY DEF AdoptPod, Adopts, Untouched
<1>3. Budget /\ misled' = misled
  BY DEF AdoptPod, Budget, Fault, NoFault
<1> HIDE DEF can
<1>4. \E c \in {"yes", "no"}, err \in BOOLEAN : Adopts(p, c, err)
  BY <1>1, <1>2
<1> QED
  BY <1>3, <1>4 DEF AdoptPod

Releases(p, err) ==
    /\ sync' = [sync EXCEPT !.release = @ \ {p}, !.err = @ \/ err]
    /\ PatchPod(p, FALSE) \/ Untouched

LEMMA Released ==
    ASSUME NEW p \in Pod, ReleasePod(p)
    PROVE  /\ At("claim") /\ p \in sync.release
           /\ \E err \in BOOLEAN : Releases(p, err)
           /\ Budget /\ misled' = misled
           /\ UNCHANGED <<rsVars, exp, uids, queued, touched>>
<1>1. \E err \in BOOLEAN : Releases(p, err)
  BY DEF ReleasePod, Releases, Untouched
<1>2. Budget /\ misled' = misled
  BY DEF ReleasePod, Budget, Fault, NoFault
<1> QED
  BY <1>1, <1>2 DEF ReleasePod

Creates(p) == Free(p) /\ StorePod(p, NewPod) /\ touched' = touched \ {p}

Answered(err) ==
    sync' = [sync EXCEPT !.calls = @ - 1, !.errs = IF err THEN @ + 1 ELSE @]

LEMMA CreateCalled ==
    ASSUME CreatePod
    PROVE  /\ At("create") /\ sync.calls > 0 /\ Budget
           /\ \/ \E p \in Pod : Creates(p)
              \/ Untouched /\ UNCHANGED touched
           /\ \/ misled' = TRUE /\ Answered(TRUE)
              \/ misled' = misled /\ Answered(FALSE)
              \/ misled' = misled /\ Answered(TRUE) /\ Untouched /\ UNCHANGED touched
           /\ UNCHANGED <<rsVars, exp, uids, queued>>
<1> DEFINE free == {p \in Pod : Free(p)}
           p == CHOOSE q \in free : TRUE
<1>1. free # {} => p \in Pod /\ Free(p)
  <2>1. free # {} => p \in free
    OBVIOUS
  <2> QED
    BY <2>1
<1>2. \/ \E q \in Pod : Creates(q)
      \/ Untouched /\ UNCHANGED touched
  <2>1. CASE free # {} /\ StorePod(p, NewPod) /\ touched' = touched \ {p}
    BY <1>1, <2>1 DEF Creates
  <2>2. CASE UNCHANGED <<pods, watch, touched>>
    BY <2>2 DEF Untouched
  <2> QED
    BY <2>1, <2>2 DEF CreatePod
<1>3. Budget
  BY DEF CreatePod, Budget
<1>4. \/ misled' = TRUE /\ Answered(TRUE)
      \/ misled' = misled /\ Answered(FALSE)
      \/ misled' = misled /\ Answered(TRUE) /\ Untouched /\ UNCHANGED touched
  BY DEF CreatePod, Answered, NoFault, Fault, Misled, Untouched
<1> QED
  BY <1>2, <1>3, <1>4 DEF CreatePod

Deletes(p) ==
    /\ pods[p].exists
    /\ \E pod \in PodObject : Doomed(pod) /\ StorePod(p, pod)

LastAnswer(p, err) ==
    IF sync.victims = {p} THEN ToStatus(sync.err \/ err)
    ELSE sync' = [sync EXCEPT !.victims = @ \ {p}, !.err = @ \/ err]

LEMMA DeleteCalled ==
    ASSUME NEW p \in Pod, DeletePod(p), TypeOK
    PROVE  /\ At("delete") /\ p \in sync.victims /\ Budget
           /\ \E err \in BOOLEAN : LastAnswer(p, err)
           /\ UNCHANGED <<rsVars, queued, touched>>
           /\ \/ (Deletes(p) \/ Untouched) /\ UNCHANGED <<exp, uids, misled>>
              \/ DeletionObserved(p) /\ Untouched /\ UNCHANGED misled
              \/ DeletionObserved(p) /\ (Deletes(p) \/ Untouched) /\ misled' = TRUE
<1> DEFINE deleted == \/ StorePod(p, NoPod)
                      \/ ~pods[p].deleting /\ StorePod(p, [pods[p] EXCEPT !.deleting = TRUE])
                      \/ pods[p].deleting /\ UNCHANGED <<pods, watch>>
<1>1. ASSUME pods[p].exists, deleted
      PROVE  Deletes(p) \/ Untouched
  <2>1. pods[p] \in PodObject
    BY DEF TypeOK, WatchTypes
  <2>2. /\ NoPod \in PodObject /\ Doomed(NoPod)
    BY PodTypes DEF Doomed
  <2>3. [pods[p] EXCEPT !.deleting = TRUE] \in PodObject /\ Doomed([pods[p] EXCEPT !.deleting = TRUE])
    <3>1. pods[p] \in [exists : {TRUE}, owned : BOOLEAN, match : BOOLEAN, up : BOOLEAN, deleting : BOOLEAN]
      BY <1>1, <2>1, PodFacts
    <3> QED
      BY <1>1, <2>1, <3>1, PodTypes DEF Doomed
  <2> QED
    BY <1>1, <2>2, <2>3 DEF Deletes, Untouched
<1>2. \E err \in BOOLEAN : LastAnswer(p, err)
  BY DEF DeletePod, LastAnswer
<1>3. Budget
  BY DEF DeletePod, Budget
<1>4. \/ (Deletes(p) \/ Untouched) /\ UNCHANGED <<exp, uids, misled>>
      \/ DeletionObserved(p) /\ Untouched /\ UNCHANGED misled
      \/ DeletionObserved(p) /\ (Deletes(p) \/ Untouched) /\ misled' = TRUE
  <2>1. CASE pods[p].exists /\ deleted /\ NoFault /\ UNCHANGED <<exp, uids>>
    BY <1>1, <2>1 DEF NoFault
  <2>2. CASE ~pods[p].exists /\ DeletionObserved(p) /\ NoFault /\ UNCHANGED <<pods, watch>>
    BY <2>2 DEF NoFault, Untouched
  <2>3. CASE pods[p].exists /\ DeletionObserved(p) /\ deleted /\ Misled
    BY <1>1, <2>3 DEF Misled
  <2>4. CASE DeletionObserved(p) /\ Fault /\ UNCHANGED <<pods, watch>>
    BY <2>4 DEF Fault, Untouched
  <2> QED
    BY <2>1, <2>2, <2>3, <2>4 DEF DeletePod
<1> QED
  BY <1>2, <1>3, <1>4 DEF DeletePod

LEMMA UntouchedTypes ==
    ASSUME WatchTypes, Untouched
    PROVE  WatchTypes'
  BY DEF WatchTypes, Untouched, watch

\* The worker's calls.
LEMMA CallTypes ==
    ASSUME TypeOK, StageInv,
           \/ manageReplicas \/ slowStartBatch \/ CreatePod
           \/ \E p \in Pod : AdoptPod(p) \/ ReleasePod(p) \/ DeletePod(p)
    PROVE  TypeOK' /\ StageInv'
<1> USE DEF At
<1>1. /\ sync \in Sync /\ exp \in Expectation /\ uids \in SUBSET Pod /\ queued \in BOOLEAN
      /\ WatchTypes /\ RSTypes /\ touched \in SUBSET Pod
  BY DEF TypeOK
<1>2. sync.err \in BOOLEAN /\ sync.rs \in RSObject
  BY <1>1 DEF Sync
<1>3. ASSUME WatchTypes', UNCHANGED rsVars, exp' \in Expectation, uids' \in SUBSET Pod,
             UNCHANGED queued, sync' \in Sync, Budget, touched' \in SUBSET Pod
      PROVE  TypeOK'
  <2>1. RSTypes'
    BY <1>1, <1>3 DEF RSTypes, rsVars
  <2>2. changes' \in Nat /\ faults' \in Nat /\ misled' \in BOOLEAN
    BY <1>3, BudgetTypes
  <2> QED
    BY <1>1, <1>3, <2>1, <2>2 DEF TypeOK
<1>4. ASSUME NEW err \in BOOLEAN, ToStatus(err)
      PROVE  sync' \in Sync /\ StageInv'
  <2>1. sync' \in Sync /\ sync'.stage = "status"
    BY <1>4, IdleType DEF ToStatus, Sync
  <2> QED
    BY <1>4, <2>1, IdleType DEF ToStatus, StageInv, Idle
<1>5. Local => Untouched /\ Budget /\ UNCHANGED <<rsVars, touched>>
  BY DEF Local, Untouched, Budget, NoFault
<1>6. CASE manageReplicas
  <2>1. Local /\ UNCHANGED queued
    BY <1>6 DEF manageReplicas
  <2>2. CASE \E few \in Nat \ {0} : Missing(few)
    <3>1. PICK few \in Nat \ {0} : Missing(few)
      BY <2>2
    <3>2. exp' \in Expectation /\ uids' = uids
      BY <3>1 DEF Missing, ExpectCreations, Expect, Expectation
    <3>3. sync' \in Sync
      BY <1>2, <3>1, IdleType DEF Missing, Sync
    <3>4. sync.rs.exists
      BY <1>6 DEF manageReplicas, Claimed, StageInv
    <3>5. StageInv'
      BY <3>1, <3>4 DEF Missing, Idle, StageInv
    <3> QED
      BY <1>1, <1>3, <1>5, <2>1, <3>2, <3>3, <3>5, UntouchedTypes
  <2>3. CASE \E victims \in SUBSET sync.pods : Surplus(victims)
    <3>1. PICK victims \in SUBSET sync.pods : Surplus(victims)
      BY <2>3
    <3>2. victims \in SUBSET Pod /\ Cardinality(victims) \in Nat
      BY <1>1, FinitePods DEF Sync
    <3>3. exp' \in Expectation /\ uids' \in SUBSET Pod
      BY <3>1, <3>2 DEF Surplus, ExpectDeletions, Expect, Expectation
    <3>4. sync' \in Sync
      BY <1>1, <3>1, <3>2 DEF Surplus, Sync
    <3>5. StageInv'
      BY <1>1, <1>6, <3>1 DEF manageReplicas, Claimed, Surplus, StageInv, Sync
    <3> QED
      BY <1>1, <1>3, <1>5, <2>1, <3>3, <3>4, <3>5, UntouchedTypes
  <2>4. CASE ToStatus(FALSE) /\ UNCHANGED <<exp, uids>>
    BY <1>1, <1>3, <1>4, <1>5, <2>1, <2>4, UntouchedTypes
  <2> QED
    BY <1>6, <2>2, <2>3, <2>4, Managed
<1>7. CASE slowStartBatch
  <2>1. Local /\ UNCHANGED queued /\ sync.errs \in Nat
    BY <1>1, <1>7 DEF slowStartBatch, Sync
  <2>2. Rest \in Nat
    BY <1>7, Batched
  <2>3. CASE CreationObserved(Rest + sync.errs) /\ ToStatus(TRUE)
    <3>1. Rest + sync.errs \in Int
      BY <2>1, <2>2
    <3>2. exp' \in Expectation /\ uids' \in SUBSET Pod
      BY <1>1, <2>3, <3>1, ExpectationTypes
    <3> QED
      BY <1>1, <1>3, <1>4, <1>5, <2>1, <2>3, <3>2, UntouchedTypes
  <2>4. CASE ToStatus(FALSE) /\ UNCHANGED <<exp, uids>>
    BY <1>1, <1>3, <1>4, <1>5, <2>1, <2>4, UntouchedTypes
  <2>5. CASE \E batch \in Nat \ {0} : batch <= Rest /\ NextBatch(Rest, batch)
    <3>1. PICK batch \in Nat \ {0} : batch <= Rest /\ NextBatch(Rest, batch)
      BY <2>5
    <3>2. sync' \in Sync
      BY <1>1, <2>2, <3>1 DEF NextBatch, Sync
    <3>3. StageInv'
      BY <1>1, <1>7, <2>2, <3>1 DEF slowStartBatch, NextBatch, StageInv, Sync
    <3> QED
      BY <1>1, <1>3, <1>5, <2>1, <3>1, <3>2, <3>3, UntouchedTypes DEF NextBatch
  <2> QED
    BY <1>7, <2>3, <2>4, <2>5, Batched
<1>8. CASE CreatePod
  <2>1. WatchTypes' /\ touched' \in SUBSET Pod
    BY <1>1, <1>8, CreateCalled, StorePodTypes, UntouchedTypes, PodTypes DEF Creates
  <2>2. PICK err \in BOOLEAN : Answered(err)
    BY <1>8, CreateCalled
  <2>3. sync.calls \in Nat /\ sync.calls > 0 /\ sync.errs \in Nat
    BY <1>1, <1>8, CreateCalled DEF Sync
  <2>4. sync' \in Sync
    <3> DEFINE errs == IF err THEN sync.errs + 1 ELSE sync.errs
    <3>1. errs \in Nat /\ sync.calls - 1 \in Nat
      BY <2>3
    <3>2. sync' = [sync EXCEPT !.calls = sync.calls - 1, !.errs = errs]
      BY <2>2 DEF Answered
    <3> HIDE DEF errs
    <3> QED
      BY <1>1, <3>1, <3>2 DEF Sync
  <2>5. StageInv'
    BY <1>1, <2>2 DEF Answered, StageInv, Sync
  <2> QED
    BY <1>1, <1>3, <1>8, <2>1, <2>4, <2>5, CreateCalled
<1>9. ASSUME NEW p \in Pod, AdoptPod(p)
      PROVE  TypeOK' /\ StageInv'
  <2>1. PICK can \in {"yes", "no"}, err \in BOOLEAN : Adopts(p, can, err)
    BY <1>9, Adopted
  <2>2. WatchTypes'
    BY <1>1, <2>1, PatchPodTypes, UntouchedTypes DEF Adopts
  <2> DEFINE held == IF ~err /\ pods[p].exists THEN sync.pods \cup {p} ELSE sync.pods
             failed == sync.err \/ err
  <2>3. sync' = [sync EXCEPT !.adopt = sync.adopt \ {p}, !.can = can, !.err = failed, !.pods = held]
    BY <2>1 DEF Adopts
  <2>4. /\ failed \in BOOLEAN /\ sync.adopt \ {p} \in SUBSET Pod
        /\ held \in SUBSET Pod /\ held \subseteq sync.pods \cup {p}
    BY <1>1, <1>2 DEF Sync
  <2> HIDE DEF held, failed
  <2>5. sync' \in Sync
    BY <1>1, <2>3, <2>4 DEF Sync
  <2>6. sync.stage = "claim" /\ p \in sync.adopt
    BY <1>9, Adopted
  <2>7. StageInv'
    BY <1>1, <2>3, <2>4, <2>6 DEF StageInv, Sync
  <2> QED
    BY <1>1, <1>3, <1>9, <2>2, <2>5, <2>7, Adopted
<1>10. ASSUME NEW p \in Pod, ReleasePod(p)
      PROVE  TypeOK' /\ StageInv'
  <2>1. PICK err \in BOOLEAN : Releases(p, err)
    BY <1>10, Released, Zenon
  <2>2. WatchTypes'
    BY <1>1, <2>1, PatchPodTypes, UntouchedTypes DEF Releases
  <2>3. sync' \in Sync
    BY <1>1, <1>2, <2>1 DEF Releases, Sync
  <2>4. StageInv'
    BY <1>1, <1>10, <2>1, Released DEF Releases, StageInv, Sync
  <2> QED
    BY <1>1, <1>3, <1>10, <2>2, <2>3, <2>4, Released
<1>11. ASSUME NEW p \in Pod, DeletePod(p)
      PROVE  TypeOK' /\ StageInv'
  <2>1. PICK err \in BOOLEAN : LastAnswer(p, err)
    BY <1>11, DeleteCalled
  <2>2. WatchTypes'
    BY <1>1, <1>11, DeleteCalled, StorePodTypes, UntouchedTypes DEF Deletes
  <2>3. exp' \in Expectation /\ uids' \in SUBSET Pod
    BY <1>1, <1>11, DeleteCalled, ExpectationTypes
  <2>4. sync' \in Sync /\ StageInv'
    <3>1. CASE sync.victims = {p}
      BY <1>2, <1>4, <2>1, <3>1 DEF LastAnswer
    <3>2. CASE sync' = [sync EXCEPT !.victims = @ \ {p}, !.err = @ \/ err]
      <4>1. sync' \in Sync
        BY <1>1, <1>2, <3>2 DEF Sync
      <4>2. StageInv'
        BY <1>1, <1>11, <3>2, DeleteCalled DEF StageInv, Sync
      <4> QED
        BY <4>1, <4>2
    <3> QED
      BY <2>1, <3>1, <3>2 DEF LastAnswer
  <2> QED
    BY <1>1, <1>3, <1>11, <2>2, <2>3, <2>4, DeleteCalled
<1> QED
  BY <1>6, <1>7, <1>8, <1>9, <1>10, <1>11

\* The handlers' step: what they do to the expectations depends on the note alone.
Hears(n) ==
    \/ UNCHANGED <<exp, uids>>
    \/ CreationObserved(1) /\ ~n.old.exists /\ ~n.new.deleting /\ n.new.owned
    \/ DeletionObserved(n.name) /\ Doomed(n.new)

LEMMA Handles ==
    ASSUME HandlePod
    PROVE  /\ notes # <<>> /\ notes' = Tail(notes) /\ queued' \in BOOLEAN
           /\ UNCHANGED <<pods, log, store, rsVars, sync, changes, faults, touched, misled>>
           /\ Hears(Head(notes))
<1> DEFINE n == Head(notes)
<1>1. ASSUME NEW enqueue, Handled(enqueue)
      PROVE  /\ notes' = Tail(notes) /\ queued' \in BOOLEAN
             /\ UNCHANGED <<pods, log, store, rsVars, sync, changes, faults, touched, misled>>
  BY <1>1 DEF Handled
<1>2. ASSUME NEW owned, deletePod(n.name, owned), Doomed(n.new)
      PROVE  /\ \E enqueue : Handled(enqueue)
             /\ Hears(n)
  BY <1>2 DEF deletePod, Hears
<1>3. CASE ~n.old.exists /\ addPod(n.name, n.new)
  <2>1. CASE n.new.deleting /\ deletePod(n.name, n.new.owned)
    BY <1>1, <1>2, <2>1 DEF Doomed, HandlePod
  <2>2. CASE /\ ~n.new.deleting /\ n.new.owned /\ rsStore.exists
             /\ CreationObserved(1) /\ Handled(TRUE)
    BY <1>1, <1>3, <2>2 DEF Hears, HandlePod
  <2>3. CASE UNCHANGED <<exp, uids>> /\ Handled(~n.new.owned /\ n.new.match /\ rsStore.exists)
    BY <1>1, <2>3 DEF Hears, HandlePod
  <2> QED
    BY <1>3, <2>1, <2>2, <2>3 DEF addPod
<1>4. CASE updatePod(n.name, n.old, n.new)
  <2>1. CASE n.new.deleting /\ \E owned : deletePod(n.name, owned)
    BY <1>1, <1>2, <2>1 DEF Doomed, HandlePod
  <2>2. CASE UNCHANGED <<exp, uids>> /\ \E enqueue : Handled(enqueue)
    BY <1>1, <2>2 DEF Hears, HandlePod
  <2> QED
    BY <1>4, <2>1, <2>2 DEF updatePod
<1>5. CASE ~n.new.exists /\ deletePod(n.name, n.old.owned)
  BY <1>1, <1>2, <1>5 DEF Doomed, HandlePod
<1> QED
  BY <1>3, <1>4, <1>5 DEF HandlePod

\* A list in place of the watch tells the handlers of each pod that differs, once.
LEMMA RelistTells ==
    ASSUME WatchTypes, PodsRelisted
    PROVE  \E n, m \in Nat :
              /\ DOMAIN notes = 1..n /\ DOMAIN notes' = 1..(n + m)
              /\ \A i \in 1..n : notes'[i] = notes[i]
              /\ \A i \in (n + 1)..(n + m) :
                    \E p \in Pod : /\ store[p] # pods[p]
                                   /\ notes'[i] = [name |-> p, old |-> store[p], new |-> pods[p]]
              /\ \A i, j \in (n + 1)..(n + m) : i # j => notes'[i].name # notes'[j].name
              /\ notes' \in Seq(Note)
<1> DEFINE late == {p \in Pod : store[p] # pods[p]}
           order == SetToSeq(late)
           note(p) == [name |-> p, old |-> store[p], new |-> pods[p]]
           new == [i \in DOMAIN order |-> note(order[i])]
           n == Len(notes)
           m == Len(order)
<1>1. notes' = notes \o new
  BY DEF PodsRelisted
<1>2. IsFiniteSet(late)
  BY FinitePods
<1> HIDE DEF late
<1>3. order \in Seq(late) /\ Distinct(order)
  BY <1>2, ListOfSet
<1>4. m \in Nat /\ DOMAIN order = 1..m /\ \A i \in 1..m : order[i] \in late
  BY <1>3, LenProperties
<1>5. n \in Nat /\ DOMAIN notes = 1..n /\ notes \in Seq(Note)
  BY LenProperties DEF WatchTypes
<1>6. \A p \in late : note(p) \in Note /\ p \in Pod /\ store[p] # pods[p]
  BY DEF late, WatchTypes, Note
<1> HIDE DEF order, note
<1>7. new \in [1..m -> Note]
  BY <1>4, <1>6
<1>8. new \in Seq(Note) /\ Len(new) = m
  BY <1>4, <1>7
<1>9. \A i \in 1..m : new[i] = note(order[i])
  BY <1>4
<1> HIDE DEF new, n, m
<1>10. /\ notes' \in Seq(Note) /\ Len(notes') = n + m
       /\ \A i \in 1..(n + m) : notes'[i] = IF i <= n THEN notes[i] ELSE new[i - n]
  BY <1>1, <1>5, <1>8, ConcatProperties DEF n
<1>11. DOMAIN notes' = 1..(n + m)
  BY <1>10, LenProperties
<1>12. \A i \in 1..n : notes'[i] = notes[i]
  BY <1>4, <1>5, <1>10
<1>13. \A i \in (n + 1)..(n + m) : i - n \in 1..m /\ notes'[i] = note(order[i - n])
  BY <1>4, <1>5, <1>9, <1>10
<1>14. ASSUME NEW i \in (n + 1)..(n + m)
       PROVE  \E p \in Pod : /\ store[p] # pods[p]
                             /\ notes'[i] = [name |-> p, old |-> store[p], new |-> pods[p]]
  BY <1>4, <1>6, <1>13 DEF note
<1>15. ASSUME NEW i \in (n + 1)..(n + m), NEW j \in (n + 1)..(n + m), i # j
       PROVE  notes'[i].name # notes'[j].name
  <2>1. i - n # j - n /\ i - n \in 1..m /\ j - n \in 1..m
    BY <1>4, <1>5, <1>13, <1>15
  <2>2. order[i - n] # order[j - n]
    BY <1>3, <1>4, <2>1 DEF Distinct
  <2>3. \A p : note(p).name = p
    BY DEF note
  <2>4. notes'[i] = note(order[i - n]) /\ notes'[j] = note(order[j - n])
    BY <1>13
  <2> QED
    BY ONLY <2>2, <2>3, <2>4
<1> QED
  BY <1>4, <1>5, <1>10, <1>11, <1>12, <1>14, <1>15

LEMMA EnvironmentTypes ==
    ASSUME TypeOK, StageInv,
           \/ HandlePod \/ HandleRS \/ Resync \/ Expires \/ PodStored \/ PodsRelisted
           \/ RSStored \/ PodRemoved \/ PodChanges \/ RSChanges
    PROVE  TypeOK' /\ StageInv'
<1>1. /\ sync \in Sync /\ exp \in Expectation /\ uids \in SUBSET Pod /\ queued \in BOOLEAN
      /\ WatchTypes /\ RSTypes /\ touched \in SUBSET Pod
      /\ rs \in RSObject /\ rsStore \in RSObject
      /\ \A p \in Pod : pods[p] \in PodObject
  BY DEF TypeOK, RSTypes, WatchTypes
<1>2. UNCHANGED sync
  BY Handles DEF HandleRS, Resync, Expires, PodStored, PodsRelisted, RSStored, PodRemoved,
                 PodChanges, RSChanges
<1>3. StageInv'
  BY <1>2 DEF StageInv
<1>4. Budget
  BY Handles DEF HandleRS, Resync, Expires, PodStored, PodsRelisted, RSStored, PodRemoved,
                 PodChanges, RSChanges, Budget, NoFault
<1>5. ASSUME WatchTypes', RSTypes', exp' \in Expectation, uids' \in SUBSET Pod,
             queued' \in BOOLEAN, touched' \in SUBSET Pod
      PROVE  TypeOK' /\ StageInv'
  <2>1. changes' \in Nat /\ faults' \in Nat /\ misled' \in BOOLEAN
    BY <1>4, BudgetTypes
  <2> QED
    BY <1>1, <1>2, <1>3, <1>5, <2>1 DEF TypeOK
<1>6. UNCHANGED rsVars => RSTypes'
  BY <1>1 DEF RSTypes, rsVars
<1>7. CASE HandlePod
  <2>1. WatchTypes'
    BY <1>1, <1>7, Handles, HeadTailProperties DEF WatchTypes
  <2>2. Head(notes).name \in Pod
    <3>1. Head(notes) \in Note
      BY <1>1, <1>7, Handles, HeadTailProperties DEF WatchTypes
    <3> QED
      BY <3>1 DEF Note
  <2>3. exp' \in Expectation /\ uids' \in SUBSET Pod
    <3>1. CASE UNCHANGED <<exp, uids>>
      BY <1>1, <3>1
    <3>2. CASE CreationObserved(1)
      BY <1>1, <3>2, ExpectationTypes
    <3>3. CASE DeletionObserved(Head(notes).name)
      BY <1>1, <2>2, <3>3, ExpectationTypes
    <3> QED
      BY <1>7, <3>1, <3>2, <3>3, Handles DEF Hears
  <2> QED
    BY <1>1, <1>5, <1>6, <1>7, <2>1, <2>3, Handles
<1>8. CASE HandleRS
  <2>1. WatchTypes' /\ RSTypes'
    BY <1>1, <1>8 DEF HandleRS, WatchTypes, RSTypes, watch
  <2> QED
    BY <1>1, <1>5, <1>8, <2>1, ExpectationTypes DEF HandleRS
<1>9. CASE Resync
  <2>1. WatchTypes'
    BY <1>1, <1>9 DEF Resync, WatchTypes, watch
  <2> QED
    BY <1>1, <1>5, <1>6, <1>9, <2>1 DEF Resync
<1>10. CASE Expires
  <2>1. WatchTypes'
    BY <1>1, <1>10 DEF Expires, WatchTypes, watch
  <2>2. exp.exists
    BY <1>10 DEF Expires, SatisfiedExpectations
  <2>3. exp \in [exists : {TRUE}, add : Int, del : Int, expired : BOOLEAN]
    <3>1. exp # NoExp
      BY <2>2 DEF NoExp
    <3> QED
      BY <1>1, <3>1 DEF Expectation
  <2>4. exp' \in [exists : {TRUE}, add : Int, del : Int, expired : BOOLEAN]
    BY <1>10, <2>3 DEF Expires
  <2> QED
    BY <1>1, <1>5, <1>6, <1>10, <2>1, <2>4 DEF Expires, Expectation
<1>11. CASE PodStored
  <2>1. /\ Head(log) \in Event /\ log' \in Seq(Event)
    BY <1>1, <1>11, HeadTailProperties DEF PodStored, WatchTypes
  <2> DEFINE e == Head(log)
             n == [name |-> e.name, old |-> store[e.name], new |-> e.pod]
  <2>2. /\ store' = [store EXCEPT ![e.name] = e.pod] /\ notes' = Append(notes, n)
    BY <1>11 DEF PodStored
  <2>3. e.name \in Pod /\ e.pod \in PodObject
    BY <2>1 DEF Event
  <2> HIDE DEF e
  <2>4. n \in Note /\ store' \in [Pod -> PodObject]
    BY <1>1, <2>2, <2>3 DEF Note, WatchTypes
  <2> HIDE DEF n
  <2>5. WatchTypes'
    BY <1>1, <1>11, <2>1, <2>2, <2>4, AppendProperties DEF PodStored, WatchTypes
  <2> QED
    BY <1>1, <1>5, <1>6, <1>11, <2>5 DEF PodStored
<1>12. CASE PodsRelisted
  <2>1. notes' \in Seq(Note)
    BY <1>1, <1>12, RelistTells
  <2>2. WatchTypes'
    BY <1>1, <1>12, <2>1 DEF PodsRelisted, WatchTypes
  <2> QED
    BY <1>1, <1>5, <1>6, <1>12, <2>2 DEF PodsRelisted
<1>13. CASE RSStored
  <2>1. WatchTypes'
    BY <1>1, <1>13 DEF RSStored, WatchTypes, watch
  <2>2. RSTypes'
    BY <1>1, <1>13 DEF RSStored, RSTypes
  <2> QED
    BY <1>1, <1>5, <1>13, <2>1, <2>2 DEF RSStored
<1>14. CASE PodRemoved
  <2>1. WatchTypes'
    BY <1>1, <1>14, StorePodTypes, PodTypes DEF PodRemoved
  <2> QED
    BY <1>1, <1>5, <1>6, <1>14, <2>1 DEF PodRemoved
<1>15. CASE PodChanges
  <2>1. PICK p \in Pod :
           /\ touched' = touched \cup {p}
           /\ \/ StorePod(p, [NewPod EXCEPT !.owned = FALSE])
              \/ pods[p].exists /\ StorePod(p, [pods[p] EXCEPT !.up = FALSE])
              \/ pods[p].exists /\ StorePod(p, [pods[p] EXCEPT !.match = ~@])
              \/ pods[p].exists /\ StorePod(p, [pods[p] EXCEPT !.deleting = TRUE])
              \/ pods[p].exists /\ StorePod(p, NoPod)
    BY <1>15 DEF PodChanges
  <2>2. \E pod \in PodObject : StorePod(p, pod)
    BY <1>1, <2>1, PodTypes
  <2>3. WatchTypes'
    BY <1>1, <2>2, StorePodTypes
  <2> QED
    BY <1>1, <1>5, <1>6, <1>15, <2>1, <2>3 DEF PodChanges
<1>16. CASE RSChanges
  <2>1. WatchTypes'
    BY <1>1, <1>16 DEF RSChanges, WatchTypes, watch
  <2>2. rs.exists /\ rs \in [exists : {TRUE}, replicas : 0..MaxReplicas, deleting : BOOLEAN]
    BY <1>1, <1>16, RSFacts DEF RSChanges
  <2>3. rs' \in RSObject
    BY <1>16, <2>2 DEF RSChanges, StoreRS, RSObject
  <2>4. rsStore.exists
    BY <1>1, <2>2 DEF RSTypes
  <2>5. RSTypes'
    BY <1>1, <1>16, <2>3, <2>4 DEF RSChanges, StoreRS, RSTypes
  <2> QED
    BY <1>1, <1>5, <1>16, <2>1, <2>5 DEF RSChanges
<1> QED
  BY <1>7, <1>8, <1>9, <1>10, <1>11, <1>12, <1>13, <1>14, <1>15, <1>16

LEMMA TypesKept ==
    ASSUME TypeOK, StageInv, [Next]_vars
    PROVE  TypeOK' /\ StageInv'
<1>1. CASE Worker
  BY <1>1, LocalTypes, CallTypes DEF Worker
<1>2. CASE UNCHANGED vars
  BY <1>2 DEF vars, watch, rsVars, TypeOK, StageInv, WatchTypes, RSTypes
<1> QED
  BY <1>1, <1>2, EnvironmentTypes DEF Next

-----------------------------------------------------------------------------
(***************************************************************************)
(* The watch keeps the order of a pod's versions                           *)
(***************************************************************************)
LEMMA ElementTypes ==
    ASSUME WatchTypes
    PROVE  /\ \A i \in DOMAIN log : log[i].name \in Pod /\ log[i].pod \in PodObject
           /\ \A i \in DOMAIN notes : /\ notes[i].name \in Pod /\ notes[i].old \in PodObject
                                      /\ notes[i].new \in PodObject
<1>1. \A i \in DOMAIN log : log[i] \in Event
  BY LenProperties, ElementOfSeq DEF WatchTypes
<1>2. \A i \in DOMAIN notes : notes[i] \in Note
  BY LenProperties, ElementOfSeq DEF WatchTypes
<1>3. \A e \in Event : e.name \in Pod /\ e.pod \in PodObject
  BY DEF Event
<1>4. \A e \in Note : e.name \in Pod /\ e.old \in PodObject /\ e.new \in PodObject
  BY DEF Note
<1> QED
  BY <1>1, <1>2, <1>3, <1>4

LEMMA BeforeTransitive ==
    ASSUME NEW others, NEW p, NEW u, NEW v, NEW w, Before(others, p, u, v), Before(others, p, v, w)
    PROVE  Before(others, p, u, w)
  BY DEF Before, Leads, Doomed, Ready

\* s grows by e to t; s loses its first element to become t.
Grows(s, t, e, n) ==
    /\ n \in Nat /\ DOMAIN s = 1..n /\ DOMAIN t = 1..(n + 1)
    /\ \A i \in 1..n : t[i] = s[i]
    /\ t[n + 1] = e

Shrinks(s, t, n) ==
    /\ n \in Nat /\ DOMAIN s = 1..(n + 1) /\ DOMAIN t = 1..n
    /\ \A i \in 1..n : t[i] = s[i + 1]

LEMMA AppendGrows ==
    ASSUME NEW X, NEW s \in Seq(X), NEW e \in X, NEW t, t = Append(s, e)
    PROVE  \E n : Grows(s, t, e, n)
<1>1. /\ Len(s) \in Nat /\ DOMAIN s = 1..Len(s)
      /\ Append(s, e) \in Seq(X) /\ Len(Append(s, e)) = Len(s) + 1
      /\ \A i \in 1..Len(s) : Append(s, e)[i] = s[i]
      /\ Append(s, e)[Len(s) + 1] = e
  BY AppendProperties, LenProperties
<1>2. DOMAIN Append(s, e) = 1..(Len(s) + 1)
  BY <1>1, LenProperties
<1> QED
  BY <1>1, <1>2 DEF Grows

LEMMA TailShrinks ==
    ASSUME NEW X, NEW s \in Seq(X), s # <<>>, NEW t, t = Tail(s)
    PROVE  /\ Head(s) = s[1] /\ 1 \in DOMAIN s
           /\ \E n : Shrinks(s, t, n)
<1>1. /\ Len(s) \in Nat \ {0} /\ DOMAIN s = 1..Len(s) /\ Head(s) = s[1]
  BY LenProperties, EmptySeq, HeadTailProperties
<1>2. /\ t \in Seq(X) /\ Len(t) = Len(s) - 1
      /\ \A i \in 1..Len(t) : t[i] = s[i + 1]
  BY <1>1, HeadTailProperties
<1>3. DOMAIN t = 1..Len(t)
  BY <1>2, LenProperties
<1> DEFINE n == Len(t)
<1>4. n \in Nat /\ Len(s) = n + 1
  BY <1>1, <1>2
<1>5. Shrinks(s, t, n)
  BY <1>1, <1>2, <1>3, <1>4 DEF Shrinks
<1> QED
  BY <1>1, <1>5

HoldsNoMore == Held' \subseteq Held /\ sync'.release \subseteq sync.release

LEMMA WatchStays ==
    ASSUME TypeOK, WatchInv, UNCHANGED <<pods, log, store>>,
           UNCHANGED notes \/ (notes # <<>> /\ notes' = Tail(notes)),
           touched \subseteq touched', HoldsNoMore
    PROVE  WatchInv'
<1>1. LastIsCurrent'
  BY DEF WatchInv, LastIsCurrent, IsLast, Named
<1>2. InOrder'
  BY DEF WatchInv, InOrder, Before
<1>3. NewIsReady'
  BY DEF WatchInv, NewIsReady
<1>4. HeldInv'
  BY DEF WatchInv, HeldInv, HoldsNoMore, Named
<1>5. BornFirst' /\ NotesInOrder'
  <2>1. CASE UNCHANGED notes
    BY <2>1 DEF WatchInv, BornFirst, NotesInOrder, Named
  <2>2. CASE notes # <<>> /\ notes' = Tail(notes)
    <3>1. PICK n : Shrinks(notes, notes', n)
      BY <2>2, TailShrinks DEF TypeOK, WatchTypes
    <3>2. \A i \in DOMAIN notes' : i + 1 \in DOMAIN notes /\ notes'[i] = notes[i + 1]
      BY <3>1 DEF Shrinks
    <3>3. \A i, j \in DOMAIN notes' : i < j => i + 1 < j + 1
      BY <3>1 DEF Shrinks
    <3>4. BornFirst'
      BY <3>2 DEF WatchInv, BornFirst
    <3>5. \A p \in Pod : Named(notes', p) => Named(notes, p)
      BY <3>2 DEF Named
    <3>6. \A i, j \in DOMAIN notes' : i < j /\ notes'[i].name = notes'[j].name => notes'[j].old.exists
      BY <3>2, <3>3 DEF WatchInv, NotesInOrder
    <3>7. \A i \in DOMAIN notes' : Doomed(notes'[i].new) => Doomed(store[notes'[i].name])
      BY <3>2 DEF WatchInv, NotesInOrder
    <3> QED
      BY <3>4, <3>5, <3>6, <3>7 DEF WatchInv, NotesInOrder, Named
  <2> QED
    BY <2>1, <2>2
<1> QED
  BY <1>1, <1>2, <1>3, <1>4, <1>5 DEF WatchInv

\* What the worker's list takes from the store.
LEMMA Lists ==
    ASSUME TypeOK, ListPods
    PROVE  /\ Untouched /\ UNCHANGED <<rsVars, exp, uids, queued, misled>> /\ Budget
           /\ touched' = {p \in touched : Named(log, p)}
           /\ sync'.stage = "claim" /\ At("list")
           /\ UNCHANGED <<sync.rs, sync.needs, sync.err, sync.victims>>
           /\ sync'.pods = {p \in Pod : Replica(store[p])}
           /\ sync'.adopt = {p \in Pod : Ready(store[p]) /\ ~store[p].owned /\ ~sync.rs.deleting}
           /\ sync'.release \subseteq {p \in Pod : IsPodActive(store[p]) /\ ~store[p].match}
<1> DEFINE those(what) == {p \in {p \in Pod : IsPodActive(store[p])} : ClaimObject(store[p]) = what}
           a == those("claimed")
           b == those("adopt")
           c == those("release")
<1>1. sync' = [sync EXCEPT !.stage = "claim", !.pods = a, !.adopt = b, !.release = c]
  BY DEF ListPods
<1>2. ASSUME NEW pod
      PROVE  /\ ClaimObject(pod) = "claimed" <=> pod.owned /\ pod.match
             /\ ClaimObject(pod) = "adopt" <=> ~pod.owned /\ pod.match /\ ~sync.rs.deleting
             /\ ClaimObject(pod) = "release" => ~pod.match
  <2>1. CASE pod.owned /\ pod.match
    BY <2>1 DEF ClaimObject
  <2>2. CASE pod.owned /\ ~pod.match /\ ~sync.rs.deleting
    BY <2>2 DEF ClaimObject
  <2>3. CASE ~pod.owned /\ pod.match /\ ~sync.rs.deleting
    BY <2>3 DEF ClaimObject
  <2>4. CASE /\ ~(pod.owned /\ pod.match)
             /\ ~(pod.owned /\ ~pod.match /\ ~sync.rs.deleting)
             /\ ~(~pod.owned /\ pod.match /\ ~sync.rs.deleting)
    BY <2>4 DEF ClaimObject
  <2> QED
    BY <2>1, <2>2, <2>3, <2>4
<1> HIDE DEF ClaimObject
<1>3. a = {p \in Pod : Replica(store[p])}
  BY <1>2 DEF Replica
<1>4. b = {p \in Pod : Ready(store[p]) /\ ~store[p].owned /\ ~sync.rs.deleting}
  BY <1>2 DEF Ready
<1>5. c \subseteq {p \in Pod : IsPodActive(store[p]) /\ ~store[p].match}
  BY <1>2
<1> HIDE DEF a, b, c
<1>6. sync \in Sync
  BY DEF TypeOK
<1>7. /\ sync'.stage = "claim" /\ sync'.pods = a /\ sync'.adopt = b /\ sync'.release = c
      /\ UNCHANGED <<sync.rs, sync.needs, sync.err, sync.victims>>
  BY <1>1, <1>6 DEF Sync
<1>8. Untouched /\ touched' = {p \in touched : Named(log, p)} /\ Budget
      /\ UNCHANGED <<rsVars, exp, uids, queued, misled>> /\ At("list")
  BY DEF ListPods, Untouched, Named, Budget, NoFault
<1> QED
  BY <1>3, <1>4, <1>5, <1>7, <1>8

LEMMA WatchListed ==
    ASSUME TypeOK, WatchInv, ListPods
    PROVE  WatchInv'
<1>1. UNCHANGED <<pods, log, store, notes>> /\ touched' = {p \in touched : Named(log, p)}
  BY Lists DEF Untouched, watch
<1>2. LastIsCurrent' /\ BornFirst' /\ NotesInOrder'
  BY <1>1 DEF WatchInv, LastIsCurrent, IsLast, BornFirst, NotesInOrder, Named
<1>3. \A i \in DOMAIN log : log[i].name \notin touched' => log[i].name \notin touched
  BY <1>1 DEF Named
<1>4. InOrder'
  BY <1>1, <1>3 DEF WatchInv, InOrder, Before
<1>5. NewIsReady'
  BY <1>1, <1>3 DEF WatchInv, NewIsReady
<1>6. \A p \in Held' : store[p].exists
  BY Lists DEF Held, Ready, Replica, IsPodActive
<1>7. \A p \in sync'.release : ~Ready(store[p])
  BY Lists DEF Ready
<1>8. HeldInv'
  BY <1>1, <1>6, <1>7 DEF HeldInv
<1> QED
  BY <1>2, <1>4, <1>5, <1>8 DEF WatchInv

\* The last version of a pod is the API server's: a pod that the watch has nothing of
\* is in the store as it is.
LEMMA Current ==
    ASSUME WatchInv, NEW p \in Pod
    PROVE  /\ ~Named(log, p) => store[p] = pods[p]
           /\ Named(log, p) => \E k \in DOMAIN log : IsLast(p, k)
  BY DEF WatchInv, LastIsCurrent

\* Every version leads to the API server's.
LEMMA LeadsToCurrent ==
    ASSUME WatchTypes, WatchInv, NEW p \in Pod
    PROVE  /\ store[p].exists => store[p] = pods[p] \/ Before(touched, p, store[p], pods[p])
           /\ \A i \in DOMAIN log : log[i].name = p =>
                 log[i].pod = pods[p] \/ Before(touched, p, log[i].pod, pods[p])
<1>1. CASE Named(log, p)
  <2>1. PICK k \in DOMAIN log : IsLast(p, k)
    BY <1>1, Current
  <2>2. \A i \in DOMAIN log : log[i].name = p => i = k \/ i < k
    BY <2>1, LenProperties DEF IsLast, WatchTypes
  <2> QED
    BY <2>1, <2>2 DEF IsLast, WatchInv, InOrder
<1>2. CASE ~Named(log, p)
  BY <1>2, Current DEF Named
<1> QED
  BY <1>1, <1>2

\* Somebody changes or removes a pod that is there.
Changes(p, pod) ==
    /\ StorePod(p, pod)
    /\ pods[p].exists /\ (pods[p].deleting => Doomed(pod))
    /\ p \in touched' \/ (Leads(pods[p], pod) /\ store[p].exists)
    /\ store[p].exists \/ (pod.exists /\ pod.owned => pods[p].owned)
    /\ touched \subseteq touched'

LEMMA WatchChanged ==
    ASSUME TypeOK, WatchInv, NEW p \in Pod, NEW pod \in PodObject, Changes(p, pod), HoldsNoMore
    PROVE  WatchInv'
<1>0. /\ StorePod(p, pod)
      /\ pods[p].exists /\ (pods[p].deleting => Doomed(pod))
      /\ p \in touched' \/ (Leads(pods[p], pod) /\ store[p].exists)
      /\ touched \subseteq touched'
  BY DEF Changes
<1> DEFINE e == [name |-> p, pod |-> pod]
<1>1. /\ pods' = [pods EXCEPT ![p] = pod] /\ log' = Append(log, e)
      /\ UNCHANGED <<store, notes>>
  BY <1>0 DEF StorePod
<1>2. pods \in [Pod -> PodObject] /\ log \in Seq(Event) /\ e \in Event /\ WatchTypes
  BY DEF TypeOK, WatchTypes, Event
<1>3. e.name = p /\ e.pod = pod
  OBVIOUS
<1> HIDE DEF e
<1>4. PICK n : Grows(log, log', e, n)
  BY <1>1, <1>2, AppendGrows
<1>5. /\ n \in Nat /\ DOMAIN log = 1..n /\ DOMAIN log' = 1..(n + 1)
      /\ \A i \in 1..n : log'[i] = log[i]
      /\ log'[n + 1].name = p /\ log'[n + 1].pod = pod
  BY <1>3, <1>4 DEF Grows
<1>6. \A q : Named(log', q) <=> Named(log, q) \/ q = p
  BY <1>5 DEF Named
<1>7. Before(touched', p, pods[p], pod)
  BY <1>0 DEF Before
<1>8. \A v : Before(touched, p, v, pods[p]) => Before(touched', p, v, pod)
  <2>1. \A v : Before(touched, p, v, pods[p]) => Before(touched', p, v, pods[p])
    BY <1>0 DEF Before
  <2> QED
    BY <1>7, <2>1, BeforeTransitive
<1>9. /\ \A i \in 1..n : log[i].name = p => Before(touched', p, log[i].pod, pod)
      /\ store[p].exists => Before(touched', p, store[p], pod)
  BY <1>2, <1>5, <1>7, <1>8, LeadsToCurrent
<1>10. Named(log, p) \/ store[p].exists
  BY <1>0, Current
<1>11. LastIsCurrent'
  <2>1. ASSUME NEW q \in Pod, q # p
        PROVE  IF Named(log', q) THEN \E i \in DOMAIN log' : IsLast(q, i)'
                                 ELSE store'[q] = pods'[q]
    <3>1. CASE Named(log, q)
      <4>1. PICK i \in DOMAIN log : IsLast(q, i)
        BY <3>1, Current
      <4>2. i \in DOMAIN log' /\ IsLast(q, i)'
        BY <1>1, <1>2, <1>5, <2>1, <4>1 DEF IsLast
      <4> QED
        BY <1>6, <3>1, <4>2
    <3>2. CASE ~Named(log, q)
      BY <1>1, <1>2, <1>6, <2>1, <3>2, Current
    <3> QED
      BY <3>1, <3>2
  <2>2. n + 1 \in DOMAIN log' /\ IsLast(p, n + 1)' /\ Named(log', p)
    BY <1>1, <1>2, <1>5, <1>6 DEF IsLast
  <2> QED
    BY <2>1, <2>2 DEF LastIsCurrent
<1>12. InOrder'
  <2>1. ASSUME NEW i \in 1..(n + 1), NEW j \in 1..(n + 1), i < j, log'[i].name = log'[j].name
        PROVE  Before(touched', log'[i].name, log'[i].pod, log'[j].pod)
    <3>1. CASE j = n + 1
      BY <1>5, <1>9, <2>1, <3>1
    <3>2. CASE j \in 1..n
      <4>1. i \in 1..n
        BY <1>5, <2>1, <3>2
      <4>2. Before(touched, log[i].name, log[i].pod, log[j].pod)
        BY <1>5, <2>1, <3>2, <4>1 DEF WatchInv, InOrder
      <4> QED
        BY <1>0, <1>5, <3>2, <4>1, <4>2 DEF Before
    <3> QED
      BY <1>5, <3>1, <3>2
  <2>2. ASSUME NEW i \in 1..(n + 1), store[log'[i].name].exists
        PROVE  Before(touched', log'[i].name, store[log'[i].name], log'[i].pod)
    <3>1. CASE i = n + 1
      BY <1>5, <1>9, <2>2, <3>1
    <3>2. CASE i \in 1..n
      <4>1. Before(touched, log[i].name, store[log[i].name], log[i].pod)
        BY <1>5, <2>2, <3>2 DEF WatchInv, InOrder
      <4> QED
        BY <1>0, <1>5, <3>2, <4>1 DEF Before
    <3> QED
      BY <1>5, <3>1, <3>2
  <2> QED
    BY <1>1, <1>5, <2>1, <2>2 DEF InOrder
<1>13. BornFirst'
  <2>1. ASSUME NEW i \in 1..(n + 1), ~store[log'[i].name].exists, ~log'[i].pod.exists
        PROVE  \E j \in 1..(n + 1) : j < i /\ log'[j].name = log'[i].name
    <3>1. CASE i = n + 1
      <4>1. PICK j \in 1..n : log[j].name = p
        BY <1>5, <1>10, <2>1, <3>1 DEF Named
      <4> QED
        BY <1>5, <3>1, <4>1
    <3>2. CASE i \in 1..n
      <4>1. PICK j \in 1..n : j < i /\ log[j].name = log[i].name
        BY <1>5, <2>1, <3>2 DEF WatchInv, BornFirst
      <4> QED
        BY <1>5, <3>2, <4>1
    <3> QED
      BY <1>5, <3>1, <3>2
  <2> QED
    BY <1>1, <1>5, <2>1 DEF WatchInv, BornFirst
<1>14. NewIsReady'
  BY <1>0, <1>1, <1>5 DEF WatchInv, NewIsReady
<1>15. NotesInOrder'
  BY <1>1, <1>6, <1>10 DEF WatchInv, NotesInOrder
<1>16. HeldInv'
  <2>1. p \in Held => store[p].exists
    BY <1>10 DEF WatchInv, HeldInv
  <2>2. \A q \in Held' : ~store[q].exists => ~Named(log', q)
    BY <1>6, <2>1 DEF WatchInv, HeldInv, HoldsNoMore
  <2>3. \A q \in sync'.release \ touched' : ~Ready(store[q])
    BY <1>0 DEF WatchInv, HeldInv, HoldsNoMore
  <2> QED
    BY <1>1, <2>2, <2>3 DEF HeldInv
<1> QED
  BY <1>11, <1>12, <1>13, <1>14, <1>15, <1>16 DEF WatchInv

\* Somebody creates a pod.
Born(p, pod) ==
    Free(p) /\ StorePod(p, pod) /\ Ready(pod) /\ touched \ {p} \subseteq touched'

LEMMA WatchBorn ==
    ASSUME TypeOK, WatchInv, NEW p \in Pod, NEW pod \in PodObject, Born(p, pod), HoldsNoMore
    PROVE  WatchInv'
<1>0. StorePod(p, pod) /\ Free(p) /\ Ready(pod) /\ touched \ {p} \subseteq touched'
  BY DEF Born
<1> DEFINE e == [name |-> p, pod |-> pod]
<1>1. /\ pods' = [pods EXCEPT ![p] = pod] /\ log' = Append(log, e)
      /\ UNCHANGED <<store, notes>>
  BY <1>0 DEF StorePod
<1>2. pods \in [Pod -> PodObject] /\ log \in Seq(Event) /\ e \in Event
  BY DEF TypeOK, WatchTypes, Event
<1>3. e.name = p /\ e.pod = pod
  OBVIOUS
<1> HIDE DEF e
<1>4. PICK n : Grows(log, log', e, n)
  BY <1>1, <1>2, AppendGrows
<1>5. /\ n \in Nat /\ DOMAIN log = 1..n /\ DOMAIN log' = 1..(n + 1)
      /\ \A i \in 1..n : log'[i] = log[i]
      /\ log'[n + 1].name = p /\ log'[n + 1].pod = pod
  BY <1>3, <1>4 DEF Grows
<1>6. \A q : Named(log', q) <=> Named(log, q) \/ q = p
  BY <1>5 DEF Named
<1>7. /\ ~Named(log, p) /\ ~Named(notes, p) /\ ~store[p].exists /\ p \notin Held
      /\ pod.exists
  BY <1>0 DEF Free, Named, Held, Ready, IsPodActive
<1>8. \A i \in 1..n : log[i].name # p
  BY <1>5, <1>7 DEF Named
<1>9. LastIsCurrent'
  <2>1. ASSUME NEW q \in Pod, q # p
        PROVE  IF Named(log', q) THEN \E i \in DOMAIN log' : IsLast(q, i)'
                                 ELSE store'[q] = pods'[q]
    <3>1. CASE Named(log, q)
      <4>1. PICK i \in DOMAIN log : IsLast(q, i)
        BY <3>1, Current
      <4>2. i \in DOMAIN log' /\ IsLast(q, i)'
        BY <1>1, <1>2, <1>5, <2>1, <4>1 DEF IsLast
      <4> QED
        BY <1>6, <3>1, <4>2
    <3>2. CASE ~Named(log, q)
      BY <1>1, <1>2, <1>6, <2>1, <3>2, Current
    <3> QED
      BY <3>1, <3>2
  <2>2. n + 1 \in DOMAIN log' /\ IsLast(p, n + 1)' /\ Named(log', p)
    BY <1>1, <1>2, <1>5, <1>6 DEF IsLast
  <2> QED
    BY <2>1, <2>2 DEF LastIsCurrent
<1>10. InOrder'
  <2>1. ASSUME NEW i \in 1..(n + 1), NEW j \in 1..(n + 1), i < j, log'[i].name = log'[j].name
        PROVE  Before(touched', log'[i].name, log'[i].pod, log'[j].pod)
    <3>1. i \in 1..n /\ j \in 1..n
      BY <1>5, <1>8, <2>1
    <3>2. Before(touched, log[i].name, log[i].pod, log[j].pod)
      BY <1>5, <2>1, <3>1 DEF WatchInv, InOrder
    <3> QED
      BY <1>0, <1>5, <1>8, <3>1, <3>2 DEF Before
  <2>2. ASSUME NEW i \in 1..(n + 1), store[log'[i].name].exists
        PROVE  Before(touched', log'[i].name, store[log'[i].name], log'[i].pod)
    <3>1. i \in 1..n
      BY <1>5, <1>7, <2>2
    <3>2. Before(touched, log[i].name, store[log[i].name], log[i].pod)
      BY <1>5, <2>2, <3>1 DEF WatchInv, InOrder
    <3> QED
      BY <1>0, <1>5, <1>8, <3>1, <3>2 DEF Before
  <2> QED
    BY <1>1, <1>5, <2>1, <2>2 DEF InOrder
<1>11. BornFirst'
  <2>1. ASSUME NEW i \in 1..(n + 1), ~store[log'[i].name].exists, ~log'[i].pod.exists
        PROVE  \E j \in 1..(n + 1) : j < i /\ log'[j].name = log'[i].name
    <3>1. i \in 1..n
      BY <1>5, <1>7, <2>1
    <3>2. PICK j \in 1..n : j < i /\ log[j].name = log[i].name
      BY <1>5, <2>1, <3>1 DEF WatchInv, BornFirst
    <3> QED
      BY <1>5, <3>1, <3>2
  <2> QED
    BY <1>1, <1>5, <2>1 DEF WatchInv, BornFirst
<1>12. NewIsReady'
  BY <1>0, <1>1, <1>5, <1>8 DEF WatchInv, NewIsReady
<1>13. NotesInOrder'
  BY <1>1, <1>6, <1>7 DEF WatchInv, NotesInOrder
<1>14. HeldInv'
  <2>1. \A q \in Held' : ~store[q].exists => ~Named(log', q)
    BY <1>6, <1>7 DEF WatchInv, HeldInv, HoldsNoMore
  <2>2. \A q \in sync'.release \ touched' : ~Ready(store[q])
    BY <1>0, <1>7 DEF WatchInv, HeldInv, HoldsNoMore, Held
  <2> QED
    BY <1>1, <2>1, <2>2 DEF HeldInv
<1> QED
  BY <1>9, <1>10, <1>11, <1>12, <1>13, <1>14 DEF WatchInv

\* The store takes the first event of the watch.
LEMMA Stores ==
    ASSUME WatchTypes, PodStored
    PROVE  \E n, m :
              LET p == log[1].name IN
              /\ Shrinks(log, log', n) /\ p \in Pod /\ log[1].pod \in PodObject
              /\ store' = [store EXCEPT ![p] = log[1].pod]
              /\ Grows(notes, notes', [name |-> p, old |-> store[p], new |-> log[1].pod], m)
<1> DEFINE p == log[1].name
           pod == log[1].pod
           note == [name |-> p, old |-> store[p], new |-> pod]
<1>1. log \in Seq(Event) /\ log # <<>> /\ notes \in Seq(Note) /\ store \in [Pod -> PodObject]
  BY DEF WatchTypes, PodStored
<1>2. Head(log) = log[1] /\ 1 \in DOMAIN log /\ \E n : Shrinks(log, log', n)
  BY <1>1, TailShrinks DEF PodStored
<1>3. log[1] \in Event
  BY <1>1, <1>2, HeadTailProperties
<1>4. p \in Pod /\ pod \in PodObject
  BY <1>3 DEF Event
<1>5. store' = [store EXCEPT ![p] = pod] /\ notes' = Append(notes, note)
  BY <1>2 DEF PodStored
<1>6. note \in Note
  BY <1>1, <1>4 DEF Note
<1> HIDE DEF note
<1>7. \E m : Grows(notes, notes', note, m)
  BY <1>1, <1>5, <1>6, AppendGrows
<1> QED
  BY <1>2, <1>4, <1>5, <1>7 DEF note

LEMMA WatchStored ==
    ASSUME TypeOK, WatchInv, PodStored
    PROVE  WatchInv'
<1> DEFINE p == log[1].name
           pod == log[1].pod
           note == [name |-> p, old |-> store[p], new |-> pod]
<1>1. UNCHANGED <<pods, sync, touched>>
  BY DEF PodStored
<1>2. PICK n, m : /\ Shrinks(log, log', n) /\ p \in Pod /\ pod \in PodObject
                  /\ store' = [store EXCEPT ![p] = pod]
                  /\ Grows(notes, notes', note, m)
  BY Stores DEF TypeOK
<1>3. note.name = p /\ note.old = store[p] /\ note.new = pod
  OBVIOUS
<1> HIDE DEF note
<1>4. /\ n \in Nat /\ DOMAIN log = 1..(n + 1) /\ DOMAIN log' = 1..n
      /\ \A i \in 1..n : i + 1 \in 1..(n + 1) /\ log'[i] = log[i + 1]
      /\ 1 \in 1..(n + 1)
  BY <1>2 DEF Shrinks
<1>5. /\ m \in Nat /\ DOMAIN notes = 1..m /\ DOMAIN notes' = 1..(m + 1)
      /\ \A i \in 1..m : notes'[i] = notes[i]
      /\ notes'[m + 1].name = p /\ notes'[m + 1].old = store[p] /\ notes'[m + 1].new = pod
  BY <1>2, <1>3 DEF Grows
<1>6. store'[p] = pod /\ \A q \in Pod : q # p => store'[q] = store[q]
  BY <1>2 DEF TypeOK, WatchTypes
<1>7. Named(log, p)
  BY <1>4 DEF Named
<1>8. \A q : Named(log', q) => Named(log, q)
  BY <1>4 DEF Named
<1>9. \A i \in 1..n : log'[i].name = p => Before(touched, p, pod, log'[i].pod)
  <2>1. ASSUME NEW i \in 1..n, log'[i].name = p
        PROVE  Before(touched, p, pod, log'[i].pod)
    <3>1. 1 < i + 1 /\ log[i + 1].name = log[1].name /\ i + 1 \in DOMAIN log /\ 1 \in DOMAIN log
      BY <1>4, <2>1
    <3>2. Before(touched, log[1].name, log[1].pod, log[i + 1].pod)
      BY <3>1 DEF WatchInv, InOrder
    <3> QED
      BY <1>4, <3>2
  <2> QED
    BY <2>1
<1>10. Named(log', p) => pod.exists
  BY <1>4, <1>9 DEF Named, Before
<1>11. store[p].exists => Before(touched, p, store[p], pod)
  BY <1>4 DEF WatchInv, InOrder
<1>12. Named(notes, p) => store[p].exists
  BY <1>2, <1>7 DEF WatchInv, NotesInOrder
<1>13. \A i \in 1..n : log'[i].name \in Pod
  BY <1>4, ElementTypes DEF TypeOK
<1> HIDE DEF p, pod
<1>14. LastIsCurrent'
  <2>1. ASSUME NEW q \in Pod
        PROVE  IF Named(log', q) THEN \E i \in DOMAIN log' : IsLast(q, i)'
                                 ELSE store'[q] = pods'[q]
    <3>1. CASE Named(log, q)
      <4>1. PICK k \in DOMAIN log : IsLast(q, k)
        BY <3>1, Current
      <4>2. CASE k = 1
        <5>1. ~Named(log', q)
          BY <1>4, <4>1, <4>2 DEF IsLast, Named
        <5>2. q = p /\ pod = pods[q]
          BY <4>1, <4>2 DEF IsLast, p, pod
        <5> QED
          BY <1>1, <1>6, <5>1, <5>2
      <4>3. CASE k # 1
        <5>1. k - 1 \in DOMAIN log' /\ log'[k - 1] = log[k]
          BY <1>4, <4>1, <4>3
        <5>2. \A j \in DOMAIN log' : j > k - 1 => log'[j].name # q
          BY <1>4, <4>1, <5>1 DEF IsLast
        <5>3. IsLast(q, k - 1)'
          BY <1>1, <4>1, <5>1, <5>2 DEF IsLast
        <5>4. Named(log', q)
          BY <4>1, <5>1 DEF IsLast, Named
        <5> QED
          BY <5>1, <5>3, <5>4
      <4> QED
        BY <4>2, <4>3
    <3>2. CASE ~Named(log, q)
      BY <1>1, <1>6, <1>7, <1>8, <3>2, Current
    <3> QED
      BY <3>1, <3>2
  <2> QED
    BY <2>1 DEF LastIsCurrent
<1>15. InOrder'
  <2>1. ASSUME NEW i \in 1..n, NEW j \in 1..n, i < j, log'[i].name = log'[j].name
        PROVE  Before(touched, log'[i].name, log'[i].pod, log'[j].pod)
    <3>1. i + 1 < j + 1 /\ i + 1 \in DOMAIN log /\ j + 1 \in DOMAIN log
      BY <1>4, <2>1
    <3> QED
      BY <1>4, <2>1, <3>1 DEF WatchInv, InOrder
  <2>2. ASSUME NEW i \in 1..n, store'[log'[i].name].exists
        PROVE  Before(touched, log'[i].name, store'[log'[i].name], log'[i].pod)
    <3>1. CASE log'[i].name = p
      BY <1>6, <1>9, <3>1
    <3>2. CASE log'[i].name # p
      <4>1. store[log'[i].name].exists /\ store'[log'[i].name] = store[log'[i].name]
        BY <1>6, <1>13, <2>2, <3>2
      <4> QED
        BY <1>4, <4>1 DEF WatchInv, InOrder
    <3> QED
      BY <3>1, <3>2
  <2> QED
    BY <1>1, <1>4, <2>1, <2>2 DEF InOrder
<1>16. BornFirst'
  <2>1. ASSUME NEW i \in 1..n, ~store'[log'[i].name].exists, ~log'[i].pod.exists
        PROVE  \E j \in 1..n : j < i /\ log'[j].name = log'[i].name
    <3>1. log'[i].name # p
      BY <1>4, <1>6, <1>10, <2>1 DEF Named
    <3>2. ~store[log[i + 1].name].exists /\ ~log[i + 1].pod.exists
      BY <1>4, <1>6, <1>13, <2>1, <3>1
    <3>3. PICK j \in 1..(n + 1) : j < i + 1 /\ log[j].name = log[i + 1].name
      BY <1>4, <3>2 DEF WatchInv, BornFirst
    <3>4. j # 1
      BY <1>4, <3>1, <3>3 DEF p
    <3>5. j - 1 \in 1..n /\ j - 1 < i /\ log'[j - 1] = log[j]
      BY <1>4, <3>3, <3>4
    <3> QED
      BY <1>4, <3>3, <3>5
  <2>2. store[p].exists \/ pod.exists
    BY <1>4 DEF WatchInv, BornFirst, p, pod
  <2>3. \A i \in 1..(m + 1) : notes'[i].old.exists \/ notes'[i].new.exists
    BY <1>5, <2>2 DEF WatchInv, BornFirst
  <2> QED
    BY <1>4, <1>5, <2>1, <2>3 DEF BornFirst
<1>17. NewIsReady'
  <2>1. ASSUME NEW i \in 1..n, ~store'[log'[i].name].exists, log'[i].name \notin touched
        PROVE  Ready(log'[i].pod)
    <3>1. log'[i].name # p
      BY <1>4, <1>6, <1>10, <2>1 DEF Named
    <3> QED
      BY <1>4, <1>6, <1>13, <2>1, <3>1 DEF WatchInv, NewIsReady
  <2> QED
    BY <1>1, <1>4, <2>1 DEF NewIsReady
<1>18. NotesInOrder'
  <2>1. \A q : Named(notes', q) => Named(notes, q) \/ q = p
    BY <1>5 DEF Named
  <2>2. ASSUME NEW q \in Pod, ~store'[q].exists, Named(notes', q)
        PROVE  ~Named(log', q)
    BY <1>6, <1>8, <1>10, <2>1, <2>2 DEF WatchInv, NotesInOrder
  <2>3. ASSUME NEW i \in 1..(m + 1), NEW j \in 1..(m + 1), i < j, notes'[i].name = notes'[j].name
        PROVE  notes'[j].old.exists
    <3>1. CASE j = m + 1
      <4>1. i \in 1..m
        BY <1>5, <2>3, <3>1
      <4>2. Named(notes, p)
        BY <1>5, <2>3, <3>1, <4>1 DEF Named
      <4> QED
        BY <1>5, <1>12, <3>1, <4>2
    <3>2. CASE j \in 1..m
      <4>1. i \in 1..m
        BY <1>5, <2>3, <3>2
      <4> QED
        BY <1>5, <2>3, <3>2, <4>1 DEF WatchInv, NotesInOrder
    <3> QED
      BY <1>5, <3>1, <3>2
  <2>4. ASSUME NEW i \in 1..(m + 1), Doomed(notes'[i].new)
        PROVE  Doomed(store'[notes'[i].name])
    <3>1. CASE i = m + 1
      BY <1>5, <1>6, <2>4, <3>1
    <3>2. CASE i \in 1..m
      <4>1. Doomed(store[notes[i].name])
        BY <1>5, <2>4, <3>2 DEF WatchInv, NotesInOrder
      <4>2. CASE notes[i].name = p
        <5>1. store[p].exists
          BY <1>5, <1>12, <3>2, <4>2 DEF Named
        <5> QED
          BY <1>5, <1>6, <1>11, <3>2, <4>1, <4>2, <5>1 DEF Before, Doomed
      <4>3. CASE notes[i].name # p
        <5>1. notes[i].name \in Pod
          BY <1>5, <3>2, ElementTypes DEF TypeOK
        <5> QED
          BY <1>5, <1>6, <3>2, <4>1, <4>3, <5>1
      <4> QED
        BY <4>2, <4>3
    <3> QED
      BY <1>5, <3>1, <3>2
  <2> QED
    BY <1>5, <2>2, <2>3, <2>4 DEF NotesInOrder
<1>19. HeldInv'
  <2>1. Held \subseteq Pod /\ Held' = Held
    BY <1>1 DEF Held, TypeOK, Sync
  <2>2. ASSUME NEW q \in Held, ~store'[q].exists
        PROVE  ~Named(log', q)
    BY <1>6, <1>8, <1>10, <2>1, <2>2 DEF WatchInv, HeldInv
  <2>3. ASSUME NEW q \in sync.release \ touched
        PROVE  ~Ready(store'[q])
    <3>1. q \in Held /\ ~Ready(store[q])
      BY DEF Held, WatchInv, HeldInv
    <3>2. CASE q = p
      <4>1. store[p].exists
        BY <1>7, <3>1, <3>2 DEF WatchInv, HeldInv
      <4> QED
        BY <1>6, <1>11, <2>3, <3>1, <3>2, <4>1 DEF Before, Leads
    <3>3. CASE q # p
      BY <1>6, <2>1, <3>1, <3>3
    <3> QED
      BY <3>2, <3>3
  <2> QED
    BY <1>1, <2>1, <2>2, <2>3 DEF HeldInv
<1> QED
  BY <1>14, <1>15, <1>16, <1>17, <1>18, <1>19 DEF WatchInv

LEMMA WatchRelisted ==
    ASSUME TypeOK, WatchInv, PodsRelisted
    PROVE  WatchInv'
<1>1. UNCHANGED <<pods, sync, touched>> /\ store' = pods /\ log' = <<>>
  BY DEF PodsRelisted
<1>2. DOMAIN log' = {} /\ \A q : ~Named(log', q)
  BY <1>1 DEF Named
<1>3. LastIsCurrent' /\ InOrder' /\ NewIsReady'
  BY <1>1, <1>2 DEF LastIsCurrent, InOrder, NewIsReady
<1>4. PICK n \in Nat, m \in Nat :
         /\ DOMAIN notes = 1..n /\ DOMAIN notes' = 1..(n + m)
         /\ \A i \in 1..n : notes'[i] = notes[i]
         /\ \A i \in (n + 1)..(n + m) :
               \E p \in Pod : /\ store[p] # pods[p]
                              /\ notes'[i] = [name |-> p, old |-> store[p], new |-> pods[p]]
         /\ \A i, j \in (n + 1)..(n + m) : i # j => notes'[i].name # notes'[j].name
  BY RelistTells DEF TypeOK
<1>5. \A i \in 1..(n + m) : i \in 1..n \/ i \in (n + 1)..(n + m)
  BY <1>4
<1>6. ASSUME NEW i \in (n + 1)..(n + m)
      PROVE  LET p == notes'[i].name IN
             /\ p \in Pod /\ store[p] # pods[p] /\ Named(log, p)
             /\ notes'[i].old = store[p] /\ notes'[i].new = pods[p]
  <2>1. PICK p \in Pod : /\ store[p] # pods[p]
                         /\ notes'[i] = [name |-> p, old |-> store[p], new |-> pods[p]]
    BY <1>4
  <2>2. notes'[i].name = p /\ notes'[i].old = store[p] /\ notes'[i].new = pods[p]
    BY <2>1
  <2> QED
    BY <2>1, <2>2, Current
<1>7. BornFirst'
  <2>1. ASSUME NEW i \in 1..(n + m)
        PROVE  notes'[i].old.exists \/ notes'[i].new.exists
    <3>1. CASE i \in 1..n
      BY <1>4, <3>1 DEF WatchInv, BornFirst
    <3>2. CASE i \in (n + 1)..(n + m)
      <4>1. \A pod \in PodObject : pod.exists \/ pod = NoPod
        BY DEF PodObject
      <4>2. notes'[i].old \in PodObject /\ notes'[i].new \in PodObject
        BY <1>6, <3>2 DEF TypeOK, WatchTypes
      <4> QED
        BY <1>6, <3>2, <4>1, <4>2
    <3> QED
      BY <1>5, <3>1, <3>2
  <2> QED
    BY <1>2, <1>4, <2>1 DEF BornFirst
<1>8. ASSUME NEW q \in Pod, Doomed(store[q]), Named(notes, q) PROVE Doomed(pods[q])
  <2>1. CASE store[q].exists
    BY <1>8, <2>1, LeadsToCurrent DEF TypeOK, Before, Doomed
  <2>2. CASE ~store[q].exists
    BY <1>8, <2>2, Current DEF WatchInv, NotesInOrder
  <2> QED
    BY <2>1, <2>2
<1>9. NotesInOrder'
  <2>1. ASSUME NEW i \in 1..(n + m), NEW j \in 1..(n + m), i < j, notes'[i].name = notes'[j].name
        PROVE  notes'[j].old.exists
    <3>1. CASE j \in 1..n
      <4>1. i \in 1..n
        BY <1>4, <2>1, <3>1
      <4> QED
        BY <1>4, <2>1, <3>1, <4>1 DEF WatchInv, NotesInOrder
    <3>2. CASE j \in (n + 1)..(n + m) /\ i \in 1..n
      <4>1. Named(notes, notes'[j].name)
        BY <1>4, <2>1, <3>2 DEF Named
      <4> QED
        BY <1>6, <3>2, <4>1 DEF WatchInv, NotesInOrder
    <3>3. CASE j \in (n + 1)..(n + m) /\ i \in (n + 1)..(n + m)
      BY <1>4, <2>1, <3>3
    <3> QED
      BY <1>5, <3>1, <3>2, <3>3
  <2>2. ASSUME NEW i \in 1..(n + m), Doomed(notes'[i].new)
        PROVE  Doomed(pods[notes'[i].name])
    <3>1. CASE i \in 1..n
      <4>1. notes[i].name \in Pod /\ Named(notes, notes[i].name)
        BY <1>4, <3>1, ElementTypes DEF TypeOK, Named
      <4>2. Doomed(store[notes[i].name])
        BY <1>4, <2>2, <3>1 DEF WatchInv, NotesInOrder
      <4> QED
        BY <1>4, <1>8, <3>1, <4>1, <4>2
    <3>2. CASE i \in (n + 1)..(n + m)
      BY <1>6, <2>2, <3>2
    <3> QED
      BY <1>5, <3>1, <3>2
  <2> QED
    BY <1>1, <1>2, <1>4, <2>1, <2>2 DEF NotesInOrder
<1>10. HeldInv'
  <2>1. ASSUME NEW q \in sync.release \ touched
        PROVE  ~Ready(pods[q])
    <3>1. q \in Held /\ q \in Pod /\ ~Ready(store[q])
      BY DEF Held, WatchInv, HeldInv, TypeOK, Sync
    <3>2. CASE store[q].exists
      BY <2>1, <3>1, <3>2, LeadsToCurrent DEF TypeOK, Before, Leads
    <3>3. CASE ~store[q].exists
      BY <3>1, <3>3, Current DEF WatchInv, HeldInv
    <3> QED
      BY <3>2, <3>3
  <2> QED
    BY <1>1, <1>2, <2>1 DEF HeldInv
<1> QED
  BY <1>3, <1>7, <1>9, <1>10 DEF WatchInv

LEMMA InitWatch ==
    ASSUME Init
    PROVE  WatchInv
<1>1. log = <<>> /\ notes = <<>> /\ store = pods /\ sync = Idle
  BY DEF Init
<1>2. DOMAIN log = {} /\ DOMAIN notes = {} /\ Held = {} /\ sync.release = {}
  BY <1>1, IdleType DEF Held
<1> QED
  BY <1>1, <1>2 DEF WatchInv, LastIsCurrent, InOrder, BornFirst, NewIsReady, NotesInOrder, HeldInv,
                    Named

-----------------------------------------------------------------------------
(***************************************************************************)
(* What each kind of step does to the watch, to the creations that nobody  *)
(* has heard of and to the deletions that the store does not show          *)
(***************************************************************************)
LEMMA HeldIsStored ==
    ASSUME WatchInv, NEW p \in Pod, p \in Held, pods[p].exists
    PROVE  store[p].exists
  BY Current DEF WatchInv, HeldInv

\* Nothing happens at the API server or in the watch.
LEMMA NothingHappens ==
    ASSUME TypeOK, WatchInv, Untouched, touched \subseteq touched', HoldsNoMore
    PROVE  WatchInv' /\ Unheard' \subseteq Unheard /\ Fading' \subseteq Fading
<1>1. UNCHANGED <<pods, log, store, notes>>
  BY DEF Untouched, watch
<1>2. WatchInv'
  BY <1>1, WatchStays
<1>3. Unheard' \subseteq Unheard
  BY <1>1 DEF Unheard
<1>4. Fading' \subseteq Fading
  BY <1>1 DEF Fading
<1> QED
  BY <1>2, <1>3, <1>4

LEMMA ListSeesAll ==
    ASSUME TypeOK, WatchInv, ListPods
    PROVE  Unheard' \subseteq Unheard /\ Fading' \subseteq Fading
<1>1. UNCHANGED <<pods, log, store, notes>> /\ touched' = {p \in touched : Named(log, p)}
  BY Lists DEF Untouched, watch
<1>2. Unheard' \subseteq Unheard
  BY <1>1 DEF Unheard
<1>3. ASSUME NEW p \in Fading'
      PROVE  p \in Fading
  <2>1. p \in Pod \ touched' /\ Ready(store[p]) /\ ~Ready(pods[p])
    BY <1>1 DEF Fading
  <2>2. Named(log, p)
    BY <2>1, Current
  <2> QED
    BY <1>1, <2>1, <2>2 DEF Fading
<1> QED
  BY <1>2, <1>3

LEMMA ChangeIsHeard ==
    ASSUME TypeOK, WatchInv, NEW p \in Pod, NEW pod \in PodObject, Changes(p, pod)
    PROVE  /\ Unheard' \subseteq Unheard
           /\ Fading' \subseteq Fading \cup {p}
           /\ p \in touched' \/ (Ready(pods[p]) => Ready(pod)) => Fading' \subseteq Fading
<1>0. /\ StorePod(p, pod) /\ pods[p].exists /\ touched \subseteq touched'
      /\ store[p].exists \/ (pod.exists /\ pod.owned => pods[p].owned)
  BY DEF Changes
<1> DEFINE e == [name |-> p, pod |-> pod]
<1>1. /\ pods' = [pods EXCEPT ![p] = pod] /\ log' = Append(log, e)
      /\ UNCHANGED <<store, notes>>
  BY <1>0 DEF StorePod
<1>2. pods \in [Pod -> PodObject] /\ log \in Seq(Event) /\ e \in Event
  BY DEF TypeOK, WatchTypes, Event
<1>3. e.name = p /\ e.pod = pod
  OBVIOUS
<1> HIDE DEF e
<1>4. PICK n : Grows(log, log', e, n)
  BY <1>1, <1>2, AppendGrows
<1>5. /\ n \in Nat /\ DOMAIN log = 1..n /\ DOMAIN log' = 1..(n + 1)
      /\ \A i \in 1..(n + 1) : i \in 1..n \/ i = n + 1
      /\ \A i \in 1..n : log'[i] = log[i]
      /\ log'[n + 1].name = p /\ log'[n + 1].pod = pod
  BY <1>3, <1>4 DEF Grows
<1>6. /\ pods'[p] = pod
      /\ \A q \in Pod : q # p => pods'[q] = pods[q]
  BY <1>1, <1>2
<1>7. ASSUME ~store[p].exists, pod.exists, pod.owned
      PROVE  p \in Unheard
  <2>1. pods[p].owned
    BY <1>0, <1>7
  <2>2. PICK k \in DOMAIN log : IsLast(p, k)
    BY <1>0, <1>7, Current
  <2> QED
    BY <1>0, <1>7, <2>1, <2>2 DEF IsLast, Unheard
<1>8. ASSUME NEW q \in Unheard'
      PROVE  q \in Unheard
  <2>1. CASE /\ ~store[q].exists
             /\ \E i \in DOMAIN log' : log'[i].name = q /\ log'[i].pod.exists /\ log'[i].pod.owned
    <3>1. PICK i \in 1..(n + 1) : log'[i].name = q /\ log'[i].pod.exists /\ log'[i].pod.owned
      BY <1>5, <2>1
    <3>2. CASE i \in 1..n
      BY <1>5, <1>8, <2>1, <3>1, <3>2 DEF Unheard
    <3>3. CASE i = n + 1
      BY <1>5, <1>7, <2>1, <3>1, <3>3
    <3> QED
      BY <1>5, <3>2, <3>3
  <2>2. CASE \E i \in DOMAIN notes : /\ notes[i].name = q
                                     /\ ~notes[i].old.exists
                                     /\ notes[i].new.exists /\ notes[i].new.owned
    BY <1>8, <2>2 DEF Unheard
  <2> QED
    BY <1>1, <1>8, <2>1, <2>2 DEF Unheard
<1>9. ASSUME NEW q \in Fading', q # p
      PROVE  q \in Fading
  BY <1>0, <1>1, <1>6, <1>9 DEF Fading
<1>10. ASSUME p \in touched' \/ (Ready(pods[p]) => Ready(pod)), p \in Fading'
       PROVE  p \in Fading
  BY <1>0, <1>1, <1>6, <1>10 DEF Fading
<1> QED
  BY <1>8, <1>9, <1>10

LEMMA BirthIsExpected ==
    ASSUME TypeOK, WatchInv, NEW p \in Pod, NEW pod \in PodObject, Born(p, pod)
    PROVE  /\ Unheard' \subseteq Unheard \cup {p}
           /\ ~pod.owned => Unheard' \subseteq Unheard
           /\ Fading' \subseteq Fading
<1>0. StorePod(p, pod) /\ Free(p) /\ touched \ {p} \subseteq touched' /\ ~store[p].exists
  BY DEF Born, Free
<1> DEFINE e == [name |-> p, pod |-> pod]
<1>1. /\ pods' = [pods EXCEPT ![p] = pod] /\ log' = Append(log, e)
      /\ UNCHANGED <<store, notes>>
  BY <1>0 DEF StorePod
<1>2. pods \in [Pod -> PodObject] /\ log \in Seq(Event) /\ e \in Event
  BY DEF TypeOK, WatchTypes, Event
<1>3. e.name = p /\ e.pod = pod
  OBVIOUS
<1> HIDE DEF e
<1>4. PICK n : Grows(log, log', e, n)
  BY <1>1, <1>2, AppendGrows
<1>5. /\ n \in Nat /\ DOMAIN log = 1..n /\ DOMAIN log' = 1..(n + 1)
      /\ \A i \in 1..(n + 1) : i \in 1..n \/ i = n + 1
      /\ \A i \in 1..n : log'[i] = log[i]
      /\ log'[n + 1].name = p /\ log'[n + 1].pod = pod
  BY <1>3, <1>4 DEF Grows
<1>6. \A q \in Pod : q # p => pods'[q] = pods[q]
  BY <1>1, <1>2
<1>7. ASSUME NEW q \in Unheard', q # p \/ ~pod.owned
      PROVE  q \in Unheard
  BY <1>1, <1>5, <1>7 DEF Unheard
<1>8. ASSUME NEW q \in Fading'
      PROVE  q \in Fading
  <2>1. q \in Pod \ touched' /\ Ready(store[q]) /\ ~Ready(pods'[q])
    BY <1>1 DEF Fading
  <2>2. q # p
    BY <1>0, <2>1 DEF Ready, IsPodActive
  <2> QED
    BY <1>0, <1>6, <2>1, <2>2 DEF Fading
<1> QED
  BY <1>7, <1>8

LEMMA StoreShowsMore ==
    ASSUME TypeOK, WatchInv, PodStored
    PROVE  Unheard' \subseteq Unheard /\ Fading' \subseteq Fading
<1> DEFINE p == log[1].name
           pod == log[1].pod
           note == [name |-> p, old |-> store[p], new |-> pod]
<1>1. UNCHANGED <<pods, touched>>
  BY DEF PodStored
<1>2. PICK n, m : /\ Shrinks(log, log', n) /\ p \in Pod /\ pod \in PodObject
                  /\ store' = [store EXCEPT ![p] = pod]
                  /\ Grows(notes, notes', note, m)
  BY Stores DEF TypeOK
<1>3. note.name = p /\ note.old = store[p] /\ note.new = pod
  OBVIOUS
<1> HIDE DEF note
<1>4. /\ n \in Nat /\ DOMAIN log = 1..(n + 1) /\ DOMAIN log' = 1..n
      /\ \A i \in 1..n : 1 < i + 1 /\ i + 1 \in 1..(n + 1) /\ log'[i] = log[i + 1]
      /\ 1 \in 1..(n + 1)
  BY <1>2 DEF Shrinks
<1>5. /\ m \in Nat /\ DOMAIN notes = 1..m /\ DOMAIN notes' = 1..(m + 1)
      /\ \A i \in 1..(m + 1) : i \in 1..m \/ i = m + 1
      /\ \A i \in 1..m : notes'[i] = notes[i]
      /\ notes'[m + 1].name = p /\ notes'[m + 1].old = store[p] /\ notes'[m + 1].new = pod
  BY <1>2, <1>3 DEF Grows
<1>6. store'[p] = pod /\ \A q \in Pod : q # p => store'[q] = store[q]
  BY <1>2 DEF TypeOK, WatchTypes
<1>7. \A i \in 1..n : log'[i].name = p => pod.exists
  BY <1>4 DEF WatchInv, InOrder, Before
<1>8. ~store[p].exists /\ pod.exists /\ pod.owned => p \in Unheard
  BY <1>2, <1>4 DEF Unheard
<1>9. ASSUME p \notin touched, Ready(pod), ~Ready(pods[p])
      PROVE  Ready(store[p])
  <2>1. CASE store[p].exists
    BY <1>4, <1>9, <2>1 DEF WatchInv, InOrder, Before, Leads
  <2>2. CASE ~store[p].exists
    <3>1. PICK k \in DOMAIN log : IsLast(p, k)
      BY <1>2, <1>4, Current DEF Named
    <3> QED
      BY <1>9, <2>2, <3>1 DEF IsLast, WatchInv, NewIsReady
  <2> QED
    BY <2>1, <2>2
<1> HIDE DEF p, pod
<1>10. ASSUME NEW q \in Unheard'
       PROVE  q \in Unheard
  <2>0. q \in Pod
    BY DEF Unheard
  <2>1. CASE /\ ~store'[q].exists
             /\ \E i \in DOMAIN log' : log'[i].name = q /\ log'[i].pod.exists /\ log'[i].pod.owned
    <3>1. PICK i \in 1..n : log'[i].name = q /\ log'[i].pod.exists /\ log'[i].pod.owned
      BY <1>4, <2>1
    <3>2. q # p
      BY <1>6, <1>7, <2>1, <3>1
    <3>3. ~store[q].exists
      BY <1>6, <2>0, <2>1, <3>2
    <3>4. i + 1 \in DOMAIN log /\ log'[i] = log[i + 1]
      BY <1>4
    <3>5. log[i + 1].name = q /\ log[i + 1].pod.exists /\ log[i + 1].pod.owned
      BY <3>1, <3>4
    <3> QED
      BY <2>0, <3>3, <3>4, <3>5 DEF Unheard
  <2>2. CASE \E i \in DOMAIN notes' : /\ notes'[i].name = q
                                      /\ ~notes'[i].old.exists
                                      /\ notes'[i].new.exists /\ notes'[i].new.owned
    <3>1. PICK i \in 1..(m + 1) : /\ notes'[i].name = q /\ ~notes'[i].old.exists
                                  /\ notes'[i].new.exists /\ notes'[i].new.owned
      BY <1>5, <2>2
    <3>2. CASE i \in 1..m
      BY <1>5, <2>0, <3>1, <3>2 DEF Unheard
    <3>3. CASE i = m + 1
      BY <1>5, <1>8, <3>1, <3>3
    <3> QED
      BY <1>5, <3>2, <3>3
  <2> QED
    BY <2>1, <2>2 DEF Unheard
<1>11. ASSUME NEW q \in Fading'
       PROVE  q \in Fading
  <2>1. q \in Pod \ touched /\ Ready(store'[q]) /\ ~Ready(pods[q])
    BY <1>1 DEF Fading
  <2>2. Ready(store[q])
    BY <1>6, <1>9, <2>1
  <2> QED
    BY <2>1, <2>2 DEF Fading
<1> QED
  BY <1>10, <1>11

LEMMA RelistShowsAll ==
    ASSUME TypeOK, WatchInv, PodsRelisted
    PROVE  Unheard' \subseteq Unheard /\ Fading' \subseteq Fading
<1>1. UNCHANGED <<pods, touched>> /\ store' = pods /\ log' = <<>>
  BY DEF PodsRelisted
<1>2. PICK n \in Nat, m \in Nat :
         /\ DOMAIN notes = 1..n /\ DOMAIN notes' = 1..(n + m)
         /\ \A i \in 1..n : notes'[i] = notes[i]
         /\ \A i \in (n + 1)..(n + m) :
               \E p \in Pod : /\ store[p] # pods[p]
                              /\ notes'[i] = [name |-> p, old |-> store[p], new |-> pods[p]]
  BY RelistTells DEF TypeOK
<1>3. \A i \in 1..(n + m) : i \in 1..n \/ i \in (n + 1)..(n + m)
  BY <1>2
<1>4. Fading' \subseteq Fading
  BY <1>1 DEF Fading
<1>5. ASSUME NEW q \in Unheard'
      PROVE  q \in Unheard
  <2>0. q \in Pod
    BY DEF Unheard
  <2>1. PICK i \in DOMAIN notes' : /\ notes'[i].name = q /\ ~notes'[i].old.exists
                                   /\ notes'[i].new.exists /\ notes'[i].new.owned
    BY <1>1 DEF Unheard
  <2>2. CASE i \in 1..n
    BY <1>2, <2>0, <2>1, <2>2 DEF Unheard
  <2>3. CASE i \in (n + 1)..(n + m)
    <3>1. PICK p \in Pod : /\ store[p] # pods[p]
                           /\ notes'[i] = [name |-> p, old |-> store[p], new |-> pods[p]]
      BY <1>2, <2>3
    <3>2. p = q /\ ~store[q].exists /\ pods[q].exists /\ pods[q].owned /\ store[q] # pods[q]
      BY <2>1, <3>1
    <3>3. PICK k \in DOMAIN log : IsLast(q, k)
      BY <2>0, <3>2, Current
    <3> QED
      BY <2>0, <3>2, <3>3 DEF IsLast, Unheard
  <2> QED
    BY <1>2, <1>3, <2>1, <2>2, <2>3
<1> QED
  BY <1>4, <1>5

\* A handler that hears of a creation hears of it once.
LEMMA HeardOnce ==
    ASSUME TypeOK, WatchInv, HandlePod
    PROVE  LET n == Head(notes) IN
           /\ WatchInv' /\ Unheard' \subseteq Unheard /\ Fading' \subseteq Fading
           /\ n.name \in Pod
           /\ Doomed(n.new) => Doomed(store[n.name])
           /\ ~n.old.exists /\ n.new.owned => n.name \in Unheard /\ Unheard' \subseteq Unheard \ {n.name}
<1>1. /\ notes # <<>> /\ notes' = Tail(notes) /\ notes \in Seq(Note)
      /\ UNCHANGED <<pods, log, store, sync, touched>>
  BY Handles DEF TypeOK, WatchTypes
<1>2. WatchInv'
  <2>1. HoldsNoMore
    BY <1>1 DEF HoldsNoMore, Held
  <2> QED
    BY <1>1, <2>1, WatchStays
<1>3. /\ Head(notes) = notes[1] /\ 1 \in DOMAIN notes
      /\ \E k : Shrinks(notes, notes', k)
  BY <1>1, TailShrinks
<1>4. PICK k : Shrinks(notes, notes', k)
  BY <1>3
<1>5. \A i \in DOMAIN notes' : i + 1 \in DOMAIN notes /\ notes'[i] = notes[i + 1] /\ 1 < i + 1
  BY <1>4 DEF Shrinks
<1>6. Unheard' \subseteq Unheard
  BY <1>1, <1>5 DEF Unheard
<1>7. Fading' \subseteq Fading
  BY <1>1 DEF Fading
<1>8. notes[1].name \in Pod /\ (Doomed(notes[1].new) => Doomed(store[notes[1].name]))
  BY <1>3, ElementTypes DEF TypeOK, WatchInv, NotesInOrder
<1>9. ASSUME ~notes[1].old.exists, notes[1].new.owned
      PROVE  notes[1].name \in Unheard /\ notes[1].name \notin Unheard'
  <2>1. notes[1].new.exists
    BY <1>3, <1>9 DEF WatchInv, BornFirst
  <2>2. notes[1].name \in Unheard
    BY <1>3, <1>8, <1>9, <2>1 DEF Unheard
  <2>3. ~store[notes[1].name].exists => ~Named(log, notes[1].name)
    BY <1>3, <1>8 DEF WatchInv, NotesInOrder, Named
  <2>4. \A i \in DOMAIN notes' : notes'[i].name = notes[1].name => notes'[i].old.exists
    BY <1>3, <1>5 DEF WatchInv, NotesInOrder
  <2>5. notes[1].name \notin Unheard'
    BY <1>1, <2>3, <2>4 DEF Unheard, Named
  <2> QED
    BY <2>2, <2>5
<1> QED
  BY <1>2, <1>3, <1>6, <1>7, <1>8, <1>9

\* What others and the informers do leaves the pods that nobody touched as they are.
Steady ==
    /\ UNCHANGED sync /\ touched \subseteq touched'
    /\ \A p \in Pod \ touched' : /\ Ready(pods'[p]) <=> Ready(pods[p])
                                 /\ Replica(pods'[p]) <=> Replica(pods[p])

LEMMA RemovalWatched ==
    ASSUME TypeOK, WatchInv, PodRemoved
    PROVE  WatchInv' /\ Unheard' \subseteq Unheard /\ Fading' \subseteq Fading /\ Steady
<1>1. PICK p \in Pod : pods[p].exists /\ pods[p].deleting /\ StorePod(p, NoPod)
  BY DEF PodRemoved
<1>2. UNCHANGED <<sync, touched>> /\ HoldsNoMore
  BY DEF PodRemoved, HoldsNoMore, Held
<1>3. NoPod \in PodObject /\ ~NoPod.exists /\ ~Ready(NoPod) /\ Doomed(NoPod) /\ ~Replica(NoPod)
  BY PodTypes DEF Ready, IsPodActive, Doomed, Replica
<1>4. ~Ready(pods[p]) /\ ~Replica(pods[p])
  BY <1>1 DEF Ready, IsPodActive, Replica
<1>5. p \notin touched => store[p].exists
  <2>1. ASSUME p \notin touched, ~store[p].exists
        PROVE  FALSE
    <3>1. PICK k \in DOMAIN log : IsLast(p, k)
      BY <1>1, <2>1, Current
    <3> QED
      BY <1>4, <2>1, <3>1 DEF IsLast, WatchInv, NewIsReady
  <2> QED
    BY <2>1
<1>6. Changes(p, NoPod)
  BY <1>1, <1>2, <1>3, <1>5 DEF Changes, Leads
<1>7. WatchInv'
  BY <1>2, <1>3, <1>6, WatchChanged
<1>8. Unheard' \subseteq Unheard /\ Fading' \subseteq Fading
  BY <1>3, <1>4, <1>6, ChangeIsHeard
<1>9. \A q \in Pod : IF q = p THEN pods'[q] = NoPod ELSE pods'[q] = pods[q]
  BY <1>1 DEF StorePod, TypeOK, WatchTypes
<1>10. Steady
  BY <1>2, <1>3, <1>4, <1>9 DEF Steady
<1> QED
  BY <1>7, <1>8, <1>10

LEMMA ChangeWatched ==
    ASSUME TypeOK, WatchInv, PodChanges
    PROVE  WatchInv' /\ Unheard' \subseteq Unheard /\ Fading' \subseteq Fading /\ Steady
<1>1. PICK p \in Pod :
        /\ \/ Free(p) /\ StorePod(p, [NewPod EXCEPT !.owned = FALSE])
           \/ pods[p].exists /\ pods[p].up /\ StorePod(p, [pods[p] EXCEPT !.up = FALSE])
           \/ pods[p].exists /\ StorePod(p, [pods[p] EXCEPT !.match = ~@])
           \/ pods[p].exists /\ ~pods[p].deleting /\ StorePod(p, [pods[p] EXCEPT !.deleting = TRUE])
           \/ pods[p].exists /\ StorePod(p, NoPod)
        /\ touched' = touched \cup {p}
  BY DEF PodChanges
<1>2. UNCHANGED sync /\ HoldsNoMore /\ touched \subseteq touched' /\ p \in touched'
  BY <1>1 DEF PodChanges, HoldsNoMore, Held
<1>3. ASSUME NEW pod, StorePod(p, pod)
      PROVE  Steady
  <2>1. \A q \in Pod : q # p => pods'[q] = pods[q]
    BY <1>3 DEF StorePod, TypeOK, WatchTypes
  <2> QED
    BY <1>2, <2>1 DEF Steady
<1>4. CASE Free(p) /\ StorePod(p, [NewPod EXCEPT !.owned = FALSE])
  <2> DEFINE pod == [NewPod EXCEPT !.owned = FALSE]
  <2>1. pod \in PodObject /\ Ready(pod) /\ ~pod.owned
    BY PodTypes DEF NewPod, Ready, IsPodActive
  <2> HIDE DEF pod
  <2>2. Born(p, pod)
    BY <1>2, <1>4, <2>1 DEF Born, pod
  <2>3. WatchInv'
    BY <1>2, <2>1, <2>2, WatchBorn
  <2>4. Unheard' \subseteq Unheard /\ Fading' \subseteq Fading
    BY <2>1, <2>2, BirthIsExpected
  <2> QED
    BY <1>3, <1>4, <2>3, <2>4
<1>5. ASSUME NEW pod \in PodObject, StorePod(p, pod), pods[p].exists,
             pods[p].deleting => Doomed(pod),
             pod.exists /\ pod.owned => pods[p].owned
      PROVE  WatchInv' /\ Unheard' \subseteq Unheard /\ Fading' \subseteq Fading /\ Steady
  <2>1. Changes(p, pod)
    BY <1>2, <1>5 DEF Changes
  <2>2. WatchInv'
    BY <1>2, <2>1, WatchChanged
  <2>3. Unheard' \subseteq Unheard /\ Fading' \subseteq Fading
    BY <1>2, <2>1, ChangeIsHeard
  <2> QED
    BY <1>3, <1>5, <2>2, <2>3
<1>6. ASSUME pods[p].exists
      PROVE  /\ pods[p] \in PodObject
             /\ pods[p] \in [exists : {TRUE}, owned : BOOLEAN, match : BOOLEAN, up : BOOLEAN,
                             deleting : BOOLEAN]
  <2>1. pods[p] \in PodObject
    BY DEF TypeOK, WatchTypes
  <2> QED
    BY <1>6, <2>1, PodFacts
<1>7. CASE pods[p].exists /\ StorePod(p, [pods[p] EXCEPT !.up = FALSE])
  <2> DEFINE pod == [pods[p] EXCEPT !.up = FALSE]
  <2>1. pod \in PodObject
    BY <1>6, <1>7, PodTypes
  <2>2. pod.deleting = pods[p].deleting /\ pod.owned = pods[p].owned
    BY <1>6, <1>7
  <2> HIDE DEF pod
  <2> QED
    BY <1>5, <1>7, <2>1, <2>2 DEF Doomed, pod
<1>8. CASE pods[p].exists /\ StorePod(p, [pods[p] EXCEPT !.match = ~@])
  <2> DEFINE pod == [pods[p] EXCEPT !.match = ~@]
  <2>1. pod \in PodObject
    BY <1>6, <1>8, PodTypes
  <2>2. pod.deleting = pods[p].deleting /\ pod.owned = pods[p].owned
    BY <1>6, <1>8
  <2>3. StorePod(p, pod)
    BY <1>8
  <2> HIDE DEF pod
  <2> QED
    BY <1>5, <1>8, <2>1, <2>2, <2>3 DEF Doomed
<1>9. CASE pods[p].exists /\ StorePod(p, [pods[p] EXCEPT !.deleting = TRUE])
  <2> DEFINE pod == [pods[p] EXCEPT !.deleting = TRUE]
  <2>1. pod \in PodObject
    BY <1>6, <1>9, PodTypes
  <2>2. pod.deleting /\ pod.owned = pods[p].owned
    BY <1>6, <1>9
  <2>3. StorePod(p, pod)
    BY <1>9
  <2> HIDE DEF pod
  <2> QED
    BY <1>5, <1>9, <2>1, <2>2, <2>3 DEF Doomed
<1>10. CASE pods[p].exists /\ StorePod(p, NoPod)
  BY <1>5, <1>10, PodTypes DEF Doomed
<1> QED
  BY <1>1, <1>4, <1>7, <1>8, <1>9, <1>10

LEMMA EnvironmentWatched ==
    ASSUME TypeOK, WatchInv,
           \/ HandlePod \/ HandleRS \/ Resync \/ Expires \/ PodStored \/ PodsRelisted
           \/ RSStored \/ PodRemoved \/ PodChanges \/ RSChanges
    PROVE  WatchInv' /\ Unheard' \subseteq Unheard /\ Fading' \subseteq Fading /\ Steady
<1>1. CASE HandleRS \/ Resync \/ Expires \/ RSStored \/ RSChanges
  <2>1. Untouched /\ UNCHANGED <<sync, touched>>
    BY <1>1 DEF HandleRS, Resync, Expires, RSStored, RSChanges, Untouched
  <2>2. HoldsNoMore /\ Steady
    BY <2>1 DEF HoldsNoMore, Held, Steady, Untouched
  <2> QED
    BY <2>1, <2>2, NothingHappens
<1>2. CASE HandlePod
  <2>1. Steady
    BY <1>2, Handles DEF Steady
  <2> QED
    BY <1>2, <2>1, HeardOnce
<1>3. CASE PodStored
  BY <1>3, WatchStored, StoreShowsMore DEF PodStored, Steady
<1>4. CASE PodsRelisted
  BY <1>4, WatchRelisted, RelistShowsAll DEF PodsRelisted, Steady
<1> QED
  BY <1>1, <1>2, <1>3, <1>4, RemovalWatched, ChangeWatched

\* The worker's steps that leave the API server alone.
Inward ==
    Start \/ Check \/ ClaimFails \/ NoManage \/ manageReplicas \/ slowStartBatch \/ UpdateStatus

LEMMA InwardWatched ==
    ASSUME TypeOK, StageInv, WatchInv, Inward
    PROVE  /\ WatchInv' /\ Unheard' \subseteq Unheard /\ Fading' \subseteq Fading
           /\ Untouched /\ UNCHANGED <<rsVars, touched, misled>>
<1>1. /\ Untouched /\ UNCHANGED <<rsVars, touched, misled>>
  BY DEF Inward, Start, Check, ClaimFails, NoManage, manageReplicas, slowStartBatch, UpdateStatus,
         Local, Untouched, NoFault, Fault
<1>2. sync \in Sync
  BY DEF TypeOK
<1>3. ASSUME sync'.pods \subseteq sync.pods, sync'.adopt \subseteq sync.adopt,
             sync'.release \subseteq sync.release
      PROVE  HoldsNoMore
  BY <1>3 DEF HoldsNoMore, Held
<1>4. ASSUME sync'.pods = {}, sync'.adopt = {}, sync'.release = {}
      PROVE  HoldsNoMore
  BY <1>3, <1>4
<1>5. ASSUME NEW err, ToStatus(err)
      PROVE  HoldsNoMore
  BY <1>4, <1>5, IdleType DEF ToStatus, Sync
<1>6. ASSUME NEW err, Return(err)
      PROVE  HoldsNoMore
  BY <1>4, <1>6, IdleType DEF Return
<1>7. HoldsNoMore
  <2>1. CASE Start
    <3>1. CASE sync' = [Idle EXCEPT !.stage = "check", !.rs = rsStore]
      BY <1>4, <3>1, IdleType DEF Sync
    <3>2. CASE UNCHANGED sync
      BY <1>3, <3>2
    <3> QED
      BY <2>1, <3>1, <3>2 DEF Start
  <2>2. CASE Check
    BY <1>2, <1>3, <2>2 DEF Check, Sync
  <2>3. CASE ClaimFails \/ UpdateStatus
    BY <1>6, <2>3 DEF ClaimFails, UpdateStatus
  <2>4. CASE NoManage
    BY <1>5, <2>4 DEF NoManage
  <2>5. CASE manageReplicas
    <3>1. ASSUME NEW few \in Nat \ {0}, Missing(few)
          PROVE  HoldsNoMore
      BY <1>4, <3>1, IdleType DEF Missing, Sync
    <3>2. ASSUME NEW victims \in SUBSET sync.pods, Surplus(victims)
          PROVE  HoldsNoMore
      BY <1>2, <1>3, <3>2 DEF Surplus, Sync
    <3> QED
      BY <1>5, <2>5, <3>1, <3>2, Managed
  <2>6. CASE slowStartBatch
    <3>1. ASSUME NEW batch \in Nat \ {0}, NextBatch(Rest, batch)
          PROVE  HoldsNoMore
      BY <1>2, <1>3, <3>1 DEF NextBatch, Sync
    <3> QED
      BY <1>5, <2>6, <3>1, Batched
  <2> QED
    BY <2>1, <2>2, <2>3, <2>4, <2>5, <2>6 DEF Inward
<1> QED
  BY <1>1, <1>7, NothingHappens

\* A patch of the controllerRef changes nothing else.
Patched(p, owned) ==
    /\ \A q \in Pod \ {p} : pods'[q] = pods[q]
    /\ Ready(pods'[p]) <=> Ready(pods[p])
    /\ pods[p].exists => pods'[p].owned = owned

LEMMA PatchWatched ==
    ASSUME TypeOK, WatchInv, NEW p \in Pod, p \in Held, NEW owned \in BOOLEAN,
           PatchPod(p, owned), UNCHANGED touched, HoldsNoMore,
           owned \/ p \in touched \/ ~Ready(pods[p])
    PROVE  /\ WatchInv' /\ Unheard' \subseteq Unheard /\ Fading' \subseteq Fading
           /\ Patched(p, owned)
<1>1. pods[p] \in PodObject /\ pods \in [Pod -> PodObject]
  BY DEF TypeOK, WatchTypes
<1>2. CASE pods[p].exists /\ pods[p].owned # owned /\ StorePod(p, [pods[p] EXCEPT !.owned = owned])
  <2> DEFINE pod == [pods[p] EXCEPT !.owned = owned]
  <2>1. pods[p] \in [exists : {TRUE}, owned : BOOLEAN, match : BOOLEAN, up : BOOLEAN, deleting : BOOLEAN]
    BY <1>1, <1>2, PodFacts
  <2>2. pod \in PodObject
    BY <1>1, <1>2, PodTypes
  <2>3. /\ pod.exists /\ pod.owned = owned /\ pod.match = pods[p].match /\ pod.up = pods[p].up
        /\ pod.deleting = pods[p].deleting
    BY <2>1
  <2>4. StorePod(p, pod)
    BY <1>2
  <2> HIDE DEF pod
  <2>5. Ready(pod) <=> Ready(pods[p])
    BY <1>2, <2>3 DEF Ready, IsPodActive
  <2>6. store[p].exists
    BY <1>2, HeldIsStored
  <2>7. p \in touched' \/ Leads(pods[p], pod)
    BY <2>3, <2>5 DEF Leads
  <2>8. Changes(p, pod)
    BY <1>2, <2>3, <2>4, <2>6, <2>7 DEF Changes, Doomed
  <2>9. WatchInv'
    BY <2>2, <2>8, WatchChanged
  <2>10. Unheard' \subseteq Unheard /\ Fading' \subseteq Fading
    BY <2>2, <2>5, <2>8, ChangeIsHeard
  <2>11. pods'[p] = pod /\ \A q \in Pod \ {p} : pods'[q] = pods[q]
    BY <1>1, <2>4 DEF StorePod
  <2>12. Patched(p, owned)
    BY <2>3, <2>5, <2>11 DEF Patched
  <2> QED
    BY <2>9, <2>10, <2>12
<1>3. CASE ~(pods[p].exists /\ pods[p].owned # owned) /\ Untouched
  <2>1. Patched(p, owned)
    BY <1>3 DEF Patched, Untouched
  <2> QED
    BY <1>3, <2>1, NothingHappens
<1> QED
  BY <1>2, <1>3 DEF PatchPod, Untouched

\* The worker's adoption of a pod.
LEMMA AdoptionWatched ==
    ASSUME TypeOK, WatchInv, NEW p \in Pod, AdoptPod(p)
    PROVE  /\ WatchInv' /\ Unheard' \subseteq Unheard /\ Fading' \subseteq Fading
           /\ \A q \in Pod \ {p} : pods'[q] = pods[q]
           /\ Ready(pods'[p]) <=> Ready(pods[p])
           /\ p \in sync.adopt /\ p \notin sync'.adopt
           /\ \A q \in Pod \ {p} : /\ q \in sync'.adopt <=> q \in sync.adopt
                                   /\ q \in sync'.pods <=> q \in sync.pods
           /\ sync'.err \/ (sync.err = sync'.err /\ (pods[p].exists => p \in sync'.pods /\ pods'[p].owned))
           /\ p \in sync'.pods => p \in sync.pods \/ pods[p].exists
           /\ UNCHANGED <<sync.stage, sync.rs, sync.needs, sync.victims, sync.release>>
<1>1. /\ p \in sync.adopt /\ UNCHANGED touched /\ sync \in Sync
  BY Adopted DEF TypeOK
<1>2. PICK can \in {"yes", "no"}, err \in BOOLEAN : Adopts(p, can, err)
  BY Adopted
<1> DEFINE new == IF ~err /\ pods[p].exists THEN sync.pods \cup {p} ELSE sync.pods
           e == sync.err \/ err
<1>3. /\ sync' = [sync EXCEPT !.adopt = sync.adopt \ {p}, !.can = can, !.err = e, !.pods = new]
      /\ PatchPod(p, TRUE) \/ (err /\ Untouched)
  BY <1>2 DEF Adopts
<1>4. sync.pods \subseteq new /\ new \subseteq sync.pods \cup {p} /\ sync.err \in BOOLEAN /\ e \in BOOLEAN
      /\ (p \in new => p \in sync.pods \/ pods[p].exists)
      /\ (~e => (sync.err = e /\ ~err /\ (pods[p].exists => p \in new)))
  BY <1>1 DEF Sync
<1> HIDE DEF new, e
<1>5. /\ sync'.adopt = sync.adopt \ {p} /\ sync'.pods = new /\ sync'.err = e
      /\ UNCHANGED <<sync.stage, sync.rs, sync.needs, sync.victims, sync.release>>
  BY <1>1, <1>3 DEF Sync
<1>6. HoldsNoMore /\ p \in Held
  BY <1>1, <1>4, <1>5 DEF HoldsNoMore, Held
<1>7. CASE PatchPod(p, TRUE)
  <2>1. /\ WatchInv' /\ Unheard' \subseteq Unheard /\ Fading' \subseteq Fading /\ Patched(p, TRUE)
    BY <1>1, <1>6, <1>7, PatchWatched
  <2>2. /\ \A q \in Pod \ {p} : pods'[q] = pods[q]
        /\ Ready(pods'[p]) <=> Ready(pods[p])
        /\ pods[p].exists => pods'[p].owned
    BY <2>1 DEF Patched
  <2> QED
    BY <1>1, <1>4, <1>5, <2>1, <2>2
<1>8. CASE err /\ Untouched
  <2>1. WatchInv' /\ Unheard' \subseteq Unheard /\ Fading' \subseteq Fading
    BY <1>1, <1>6, <1>8, NothingHappens
  <2>2. e
    BY <1>8 DEF e
  <2> QED
    BY <1>1, <1>4, <1>5, <1>8, <2>1, <2>2 DEF Untouched
<1> QED
  BY <1>3, <1>7, <1>8

\* The worker's release of a pod: one that others touched, or that does not match.
LEMMA ReleaseWatched ==
    ASSUME TypeOK, WatchInv, NEW p \in Pod, ReleasePod(p)
    PROVE  /\ WatchInv' /\ Unheard' \subseteq Unheard /\ Fading' \subseteq Fading
           /\ UNCHANGED <<touched, sync.stage, sync.rs, sync.needs, sync.victims, sync.pods, sync.adopt>>
           /\ ~sync'.err => ~sync.err
           /\ \A q \in Pod \ touched : /\ Ready(pods'[q]) <=> Ready(pods[q])
                                       /\ Replica(pods'[q]) <=> Replica(pods[q])
<1>1. /\ p \in sync.release /\ UNCHANGED touched /\ sync \in Sync /\ p \in Held
  BY Released DEF TypeOK, Held
<1>2. PICK err \in BOOLEAN : Releases(p, err)
  BY Released
<1> DEFINE e == sync.err \/ err
<1>3. /\ sync' = [sync EXCEPT !.release = sync.release \ {p}, !.err = e]
      /\ PatchPod(p, FALSE) \/ Untouched
  BY <1>2 DEF Releases
<1>4. ~e => ~sync.err
  OBVIOUS
<1> HIDE DEF e
<1>5. /\ sync'.release = sync.release \ {p} /\ sync'.err = e
      /\ UNCHANGED <<sync.stage, sync.rs, sync.needs, sync.victims, sync.pods, sync.adopt>>
  BY <1>1, <1>3 DEF Sync
<1>6. HoldsNoMore
  BY <1>5 DEF HoldsNoMore, Held
<1>7. p \in touched \/ ~Ready(pods[p])
  <2>1. ASSUME p \notin touched
        PROVE  ~Ready(pods[p])
    <3>1. ~Ready(store[p])
      BY <1>1, <2>1 DEF WatchInv, HeldInv
    <3>2. CASE store[p].exists
      BY <2>1, <3>1, <3>2, LeadsToCurrent DEF TypeOK, Before, Leads
    <3>3. CASE ~store[p].exists
      BY <1>1, <3>1, <3>3, Current DEF WatchInv, HeldInv
    <3> QED
      BY <3>2, <3>3
  <2> QED
    BY <2>1
<1>8. CASE PatchPod(p, FALSE)
  <2>1. /\ WatchInv' /\ Unheard' \subseteq Unheard /\ Fading' \subseteq Fading /\ Patched(p, FALSE)
    BY <1>1, <1>6, <1>7, <1>8, PatchWatched
  <2>2. ~Ready(pods[p]) => ~Replica(pods[p]) /\ ~Ready(pods'[p]) /\ ~Replica(pods'[p])
    BY <2>1 DEF Patched, Ready, Replica
  <2> QED
    BY <1>1, <1>4, <1>5, <1>7, <2>1, <2>2 DEF Patched
<1>9. CASE Untouched
  BY <1>1, <1>4, <1>5, <1>6, <1>9, NothingHappens DEF Untouched
<1> QED
  BY <1>3, <1>8, <1>9

\* The worker's creation of a pod.
LEMMA CreationWatched ==
    ASSUME TypeOK, WatchInv, CreatePod
    PROVE  /\ WatchInv' /\ Fading' \subseteq Fading
           /\ \/ Untouched /\ UNCHANGED touched /\ Unheard' \subseteq Unheard
              \/ \E p \in Pod : /\ Free(p) /\ touched' = touched \ {p} /\ pods' = [pods EXCEPT ![p] = NewPod]
                                /\ Unheard' \subseteq Unheard \cup {p}
           /\ \/ ~misled' => Untouched /\ sync'.errs = sync.errs + 1
              \/ sync'.errs = sync.errs
           /\ sync'.calls = sync.calls - 1
           /\ UNCHANGED <<sync.stage, sync.rs, sync.needs, sync.remaining, sync.batch, sync.victims>>
<1>1. sync \in Sync
  BY DEF TypeOK
<1>2. PICK err \in BOOLEAN : /\ Answered(err)
                             /\ err => misled' = TRUE \/ (Untouched /\ UNCHANGED touched)
  BY CreateCalled
<1> DEFINE errs == IF err THEN sync.errs + 1 ELSE sync.errs
           calls == sync.calls - 1
<1>3. sync' = [sync EXCEPT !.calls = calls, !.errs = errs]
  BY <1>2 DEF Answered
<1>4. errs = IF err THEN sync.errs + 1 ELSE sync.errs
  OBVIOUS
<1> HIDE DEF errs, calls
<1>5. /\ sync'.calls = calls /\ sync'.errs = errs
      /\ UNCHANGED <<sync.stage, sync.rs, sync.needs, sync.remaining, sync.batch, sync.victims>>
      /\ UNCHANGED <<sync.pods, sync.adopt, sync.release>>
  BY <1>1, <1>3 DEF Sync
<1>6. HoldsNoMore
  BY <1>5 DEF HoldsNoMore, Held
<1>7. \/ ~misled' => Untouched /\ sync'.errs = sync.errs + 1
      \/ sync'.errs = sync.errs
  BY <1>2, <1>4, <1>5
<1>8. \/ \E p \in Pod : Creates(p)
      \/ Untouched /\ UNCHANGED touched
  BY CreateCalled
<1>9. CASE \E p \in Pod : Creates(p)
  <2>1. PICK p \in Pod : Creates(p)
    BY <1>9
  <2>2. NewPod \in PodObject /\ Ready(NewPod)
    BY PodTypes DEF NewPod, Ready, IsPodActive
  <2>3. Born(p, NewPod)
    BY <2>1, <2>2 DEF Born, Creates
  <2>4. WatchInv'
    BY <1>6, <2>2, <2>3, WatchBorn
  <2>5. Unheard' \subseteq Unheard \cup {p} /\ Fading' \subseteq Fading
    BY <2>2, <2>3, BirthIsExpected
  <2>6. Free(p) /\ touched' = touched \ {p} /\ pods' = [pods EXCEPT ![p] = NewPod]
    BY <2>1 DEF Creates, StorePod
  <2> QED
    BY <1>5, <1>7, <2>4, <2>5, <2>6 DEF calls
<1>10. CASE Untouched /\ UNCHANGED touched
  <2>1. WatchInv' /\ Unheard' \subseteq Unheard /\ Fading' \subseteq Fading
    BY <1>6, <1>10, NothingHappens
  <2> QED
    BY <1>5, <1>7, <1>10, <2>1 DEF calls
<1> QED
  BY <1>8, <1>9, <1>10

\* The worker's deletion of a pod.
LEMMA DeletionWatched ==
    ASSUME TypeOK, StageInv, WatchInv, NEW p \in Pod, DeletePod(p)
    PROVE  /\ WatchInv' /\ Unheard' \subseteq Unheard /\ Fading' \subseteq Fading \cup {p}
           /\ Untouched => Fading' \subseteq Fading
           /\ \A q \in Pod \ {p} : pods'[q] = pods[q]
           /\ p \in sync.victims /\ UNCHANGED touched
           /\ \/ sync'.stage = "status" /\ sync'.victims = {} /\ sync.victims = {p}
              \/ /\ sync'.stage = "delete" /\ sync'.victims = sync.victims \ {p}
                 /\ UNCHANGED <<sync.rs, sync.needs, sync.pods>>
<1>1. /\ sync \in Sync /\ At("delete") /\ p \in sync.victims /\ UNCHANGED touched /\ p \in Held
  BY DeleteCalled DEF TypeOK, At, StageInv, Held
<1>2. PICK err \in BOOLEAN : LastAnswer(p, err)
  BY DeleteCalled
<1>3. /\ \/ sync'.stage = "status" /\ sync'.victims = {} /\ sync.victims = {p}
         \/ /\ sync'.stage = "delete" /\ sync'.victims = sync.victims \ {p}
            /\ UNCHANGED <<sync.rs, sync.needs, sync.pods>>
      /\ HoldsNoMore
  <2>1. CASE sync.victims = {p}
    <3>1. sync' = [Idle EXCEPT !.stage = "status", !.err = sync.err \/ err]
      BY <1>2, <2>1 DEF LastAnswer, ToStatus
    <3>2. /\ sync'.stage = "status" /\ sync'.victims = {} /\ sync'.pods = {} /\ sync'.adopt = {}
          /\ sync'.release = {}
      BY <3>1, IdleType DEF Sync
    <3>3. HoldsNoMore
      BY <3>2 DEF HoldsNoMore, Held
    <3> QED
      BY <2>1, <3>2, <3>3
  <2>2. CASE sync.victims # {p}
    <3> DEFINE e == sync.err \/ err
    <3>1. sync' = [sync EXCEPT !.victims = sync.victims \ {p}, !.err = e]
      BY <1>2, <2>2 DEF LastAnswer
    <3> HIDE DEF e
    <3>2. /\ sync'.victims = sync.victims \ {p} /\ sync'.stage = "delete"
          /\ UNCHANGED <<sync.rs, sync.needs, sync.pods, sync.adopt, sync.release>>
      BY <1>1, <3>1 DEF Sync, At
    <3>3. HoldsNoMore
      BY <3>2 DEF HoldsNoMore, Held
    <3> QED
      BY <3>2, <3>3
  <2> QED
    BY <2>1, <2>2
<1>4. Deletes(p) \/ Untouched
  BY DeleteCalled
<1>5. CASE Deletes(p)
  <2>1. PICK pod \in PodObject : Doomed(pod) /\ StorePod(p, pod) /\ pods[p].exists
    BY <1>5 DEF Deletes
  <2>2. store[p].exists
    BY <1>1, <2>1, HeldIsStored
  <2>3. ~Ready(pod)
    BY <2>1 DEF Doomed, Ready, IsPodActive
  <2>4. Changes(p, pod)
    BY <1>1, <2>1, <2>2, <2>3 DEF Changes, Leads
  <2>5. WatchInv'
    BY <1>3, <2>4, WatchChanged
  <2>6. Unheard' \subseteq Unheard /\ Fading' \subseteq Fading \cup {p}
    BY <2>4, ChangeIsHeard
  <2>7. \A q \in Pod \ {p} : pods'[q] = pods[q]
    BY <2>1 DEF StorePod, TypeOK, WatchTypes
  <2>8. Untouched => Fading' \subseteq Fading
    BY <1>1, <1>3, NothingHappens
  <2> QED
    BY <1>1, <1>3, <2>5, <2>6, <2>7, <2>8
<1>6. CASE Untouched
  <2>1. WatchInv' /\ Unheard' \subseteq Unheard /\ Fading' \subseteq Fading
    BY <1>1, <1>3, <1>6, NothingHappens
  <2> QED
    BY <1>1, <1>3, <1>6, <2>1 DEF Untouched
<1> QED
  BY <1>4, <1>5, <1>6

LEMMA WatchKept ==
    ASSUME TypeOK, StageInv, WatchInv, [Next]_vars
    PROVE  WatchInv'
<1>1. CASE Worker
  <2>1. CASE Inward
    BY <2>1, InwardWatched
  <2>2. CASE ListPods
    BY <2>2, WatchListed
  <2>3. CASE CreatePod
    BY <2>3, CreationWatched
  <2>4. ASSUME NEW p \in Pod, AdoptPod(p) \/ ReleasePod(p) \/ DeletePod(p)
        PROVE  WatchInv'
    BY <2>4, AdoptionWatched, ReleaseWatched, DeletionWatched
  <2> QED
    BY <1>1, <2>1, <2>2, <2>3, <2>4 DEF Worker, Inward
<1>2. CASE UNCHANGED vars
  <2>1. Untouched /\ UNCHANGED <<sync, touched>>
    BY <1>2 DEF vars, Untouched
  <2>2. HoldsNoMore
    BY <2>1 DEF HoldsNoMore, Held
  <2> QED
    BY <2>1, <2>2, NothingHappens
<1>3. CASE \/ HandlePod \/ HandleRS \/ Resync \/ Expires \/ PodStored \/ PodsRelisted
           \/ RSStored \/ PodRemoved \/ PodChanges \/ RSChanges
  BY <1>3, EnvironmentWatched
<1> QED
  BY <1>1, <1>2, <1>3 DEF Next

-----------------------------------------------------------------------------
(***************************************************************************)
(* The expectations count what the store does not show                     *)
(***************************************************************************)
LEMMA ReliableBefore ==
    ASSUME TypeOK, [Next]_vars, Reliable'
    PROVE  Reliable
<1>1. misled \in BOOLEAN /\ rs \in RSObject /\ rsStore \in RSObject /\ (rs.exists => rsStore.exists)
  BY DEF TypeOK, RSTypes
<1>2. ASSUME Budget, UNCHANGED rsStore
      PROVE  Reliable
  BY <1>2, BudgetTypes DEF Reliable
<1>3. CASE Worker
  <2>1. CASE Start \/ Check \/ ListPods \/ ClaimFails \/ NoManage \/ manageReplicas \/ slowStartBatch
             \/ UpdateStatus
    <3>1. Budget /\ UNCHANGED rsStore
      BY <2>1 DEF Start, Check, ListPods, ClaimFails, NoManage, manageReplicas, slowStartBatch,
                  UpdateStatus, Local, Budget, NoFault, rsVars
    <3> QED
      BY <1>2, <3>1
  <2>2. CASE CreatePod
    BY <1>2, <2>2, CreateCalled DEF rsVars
  <2>3. ASSUME NEW p \in Pod, AdoptPod(p) \/ ReleasePod(p) \/ DeletePod(p)
        PROVE  Reliable
    BY <1>2, <2>3, Adopted, Released, DeleteCalled DEF rsVars
  <2> QED
    BY <1>3, <2>1, <2>2, <2>3 DEF Worker
<1>4. CASE HandlePod
  BY <1>4, Handles DEF Reliable, rsVars
<1>5. CASE HandleRS \/ Resync \/ Expires \/ PodStored \/ PodsRelisted \/ PodRemoved \/ PodChanges
           \/ RSChanges \/ UNCHANGED vars
  <2>1. UNCHANGED rsStore
    BY <1>5 DEF HandleRS, Resync, Expires, PodStored, PodsRelisted, PodRemoved, PodChanges,
                RSChanges, StoreRS, rsVars, vars
  <2>2. Budget
    BY <1>5 DEF HandleRS, Resync, Expires, PodStored, PodsRelisted, PodRemoved, PodChanges,
                RSChanges, vars, Budget, NoFault
  <2> QED
    BY <1>2, <2>1, <2>2
<1>6. CASE RSStored
  BY <1>1, <1>6 DEF RSStored, Reliable
<1> QED
  BY <1>3, <1>4, <1>5, <1>6 DEF Next

LEMMA Lowered ==
    ASSUME exp \in Expectation, NEW a \in Int, NEW b \in Int
    PROVE  LET e == LowerExpectations(exp, a, b) IN
           /\ e.exists = exp.exists
           /\ exp.exists => /\ e.expired = exp.expired /\ e.add = exp.add - a /\ e.del = exp.del - b
                            /\ exp.add \in Int /\ exp.del \in Int
<1>1. CASE ~exp.exists
  BY <1>1 DEF LowerExpectations
<1>2. CASE exp.exists
  <2>1. exp \in [exists : {TRUE}, add : Int, del : Int, expired : BOOLEAN]
    <3>1. ~NoExp.exists
      BY DEF NoExp
    <3> QED
      BY <1>2, <3>1 DEF Expectation
  <2> QED
    BY <1>2, <2>1 DEF LowerExpectations
<1> QED
  BY <1>1, <1>2

LEMMA ToComeType ==
    ASSUME TypeOK, StageInv
    PROVE  ToCome \in Nat /\ Unheard \in SUBSET Pod /\ Cardinality(Unheard) \in Nat
           /\ (~At("create") => ToCome = 0)
<1>1. /\ sync.calls \in Nat /\ sync.errs \in Nat /\ sync.remaining \in Nat /\ sync.batch \in Nat
      /\ sync.stage = "create" => sync.remaining >= sync.batch
  BY DEF TypeOK, Sync, StageInv
<1>2. ToCome \in Nat
  BY <1>1 DEF ToCome, At
<1>3. Unheard \in SUBSET Pod
  BY DEF Unheard
<1> QED
  BY <1>2, <1>3, FinitePods DEF ToCome

LEMMA FewerPods ==
    ASSUME NEW S \in SUBSET Pod, NEW T \in SUBSET Pod, S \subseteq T
    PROVE  Cardinality(S) \in Nat /\ Cardinality(T) \in Nat /\ Cardinality(S) <= Cardinality(T)
<1>1. IsFiniteSet(T)
  BY FinitePods
<1> QED
  BY <1>1, FinitePods, FS_Subset

LEMMA OnePodFewer ==
    ASSUME NEW S \in SUBSET Pod, NEW p \in S
    PROVE  Cardinality(S) \in Nat /\ Cardinality(S \ {p}) \in Nat
           /\ Cardinality(S) = Cardinality(S \ {p}) + 1
<1>1. IsFiniteSet(S) /\ Cardinality(S) \in Nat /\ Cardinality(S \ {p}) \in Nat
  BY FinitePods
<1>2. Cardinality(S \ {p}) = Cardinality(S) - 1
  BY <1>1, FS_RemoveElement
<1> QED
  BY <1>1, <1>2

\* A step that adds nothing to what is to be counted and leaves the count alone.
LEMMA CreationStays ==
    ASSUME TypeOK, StageInv, TypeOK', StageInv', CreationInv,
           Unheard' \subseteq Unheard, Counted' <=> Counted, Counted => exp'.add = exp.add,
           At("create")' => At("create"), ToCome' <= ToCome, Deciding' => Unheard = {}
    PROVE  CreationInv'
<1>1. ToCome \in Nat /\ Unheard \in SUBSET Pod /\ Unheard' \in SUBSET Pod
  BY ToComeType DEF Unheard
<1>2. ToCome' \in Nat
  <2>1. /\ sync'.calls \in Nat /\ sync'.errs \in Nat /\ sync'.remaining \in Nat /\ sync'.batch \in Nat
        /\ sync'.stage = "create" => sync'.remaining >= sync'.batch
    BY DEF TypeOK, Sync, StageInv
  <2> QED
    BY <2>1 DEF ToCome, At
<1>3. Cardinality(Unheard) \in Nat /\ Cardinality(Unheard') \in Nat
      /\ Cardinality(Unheard') <= Cardinality(Unheard)
  BY <1>1, FewerPods
<1>4. CASE Counted
  <2>1. Cardinality(Unheard) + ToCome <= exp.add /\ exp.add \in Int
    BY <1>4, ExpectationTypes DEF CreationInv, Counted, TypeOK
  <2>2. Cardinality(Unheard') + ToCome' <= exp'.add
    BY <1>1, <1>2, <1>3, <1>4, <2>1
  <2> QED
    BY <1>4, <2>2 DEF CreationInv
<1>5. CASE ~Counted
  BY <1>5 DEF CreationInv
<1> QED
  BY <1>4, <1>5

LEMMA DeletionStays ==
    ASSUME DeletionInv, Unseen' \subseteq Unseen, UNCHANGED <<exp, uids>>, Deciding' => Unseen = {}
    PROVE  DeletionInv'
<1>1. Counted' = Counted
  BY DEF Counted
<1> QED
  BY <1>1 DEF DeletionInv

\* The worker's list stays as good as it was when others act.
LEMMA SyncStays ==
    ASSUME TypeOK, StageInv, TypeOK', SyncInv, Steady
    PROVE  SyncInv'
<1>1. UNCHANGED sync /\ touched \subseteq touched' /\ sync \in Sync
  BY DEF Steady, TypeOK
<1>2. /\ Replicas' \ touched' \subseteq Replicas \ touched
      /\ Replicas \cup touched \subseteq Replicas' \cup touched'
      /\ Replicas \in SUBSET Pod /\ Replicas' \in SUBSET Pod /\ touched \in SUBSET Pod
      /\ touched' \in SUBSET Pod
  BY DEF Steady, Replicas, TypeOK
<1>3. /\ sync.adopt \subseteq Pod /\ sync.pods \subseteq Pod /\ sync.calls \in Nat
      /\ sync.remaining \in Nat /\ sync.batch \in Nat
  BY <1>1 DEF Sync
<1>4. Listed => Listed'
  BY <1>1, <1>2, <1>3 DEF Listed, Steady
<1>5. At("create") /\ sync.rs.exists =>
         Cardinality(Replicas' \ touched') + sync.calls + sync.remaining - sync.batch
            <= sync.rs.replicas
  <2>1. SUFFICES ASSUME At("create"), sync.rs.exists
                 PROVE  Cardinality(Replicas' \ touched') + sync.calls + sync.remaining - sync.batch
                           <= sync.rs.replicas
    OBVIOUS
  <2>2. sync.rs.replicas \in Nat
    BY <1>1, <2>1, RSFacts DEF Sync
  <2>3. Cardinality(Replicas \ touched) + sync.calls + sync.remaining - sync.batch <= sync.rs.replicas
    BY <2>1 DEF SyncInv
  <2> DEFINE new == Replicas' \ touched'
             old == Replicas \ touched
  <2>4. new \in SUBSET Pod /\ old \in SUBSET Pod /\ new \subseteq old
    BY <1>2
  <2> HIDE DEF new, old
  <2>5. Cardinality(new) \in Nat /\ Cardinality(old) \in Nat /\ Cardinality(new) <= Cardinality(old)
    BY <2>4, FewerPods
  <2>6. Cardinality(old) + sync.calls + sync.remaining - sync.batch <= sync.rs.replicas
    BY <2>3 DEF old
  <2>7. Cardinality(new) + sync.calls + sync.remaining - sync.batch <= sync.rs.replicas
    BY <1>3, <2>2, <2>5, <2>6
  <2> QED
    BY <2>7 DEF new
<1>6. At("delete") /\ sync.rs.exists =>
         /\ sync.victims \subseteq Replicas' \cup touched'
         /\ Cardinality((sync.pods \ sync.victims) \cap (Replicas' \cup touched')) >= sync.rs.replicas
  <2>1. SUFFICES ASSUME At("delete"), sync.rs.exists
                 PROVE  /\ sync.victims \subseteq Replicas' \cup touched'
                        /\ Cardinality((sync.pods \ sync.victims) \cap (Replicas' \cup touched'))
                              >= sync.rs.replicas
    OBVIOUS
  <2>2. sync.rs.replicas \in Nat
    BY <1>1, <2>1, RSFacts DEF Sync
  <2> DEFINE new == (sync.pods \ sync.victims) \cap (Replicas' \cup touched')
             old == (sync.pods \ sync.victims) \cap (Replicas \cup touched)
  <2>3. new \in SUBSET Pod /\ old \in SUBSET Pod /\ old \subseteq new
    BY <1>2
  <2>4. Cardinality(old) >= sync.rs.replicas /\ sync.victims \subseteq Replicas \cup touched
    BY <2>1 DEF SyncInv
  <2> HIDE DEF new, old
  <2>5. Cardinality(new) \in Nat /\ Cardinality(old) \in Nat /\ Cardinality(old) <= Cardinality(new)
    BY <2>3, FewerPods
  <2>6. Cardinality(new) >= sync.rs.replicas
    BY <2>2, <2>4, <2>5
  <2> QED
    BY <1>2, <2>4, <2>6 DEF new
<1>7. At("create") \/ At("delete") => sync.rs.exists
  BY DEF At, StageInv
<1> HIDE DEF Listed
<1>8. At("claim") /\ sync.needs /\ ~sync.rs.deleting /\ ~sync.err => Listed'
  BY <1>4 DEF SyncInv
<1> QED
  BY <1>1, <1>5, <1>6, <1>7, <1>8 DEF SyncInv, At

\* A handler hears of a creation: one less to hear of, one less expected.
LEMMA CreationIsHeard ==
    ASSUME TypeOK, StageInv, CreationInv, DeletionInv, CreationObserved(1), UNCHANGED <<sync, touched>>,
           NEW p \in Unheard, Unheard' \subseteq Unheard \ {p}, Fading' \subseteq Fading
    PROVE  CreationInv' /\ DeletionInv'
<1>1. exp \in Expectation /\ exp' = LowerExpectations(exp, 1, 0) /\ UNCHANGED uids
  BY DEF TypeOK, CreationObserved
<1>2. Counted /\ Cardinality(Unheard) + ToCome <= exp.add /\ ~Deciding
  BY DEF CreationInv
<1>3. /\ exp'.exists = exp.exists /\ exp.exists
      /\ exp'.expired = exp.expired /\ exp'.add = exp.add - 1 /\ exp'.del = exp.del - 0
      /\ exp.add \in Int /\ exp.del \in Int
  <2>1. /\ exp'.exists = exp.exists
        /\ exp.exists => /\ exp'.expired = exp.expired /\ exp'.add = exp.add - 1 /\ exp'.del = exp.del - 0
                         /\ exp.add \in Int /\ exp.del \in Int
    <3>1. 1 \in Int /\ 0 \in Int
      OBVIOUS
    <3>2. exp \in Expectation /\ exp' = LowerExpectations(exp, 1, 0)
      BY <1>1
    <3> QED
      BY ONLY <3>1, <3>2, Lowered
  <2> QED
    BY <1>2, <2>1 DEF Counted
<1>4. Counted'
  BY <1>2, <1>3 DEF Counted
<1>5. ToCome \in Nat /\ Unheard \in SUBSET Pod /\ ToCome' = ToCome
  BY ToComeType DEF ToCome, At
<1>6. /\ Cardinality(Unheard \ {p}) \in Nat /\ Cardinality(Unheard) = Cardinality(Unheard \ {p}) + 1
  BY <1>5, OnePodFewer
<1>7. Cardinality(Unheard') \in Nat /\ Cardinality(Unheard') <= Cardinality(Unheard \ {p})
  <2>1. Unheard' \in SUBSET Pod /\ Unheard \ {p} \in SUBSET Pod
    BY <1>5
  <2> QED
    BY <2>1, FewerPods
<1>8. Cardinality(Unheard') + ToCome' <= exp'.add
  BY <1>2, <1>3, <1>5, <1>6, <1>7
<1>9. ~Deciding'
  BY <1>2 DEF Deciding
<1>10. CreationInv'
  BY <1>4, <1>8, <1>9 DEF CreationInv
<1>11. Unseen' \subseteq Unseen
  BY DEF Unseen
<1>12. exp'.del = exp.del
  BY <1>3
<1>13. DeletionInv'
  BY <1>1, <1>4, <1>9, <1>11, <1>12 DEF DeletionInv
<1> QED
  BY <1>10, <1>13

\* A handler, or the worker itself, finds that a pod is gone or will not go.
LEMMA DeletionIsHeard ==
    ASSUME TypeOK, StageInv, TypeOK', StageInv', CreationInv, DeletionInv, NEW p \in Pod,
           DeletionObserved(p), Unheard' \subseteq Unheard, Unseen' \subseteq Unseen \ {p},
           At("create")' => At("create"), ToCome' <= ToCome,
           Deciding' => Unheard = {} /\ Unseen = {}
    PROVE  CreationInv' /\ DeletionInv'
<1>1. CASE p \notin uids
  <2>1. UNCHANGED <<exp, uids>>
    BY <1>1 DEF DeletionObserved
  <2>2. CreationInv'
    BY <2>1, CreationStays DEF Counted
  <2>3. DeletionInv'
    BY <2>1, DeletionStays
  <2> QED
    BY <2>2, <2>3
<1>2. CASE p \in uids
  <2>1. exp \in Expectation /\ exp' = LowerExpectations(exp, 0, 1) /\ uids' = uids \ {p}
    BY <1>2 DEF TypeOK, DeletionObserved
  <2>2. /\ exp'.exists = exp.exists
        /\ exp.exists => /\ exp'.expired = exp.expired /\ exp'.add = exp.add - 0 /\ exp'.del = exp.del - 1
                         /\ exp.add \in Int /\ exp.del \in Int
    BY <2>1, Lowered
  <2>3. (Counted' <=> Counted) /\ (Counted => exp'.add = exp.add)
    BY <2>2 DEF Counted
  <2>4. CreationInv'
    BY <2>3, CreationStays
  <2>5. ASSUME Unseen' # {}
        PROVE  Counted' /\ Unseen' \subseteq uids' /\ Cardinality(uids') <= exp'.del
    <3>1. Counted /\ Unseen \subseteq uids /\ Cardinality(uids) <= exp.del
      BY <2>5 DEF DeletionInv
    <3>2. Cardinality(uids) \in Nat /\ Cardinality(uids \ {p}) \in Nat
          /\ Cardinality(uids) = Cardinality(uids \ {p}) + 1
      BY <1>2, OnePodFewer DEF TypeOK
    <3>3. exp'.del = exp.del - 1 /\ exp.del \in Int
      BY <2>2, <3>1 DEF Counted
    <3> QED
      BY <2>1, <2>3, <3>1, <3>2, <3>3
  <2>6. DeletionInv'
    BY <2>5 DEF DeletionInv
  <2> QED
    BY <2>4, <2>6
<1> QED
  BY <1>1, <1>2

\* The deletion of a pod that the worker has still to delete is not heard of.
LEMMA VictimIsThere ==
    ASSUME TypeOK, StageInv, WatchInv, SyncInv, NEW p \in sync.victims \ touched
    PROVE  ~Doomed(store[p])
<1>1. p \in Pod /\ p \in Held /\ At("delete")
  BY DEF TypeOK, Sync, StageInv, Held, At
<1>2. Replica(pods[p])
  BY <1>1 DEF SyncInv, Replicas
<1>3. pods[p].exists /\ ~Doomed(pods[p])
  BY <1>2 DEF Replica, IsPodActive, Doomed
<1>4. store[p].exists
  BY <1>1, <1>3, HeldIsStored
<1>5. store[p] = pods[p] \/ (store[p].deleting => Doomed(pods[p]))
  BY <1>1, <1>4, LeadsToCurrent DEF TypeOK, Before
<1> QED
  BY <1>3, <1>4, <1>5 DEF Doomed

\* When time runs out and nothing is on its way, nothing is left to hear of.
LEMMA NothingIsLeft ==
    ASSUME TypeOK, StageInv, WatchInv, log = <<>>, notes = <<>>,
           sync.stage \notin {"create", "delete"}
    PROVE  Unheard = {} /\ Unseen = {}
<1>1. DOMAIN log = {} /\ DOMAIN notes = {} /\ \A p \in Pod : ~Named(log, p)
  BY DEF Named
<1>2. Unheard = {}
  BY <1>1 DEF Unheard
<1>3. \A p \in Pod : store[p] = pods[p]
  BY <1>1, Current
<1>4. Fading = {}
  BY <1>3 DEF Fading
<1>5. sync.victims = {}
  BY DEF StageInv
<1> QED
  BY <1>2, <1>4, <1>5 DEF Unseen

LEMMA EnvironmentCounted ==
    ASSUME TypeOK, StageInv, WatchInv, TypeOK', StageInv', Reliable, Reliable',
           CreationInv, DeletionInv, SyncInv,
           \/ HandlePod \/ HandleRS \/ Resync \/ Expires \/ PodStored \/ PodsRelisted
           \/ RSStored \/ PodRemoved \/ PodChanges \/ RSChanges
    PROVE  CreationInv' /\ DeletionInv' /\ SyncInv'
<1>1. Unheard' \subseteq Unheard /\ Fading' \subseteq Fading /\ Steady
  BY EnvironmentWatched
<1>2. UNCHANGED sync /\ touched \subseteq touched'
  BY <1>1 DEF Steady
<1>3. SyncInv'
  BY <1>1, SyncStays
<1>4. Unseen' \subseteq Unseen
  BY <1>1, <1>2 DEF Unseen
<1>5. /\ At("create")' => At("create")
      /\ ToCome' <= ToCome
      /\ Deciding' => Unheard = {} /\ Unseen = {}
  <2>1. ToCome' = ToCome /\ ToCome \in Nat
    BY <1>2, ToComeType DEF ToCome, At
  <2>2. Deciding' = Deciding
    BY <1>2 DEF Deciding
  <2> QED
    BY <1>2, <2>1, <2>2 DEF At, CreationInv, DeletionInv
<1>6. ASSUME UNCHANGED <<exp, uids>>
      PROVE  CreationInv' /\ DeletionInv'
  <2>1. CreationInv'
    BY <1>1, <1>5, <1>6, CreationStays DEF Counted
  <2>2. DeletionInv'
    BY <1>4, <1>5, <1>6, DeletionStays
  <2> QED
    BY <2>1, <2>2
<1>7. CASE HandleRS \/ Resync \/ PodStored \/ PodsRelisted \/ RSStored \/ PodRemoved \/ PodChanges
           \/ RSChanges
  <2>1. UNCHANGED <<exp, uids>>
    BY <1>7 DEF HandleRS, Resync, PodStored, PodsRelisted, RSStored, PodRemoved, PodChanges,
                RSChanges, Reliable
  <2> QED
    BY <1>3, <1>6, <2>1
<1>8. CASE Expires
  <2>1. ~(log # <<>> \/ notes # <<>> \/ sync.stage \in {"create", "delete"}) /\ UNCHANGED uids
    BY <1>8 DEF Expires, Reliable, Misled
  <2>2. Unheard = {} /\ Unseen = {}
    BY <2>1, NothingIsLeft
  <2>3. exp.exists /\ exp' = [exp EXCEPT !.expired = TRUE]
    BY <1>8 DEF Expires, SatisfiedExpectations
  <2>4. exp'.expired
    <3>1. ~NoExp.exists
      BY DEF NoExp
    <3>2. exp \in [exists : {TRUE}, add : Int, del : Int, expired : BOOLEAN]
      BY <2>3, <3>1 DEF TypeOK, Expectation
    <3> QED
      BY <2>3, <3>2
  <2>5. ~Counted' /\ Unheard' = {} /\ Unseen' = {} /\ ~At("create")'
    BY <1>1, <1>2, <1>4, <2>1, <2>2, <2>4 DEF Counted, At
  <2> QED
    BY <1>3, <2>5 DEF CreationInv, DeletionInv
<1>9. CASE HandlePod
  <2> DEFINE n == Head(notes)
  <2>1. Hears(n) /\ UNCHANGED <<sync, touched>>
    BY <1>9, Handles
  <2>2. /\ n.name \in Pod /\ (Doomed(n.new) => Doomed(store[n.name]))
        /\ ~n.old.exists /\ n.new.owned => n.name \in Unheard /\ Unheard' \subseteq Unheard \ {n.name}
    BY <1>9, HeardOnce
  <2> HIDE DEF n
  <2>3. CASE CreationObserved(1) /\ ~n.old.exists /\ n.new.owned
    BY <1>1, <1>3, <2>1, <2>2, <2>3, CreationIsHeard
  <2>4. CASE DeletionObserved(n.name) /\ Doomed(n.new)
    <3>1. n.name \notin Fading
      BY <2>2, <2>4 DEF Fading, Doomed, Ready, IsPodActive
    <3>2. n.name \notin sync.victims \ touched
      BY <2>2, <2>4, VictimIsThere
    <3>3. Unseen' \subseteq Unseen \ {n.name}
      BY <1>4, <3>1, <3>2 DEF Unseen
    <3>4. CreationInv' /\ DeletionInv'
      BY <1>1, <1>5, <2>2, <2>4, <3>3, DeletionIsHeard
    <3> QED
      BY <1>3, <3>4
  <2>5. CASE UNCHANGED <<exp, uids>>
    BY <1>3, <1>6, <2>5
  <2> QED
    BY <2>1, <2>3, <2>4, <2>5 DEF Hears
<1> QED
  BY <1>7, <1>8, <1>9

\* The sync ends, or has not read anything yet.
LEMMA SyncEnds ==
    ASSUME TypeOK, StageInv, TypeOK', StageInv', CreationInv, DeletionInv,
           Unheard' \subseteq Unheard, Unseen' \subseteq Unseen, UNCHANGED <<exp, uids>>,
           sync'.stage \in {"idle", "check", "status"}
    PROVE  CreationInv' /\ DeletionInv' /\ SyncInv'
<1>1. ~At("create")' /\ ~Deciding' /\ ~At("claim")' /\ ~At("delete")'
  BY DEF At, Deciding
<1>2. ToCome' = 0 /\ ToCome \in Nat
  BY <1>1, ToComeType DEF ToCome
<1>3. ToCome' <= ToCome
  BY <1>2
<1>4. CreationInv'
  BY <1>1, <1>3, CreationStays DEF Counted
<1>5. DeletionInv'
  BY <1>1, DeletionStays
<1>6. SyncInv'
  BY <1>1 DEF SyncInv
<1> QED
  BY <1>4, <1>5, <1>6

\* Fulfilled or expired expectations: the store shows all that the controller did.
LEMMA SatisfiedIsSeen ==
    ASSUME TypeOK, StageInv, CreationInv, DeletionInv, SatisfiedExpectations
    PROVE  Unheard = {} /\ Unseen = {}
<1>1. CASE ~Counted
  BY <1>1 DEF CreationInv, DeletionInv
<1>2. CASE Counted
  <2>1. exp.add <= 0 /\ exp.del <= 0 /\ exp.add \in Int /\ exp.del \in Int
    BY <1>2, ExpectationTypes DEF SatisfiedExpectations, Fulfilled, Counted, TypeOK
  <2>2. Unheard = {}
    <3>1. ToCome \in Nat /\ Unheard \in SUBSET Pod /\ Cardinality(Unheard) \in Nat
      BY ToComeType
    <3>2. Cardinality(Unheard) + ToCome <= exp.add
      BY <1>2 DEF CreationInv
    <3>3. Cardinality(Unheard) = 0
      BY <2>1, <3>1, <3>2
    <3> QED
      BY <3>1, <3>3, FinitePods, FS_EmptySet
  <2>3. Unseen = {}
    <3>1. ASSUME Unseen # {}
          PROVE  FALSE
      <4>1. Unseen \subseteq uids /\ Cardinality(uids) <= exp.del /\ uids \in SUBSET Pod
        BY <3>1 DEF DeletionInv, TypeOK
      <4>2. IsFiniteSet(uids) /\ Cardinality(uids) \in Nat
        BY <4>1, FinitePods
      <4>3. Cardinality(uids) = 0
        BY <2>1, <4>1, <4>2
      <4>4. uids = {}
        BY <4>2, <4>3, FS_EmptySet
      <4> QED
        BY <3>1, <4>1, <4>4
    <3> QED
      BY <3>1
  <2> QED
    BY <2>2, <2>3
<1> QED
  BY <1>1, <1>2

LEMMA CheckCounted ==
    ASSUME TypeOK, StageInv, WatchInv, TypeOK', StageInv', CreationInv, DeletionInv, Check
    PROVE  CreationInv' /\ DeletionInv' /\ SyncInv'
<1>1. /\ Unheard' \subseteq Unheard /\ Fading' \subseteq Fading /\ UNCHANGED <<exp, uids>>
  BY InwardWatched DEF Inward, Check
<1>2. sync' = [sync EXCEPT !.stage = "list", !.needs = SatisfiedExpectations] /\ sync \in Sync
  BY DEF Check, TypeOK
<1>3. sync'.stage = "list" /\ sync'.needs = SatisfiedExpectations /\ sync'.victims = sync.victims
  BY <1>2 DEF Sync
<1>4. ~At("create")' /\ ~At("claim")' /\ ~At("delete")' /\ (Deciding' => SatisfiedExpectations)
  BY <1>3 DEF At, Deciding
<1>5. Unseen' \subseteq Unseen
  BY <1>1, <1>3, InwardWatched DEF Unseen, Inward
<1>6. ToCome' <= ToCome
  BY <1>4, ToComeType DEF ToCome
<1>7. Deciding' => Unheard = {} /\ Unseen = {}
  BY <1>4, SatisfiedIsSeen
<1>8. CreationInv'
  BY <1>1, <1>4, <1>6, <1>7, CreationStays DEF Counted
<1>9. DeletionInv'
  BY <1>1, <1>5, <1>7, DeletionStays
<1>10. SyncInv'
  BY <1>4 DEF SyncInv
<1> QED
  BY <1>8, <1>9, <1>10

\* A list that is made when nothing is left to hear of: what the store shows of a pod
\* that nobody touched is what the API server has.
LEMMA ListIsGood ==
    ASSUME TypeOK, StageInv, WatchInv, Unheard = {}, Fading = {}, ListPods, ~sync.rs.deleting
    PROVE  Listed'
<1>1. /\ UNCHANGED <<pods, log, store>> /\ touched' = {p \in touched : Named(log, p)}
      /\ sync'.pods = {p \in Pod : Replica(store[p])}
      /\ sync'.adopt = {p \in Pod : Ready(store[p]) /\ ~store[p].owned}
  BY Lists DEF Untouched, watch
<1>2. \A pod : Replica(pod) <=> Ready(pod) /\ pod.owned
  BY DEF Replica, Ready
<1>3. ASSUME NEW p \in Pod \ touched', ~Named(log, p)
      PROVE  store[p] = pods[p]
  BY <1>3, Current
<1>4. ASSUME NEW p \in Pod \ touched', Named(log, p)
      PROVE  /\ Replica(pods[p]) => store[p].exists
             /\ Ready(store[p]) => Ready(pods[p])
             /\ store[p].exists => store[p] = pods[p] \/ Leads(store[p], pods[p])
  <2>1. p \notin touched
    BY <1>1, <1>4
  <2>2. store[p].exists => store[p] = pods[p] \/ Leads(store[p], pods[p])
    BY <2>1, LeadsToCurrent DEF TypeOK, Before
  <2>3. Ready(store[p]) => Ready(pods[p])
    BY <2>1 DEF Fading
  <2>4. ASSUME Replica(pods[p]), ~store[p].exists
        PROVE  FALSE
    <3>1. PICK k \in DOMAIN log : IsLast(p, k)
      BY <1>4, Current
    <3>2. pods[p].exists /\ pods[p].owned
      BY <2>4 DEF Replica, IsPodActive
    <3>3. p \in Unheard
      BY <2>4, <3>1, <3>2 DEF IsLast, Unheard
    <3> QED
      BY <3>3
  <2> QED
    BY <2>2, <2>3, <2>4
<1>5. ASSUME NEW p \in Pod \ touched'
      PROVE  /\ Replica(pods[p]) => Ready(store[p])
             /\ Ready(store[p]) => Ready(pods[p])
             /\ Replica(store[p]) => Replica(pods[p])
  <2>1. CASE ~Named(log, p)
    BY <1>2, <1>3, <2>1
  <2>2. CASE Named(log, p)
    <3>1. Replica(pods[p]) => Ready(store[p])
      BY <1>2, <1>4, <2>2 DEF Leads
    <3>2. Ready(store[p]) => store[p].exists
      BY DEF Ready, IsPodActive
    <3>3. Replica(store[p]) => Replica(pods[p])
      BY <1>2, <1>4, <2>2, <3>2 DEF Leads
    <3> QED
      BY <1>4, <2>2, <3>1, <3>3
  <2> QED
    BY <2>1, <2>2
<1>6. \A p \in Pod : Replica(pods'[p]) <=> Replica(pods[p])
  BY <1>1
<1>7. Replicas' = {p \in Pod : Replica(pods[p])}
  BY <1>6 DEF Replicas
<1>8. Replicas' \ touched' \subseteq sync'.pods \cup sync'.adopt
  BY <1>1, <1>2, <1>5, <1>7
<1>9. sync'.pods \subseteq Replicas' \cup touched'
  BY <1>1, <1>5, <1>7
<1>10. \A p \in sync'.adopt \ touched' : Ready(pods'[p])
  BY <1>1, <1>5
<1> QED
  BY <1>8, <1>9, <1>10 DEF Listed

LEMMA ListCounted ==
    ASSUME TypeOK, StageInv, WatchInv, TypeOK', StageInv', CreationInv, DeletionInv, ListPods
    PROVE  CreationInv' /\ DeletionInv' /\ SyncInv'
<1>1. Unheard' \subseteq Unheard /\ Fading' \subseteq Fading
  BY ListSeesAll
<1>2. /\ UNCHANGED <<exp, uids>> /\ sync'.stage = "claim" /\ sync.stage = "list"
      /\ sync'.rs = sync.rs /\ sync'.needs = sync.needs
  BY Lists DEF At
<1>3. ~At("create")' /\ ~At("delete")' /\ (Deciding' => Deciding)
      /\ (sync.needs => Deciding)
  BY <1>2 DEF At, Deciding
<1>4. sync'.victims = {}
  BY <1>2 DEF StageInv
<1>5. Unseen' \subseteq Unseen
  BY <1>1, <1>4 DEF Unseen
<1>6. ToCome' <= ToCome
  BY <1>3, ToComeType DEF ToCome
<1>7. Deciding => Unheard = {} /\ Unseen = {}
  BY DEF CreationInv, DeletionInv
<1>8. CreationInv'
  BY <1>1, <1>2, <1>3, <1>6, <1>7, CreationStays DEF Counted
<1>9. DeletionInv'
  BY <1>2, <1>3, <1>5, <1>7, DeletionStays
<1>10. ASSUME sync'.needs, ~sync'.rs.deleting
       PROVE  Listed'
  <2>1. Unheard = {} /\ Fading = {}
    BY <1>2, <1>3, <1>7, <1>10 DEF Unseen
  <2> QED
    BY <1>2, <1>10, <2>1, ListIsGood
<1>11. SyncInv'
  BY <1>3, <1>10 DEF SyncInv
<1> QED
  BY <1>8, <1>9, <1>11

LEMMA ClaimCounted ==
    ASSUME TypeOK, StageInv, WatchInv, TypeOK', StageInv', CreationInv, DeletionInv, SyncInv,
           NEW p \in Pod, AdoptPod(p) \/ ReleasePod(p)
    PROVE  CreationInv' /\ DeletionInv' /\ SyncInv'
<1>1. Unheard' \subseteq Unheard /\ Fading' \subseteq Fading
  BY AdoptionWatched, ReleaseWatched
<1>2. /\ UNCHANGED <<exp, uids, touched>> /\ sync.stage = "claim"
  BY Adopted, Released DEF At
<1>3. UNCHANGED <<sync.stage, sync.rs, sync.needs, sync.victims>>
  BY AdoptionWatched, ReleaseWatched
<1>4. ~At("create")' /\ ~At("delete")' /\ (Deciding' => Deciding)
  BY <1>2, <1>3 DEF At, Deciding
<1>5. Unseen' \subseteq Unseen
  BY <1>1, <1>2, <1>3 DEF Unseen
<1>6. ToCome' <= ToCome
  BY <1>4, ToComeType DEF ToCome
<1>7. Deciding => Unheard = {} /\ Unseen = {}
  BY DEF CreationInv, DeletionInv
<1>8. CreationInv'
  BY <1>1, <1>2, <1>4, <1>6, <1>7, CreationStays DEF Counted
<1>9. DeletionInv'
  BY <1>2, <1>4, <1>5, <1>7, DeletionStays
<1>10. \A pod : Replica(pod) <=> Ready(pod) /\ pod.owned
  BY DEF Replica, Ready
<1>11. \A pod : Ready(pod) => pod.exists
  BY DEF Ready, IsPodActive
<1>12. ASSUME sync'.needs, ~sync'.rs.deleting, ~sync'.err
       PROVE  Listed'
  <2>1. ~sync.err => Listed
    BY <1>2, <1>3, <1>12 DEF SyncInv, At
  <2>2. /\ sync.adopt \subseteq Pod /\ sync.pods \subseteq Pod
        /\ sync'.adopt \subseteq Pod /\ sync'.pods \subseteq Pod
    BY DEF TypeOK, Sync
  <2>3. CASE AdoptPod(p)
    <3>1. /\ \A q \in Pod \ {p} : pods'[q] = pods[q]
          /\ Ready(pods'[p]) <=> Ready(pods[p])
          /\ p \in sync.adopt /\ p \notin sync'.adopt
          /\ \A q \in Pod \ {p} : /\ q \in sync'.adopt <=> q \in sync.adopt
                                  /\ q \in sync'.pods <=> q \in sync.pods
          /\ ~sync.err /\ (pods[p].exists => p \in sync'.pods /\ pods'[p].owned)
      BY <1>12, <2>3, AdoptionWatched
    <3>2. Listed
      BY <2>1, <3>1
    <3>3. \A q \in Pod \ {p} : q \in Replicas' <=> q \in Replicas
      BY <3>1 DEF Replicas
    <3>4. p \in Replicas' => p \in sync'.pods
      BY <1>10, <1>11, <3>1 DEF Replicas
    <3>5. p \in sync'.pods => p \in Replicas' \/ p \in touched
      BY <1>10, <1>11, <3>1, <3>2 DEF Replicas, Listed
    <3>6. Replicas' \subseteq Pod
      BY DEF Replicas
    <3>7. Replicas' \ touched' \subseteq sync'.pods \cup sync'.adopt
      BY <1>2, <3>1, <3>2, <3>3, <3>4, <3>6 DEF Listed
    <3>8. sync'.pods \subseteq Replicas' \cup touched'
      BY <1>2, <2>2, <3>1, <3>2, <3>3, <3>5 DEF Listed
    <3>9. \A q \in sync'.adopt \ touched' : Ready(pods'[q])
      BY <1>2, <2>2, <3>1, <3>2 DEF Listed
    <3> QED
      BY <3>7, <3>8, <3>9 DEF Listed
  <2>4. CASE ReleasePod(p)
    <3>1. /\ ~sync.err /\ sync'.pods = sync.pods /\ sync'.adopt = sync.adopt
          /\ \A q \in Pod \ touched : /\ Ready(pods'[q]) <=> Ready(pods[q])
                                      /\ Replica(pods'[q]) <=> Replica(pods[q])
      BY <1>12, <2>4, ReleaseWatched
    <3>2. Listed
      BY <2>1, <3>1
    <3>3. \A q \in Pod \ touched : q \in Replicas' <=> q \in Replicas
      BY <3>1 DEF Replicas
    <3>4. Replicas' \subseteq Pod
      BY DEF Replicas
    <3> QED
      BY <1>2, <2>2, <3>1, <3>2, <3>3, <3>4 DEF Listed
  <2> QED
    BY <2>3, <2>4
<1>13. SyncInv'
  BY <1>4, <1>12 DEF SyncInv
<1> QED
  BY <1>8, <1>9, <1>13

\* manageReplicas decides by the list.
LEMMA ManageCounted ==
    ASSUME TypeOK, StageInv, WatchInv, TypeOK', StageInv', CreationInv, DeletionInv, SyncInv,
           manageReplicas
    PROVE  CreationInv' /\ DeletionInv' /\ SyncInv'
<1>1. /\ Unheard' \subseteq Unheard /\ Fading' \subseteq Fading /\ UNCHANGED <<pods, touched>>
  BY InwardWatched DEF Inward, Untouched
<1>2. /\ sync.stage = "claim" /\ sync.adopt = {} /\ ~sync.err /\ sync.needs /\ ~sync.rs.deleting
      /\ sync \in Sync
  BY DEF manageReplicas, Claimed, At, TypeOK
<1>3. Unheard' = {} /\ Fading' = {} /\ Unseen = {}
  BY <1>1, <1>2 DEF Deciding, CreationInv, DeletionInv, Unseen
<1>4. /\ Replicas \ touched \subseteq sync.pods
      /\ sync.pods \subseteq Replicas \cup touched
  BY <1>2 DEF SyncInv, Listed, At
<1>5. Replicas' = Replicas /\ Replicas \in SUBSET Pod /\ touched' = touched
  BY <1>1 DEF Replicas
<1>6. Cardinality(Unheard') = 0
  BY <1>3, FS_EmptySet
<1>7. sync.pods \in SUBSET Pod /\ sync.rs.replicas \in Nat
  <2>1. sync.rs \in RSObject /\ sync.rs.exists
    BY <1>2 DEF StageInv, Sync
  <2> QED
    BY <1>2, <2>1, RSFacts DEF Sync
<1>8. ASSUME NEW few \in Nat \ {0}, Missing(few)
      PROVE  CreationInv' /\ DeletionInv' /\ SyncInv'
  <2>1. /\ Cardinality(sync.pods) + few <= sync.rs.replicas /\ few \in Nat
        /\ exp' = [exists |-> TRUE, add |-> few, del |-> 0, expired |-> FALSE] /\ UNCHANGED uids
        /\ sync' = [Idle EXCEPT !.stage = "create", !.rs = sync.rs,
                                !.remaining = few, !.batch = 1, !.calls = 1]
    BY <1>8 DEF Missing, ExpectCreations, Expect
  <2>2. /\ sync'.stage = "create" /\ sync'.rs = sync.rs /\ sync'.remaining = few /\ sync'.batch = 1
        /\ sync'.calls = 1 /\ sync'.victims = {} /\ sync'.errs = 0
    BY <2>1 DEF Idle
  <2>3. At("create")' /\ ~Deciding' /\ ~At("claim")' /\ ~At("delete")' /\ Counted' /\ exp'.add = few
    BY <2>1, <2>2 DEF At, Deciding, Counted
  <2>4. ToCome' = few
    BY <2>1, <2>2 DEF ToCome, At
  <2>5. CreationInv'
    BY <1>6, <2>1, <2>3, <2>4 DEF CreationInv
  <2>6. Unseen' = {}
    BY <1>3, <2>2 DEF Unseen
  <2>7. DeletionInv'
    BY <2>3, <2>6 DEF DeletionInv
  <2> DEFINE mine == Replicas \ touched
  <2>8. mine \in SUBSET Pod /\ mine \subseteq sync.pods
    BY <1>4, <1>5
  <2>9. (Replicas \ touched)' = mine
    BY <1>5
  <2> HIDE DEF mine
  <2>10. Cardinality(mine) \in Nat /\ Cardinality(sync.pods) \in Nat
         /\ Cardinality(mine) <= Cardinality(sync.pods)
    BY <1>7, <2>8, FewerPods
  <2>11. Cardinality(mine) + 1 + few - 1 <= sync.rs.replicas
    BY <1>7, <2>1, <2>10
  <2>12. SyncInv'
    BY <2>2, <2>3, <2>9, <2>11 DEF SyncInv
  <2> QED
    BY <2>5, <2>7, <2>12
<1>9. ASSUME NEW victims \in SUBSET sync.pods, Surplus(victims)
      PROVE  CreationInv' /\ DeletionInv' /\ SyncInv'
  <2>1. /\ Cardinality(sync.pods \ victims) >= sync.rs.replicas
        /\ exp' = [exists |-> TRUE, add |-> 0, del |-> Cardinality(victims), expired |-> FALSE]
        /\ uids' = victims
        /\ sync' = [sync EXCEPT !.stage = "delete", !.victims = victims]
    BY <1>9 DEF Surplus, ExpectDeletions, Expect
  <2>2. /\ sync'.stage = "delete" /\ sync'.victims = victims /\ sync'.rs = sync.rs
        /\ sync'.pods = sync.pods
    BY <1>2, <2>1 DEF Sync
  <2>3. ~At("create")' /\ ~Deciding' /\ ~At("claim")' /\ At("delete")' /\ Counted'
        /\ exp'.add = 0 /\ exp'.del = Cardinality(victims)
    BY <2>1, <2>2 DEF At, Deciding, Counted
  <2>4. ToCome' = 0
    BY <2>3 DEF ToCome
  <2>5. CreationInv'
    BY <1>6, <2>3, <2>4 DEF CreationInv
  <2>6. Unseen' \subseteq victims
    BY <1>3, <2>2 DEF Unseen
  <2>7. Cardinality(victims) \in Nat
    BY <1>7, FinitePods
  <2>8. DeletionInv'
    BY <2>1, <2>3, <2>6, <2>7 DEF DeletionInv
  <2>9. (sync'.pods \ sync'.victims) \cap (Replicas' \cup touched') = sync.pods \ victims
    BY <1>4, <1>5, <2>2
  <2>10. sync'.victims \subseteq Replicas' \cup touched'
    BY <1>4, <1>5, <2>2
  <2>11. SyncInv'
    BY <2>1, <2>2, <2>3, <2>9, <2>10 DEF SyncInv
  <2> QED
    BY <2>5, <2>8, <2>11
<1>10. CASE ToStatus(FALSE) /\ UNCHANGED <<exp, uids>>
  <2>1. sync'.stage = "status" /\ sync'.victims = {}
    BY <1>10, IdleType DEF ToStatus, Sync
  <2>2. Unseen' \subseteq Unseen
    BY <1>3, <2>1 DEF Unseen
  <2> QED
    BY <1>1, <1>10, <2>1, <2>2, SyncEnds
<1> QED
  BY <1>8, <1>9, <1>10, Managed

LEMMA CreateNumbers ==
    ASSUME TypeOK, StageInv, At("create")
    PROVE  /\ sync.calls \in Nat /\ sync.errs \in Nat /\ sync.remaining \in Nat /\ sync.batch \in Nat
           /\ sync.batch >= 1 /\ sync.remaining >= sync.batch /\ sync.rs.replicas \in Nat
           /\ sync.victims = {} /\ Rest \in Nat
           /\ ToCome = sync.calls + sync.errs + Rest
<1>1. /\ sync.calls \in Nat /\ sync.errs \in Nat /\ sync.remaining \in Nat /\ sync.batch \in Nat
      /\ sync.batch >= 1 /\ sync.remaining >= sync.batch /\ sync.victims = {}
      /\ sync.rs \in RSObject /\ sync.rs.exists
  BY DEF TypeOK, Sync, StageInv, At
<1>2. Rest \in Nat /\ ToCome = sync.calls + sync.errs + Rest
  BY <1>1 DEF Rest, ToCome
<1> QED
  BY <1>1, <1>2, RSFacts

LEMMA BatchCounted ==
    ASSUME TypeOK, StageInv, WatchInv, TypeOK', StageInv', CreationInv, DeletionInv, SyncInv,
           slowStartBatch
    PROVE  CreationInv' /\ DeletionInv' /\ SyncInv'
<1>1. /\ Unheard' \subseteq Unheard /\ Fading' \subseteq Fading /\ UNCHANGED <<pods, touched>>
  BY InwardWatched DEF Inward, Untouched
<1>2. At("create") /\ sync.calls = 0 /\ sync \in Sync /\ sync.stage = "create"
  BY DEF slowStartBatch, TypeOK, At
<1>3. /\ sync.errs \in Nat /\ sync.remaining \in Nat /\ sync.batch \in Nat /\ Rest \in Nat
      /\ sync.rs.replicas \in Nat /\ sync.victims = {} /\ ToCome = sync.calls + sync.errs + Rest
  BY <1>2, CreateNumbers
<1>4. ToCome = sync.errs + Rest /\ ToCome \in Nat
  BY <1>2, <1>3
<1>5. Counted /\ Cardinality(Unheard) + ToCome <= exp.add
  BY <1>2 DEF CreationInv
<1>6. ASSUME NEW err, ToStatus(err)
      PROVE  sync'.stage = "status" /\ sync'.victims = {} /\ Unseen' \subseteq Unseen
  <2>1. sync'.stage = "status" /\ sync'.victims = {}
    BY <1>6, IdleType DEF ToStatus, Sync
  <2> QED
    BY <1>1, <2>1 DEF Unseen
<1>7. CASE CreationObserved(Rest + sync.errs) /\ ToStatus(TRUE)
  <2> DEFINE k == Rest + sync.errs
  <2>1. /\ exp \in Expectation /\ k \in Int /\ 0 \in Int
        /\ exp' = LowerExpectations(exp, k, 0) /\ UNCHANGED uids
    BY <1>3, <1>7 DEF CreationObserved, TypeOK
  <2> HIDE DEF k
  <2>2. /\ exp'.exists = exp.exists
        /\ exp.exists => /\ exp'.expired = exp.expired /\ exp'.add = exp.add - k /\ exp'.del = exp.del - 0
                         /\ exp.add \in Int /\ exp.del \in Int
    BY ONLY <2>1, Lowered
  <2>3. /\ Counted' /\ exp'.add = exp.add - k /\ exp'.del = exp.del /\ exp.add \in Int
    BY <1>5, <2>2 DEF Counted
  <2>4. Unheard \in SUBSET Pod /\ Unheard' \in SUBSET Pod
    BY <1>1 DEF Unheard
  <2>5. /\ Cardinality(Unheard) \in Nat /\ Cardinality(Unheard') \in Nat
        /\ Cardinality(Unheard') <= Cardinality(Unheard)
    BY <1>1, <2>4, FewerPods
  <2>6. ~At("create")' /\ ~Deciding' /\ ~At("claim")' /\ ~At("delete")' /\ Unseen' \subseteq Unseen
    BY <1>6, <1>7 DEF At, Deciding
  <2>7. ToCome' = 0
    BY <2>6 DEF ToCome
  <2>8. Cardinality(Unheard') + ToCome' <= exp'.add
    BY <1>3, <1>4, <1>5, <2>3, <2>5, <2>7 DEF k
  <2>9. CreationInv'
    BY <2>3, <2>6, <2>8 DEF CreationInv
  <2>10. DeletionInv'
    BY <2>1, <2>3, <2>6 DEF DeletionInv
  <2>11. SyncInv'
    BY <2>6 DEF SyncInv
  <2> QED
    BY <2>9, <2>10, <2>11
<1>8. CASE ToStatus(FALSE) /\ UNCHANGED <<exp, uids>>
  BY <1>1, <1>6, <1>8, SyncEnds
<1>9. ASSUME NEW batch \in Nat \ {0}, batch <= Rest, NextBatch(Rest, batch)
      PROVE  CreationInv' /\ DeletionInv' /\ SyncInv'
  <2> DEFINE rest == Rest
  <2>1. /\ sync.errs = 0 /\ UNCHANGED <<exp, uids>> /\ rest \in Nat
        /\ sync' = [sync EXCEPT !.remaining = rest, !.batch = batch, !.calls = batch]
    BY <1>3, <1>9 DEF NextBatch
  <2>2. rest = sync.remaining - sync.batch
    BY DEF Rest
  <2>3. ToCome = rest
    BY <1>2, <1>3, <2>1
  <2> HIDE DEF rest
  <2>4. /\ sync'.stage = "create" /\ sync'.remaining = rest /\ sync'.batch = batch
        /\ sync'.calls = batch /\ sync'.errs = 0 /\ sync'.rs = sync.rs /\ sync'.victims = sync.victims
    BY <1>2, <2>1 DEF Sync
  <2>5. At("create")' /\ ~Deciding' /\ ~At("claim")' /\ ~At("delete")'
    BY <2>4 DEF At, Deciding
  <2>6. ToCome' = batch + 0 + rest - batch
    BY <2>4, <2>5 DEF ToCome
  <2>7. ToCome' <= ToCome
    BY <2>1, <2>3, <2>6
  <2>8. CreationInv'
    BY <1>1, <1>2, <2>1, <2>5, <2>7, CreationStays DEF Counted
  <2>9. Unseen' \subseteq Unseen
    BY <1>1, <2>4 DEF Unseen
  <2>10. DeletionInv'
    BY <2>1, <2>5, <2>9, DeletionStays
  <2> DEFINE mine == Replicas \ touched
  <2>11. (Replicas \ touched)' = mine
    BY <1>1 DEF Replicas
  <2>12. Cardinality(mine) \in Nat
    BY FinitePods DEF Replicas
  <2>13. Cardinality(mine) + sync.calls + sync.remaining - sync.batch <= sync.rs.replicas
    BY <1>2 DEF SyncInv
  <2> HIDE DEF mine
  <2>14. Cardinality(mine) + batch + rest - batch <= sync.rs.replicas
    BY <1>2, <1>3, <2>1, <2>2, <2>12, <2>13
  <2>15. SyncInv'
    BY <2>4, <2>5, <2>11, <2>14 DEF SyncInv
  <2> QED
    BY <2>8, <2>10, <2>15
<1> QED
  BY <1>7, <1>8, <1>9, Batched

LEMMA OnePodMore ==
    ASSUME NEW S \in SUBSET Pod, NEW p \in Pod
    PROVE  Cardinality(S) \in Nat /\ Cardinality(S \cup {p}) <= Cardinality(S) + 1
<1>1. IsFiniteSet(S) /\ Cardinality(S) \in Nat
  BY FinitePods
<1>2. CASE p \in S
  <2>1. Cardinality(S \cup {p}) = Cardinality(S)
    BY <1>1, <1>2, FS_AddElement
  <2> QED
    BY <1>1, <2>1
<1>3. CASE p \notin S
  <2>1. Cardinality(S \cup {p}) = Cardinality(S) + 1
    BY <1>1, <1>3, FS_AddElement
  <2> QED
    BY <1>1, <2>1
<1> QED
  BY <1>2, <1>3

LEMMA CreateCounted ==
    ASSUME TypeOK, StageInv, WatchInv, TypeOK', StageInv', Reliable',
           CreationInv, DeletionInv, SyncInv, CreatePod
    PROVE  CreationInv' /\ DeletionInv' /\ SyncInv'
<1>1. At("create") /\ sync.calls > 0 /\ UNCHANGED <<exp, uids>> /\ ~misled' /\ sync.stage = "create"
  BY CreateCalled DEF Reliable, At
<1>2. /\ sync.calls \in Nat /\ sync.errs \in Nat /\ sync.remaining \in Nat /\ sync.batch \in Nat
      /\ Rest \in Nat /\ sync.rs.replicas \in Nat /\ sync.victims = {}
      /\ ToCome = sync.calls + sync.errs + Rest
  BY <1>1, CreateNumbers
<1>3. /\ sync'.calls = sync.calls - 1 /\ Fading' \subseteq Fading
      /\ UNCHANGED <<sync.stage, sync.rs, sync.needs, sync.remaining, sync.batch, sync.victims>>
  BY CreationWatched
<1>4. At("create")' /\ ~Deciding' /\ ~At("claim")' /\ ~At("delete")'
  BY <1>1, <1>3 DEF At, Deciding
<1>5. Unseen' \subseteq Unseen
  BY <1>2, <1>3 DEF Unseen
<1>6. DeletionInv'
  BY <1>1, <1>4, <1>5, DeletionStays
<1>7. Counted /\ Counted' /\ Cardinality(Unheard) + ToCome <= exp.add /\ exp.add \in Int
  BY <1>1, ExpectationTypes DEF CreationInv, Counted, TypeOK
<1>8. ToCome' = sync'.calls + sync'.errs + sync'.remaining - sync'.batch
  BY <1>4 DEF ToCome
<1>9. Rest = sync.remaining - sync.batch
  BY DEF Rest
<1> DEFINE mine == Replicas \ touched
           later == Replicas' \ touched'
           left == sync.calls - 1
<1>10. mine \in SUBSET Pod /\ later \in SUBSET Pod
  BY DEF Replicas
<1>11. Cardinality(mine) + sync.calls + sync.remaining - sync.batch <= sync.rs.replicas
  BY <1>1 DEF SyncInv
<1>12. ASSUME Cardinality(later) + left + sync.remaining - sync.batch <= sync.rs.replicas
       PROVE  SyncInv'
  BY <1>3, <1>4, <1>12 DEF SyncInv
<1>13. Cardinality(mine) \in Nat /\ Cardinality(later) \in Nat
  BY <1>10, FinitePods
<1>14. CASE Untouched /\ UNCHANGED touched /\ Unheard' \subseteq Unheard
  <2>1. later = mine
    BY <1>14 DEF Untouched, Replicas
  <2> HIDE DEF later, mine
  <2>2. Cardinality(later) + left + sync.remaining - sync.batch <= sync.rs.replicas
    BY <1>2, <1>11, <1>13, <2>1
  <2>3. sync'.errs = sync.errs + 1 \/ sync'.errs = sync.errs
    BY <1>1, CreationWatched
  <2>4. ToCome' <= ToCome
    BY <1>2, <1>3, <1>8, <1>9, <2>3
  <2>5. CreationInv'
    BY <1>1, <1>4, <1>14, <2>4, CreationStays DEF Counted
  <2> QED
    BY <1>6, <1>12, <2>2, <2>5
<1>15. ASSUME NEW p \in Pod, Free(p), touched' = touched \ {p}, pods' = [pods EXCEPT ![p] = NewPod],
              Unheard' \subseteq Unheard \cup {p}
       PROVE  CreationInv' /\ DeletionInv' /\ SyncInv'
  <2>1. pods \in [Pod -> PodObject]
    BY DEF TypeOK, WatchTypes
  <2>2. ~Untouched
    <3>1. pods'[p].exists /\ ~pods[p].exists
      BY <1>15, <2>1 DEF Free, NewPod
    <3> QED
      BY <3>1 DEF Untouched
  <2>3. sync'.errs = sync.errs
    BY <1>1, <2>2, CreationWatched
  <2>4. ToCome' + 1 = ToCome /\ ToCome' \in Nat
    BY <1>1, <1>2, <1>3, <1>8, <1>9, <2>3
  <2>5. Unheard \in SUBSET Pod /\ Unheard \cup {p} \in SUBSET Pod /\ Unheard' \in SUBSET Pod
    BY <1>15 DEF Unheard
  <2>6. Cardinality(Unheard) \in Nat /\ Cardinality(Unheard \cup {p}) <= Cardinality(Unheard) + 1
    BY <2>5, OnePodMore
  <2>7. Cardinality(Unheard') \in Nat /\ Cardinality(Unheard \cup {p}) \in Nat
        /\ Cardinality(Unheard') <= Cardinality(Unheard \cup {p})
    BY <1>15, <2>5, FewerPods
  <2>8. Cardinality(Unheard') + ToCome' <= exp'.add
    BY <1>1, <1>7, <2>4, <2>6, <2>7
  <2>9. CreationInv'
    BY <1>4, <1>7, <2>8 DEF CreationInv
  <2>10. later \subseteq mine \cup {p}
    BY <1>15, <2>1 DEF Replicas
  <2>11. mine \cup {p} \in SUBSET Pod
    BY <1>10
  <2> HIDE DEF later, mine
  <2>12. Cardinality(mine \cup {p}) <= Cardinality(mine) + 1
    BY <1>10, OnePodMore
  <2>13. Cardinality(mine \cup {p}) \in Nat /\ Cardinality(later) <= Cardinality(mine \cup {p})
    BY <1>10, <2>10, <2>11, FewerPods
  <2>14. Cardinality(later) + left + sync.remaining - sync.batch <= sync.rs.replicas
    BY <1>2, <1>11, <1>13, <2>12, <2>13
  <2> QED
    BY <1>6, <1>12, <2>9, <2>14
<1> QED
  BY <1>14, <1>15, CreationWatched

LEMMA DeleteCounted ==
    ASSUME TypeOK, StageInv, WatchInv, TypeOK', StageInv', Reliable',
           CreationInv, DeletionInv, SyncInv, NEW p \in Pod, DeletePod(p)
    PROVE  CreationInv' /\ DeletionInv' /\ SyncInv'
<1>1. /\ Unheard' \subseteq Unheard /\ Fading' \subseteq Fading \cup {p}
      /\ Untouched => Fading' \subseteq Fading
      /\ \A q \in Pod \ {p} : pods'[q] = pods[q]
      /\ p \in sync.victims /\ UNCHANGED touched
  BY DeletionWatched
<1>2. \/ sync'.stage = "status" /\ sync'.victims = {} /\ sync.victims = {p}
      \/ /\ sync'.stage = "delete" /\ sync'.victims = sync.victims \ {p}
         /\ sync'.rs = sync.rs /\ sync'.pods = sync.pods
  BY DeletionWatched
<1>3. /\ At("delete") /\ sync.stage = "delete" /\ ~misled'
      /\ \/ UNCHANGED <<exp, uids>>
         \/ DeletionObserved(p) /\ Untouched
  BY DeleteCalled DEF Reliable, At
<1>4. ~At("create")' /\ ~Deciding' /\ ~At("claim")' /\ (At("delete")' <=> sync'.stage = "delete")
  BY <1>2 DEF At, Deciding
<1>5. ToCome' <= ToCome
  BY <1>4, ToComeType DEF ToCome
<1>6. /\ sync.victims \subseteq Replicas \cup touched
      /\ Cardinality((sync.pods \ sync.victims) \cap (Replicas \cup touched)) >= sync.rs.replicas
  BY <1>3 DEF SyncInv
<1>7. sync'.victims = sync.victims \ {p}
  BY <1>2
<1>8. Unseen' \subseteq Unseen
  <2>1. Fading' \cap touched = {}
    BY <1>1 DEF Fading
  <2> QED
    BY <1>1, <1>7, <2>1 DEF Unseen
<1>9. CreationInv' /\ DeletionInv'
  <2>1. CASE UNCHANGED <<exp, uids>>
    <3>1. CreationInv'
      BY <1>1, <1>4, <1>5, <2>1, CreationStays DEF Counted
    <3>2. DeletionInv'
      BY <1>4, <1>8, <2>1, DeletionStays
    <3> QED
      BY <3>1, <3>2
  <2>2. CASE DeletionObserved(p) /\ Untouched
    <3>1. p \notin Fading
      BY <1>1, <1>6 DEF Fading, Replicas, Replica, Ready
    <3>2. Unseen' \subseteq Unseen \ {p}
      BY <1>1, <1>7, <1>8, <2>2, <3>1 DEF Unseen
    <3> QED
      BY <1>1, <1>4, <1>5, <2>2, <3>2, DeletionIsHeard
  <2> QED
    BY <1>3, <2>1, <2>2
<1>10. CASE sync'.stage = "status"
  <2>1. SyncInv'
    BY <1>4, <1>10 DEF SyncInv
  <2> QED
    BY <1>9, <2>1
<1>11. CASE sync'.stage = "delete" /\ sync'.rs = sync.rs /\ sync'.pods = sync.pods
  <2> DEFINE old == (sync.pods \ sync.victims) \cap (Replicas \cup touched)
             new == (sync'.pods \ sync'.victims) \cap (Replicas' \cup touched')
  <2>1. \A q \in Pod \ {p} : q \in Replicas' <=> q \in Replicas
    BY <1>1 DEF Replicas
  <2>2. sync.pods \subseteq Pod /\ sync.victims \subseteq Pod /\ sync.rs \in RSObject /\ sync.rs.exists
    BY <1>3 DEF TypeOK, Sync, StageInv
  <2>3. sync'.victims \subseteq Replicas' \cup touched'
    BY <1>1, <1>6, <1>7, <2>1, <2>2
  <2>4. old \subseteq new /\ old \in SUBSET Pod /\ new \in SUBSET Pod
    BY <1>1, <1>7, <1>11, <2>1, <2>2
  <2>5. Cardinality(old) >= sync.rs.replicas
    BY <1>6
  <2> HIDE DEF old, new
  <2>6. Cardinality(old) \in Nat /\ Cardinality(new) \in Nat /\ Cardinality(old) <= Cardinality(new)
    BY <2>4, FewerPods
  <2>7. sync.rs.replicas \in Nat
    BY <2>2, RSFacts
  <2>8. Cardinality(new) >= sync.rs.replicas
    BY <2>5, <2>6, <2>7
  <2>9. SyncInv'
    BY <1>4, <1>11, <2>3, <2>8 DEF SyncInv, new
  <2> QED
    BY <1>9, <2>9
<1> QED
  BY <1>2, <1>10, <1>11

\* The steps that begin and end a sync.
LEMMA EdgesCounted ==
    ASSUME TypeOK, StageInv, WatchInv, TypeOK', StageInv', Reliable,
           CreationInv, DeletionInv, SyncInv, Start \/ ClaimFails \/ NoManage \/ UpdateStatus
    PROVE  CreationInv' /\ DeletionInv' /\ SyncInv'
<1>1. /\ Unheard' \subseteq Unheard /\ Fading' \subseteq Fading /\ UNCHANGED touched
  BY InwardWatched DEF Inward
<1>2. UNCHANGED <<exp, uids>>
  BY DEF Start, ClaimFails, NoManage, UpdateStatus, Reliable
<1>3. sync'.stage \in {"idle", "check", "status"} /\ sync'.victims = {}
  <2>1. CASE Start
    BY <2>1, IdleType DEF Start, Reliable, Sync
  <2>2. CASE ClaimFails \/ UpdateStatus
    BY <2>2, IdleType DEF ClaimFails, UpdateStatus, Return
  <2>3. CASE NoManage
    BY <2>3, IdleType DEF NoManage, ToStatus, Sync
  <2> QED
    BY <2>1, <2>2, <2>3
<1>4. Unseen' \subseteq Unseen
  BY <1>1, <1>3 DEF Unseen
<1> QED
  BY <1>1, <1>2, <1>3, <1>4, SyncEnds

LEMMA InvariantHolds ==
    ASSUME Init
    PROVE  IInv
<1>1. TypeOK /\ StageInv /\ WatchInv
  BY InitTypes, InitWatch
<1>2. log = <<>> /\ notes = <<>> /\ sync = Idle /\ exp = NoExp
  BY DEF Init
<1>3. sync.stage = "idle" /\ ~exp.exists
  BY <1>2, IdleType DEF NoExp
<1>4. Unheard = {} /\ Unseen = {}
  BY <1>1, <1>2, <1>3, NothingIsLeft
<1>5. CreationInv /\ DeletionInv /\ SyncInv
  BY <1>3, <1>4 DEF CreationInv, DeletionInv, SyncInv, Counted, Deciding, At
<1> QED
  BY <1>1, <1>5 DEF IInv

LEMMA InvariantKept ==
    ASSUME IInv, [Next]_vars
    PROVE  IInv'
<1>1. TypeOK /\ StageInv /\ WatchInv
  BY DEF IInv
<1>2. TypeOK' /\ StageInv'
  BY <1>1, TypesKept
<1>3. WatchInv'
  BY <1>1, WatchKept
<1>4. ASSUME Reliable'
      PROVE  CreationInv' /\ DeletionInv' /\ SyncInv'
  <2>1. Reliable
    BY <1>1, <1>4, ReliableBefore
  <2>2. CreationInv /\ DeletionInv /\ SyncInv
    BY <2>1 DEF IInv
  <2>3. CASE Worker
    <3>1. CASE Start \/ ClaimFails \/ NoManage \/ UpdateStatus
      BY <1>1, <1>2, <2>1, <2>2, <3>1, EdgesCounted
    <3>2. CASE Check
      BY <1>1, <1>2, <2>2, <3>2, CheckCounted
    <3>3. CASE ListPods
      BY <1>1, <1>2, <2>2, <3>3, ListCounted
    <3>4. CASE manageReplicas
      BY <1>1, <1>2, <2>2, <3>4, ManageCounted
    <3>5. CASE slowStartBatch
      BY <1>1, <1>2, <2>2, <3>5, BatchCounted
    <3>6. CASE CreatePod
      BY <1>1, <1>2, <1>4, <2>2, <3>6, CreateCounted
    <3>7. ASSUME NEW p \in Pod, AdoptPod(p) \/ ReleasePod(p)
          PROVE  CreationInv' /\ DeletionInv' /\ SyncInv'
      BY <1>1, <1>2, <2>2, <3>7, ClaimCounted
    <3>8. ASSUME NEW p \in Pod, DeletePod(p)
          PROVE  CreationInv' /\ DeletionInv' /\ SyncInv'
      BY <1>1, <1>2, <1>4, <2>2, <3>8, DeleteCounted
    <3> QED
      BY <2>3, <3>1, <3>2, <3>3, <3>4, <3>5, <3>6, <3>7, <3>8 DEF Worker
  <2>4. CASE \/ HandlePod \/ HandleRS \/ Resync \/ Expires \/ PodStored \/ PodsRelisted
             \/ RSStored \/ PodRemoved \/ PodChanges \/ RSChanges
    BY <1>1, <1>2, <1>4, <2>1, <2>2, <2>4, EnvironmentCounted
  <2>5. CASE UNCHANGED vars
    <3>1. UNCHANGED <<pods, log, store, notes, exp, uids, sync, touched>>
      BY <2>5 DEF vars, watch
    <3>2. CreationInv'
      BY <2>2, <3>1 DEF CreationInv, Counted, Unheard, ToCome, Deciding, At
    <3>3. DeletionInv'
      BY <2>2, <3>1 DEF DeletionInv, Counted, Unseen, Fading, Deciding
    <3>4. SyncInv'
      BY <2>2, <3>1 DEF SyncInv, Listed, Replicas, At
    <3> QED
      BY <3>2, <3>3, <3>4
  <2> QED
    BY <2>3, <2>4, <2>5 DEF Next
<1> QED
  BY <1>2, <1>3, <1>4 DEF IInv

-----------------------------------------------------------------------------
(***************************************************************************)
(* What holds of every behaviour                                           *)
(***************************************************************************)
\* Whatever others do and whatever fails, the pods, the caches, the expectations and
\* the worker keep their types; rsLister does not lose a ReplicaSet that exists.
THEOREM TypeCorrect == Spec => []TypeOK
<1>1. Init => TypeOK /\ StageInv
  BY InitTypes
<1>2. TypeOK /\ StageInv /\ [Next]_vars => (TypeOK /\ StageInv)'
  BY TypesKept
<1> QED
  BY <1>1, <1>2, PTL DEF Spec

\* The inductive invariant: the watch delivers each pod's versions in order, the
\* expectations cover every creation and deletion that the lister does not show, and
\* the worker's list tells it which pods are missing or too many.
THEOREM Invariant == Spec => []IInv
<1>1. Init => IInv
  BY InvariantHolds
<1>2. IInv /\ [Next]_vars => IInv'
  BY InvariantKept
<1> QED
  BY <1>1, <1>2, PTL DEF Spec

\* Nobody but CreatePod creates a pod of the ReplicaSet.
LEMMA OnlyTheWorkerCreates ==
    ASSUME TypeOK, StageInv, WatchInv, [Next]_vars, NEW p \in Pod,
           ~pods[p].exists, pods'[p].exists, pods'[p].owned
    PROVE  CreatePod
<1>1. ~Untouched
  BY DEF Untouched
<1>2. pods \in [Pod -> PodObject]
  BY DEF TypeOK, WatchTypes
<1>3. ASSUME NEW q \in Pod, pods[q].exists, \A r \in Pod \ {q} : pods'[r] = pods[r]
      PROVE  FALSE
  BY <1>3
<1>4. ASSUME NEW q \in Pod, NEW pod, StorePod(q, pod), pods[q].exists
      PROVE  FALSE
  BY <1>2, <1>3, <1>4 DEF StorePod
<1>5. CASE Worker
  <2>1. ~Inward
    BY <1>1, InwardWatched
  <2>2. ~ListPods
    BY <1>1, Lists
  <2>3. ASSUME NEW q \in Pod, NEW owned \in BOOLEAN, PatchPod(q, owned)
        PROVE  FALSE
    BY <1>1, <1>4, <2>3 DEF PatchPod, Untouched
  <2>4. ASSUME NEW q \in Pod, AdoptPod(q)
        PROVE  FALSE
    BY <1>1, <2>3, <2>4, Adopted DEF Adopts
  <2>5. ASSUME NEW q \in Pod, ReleasePod(q)
        PROVE  FALSE
    BY <1>1, <2>3, <2>5, Released DEF Releases
  <2>6. ASSUME NEW q \in Pod, DeletePod(q)
        PROVE  FALSE
    BY <1>1, <1>4, <2>6, DeleteCalled DEF Deletes
  <2> QED
    BY <1>5, <2>1, <2>2, <2>4, <2>5, <2>6 DEF Worker, Inward
<1>6. UNCHANGED pods => FALSE
  OBVIOUS
<1>7. ~HandlePod
  BY <1>6, Handles
<1>8. ~(HandleRS \/ Resync \/ Expires \/ PodStored \/ PodsRelisted \/ RSStored \/ RSChanges
        \/ UNCHANGED vars)
  BY <1>6 DEF HandleRS, Resync, Expires, PodStored, PodsRelisted, RSStored, RSChanges, vars
<1>9. ~PodRemoved
  BY <1>4 DEF PodRemoved
<1>10. ~PodChanges
  <2>1. SUFFICES ASSUME PodChanges PROVE FALSE
    OBVIOUS
  <2>2. PICK q \in Pod : \/ StorePod(q, [NewPod EXCEPT !.owned = FALSE])
                         \/ pods[q].exists /\ \E pod : StorePod(q, pod)
    BY <2>1 DEF PodChanges
  <2>3. CASE StorePod(q, [NewPod EXCEPT !.owned = FALSE])
    <3>1. pods' = [pods EXCEPT ![q] = [NewPod EXCEPT !.owned = FALSE]]
      BY <2>3 DEF StorePod
    <3>2. ~[NewPod EXCEPT !.owned = FALSE].owned
      BY DEF NewPod
    <3> QED
      BY <1>2, <3>1, <3>2
  <2> QED
    BY <1>4, <2>2, <2>3
<1> QED
  BY <1>5, <1>7, <1>8, <1>9, <1>10 DEF Next

\* A pod is created only when one is missing at the API server: whatever the lister
\* shows, however the events are delayed and however often the controller syncs, the
\* pods that it has created before and cannot see yet are counted.
THEOREM MissingIsCreated == Spec => CreatesOnlyMissing
<1> DEFINE created == {p \in Pod : ~pods[p].exists /\ pods'[p].exists /\ pods'[p].owned}
           Step == created # {} /\ ~misled /\ rsStore.exists
                      => Cardinality(Replicas \ touched) < sync.rs.replicas
<1>1. ASSUME IInv, [Next]_vars
      PROVE  Step
  <2>1. SUFFICES ASSUME created # {}, ~misled, rsStore.exists
                 PROVE  Cardinality(Replicas \ touched) < sync.rs.replicas
    OBVIOUS
  <2>2. TypeOK /\ StageInv /\ WatchInv /\ SyncInv
    BY <1>1, <2>1 DEF IInv, Reliable
  <2>3. CreatePod
    BY <1>1, <2>1, <2>2, OnlyTheWorkerCreates
  <2>4. At("create") /\ sync.calls > 0
    BY <2>3, CreateCalled
  <2>5. /\ sync.calls \in Nat /\ sync.remaining \in Nat /\ sync.batch \in Nat
        /\ sync.remaining >= sync.batch /\ sync.rs.replicas \in Nat
    BY <2>2, <2>4, CreateNumbers
  <2> DEFINE mine == Replicas \ touched
  <2>6. Cardinality(mine) \in Nat
    BY FinitePods DEF Replicas
  <2>7. Cardinality(mine) + sync.calls + sync.remaining - sync.batch <= sync.rs.replicas
    BY <2>2, <2>4 DEF SyncInv
  <2> HIDE DEF mine
  <2>8. Cardinality(mine) < sync.rs.replicas
    BY <2>4, <2>5, <2>6, <2>7
  <2> QED
    BY <2>8 DEF mine
<1> QED
  BY <1>1, Invariant, PTL DEF Spec, CreatesOnlyMissing

\* A pod is deleted only when there is one too many: the pods that the worker has
\* deleted before and still sees in its lister are counted.
THEOREM SurplusIsDeleted == Spec => DeletesOnlySurplus
<1> DEFINE deleted == {p \in sync.victims : Replica(pods[p]) /\ ~Replica(pods'[p])}
           Step == At("delete") /\ sync' # sync /\ deleted # {} /\ ~misled /\ rsStore.exists
                      => Cardinality(Replicas \cup (sync.pods \cap touched)) > sync.rs.replicas
<1>1. ASSUME IInv
      PROVE  Step
  <2>1. SUFFICES ASSUME At("delete"), deleted # {}, ~misled, rsStore.exists
                 PROVE  Cardinality(Replicas \cup (sync.pods \cap touched)) > sync.rs.replicas
    OBVIOUS
  <2>2. TypeOK /\ StageInv /\ SyncInv
    BY <1>1, <2>1 DEF IInv, Reliable
  <2>3. sync.pods \in SUBSET Pod /\ sync.rs \in RSObject /\ sync.rs.exists /\ Replicas \in SUBSET Pod
        /\ sync.victims \subseteq sync.pods
    BY <2>1, <2>2 DEF TypeOK, Sync, StageInv, At, Replicas
  <2>4. sync.rs.replicas \in Nat
    BY <2>3, RSFacts
  <2>5. PICK q \in sync.victims : Replica(pods[q])
    BY <2>1
  <2> DEFINE all == Replicas \cup (sync.pods \cap touched)
             kept == (sync.pods \ sync.victims) \cap (Replicas \cup touched)
  <2>6. Cardinality(kept) >= sync.rs.replicas
    BY <2>1, <2>2 DEF SyncInv
  <2>7. q \in all /\ kept \subseteq all \ {q} /\ all \in SUBSET Pod /\ all \ {q} \in SUBSET Pod
        /\ kept \in SUBSET Pod
    BY <2>3, <2>5 DEF Replicas
  <2> HIDE DEF all, kept
  <2>8. Cardinality(all) \in Nat /\ Cardinality(all \ {q}) \in Nat
        /\ Cardinality(all) = Cardinality(all \ {q}) + 1
    BY <2>7, OnePodFewer
  <2>9. Cardinality(kept) \in Nat /\ Cardinality(kept) <= Cardinality(all \ {q})
    BY <2>7, FewerPods
  <2>10. Cardinality(all) > sync.rs.replicas
    BY <2>4, <2>6, <2>8, <2>9
  <2> QED
    BY <2>10 DEF all
<1> QED
  BY <1>1, Invariant, PTL DEF DeletesOnlySurplus
=============================================================================
