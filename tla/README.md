# A TLA+ model of Kubernetes' scheduler and of the machinery its controllers share

The repository is an annotated copy of Kubernetes (1.21/1.22 development tree). This
directory models the part of it whose correctness depends on the order of concurrent
steps: what every controller is built on (the work queue and its delayed and
rate-limited form, informers, leader election), one controller that is built on it
(ReplicaSet), and the scheduler with its cache and its queue.  The line numbers below
are those of the files under `src/`.

## Inventory

| Component | State | Operations | What is hard | What makes it correct |
|---|---|---|---|---|
| Work queue, `client-go/util/workqueue/queue.go` | `queue`, `dirty`, `processing`, `shuttingDown`, a condition variable | `Add`, `Get`, `Done`, `ShutDown` | several producers and workers, one `Signal` per item, re-adding an item that is held, shutdown while work is pending | one holder per item, nothing accepted is lost, no lost wake-up, workers end after shutdown |
| Delaying and rate-limited queue, `delaying_queue.go`, `rate_limiting_queue.go`, `default_rate_limiters.go` | heap of (item, deadline), `waitingForAddCh`, per-item failure counts | `AddAfter`, `waitingLoop`, `AddRateLimited`, `Forget`, `When` | the loop against the clock, the bounded channel and shutdown; the overflow edge of the exponential delay | never early, the earliest deadline wins, eventually added, delays monotone and capped |
| Scheduler cache, `pkg/scheduler/internal/cache` | `podStates`, `assumedPods`, `nodes` and their recency list, `nodeTree`, `imageStates`, the scheduler's `Snapshot` | `AssumePod`, `FinishBinding`, `ForgetPod`, `AddPod`, `UpdatePod`, `RemovePod`, `AddNode`, `UpdateNode`, `RemoveNode`, `cleanupAssumedPods`, `UpdateSnapshot` | assumed pods race with the informer's confirmation, expiry and removal; nodes disappear before their pods; the snapshot is refreshed incrementally by generation | every pod counted once on its node, a refreshed snapshot equals the cache, an assumed pod is confirmed, forgotten or expired |
| Scheduling queue, `pkg/scheduler/internal/queue` | `activeQ`, `podBackoffQ`, `unschedulableQ`, `schedulingCycle`, `moveRequestCycle`, nominator | `Add`, `Pop`, `AddUnschedulableIfNotPresent`, `Update`, `Delete`, `MoveAllToActiveOrBackoffQueue`, the two flushers | cluster events that arrive while a pod is being tried, updates and deletions of a pod that is in flight | a pod is in one sub-queue at a time, a pod tried across an event is retried, nobody waits for ever |
| Scheduler loop, `pkg/scheduler/scheduler.go`, `eventhandlers.go`, `factory.go` | the pod in the scheduling cycle, the binding goroutines | `scheduleOne`, `assume`, `bind`, `recordSchedulingFailure`, the informer event handlers | binding runs concurrently with the next cycles and with deletions, updates and expiry | no pod is bound twice, capacity is respected, a failed pod comes back |
| Informers, `client-go/tools/cache` | the reflector's `lastSyncResourceVersion`, `DeltaFIFO` (`items`, `queue`), indexer, `processorListener`s | list, watch, `Replace`, `Pop`, `HandleDeltas`, resync, `AddEventHandler` | a version that trails the store, relists after a broken watch, deletions nobody reported, several deltas of a key in one batch, handlers that join late and lag | the store and every handler follow the server's history, handlers agree, what is there arrives and what is gone is removed |
| Leader election, `client-go/tools/leaderelection` | the Lease's record, each client's observation of it and when it was made | `acquire`, `renew`, `release`, `tryAcquireOrRenew` | clocks instead of locks, lost answers, writes applied after their client gave up, slow successes, a release that takes its time, crashes | two lead at once only after a release or a slow success, a holder's lease is not taken early, a dead holder is replaced in bounded time |
| ReplicaSet controller, `pkg/controller/replicaset`, `controller_utils.go`, `controller_ref_manager.go` | expectations and the UIDs of deletions, the listers, the key in the work queue | the pod and ReplicaSet handlers, `syncReplicaSet`, `ClaimPods`, `manageReplicas`, `slowStartBatch` | the lister does not show yet what the last sync did; events come twice or never; calls fail or their answers are lost | no pod too many created or deleted, the number asked for is reached, nothing is left of a deleted ReplicaSet |
| Other controllers, `pkg/controller` | expectations, work queue keys | sync of Deployment, Job, DaemonSet, ... | as above | |
| API server storage, `apiserver/pkg/storage` | etcd3 store, `Cacher`, `watchCache` | `GuaranteedUpdate`, list and watch from cache | optimistic concurrency, watch windows | no lost update, watch without gaps |
| Kubelet, `pkg/kubelet` | pod workers, status manager, PLEG | sync loop | pod termination against updates | |
| kube-proxy, kubectl, kubeadm, cloud providers, generated clients, vendored code | | | node programming, command line, text | |

How the parts interact. An informer's reflector lists and watches the API server and
fills the `DeltaFIFO`; its process loop applies each key's deltas to the store and then
notifies the handlers, one goroutine per handler. A controller's handlers put keys into
a rate-limited queue, which is a delaying queue around a work queue; its workers read
from the store, call the API server and put the key back with a delay when that fails.
All of this runs in a process that leads while it holds its lease. The scheduler is
built on the same informers: pods without a node go to the scheduling queue, pods with
one to the cache. The loop pops a pod, refreshes its snapshot from the cache, chooses a
node, assumes the pod in the cache and leaves the rest to a binding goroutine, which
calls the API server; the informer confirms. Failures forget the pod in the cache and
return it to the queue, where cluster events, backoff and a timeout decide when it is
tried again.

In the models, `DelayingQueue` is composed with what `WorkQueueAbs` promises, and
`Scheduler` with `PriorityQueue` and with what `SchedulerCacheAbs` promises. `Scheduler`
and `ReplicaSet` have an API server and informers of their own, marked external: a
history or a log, a store that follows it and handlers that follow the store, which is
what `Informer` shows of the code, its finding apart.

## Plan

Done, in this order: work queue (the pattern every controller relies on), scheduler
cache, scheduling queue, the scheduler that composes the last two; delaying queue and
rate limiters on `WorkQueueAbs`; informers; leader election; the ReplicaSet controller
with its expectations; and the proof of every safety property of a passing run. Next:

1. A ReplicaSet created again under the name of a deleted one, and two ReplicaSets whose
   selectors overlap.
2. The scheduler's liveness; versions of a pod object in the cache; `waitingPodsMap`.
3. If there is room: optimistic updates and the watch window of the API server.

## Modules

| Module | Models | Uses |
|---|---|---|
| `WorkQueueAbs` | what the work queue promises: an item is dirty or not, held by at most one worker, and is started after it was added | |
| `WorkQueue`, `MCWorkQueue` | `queue.go` | implements `WorkQueueAbs` |
| `WorkQueueProofs` | theorems about `WorkQueue` | |
| `DelayingQueueAbs` | what the delaying queue promises: an entry is added at its deadline or when an earlier one of its item is, never before, and not lost | |
| `DelayingQueue`, `MCDelayingQueue` | `delaying_queue.go`, `rate_limiting_queue.go`, `default_rate_limiters.go` | instantiates `WorkQueueAbs`, implements `DelayingQueueAbs` |
| `DelayingQueueProofs` | theorems about `DelayingQueue` | |
| `Informer`, `MCInformer` | `reflector.go`, `delta_fifo.go`, `controller.go`, `shared_informer.go` | |
| `InformerProofs` | theorems about `Informer` | `SequenceLemmas` |
| `LeaderElection`, `MCLeaderElection` | `leaderelection.go`, `leaselock.go` | |
| `LeaderElectionProofs` | theorems about `LeaderElection` | |
| `ReplicaSet`, `MCReplicaSet` | `replica_set.go`, `replica_set_utils.go`, `controller_utils.go`, `controller_ref_manager.go` | |
| `ReplicaSetProofs` | theorems about `ReplicaSet` | `SequenceLemmas` |
| `SchedulerCacheAbs` | `interface.go`: the state machine of a pod, and what a snapshot is | |
| `SchedulerCache`, `MCSchedulerCache` | `cache.go`, `node_tree.go`, `snapshot.go` and the callers in `scheduler.go` and `eventhandlers.go` | implements `SchedulerCacheAbs` |
| `SchedulerCacheProofs` | theorems about `SchedulerCache` | `SequenceLemmas` |
| `PriorityQueue` | the methods of `scheduling_queue.go`, and `QueueSpec`: any client calling them | |
| `SchedulingQueue`, `MCSchedulingQueue` | the queue with handlers, attempts, events, Run's goroutines and the clock | extends `PriorityQueue` |
| `Scheduler`, `MCScheduler` | `scheduleOne`, `bind`, `recordSchedulingFailure`, `MakeDefaultErrorFunc`, the pod handlers | extends `PriorityQueue`, instantiates `SchedulerCacheAbs` |
| `SchedulerProofs` | theorems about `PriorityQueue`, `SchedulingQueue` and `Scheduler` | |
| `SeqFilter` | the loops that drop elements of a slice, as a recursive function | extended by `Informer` and `SchedulerCache` |
| `SequenceLemmas` | what filtering, flattening and listing a set do to a sequence; induction along a segment of the naturals | |

### WorkQueue

`queue`, `dirty`, `processing` and `shuttingDown` are the fields of `Type`; `pc` is
where each worker is in its loop: idle, parked in `cond.Wait`, woken, holding an item,
or finished. A method holds the lock throughout, so it is a step; `Get` is split where
`cond.Wait` releases the lock (`GetWait`), and a woken worker competes with the others
for the lock. `Signal` wakes any one parked worker. Metrics are left out.

### DelayingQueue

`pending`, `active` and `closed` are the embedded queue, changed only by the actions of
`WorkQueueAbs`. `channel` is `waitingForAddCh`, `waiting` the heap with its index
(`waitingEntryByData`): one deadline per item. `loop` is where `waitingLoop` is, with
the `now` it read and the timer it set from it, which may both be old when they are
used. `call` is where a caller of `AddAfter` is: about to `Add`, or blocked in the
`select` that sends. `beat` is the heartbeat's one tick. `ShutDown` is two steps, the
embedded queue and then `stopCh`, because everybody may see the first before the second.
The limiters are functions of an item's `failures`; the token bucket answers any of
`BucketDelay`. `ExponentialWhen` keeps the width of a `time.Duration`: the backoff is
compared with `math.MaxInt64` as a float64, where it rounds up to 2^63, so exactly 2^63
passes and its conversion is left to the processor. A base delay that is a power of two
nanoseconds reaches it after enough failures; `Converted` models that, and the run uses
a base delay that is not (as the code's 5 ms is not).

### Informer

`log` is the collection's history; the number of a write is its resource version, and an
object is the version that wrote it. `reflector` is where `ListAndWatch` is: about to
list, with a list in hand, with a list in the store, about to watch, watching, with an
event in the store. The two states with something in the store are there because the
reflector writes to the store first and sets `lastSyncResourceVersion` afterwards
(`setLastSyncResourceVersion`), without a lock: `Pop`, handlers and resyncs run in
between, with objects newer than that version, which `reflector.go:83-85` and
`shared_informer.go:164-167` say of it too. `Written` is the version of what the store
was given, and what `StatesInOrder` compares with. `items` and `queue` are the
`DeltaFIFO`'s; `store` is the indexer. `pending` is what a listener has been given and
its handler has not, `view` what the handler has been told. Every method of the FIFO
holds its lock, and `Pop` holds it during `HandleDeltas`, so each is one step. A resync
is two, `shouldResync` and `Resync`, with `due` the ones between; its goroutine may
outlive the watch it was started with. Faults are a list that fails, one refused because
its version is too old, and a watch that breaks. Without stopping, the reflector starts
again after each.

### LeaderElection

`lease` is the record at the server. Instead of resource versions, `current` holds the
clients that have the record's version, and `late` the writes that their clients have
given up on and that the server may still apply. `elector` has the stage of `Run`
(acquire, renew, release), the step of a try (waiting, get, write, answer), the timers
and what `observedRecord`, `observedRawRecord` and `observedTime` hold. Time is in
seconds, the precision with which times survive in the record: a renewal in the same
second as the last one is not seen as a change. Clocks run at one rate (skew does not
matter, the code compares only its own clock's times) and timers fire promptly; a
request takes as long as it likes, and one that succeeds counts however long it took, as
in `acquire`, which has no deadline. `Latency` is a bound of the run only: each second
that a try takes beyond it is counted as a fault. `renewed` and `took` are history: the
`RenewTime` of the last success, and how long that try took.

The package "does not guarantee that only one client is acting as a leader"
(`leaderelection.go:19-20`), and indeed two can. A client leads (`Leading`) until `Run`
returns: `release` is the end of `renew`, before `Run` cancels the context of
`OnStartedLeading`, and its `Update` has no deadline. `OneLeader` says in which cases two
clients lead at once, and that there is no other: one of them has released the lease and
not heard of it yet, or its lease has expired (`Overdue`) while it releases it or because
its last success took so long that RetryPeriod and RenewDeadline later is too late
(`LateSuccess`). So a success within LeaseDuration - RenewDeadline - RetryPeriod keeps
the others away, and lost requests, late writes, crashes and stale reads never make two
leaders. `WatchdogQuiet` holds for a LeaseDuration of at least RenewDeadline +
RetryPeriod, which is more than `NewLeaderElector` asks for; its defaults (15, 10 and 2
seconds) have it. `Stabilize` is the moment after which nothing is lost or slow
(`calm`); the bound of `TakeoverInTime` counts from there.

### ReplicaSet

`pods` and `rs` are at the API server. What happens to a pod goes through `log`, the
watch, to `store`, and from there through `notes` to the handlers; the ReplicaSet's
store is one value (`rsStore`) with `rsNote` while its handlers have not heard of it.
`exp` and `uids` are the two stores of the expectations. `sync` is the worker: it stops
between reading the ReplicaSet, the expectations and the pods, and at each call of the
API server. A name is used again when nothing mentions it; that all names are taken is a
refusal by quota. The delay of a retry is part of the time until a worker takes the key.
Time appears only as `Expires`. `Resync` may come at any time; the one that is counted
on (`ExpiredResync`, in the fairness) comes after a timeout, which is shorter than its
period. `CanAdopt`'s GET, remembered for the sync also when it fails, and the PATCH
after it are one step of `AdoptPod`. `misled` remembers what the expectations cannot
survive: an answer that is lost after the pod was created or deleted, and a timeout that
ends before the events arrive. There the controller can create or delete a pod too many,
and then corrects it (`Settles` does not exclude it). `touched` are pods that others
changed since the worker's list was current. A sync that read the ReplicaSet before it
was deleted may still create pods, since `deleteRS` dropped the expectations: the two
action properties are about a ReplicaSet that the store has.

### SchedulerCache

`list` is the doubly linked list of NodeInfos (its head is the most recently changed);
`info` holds the node object, how often each pod is counted and the generation;
`nodeTree` and `imageStates` are what they are in the code. `podNode`, `assumedPods`,
`bindingFinished` and `deadline` are `podStates`. `snap` is the scheduler's snapshot.
Around them: `api`, the pods at the API server, `seen` and `lister`, what the informers
have reported, and `binder`, the binding goroutines. Each method is one action
(`cache.mu`). A pod may be counted more than once in a NodeInfo, as `Pods` is a slice:
that it is not is `CountedOnce`. Map iteration order is a choice. The cache's error
returns (`fatal`, `snapErr`) are state, and `NoAlarm` says they do not happen.

### PriorityQueue and SchedulingQueue

The three sub-queues are sets of pods; which pod of `activeQ` `Pop` takes is open, since
the order is a plugin's. Of `QueuedPodInfo`, `plugins` is `UnschedulablePlugins`,
`backingOff` and `leftover` are what the clock makes of its timestamp and attempts.
`nominator` is the pair of maps of `nominatedPodMap`. `parked` is `Pop` in `cond.Wait`.
Methods are operators on these variables, each a whole method. `SchedulingQueue` adds
what the informer knows of each pod, and the attempts under way with the history flag
`moved`. A failed attempt may pass any cycle from its own to the current one: the
interface means the first, the scheduler passes the last. `ReservationKept` is about
pods in a sub-queue: `Update` of a pod that is being tried takes the new object's
nomination and drops the one made in memory (`scheduling_queue.go:484-489`).

### Scheduler

`versions` is the API server's history of each pod, from which the informer's store
(`storeAt`) and the two handlers (`queueAt`, `cacheAt`) read in order, each at its own
pace. `where`, `assumed` and `finished` are the cache, changed by the actions of
`SchedulerCacheAbs`. `act` gives, for the loop and each binding goroutine, the stage it
is in, its pod and node, and what it has read so far. The stages are the places where
another goroutine can come between: after `Pop`, after `Schedule`, after `assume`,
before and after the binding, before `ForgetPod`, around the lister's answer (`Lookup`,
`Requeue`), before `AddNominatedPod` and before the patch. A `FitError` has the plugins
that rejected nodes, none if only an extender did (`NoFit`). The cache's handlers change
the cache and then request a move, under two locks (`eventhandlers.go:223-227, 256-260,
285-289`); `CacheHandler` is one step.

## Runs

| Run | Bounds | Shows |
|---|---|---|
| workqueue | 3 items, 3 workers, fair | `OneWorkerPerItem`, `NoLostWakeup`, the refinement of `WorkQueueAbs` with its liveness, `AcceptedIsStarted`, `ShutdownEndsWorkers` |
| delaying_queue | 2 items, 1 caller, channel of 1, 3-bit durations, delays of 0 and 1 (2 after failures), heartbeat every 2, 3 calls by time 2, fair | `ExpiredIsNoticed`, `NoHotLoop`, the refinement of `DelayingQueueAbs`, `FailedIsRetried`, `ShutdownFreesCallers` |
| informer | 2 keys, 1 handler that joins at any time, 3 writes, 1 fault, 1 resync, fair | `QueueMatchesItems`, `StatesInOrder`, `HandlersAgree`, `SyncedIsFirstBatch`, `PresentArrives`, `KnownIsRemoved` |
| informer_relist | 1 key, no handler, 2 writes, 1 fault, fair | violated: see findings |
| leader_election | 2 clients, lease 4, deadline 2, retry 1, latency 2 seconds, 4 seconds of unreliable communication with 2 faults | `OneLeader`, `WatchdogQuiet`, `TakeoverInTime`, `TakesOverExpired` |
| cache_nodes | 2 nodes with 2 kinds of object (zone, images), 1 pod, 1 goroutine, 6 generations | recency order, the node tree and the image states hold the live nodes, a refreshed snapshot equals a full one, the refinement of `SchedulerCacheAbs` |
| cache_pods | 2 pods, 2 nodes, 2 goroutines, 3 generations, fair | `CountedOnce`, `CacheAgreesWithInformer`, `NoAlarm`, `AssumedIsTemporary` |
| queue | 2 pods, 1 node, 2 cycles, fair | `SubqueuesDisjoint`, `PopNotAsleep`, `ReservationKept`, `MoveIsRemembered`, `WaitingIsActivated` |
| scheduler_capacity | 2 pods, 1 node with room for one, 1 goroutine, 2 cycles, 3 versions of a pod | `CapacityRespected`, `LoopHearsMoves` |
| scheduler_faults | 1 pod, 2 nodes, 2 goroutines, 3 cycles, 3 versions; lost answers, expiry, another scheduler | `NoPodLost`, `OneBindingPerPod` |
| scheduler_moves | 2 pods, 1 node, 1 goroutine, 3 cycles, 2 versions | violated: see findings |
| replicaset | up to 2 replicas, 3 names, bursts of 2, 1 change by others and 1 fault; or a start among 3 pods; fair | `CreatesOnlyMissing`, `DeletesOnlySurplus`, `Settles` |

Why the bounds are enough to be interesting. Three workers are the fewest for which one
is parked, one woken and one running overtakes it. In the delaying queue, a channel of
one is full after one entry, and 3 bits let the exponential delay overflow at the second
failure; two items are enough for the earlier deadline to arrive later. Three writes are
an object that is created, deleted and created again, or one that changes while another
goes; one broken watch puts a relist between any two of them. In the leader election,
four seconds hold a lease that is acquired, lost and expired, two seconds of latency let
a first success come so late that its client leads beyond its lease, a slow second being
a fault lets it come later still, and the reliable time after it lasts until
`TakeoverTime` is over; two faults are a crash after a lost answer, or a late write and
a lost one. Three pods with one to keep are the fewest for which a deletion that is
counted twice costs a third pod. Two nodes are enough for one to be behind another in
the recency list, for a pod to be confirmed elsewhere than assumed, and for one to be
removed while another is added between two refreshes; six generations are three changes
of each node. A generation bound stops calls from outside, never the steps that finish
what was begun. Two cycles let a pod fail while the next is tried; three let one pod be
tried, put back by an update, tried and bound again. The queue's run has one node; the
theorems are for any number, and the agreement of the nominator's two maps is only
proved (`Reservations`). Three versions are a pod that is created, updated and bound, or
bound and deleted. All bounds (`Max...`) are constants of the models. Symmetry is over
clients, nodes, goroutines and, in the scheduler, pods, in runs without liveness
properties only. Deadlock is not checked: once the bounds are reached, or the queue is
shut down, nothing need happen.

Fairness. Workers of the work queue that are not parked keep moving: goroutines run and
Go's mutex does not starve. In the delaying queue, `waitingLoop` and a caller inside
`AddAfter` run, time passes, and a `ShutDown` that began ends. In the informer, the
reflector, the process loop and the listeners run; that communication fails only
finitely often is the bound on faults. In the ReplicaSet controller, worker and handlers
run, the watches deliver, timeouts end, resyncs come and pods that are being deleted go.
In the cache, the binding goroutine reaches its end, time passes and
`cleanupAssumedPods` runs every second. In the scheduling queue, time passes and `Run`'s
two goroutines run, before `Close`. Nothing is assumed of producers, users, workers that
hold an item, cluster events or the scheduler's loop. `LeaderElection` has no fairness:
its liveness is `TakeoverInTime`, a bound in time. `Scheduler` has none yet.

`KnownIsRemoved` is about objects that are in the store with nothing queued when they
are deleted; the rest of what `shared_informer.go` promises is the finding.

`CapacityRespected` is stated without faults: after a lost answer or an expiry the cache
forgets a pod that may be bound, and the scheduler does overcommit until the informer
tells it; that is the price the code accepts. `OneBindingPerPod` excludes `slowForget`,
the expiry of a pod between `FinishBinding` and `ForgetPod`: with it, the first
goroutine's `ForgetPod` can drop the second goroutine's assumption.

## Findings

- `RemovedEventually` (informer_relist): an object's addition is still in the
  `DeltaFIFO` when the watch breaks, the object is deleted, and the relist does not have
  it. `Replace` looks for deletions among the keys of the store, not among those that
  are only queued, so the addition is applied afterwards and nothing removes the object,
  although `shared_informer.go` promises that it is removed.
- `EveryoneHearsMoves` (scheduler_moves): a binding fails after the loop popped another
  pod and passes the cycle of that one; a move request made between is missed and the
  pod waits in `unschedulableQ` for the next event or the flush. The loop's own failures
  hear every request (`LoopHearsMoves`), and the queue would remember it for the
  goroutine (`MoveIsRemembered`).

## Proofs

All theorems hold for every value of the constants that satisfies the modules' ASSUMEs.

`WorkQueueProofs`, for any set of items and any finite set of workers: `TypeCorrect`,
`QueueConsistent` (the queue is exactly what is dirty and not being processed, and
nothing dirty is forgotten), `MutualExclusion`, `WakeupsSuffice`, and `Refinement`:
every step is a step of `WorkQueueAbs` or a stutter. `QueueIsDirtyNotProcessing`,
`NothingForgotten` and `OneWorkerPerItem` are inductive only together: `Get` needs the
queue to avoid `processing` to keep the workers apart, `Done` needs the workers apart to
know that taking the item out of `processing` leaves no holder. The wake-up count needs
only the types.

`DelayingQueueProofs`, for any items and any finite number of callers, any delays among
which there is a largest, any heartbeat, channel and width of a `Duration`:
`TypeCorrect`, `HeartbeatSuffices`, `NeverAtOnce` and `Refinement`. `ExpiredIsNoticed`
is not inductive: that the heap holds nothing long expired depends on what the loop did
before it parked. The invariant says that, unless a tick is waiting for it, the loop
works with a `now` that it read since the last heartbeat (`NowIsRecent`) and parks only
on items that were not due then (`LeftIsRecent`), that its `now` is never ahead of the
clock (`NowIsPast`), and that the queue is shut down before `stopCh` closes
(`StopIsClosed`). `NeverAtOnce` proves `NoHotLoop` for a base delay of which no doubling
is exactly 2^(Width-1) (`NeverRounds`): true of any base delay that is not a power of
two, as the code's 5 ms, and otherwise false for the reason given under DelayingQueue
above. `Refinement` is of the safety part of `DelayingQueueAbs`: every step of callers,
channel, loop and heap adds what is due, keeps the earlier of two deadlines of an item
and loses nothing.

`SchedulerProofs` has three parts. The first proves of the queue under any clients
(`QueueStep`) that it is well typed and `QueueCorrect`: `SubqueuesDisjoint`,
`PopNotAsleep`, `NominatorConsistent` and `RequestInPast` hold. The nominator's part
rests on lemmas about `nominatedDelete`, `nominatedAdd` and `UpdateNominatedPod` as
functions on the pair of maps. The second shows that the clients of `SchedulingQueue`
take only steps of `QueueStep` (`ImplementsQueue`), so the first carries over, and
`RequestsRemembered`: `MoveIsRemembered` becomes inductive with `RequestInPast` (a
request is never after the current cycle, so it is before every new attempt's) and with
attempts never being after the current cycle (so a new request covers them all).
`ReservationsKept` goes through the clients' calls: each changes the reservation of one
pod only, and `UpdateNominatedPod` passes on one that neither object shows.

`SchedulerCacheProofs`, for any number of pods, nodes, zones, images and goroutines:
`RecencyOrder`, `CountedOnce`, `CacheAgreesWithInformer`, `NoAlarm`,
`IndexesHoldLiveNodes`, the action property `RefreshIsComplete` and the refinement of
`SchedulerCacheAbs` (`ImplementsAbs`). The invariant has four parts. `FreshInv`: along
the list generations fall, and a NodeInfo that is not newer than the snapshot is in it
as it is in the cache; that is what lets `UpdateSnapshot` stop at the first old one.
`PodInv`: a pod is counted exactly where `podStates` has it, once, and `podStates` agrees
with what the informer reported. `IndexInv`: tree and image states hold the informer's
nodes. `SnapInv`: between refreshes the snapshot's lists agree with its own map, which a
refresh that changes no list relies on. `ImplementsAbs` closes the composition:
`Scheduler` uses the cache only through `SchedulerCacheAbs`, so what is proved of it
there holds with the cache of the code.

The third part of `SchedulerProofs`, for any finite number of pods and any nodes and
goroutines: `NoPodLost`, `OneBindingPerPod`, `CapacityRespected` and the action property
`LoopHearsMoves`. They hold together or not at all. The loop may skip an assumed pod
because whoever assumed it still has it (`AssumedHeld`); nobody else can assume it
because the assumption stays until its owner forgets it (`OwnersKeep`, `OwnersAlone`);
the room a node had when it was chosen is still there when the pod is assumed because
only the loop takes room: what the informer reports is counted already
(`BoundIsCounted`), and what may still be forgotten is not bound (`OwnersUnbound`). The
queue's part is the first part's, as every step is one of its methods.

`LeaderElectionProofs`, for any finite set of clients, any durations that satisfy
`ConfigAssumption` (what `NewLeaderElector` accepts), requests of any length, any faults
and any time: `OneLeader`, `WatchdogQuiet`, `TakeoverInTime` and the action property
`TakesOverExpired`. `OneLeader` says nothing of how clients are kept apart. The invariant
does. A write that may still be stored, late or not, keeps the holder, follows a released
or an expired record, or releases the lease (`Permitted`). A client that waits for its
answer has its record stored, with nothing under way that releases it (`StillStored`), or
that record has expired and another followed (`Superseded`). So a leader is the lease's
holder until it has released it or LeaseDuration has passed since the record by which it
last succeeded (`HoldOf`), and it gives up RetryPeriod and RenewDeadline after the end of
that try at the latest (`LeadOf`). Two leaders cannot both hold the lease, which leaves
the cases of `OneLeader`. `CurrentOf` says that what a client may release is its own;
`OrderOf` relates what a client has observed to the lease: it is the present holder's
record or an older one, by the count of transitions.

`TakeoverInTime` needs an invariant of its own on top (`TakeoverInv`), as it must hold
whatever state the unreliable time left. Once communication is reliable a try takes no
time (`PromptOf`). So a client that holds the lease, is not cancelled, and renews it in
time (`InTime`) leads for good (`Settled`): nobody can store a write in between. Until
one has settled (`Unsettled`), the record changes only by a release; old leaders,
including those whose lease has passed to another, end, and release, at most
RenewDeadline + RetryPeriod later; and every other client has seen the last record
within one jittered period, so that its try after LeaseDuration finds it expired. Without
`Unsettled` the bound on a timer cannot be kept: a record that changed once more would
start LeaseDuration anew.

`InformerProofs`, for any finite sets of keys and handlers: `QueueMatchesItems`,
`StatesInOrder`, `HandlersAgree` and `SyncedIsFirstBatch`. `HandlersAgree` needs every
delta that a handler will be told of to fit the object before it (`DeltaInv`): nothing
is updated or deleted that is not there. A delta fits when it joins (`MayJoin`) by what
is in the indexer, queued and already deleted at that moment, and for a relist by the
order of versions (`VersionInv`): all that is known and queued was written by `Written`,
which the reflector's own version reaches before the next list or event. `HasSynced`
counts pops, not keys of the first list; this is right because those keys stay the head
of a queue without duplicates (`BatchInv`, `QueueInv`).

`ReplicaSetProofs`, for any finite set of pod names, any replicas and bursts, any
changes by others and any faults: `TypeCorrect`, `MissingIsCreated`
(`CreatesOnlyMissing`) and `SurplusIsDeleted` (`DeletesOnlySurplus`). Both properties
exclude what is said under ReplicaSet above: a lost answer, a timeout before the events,
pods that others changed, a ReplicaSet the store has lost. Both compare the API server
with a list the worker made earlier from a store that lags, so the invariant
(`Invariant`) follows each pod along the watch. `WatchInv`: the last event of a pod is
what the API server has, each version leads to the next (who is not `touched` by others
can only be adopted, released when it does not match, or deleted), a creation comes
first, and a name that an event, a handler or the worker still holds is not used again.
While the expectations are reliable (no answer lost after the fact, no timeout before
the events, the ReplicaSet not gone), `CreationInv` says that the creations no handler
has heard of and those still to be made are at most `exp.add`, and `DeletionInv` that
the pods whose deletion the store does not show, and those about to be deleted, are
among `uids`, of which there are at most `exp.del`. `SatisfiedExpectations` therefore
means that the store shows all that the controller did, and because the worker checks
them before it lists, its list differs from the API server only by what others did
(`SyncInv`, `Listed`). `SyncInv` then carries the bound through the calls: replicas that
nobody touched and creations to come never exceed `spec.replicas`, and what is kept of
the list never falls below it. A deletion that is reported twice is the delicate case:
the second report must not be counted, which holds because a pod still to be deleted is
never one whose deletion a handler can have heard of (`VictimIsThere`).

The recursive functions `Keep`, `FlattenSeq` and `Told` are characterised by their
values; that they exist and what they return is shown by induction along a segment of
the naturals. `SequenceLemmas` has this induction as a lemma about a set
(`SegmentInduction`, from `LeastNatural`), which needs no operator parameter.

Only model-checked:

- liveness: `AcceptedIsStarted`, `ShutdownEndsWorkers`, `FailedIsRetried`,
  `ShutdownFreesCallers`, `PresentArrives`, `KnownIsRemoved`, `AssumedIsTemporary`,
  `WaitingIsActivated`, `Settles`, and the fair part of the abstract specifications.
  TLAPS proves neither liveness under fairness nor ENABLED.
- `EveryoneHearsMoves` and `RemovedEventually`, which TLC refutes.

## Not modelled

In the modelled parts: metrics and logging; resource arithmetic, ports and volumes of
`NodeInfo`; versions of a pod object in the cache (`AddPod` keeps the assumed object); a
pod name that is used again by a new pod; the order of the heaps and the length of the
backoff; the algorithm that filters and scores nodes; extenders; reserve plugins' own
state; several profiles; changes of nodes in `Scheduler` (they are in `SchedulerCache`);
the removal of a node that the API server does not find (`factory.go:341-352`), whose
error no plugin of the tree returns unwrapped; a nomination that
`recordSchedulingFailure` records after the handler of the pod's deletion ran, which the
nominator keeps. Of informers: stopping, bookmarks and pages of a list, indexes, the
mutation detector, the periods of resyncs. Of leader election: the Endpoints, ConfigMap
and multi locks, `OnNewLeader`, the health check's race with the loop, clocks of
different rates, a Lease that somebody deletes. Of the ReplicaSet controller: a
ReplicaSet created again under the same name, several ReplicaSets, the status and
`MinReadySeconds`, and the time after a restart during which handlers still hear of the
pods of the first list, when `HasSynced` already lets the workers run. The other
components are in the inventory and, with reasons, in `PROJECT.json`.
