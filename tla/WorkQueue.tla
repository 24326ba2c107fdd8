----------------------------- MODULE WorkQueue -----------------------------
(***************************************************************************)
(* client-go/util/workqueue/queue.go: the deduplicating work queue every   *)
(* controller drains with a pool of worker goroutines.                     *)
(*                                                                         *)
(* Every method runs under q.cond.L, so a method is one step, except that  *)
(* Get may park in q.cond.Wait() and go round its loop again.  A worker    *)
(* repeats Get, work, Done until Get reports shutdown, as the controllers' *)
(* processNextWorkItem loops do.                                           *)
(***************************************************************************)
EXTENDS Sequences, Naturals, FiniteSets

CONSTANTS Item,    \* what callers enqueue
          Worker,  \* the goroutines that call Get and Done
          NoItem   \* a worker's empty hand

ASSUME WorkerAssumption == IsFiniteSet(Worker) /\ NoItem \notin Item

VARIABLES queue,        \* q.queue, the order in which items are handed out
          dirty,        \* q.dirty, the items that need processing
          processing,   \* q.processing, the items workers hold
          shuttingDown, \* q.shuttingDown
          pc,           \* where each worker is
          held          \* the item each worker got from Get

vars == <<queue, dirty, processing, shuttingDown, pc, held>>

(***************************************************************************)
(* "idle": about to call Get; "waiting": parked in cond.Wait; "woken":     *)
(* signalled, waiting for the lock; "working": between Get and Done;       *)
(* "exited": Get returned shutdown.                                        *)
(***************************************************************************)
PC == {"idle", "waiting", "woken", "working", "exited"}

At(p, where) == {w \in Worker : p[w] = where}

\* sync.Cond.Signal: some parked goroutine, if there is one, becomes runnable.
Signal(p) ==
    IF At(p, "waiting") = {}
    THEN {p}
    ELSE {[p EXCEPT ![w] = "woken"] : w \in At(p, "waiting")}

\* sync.Cond.Broadcast: all of them do.
Broadcast(p) == [w \in Worker |-> IF p[w] = "waiting" THEN "woken" ELSE p[w]]

Init ==
    /\ queue = <<>>
    /\ dirty = {}
    /\ processing = {}
    /\ shuttingDown = FALSE
    /\ pc = [w \in Worker |-> "idle"]
    /\ held = [w \in Worker |-> NoItem]

\* Mutant of Add: queues an item that a worker still holds.
AddWhileProcessing(i) ==
    /\ ~shuttingDown
    /\ i \notin dirty
    /\ dirty' = dirty \cup {i}
    /\ queue' = Append(queue, i)
    /\ pc' \in Signal(pc)
    /\ UNCHANGED <<processing, shuttingDown, held>>

\* Mutant of Add: the cond.Signal is forgotten.
AddWithoutSignal(i) ==
    /\ ~shuttingDown
    /\ i \notin dirty
    /\ dirty' = dirty \cup {i}
    /\ queue' = IF i \in processing THEN queue ELSE Append(queue, i)
    /\ UNCHANGED <<processing, shuttingDown, pc, held>>

\* Add returns early when shutting down or when the item is already dirty.
Add(i) ==
    /\ ~shuttingDown
    /\ i \notin dirty
    /\ dirty' = dirty \cup {i}
    /\ \/ /\ i \in processing
          /\ UNCHANGED <<queue, pc>>
       \/ /\ i \notin processing
          /\ queue' = Append(queue, i)
          /\ pc' \in Signal(pc)
    /\ UNCHANGED <<processing, shuttingDown, held>>

\* Get, its loop's test holds: park in cond.Wait.
GetWait(w) ==
    /\ pc[w] \in {"idle", "woken"}
    /\ queue = <<>>
    /\ ~shuttingDown
    /\ pc' = [pc EXCEPT ![w] = "waiting"]
    /\ UNCHANGED <<queue, dirty, processing, shuttingDown, held>>

\* Get, nothing left and shutting down: the worker's loop ends.
GetShutdown(w) ==
    /\ pc[w] \in {"idle", "woken"}
    /\ queue = <<>>
    /\ shuttingDown
    /\ pc' = [pc EXCEPT ![w] = "exited"]
    /\ UNCHANGED <<queue, dirty, processing, shuttingDown, held>>

\* Get, the head of the queue is handed to the worker.
GetItem(w) ==
    /\ pc[w] \in {"idle", "woken"}
    /\ queue /= <<>>
    /\ queue' = Tail(queue)
    /\ processing' = processing \cup {Head(queue)}
    /\ dirty' = dirty \ {Head(queue)}
    /\ pc' = [pc EXCEPT ![w] = "working"]
    /\ held' = [held EXCEPT ![w] = Head(queue)]
    /\ UNCHANGED shuttingDown

Get(w) == GetWait(w) \/ GetShutdown(w) \/ GetItem(w)

\* Mutant of Done: an item added meanwhile is not put back.
DoneWithoutRequeue(w) ==
    /\ pc[w] = "working"
    /\ processing' = processing \ {held[w]}
    /\ held' = [held EXCEPT ![w] = NoItem]
    /\ pc' = [pc EXCEPT ![w] = "idle"]
    /\ UNCHANGED <<queue, dirty, shuttingDown>>

\* Done puts an item that was added again meanwhile back in the queue.
Done(w) ==
    /\ pc[w] = "working"
    /\ processing' = processing \ {held[w]}
    /\ held' = [held EXCEPT ![w] = NoItem]
    /\ \/ /\ held[w] \in dirty
          /\ queue' = Append(queue, held[w])
          /\ pc' \in Signal([pc EXCEPT ![w] = "idle"])
       \/ /\ held[w] \notin dirty
          /\ pc' = [pc EXCEPT ![w] = "idle"]
          /\ UNCHANGED queue
    /\ UNCHANGED <<dirty, shuttingDown>>

\* Mutant of ShutDown: wakes one parked worker where it must wake all.
ShutDownSignalsOne ==
    /\ ~shuttingDown
    /\ shuttingDown' = TRUE
    /\ pc' \in Signal(pc)
    /\ UNCHANGED <<queue, dirty, processing, held>>

ShutDown ==
    /\ ~shuttingDown
    /\ shuttingDown' = TRUE
    /\ pc' = Broadcast(pc)
    /\ UNCHANGED <<queue, dirty, processing, held>>

Next ==
    \/ ShutDown
    \/ \E i \in Item : Add(i)
    \/ \E w \in Worker : Get(w) \/ Done(w)

Spec == Init /\ [][Next]_vars

(***************************************************************************)
(* A runnable goroutine runs and the mutex is starvation free, so a worker *)
(* that is neither parked nor finished keeps moving.  Callers of Add and   *)
(* ShutDown owe nothing.                                                   *)
(***************************************************************************)
FairSpec == Spec /\ \A w \in Worker : WF_vars(Get(w)) /\ WF_vars(Done(w))
-----------------------------------------------------------------------------
(***************************************************************************)
(* Properties                                                              *)
(***************************************************************************)
TypeOK ==
    /\ queue \in Seq(Item)
    /\ dirty \in SUBSET Item
    /\ processing \in SUBSET Item
    /\ shuttingDown \in BOOLEAN
    /\ pc \in [Worker -> PC]
    /\ held \in [Worker -> Item \cup {NoItem}]

\* queue.go:72-74 says of the slice "Every element of queue should be in the
\* dirty set and not in the processing set"; and each is there once.
QueueIsDirtyNotProcessing ==
    /\ \A n \in 1..Len(queue) : queue[n] \in dirty \ processing
    /\ \A m, n \in 1..Len(queue) : queue[m] = queue[n] => m = n

\* No accepted item is lost between dirty, processing and queue: whatever is
\* dirty and not being processed stands in the queue.
NothingForgotten ==
    \A i \in dirty \ processing : \E n \in 1..Len(queue) : queue[n] = i

\* Get never hands one item to two workers at once: the workers' hands and
\* q.processing agree item by item.
OneWorkerPerItem ==
    /\ processing = {held[w] : w \in At(pc, "working")}
    /\ \A v, w \in At(pc, "working") : held[v] = held[w] => v = w

\* Signal wakes one goroutine per queued item: if someone is still parked, at
\* least as many workers are on their way to the queue as there are items in
\* it, so no item can sit in the queue with every worker asleep.
NoLostWakeup ==
    At(pc, "waiting") # {} => Len(queue) <= Cardinality(At(pc, "woken"))

\* A request accepted by Add is started even when ShutDown comes first: Get
\* reports shutdown only to workers that find the queue empty.
AcceptedIsStarted == \A i \in Item : i \in dirty ~> i \notin dirty

\* After ShutDown every worker's loop ends, none stays parked in Get.
ShutdownEndsWorkers == shuttingDown ~> \A w \in Worker : pc[w] = "exited"

\* The queue implements the promise stated in WorkQueueAbs.
Abs == INSTANCE WorkQueueAbs
           WITH pending <- dirty, active <- processing, closed <- shuttingDown

AbsSpec == Abs!AbsSpec
AbsSafeSpec == Abs!AbsSafeSpec
=============================================================================
