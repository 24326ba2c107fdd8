------------------------------ MODULE Informer ------------------------------
(***************************************************************************)
(* client-go/tools/cache: the reflector (reflector.go), the DeltaFIFO      *)
(* (delta_fifo.go), the controller's process loop (controller.go) and the  *)
(* shared informer with its listeners (shared_informer.go).                *)
(*                                                                         *)
(* The reflector lists and watches a collection of objects at the API      *)
(* server and writes what it learns into the DeltaFIFO; the process loop   *)
(* pops one key at a time, applies its deltas to the indexer and passes    *)
(* notifications to the listeners, each of which calls its handler at its  *)
(* own pace.  Every method of the DeltaFIFO holds its lock, and Pop holds  *)
(* it while HandleDeltas runs, so each is one step.                        *)
(*                                                                         *)
(* An object is identified by its key and by the resource version at which *)
(* it was written; 0 stands for the absent object.                         *)
(***************************************************************************)
EXTENDS Integers, Sequences, FiniteSets, SequencesExt, SeqFilter

CONSTANTS Key,
          Handler,      \* event handlers, which may be added at any time
          MaxVersion,   \* bound on the writes to the collection
          MaxFaults,    \* bound on failed lists and interrupted watches
          MaxResyncs    \* bound on resyncs

ASSUME InformerAssumption ==
    /\ IsFiniteSet(Key) /\ IsFiniteSet(Handler)
    /\ {MaxVersion, MaxFaults, MaxResyncs} \subseteq Nat

VARIABLES log,         \* the collection's history: the write of each version
          reflector,   \* where ListAndWatch is
          lastSync,    \* lastSyncResourceVersion, 0 for none
          unavailable, \* isLastSyncResourceVersionUnavailable
          answer,      \* the version at which the list was read
          items, queue, populated, initialPopulationCount,  \* the DeltaFIFO
          store,       \* the indexer, which is also the FIFO's knownObjects
          joined,      \* the handlers that have a listener
          syncing,     \* syncingListeners
          pending,     \* what each listener has still to pass to its handler
          view,        \* what each handler has been told of each key
          unpopped,    \* history: keys of the first list not popped yet
          due,         \* resyncs decided on that have not reached the FIFO
          faults, resyncs

fifoVars == <<items, queue, populated, initialPopulationCount, unpopped>>
listenerVars == <<joined, syncing, pending, view>>
reflectorVars == <<reflector, lastSync, unavailable, answer>>
resyncVars == <<due, resyncs>>
vars == <<log, reflectorVars, fifoVars, store, listenerVars, resyncVars, faults>>

Absent == [k \in Key |-> 0]

Init ==
    /\ log = <<>>
    /\ reflector = "list"
    /\ lastSync = 0
    /\ unavailable = FALSE
    /\ answer = 0
    /\ items = [k \in Key |-> <<>>]
    /\ queue = <<>>
    /\ populated = FALSE
    /\ initialPopulationCount = 0
    /\ unpopped = {}
    /\ store = Absent
    /\ joined = {}
    /\ syncing = {}
    /\ pending = [h \in Handler |-> <<>>]
    /\ view = [h \in Handler |-> Absent]
    /\ due = 0
    /\ faults = 0
    /\ resyncs = 0
-----------------------------------------------------------------------------
(***************************************************************************)
(* The API server                                                          *)
(***************************************************************************)
Writes(k, n) == {m \in 1..n : log[m].key = k}

Newest(S) == CHOOSE m \in S : \A n \in S : n <= m

\* The object of key k at version n.
ObjectAt(k, n) ==
    IF Writes(k, n) # {} /\ log[Newest(Writes(k, n))].type # "DELETED"
    THEN Newest(Writes(k, n))
    ELSE 0

Now == Len(log)

Write(k, type) ==
    /\ Now < MaxVersion
    /\ (ObjectAt(k, Now) = 0) <=> (type = "ADDED")
    /\ log' = Append(log, [key |-> k, type |-> type])
    /\ UNCHANGED <<reflectorVars, fifoVars, store, listenerVars, faults, resyncVars>>
-----------------------------------------------------------------------------
(***************************************************************************)
(* DeltaFIFO                                                               *)
(***************************************************************************)
Delta(type, obj) == [type |-> type, obj |-> obj]

(***************************************************************************)
(* Two deletions in a row are one.  "Final" is Deleted with an object      *)
(* DeletedFinalStateUnknown; the deletion with more information is kept.   *)
(***************************************************************************)
IsDeletion(d) == d.type \in {"Deleted", "Final"}

dedupDeltas(ds) ==
    LET n == Len(ds)
    IN  IF n >= 2 /\ IsDeletion(ds[n]) /\ IsDeletion(ds[n - 1])
        THEN Append(SubSeq(ds, 1, n - 2), IF ds[n - 1].type = "Final" THEN ds[n] ELSE ds[n - 1])
        ELSE ds

\* Mutant of queueActionLocked: the key joins the queue with every delta.
queueTwice(ks, ds) ==
    /\ items' = [k \in Key |-> IF k \in ToSet(ks) THEN dedupDeltas(Append(items[k], ds[k]))
                                                 ELSE items[k]]
    /\ queue' = queue \o ks

\* For each key of the list ks: ds[k] joins its deltas, and the key joins the
\* queue unless it is there.
queueActionLocked(ks, ds) ==
    /\ items' = [k \in Key |-> IF k \in ToSet(ks) THEN dedupDeltas(Append(items[k], ds[k]))
                                                 ELSE items[k]]
    /\ queue' = queue \o Keep(ks, {k \in Key : items[k] = <<>>})

\* Add, Update and Delete, called for a watch event.  An object that is
\* neither known nor queued has been reported as deleted already.
Receive(k, d) ==
    /\ IF IsDeletion(d) /\ store[k] = 0 /\ items[k] = <<>>
       THEN UNCHANGED <<items, queue>>
       ELSE queueActionLocked(<<k>>, [key \in {k} |-> d])
    /\ populated' = TRUE
    /\ UNCHANGED <<initialPopulationCount, unpopped>>

Listed(n) == {k \in Key : ObjectAt(k, n) # 0}

\* Mutant of Missing: nothing is done about keys that are not listed.
NothingMissing(n) == {}

\* The known keys that a list read at version n does not have.
Missing(n) == {k \in Key \ Listed(n) : store[k] # 0}

QueueList(n) ==
    queueActionLocked(SetToSeq(Listed(n)) \o SetToSeq(Missing(n)),
                      [k \in Key |-> IF k \in Listed(n) THEN Delta("Replaced", ObjectAt(k, n))
                                                        ELSE Delta("Final", store[k])])

\* Mutant of Replace: the count starts again with every list.
ReplaceCountsAgain(n) ==
    /\ QueueList(n)
    /\ populated' = TRUE
    /\ initialPopulationCount' = Cardinality(Listed(n) \cup Missing(n))
    /\ unpopped' = IF populated THEN unpopped ELSE Listed(n) \cup Missing(n)

Replace(n) ==
    /\ QueueList(n)
    /\ populated' = TRUE
    /\ initialPopulationCount' =
           IF populated THEN initialPopulationCount ELSE Cardinality(Listed(n) \cup Missing(n))
    /\ unpopped' = IF populated THEN unpopped ELSE Listed(n) \cup Missing(n)

HasSynced == populated /\ initialPopulationCount = 0
-----------------------------------------------------------------------------
(***************************************************************************)
(* Reflector                                                               *)
(***************************************************************************)
Fault == faults < MaxFaults /\ faults' = faults + 1

\* Mutant of List: any version the server can still give.
ListFromAnywhere ==
    /\ reflector = "list"
    /\ answer' \in 0..Now
    /\ unavailable' = FALSE
    /\ reflector' = "listed"
    /\ UNCHANGED <<log, lastSync, fifoVars, store, listenerVars, faults, resyncVars>>

(***************************************************************************)
(* A list at relistResourceVersion: at least as fresh as lastSync, from    *)
(* the watch cache; or the newest, if the last list found its version      *)
(* unavailable.                                                            *)
(***************************************************************************)
List ==
    /\ reflector = "list"
    /\ answer' \in (IF unavailable THEN Now ELSE lastSync)..Now
    /\ unavailable' = FALSE
    /\ reflector' = "listed"
    /\ UNCHANGED <<log, lastSync, fifoVars, store, listenerVars, faults, resyncVars>>

\* The version is expired or too large, and the second list, at the newest
\* version, may succeed or fail as well.
ListUnavailable ==
    /\ reflector = "list"
    /\ Fault
    /\ \/ answer' = Now /\ unavailable' = FALSE /\ reflector' = "listed"
       \/ unavailable' = TRUE /\ UNCHANGED <<answer, reflector>>
    /\ UNCHANGED <<log, lastSync, fifoVars, store, listenerVars, resyncVars>>

ListFails ==
    /\ reflector = "list"
    /\ Fault
    /\ UNCHANGED <<log, reflectorVars, fifoVars, store, listenerVars, resyncVars>>

\* syncWith, which replaces the store.
SyncWith ==
    /\ reflector = "listed"
    /\ Replace(answer)
    /\ reflector' = "replaced"
    /\ UNCHANGED <<log, lastSync, unavailable, answer, store, listenerVars, faults, resyncVars>>

(***************************************************************************)
(* The version of what the store was given is noted afterwards, while the  *)
(* process loop and the resyncs run: that of the list, from which the      *)
(* watch starts, or that of a watch event.                                 *)
(***************************************************************************)
setLastSyncResourceVersion ==
    /\ \/ /\ reflector = "replaced" /\ reflector' = "watch"
          /\ lastSync' = answer /\ answer' = 0
       \/ /\ reflector = "stored" /\ reflector' = "watching"
          /\ lastSync' = lastSync + 1 /\ UNCHANGED answer
    /\ UNCHANGED <<log, unavailable, fifoVars, store, listenerVars, faults, resyncVars>>

Watch ==
    /\ reflector = "watch"
    /\ reflector' = "watching"
    /\ UNCHANGED <<log, lastSync, unavailable, answer, fifoVars, store, listenerVars, faults, resyncVars>>

\* Connection refused: the same watch again.  Any other error: a new list.
WatchFails ==
    /\ reflector = "watch"
    /\ Fault
    /\ reflector' \in {"watch", "list"}
    /\ UNCHANGED <<log, lastSync, unavailable, answer, fifoVars, store, listenerVars, resyncVars>>

DeltaOf(e, n) ==
    Delta(CASE e.type = "ADDED" -> "Added" [] e.type = "MODIFIED" -> "Updated"
            [] e.type = "DELETED" -> "Deleted", n)

\* watchHandler: one event is written to the store.
WatchEvent ==
    /\ reflector = "watching"
    /\ lastSync < Now
    /\ LET n == lastSync + 1 IN Receive(log[n].key, DeltaOf(log[n], n))
    /\ reflector' = "stored"
    /\ UNCHANGED <<log, lastSync, unavailable, answer, store, listenerVars, faults, resyncVars>>

\* The watch is closed, which opens the next one, or it ends with an error
\* event, or before it lasted a second, which leads to a list.
WatchEnds ==
    /\ reflector = "watching"
    /\ Fault
    /\ reflector' \in {"watch", "list"}
    /\ UNCHANGED <<log, lastSync, unavailable, answer, fifoVars, store, listenerVars, resyncVars>>
-----------------------------------------------------------------------------
(***************************************************************************)
(* The shared informer and its listeners                                   *)
(***************************************************************************)
Note(kind, k, obj, sync) == [kind |-> kind, key |-> k, obj |-> obj, sync |-> sync]

\* The object in the indexer after a delta.
After(d) == IF IsDeletion(d) THEN 0 ELSE d.obj

\* Mutant of IsSync: every object of a list counts as a resync.
ListIsSync(d, old) == d.type \in {"Sync", "Replaced"}

\* Notifications that only listeners that asked for the resync get.
IsSync(d, old) == d.type = "Sync" \/ (d.type = "Replaced" /\ d.obj = old)

\* HandleDeltas on the deltas of key k: the object each of them finds, and
\* the notifications for the listeners, with or without the resyncs.
HandleDeltas(k, withSync) ==
    LET ds == items[k]
        Old(n) == IF n = 1 THEN store[k] ELSE After(ds[n - 1])
        NoteOf(n) ==
            IF IsDeletion(ds[n]) THEN Note("delete", k, ds[n].obj, FALSE)
            ELSE IF Old(n) = 0 THEN Note("add", k, ds[n].obj, FALSE)
            ELSE Note("update", k, ds[n].obj, IsSync(ds[n], Old(n)))
    IN  Keep([n \in DOMAIN ds |-> NoteOf(n)],
             {NoteOf(n) : n \in {m \in DOMAIN ds : withSync \/ ~NoteOf(m).sync}})

\* processLoop: Pop with HandleDeltas under the lock.
Pop ==
    /\ queue # <<>>
    /\ LET k == Head(queue)
       IN  /\ items' = [items EXCEPT ![k] = <<>>]
           /\ unpopped' = unpopped \ {k}
           /\ store' = [store EXCEPT ![k] = After(Last(items[k]))]
           /\ pending' = [h \in Handler |->
                  IF h \in joined THEN pending[h] \o HandleDeltas(k, h \in syncing)
                                  ELSE pending[h]]
    /\ queue' = Tail(queue)
    /\ initialPopulationCount' =
           IF initialPopulationCount > 0 THEN initialPopulationCount - 1 ELSE 0
    /\ UNCHANGED <<log, reflectorVars, populated, joined, syncing, view, faults, resyncVars>>

(***************************************************************************)
(* The resync goroutine.  One is started with each watch, and it may still *)
(* be at work when the next list is under way.  shouldResync chooses the   *)
(* listeners whose time has come.                                          *)
(***************************************************************************)
shouldResync ==
    /\ populated /\ resyncs < MaxResyncs
    /\ syncing' \in SUBSET joined
    /\ due' = IF syncing' = {} THEN due ELSE due + 1
    /\ resyncs' = resyncs + 1
    /\ UNCHANGED <<log, reflectorVars, fifoVars, store, joined, pending, view, faults>>

\* Mutant of Resync: objects with queued deltas are synced as well.
ResyncAll ==
    /\ due > 0
    /\ queueActionLocked(SetToSeq({k \in Key : store[k] # 0}),
                         [k \in Key |-> Delta("Sync", store[k])])
    /\ due' = due - 1
    /\ UNCHANGED <<log, reflectorVars, populated, initialPopulationCount, unpopped, store,
                   listenerVars, faults, resyncs>>

Resync ==
    /\ due > 0
    /\ queueActionLocked(SetToSeq({k \in Key : store[k] # 0 /\ items[k] = <<>>}),
                         [k \in Key |-> Delta("Sync", store[k])])
    /\ due' = due - 1
    /\ UNCHANGED <<log, reflectorVars, populated, initialPopulationCount, unpopped, store,
                   listenerVars, faults, resyncs>>

\* Before Run the indexer is empty; after it, blockDeltas keeps HandleDeltas
\* out while the listener gets an addition for every object.
AddEventHandler(h) ==
    /\ h \notin joined
    /\ joined' = joined \cup {h}
    /\ syncing' = syncing \cup {h}
    /\ LET known == SetToSeq({k \in Key : store[k] # 0})
       IN  pending' = [pending EXCEPT ![h] =
                           [n \in DOMAIN known |-> Note("add", known[n], store[known[n]], FALSE)]]
    /\ UNCHANGED <<log, reflectorVars, fifoVars, store, view, faults, resyncVars>>

\* processorListener: pop and run hand the oldest notification to the handler.
Notify(h) ==
    /\ pending[h] # <<>>
    /\ LET n == Head(pending[h])
       IN  view' = [view EXCEPT ![h][n.key] = IF n.kind = "delete" THEN 0 ELSE n.obj]
    /\ pending' = [pending EXCEPT ![h] = Tail(@)]
    /\ UNCHANGED <<log, reflectorVars, fifoVars, store, joined, syncing, faults, resyncVars>>
-----------------------------------------------------------------------------
ListAndWatch ==
    \/ List \/ ListUnavailable \/ ListFails \/ SyncWith \/ setLastSyncResourceVersion
    \/ Watch \/ WatchFails \/ WatchEvent \/ WatchEnds

Next ==
    \/ ListAndWatch \/ Pop \/ shouldResync \/ Resync
    \/ \E k \in Key, type \in {"ADDED", "MODIFIED", "DELETED"} : Write(k, type)
    \/ \E h \in Handler : AddEventHandler(h) \/ Notify(h)

Spec == Init /\ [][Next]_vars

(***************************************************************************)
(* The goroutines run: the reflector, the process loop and the listeners.  *)
(* That communication fails only finitely often is the bound on faults;    *)
(* writers, resyncs and new handlers owe nothing.                          *)
(***************************************************************************)
FairSpec ==
    /\ Spec
    /\ WF_vars(List \/ SyncWith \/ setLastSyncResourceVersion \/ Watch \/ WatchEvent)
    /\ WF_vars(Pop)
    /\ \A h \in Handler : WF_vars(Notify(h))
-----------------------------------------------------------------------------
(***************************************************************************)
(* Properties                                                              *)
(***************************************************************************)
\* delta_fifo.go:105-106 "There are no duplicates in `queue`.  A key is in
\* `queue` if and only if it is in `items`": otherwise Pop would lose a key's
\* deltas or find none.
QueueMatchesItems ==
    /\ \A m, n \in 1..Len(queue) : queue[m] = queue[n] => m = n
    /\ \A k \in Key : items[k] # <<>> <=> k \in ToSet(queue)

\* The version up to which the reflector has written to the store: ahead of
\* lastSync, which is "not synchronized with the underlying store"
\* (reflector.go:83-85), while that is still to be set.
Written ==
    CASE reflector = "replaced" -> answer
      [] reflector = "stored" -> lastSync + 1
      [] OTHER -> lastSync

\* shared_informer.go:63-67: "ordering among the appearing states is correct".
\* What is known and what is queued of an object is in the order in which it
\* was written, however lists, watches and resyncs overlap, and nothing of it
\* is newer than Written: once the reflector has set its version, a list that
\* is at least as fresh cannot be older than what is known.
StatesInOrder ==
    \A k \in Key :
        LET present == {n \in DOMAIN items[k] : ~IsDeletion(items[k][n])}
        IN  /\ store[k] <= Written
            /\ \A n \in present : store[k] <= items[k][n].obj /\ items[k][n].obj <= Written
            /\ \A m, n \in present : m < n => items[k][m].obj <= items[k][n].obj

\* A notification that does not fit leaves -1 for good: an addition of what the
\* handler has, or an update or a deletion of what it has not.
Apply(v, n) ==
    [v EXCEPT ![n.key] = IF @ # -1 /\ ((n.kind = "add") <=> (@ = 0))
                         THEN IF n.kind = "delete" THEN 0 ELSE n.obj
                         ELSE -1]

\* What a handler that has been told v knows after the notifications ns.
Told(v, ns) ==
    LET told[n \in 0..Len(ns)] == IF n = 0 THEN v ELSE Apply(told[n - 1], ns[n])
    IN  told[Len(ns)]

\* shared_informer.go:98-107: every handler, whenever it joined, is told of
\* every update.  What it has been told and what is on its way add up to the
\* indexer, and each notification fits what went before it.
HandlersAgree ==
    \A h \in joined : Told(view[h], pending[h]) = store

\* HasSynced (delta_fifo.go:267-268) holds from the moment the last key of the
\* first list was popped, not before and not only until the next list.
SyncedIsFirstBatch == HasSynced <=> populated /\ unpopped = {}

\* If a collection no longer changes, every object it still has arrives in the
\* indexer and at every handler, with its last state.
PresentArrives ==
    \A k \in Key : <>[](ObjectAt(k, Now) # 0 =>
                           /\ store[k] = ObjectAt(k, Now)
                           /\ \A h \in joined : view[h][k] = store[k])

\* A deletion the reflector has not seen is not lost although the watch may
\* break and only a list without the object tells of it: an object that is
\* known, with nothing queued, is removed.
KnownIsRemoved ==
    \A k \in Key :
        (/\ ObjectAt(k, Now) = 0 /\ store[k] # 0 /\ items[k] = <<>>
         /\ Written < Newest(Writes(k, Now)))
            ~> (store[k] = 0 \/ ObjectAt(k, Now) # 0)

\* shared_informer.go:81-86: "if the local cache ever holds a non-absent state
\* for some object ID and the object is eventually removed from the
\* authoritative state then eventually the object is removed from the local
\* cache".
RemovedEventually ==
    \A k \in Key : <>[](ObjectAt(k, Now) = 0 => store[k] = 0)
=============================================================================
