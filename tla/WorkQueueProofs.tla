-------------------------- MODULE WorkQueueProofs --------------------------
(***************************************************************************)
(* The safety of WorkQueue for every finite pool of workers and every set  *)
(* of items.                                                               *)
(*                                                                         *)
(* The inductive invariant IInv is the conjunction of the type invariant,  *)
(* the queue's agreement with dirty and processing in both directions, and *)
(* the workers' hands' agreement with processing.  None of the last three  *)
(* is inductive alone: Get needs the queue to avoid processing to keep the *)
(* hands disjoint, and Done needs the hands disjoint to know that taking   *)
(* an item out of processing leaves no holder behind.  The wake-up count   *)
(* needs the type invariant only.                                          *)
(***************************************************************************)
EXTENDS WorkQueue, FiniteSetTheorems, SequenceTheorems, TLAPS

IInv ==
    /\ TypeOK
    /\ QueueIsDirtyNotProcessing
    /\ NothingForgotten
    /\ OneWorkerPerItem

\* What Append and Tail do to the contents of a queue, which is all the
\* handlers of queue.go ever do to it.
LEMMA QueueOps ==
    ASSUME NEW q \in Seq(Item)
    PROVE  /\ Len(q) \in Nat
           /\ \A i \in Item :
                /\ Append(q, i) \in Seq(Item)
                /\ Len(Append(q, i)) = Len(q) + 1
                /\ \A n \in 1..Len(q) + 1 :
                     Append(q, i)[n] = IF n = Len(q) + 1 THEN i ELSE q[n]
           /\ q # <<>> =>
                /\ Len(q) > 0
                /\ Head(q) = q[1]
                /\ Head(q) \in Item
                /\ Tail(q) \in Seq(Item)
                /\ Len(Tail(q)) = Len(q) - 1
                /\ \A n \in 1..Len(q) - 1 : Tail(q)[n] = q[n + 1]
    BY HeadTailProperties, AppendProperties, LenProperties, EmptySeq

\* Signal and Broadcast only ever turn "waiting" into "woken".
LEMMA WakeOps ==
    ASSUME NEW p \in [Worker -> PC]
    PROVE  /\ Broadcast(p) \in [Worker -> PC]
           /\ At(Broadcast(p), "working") = At(p, "working")
           /\ \A r \in Signal(p) :
                /\ r \in [Worker -> PC]
                /\ At(r, "working") = At(p, "working")
    BY DEF Broadcast, Signal, At, PC

\* Type correctness: every handler leaves the queue a sequence of items, the
\* two sets sets of items and the workers in a known place.
THEOREM TypeCorrect == Spec => []TypeOK
<1>1. Init => TypeOK
  BY EmptySeq DEF Init, TypeOK, PC
<1>2. TypeOK /\ [Next]_vars => TypeOK'
  <2> SUFFICES ASSUME TypeOK, [Next]_vars
               PROVE  TypeOK'
    OBVIOUS
  <2> USE DEF TypeOK
  <2>1. CASE ShutDown
    BY <2>1, WakeOps DEF ShutDown
  <2>2. ASSUME NEW i \in Item, Add(i)
        PROVE  TypeOK'
    <3>1. dirty' \in SUBSET Item
      BY <2>2 DEF Add
    <3>2. queue' \in Seq(Item)
      BY <2>2, QueueOps DEF Add
    <3>3. pc' \in [Worker -> PC]
      BY <2>2, WakeOps DEF Add
    <3> QED
      BY <2>2, <3>1, <3>2, <3>3 DEF Add
  <2>3. ASSUME NEW w \in Worker, GetWait(w) \/ GetShutdown(w)
        PROVE  TypeOK'
    BY <2>3 DEF GetWait, GetShutdown, PC
  <2>4. ASSUME NEW w \in Worker, GetItem(w)
        PROVE  TypeOK'
    BY <2>4, QueueOps DEF GetItem, PC
  <2>5. ASSUME NEW w \in Worker, Done(w)
        PROVE  TypeOK'
    <3>1. [pc EXCEPT ![w] = "idle"] \in [Worker -> PC]
      BY DEF PC
    <3>2. pc' \in [Worker -> PC]
      BY <2>5, <3>1, WakeOps DEF Done
    <3>3. held' \in [Worker -> Item \cup {NoItem}]
      BY <2>5 DEF Done
    <3>4. queue' \in Seq(Item)
      <4>1. CASE held[w] \in dirty
        <5>1. held[w] \in Item /\ queue' = Append(queue, held[w])
          BY <2>5, <4>1 DEF Done
        <5> QED
          BY <5>1, QueueOps
      <4>2. CASE held[w] \notin dirty
        BY <2>5, <4>2 DEF Done
      <4> QED
        BY <4>1, <4>2
    <3> QED
      BY <2>5, <3>2, <3>3, <3>4 DEF Done
  <2>6. CASE UNCHANGED vars
    BY <2>6 DEF vars
  <2> QED
    BY <2>1, <2>2, <2>3, <2>4, <2>5, <2>6 DEF Next, Get
<1> QED
  BY <1>1, <1>2, PTL DEF Spec

\* Each handler of queue.go keeps queue, dirty, processing and the workers'
\* hands consistent with one another.
LEMMA Consistent == Spec => []IInv
<1>1. Init => IInv
  <2> SUFFICES ASSUME Init
               PROVE  IInv
    OBVIOUS
  <2>1. TypeOK
    BY EmptySeq DEF Init, TypeOK, PC
  <2>2. QueueIsDirtyNotProcessing
    BY EmptySeq DEF Init, QueueIsDirtyNotProcessing
  <2>3. NothingForgotten
    BY DEF Init, NothingForgotten
  <2>4. OneWorkerPerItem
    <3>1. At(pc, "working") = {}
      BY DEF Init, At
    <3> QED
      BY <3>1 DEF Init, OneWorkerPerItem
  <2> QED
    BY <2>1, <2>2, <2>3, <2>4 DEF IInv
<1>2. IInv /\ TypeOK' /\ [Next]_vars => IInv'
  <2> SUFFICES ASSUME IInv, TypeOK', [Next]_vars
               PROVE  /\ QueueIsDirtyNotProcessing'
                      /\ NothingForgotten'
                      /\ OneWorkerPerItem'
    BY DEF IInv
  <2> USE DEF IInv
  <2>1. CASE ShutDown
    <3>1. At(pc', "working") = At(pc, "working")
      BY <2>1, WakeOps DEF ShutDown, TypeOK
    <3> QED
      BY <2>1, <3>1 DEF ShutDown, QueueIsDirtyNotProcessing,
         NothingForgotten, OneWorkerPerItem
  <2>2. ASSUME NEW i \in Item, Add(i)
        PROVE  /\ QueueIsDirtyNotProcessing'
               /\ NothingForgotten'
               /\ OneWorkerPerItem'
    <3>1. At(pc', "working") = At(pc, "working")
      BY <2>2, WakeOps DEF Add, TypeOK
    <3>2. OneWorkerPerItem'
      BY <2>2, <3>1 DEF Add, OneWorkerPerItem
    <3>3. QueueIsDirtyNotProcessing'
      <4>1. CASE i \in processing
        BY <2>2, <4>1 DEF Add, QueueIsDirtyNotProcessing
      <4>2. CASE i \notin processing
        <5>1. /\ queue' = Append(queue, i)
              /\ dirty' = dirty \cup {i}
              /\ processing' = processing
              /\ i \notin dirty
          BY <2>2, <4>2 DEF Add
        <5> QED
          BY <4>2, <5>1, QueueOps DEF TypeOK, QueueIsDirtyNotProcessing
      <4> QED
        BY <4>1, <4>2
    <3>4. NothingForgotten'
      <4>1. CASE i \in processing
        BY <2>2, <4>1 DEF Add, NothingForgotten
      <4>2. CASE i \notin processing
        <5> SUFFICES ASSUME NEW j \in dirty' \ processing'
                     PROVE  \E n \in 1..Len(queue') : queue'[n] = j
          BY DEF NothingForgotten
        <5>1. queue' = Append(queue, i) /\ dirty' = dirty \cup {i} /\ processing' = processing
          BY <2>2, <4>2 DEF Add
        <5>2. CASE j = i
          BY <5>1, <5>2, QueueOps DEF TypeOK
        <5>3. CASE j # i
          <6>1. PICK n \in 1..Len(queue) : queue[n] = j
            BY <5>1, <5>3 DEF NothingForgotten
          <6> QED
            BY <5>1, <6>1, QueueOps DEF TypeOK
        <5> QED
          BY <5>2, <5>3
      <4> QED
        BY <4>1, <4>2
    <3> QED
      BY <3>2, <3>3, <3>4
  <2>3. ASSUME NEW w \in Worker, GetWait(w) \/ GetShutdown(w)
        PROVE  /\ QueueIsDirtyNotProcessing'
               /\ NothingForgotten'
               /\ OneWorkerPerItem'
    <3>1. At(pc', "working") = At(pc, "working")
      BY <2>3 DEF GetWait, GetShutdown, At, TypeOK
    <3> QED
      BY <2>3, <3>1 DEF GetWait, GetShutdown, QueueIsDirtyNotProcessing,
         NothingForgotten, OneWorkerPerItem
  <2>4. ASSUME NEW w \in Worker, GetItem(w)
        PROVE  /\ QueueIsDirtyNotProcessing'
               /\ NothingForgotten'
               /\ OneWorkerPerItem'
    <3>1. /\ queue # <<>>
          /\ queue' = Tail(queue)
          /\ dirty' = dirty \ {queue[1]}
          /\ processing' = processing \cup {queue[1]}
          /\ held' = [held EXCEPT ![w] = queue[1]]
          /\ pc' = [pc EXCEPT ![w] = "working"]
          /\ w \notin At(pc, "working")
      BY <2>4, QueueOps DEF GetItem, TypeOK, At
    <3>2. QueueIsDirtyNotProcessing'
      BY <3>1, QueueOps DEF TypeOK, QueueIsDirtyNotProcessing
    <3>3. NothingForgotten'
      <4> SUFFICES ASSUME NEW j \in dirty' \ processing'
                   PROVE  \E n \in 1..Len(queue') : queue'[n] = j
        BY DEF NothingForgotten
      <4>1. PICK n \in 1..Len(queue) : queue[n] = j
        BY <3>1 DEF NothingForgotten
      <4>2. n - 1 \in 1..Len(queue')
        BY <3>1, <4>1, QueueOps DEF TypeOK
      <4>3. queue'[n - 1] = j
        BY <3>1, <4>1, <4>2, QueueOps DEF TypeOK
      <4> QED
        BY <4>2, <4>3
    <3>4. OneWorkerPerItem'
      <4>1. At(pc', "working") = At(pc, "working") \cup {w}
        BY <3>1 DEF TypeOK, At
      <4>2. queue[1] \notin processing
        BY <3>1, QueueOps DEF QueueIsDirtyNotProcessing, TypeOK
      <4>3. held'[w] = queue[1] /\ \A v \in Worker \ {w} : held'[v] = held[v]
        BY <3>1 DEF TypeOK
      <4> QED
        BY <3>1, <4>1, <4>2, <4>3 DEF OneWorkerPerItem, At
    <3> QED
      BY <3>2, <3>3, <3>4
  <2>5. ASSUME NEW w \in Worker, Done(w)
        PROVE  /\ QueueIsDirtyNotProcessing'
               /\ NothingForgotten'
               /\ OneWorkerPerItem'
    <3>1. /\ At(pc', "working") = At(pc, "working") \ {w}
          /\ w \in At(pc, "working")
      <4>1. [pc EXCEPT ![w] = "idle"] \in [Worker -> PC]
        BY DEF PC, TypeOK
      <4>2. At([pc EXCEPT ![w] = "idle"], "working") = At(pc, "working") \ {w}
        BY DEF At, TypeOK
      <4> QED
        BY <2>5, <4>1, <4>2, WakeOps DEF Done, At
    <3>2. held[w] \in processing
      BY <3>1 DEF OneWorkerPerItem
    <3>3. /\ processing' = processing \ {held[w]}
          /\ dirty' = dirty
          /\ held' = [held EXCEPT ![w] = NoItem]
      BY <2>5 DEF Done
    <3>4. OneWorkerPerItem'
      <4>1. \A v \in At(pc', "working") : held'[v] = held[v] /\ held[v] # held[w]
        BY <3>1, <3>3 DEF OneWorkerPerItem, TypeOK, At
      <4> QED
        BY <3>1, <3>3, <4>1 DEF OneWorkerPerItem
    <3>5. held[w] \in Item
      BY <3>2 DEF TypeOK
    <3>6. QueueIsDirtyNotProcessing'
      <4>1. CASE held[w] \in dirty
        <5>1. queue' = Append(queue, held[w])
          BY <2>5, <4>1 DEF Done
        <5> QED
          BY <3>2, <3>3, <3>5, <4>1, <5>1, QueueOps
             DEF TypeOK, QueueIsDirtyNotProcessing
      <4>2. CASE held[w] \notin dirty
        BY <2>5, <3>3, <4>2 DEF Done, QueueIsDirtyNotProcessing
      <4> QED
        BY <4>1, <4>2
    <3>7. NothingForgotten'
      <4> SUFFICES ASSUME NEW j \in dirty' \ processing'
                   PROVE  \E n \in 1..Len(queue') : queue'[n] = j
        BY DEF NothingForgotten
      <4>1. CASE j = held[w]
        BY <2>5, <3>3, <3>5, <4>1, QueueOps DEF Done, TypeOK
      <4>2. CASE j # held[w]
        <5>1. PICK n \in 1..Len(queue) : queue[n] = j
          BY <3>3, <4>2 DEF NothingForgotten
        <5> QED
          BY <2>5, <3>5, <5>1, QueueOps DEF Done, TypeOK
      <4> QED
        BY <4>1, <4>2
    <3> QED
      BY <3>4, <3>6, <3>7
  <2>6. CASE UNCHANGED vars
    BY <2>6 DEF vars, QueueIsDirtyNotProcessing, NothingForgotten, OneWorkerPerItem
  <2> QED
    BY <2>1, <2>2, <2>3, <2>4, <2>5, <2>6 DEF Next, Get
<1> QED
  BY <1>1, <1>2, TypeCorrect, PTL DEF Spec

\* q.queue, q.dirty and q.processing agree as queue.go's comments promise, and
\* no accepted item falls between them.
THEOREM QueueConsistent == Spec => [](QueueIsDirtyNotProcessing /\ NothingForgotten)
<1>1. IInv => QueueIsDirtyNotProcessing /\ NothingForgotten
  BY DEF IInv
<1> QED
  BY <1>1, Consistent, PTL

\* Get never gives one item to two workers that have not called Done.
THEOREM MutualExclusion == Spec => []OneWorkerPerItem
<1>1. IInv => OneWorkerPerItem
  BY DEF IInv
<1> QED
  BY <1>1, Consistent, PTL

\* Signalling when someone is parked adds one to the goroutines on their way.
LEMMA SignalCounts ==
    ASSUME NEW p \in [Worker -> PC], NEW r \in Signal(p), At(r, "waiting") # {}
    PROVE  /\ At(p, "waiting") # {}
           /\ Cardinality(At(r, "woken")) = Cardinality(At(p, "woken")) + 1
<1>1. At(p, "waiting") # {}
  BY DEF Signal
<1>2. PICK w \in At(p, "waiting") : r = [p EXCEPT ![w] = "woken"]
  BY <1>1 DEF Signal
<1>3. At(r, "woken") = At(p, "woken") \cup {w} /\ w \notin At(p, "woken")
  BY <1>2 DEF At
<1>4. IsFiniteSet(At(p, "woken"))
  BY FS_Subset, WorkerAssumption DEF At
<1> QED
  BY <1>1, <1>3, <1>4, FS_AddElement

\* No item sits in the queue with a parked worker nobody has been sent for:
\* the one Signal of Add and of Done is enough, for any number of workers.
THEOREM WakeupsSuffice == Spec => []NoLostWakeup
<1> DEFINE Parked == At(pc, "waiting")
           Woken  == At(pc, "woken")
<1>1. Init => NoLostWakeup
  BY DEF Init, NoLostWakeup, At
<1>2. TypeOK /\ NoLostWakeup /\ TypeOK' /\ [Next]_vars => NoLostWakeup'
  <2> SUFFICES ASSUME TypeOK, NoLostWakeup, TypeOK', [Next]_vars, Parked' # {}
               PROVE  Len(queue') <= Cardinality(Woken')
    BY DEF NoLostWakeup, At
  <2>1. /\ IsFiniteSet(Woken) /\ Cardinality(Woken) \in Nat
        /\ IsFiniteSet(Woken') /\ Cardinality(Woken') \in Nat
    BY FS_Subset, FS_CardinalityType, WorkerAssumption DEF At
  <2>2. CASE ShutDown
    BY <2>2 DEF ShutDown, Broadcast, At
  <2>3. ASSUME NEW i \in Item, Add(i)
        PROVE  Len(queue') <= Cardinality(Woken')
    <3>1. CASE i \in processing
      BY <2>3, <3>1 DEF Add, NoLostWakeup, At
    <3>2. CASE i \notin processing
      <4>1. Len(queue') = Len(queue) + 1 /\ Len(queue) \in Nat /\ pc' \in Signal(pc)
        BY <2>3, <3>2, QueueOps DEF Add, TypeOK
      <4>2. Parked # {} /\ Cardinality(Woken') = Cardinality(Woken) + 1
        BY <4>1, SignalCounts DEF TypeOK
      <4> QED
        BY <2>1, <4>1, <4>2 DEF NoLostWakeup
    <3> QED
      BY <3>1, <3>2
  <2>4. ASSUME NEW w \in Worker, GetWait(w) \/ GetShutdown(w)
        PROVE  Len(queue') <= Cardinality(Woken')
    BY <2>1, <2>4, EmptySeq DEF GetWait, GetShutdown
  <2>5. ASSUME NEW w \in Worker, GetItem(w)
        PROVE  Len(queue') <= Cardinality(Woken')
    <3>1. Parked # {} /\ Woken' = Woken \ {w}
      BY <2>5 DEF GetItem, At, TypeOK
    <3>2. Len(queue') = Len(queue) - 1 /\ Len(queue) \in Nat
      BY <2>5, QueueOps DEF GetItem, TypeOK
    <3>3. Cardinality(Woken) <= Cardinality(Woken') + 1
      <4>1. CASE w \in Woken
        BY <2>1, <3>1, <4>1, FS_RemoveElement
      <4>2. CASE w \notin Woken
        BY <2>1, <3>1, <4>2
      <4> QED
        BY <4>1, <4>2
    <3> QED
      BY <2>1, <3>1, <3>2, <3>3 DEF NoLostWakeup
  <2>6. ASSUME NEW w \in Worker, Done(w)
        PROVE  Len(queue') <= Cardinality(Woken')
    <3> DEFINE p == [pc EXCEPT ![w] = "idle"]
    <3>1. /\ p \in [Worker -> PC]
          /\ At(p, "waiting") = Parked
          /\ At(p, "woken") = Woken
      BY <2>6 DEF Done, At, PC, TypeOK
    <3>2. CASE held[w] \in dirty
      <4>1. held[w] \in Item
        BY <3>2 DEF TypeOK
      <4>2. Len(queue') = Len(queue) + 1 /\ Len(queue) \in Nat /\ pc' \in Signal(p)
        BY <2>6, <3>2, <4>1, QueueOps DEF Done, TypeOK
      <4>3. Parked # {} /\ Cardinality(Woken') = Cardinality(Woken) + 1
        BY <3>1, <4>2, SignalCounts
      <4> QED
        BY <2>1, <4>2, <4>3 DEF NoLostWakeup
    <3>3. CASE held[w] \notin dirty
      BY <2>6, <3>1, <3>3 DEF Done, NoLostWakeup
    <3> QED
      BY <3>2, <3>3
  <2>7. CASE UNCHANGED vars
    BY <2>7 DEF vars, NoLostWakeup, At
  <2> QED
    BY <2>2, <2>3, <2>4, <2>5, <2>6, <2>7 DEF Next, Get
<1> QED
  BY <1>1, <1>2, TypeCorrect, PTL DEF Spec

\* Every step of the queue is a step of WorkQueueAbs or leaves its state alone:
\* one item, one worker, and no request lost (the safety part of AbsSpec).
THEOREM Refinement == Spec => AbsSafeSpec
<1>1. Init => Abs!AbsInit
  BY DEF Init, Abs!AbsInit
<1>2. IInv /\ [Next]_vars => [Abs!AbsNext]_(Abs!absVars)
  <2> SUFFICES ASSUME IInv, [Next]_vars
               PROVE  Abs!AbsNext \/ UNCHANGED Abs!absVars
    OBVIOUS
  <2>1. CASE ShutDown
    BY <2>1 DEF ShutDown, Abs!AbsNext, Abs!Close
  <2>2. ASSUME NEW i \in Item, Add(i)
        PROVE  Abs!AbsNext
    BY <2>2 DEF Add, Abs!AbsNext, Abs!Request
  <2>3. ASSUME NEW w \in Worker, GetWait(w) \/ GetShutdown(w)
        PROVE  UNCHANGED Abs!absVars
    BY <2>3 DEF GetWait, GetShutdown, Abs!absVars
  <2>4. ASSUME NEW w \in Worker, GetItem(w)
        PROVE  Abs!AbsNext
    <3>1. Head(queue) \in Item /\ Head(queue) \in dirty \ processing
      BY <2>4, QueueOps DEF GetItem, IInv, TypeOK, QueueIsDirtyNotProcessing
    <3>2. Abs!Start(Head(queue))
      BY <2>4, <3>1 DEF GetItem, Abs!Start
    <3> QED
      BY <3>1, <3>2 DEF Abs!AbsNext
  <2>5. ASSUME NEW w \in Worker, Done(w)
        PROVE  Abs!AbsNext
    <3>1. held[w] \in processing /\ held[w] \in Item
      BY <2>5 DEF Done, IInv, OneWorkerPerItem, TypeOK, At
    <3>2. Abs!Finish(held[w])
      BY <2>5, <3>1 DEF Done, Abs!Finish
    <3> QED
      BY <3>1, <3>2 DEF Abs!AbsNext
  <2>6. CASE UNCHANGED vars
    BY <2>6 DEF vars, Abs!absVars
  <2> QED
    BY <2>1, <2>2, <2>3, <2>4, <2>5, <2>6 DEF Next, Get
<1> QED
  BY <1>1, <1>2, Consistent, PTL DEF Spec, AbsSafeSpec, Abs!AbsSafeSpec
=============================================================================
