------------------------- MODULE DelayingQueueProofs -------------------------
(***************************************************************************)
(* The delaying queue for any number of items and callers, any delays, any *)
(* channel and any heartbeat.                                              *)
(*                                                                         *)
(* ExpiredIsNoticed speaks of the loop while it waits; what makes it true  *)
(* happens before, while the loop takes what is ready: unless a tick of    *)
(* the heartbeat is there to be received, the now that the loop works with *)
(* is not older than the last tick (NowIsRecent), so that what it leaves   *)
(* in the heap was not due at the last tick (LeftIsRecent).                *)
(***************************************************************************)
EXTENDS DelayingQueue, FiniteSetTheorems, SequenceTheorems, TLAPS

Entry == Item \X Nat

LoopState ==
    [pc : {"top", "pop", "select", "drain", "ended"}, now : Nat, timer : Int \cup {NoTime}]

CallState == [at : {"idle", "add", "send"}, item : Item \cup {NoItem}, time : Nat]

\* Every variable has its type, and whoever is inside AddAfter has an item.
TypeOK ==
    /\ pending \in SUBSET Item /\ active \in SUBSET Item /\ closed \in BOOLEAN
    /\ stopCh \in BOOLEAN /\ beat \in BOOLEAN
    /\ clock \in Nat /\ calls \in Nat
    /\ channel \in Seq(Entry)
    /\ waiting \in [Item -> Nat \cup {NoTime}]
    /\ loop \in LoopState
    /\ failures \in [Item -> Nat]
    /\ call \in [Goroutine -> CallState]
    /\ \A g \in Goroutine : call[g].at # "idle" => call[g].item \in Item

\* The last time at which the heartbeat ticked, or 0.
LastBeat == clock - (clock % MaxWait)

NowIsPast == loop.now <= clock

StopIsClosed == stopCh => closed

NowIsRecent == loop.pc = "pop" /\ ~stopCh /\ ~beat => loop.now >= LastBeat

LeftIsRecent ==
    loop.pc = "select" /\ ~stopCh /\ ~beat => \A i \in Waiting : waiting[i] > LastBeat

IInv == TypeOK /\ NowIsPast /\ StopIsClosed /\ NowIsRecent /\ LeftIsRecent
-----------------------------------------------------------------------------
(***************************************************************************)
(* Arithmetic that the solvers have to be led to.                          *)
(***************************************************************************)
\* What the remainder is.
LEMMA Division ==
    ASSUME NEW n \in Nat, NEW w \in Nat \ {0}
    PROVE  /\ n % w \in 0..(w - 1) /\ n \div w \in Nat
           /\ n = (w * (n \div w)) + (n % w)
  BY SMT

\* A remainder grows by one or starts again, as the heartbeat's period does.
LEMMA RemainderSteps ==
    ASSUME NEW n \in Nat, NEW w \in Nat \ {0}
    PROVE  (n + 1) % w \in {0, (n % w) + 1}
<1> DEFINE q == n \div w
           r == n % w
           p == (n + 1) \div w
           s == (n + 1) % w
<1>1. /\ q \in Nat /\ r \in Nat /\ r < w /\ n = w * q + r
      /\ p \in Nat /\ s \in Nat /\ s < w /\ n + 1 = w * p + s
  BY Division, n + 1 \in Nat
<1> HIDE DEF q, r, p, s
<1>2. \A k \in Nat : k >= 1 => w * k >= w
  BY SMT
<1>3. \A k \in Nat : k >= 2 => w * k >= 2 * w
  BY SMT
<1>4. CASE p = q
  BY <1>1, <1>4 DEF r, s
<1>5. CASE p < q
  <2>1. PICK k \in Nat : k >= 1 /\ q = p + k
    BY <1>1, <1>5, q - p \in Nat
  <2>2. w * q = w * p + w * k
    BY <1>1, <2>1
  <2> QED
    BY <1>1, <1>2, <2>1, <2>2
<1>6. CASE p > q
  <2>1. PICK k \in Nat : k >= 1 /\ p = q + k
    BY <1>1, <1>6, p - q \in Nat
  <2>2. w * p = w * q + w * k
    BY <1>1, <2>1
  <2>3. k = 1
    BY <1>1, <1>3, <2>1, <2>2
  <2>4. s = 0
    BY <1>1, <2>1, <2>2, <2>3
  <2> QED
    BY <2>4 DEF s
<1> QED
  BY <1>1, <1>4, <1>5, <1>6

\* A power of two is the number of subsets of a set, so it is positive.
LEMMA PowerPositive ==
    ASSUME NEW n \in Nat
    PROVE  2 ^ n \in Nat /\ 2 ^ n >= 1
<1>1. IsFiniteSet(1..n) /\ Cardinality(1..n) = n
  BY FS_Interval
<1>2. IsFiniteSet(SUBSET (1..n)) /\ Cardinality(SUBSET (1..n)) = 2 ^ n
  BY <1>1, FS_SUBSET
<1>3. Cardinality(SUBSET (1..n)) \in Nat /\ Cardinality(SUBSET (1..n)) # 0
  BY <1>2, FS_CardinalityType, FS_EmptySet, {} \in SUBSET (1..n)
<1> QED
  BY <1>2, <1>3

\* The longest delay, where CHOOSE finds it.
LEMMA LastTimeBounds ==
    /\ LastTime \in Int
    /\ \A d \in Delays : MaxTime + d <= LastTime
<1> DEFINE longest == CHOOSE d \in Delays : Longest(d)
<1>1. longest \in Delays /\ Longest(longest)
  <2>1. \E d \in Delays : Longest(d)
    BY DelayAssumption
  <2> QED
    BY <2>1, SMT DEF Longest
<1>2. Delays \subseteq Int /\ MaxTime \in Nat
  <2>1. /\ Delay \subseteq Int /\ BucketDelay \subseteq Nat /\ MaxTime \in Nat
        /\ MaxDelay \in Nat /\ SlowDelay \in Nat /\ FastDelay \in Nat
    BY DelayAssumption
  <2> QED
    BY <2>1 DEF Delays
<1>3. LastTime = MaxTime + longest
  BY DEF LastTime
<1> HIDE DEF longest
<1> QED
  BY <1>1, <1>2, <1>3 DEF Longest
-----------------------------------------------------------------------------
(***************************************************************************)
(* The rate limiters                                                       *)
(***************************************************************************)
\* The exponential delay is an integer and at most the longest delay.
LEMMA ExponentialType ==
    ASSUME NEW n \in Nat, NEW d \in ExponentialWhen(n)
    PROVE  d \in Int /\ d <= MaxDelay
<1> DEFINE p == 2 ^ n
           b == BaseDelay * p
<1>1. p \in Nat
  BY PowerPositive
<1>2. Limit \in Nat
  <2>1. Width - 1 \in Nat
    BY DelayAssumption
  <2> QED
    BY <2>1, PowerPositive DEF Limit
<1>3. BaseDelay \in Nat /\ MaxDelay \in Nat
  BY DelayAssumption
<1>4. b \in Nat
  <2> HIDE DEF p
  <2> QED
    BY <1>1, <1>3
<1>5. d \in (IF b > Limit THEN {MaxDelay} ELSE {Capped(c) : c \in Converted(b)})
  BY DEF ExponentialWhen
<1> HIDE DEF b
<1> QED
  BY <1>2, <1>3, <1>4, <1>5 DEF Capped, Converted

\* What the limiters answer is one of their answers, or 0, and none is more.
LEMMA WorstAnswer ==
    ASSUME NEW n \in Nat, NEW d \in MaxOfWhen(n)
    PROVE  \E e \in ExponentialWhen(n), s \in {FastDelay, SlowDelay}, b \in BucketDelay :
              /\ d \in {0, e, s, b}
              /\ d \in Int /\ d >= e /\ d >= 0
<1> DEFINE Answers == {<<e, s, b>> : e \in ExponentialWhen(n), s \in FastSlowWhen(n),
                                     b \in BucketDelay}
           Worst(a) == CHOOSE x \in {0, a[1], a[2], a[3]} : \A o \in {0, a[1], a[2], a[3]} : o <= x
<1>1. PICK a \in Answers : d = Worst(a)
  BY DEF MaxOfWhen
<1>2. PICK e \in ExponentialWhen(n), s \in FastSlowWhen(n), b \in BucketDelay : a = <<e, s, b>>
  BY <1>1
<1>3. e \in Int /\ b \in Int /\ s \in Int /\ s \in {FastDelay, SlowDelay}
  BY ExponentialType, DelayAssumption DEF FastSlowWhen
<1>4. d = CHOOSE x \in {0, e, s, b} : \A o \in {0, e, s, b} : o <= x
  BY <1>1, <1>2
<1>5. \E x \in {0, e, s, b} : \A o \in {0, e, s, b} : o <= x
  BY <1>3
<1>6. d \in {0, e, s, b} /\ \A o \in {0, e, s, b} : o <= d
  BY <1>4, <1>5
<1> QED
  BY <1>3, <1>6

\* The limiters' delays are among Delays, unless they are not delays at all.
LEMMA LimiterDelays ==
    ASSUME NEW n \in Nat, NEW d \in MaxOfWhen(n)
    PROVE  d \in Int /\ MaxTime + d <= LastTime
<1>1. PICK e \in ExponentialWhen(n), s \in {FastDelay, SlowDelay}, b \in BucketDelay :
              d \in {0, e, s, b} /\ d \in Int
  BY WorstAnswer
<1>2. e \in Int /\ e <= MaxDelay
  BY ExponentialType
<1>3. MaxDelay \in Delays /\ s \in Delays /\ b \in Delays
  BY DEF Delays
<1>4. /\ MaxTime \in Nat /\ MaxDelay \in Nat /\ MaxTime + MaxDelay <= LastTime
      /\ MaxTime + s <= LastTime /\ MaxTime + b <= LastTime
  BY <1>3, LastTimeBounds, DelayAssumption
<1> QED
  BY <1>1, <1>2, <1>4, LastTimeBounds
-----------------------------------------------------------------------------
(***************************************************************************)
(* Types                                                                   *)
(***************************************************************************)
\* The constants that the actions compute with.
LEMMA Durations ==
    /\ Delay \subseteq Int /\ MaxWait \in Nat \ {0} /\ NoTime \notin Int
    /\ NoItem \notin Item
  BY DelayAssumption

LEMMA IdleType == Idle \in CallState
  BY DEF Idle, CallState

\* A place of the loop, and what is left of it when one field is set.
LEMMA AtType ==
    ASSUME NEW pc \in {"top", "pop", "select", "drain", "ended"}
    PROVE  At(pc) \in LoopState
  BY DEF At, LoopState

\* AddAfter and AddRateLimited: the caller that enters gets an item and a time.
LEMMA EnterTypes ==
    ASSUME TypeOK, NEW g \in Goroutine, NEW i \in Item, NEW d \in Int,
           EnterAddAfter(g, i, d)
    PROVE  /\ call' \in [Goroutine -> CallState]
           /\ \A h \in Goroutine : call'[h].at # "idle" => call'[h].item \in Item
           /\ calls' \in Nat
<1>1. calls' \in Nat
  BY DEF TypeOK, EnterAddAfter
<1>2. CASE UNCHANGED call
  BY <1>1, <1>2 DEF TypeOK
<1>3. ASSUME NEW c \in [at : {"add", "send"}, item : {i}, time : Nat],
             call' = [call EXCEPT ![g] = c]
      PROVE  /\ call' \in [Goroutine -> CallState]
             /\ \A h \in Goroutine : call'[h].at # "idle" => call'[h].item \in Item
  <2>1. c \in CallState /\ c.item = i
    BY DEF CallState
  <2> QED
    BY <1>3, <2>1 DEF TypeOK
<1>4. CASE d <= 0 /\ call' = [call EXCEPT ![g] = [at |-> "add", item |-> i, time |-> 0]]
  BY <1>1, <1>3, <1>4
<1>5. CASE d > 0 /\ call' = [call EXCEPT ![g] = [at |-> "send", item |-> i, time |-> clock + d]]
  <2>1. [at |-> "send", item |-> i, time |-> clock + d]
            \in [at : {"add", "send"}, item : {i}, time : Nat]
    BY <1>5 DEF TypeOK
  <2> QED
    BY <1>1, <1>3, <1>5, <2>1
<1> QED
  BY <1>2, <1>4, <1>5 DEF EnterAddAfter

LEMMA ReturnTypes ==
    ASSUME TypeOK, NEW g \in Goroutine, Return(g)
    PROVE  /\ call' \in [Goroutine -> CallState]
           /\ \A h \in Goroutine : call'[h].at # "idle" => call'[h].item \in Item
<1>1. Idle.at = "idle"
  BY DEF Idle
<1> QED
  BY <1>1, IdleType DEF TypeOK, Return

LEMMA AddTypes ==
    ASSUME TypeOK, NEW i \in Item, Add(i)
    PROVE  pending' \in SUBSET Item /\ active' = active /\ closed' = closed
  BY DEF TypeOK, Add, queueVars, Queue!Request

\* The steps of callers and workers.
LEMMA CallerTypes ==
    ASSUME TypeOK,
           \/ \E g \in Goroutine : AddAfterSteps(g)
           \/ \E g \in Goroutine, i \in Item : AddRateLimited(g, i) \/ \E d \in Delay : AddAfter(g, i, d)
           \/ \E i \in Item : Forget(i) \/ Work(i)
    PROVE  TypeOK'
<1>1. ASSUME NEW g \in Goroutine, AddNow(g)
      PROVE  TypeOK'
  <2>1. call[g].item \in Item
    BY <1>1 DEF TypeOK, AddNow
  <2> QED
    BY <1>1, <2>1, ReturnTypes, AddTypes DEF TypeOK, AddNow
<1>2. ASSUME NEW g \in Goroutine, Send(g)
      PROVE  TypeOK'
  <2>1. <<call[g].item, call[g].time>> \in Entry
    BY <1>2 DEF TypeOK, Send, Entry, CallState
  <2>2. channel' \in Seq(Entry)
    BY <1>2, <2>1 DEF TypeOK, Send
  <2> QED
    BY <1>2, <2>2, ReturnTypes DEF TypeOK, Send, queueVars
<1>3. ASSUME NEW g \in Goroutine, SendStopped(g)
      PROVE  TypeOK'
  BY <1>3, ReturnTypes DEF TypeOK, SendStopped, queueVars
<1>4. ASSUME NEW g \in Goroutine, NEW i \in Item, AddRateLimited(g, i)
      PROVE  TypeOK'
  <2>1. failures[i] \in Nat
    BY DEF TypeOK
  <2>2. PICK d \in MaxOfWhen(failures[i]) : EnterAddAfter(g, i, d)
    BY <1>4 DEF AddRateLimited
  <2>3. d \in Int
    BY <2>1, LimiterDelays
  <2>4. failures' \in [Item -> Nat]
    BY <1>4 DEF TypeOK, AddRateLimited
  <2> QED
    BY <1>4, <2>2, <2>3, <2>4, EnterTypes DEF TypeOK, AddRateLimited, queueVars
<1>5. ASSUME NEW g \in Goroutine, NEW i \in Item, NEW d \in Delay, AddAfter(g, i, d)
      PROVE  TypeOK'
  BY <1>5, EnterTypes, Durations DEF TypeOK, AddAfter, queueVars
<1>6. ASSUME NEW i \in Item, Forget(i)
      PROVE  TypeOK'
  <2>1. failures' \in [Item -> Nat]
    BY <1>6 DEF TypeOK, Forget
  <2> QED
    BY <1>6, <2>1 DEF TypeOK, Forget, queueVars
<1>7. ASSUME NEW i \in Item, Work(i)
      PROVE  TypeOK'
  BY <1>7 DEF TypeOK, Work, Queue!Start, Queue!Finish
<1> QED
  BY <1>1, <1>2, <1>3, <1>4, <1>5, <1>6, <1>7 DEF AddAfterSteps

\* What is at the head of the channel, and what is left of it.
LEMMA HeadOfChannel ==
    ASSUME TypeOK, channel # <<>>
    PROVE  /\ Head(channel)[1] \in Item /\ Head(channel)[2] \in Nat
           /\ Head(channel) = <<Head(channel)[1], Head(channel)[2]>>
           /\ Tail(channel) \in Seq(Entry)
<1>1. Head(channel) \in Entry /\ Tail(channel) \in Seq(Entry)
  BY HeadTailProperties DEF TypeOK
<1> QED
  BY <1>1 DEF Entry

\* An item that waits has a time.
LEMMA WaitingTimes ==
    ASSUME TypeOK, NEW i \in Item
    PROVE  i \in Waiting <=> waiting[i] \in Nat
  BY Durations DEF TypeOK, Waiting

\* The steps of waitingLoop.
LEMMA LoopTypes ==
    ASSUME TypeOK, waitingLoop
    PROVE  TypeOK'
<1>1. ASSUME NEW pc \in {"top", "pop", "select", "drain", "ended"}, NEW t \in Nat,
             loop' = [At(pc) EXCEPT !.now = t]
      PROVE  loop' \in LoopState
  BY <1>1 DEF At, LoopState
<1>2. ASSUME NEW pc \in {"top", "pop", "select", "drain", "ended"}, NEW t \in Int,
             loop' = [At(pc) EXCEPT !.timer = t]
      PROVE  loop' \in LoopState
  BY <1>2 DEF At, LoopState
<1>3. CASE LoopShutdown \/ SelectStop \/ SelectHeartbeat \/ SelectTimer \/ Drained
  BY <1>3, AtType
     DEF TypeOK, LoopShutdown, SelectStop, SelectHeartbeat, SelectTimer, Drained, queueVars
<1>4. CASE LoopTop
  BY <1>1, <1>4 DEF TypeOK, LoopTop, queueVars
<1>5. CASE PopReady
  <2>1. PICK i \in Roots : Add(i) /\ waiting' = [waiting EXCEPT ![i] = NoTime]
    BY <1>5 DEF PopReady
  <2>2. i \in Item
    BY DEF Roots, Waiting
  <2>3. waiting' \in [Item -> Nat \cup {NoTime}]
    BY <2>1 DEF TypeOK
  <2> QED
    BY <1>5, <2>1, <2>2, <2>3, AddTypes DEF TypeOK, PopReady
<1>6. CASE ArmTimer
  <2>1. ASSUME NEW i \in Roots
        PROVE  clock + (waiting[i] - loop.now) \in Int
    <3>1. waiting[i] \in Nat
      BY WaitingTimes DEF Roots, Waiting
    <3> QED
      BY <3>1 DEF TypeOK, LoopState
  <2>2. loop' \in LoopState
    BY <1>2, <1>6, <2>1, AtType DEF ArmTimer
  <2> QED
    BY <1>6, <2>2 DEF TypeOK, ArmTimer, queueVars
<1>7. CASE Receive
  <2> DEFINE i == Head(channel)[1]
             t == Head(channel)[2]
  <2>1. i \in Item /\ t \in Nat /\ channel' \in Seq(Entry)
    BY <1>7, HeadOfChannel DEF Receive
  <2>2. loop' \in LoopState
    BY <1>7, AtType DEF Receive
  <2>3. \/ insert(i, t) /\ UNCHANGED queueVars
        \/ Add(i) /\ UNCHANGED waiting
    BY <1>7 DEF Receive
  <2>4. UNCHANGED <<stopCh, beat, clock, failures, call, calls>>
    BY <1>7 DEF Receive
  <2> HIDE DEF i, t
  <2>5. waiting' \in [Item -> Nat \cup {NoTime}]
    BY <2>1, <2>3 DEF TypeOK, insert
  <2>6. pending' \in SUBSET Item /\ active' = active /\ closed' = closed
    BY <2>1, <2>3, AddTypes DEF TypeOK, queueVars
  <2> QED
    BY <2>1, <2>2, <2>4, <2>5, <2>6 DEF TypeOK
<1> QED
  BY <1>3, <1>4, <1>5, <1>6, <1>7 DEF waitingLoop

LEMMA TypesKept == TypeOK /\ [Next]_vars => TypeOK'
<1> SUFFICES ASSUME TypeOK, [Next]_vars
             PROVE  TypeOK'
  OBVIOUS
<1>1. CASE waitingLoop
  BY <1>1, LoopTypes
<1>2. CASE ShutDown \/ CloseStopCh
  BY <1>2 DEF TypeOK, ShutDown, CloseStopCh, Queue!Close, queueVars
<1>3. CASE Tick
  <2>1. beat' \in BOOLEAN
    BY <1>3 DEF TypeOK, Tick
  <2> QED
    BY <1>3, <2>1 DEF TypeOK, Tick, queueVars
<1>4. CASE UNCHANGED vars
  BY <1>4 DEF TypeOK, vars
<1> QED
  BY <1>1, <1>2, <1>3, <1>4, CallerTypes DEF Next
-----------------------------------------------------------------------------
(***************************************************************************)
(* The heartbeat                                                           *)
(***************************************************************************)
\* While time passes without a tick of the heartbeat, the last one stays.
LEMMA LastBeatStays ==
    ASSUME TypeOK, Tick, ~stopCh, ~beat'
    PROVE  ~beat /\ LastBeat' = LastBeat
<1>1. /\ ~beat /\ (clock + 1) % MaxWait # 0
      /\ clock \in Nat /\ clock' = clock + 1
  BY DEF TypeOK, Tick
<1>2. (clock + 1) % MaxWait = (clock % MaxWait) + 1
  BY <1>1, RemainderSteps, Durations
<1>3. clock % MaxWait \in Nat
  BY <1>1, Division, Durations
<1>4. (clock + 1) - ((clock % MaxWait) + 1) = clock - (clock % MaxWait)
  BY <1>1, <1>3
<1>5. LastBeat' = clock' - (clock' % MaxWait)
  BY DEF LastBeat
<1>6. clock' % MaxWait = (clock % MaxWait) + 1
  BY <1>1, <1>2
<1> QED
  BY <1>1, <1>4, <1>5, <1>6 DEF LastBeat

\* The last tick is not in the future, and less than a period ago.
LEMMA LastBeatBounds ==
    ASSUME clock \in Nat
    PROVE  LastBeat \in Int /\ LastBeat <= clock /\ clock < LastBeat + MaxWait
<1>1. clock % MaxWait \in 0..(MaxWait - 1)
  BY Division, Durations
<1> QED
  BY <1>1, Durations DEF LastBeat

\* Everything the invariant of the loop reads, left alone.
Bystander == UNCHANGED <<closed, stopCh, beat, clock, waiting, loop>>

LEMMA BystanderKeeps ==
    ASSUME IInv, Bystander, TypeOK'
    PROVE  IInv'
  BY DEF IInv, Bystander, NowIsPast, StopIsClosed, NowIsRecent, LeftIsRecent, LastBeat, Waiting

LEMMA CallersStandBy ==
    ASSUME TypeOK,
           \/ \E g \in Goroutine : AddAfterSteps(g)
           \/ \E g \in Goroutine, i \in Item : AddRateLimited(g, i) \/ \E d \in Delay : AddAfter(g, i, d)
           \/ \E i \in Item : Forget(i) \/ Work(i)
    PROVE  Bystander
<1>1. ASSUME NEW g \in Goroutine, AddAfterSteps(g)
      PROVE  Bystander
  BY <1>1 DEF AddAfterSteps, AddNow, Send, SendStopped, Add, Queue!Request, queueVars, Bystander
<1>2. ASSUME NEW g \in Goroutine, NEW i \in Item,
             AddRateLimited(g, i) \/ \E d \in Delay : AddAfter(g, i, d)
      PROVE  Bystander
  BY <1>2 DEF AddRateLimited, AddAfter, queueVars, Bystander
<1>3. ASSUME NEW i \in Item, Forget(i) \/ Work(i)
      PROVE  Bystander
  BY <1>3 DEF Forget, Work, Queue!Start, Queue!Finish, queueVars, Bystander
<1> QED
  BY <1>1, <1>2, <1>3

LEMMA LoopKeeps ==
    ASSUME IInv, waitingLoop, TypeOK'
    PROVE  IInv'
<1> USE DEF IInv
<1>1. ASSUME NEW pc \in {"top", "drain", "ended"}, loop' = At(pc),
             UNCHANGED <<closed, stopCh, clock>>
      PROVE  IInv'
  <2>1. loop'.pc = pc /\ loop'.now = 0
    BY <1>1 DEF At
  <2> QED
    BY <1>1, <2>1 DEF TypeOK, NowIsPast, StopIsClosed, NowIsRecent, LeftIsRecent
<1>2. CASE LoopShutdown \/ SelectStop \/ SelectHeartbeat \/ SelectTimer \/ Drained
  BY <1>1, <1>2 DEF LoopShutdown, SelectStop, SelectHeartbeat, SelectTimer, Drained, queueVars
<1>3. CASE Receive
  <2>1. loop' = At("drain") /\ UNCHANGED <<closed, stopCh, clock>>
    BY <1>3 DEF Receive, Add, Queue!Request, queueVars
  <2> QED
    BY <1>1, <2>1
<1>4. CASE LoopTop
  <2>1. /\ loop'.pc = "pop" /\ loop'.now = clock
        /\ UNCHANGED <<closed, stopCh, beat, clock, waiting>>
    BY <1>4 DEF LoopTop, At, queueVars
  <2>2. LastBeat <= clock /\ LastBeat' = LastBeat
    BY <2>1, LastBeatBounds DEF TypeOK, LastBeat
  <2> QED
    BY <2>1, <2>2 DEF TypeOK, NowIsPast, StopIsClosed, NowIsRecent, LeftIsRecent
<1>5. CASE PopReady
  <2>1. loop.pc = "pop" /\ UNCHANGED <<closed, stopCh, beat, clock, loop>>
    BY <1>5 DEF PopReady, Add, Queue!Request, queueVars
  <2> QED
    BY <2>1 DEF NowIsPast, StopIsClosed, NowIsRecent, LeftIsRecent, LastBeat
<1>6. CASE ArmTimer
  <2>1. /\ loop.pc = "pop" /\ loop'.pc = "select" /\ loop'.now = 0
        /\ UNCHANGED <<closed, stopCh, beat, clock, waiting>>
        /\ \A i \in Waiting : waiting[i] > loop.now
    BY <1>6 DEF ArmTimer, At, queueVars
  <2>2. NowIsPast' /\ StopIsClosed' /\ NowIsRecent'
    BY <2>1 DEF TypeOK, NowIsPast, StopIsClosed, NowIsRecent
  <2>3. Waiting' = Waiting /\ LastBeat' = LastBeat /\ LastBeat \in Int /\ loop.now \in Nat
    BY <2>1, LastBeatBounds DEF Waiting, LastBeat, TypeOK, LoopState
  <2>4. \A i \in Waiting : waiting[i] \in Nat
    BY WaitingTimes DEF Waiting
  <2>5. LeftIsRecent'
    BY <2>1, <2>3, <2>4 DEF NowIsRecent, LeftIsRecent
  <2> QED
    BY <2>2, <2>5
<1> QED
  BY <1>2, <1>3, <1>4, <1>5, <1>6 DEF waitingLoop

LEMMA Invariant == Spec => []IInv
<1>1. Init => IInv
  <2> SUFFICES ASSUME Init
               PROVE  IInv
    OBVIOUS
  <2>1. TypeOK
    <3>1. channel \in Seq(Entry)
      BY EmptySeq DEF Init
    <3>2. Idle \in CallState /\ Idle.at = "idle" /\ At("top") \in LoopState
      BY IdleType, AtType DEF Idle
    <3> QED
      BY <3>1, <3>2 DEF Init, TypeOK, Queue!AbsInit
  <2>2. loop.pc = "top" /\ loop.now = 0
    BY DEF Init, At
  <2> QED
    BY <2>1, <2>2 DEF Init, IInv, NowIsPast, StopIsClosed, NowIsRecent, LeftIsRecent
<1>2. ASSUME IInv, [Next]_vars
      PROVE  IInv'
  <2> USE DEF IInv
  <2>1. TypeOK'
    BY <1>2, TypesKept
  <2>2. CASE waitingLoop
    BY <1>2, <2>1, <2>2, LoopKeeps
  <2>3. CASE ShutDown
    BY <1>2, <2>1, <2>3 DEF ShutDown, Queue!Close, NowIsPast, StopIsClosed, NowIsRecent,
                            LeftIsRecent, LastBeat, Waiting
  <2>4. CASE CloseStopCh
    BY <1>2, <2>1, <2>4 DEF CloseStopCh, queueVars, NowIsPast, StopIsClosed, NowIsRecent,
                            LeftIsRecent, LastBeat
  <2>5. CASE Tick
    <3>1. UNCHANGED <<closed, stopCh, waiting, loop>> /\ clock' = clock + 1
      BY <2>5 DEF Tick, queueVars
    <3>2. NowIsPast' /\ StopIsClosed'
      BY <1>2, <3>1 DEF TypeOK, LoopState, NowIsPast, StopIsClosed
    <3>3. Waiting' = Waiting
      BY <3>1 DEF Waiting
    <3>4. NowIsRecent' /\ LeftIsRecent'
      BY <1>2, <2>5, <3>1, <3>3, LastBeatStays DEF NowIsRecent, LeftIsRecent
    <3> QED
      BY <2>1, <3>2, <3>4
  <2>6. CASE UNCHANGED vars
    BY <1>2, <2>1, <2>6, BystanderKeeps DEF vars, Bystander
  <2>7. CASE \/ \E g \in Goroutine : AddAfterSteps(g)
             \/ \E g \in Goroutine, i \in Item :
                   AddRateLimited(g, i) \/ \E d \in Delay : AddAfter(g, i, d)
             \/ \E i \in Item : Forget(i) \/ Work(i)
    BY <1>2, <2>1, <2>7, CallersStandBy, BystanderKeeps
  <2> QED
    BY <1>2, <2>2, <2>3, <2>4, <2>5, <2>6, <2>7 DEF Next
<1> QED
  BY <1>1, <1>2, PTL DEF Spec

\* The delaying queue keeps its types, for any items, callers and delays.
THEOREM TypeCorrect == Spec => []TypeOK
<1>1. IInv => TypeOK
  BY DEF IInv
<1> QED
  BY <1>1, Invariant, PTL

\* The heartbeat of waitingLoop bounds how long an expired item sits, for any
\* period and however late the timer: what the loop left in the heap was not
\* due at the last tick, which is less than a period ago.
THEOREM HeartbeatSuffices == Spec => []ExpiredIsNoticed
<1>1. IInv => ExpiredIsNoticed
  <2> SUFFICES ASSUME IInv, loop.pc = "select", ~stopCh,
                      NEW i \in Waiting, clock >= waiting[i] + MaxWait, ~beat
               PROVE  FALSE
    BY DEF ExpiredIsNoticed, IInv, TypeOK
  <2>1. waiting[i] > LastBeat
    BY DEF IInv, LeftIsRecent
  <2>2. waiting[i] \in Nat
    BY WaitingTimes DEF IInv, Waiting
  <2>3. clock \in Nat /\ LastBeat \in Int /\ clock < LastBeat + MaxWait
    BY LastBeatBounds DEF IInv, TypeOK
  <2> QED
    BY <2>1, <2>2, <2>3, Durations
<1> QED
  BY <1>1, Invariant, PTL
-----------------------------------------------------------------------------
(***************************************************************************)
(* The exponential limiter                                                 *)
(***************************************************************************)
\* No multiple of the base delay is the one float64 that passes the test of
\* overflow and does not fit.  The 5 ms of DefaultControllerRateLimiter are
\* such a base delay; a power of two would not be.
NeverRounds == \A n \in Nat : BaseDelay * 2 ^ n # Limit

\* The exponential delay never falls below the first.
LEMMA ExponentialFloor ==
    ASSUME NeverRounds, NEW n \in Nat, NEW e \in ExponentialWhen(n)
    PROVE  Capped(BaseDelay) \in Nat \ {0} /\ e \in Int /\ e >= Capped(BaseDelay)
<1> DEFINE p == 2 ^ n
           b == BaseDelay * p
<1>1. p \in Nat /\ p >= 1
  BY PowerPositive
<1>2. Limit \in Nat
  <2>1. Width - 1 \in Nat
    BY DelayAssumption
  <2> QED
    BY <2>1, PowerPositive DEF Limit
<1>3. BaseDelay \in Nat \ {0} /\ MaxDelay \in Nat \ {0}
  BY DelayAssumption
<1>4. b \in Nat /\ b >= BaseDelay
  <2> HIDE DEF p
  <2> QED
    BY <1>1, <1>3
<1>5. b # Limit
  BY DEF NeverRounds
<1>6. e \in (IF b > Limit THEN {MaxDelay} ELSE {Capped(c) : c \in Converted(b)})
  BY DEF ExponentialWhen
<1> HIDE DEF b
<1> QED
  BY <1>2, <1>3, <1>4, <1>5, <1>6 DEF Capped, Converted

\* However often an item failed, AddRateLimited asks for at least the base
\* delay: no base delay that never rounds overflows or wraps around.
THEOREM NeverAtOnce ==
    ASSUME NeverRounds
    PROVE  Spec => NoHotLoop
<1> DEFINE Floor == \A g \in Goroutine, i \in Item :
                        failures'[i] > failures[i] /\ call'[g] # call[g] =>
                            call'[g].time >= clock + Capped(BaseDelay)
<1>1. ASSUME IInv, [Next]_vars
      PROVE  [Floor]_vars
  <2> SUFFICES ASSUME Next, NEW g \in Goroutine, NEW i \in Item,
                      failures'[i] > failures[i], call'[g] # call[g]
               PROVE  call'[g].time >= clock + Capped(BaseDelay)
    BY <1>1
  <2>1. failures \in [Item -> Nat] /\ call \in [Goroutine -> CallState] /\ clock \in Nat
    BY <1>1 DEF IInv, TypeOK
  <2>2. PICK h \in Goroutine, j \in Item : AddRateLimited(h, j)
    <3>1. ~UNCHANGED failures
      BY <2>1
    <3>2. \A k \in Item : ~Forget(k)
      BY <2>1 DEF Forget
    <3>3. ~waitingLoop /\ ~ShutDown /\ ~CloseStopCh /\ ~Tick
      BY <3>1 DEF waitingLoop, LoopShutdown, LoopTop, PopReady, ArmTimer, SelectStop,
                  SelectHeartbeat, SelectTimer, Receive, Drained, ShutDown, CloseStopCh, Tick
    <3>4. /\ \A k \in Goroutine : ~AddAfterSteps(k)
          /\ \A k \in Item : ~Work(k)
          /\ \A k \in Goroutine, l \in Item, d \in Delay : ~AddAfter(k, l, d)
      BY <3>1 DEF AddAfterSteps, AddNow, Send, SendStopped, Work, AddAfter
    <3> QED
      BY <3>2, <3>3, <3>4 DEF Next
  <2>3. PICK d \in MaxOfWhen(failures[j]) : EnterAddAfter(h, j, d)
    BY <2>2 DEF AddRateLimited
  <2>4. d \in Int /\ d >= Capped(BaseDelay) /\ Capped(BaseDelay) \in Nat \ {0}
    <3>1. PICK e \in ExponentialWhen(failures[j]) : d \in Int /\ d >= e
      BY <2>1, WorstAnswer
    <3>2. e \in Int /\ e >= Capped(BaseDelay) /\ Capped(BaseDelay) \in Nat \ {0}
      BY <2>1, <3>1, ExponentialFloor
    <3> QED
      BY <3>1, <3>2
  <2>5. call' = [call EXCEPT ![h] = [at |-> "send", item |-> j, time |-> clock + d]]
    BY <2>3, <2>4 DEF EnterAddAfter
  <2>6. call'[g] = [at |-> "send", item |-> j, time |-> clock + d]
    BY <2>1, <2>5
  <2> QED
    BY <2>1, <2>4, <2>6
<1> QED
  BY <1>1, Invariant, PTL DEF Spec, NoHotLoop
-----------------------------------------------------------------------------
(***************************************************************************)
(* Refinement.  Bags are compared by how often they hold each element.     *)
(***************************************************************************)
Counted(e, B) == IF e \in DOMAIN B THEN B[e] ELSE 0

LEMMA BagsEqual ==
    ASSUME NEW A, NEW B, IsABag(A), IsABag(B), \A e : Counted(e, A) = Counted(e, B)
    PROVE  A = B
<1>1. DOMAIN A = DOMAIN B
  <2>1. \A e \in DOMAIN A : Counted(e, A) > 0
    BY DEF IsABag, Counted
  <2>2. \A e \in DOMAIN B : Counted(e, B) > 0
    BY DEF IsABag, Counted
  <2>3. \A e : e \notin DOMAIN A => Counted(e, A) = 0
    BY DEF Counted
  <2>4. \A e : e \notin DOMAIN B => Counted(e, B) = 0
    BY DEF Counted
  <2>5. ASSUME NEW e
        PROVE  e \in DOMAIN A <=> e \in DOMAIN B
    <3>1. ASSUME e \in DOMAIN A, e \notin DOMAIN B
          PROVE  FALSE
      <4>1. Counted(e, A) > 0 /\ Counted(e, A) = 0
        BY <2>1, <2>4, <3>1
      <4> QED
        BY <4>1
    <3>2. ASSUME e \in DOMAIN B, e \notin DOMAIN A
          PROVE  FALSE
      <4>1. Counted(e, B) > 0 /\ Counted(e, B) = 0
        BY <2>2, <2>3, <3>2
      <4> QED
        BY <4>1
    <3> QED
      BY <3>1, <3>2
  <2> QED
    BY <2>5
<1>2. \A e \in DOMAIN A : A[e] = B[e]
  BY <1>1 DEF Counted
<1> QED
  BY <1>1, <1>2 DEF IsABag

LEMMA SumCounts ==
    ASSUME NEW A, NEW B, IsABag(A), IsABag(B)
    PROVE  /\ IsABag(A (+) B)
           /\ \A e : Counted(e, A (+) B) = Counted(e, A) + Counted(e, B)
  BY DEF IsABag, Counted, (+)

LEMMA SetCounts ==
    ASSUME NEW S
    PROVE  /\ IsABag(SetToBag(S))
           /\ \A e : Counted(e, SetToBag(S)) = IF e \in S THEN 1 ELSE 0
  BY DEF IsABag, Counted, SetToBag

LEMMA AddCounts ==
    ASSUME NEW B, IsABag(B), NEW x
    PROVE  /\ IsABag(Abs!BagAdd(B, x))
           /\ \A e : Counted(e, Abs!BagAdd(B, x)) = Counted(e, B) + (IF e = x THEN 1 ELSE 0)
  BY DEF IsABag, Counted, Abs!BagAdd

LEMMA RemoveCounts ==
    ASSUME NEW B, IsABag(B), NEW x, Counted(x, B) > 0
    PROVE  /\ IsABag(Abs!BagRemove(B, x))
           /\ \A e : Counted(e, Abs!BagRemove(B, x)) = Counted(e, B) - (IF e = x THEN 1 ELSE 0)
  BY DEF IsABag, Counted, Abs!BagRemove
\* The callers that wait to send an entry, the places where the channel has
\* it, and whether the heap has it.
Blocked(c, e) == {g \in Goroutine : c[g].at = "send" /\ <<c[g].item, c[g].time>> = e}
Queued(ch, e) == {n \in 1..Len(ch) : ch[n] = e}
HeldSet(w) == {<<i, w[i]>> : i \in {j \in Item : w[j] # NoTime}}
Held(w, e) == IF e \in HeldSet(w) THEN 1 ELSE 0

Copies(c, ch, w, e) == Cardinality(Blocked(c, e)) + Cardinality(Queued(ch, e)) + Held(w, e)

LEMMA BlockedFinite ==
    ASSUME NEW c, NEW e
    PROVE  /\ IsFiniteSet(Blocked(c, e)) /\ Cardinality(Blocked(c, e)) \in Nat
           /\ Blocked(c, e) # {} => Cardinality(Blocked(c, e)) > 0
           /\ Blocked(c, e) = {} => Cardinality(Blocked(c, e)) = 0
<1>1. IsFiniteSet(Goroutine) /\ Blocked(c, e) \in SUBSET Goroutine
  BY DelayAssumption DEF Blocked
<1>2. IsFiniteSet(Blocked(c, e))
  BY <1>1, FS_Subset
<1> QED
  BY <1>2, FS_CardinalityType, FS_EmptySet

LEMMA QueuedFinite ==
    ASSUME NEW ch \in Seq(Entry), NEW e
    PROVE  /\ IsFiniteSet(Queued(ch, e)) /\ Cardinality(Queued(ch, e)) \in Nat
           /\ Queued(ch, e) # {} => Cardinality(Queued(ch, e)) > 0
           /\ Queued(ch, e) = {} => Cardinality(Queued(ch, e)) = 0
<1>1. IsFiniteSet(1..Len(ch)) /\ Queued(ch, e) \in SUBSET (1..Len(ch))
  BY FS_Interval, LenProperties DEF Queued
<1>2. IsFiniteSet(Queued(ch, e))
  BY <1>1, FS_Subset
<1> QED
  BY <1>2, FS_CardinalityType, FS_EmptySet

\* Owed, as a function of the three variables it reads.
OwedIn(c, ch, w) ==
    LET sending == {g \in Goroutine : c[g].at = "send"}
        Pair(g) == <<c[g].item, c[g].time>>
        blocked == [e \in {Pair(g) : g \in sending} |->
                       Cardinality({g \in sending : Pair(g) = e})]
        queued == [e \in {ch[n] : n \in 1..Len(ch)} |->
                       Cardinality({n \in 1..Len(ch) : ch[n] = e})]
    IN  blocked (+) queued (+) SetToBag({<<i, w[i]>> : i \in {j \in Item : w[j] # NoTime}})

LEMMA OwedIsOwedIn ==
    /\ Owed = OwedIn(call, channel, waiting)
    /\ Owed' = OwedIn(call', channel', waiting')
  BY DEF Owed, OwedIn, Waiting

\* What is owed holds as many copies of an entry as the three places together.
LEMMA OwedCounts ==
    ASSUME NEW c \in [Goroutine -> CallState], NEW ch \in Seq(Entry), NEW w
    PROVE  /\ IsABag(OwedIn(c, ch, w))
           /\ \A e : Counted(e, OwedIn(c, ch, w)) = Copies(c, ch, w, e)
<1> DEFINE sending == {g \in Goroutine : c[g].at = "send"}
           Pair(g) == <<c[g].item, c[g].time>>
           blockedIn == {Pair(g) : g \in sending}
           queuedIn == {ch[n] : n \in 1..Len(ch)}
           blocked == [e \in blockedIn |-> Cardinality(Blocked(c, e))]
           queued == [e \in queuedIn |-> Cardinality(Queued(ch, e))]
           held == SetToBag(HeldSet(w))
<1>1. OwedIn(c, ch, w) = blocked (+) queued (+) held
  <2>1. \A e : Blocked(c, e) = {g \in sending : Pair(g) = e}
    BY DEF Blocked
  <2>2. blocked = [e \in blockedIn |-> Cardinality({g \in sending : Pair(g) = e})]
    BY <2>1
  <2> QED
    BY <2>2 DEF OwedIn, Queued, HeldSet
<1>2. IsABag(blocked) /\ \A e : Counted(e, blocked) = Cardinality(Blocked(c, e))
  <2>1. \A e : e \in blockedIn <=> Blocked(c, e) # {}
    BY DEF Blocked
  <2>2. \A e : /\ Cardinality(Blocked(c, e)) \in Nat
               /\ Blocked(c, e) # {} => Cardinality(Blocked(c, e)) > 0
               /\ Blocked(c, e) = {} => Cardinality(Blocked(c, e)) = 0
    BY BlockedFinite
  <2> HIDE DEF blockedIn
  <2> QED
    BY <2>1, <2>2 DEF IsABag, Counted
<1>3. IsABag(queued) /\ \A e : Counted(e, queued) = Cardinality(Queued(ch, e))
  <2>1. \A e : e \in queuedIn <=> Queued(ch, e) # {}
    BY DEF Queued
  <2>2. \A e : /\ Cardinality(Queued(ch, e)) \in Nat
               /\ Queued(ch, e) # {} => Cardinality(Queued(ch, e)) > 0
               /\ Queued(ch, e) = {} => Cardinality(Queued(ch, e)) = 0
    BY QueuedFinite
  <2> HIDE DEF queuedIn
  <2> QED
    BY <2>1, <2>2 DEF IsABag, Counted
<1>4. IsABag(held) /\ \A e : Counted(e, held) = Held(w, e)
  BY SetCounts DEF Held
<1> HIDE DEF blocked, queued, held
<1>5. /\ IsABag(blocked (+) queued)
      /\ \A e : Counted(e, blocked (+) queued) = Cardinality(Blocked(c, e)) + Cardinality(Queued(ch, e))
  BY <1>2, <1>3, SumCounts
<1> DEFINE both == blocked (+) queued
<1>6. IsABag(both (+) held) /\ \A e : Counted(e, both (+) held) = Counted(e, both) + Counted(e, held)
  BY <1>4, <1>5, SumCounts
<1> QED
  BY <1>1, <1>4, <1>5, <1>6 DEF Copies
One(e, x) == IF e = x THEN 1 ELSE 0

\* A caller begins to send.
LEMMA BlockedEnters ==
    ASSUME NEW c \in [Goroutine -> CallState], NEW g \in Goroutine, c[g].at # "send",
           NEW x \in CallState, x.at = "send", NEW e
    PROVE  Cardinality(Blocked([c EXCEPT ![g] = x], e))
              = Cardinality(Blocked(c, e)) + One(e, <<x.item, x.time>>)
<1> DEFINE d == [c EXCEPT ![g] = x]
<1>1. g \notin Blocked(c, e)
  BY DEF Blocked
<1>2. CASE e = <<x.item, x.time>>
  <2>1. Blocked(d, e) = Blocked(c, e) \cup {g}
    BY <1>2 DEF Blocked
  <2>2. Cardinality(Blocked(c, e) \cup {g}) = Cardinality(Blocked(c, e)) + 1
    BY <1>1, FS_AddElement, BlockedFinite
  <2>3. One(e, <<x.item, x.time>>) = 1
    BY <1>2 DEF One
  <2> QED
    BY <2>1, <2>2, <2>3
<1>3. CASE e # <<x.item, x.time>>
  <2>1. Blocked(d, e) = Blocked(c, e)
    BY <1>3 DEF Blocked
  <2> QED
    BY <1>3, <2>1, BlockedFinite DEF One
<1> QED
  BY <1>2, <1>3

\* A caller whose entry was sent, or who gives up.
LEMMA BlockedLeaves ==
    ASSUME NEW c \in [Goroutine -> CallState], NEW g \in Goroutine, c[g].at = "send", NEW e
    PROVE  /\ Cardinality(Blocked([c EXCEPT ![g] = Idle], e))
                 = Cardinality(Blocked(c, e)) - One(e, <<c[g].item, c[g].time>>)
           /\ Cardinality(Blocked(c, <<c[g].item, c[g].time>>)) > 0
<1> DEFINE d == [c EXCEPT ![g] = Idle]
           y == <<c[g].item, c[g].time>>
<1>1. Idle.at # "send"
  BY DEF Idle
<1>2. g \in Blocked(c, y)
  BY DEF Blocked
<1>3. CASE e = y
  <2>1. Blocked(d, e) = Blocked(c, e) \ {g}
    BY <1>1, <1>3 DEF Blocked
  <2>2. Cardinality(Blocked(c, e) \ {g}) = Cardinality(Blocked(c, e)) - 1
    BY <1>2, <1>3, FS_RemoveElement, BlockedFinite
  <2>3. Cardinality(Blocked(c, y)) > 0
    BY <1>2, BlockedFinite
  <2> QED
    BY <1>3, <2>1, <2>2, <2>3 DEF One
<1>4. CASE e # y
  <2>1. Blocked(d, e) = Blocked(c, e)
    BY <1>1, <1>4 DEF Blocked
  <2> QED
    BY <1>2, <1>4, <2>1, BlockedFinite DEF One
<1> QED
  BY <1>3, <1>4

\* A caller who does not send, before or after.
LEMMA BlockedStays ==
    ASSUME NEW c, NEW d,
           \A g \in Goroutine : d[g] = c[g] \/ (c[g].at # "send" /\ d[g].at # "send")
    PROVE  \A e : Blocked(d, e) = Blocked(c, e)
  BY DEF Blocked

LEMMA QueuedEnters ==
    ASSUME NEW ch \in Seq(Entry), NEW x \in Entry, NEW e
    PROVE  Cardinality(Queued(Append(ch, x), e)) = Cardinality(Queued(ch, e)) + One(e, x)
<1> DEFINE n == Len(ch) + 1
<1>1. /\ Append(ch, x) \in Seq(Entry) /\ Len(Append(ch, x)) = n
      /\ \A k \in 1..Len(ch) : Append(ch, x)[k] = ch[k]
      /\ Append(ch, x)[n] = x /\ Len(ch) \in Nat
  BY AppendProperties, LenProperties
<1>2. n \notin Queued(ch, e)
  BY <1>1 DEF Queued
<1>3. CASE e = x
  <2>1. Queued(Append(ch, x), e) = Queued(ch, e) \cup {n}
    BY <1>1, <1>3 DEF Queued
  <2> HIDE DEF n
  <2>2. Cardinality(Queued(ch, e) \cup {n}) = Cardinality(Queued(ch, e)) + 1
    BY <1>2, FS_AddElement, QueuedFinite
  <2>3. One(e, x) = 1
    BY <1>3 DEF One
  <2> QED
    BY <2>1, <2>2, <2>3
<1>4. CASE e # x
  <2>1. Queued(Append(ch, x), e) = Queued(ch, e)
    BY <1>1, <1>4 DEF Queued
  <2> QED
    BY <1>4, <2>1, QueuedFinite DEF One
<1> QED
  BY <1>3, <1>4

LEMMA QueuedLeaves ==
    ASSUME NEW ch \in Seq(Entry), ch # <<>>, NEW e
    PROVE  /\ Cardinality(Queued(Tail(ch), e)) = Cardinality(Queued(ch, e)) - One(e, Head(ch))
           /\ Cardinality(Queued(ch, Head(ch))) > 0
<1> DEFINE t == Tail(ch)
           S == Queued(t, e)
           T == Queued(ch, e) \ {1}
           Shift == [n \in S |-> n + 1]
<1>1. /\ t \in Seq(Entry) /\ Len(t) = Len(ch) - 1 /\ Len(ch) \in Nat /\ Len(ch) >= 1
      /\ Head(ch) = ch[1] /\ \A n \in 1..Len(t) : t[n] = ch[n + 1]
  BY HeadTailProperties, LenProperties, EmptySeq
<1>2. ExistsBijection(S, T)
  <2>1. \A n \in S : n \in Nat /\ n + 1 \in T
    BY <1>1 DEF Queued
  <2>2. \A m \in T : m \in Nat /\ m - 1 \in S /\ (m - 1) + 1 = m
    BY <1>1 DEF Queued
  <2> HIDE DEF S, T
  <2>3. Shift \in Injection(S, T)
    BY <2>1 DEF Injection, IsInjective
  <2>4. Shift \in Surjection(S, T)
    BY <2>1, <2>2 DEF Surjection
  <2> QED
    BY <2>3, <2>4 DEF ExistsBijection, Bijection
<1>3. IsFiniteSet(S)
  BY <1>1, QueuedFinite
<1>4. Cardinality(T) = Cardinality(S)
  BY <1>2, <1>3, FS_Bijection
<1>5. 1 \in Queued(ch, e) <=> e = Head(ch)
  BY <1>1 DEF Queued
<1>6. /\ Cardinality(Queued(ch, e)) \in Nat
      /\ Cardinality(T) = IF 1 \in Queued(ch, e) THEN Cardinality(Queued(ch, e)) - 1
                                                 ELSE Cardinality(Queued(ch, e))
  BY QueuedFinite, FS_RemoveElement
<1>7. Cardinality(Queued(ch, Head(ch))) > 0
  <2>1. 1 \in Queued(ch, Head(ch))
    BY <1>1 DEF Queued
  <2> QED
    BY <2>1, QueuedFinite
<1> HIDE DEF S, T
<1> QED
  BY <1>4, <1>5, <1>6, <1>7 DEF One, S
\* The heap's entry of an item is replaced, or taken out.
Replaces(v, w, i, t) == v = [w EXCEPT ![i] = t]

LEMMA HeldChanges ==
    ASSUME NEW w \in [Item -> Nat \cup {NoTime}], NEW i \in Item, NEW t \in Nat \cup {NoTime}, NEW e,
           NEW v, Replaces(v, w, i, t)
    PROVE  Held(v, e)
              = Held(w, e) - (IF w[i] # NoTime THEN One(e, <<i, w[i]>>) ELSE 0)
                           + (IF t # NoTime THEN One(e, <<i, t>>) ELSE 0)
<1> DEFINE old == w[i] # NoTime /\ e = <<i, w[i]>>
           new == t # NoTime /\ e = <<i, t>>
           other == \E j \in Item : j # i /\ w[j] # NoTime /\ e = <<j, w[j]>>
<1>1. e \in HeldSet(w) <=> old \/ other
  BY DEF HeldSet
<1>2. e \in HeldSet(v) <=> new \/ other
  BY DEF HeldSet, Replaces
<1>3. other => ~old /\ ~new
  OBVIOUS
<1> HIDE DEF other
<1> QED
  BY <1>1, <1>2, <1>3 DEF Held, One
-----------------------------------------------------------------------------
(***************************************************************************)
(* What is owed, before and after.                                         *)
(***************************************************************************)
\* The bag of a state and of the next one, by counting.
LEMMA OwedNow ==
    ASSUME TypeOK, TypeOK'
    PROVE  /\ IsABag(Owed) /\ IsABag(Owed')
           /\ \A e : Counted(e, Owed) = Copies(call, channel, waiting, e)
           /\ \A e : Counted(e, Owed') = Copies(call', channel', waiting', e)
  BY OwedIsOwedIn, OwedCounts DEF TypeOK

LEMMA CopiesNat ==
    ASSUME TypeOK, NEW e
    PROVE  /\ Cardinality(Blocked(call, e)) \in Nat
           /\ Cardinality(Queued(channel, e)) \in Nat
           /\ Held(waiting, e) \in {0, 1}
           /\ Copies(call, channel, waiting, e) \in Nat
<1>1. Cardinality(Blocked(call, e)) \in Nat /\ Cardinality(Queued(channel, e)) \in Nat
  BY BlockedFinite, QueuedFinite DEF TypeOK
<1>2. Held(waiting, e) \in {0, 1}
  BY DEF Held
<1> QED
  BY <1>1, <1>2 DEF Copies

Same == \A e : Copies(call', channel', waiting', e) = Copies(call, channel, waiting, e)

More(x) == \A e : Copies(call', channel', waiting', e) = Copies(call, channel, waiting, e) + One(e, x)

Less(x) ==
    /\ \A e : Copies(call', channel', waiting', e) = Copies(call, channel, waiting, e) - One(e, x)
    /\ Copies(call, channel, waiting, x) > 0

LEMMA SameOwed ==
    ASSUME TypeOK, TypeOK', Same
    PROVE  Owed' = Owed
<1>1. \A e : Counted(e, Owed') = Counted(e, Owed)
  BY OwedNow DEF Same
<1> QED
  BY <1>1, OwedNow, BagsEqual

LEMMA MoreOwed ==
    ASSUME TypeOK, TypeOK', NEW x, More(x)
    PROVE  Owed' = Abs!BagAdd(Owed, x)
<1> DEFINE B == Abs!BagAdd(Owed, x)
<1>1. IsABag(B) /\ \A e : Counted(e, B) = Counted(e, Owed) + One(e, x)
  BY OwedNow, AddCounts DEF One
<1> HIDE DEF B
<1>2. \A e : Counted(e, Owed') = Counted(e, B)
  BY <1>1, OwedNow DEF More
<1> QED
  BY <1>1, <1>2, OwedNow, BagsEqual DEF B

LEMMA LessOwed ==
    ASSUME TypeOK, TypeOK', NEW x, Less(x)
    PROVE  Owed' = Abs!BagRemove(Owed, x) /\ x \in DOMAIN Owed
<1> DEFINE B == Abs!BagRemove(Owed, x)
<1>1. Counted(x, Owed) > 0
  BY OwedNow DEF Less
<1>2. IsABag(B) /\ \A e : Counted(e, B) = Counted(e, Owed) - One(e, x)
  BY <1>1, OwedNow, RemoveCounts DEF One
<1> HIDE DEF B
<1>3. \A e : Counted(e, Owed') = Counted(e, B)
  BY <1>2, OwedNow DEF Less
<1>4. Owed' = B
  BY <1>2, <1>3, OwedNow, BagsEqual
<1>5. x \in DOMAIN Owed
  BY <1>1 DEF Counted
<1> QED
  BY <1>4, <1>5 DEF B

\* Entries that are owed are deadlines of their items.
LEMMA OwedDeadline ==
    ASSUME NEW i, NEW t, <<i, t>> \in DOMAIN Owed
    PROVE  t \in Abs!Deadlines(i)
  BY DEF Abs!Deadlines
-----------------------------------------------------------------------------
(***************************************************************************)
(* Each step is a step of DelayingQueueAbs, or changes nothing of it.      *)
(***************************************************************************)
AbsStep == Abs!DelayNext \/ UNCHANGED Abs!delayVars

AllQuiet == UNCHANGED <<pending, active, closed, clock>>

LEMMA Unseen ==
    ASSUME TypeOK, TypeOK', AllQuiet, Same
    PROVE  AbsStep
<1>1. Owed' = Owed
  BY SameOwed
<1> QED
  BY <1>1 DEF AbsStep, AllQuiet, Abs!delayVars

\* A step of the embedded queue that leaves the entries alone.
LEMMA QueueSteps ==
    ASSUME TypeOK, TypeOK', Same, clock' = clock, NEW i \in Item,
           Queue!Request(i) \/ Queue!Start(i) \/ Queue!Finish(i) \/ Queue!Close
    PROVE  AbsStep
<1>1. Owed' = Owed
  BY SameOwed
<1>2. Abs!AbsNext
  BY DEF Abs!AbsNext, Abs!Request, Abs!Start, Abs!Finish, Abs!Close,
         Queue!Request, Queue!Start, Queue!Finish, Queue!Close
<1> QED
  BY <1>1, <1>2 DEF AbsStep, Abs!DelayNext

\* The queue accepts a request for later.
LEMMA Asked ==
    ASSUME TypeOK, TypeOK', AllQuiet, ~closed, NEW i \in Item, NEW t \in 1..LastTime,
           t > clock, More(<<i, t>>)
    PROVE  AbsStep
<1>1. Owed' = Abs!BagAdd(Owed, <<i, t>>)
  BY MoreOwed
<1>2. Abs!Ask(i, t)
  BY <1>1 DEF Abs!Ask, Abs!absVars, AllQuiet
<1> QED
  BY <1>2 DEF AbsStep, Abs!DelayNext

\* A request is answered: its item is added, unless the queue is closed.
LEMMA Answered ==
    ASSUME TypeOK, TypeOK', clock' = clock, NEW i \in Item, NEW t \in Nat, t <= clock,
           Add(i), Less(<<i, t>>)
    PROVE  AbsStep
<1>1. Owed' = Abs!BagRemove(Owed, <<i, t>>) /\ <<i, t>> \in DOMAIN Owed
  BY LessOwed
<1>2. t \in Abs!Deadlines(i)
  BY <1>1, OwedDeadline
<1>3. Abs!Deliver(i, t) \/ Abs!Abandon(i, t)
  BY <1>1 DEF Add, queueVars, Queue!Request, Abs!Deliver, Abs!Abandon, Abs!Request, Abs!absVars
<1> QED
  BY <1>2, <1>3 DEF AbsStep, Abs!DelayNext

\* A request is given up, once the queue is closed.
LEMMA GivenUp ==
    ASSUME TypeOK, TypeOK', AllQuiet, closed, NEW i \in Item, NEW t \in Nat, Less(<<i, t>>)
    PROVE  AbsStep
<1>1. Owed' = Abs!BagRemove(Owed, <<i, t>>) /\ <<i, t>> \in DOMAIN Owed
  BY LessOwed
<1>2. t \in Abs!Deadlines(i)
  BY <1>1, OwedDeadline
<1>3. Abs!Abandon(i, t)
  BY <1>1 DEF AllQuiet, Abs!Abandon, Abs!absVars
<1> QED
  BY <1>2, <1>3 DEF AbsStep, Abs!DelayNext

\* A request answers for a later one of the same item.
LEMMA Merged ==
    ASSUME TypeOK, TypeOK', AllQuiet, NEW i \in Item, NEW t \in Nat, NEW u \in Nat, t <= u,
           Less(<<i, u>>), Copies(call', channel', waiting', <<i, t>>) > 0,
           Copies(call, channel, waiting, <<i, t>>) > 0
    PROVE  AbsStep
<1>1. Owed' = Abs!BagRemove(Owed, <<i, u>>) /\ <<i, u>> \in DOMAIN Owed
  BY LessOwed
<1>2. <<i, t>> \in DOMAIN Owed /\ <<i, t>> \in DOMAIN Owed'
  <2>1. Counted(<<i, t>>, Owed) > 0 /\ Counted(<<i, t>>, Owed') > 0
    BY OwedNow
  <2> QED
    BY <2>1 DEF Counted
<1>3. t \in Abs!Deadlines(i) /\ u \in Abs!Deadlines(i)
  BY <1>1, <1>2, OwedDeadline
<1>4. Abs!Merge(i, t, u)
  BY <1>1, <1>2 DEF AllQuiet, Abs!Merge, Abs!absVars
<1> QED
  BY <1>3, <1>4 DEF AbsStep, Abs!DelayNext
\* AddAfter begins.
LEMMA EnterImplements ==
    ASSUME TypeOK, TypeOK', NEW g \in Goroutine, NEW i \in Item, NEW d \in Int,
           EnterAddAfter(g, i, d), MaxTime + d <= LastTime,
           UNCHANGED <<pending, active, closed, clock, channel, waiting>>
    PROVE  AbsStep
<1>1. call[g].at = "idle" /\ call \in [Goroutine -> CallState] /\ clock \in Nat /\ clock < MaxTime
  BY DEF EnterAddAfter, TypeOK
<1>2. AllQuiet
  BY DEF AllQuiet
<1>3. CASE UNCHANGED call
  BY <1>2, <1>3, Unseen DEF Same
<1>4. CASE call' = [call EXCEPT ![g] = [at |-> "add", item |-> i, time |-> 0]]
  <2>1. \A h \in Goroutine : call'[h] = call[h] \/ (call[h].at # "send" /\ call'[h].at # "send")
    BY <1>1, <1>4
  <2>2. \A e : Blocked(call', e) = Blocked(call, e)
    BY ONLY <2>1, BlockedStays
  <2>3. Same
    BY <2>2 DEF Same, Copies
  <2> QED
    BY <1>2, <2>3, Unseen
<1>5. CASE /\ ~closed /\ d > 0
           /\ call' = [call EXCEPT ![g] = [at |-> "send", item |-> i, time |-> clock + d]]
  <2> DEFINE x == [at |-> "send", item |-> i, time |-> clock + d]
             t == clock + d
  <2>1. x \in CallState /\ x.at = "send" /\ x.item = i /\ x.time = t
    BY <1>1, <1>5 DEF CallState
  <2>2. call' = [call EXCEPT ![g] = x]
    BY <1>5
  <2>3. t \in 1..LastTime /\ t > clock
    BY <1>1, <1>5, LastTimeBounds, DelayAssumption
  <2> HIDE DEF x, t
  <2>4. \A e : Cardinality(Blocked(call', e)) = Cardinality(Blocked(call, e)) + One(e, <<i, t>>)
    BY <1>1, <2>1, <2>2, BlockedEnters
  <2>5. More(<<i, t>>)
    <3> SUFFICES ASSUME NEW e
                 PROVE  Copies(call', channel', waiting', e)
                           = Copies(call, channel, waiting, e) + One(e, <<i, t>>)
      BY DEF More
    <3>1. One(e, <<i, t>>) \in Nat
      BY DEF One
    <3> QED
      BY <2>4, <3>1, CopiesNat DEF Copies
  <2> QED
    BY <1>2, <1>5, <2>3, <2>5, Asked
<1> QED
  BY <1>3, <1>4, <1>5 DEF EnterAddAfter

\* AddAfter's last step: it adds the item, sends the entry, or gives up.
LEMMA CallerImplements ==
    ASSUME TypeOK, TypeOK', StopIsClosed, NEW g \in Goroutine, AddAfterSteps(g)
    PROVE  AbsStep
<1> DEFINE i == call[g].item
           t == call[g].time
<1>1. call \in [Goroutine -> CallState] /\ i \in Item /\ t \in Nat /\ channel \in Seq(Entry)
  BY DEF TypeOK, CallState, AddAfterSteps, AddNow, Send, SendStopped
<1>2. Idle.at # "send" /\ \A e : One(e, <<i, t>>) \in Nat
  BY DEF Idle, One
<1>3. CASE AddNow(g)
  <2>0. \A h \in Goroutine : call'[h] = call[h] \/ (call[h].at # "send" /\ call'[h].at # "send")
    BY <1>1, <1>2, <1>3 DEF AddNow, Return
  <2>1. \A e : Blocked(call', e) = Blocked(call, e)
    BY ONLY <2>0, BlockedStays
  <2>2. UNCHANGED <<channel, waiting, clock>>
    BY <1>3 DEF AddNow
  <2>3. Same
    BY <2>1, <2>2 DEF Same, Copies
  <2>4. AllQuiet \/ Queue!Request(i)
    BY <1>3, <2>2 DEF AddNow, Add, queueVars, AllQuiet
  <2>5. CASE AllQuiet
    BY <2>3, <2>5, Unseen
  <2>6. CASE Queue!Request(i)
    BY <1>1, <2>2, <2>3, <2>6, QueueSteps
  <2> QED
    BY <2>4, <2>5, <2>6
<1>4. ASSUME call[g].at = "send", Return(g)
      PROVE  \A e : /\ Cardinality(Blocked(call', e)) = Cardinality(Blocked(call, e)) - One(e, <<i, t>>)
                    /\ Cardinality(Blocked(call, <<i, t>>)) > 0
  BY <1>1, <1>4, BlockedLeaves DEF Return
<1>5. CASE Send(g)
  <2>1. <<i, t>> \in Entry
    BY <1>1 DEF Entry
  <2>2. \A e : Cardinality(Queued(channel', e)) = Cardinality(Queued(channel, e)) + One(e, <<i, t>>)
    BY <1>1, <1>5, <2>1, QueuedEnters DEF Send
  <2>3. \A e : Cardinality(Blocked(call', e)) = Cardinality(Blocked(call, e)) - One(e, <<i, t>>)
    BY <1>4, <1>5 DEF Send
  <2>4. waiting' = waiting /\ AllQuiet
    BY <1>5 DEF Send, queueVars, AllQuiet
  <2> HIDE DEF i, t
  <2>5. Same
    <3> SUFFICES ASSUME NEW e
                 PROVE  Copies(call', channel', waiting', e) = Copies(call, channel, waiting, e)
      BY DEF Same
    <3> QED
      BY <1>2, <2>2, <2>3, <2>4, CopiesNat DEF Copies
  <2> QED
    BY <2>4, <2>5, Unseen
<1>6. CASE SendStopped(g)
  <2>1. /\ \A e : Cardinality(Blocked(call', e)) = Cardinality(Blocked(call, e)) - One(e, <<i, t>>)
        /\ Cardinality(Blocked(call, <<i, t>>)) > 0
    BY <1>4, <1>6 DEF SendStopped
  <2>2. UNCHANGED <<channel, waiting>> /\ AllQuiet /\ closed
    BY <1>6 DEF SendStopped, queueVars, AllQuiet, StopIsClosed
  <2> HIDE DEF i, t
  <2>3. Less(<<i, t>>)
    <3>1. ASSUME NEW e
          PROVE  Copies(call', channel', waiting', e)
                    = Copies(call, channel, waiting, e) - One(e, <<i, t>>)
      BY <1>2, <2>1, <2>2, CopiesNat DEF Copies
    <3>2. Copies(call, channel, waiting, <<i, t>>) > 0
      BY <2>1, CopiesNat DEF Copies
    <3> QED
      BY <3>1, <3>2 DEF Less
  <2> QED
    BY <1>1, <2>2, <2>3, GivenUp
<1> QED
  BY <1>3, <1>5, <1>6 DEF AddAfterSteps

\* The loop takes the root of the heap.
LEMMA PopImplements ==
    ASSUME TypeOK, TypeOK', NowIsPast, PopReady
    PROVE  AbsStep
<1>1. PICK i \in Roots : waiting[i] <= loop.now /\ Add(i) /\ waiting' = [waiting EXCEPT ![i] = NoTime]
  BY DEF PopReady
<1> DEFINE t == waiting[i]
<1>2. i \in Item /\ t \in Nat /\ t # NoTime /\ waiting \in [Item -> Nat \cup {NoTime}]
  BY WaitingTimes, Durations DEF Roots, Waiting, TypeOK
<1>3. t <= clock
  BY <1>1, <1>2 DEF NowIsPast, TypeOK, LoopState
<1>4. UNCHANGED <<call, channel, clock>>
  BY DEF PopReady
<1>5. \A e : Held(waiting', e) = Held(waiting, e) - One(e, <<i, t>>)
  <2>1. \A e : Held(waiting', e)
                  = Held(waiting, e) - (IF waiting[i] # NoTime THEN One(e, <<i, waiting[i]>>) ELSE 0)
                                     + (IF NoTime # NoTime THEN One(e, <<i, NoTime>>) ELSE 0)
    <3>1. Replaces(waiting', waiting, i, NoTime)
      BY <1>1 DEF Replaces
    <3> QED
      BY <1>2, <3>1, HeldChanges
  <2>2. \A e : Held(waiting, e) \in Int /\ One(e, <<i, t>>) \in Int
    BY DEF Held, One
  <2> QED
    BY <1>2, <2>1, <2>2
<1>6. Held(waiting, <<i, t>>) = 1
  BY <1>2 DEF Held, HeldSet
<1> HIDE DEF t
<1>7. Less(<<i, t>>)
  <2>1. ASSUME NEW e
        PROVE  Copies(call', channel', waiting', e)
                  = Copies(call, channel, waiting, e) - One(e, <<i, t>>)
    <3>1. One(e, <<i, t>>) \in Nat
      BY DEF One
    <3> QED
      BY <1>4, <1>5, <3>1, CopiesNat DEF Copies
  <2>2. Copies(call, channel, waiting, <<i, t>>) > 0
    BY <1>6, CopiesNat DEF Copies
  <2> QED
    BY <2>1, <2>2 DEF Less
<1> QED
  BY <1>1, <1>2, <1>3, <1>4, <1>7, Answered
\* The loop receives an entry, which is due, moves to the heap, or is merged
\* with the entry that the heap has for its item.
LEMMA ReceiveImplements ==
    ASSUME TypeOK, TypeOK', Receive
    PROVE  AbsStep
<1> DEFINE i == Head(channel)[1]
           t == Head(channel)[2]
<1>1. /\ i \in Item /\ t \in Nat /\ Head(channel) = <<i, t>>
      /\ channel \in Seq(Entry) /\ channel # <<>> /\ channel' = Tail(channel)
      /\ clock \in Nat /\ waiting \in [Item -> Nat \cup {NoTime}]
  BY HeadOfChannel DEF Receive, TypeOK
<1>2. /\ UNCHANGED <<call, clock>>
      /\ \/ t > clock /\ insert(i, t) /\ UNCHANGED queueVars
         \/ t <= clock /\ Add(i) /\ UNCHANGED waiting
  BY DEF Receive
<1>3. /\ \A e : Cardinality(Queued(channel', e)) = Cardinality(Queued(channel, e)) - One(e, <<i, t>>)
      /\ Cardinality(Queued(channel, <<i, t>>)) > 0
  BY <1>1, QueuedLeaves
<1>4. \A e : One(e, <<i, t>>) \in Nat /\ One(e, <<i, waiting[i]>>) \in Nat
  BY DEF One
<1>5. \A e : /\ Cardinality(Blocked(call, e)) \in Nat
             /\ Cardinality(Queued(channel, e)) \in Nat
             /\ Held(waiting, e) \in {0, 1}
  BY CopiesNat
<1> HIDE DEF i, t
<1>6. ASSUME UNCHANGED waiting
      PROVE  Less(<<i, t>>)
  <2>1. ASSUME NEW e
        PROVE  Copies(call', channel', waiting', e)
                  = Copies(call, channel, waiting, e) - One(e, <<i, t>>)
    BY <1>2, <1>3, <1>4, <1>5, <1>6 DEF Copies
  <2>2. Copies(call, channel, waiting, <<i, t>>) > 0
    BY <1>3, <1>5 DEF Copies
  <2> QED
    BY <2>1, <2>2 DEF Less
<1>7. CASE t <= clock /\ Add(i) /\ UNCHANGED waiting
  BY <1>1, <1>2, <1>6, <1>7, Answered
<1>8. CASE t > clock /\ insert(i, t) /\ UNCHANGED queueVars
  <2>1. AllQuiet
    BY <1>2, <1>8 DEF AllQuiet, queueVars
  <2>2. i \in Waiting <=> waiting[i] \in Nat
    BY <1>1, WaitingTimes
  <2>3. waiting[i] # NoTime <=> i \in Waiting
    BY <1>1 DEF Waiting
  <2>4. CASE i \in Waiting /\ waiting[i] <= t
    <3>1. UNCHANGED waiting
      BY <1>8, <2>4 DEF insert
    <3>2. <<i, waiting[i]>> \in HeldSet(waiting) /\ <<i, waiting[i]>> \in HeldSet(waiting')
      BY <1>1, <2>3, <2>4, <3>1 DEF HeldSet
    <3>3. /\ Copies(call, channel, waiting, <<i, waiting[i]>>) > 0
      BY <1>5, <3>2 DEF Copies, Held
    <3>4. Copies(call', channel', waiting', <<i, waiting[i]>>) > 0
      <4>1. /\ Cardinality(Blocked(call', <<i, waiting[i]>>)) \in Nat
            /\ Cardinality(Queued(channel', <<i, waiting[i]>>)) \in Nat
        BY BlockedFinite, QueuedFinite DEF TypeOK
      <4> QED
        BY <3>2, <4>1 DEF Copies, Held
    <3> QED
      BY <1>1, <1>6, <2>1, <2>2, <2>4, <3>1, <3>3, <3>4, Merged
  <2>5. ASSUME ~(i \in Waiting /\ waiting[i] <= t)
        PROVE  /\ waiting' = [waiting EXCEPT ![i] = t]
               /\ \A e : Held(waiting', e)
                     = Held(waiting, e)
                        - (IF waiting[i] # NoTime THEN One(e, <<i, waiting[i]>>) ELSE 0)
                        + One(e, <<i, t>>)
    <3>1. waiting' = [waiting EXCEPT ![i] = t]
      BY <1>8, <2>5 DEF insert
    <3>2. \A e : Held(waiting', e)
                    = Held(waiting, e)
                       - (IF waiting[i] # NoTime THEN One(e, <<i, waiting[i]>>) ELSE 0)
                       + (IF t # NoTime THEN One(e, <<i, t>>) ELSE 0)
      <4>1. i \in Item /\ t \in Nat \cup {NoTime} /\ waiting \in [Item -> Nat \cup {NoTime}]
        BY <1>1
      <4>2. Replaces(waiting', waiting, i, t)
        BY <3>1 DEF Replaces
      <4> QED
        BY ONLY <4>1, <4>2, HeldChanges
    <3>3. t # NoTime
      BY <1>1, Durations
    <3> QED
      BY <3>1, <3>2, <3>3
  <2>6. CASE i \notin Waiting
    <3>1. \A e : Held(waiting', e) = Held(waiting, e) + One(e, <<i, t>>)
      BY <1>4, <1>5, <2>3, <2>5, <2>6
    <3>2. ASSUME NEW e
          PROVE  Copies(call', channel', waiting', e) = Copies(call, channel, waiting, e)
      BY <1>2, <1>3, <1>4, <1>5, <3>1 DEF Copies
    <3> QED
      BY <2>1, <3>2, Unseen DEF Same
  <2>7. CASE i \in Waiting /\ ~(waiting[i] <= t)
    <3> DEFINE u == waiting[i]
    <3>1. u \in Nat /\ t <= u
      BY <1>1, <2>2, <2>7
    <3>2. \A e : Held(waiting', e) = Held(waiting, e) - One(e, <<i, u>>) + One(e, <<i, t>>)
      BY <2>3, <2>5, <2>7
    <3>3. Held(waiting, <<i, u>>) = 1
      BY <1>1, <2>3, <2>7 DEF Held, HeldSet
    <3>4. Held(waiting', <<i, t>>) = 1
      <4>1. waiting' = [waiting EXCEPT ![i] = t] /\ t # NoTime
        BY <1>1, <2>5, <2>7, Durations
      <4>2. waiting'[i] = t
        BY <1>1, <4>1
      <4>3. <<i, t>> \in HeldSet(waiting')
        BY <1>1, <4>1, <4>2 DEF HeldSet
      <4> QED
        BY <4>3 DEF Held
    <3>5. \A e : One(e, <<i, u>>) \in Nat
      BY <1>4
    <3> HIDE DEF u
    <3>6. Less(<<i, u>>)
      <4>1. ASSUME NEW e
            PROVE  Copies(call', channel', waiting', e)
                      = Copies(call, channel, waiting, e) - One(e, <<i, u>>)
        BY <1>2, <1>3, <1>4, <1>5, <3>2, <3>5 DEF Copies
      <4>2. Copies(call, channel, waiting, <<i, u>>) > 0
        BY <1>5, <3>3 DEF Copies
      <4> QED
        BY <4>1, <4>2 DEF Less
    <3>7. Copies(call, channel, waiting, <<i, t>>) > 0
      BY <1>3, <1>5 DEF Copies
    <3>8. Copies(call', channel', waiting', <<i, t>>) > 0
      <4>1. /\ Cardinality(Blocked(call', <<i, t>>)) \in Nat
            /\ Cardinality(Queued(channel', <<i, t>>)) \in Nat
        BY BlockedFinite, QueuedFinite DEF TypeOK
      <4> QED
        BY <3>4, <4>1 DEF Copies
    <3> QED
      BY <1>1, <2>1, <3>1, <3>6, <3>7, <3>8, Merged
  <2> QED
    BY <2>4, <2>6, <2>7
<1> QED
  BY <1>2, <1>7, <1>8
-----------------------------------------------------------------------------
\* What the queue promises, but for liveness.
AbsSafeSpec == Abs!DelaySafeSpec

\* No entry is lost on its way through the channel and the heap, none is
\* answered early, and of two for one item the earlier stays: waitingLoop, with
\* AddAfter and ShutDown at any moment, implements DelayingQueueAbs.
THEOREM Refinement == Spec => AbsSafeSpec
<1>1. Init => Abs!DelayInit
  <2> SUFFICES ASSUME Init
               PROVE  Abs!DelayInit
    OBVIOUS
  <2>1. Owed = << >>
    <3>1. /\ Waiting = {} /\ channel = <<>> /\ call = [g \in Goroutine |-> Idle]
      BY DEF Init, Waiting
    <3>2. channel \in Seq(Entry) /\ call \in [Goroutine -> CallState]
      BY <3>1, IdleType, EmptySeq
    <3>3. /\ IsABag(Owed)
          /\ \A e : Counted(e, Owed) = Copies(call, channel, waiting, e)
      BY <3>2, OwedIsOwedIn, OwedCounts
    <3>4. ASSUME NEW e
          PROVE  Copies(call, channel, waiting, e) = 0
      <4>1. Blocked(call, e) = {}
        BY <3>1 DEF Blocked, Idle
      <4>2. Queued(channel, e) = {}
        BY <3>1, EmptySeq DEF Queued
      <4>3. Held(waiting, e) = 0
        BY <3>1 DEF Held, HeldSet, Waiting
      <4> QED
        BY <4>1, <4>2, <4>3, FS_EmptySet DEF Copies
    <3>5. IsABag(<< >>) /\ \A e : Counted(e, << >>) = 0
      BY DEF IsABag, Counted
    <3> QED
      BY <3>3, <3>4, <3>5, BagsEqual
  <2> QED
    BY <2>1 DEF Init, Queue!AbsInit, Abs!DelayInit, Abs!AbsInit
<1>2. ASSUME IInv, [Next]_vars
      PROVE  Abs!DelayNext \/ UNCHANGED Abs!delayVars
  <2> SUFFICES AbsStep
    BY DEF AbsStep
  <2>1. TypeOK /\ TypeOK' /\ NowIsPast /\ StopIsClosed
    BY <1>2, TypesKept DEF IInv
  <2>2. ASSUME UNCHANGED <<call, channel, waiting>>
        PROVE  Same
    BY <2>2 DEF Same
  <2>3. CASE waitingLoop
    <3>1. CASE \/ LoopShutdown \/ LoopTop \/ ArmTimer \/ SelectStop \/ SelectHeartbeat
               \/ SelectTimer \/ Drained
      <4>1. AllQuiet /\ UNCHANGED <<call, channel, waiting>>
        BY <3>1 DEF LoopShutdown, LoopTop, ArmTimer, SelectStop, SelectHeartbeat, SelectTimer,
                    Drained, queueVars, AllQuiet
      <4> QED
        BY <2>1, <2>2, <4>1, Unseen
    <3> QED
      BY <2>1, <2>3, <3>1, PopImplements, ReceiveImplements DEF waitingLoop
  <2>4. CASE ShutDown
    <3>1. Same /\ clock' = clock /\ Queue!Close
      BY <2>2, <2>4 DEF ShutDown
    <3>2. Owed' = Owed
      BY <2>1, <3>1, SameOwed
    <3>3. Abs!AbsNext
      BY <3>1 DEF Abs!AbsNext, Abs!Close, Queue!Close
    <3> QED
      BY <3>1, <3>2, <3>3 DEF AbsStep, Abs!DelayNext
  <2>5. CASE CloseStopCh \/ UNCHANGED vars
    <3>1. AllQuiet /\ UNCHANGED <<call, channel, waiting>>
      BY <2>5 DEF CloseStopCh, vars, queueVars, AllQuiet
    <3> QED
      BY <2>1, <2>2, <3>1, Unseen
  <2>6. CASE Tick
    <3>1. Same /\ clock' = clock + 1 /\ UNCHANGED <<pending, active, closed>>
      BY <2>2, <2>6 DEF Tick, queueVars
    <3>2. Owed' = Owed
      BY <2>1, <3>1, SameOwed
    <3> QED
      BY <3>1, <3>2 DEF AbsStep, Abs!DelayNext, Abs!TimePasses, Abs!absVars
  <2>7. ASSUME NEW g \in Goroutine, AddAfterSteps(g)
        PROVE  AbsStep
    BY <2>1, <2>7, CallerImplements
  <2>8. ASSUME NEW g \in Goroutine, NEW i \in Item, AddRateLimited(g, i)
        PROVE  AbsStep
    <3>1. PICK d \in MaxOfWhen(failures[i]) : EnterAddAfter(g, i, d)
      BY <2>8 DEF AddRateLimited
    <3>2. d \in Int /\ MaxTime + d <= LastTime
      BY <2>1, LimiterDelays DEF TypeOK
    <3>3. UNCHANGED <<pending, active, closed, clock, channel, waiting>>
      BY <2>8 DEF AddRateLimited, queueVars
    <3> QED
      BY <2>1, <3>1, <3>2, <3>3, EnterImplements
  <2>9. ASSUME NEW g \in Goroutine, NEW i \in Item, NEW d \in Delay, AddAfter(g, i, d)
        PROVE  AbsStep
    <3>1. d \in Int /\ MaxTime + d <= LastTime
      BY Durations, LastTimeBounds DEF Delays
    <3>2. EnterAddAfter(g, i, d) /\ UNCHANGED <<pending, active, closed, clock, channel, waiting>>
      BY <2>9 DEF AddAfter, queueVars
    <3> QED
      BY <2>1, <3>1, <3>2, EnterImplements
  <2>10. ASSUME NEW i \in Item, Forget(i)
         PROVE  AbsStep
    <3>1. AllQuiet /\ UNCHANGED <<call, channel, waiting>>
      BY <2>10 DEF Forget, queueVars, AllQuiet
    <3> QED
      BY <2>1, <2>2, <3>1, Unseen
  <2>11. ASSUME NEW i \in Item, Work(i)
         PROVE  AbsStep
    <3>1. (Queue!Start(i) \/ Queue!Finish(i)) /\ clock' = clock /\ Same
      BY <2>2, <2>11 DEF Work
    <3> QED
      BY <2>1, <3>1, QueueSteps
  <2> QED
    BY <1>2, <2>3, <2>4, <2>5, <2>6, <2>7, <2>8, <2>9, <2>10, <2>11 DEF Next
<1> QED
  BY <1>1, <1>2, Invariant, PTL DEF Spec, AbsSafeSpec, Abs!DelaySafeSpec
=============================================================================
