--------------------------- MODULE DelayingQueue ---------------------------
(***************************************************************************)
(* client-go/util/workqueue: delaying_queue.go, rate_limiting_queue.go and *)
(* default_rate_limiters.go, on the work queue that delayingType embeds.   *)
(*                                                                         *)
(* Any number of goroutines call AddAfter and AddRateLimited, and take     *)
(* items from the queue; one goroutine runs waitingLoop.  The embedded     *)
(* queue is what WorkQueueAbs promises of it.  A step is what happens      *)
(* between two accesses to what goroutines share: the embedded queue, the  *)
(* channel, stopCh, the clock.                                             *)
(***************************************************************************)
EXTENDS Integers, Sequences, FiniteSets, Bags

CONSTANTS Item, NoItem,
          Goroutine,       \* the callers of AddAfter and AddRateLimited
          Delay,           \* what callers of AddAfter ask for
          BaseDelay,       \* ItemExponentialFailureRateLimiter
          MaxDelay,
          Width,           \* bits of a time.Duration
          FastDelay,       \* ItemFastSlowRateLimiter
          SlowDelay,
          MaxFastAttempts,
          BucketDelay,     \* what the token bucket may answer
          ChanSize,        \* capacity of waitingForAddCh
          MaxWait,         \* period of the heartbeat
          NoTime,
          MaxTime,         \* bound: no call begins after it
          MaxCalls         \* bound on the calls of AddAfter

\* The delays an item may be given, if it is given one.
Delays == Delay \cup BucketDelay \cup {MaxDelay, SlowDelay, FastDelay}

Longest(d) == \A o \in Delays : o <= d

ASSUME DelayAssumption ==
    /\ NoItem \notin Item
    /\ Delay \subseteq Int /\ BucketDelay \subseteq Nat
    /\ {BaseDelay, MaxDelay, Width, MaxWait} \subseteq Nat \ {0}
    /\ {FastDelay, SlowDelay, ChanSize, MaxFastAttempts, MaxTime, MaxCalls} \subseteq Nat
    /\ NoTime \notin Int
    /\ IsFiniteSet(Goroutine)
    /\ \E d \in Delays : Longest(d)     \* a Duration has a largest value

VARIABLES pending, active, closed, \* the embedded Interface
          stopCh,    \* is it closed
          beat,      \* a tick waits in the channel of the heartbeat
          clock,
          channel,   \* waitingForAddCh: <<item, readyAt>>
          waiting,   \* waitingEntryByData with its heap: readyAt per item
          loop,      \* waitingLoop: where it is, its now, its timer
          failures,  \* of the two per-item limiters, which count alike
          call,      \* where each goroutine is in AddAfter, and with what
          calls      \* how many calls of AddAfter have begun

queueVars == <<pending, active, closed>>
vars == <<pending, active, closed, stopCh, beat, clock, channel, waiting, loop,
          failures, call, calls>>

Queue == INSTANCE WorkQueueAbs

\* Interface.Add, which ignores the item once the queue shuts down.
Add(i) == IF closed THEN UNCHANGED queueVars ELSE Queue!Request(i)

\* A goroutine outside AddAfter.
Idle == [at |-> "idle", item |-> NoItem, time |-> 0]

\* waitingLoop at a place where neither its now nor its timer is in use.
At(pc) == [pc |-> pc, now |-> 0, timer |-> NoTime]

Init ==
    /\ Queue!AbsInit
    /\ stopCh = FALSE
    /\ beat = FALSE
    /\ clock = 0
    /\ channel = <<>>
    /\ waiting = [i \in Item |-> NoTime]
    /\ loop = At("top")
    /\ failures = [i \in Item |-> 0]
    /\ call = [g \in Goroutine |-> Idle]
    /\ calls = 0
-----------------------------------------------------------------------------
(***************************************************************************)
(* Rate limiters: the delays an item with n failures may be given.         *)
(***************************************************************************)
Limit == 2 ^ (Width - 1)

(***************************************************************************)
(* time.Duration(backoff): the largest float64 that passes the test        *)
(* backoff > math.MaxInt64 is Limit itself, because MaxInt64 rounds up to  *)
(* it; it does not fit, and the result depends on the processor.           *)
(***************************************************************************)
Converted(backoff) == IF backoff = Limit THEN {-Limit, Limit - 1} ELSE {backoff}

Capped(d) == IF d > MaxDelay THEN MaxDelay ELSE d

\* Mutant of ExponentialWhen: the product is computed in integers, unchecked.
ExponentialWhenWraps(n) ==
    {Capped(((BaseDelay * 2 ^ n + Limit) % (2 * Limit)) - Limit)}

ExponentialWhen(n) ==
    LET backoff == BaseDelay * 2 ^ n
    IN  IF backoff > Limit THEN {MaxDelay}
                           ELSE {Capped(d) : d \in Converted(backoff)}

FastSlowWhen(n) == {IF n + 1 <= MaxFastAttempts THEN FastDelay ELSE SlowDelay}

\* The worst answer of the limiters, which starts from 0.
MaxOfWhen(n) ==
    LET answers == {<<e, s, b>> : e \in ExponentialWhen(n), s \in FastSlowWhen(n),
                                  b \in BucketDelay}
    IN  {CHOOSE d \in {0, a[1], a[2], a[3]} :
              \A o \in {0, a[1], a[2], a[3]} : o <= d : a \in answers}
-----------------------------------------------------------------------------
(***************************************************************************)
(* Callers                                                                 *)
(***************************************************************************)
Return(g) == call' = [call EXCEPT ![g] = Idle]

(***************************************************************************)
(* AddAfter up to its first access to the channel or the queue: nothing is *)
(* done when the queue shuts down; no delay means Add; and the operand     *)
(* readyAt of the select is evaluated before the select blocks.            *)
(***************************************************************************)
EnterAddAfter(g, i, d) ==
    /\ clock < MaxTime /\ calls < MaxCalls
    /\ call[g].at = "idle"
    /\ \/ closed /\ UNCHANGED call
       \/ /\ ~closed
          /\ d <= 0
          /\ call' = [call EXCEPT ![g] = [at |-> "add", item |-> i, time |-> 0]]
       \/ /\ ~closed
          /\ d > 0
          /\ call' = [call EXCEPT ![g] = [at |-> "send", item |-> i, time |-> clock + d]]
    /\ calls' = calls + 1

AddAfter(g, i, d) ==
    /\ EnterAddAfter(g, i, d)
    /\ UNCHANGED <<queueVars, stopCh, beat, clock, channel, waiting, loop, failures>>

\* For an item whose work failed: the limiters count it, then AddAfter.
AddRateLimited(g, i) ==
    /\ i \in active
    /\ \E d \in MaxOfWhen(failures[i]) : EnterAddAfter(g, i, d)
    /\ failures' = [failures EXCEPT ![i] = @ + 1]
    /\ UNCHANGED <<queueVars, stopCh, beat, clock, channel, waiting, loop>>

\* For an item whose work succeeded.
Forget(i) ==
    /\ i \in active
    /\ failures' = [failures EXCEPT ![i] = 0]
    /\ UNCHANGED <<queueVars, stopCh, beat, clock, channel, waiting, loop, call, calls>>

\* Workers take items from the embedded queue and finish them.
Work(i) ==
    /\ Queue!Start(i) \/ Queue!Finish(i)
    /\ UNCHANGED <<stopCh, beat, clock, channel, waiting, loop, failures, call, calls>>

\* The rest of AddAfter.
AddNow(g) ==
    /\ call[g].at = "add"
    /\ Add(call[g].item)
    /\ Return(g)
    /\ UNCHANGED <<stopCh, beat, clock, channel, waiting, loop, failures, calls>>

Send(g) ==
    /\ call[g].at = "send"
    /\ Len(channel) < ChanSize
    /\ channel' = Append(channel, <<call[g].item, call[g].time>>)
    /\ Return(g)
    /\ UNCHANGED <<queueVars, stopCh, beat, clock, waiting, loop, failures, calls>>

\* Mutant of SendStopped: the send is not in a select with stopCh.
SendOnly(g) == FALSE

SendStopped(g) ==
    /\ call[g].at = "send"
    /\ stopCh
    /\ Return(g)
    /\ UNCHANGED <<queueVars, stopCh, beat, clock, channel, waiting, loop, failures, calls>>
-----------------------------------------------------------------------------
(***************************************************************************)
(* waitingLoop                                                             *)
(***************************************************************************)
LoopShutdown ==
    /\ loop.pc = "top"
    /\ closed
    /\ loop' = At("ended")
    /\ UNCHANGED <<queueVars, stopCh, beat, clock, channel, waiting, failures, call, calls>>

LoopTop ==
    /\ loop.pc = "top"
    /\ ~closed
    /\ loop' = [At("pop") EXCEPT !.now = clock]
    /\ UNCHANGED <<queueVars, stopCh, beat, clock, channel, waiting, failures, call, calls>>

Waiting == {i \in Item : waiting[i] # NoTime}

\* The root of the heap; equal deadlines in any order.
Roots == {i \in Waiting : \A j \in Waiting : waiting[i] <= waiting[j]}

PopReady ==
    /\ loop.pc = "pop"
    /\ \E i \in Roots :
           /\ waiting[i] <= loop.now
           /\ Add(i)
           /\ waiting' = [waiting EXCEPT ![i] = NoTime]
    /\ UNCHANGED <<stopCh, beat, clock, channel, loop, failures, call, calls>>

\* Nothing is ready: a timer for the root, counted from the now that was read.
ArmTimer ==
    /\ loop.pc = "pop"
    /\ \A i \in Waiting : waiting[i] > loop.now
    /\ \/ /\ Waiting = {}
          /\ loop' = At("select")
       \/ \E i \in Roots :
              loop' = [At("select") EXCEPT !.timer = clock + (waiting[i] - loop.now)]
    /\ UNCHANGED <<queueVars, stopCh, beat, clock, channel, waiting, failures, call, calls>>

SelectStop ==
    /\ loop.pc = "select"
    /\ stopCh
    /\ loop' = At("ended")
    /\ UNCHANGED <<queueVars, stopCh, beat, clock, channel, waiting, failures, call, calls>>

\* Mutant of SelectHeartbeat: waits again with the timer it has.
HeartbeatIgnored ==
    /\ loop.pc = "select"
    /\ beat
    /\ beat' = FALSE
    /\ UNCHANGED <<queueVars, stopCh, clock, channel, waiting, loop, failures, call, calls>>

SelectHeartbeat ==
    /\ loop.pc = "select"
    /\ beat
    /\ beat' = FALSE
    /\ loop' = At("top")
    /\ UNCHANGED <<queueVars, stopCh, clock, channel, waiting, failures, call, calls>>

SelectTimer ==
    /\ loop.pc = "select"
    /\ loop.timer # NoTime
    /\ loop.timer <= clock
    /\ loop' = At("top")
    /\ UNCHANGED <<queueVars, stopCh, beat, clock, channel, waiting, failures, call, calls>>

\* Mutant of insert: the last request wins.
insertLast(i, t) == waiting' = [waiting EXCEPT ![i] = t]

\* An entry for the item stays unless the new one is earlier.
insert(i, t) ==
    IF i \in Waiting /\ waiting[i] <= t
    THEN UNCHANGED waiting
    ELSE waiting' = [waiting EXCEPT ![i] = t]

\* Mutant of Receive: an entry that is already due is dropped.
ReceiveDropsDue ==
    /\ loop.pc \in {"select", "drain"}
    /\ channel # <<>>
    /\ IF Head(channel)[2] > clock
       THEN insert(Head(channel)[1], Head(channel)[2])
       ELSE UNCHANGED waiting
    /\ channel' = Tail(channel)
    /\ loop' = At("drain")
    /\ UNCHANGED <<queueVars, stopCh, beat, clock, failures, call, calls>>

\* From the select, and then again until the channel is drained.
Receive ==
    /\ loop.pc \in {"select", "drain"}
    /\ channel # <<>>
    /\ LET i == Head(channel)[1]
           t == Head(channel)[2]
       IN  \/ t > clock /\ insert(i, t) /\ UNCHANGED queueVars
           \/ t <= clock /\ Add(i) /\ UNCHANGED waiting
    /\ channel' = Tail(channel)
    /\ loop' = At("drain")
    /\ UNCHANGED <<stopCh, beat, clock, failures, call, calls>>

Drained ==
    /\ loop.pc = "drain"
    /\ channel = <<>>
    /\ loop' = At("top")
    /\ UNCHANGED <<queueVars, stopCh, beat, clock, channel, waiting, failures, call, calls>>

waitingLoop ==
    \/ LoopShutdown \/ LoopTop \/ PopReady \/ ArmTimer
    \/ SelectStop \/ SelectHeartbeat \/ SelectTimer \/ Receive \/ Drained
-----------------------------------------------------------------------------
(***************************************************************************)
(* ShutDown closes the embedded queue, then stopCh and the heartbeat.      *)
(***************************************************************************)
ShutDown ==
    /\ ~closed
    /\ Queue!Close
    /\ UNCHANGED <<stopCh, beat, clock, channel, waiting, loop, failures, call, calls>>

CloseStopCh ==
    /\ closed
    /\ ~stopCh
    /\ stopCh' = TRUE
    /\ UNCHANGED <<queueVars, beat, clock, channel, waiting, loop, failures, call, calls>>

(***************************************************************************)
(* Time passes in units; the heartbeat's channel holds one tick.  After    *)
(* MaxTime, when no call begins any more, time only waits for the loop.    *)
(***************************************************************************)
Quiet == loop.pc \in {"select", "ended"}

LastTime == MaxTime + CHOOSE d \in Delays : Longest(d)

Tick ==
    /\ clock < MaxTime \/ (clock < LastTime /\ Quiet)
    /\ clock' = clock + 1
    /\ beat' = (beat \/ (~stopCh /\ (clock + 1) % MaxWait = 0))
    /\ UNCHANGED <<queueVars, stopCh, channel, waiting, loop, failures, call, calls>>

AddAfterSteps(g) == AddNow(g) \/ Send(g) \/ SendStopped(g)

Next ==
    \/ waitingLoop \/ ShutDown \/ CloseStopCh \/ Tick
    \/ \E g \in Goroutine : AddAfterSteps(g)
    \/ \E g \in Goroutine, i \in Item : AddRateLimited(g, i) \/ \E d \in Delay : AddAfter(g, i, d)
    \/ \E i \in Item : Forget(i) \/ Work(i)

Spec == Init /\ [][Next]_vars

(***************************************************************************)
(* The loop and a goroutine inside AddAfter run, time passes, and whoever  *)
(* began ShutDown finishes it.  Nobody need call anything, and a worker    *)
(* may work for ever.                                                      *)
(***************************************************************************)
FairSpec ==
    /\ Spec
    /\ WF_vars(waitingLoop) /\ WF_vars(Tick) /\ WF_vars(CloseStopCh)
    /\ \A g \in Goroutine : WF_vars(AddAfterSteps(g))
-----------------------------------------------------------------------------
(***************************************************************************)
(* Properties                                                              *)
(***************************************************************************)
\* delaying_queue.go:181-183, on the heartbeat: "we know that we'll never end
\* up with an expired item sitting for more than 10 seconds".  If the loop
\* waits while an item has been due for MaxWait, a tick is there to wake it,
\* however late the timer was set and whatever the channel brought meanwhile.
ExpiredIsNoticed ==
    loop.pc = "select" /\ ~stopCh =>
        \A i \in Waiting : clock >= waiting[i] + MaxWait => beat

\* An item that failed is not retried before the base delay, however often it
\* failed: the exponential delay neither overflows nor wraps around
\* (default_rate_limiters.go:96 "capped such that 'calculated' value never
\* overflows").  It needs a base delay that is not a power of two.
NoHotLoop ==
    [][\A g \in Goroutine, i \in Item :
           failures'[i] > failures[i] /\ call'[g] # call[g] =>
               call'[g].time >= clock + Capped(BaseDelay)]_vars

\* A failed item comes back: from the rate limiter through the channel, the
\* heap and the timer to the queue, unless the queue shuts down.
FailedIsRetried ==
    \A g \in Goroutine, i \in Item :
        (call[g].at \in {"add", "send"} /\ call[g].item = i) ~> (i \in pending \/ closed)

\* AddAfter returns after ShutDown even if the channel is full and the loop,
\* which saw the shutdown first, no longer drains it.
ShutdownFreesCallers ==
    \A g \in Goroutine : closed ~> call[g].at \notin {"add", "send"}

\* What the queue owes: the entries of blocked callers, of the channel and of
\* the heap.
Owed ==
    LET sending == {g \in Goroutine : call[g].at = "send"}
        Entry(g) == <<call[g].item, call[g].time>>
        blocked == [e \in {Entry(g) : g \in sending} |->
                       Cardinality({g \in sending : Entry(g) = e})]
        queued == [e \in {channel[n] : n \in 1..Len(channel)} |->
                       Cardinality({n \in 1..Len(channel) : channel[n] = e})]
    IN  blocked (+) queued (+) SetToBag({<<i, waiting[i]>> : i \in Waiting})

\* The loop, its heap, its timer and the channel implement the promise of
\* DelayingQueueAbs: never early, the earliest deadline wins, nothing that is
\* owed is lost, and what is due is added.
Abs == INSTANCE DelayingQueueAbs WITH owed <- Owed, Time <- 1..LastTime

AbsSpec == Abs!DelaySpec
=============================================================================
