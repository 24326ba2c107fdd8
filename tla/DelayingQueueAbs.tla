-------------------------- MODULE DelayingQueueAbs --------------------------
(***************************************************************************)
(* What a delaying work queue promises on top of WorkQueueAbs, with no     *)
(* channel, heap or timer in it: a request with a deadline is never        *)
(* answered before the deadline, a later request for an item may be merged *)
(* into an earlier one and never the other way round, and until the queue  *)
(* is closed every request that is due is answered by adding its item.     *)
(* DelayingQueue.tla is shown to implement it.                             *)
(***************************************************************************)
EXTENDS WorkQueueAbs, Naturals, BagsExt

CONSTANT Time   \* the deadlines callers may ask for

VARIABLES owed,   \* the bag of <<item, deadline>> requests not answered yet
          clock

delayVars == <<pending, active, closed, owed, clock>>

Deadlines(i) == {r[2] : r \in {q \in DOMAIN owed : q[1] = i}}

DelayInit == AbsInit /\ owed = <<>> /\ clock = 0

Ask(i, t) ==
    /\ ~closed
    /\ t > clock
    /\ owed' = BagAdd(owed, <<i, t>>)
    /\ UNCHANGED <<absVars, clock>>

\* An earlier request answers for a later one.
Merge(i, t, later) ==
    /\ t <= later
    /\ <<i, later>> \in DOMAIN owed
    /\ owed' = BagRemove(owed, <<i, later>>)
    /\ <<i, t>> \in DOMAIN owed'
    /\ UNCHANGED <<absVars, clock>>

Deliver(i, t) ==
    /\ t <= clock
    /\ <<i, t>> \in DOMAIN owed
    /\ owed' = BagRemove(owed, <<i, t>>)
    /\ Request(i)
    /\ UNCHANGED clock

\* Whoever closes the queue gives up what is not due yet.
Abandon(i, t) ==
    /\ closed
    /\ <<i, t>> \in DOMAIN owed
    /\ owed' = BagRemove(owed, <<i, t>>)
    /\ UNCHANGED <<absVars, clock>>

TimePasses ==
    /\ clock' = clock + 1
    /\ UNCHANGED <<absVars, owed>>

DelayNext ==
    \/ AbsNext /\ UNCHANGED <<owed, clock>>
    \/ TimePasses
    \/ \E i \in Item : \/ \E t \in Time : Ask(i, t)
                       \/ \E t, u \in Deadlines(i) : Merge(i, t, u)
                       \/ \E t \in Deadlines(i) : Deliver(i, t) \/ Abandon(i, t)

DelaySafeSpec == DelayInit /\ [][DelayNext]_delayVars

DelaySpec ==
    /\ DelaySafeSpec
    /\ \A i \in Item : WF_delayVars(\E t \in Deadlines(i) : Deliver(i, t))
=============================================================================
