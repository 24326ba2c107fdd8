---------------------------- MODULE WorkQueueAbs ----------------------------
(***************************************************************************)
(* What client-go's work queue promises its users, with no queue in it.    *)
(*                                                                         *)
(* A request for an item is remembered at most once, an item is worked on  *)
(* by at most one worker at a time, a request made while the item is being *)
(* worked on survives until the work ends, and every accepted request is   *)
(* eventually started.  WorkQueue.tla is shown to implement it.            *)
(***************************************************************************)
CONSTANT Item

VARIABLES pending,   \* items with an accepted request nobody has started
          active,    \* items some worker is working on
          closed     \* no further request is accepted

absVars == <<pending, active, closed>>

AbsInit ==
    /\ pending = {}
    /\ active = {}
    /\ closed = FALSE

Request(i) ==
    /\ ~closed
    /\ pending' = pending \cup {i}
    /\ UNCHANGED <<active, closed>>

Start(i) ==
    /\ i \in pending \ active
    /\ pending' = pending \ {i}
    /\ active' = active \cup {i}
    /\ UNCHANGED closed

Finish(i) ==
    /\ i \in active
    /\ active' = active \ {i}
    /\ UNCHANGED <<pending, closed>>

Close ==
    /\ closed' = TRUE
    /\ UNCHANGED <<pending, active>>

AbsNext == Close \/ \E i \in Item : Request(i) \/ Start(i) \/ Finish(i)

AbsSafeSpec == AbsInit /\ [][AbsNext]_absVars

AbsSpec == AbsSafeSpec /\ \A i \in Item : WF_absVars(Start(i))
=============================================================================
