--------------------------- MODULE LeaderElection ---------------------------
(***************************************************************************)
(* client-go/tools/leaderelection: clients that elect a leader by writing  *)
(* their identity into a Lease object (resourcelock/leaselock.go).         *)
(*                                                                         *)
(* A client holds no lock.  It reads the record, decides by its own clock  *)
(* whether the holder has renewed it recently enough, and writes it with   *)
(* the resource version it read, which the server rejects if the record    *)
(* has changed.  The holder renews the record and stops leading when it    *)
(* has not succeeded for RenewDeadline.                                    *)
(*                                                                         *)
(* Time is counted in seconds, the precision with which the record's times *)
(* are compared (leaselock.go, Get: the JSON of metav1.Time).  Clocks      *)
(* advance at the same rate, and a timer that is due fires before time     *)
(* passes; a request may take as long as it likes.  AcquireTime and        *)
(* LeaseDurationSeconds of the record decide nothing and are left out.     *)
(***************************************************************************)
EXTENDS Integers, FiniteSets

CONSTANTS Client,         \* the identities
          None,           \* no holder
          LeaseDuration, RenewDeadline, RetryPeriod,
          ReleaseOnCancel, \* the clients configured to release the lease
          Latency,        \* bound: what a try takes beyond this counts as faults
          MaxTime,        \* bound on the time for which communication is unreliable
          MaxFaults       \* bound on lost requests, crashes and cancellations

\* JitterFactor is 1.2: a jittered period is at most 2.2 periods.
MaxJittered == (11 * RetryPeriod) \div 5

\* NewLeaderElector's validation.
ASSUME ConfigAssumption ==
    /\ IsFiniteSet(Client) /\ None \notin Client /\ ReleaseOnCancel \subseteq Client
    /\ {LeaseDuration, RenewDeadline, RetryPeriod, Latency, MaxTime, MaxFaults} \subseteq Nat
    /\ RetryPeriod >= 1
    /\ 5 * RenewDeadline > 6 * RetryPeriod
    /\ LeaseDuration > RenewDeadline

VARIABLES now,
          lease,    \* the record in the Lease object, NoRecord before it is created
          current,  \* the clients whose LeaseLock has the object's resource version
          late,     \* writes under way whose client has given up on them
          elector,  \* the state of each client
          faults,
          calm      \* since when communication is reliable, -1 before that

vars == <<now, lease, current, late, elector, faults, calm>>

Record(holder, renewTime, transitions) ==
    [holder |-> holder, renewTime |-> renewTime, transitions |-> transitions]

NoRecord == Record(None, -1, 0)

(***************************************************************************)
(* stage: "down", no process; "acquire", "renew" and "release", where Run  *)
(* is.  step: "wait" for the timer, a "get" or a "write" under way, or a   *)
(* write done whose "answer" is.  timer is the time of the next try;       *)
(* deadline ends the current iteration of renew, 0 between iterations;     *)
(* wanted is the record to write; of observedRecord, observed has what is  *)
(* used.  History: renewed is the RenewTime of the record by which the     *)
(* client last succeeded, and took how long that try took.                 *)
(***************************************************************************)
Observed(record) == [holder |-> record.holder, transitions |-> record.transitions]

Down ==
    [stage |-> "down", step |-> "wait", timer |-> 0, deadline |-> 0, wanted |-> NoRecord,
     observed |-> Observed(NoRecord), raw |-> NoRecord, observedTime |-> 0, cancelled |-> FALSE,
     renewed |-> 0, took |-> 0]

Init ==
    /\ now = 0
    /\ lease = NoRecord
    /\ current = {}
    /\ late = {}
    /\ elector = [c \in Client |-> Down]
    /\ faults = 0
    /\ calm = -1

IsLeader(c) == elector[c].observed.holder = c

Running(c) == elector[c].stage \in {"acquire", "renew"}

Renewing(c) == elector[c].stage = "renew"

\* From the start of OnStartedLeading until Run returns: release is the end of
\* renew, and what runs for the leader is stopped only after it.
Leading(c) == elector[c].stage \in {"renew", "release"}

Fault == calm = -1 /\ faults < MaxFaults /\ faults' = faults + 1
-----------------------------------------------------------------------------
(***************************************************************************)
(* The API server                                                          *)
(***************************************************************************)
\* Create and Update, of a client whose version is current.  What any other
\* has read or has under way is out of date.
Store(writers, record) ==
    /\ lease' = record
    /\ current' = writers
    /\ late' = {}

\* A request that its client has given up on is dropped or stays under way.
Abandon(c) ==
    \/ UNCHANGED late
    \/ /\ elector[c].step = "write" /\ c \in current /\ calm = -1
       /\ late' = late \cup {elector[c].wanted}

LateWrite ==
    /\ \E record \in late : Store({}, record)
    /\ UNCHANGED <<now, elector, faults, calm>>
-----------------------------------------------------------------------------
(***************************************************************************)
(* tryAcquireOrRenew                                                       *)
(***************************************************************************)
\* Mutant of Try: every retry gets a deadline of its own.
TryRestartsDeadline(c) ==
    /\ Running(c) /\ ~elector[c].cancelled
    /\ elector[c].step = "wait" /\ now >= elector[c].timer
    /\ elector[c].deadline = 0 \/ now < elector[c].deadline
    /\ elector' = [elector EXCEPT ![c].step = "get",
                                  ![c].wanted = Record(c, now, 0),
                                  ![c].deadline = IF Renewing(c) THEN now + RenewDeadline ELSE 0]
    /\ UNCHANGED <<now, lease, current, late, faults, calm>>

\* acquire, or an iteration of renew, whose deadline starts with its first
\* try.
Try(c) ==
    /\ Running(c) /\ ~elector[c].cancelled
    /\ elector[c].step = "wait" /\ now >= elector[c].timer
    /\ elector[c].deadline = 0 \/ now < elector[c].deadline
    /\ elector' = [elector EXCEPT ![c].step = "get",
                                  ![c].wanted = Record(c, now, 0),
                                  ![c].deadline = IF Renewing(c) /\ @ = 0 THEN now + RenewDeadline
                                                                         ELSE @]
    /\ UNCHANGED <<now, lease, current, late, faults, calm>>

\* After a failed try: the jittered period, or renew's ticker.
NextTry(c) ==
    IF Renewing(c) THEN now + 1 .. now + RetryPeriod
                  ELSE now + RetryPeriod .. now + MaxJittered

\* The elector e of client c after its try failed.
TryFailed(c, e) ==
    \E t \in NextTry(c) :
        elector' = [elector EXCEPT ![c] = [e EXCEPT !.step = "wait", !.timer = t,
                                                   !.wanted = NoRecord]]

\* The lock's lease is overwritten by an empty one.
GetFails(c) ==
    /\ Running(c) /\ elector[c].step = "get"
    /\ Fault
    /\ current' = current \ {c}
    /\ TryFailed(c, elector[c])
    /\ UNCHANGED <<now, lease, late, calm>>

\* Mutants of Observe: a change is taken over without its time, and every
\* read counts as a change.
ObserveUntimed(e) ==
    IF e.raw = lease THEN e
    ELSE [e EXCEPT !.raw = lease, !.observed = Observed(lease)]

ObserveAlways(e) ==
    [e EXCEPT !.raw = lease, !.observed = Observed(lease), !.observedTime = now]

\* Step 2: the time of the last change of the record, on the client's clock.
Observe(e) ==
    IF e.raw = lease THEN e
    ELSE [e EXCEPT !.raw = lease, !.observed = Observed(lease), !.observedTime = now]

\* The lock is held by another and has not yet expired.
Held(c, e) ==
    /\ lease.holder # None
    /\ e.observedTime + LeaseDuration > e.wanted.renewTime
    /\ e.observed.holder # c

NextTransitions(c, e) ==
    lease.transitions + (IF e.observed.holder = c THEN 0 ELSE 1)

\* Steps 1 to 3 up to the write.
Get(c) ==
    /\ Running(c) /\ elector[c].step = "get"
    /\ current' = current \cup {c}
    /\ IF lease = NoRecord
       THEN elector' = [elector EXCEPT ![c].step = "write"]
       ELSE LET e == Observe(elector[c])
            IN  IF Held(c, e)
                THEN TryFailed(c, e)
                ELSE elector' = [elector EXCEPT ![c] =
                        [e EXCEPT !.step = "write",
                                  !.wanted.transitions = NextTransitions(c, e)]]
    /\ UNCHANGED <<now, lease, late, faults, calm>>

Write(c) ==
    /\ Running(c) /\ elector[c].step = "write"
    /\ c \in current
    /\ Store({c}, elector[c].wanted)
    /\ elector' = [elector EXCEPT ![c].step = "answer"]
    /\ UNCHANGED <<now, faults, calm>>

Conflict(c) ==
    /\ Running(c) /\ elector[c].step = "write"
    /\ c \notin current
    /\ TryFailed(c, elector[c])
    /\ UNCHANGED <<now, lease, current, late, faults, calm>>

\* The request or its answer is lost, or the client does not wait for it.
WriteFails(c) ==
    /\ Running(c) /\ elector[c].step \in {"write", "answer"}
    /\ Fault
    /\ Abandon(c)
    /\ current' = IF elector[c].step = "answer" THEN current \ {c} ELSE current
    /\ TryFailed(c, elector[c])
    /\ UNCHANGED <<now, lease, calm>>

\* Mutant of Answer: the time of the success is not noted.
AnswerUntimed(c) ==
    /\ Running(c) /\ elector[c].step = "answer"
    /\ elector' = [elector EXCEPT ![c] =
           [@ EXCEPT !.stage = "renew", !.step = "wait", !.deadline = 0,
                     !.timer = IF Renewing(c) THEN now + RetryPeriod ELSE now,
                     !.wanted = NoRecord, !.observed = Observed(elector[c].wanted),
                     !.renewed = elector[c].wanted.renewTime,
                     !.took = now - elector[c].wanted.renewTime]]
    /\ UNCHANGED <<now, lease, current, late, faults, calm>>

\* tryAcquireOrRenew succeeds, however long it took: acquire returns and renew
\* starts at once, or the next iteration of renew is due in RetryPeriod.
Answer(c) ==
    /\ Running(c) /\ elector[c].step = "answer"
    /\ elector' = [elector EXCEPT ![c] =
           [@ EXCEPT !.stage = "renew", !.step = "wait", !.deadline = 0,
                     !.timer = IF Renewing(c) THEN now + RetryPeriod ELSE now,
                     !.wanted = NoRecord,
                     !.observed = Observed(elector[c].wanted), !.observedTime = now,
                     !.renewed = elector[c].wanted.renewTime,
                     !.took = now - elector[c].wanted.renewTime]]
    /\ UNCHANGED <<now, lease, current, late, faults, calm>>
-----------------------------------------------------------------------------
(***************************************************************************)
(* Run                                                                     *)
(***************************************************************************)
Start(c) ==
    /\ elector[c] = Down /\ calm = -1
    /\ elector' = [elector EXCEPT ![c].stage = "acquire", ![c].timer = now]
    /\ UNCHANGED <<now, lease, current, late, faults, calm>>

Cancel(c) ==
    /\ elector[c].stage # "down" /\ ~elector[c].cancelled
    /\ Fault
    /\ elector' = [elector EXCEPT ![c].cancelled = TRUE]
    /\ UNCHANGED <<now, lease, current, late, calm>>

\* The process ends, or at least the elector.
Exit(c) ==
    /\ Abandon(c)
    /\ current' = current \ {c}
    /\ elector' = [elector EXCEPT ![c] = Down]

\* acquire returns false; Run returns.
AcquireCancelled(c) ==
    /\ elector[c].stage = "acquire" /\ elector[c].cancelled
    /\ Exit(c)
    /\ UNCHANGED <<now, lease, faults, calm>>

(***************************************************************************)
(* renew returns, at its deadline or cancelled.  A Get that is interrupted *)
(* empties the lock's lease, and so does a last try that WaitFor's select  *)
(* may still start after the deadline.  Then release, unless the client is *)
(* not configured to or is not the holder it observed.                     *)
(***************************************************************************)
RenewEnds(c) ==
    /\ Renewing(c)
    /\ elector[c].cancelled \/ (elector[c].deadline # 0 /\ now >= elector[c].deadline)
    /\ IF c \in ReleaseOnCancel /\ IsLeader(c)
       THEN /\ Abandon(c)
            /\ \/ /\ elector[c].step \in {"wait", "write"}
                  /\ UNCHANGED current
               \/ /\ elector[c].step # "write"
                  /\ elector[c].step = "wait" => elector[c].deadline # 0
                  /\ current' = current \ {c}
            /\ elector' = [elector EXCEPT ![c] =
                   [@ EXCEPT !.stage = "release", !.step = "write", !.timer = 0, !.deadline = 0,
                             !.wanted = Record(None, now, elector[c].observed.transitions)]]
       ELSE Exit(c)
    /\ UNCHANGED <<now, lease, faults, calm>>

\* release: the Update, without a deadline.
Release(c) ==
    /\ elector[c].stage = "release" /\ elector[c].step = "write"
    /\ c \in current
    /\ Store({c}, elector[c].wanted)
    /\ elector' = [elector EXCEPT ![c].step = "answer"]
    /\ UNCHANGED <<now, faults, calm>>

\* release returns, whatever came of it, then renew and Run.
RunEnds(c) ==
    /\ elector[c].stage = "release"
    /\ Exit(c)
    /\ UNCHANGED <<now, lease, faults, calm>>

Crash(c) ==
    /\ elector[c].stage # "down"
    /\ Fault
    /\ Exit(c)
    /\ UNCHANGED <<now, lease, calm>>

\* From here on nothing is lost, nobody stops or starts and requests are fast.
Stabilize ==
    /\ calm = -1 /\ late = {}
    /\ \A c \in Client : elector[c].step = "wait"
    /\ calm' = now
    /\ UNCHANGED <<now, lease, current, late, elector, faults>>

\* How long it takes to have a leader again: a period until the last record is
\* seen, LeaseDuration until it expires, and a period until the next try.
TakeoverTime == LeaseDuration + 2 * MaxJittered

Slow(c) == Running(c) /\ now >= elector[c].wanted.renewTime + Latency

\* Timers that are due go off before time passes.  Each second that a try takes
\* beyond Latency is a fault.
Tick ==
    /\ IF calm = -1 THEN now < MaxTime ELSE now <= calm + TakeoverTime
    /\ \A c \in Client : Running(c) =>
          /\ elector[c].step = "wait" => now < elector[c].timer
          /\ elector[c].deadline # 0 => now < elector[c].deadline
    /\ IF \E c \in Client : elector[c].step # "wait" /\ (calm # -1 \/ Slow(c))
       THEN Fault
       ELSE UNCHANGED faults
    /\ now' = now + 1
    /\ UNCHANGED <<lease, current, late, elector, calm>>
-----------------------------------------------------------------------------
tryAcquireOrRenew(c) ==
    \/ Try(c) \/ GetFails(c) \/ Get(c)
    \/ Write(c) \/ Conflict(c) \/ WriteFails(c) \/ Answer(c)

Run(c) ==
    \/ Start(c) \/ Cancel(c) \/ AcquireCancelled(c)
    \/ RenewEnds(c) \/ Release(c) \/ RunEnds(c) \/ Crash(c)

Next ==
    \/ \E c \in Client : tryAcquireOrRenew(c) \/ Run(c)
    \/ LateWrite \/ Stabilize \/ Tick

Spec == Init /\ [][Next]_vars
-----------------------------------------------------------------------------
(***************************************************************************)
(* Properties                                                              *)
(***************************************************************************)
\* The lease of a leader may have passed to another one.
Overdue(c) == now >= elector[c].renewed + LeaseDuration

\* Its last try succeeded too late for it to stop before its lease expires.
LateSuccess(c) == elector[c].took + RetryPeriod + RenewDeadline >= LeaseDuration

\* The package "does not guarantee that only one client is acting as a leader
\* (a.k.a. fencing)" (leaderelection.go:19-20).  What clocks and resource
\* versions do guarantee: two clients lead at once only if one of them has
\* released the lease and does not know it yet, or its lease has expired while
\* it releases it or because its last success took too long: never for a
\* request that failed or was applied after its client gave up.
OneLeader ==
    \A c, d \in Client : Leading(c) /\ Leading(d) /\ c # d =>
        \E e \in {c, d} :
            \/ elector[e].stage = "release" /\ elector[e].step = "answer"
            \/ Overdue(e) /\ (elector[e].stage = "release" \/ LateSuccess(e))

\* A client takes the lease from another one only LeaseDuration after the
\* record's RenewTime, if it was not released, however long ago it read it.
TakesOverExpired ==
    [][lease'.holder \notin {lease.holder, None} /\ lease.holder # None
          => now >= lease.renewTime + LeaseDuration]_vars

\* Check, the health check of the process, never fails for a leader whose
\* renew loop runs: not even with no tolerance is its lease expired.  That is
\* so for a LeaseDuration that leaves a RetryPeriod beyond RenewDeadline, more
\* than NewLeaderElector asks for.
WatchdogQuiet ==
    LeaseDuration >= RenewDeadline + RetryPeriod =>
        \A c \in Client : Renewing(c) /\ IsLeader(c) =>
            now <= elector[c].observedTime + LeaseDuration

\* Once communication is reliable, a client that wants the lease leads, or
\* another one does, within TakeoverTime: a crashed or cut-off holder, a write
\* applied too late or a lost answer blocks the lease no longer than that.
TakeoverInTime ==
    calm # -1 /\ now > calm + TakeoverTime /\ (\E c \in Client : Running(c))
        => \E c \in Client : Renewing(c)
=============================================================================
