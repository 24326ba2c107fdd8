------------------------ MODULE LeaderElectionProofs ------------------------
(***************************************************************************)
(* What leader election guarantees, for any number of clients, any         *)
(* durations that NewLeaderElector accepts, any faults and however long a  *)
(* request takes.  The package does not promise a single leader            *)
(* (leaderelection.go:19-20); OneLeader says when there can be two.        *)
(*                                                                         *)
(* IInv says how the clients are kept apart.  A write that can still be    *)
(* stored, of a client that waits for it or has given up on it, is         *)
(* Permitted: it keeps the holder, follows a released or expired record,   *)
(* or releases the lease.  HoldOf: a leader is the lease's holder until it *)
(* has released it or LeaseDuration has passed since its last renewal.     *)
(* LeadOf: it gives up within RetryPeriod and RenewDeadline of the end of  *)
(* the try that renewed it.                                                *)
(*                                                                         *)
(* The last part is about the takeover: once communication is reliable     *)
(* somebody leads within TakeoverTime, whatever state the clients were in. *)
(***************************************************************************)
EXTENDS LeaderElection, TLAPS

Holder == Client \cup {None}

Rec == [holder : Holder, renewTime : Int, transitions : Int]

Elector ==
    [stage : {"down", "acquire", "renew", "release"},
     step : {"wait", "get", "write", "answer"},
     timer : Int, deadline : Int, wanted : Rec,
     observed : [holder : Holder, transitions : Int], raw : Rec,
     observedTime : Int, cancelled : BOOLEAN, renewed : Int, took : Int]

\* Every variable has its type.
TypeOK ==
    /\ now \in Nat
    /\ lease \in Rec
    /\ current \subseteq Client
    /\ late \subseteq Rec
    /\ elector \in [Client -> Elector]
    /\ faults \in Nat /\ calm \in Int

\* What a client has read or wants to write is not of the future.
ClockOf(c) ==
    /\ elector[c].wanted.renewTime <= now
    /\ elector[c].step # "wait" => 0 <= elector[c].wanted.renewTime
    /\ elector[c].observedTime <= now
    /\ elector[c].raw.renewTime <= elector[c].observedTime

\* A client writes its own name, or none to release the lease.
WantOf(c) ==
    /\ elector[c].stage = "down" => elector[c].step = "wait"
    /\ Running(c) /\ elector[c].step # "wait" => elector[c].wanted.holder = c
    /\ elector[c].stage = "release" =>
          elector[c].step \in {"write", "answer"} /\ elector[c].wanted.holder = None

\* Records that differ in more than the renewal follow one another: a new
\* holder counts a transition, a release follows its holder.
Rank(r) == 2 * r.transitions + (IF r.holder = None THEN 1 ELSE 0)

\* A client that has seen the present holder has it as the observed one too.
OrderOf(c) ==
    \/ elector[c].raw = NoRecord
    \/ lease # NoRecord /\ Rank(elector[c].raw) < Rank(lease)
    \/ /\ lease # NoRecord
       /\ elector[c].observed = Observed(lease)
       /\ Observed(elector[c].raw) = Observed(lease)

\* A write that the server may store: it renews the record, takes over a
\* released or expired one, creates the first one, or releases the lease.
Permitted(w) ==
    \/ lease = NoRecord /\ w.holder # None
    \/ lease # NoRecord /\ Observed(w) = Observed(lease)
    \/ /\ lease # NoRecord /\ w.holder # None /\ w.transitions = lease.transitions + 1
       /\ lease.holder = None \/ lease.renewTime + LeaseDuration <= w.renewTime
    \/ w.holder = None /\ lease.holder # None /\ w.transitions = lease.transitions

\* The write of a client whose version is current is permitted, and the lease
\* is released by its holder.
PermitOf(c) ==
    c \in current /\ elector[c].step = "write" =>
        /\ Permitted(elector[c].wanted)
        /\ elector[c].stage = "release" => lease.holder = c

\* The record of a client that waits for the answer to its write is the
\* present one, and nothing under way could release the lease...
StillStored(c) ==
    lease = elector[c].wanted /\ \A w \in late : w.holder \notin {c, None}

\* ... or it has expired and another client's has followed it.
Superseded(c) ==
    /\ now >= elector[c].wanted.renewTime + LeaseDuration /\ c \notin current
    /\ lease # NoRecord
    /\ elector[c].raw = NoRecord \/ Rank(elector[c].raw) < Rank(lease)

AnswerOf(c) ==
    Running(c) /\ elector[c].step = "answer" => StillStored(c) \/ Superseded(c)

\* A client that renews the lease and has the current version knows the holder,
\* so that what it may release is its own.
CurrentOf(c) ==
    Renewing(c) /\ c \in current /\ elector[c].step # "answer" /\ IsLeader(c) =>
        elector[c].observed = Observed(lease)

\* When a leader gives up unless it renews the lease before.
LeadEnd(c) ==
    IF elector[c].deadline # 0 THEN elector[c].deadline ELSE elector[c].timer + RenewDeadline

\* A leader gives up a RetryPeriod and a RenewDeadline after it was told of its
\* last success, at the latest.
LeadOf(c) ==
    Renewing(c) =>
        /\ lease # NoRecord
        /\ now <= LeadEnd(c)
        /\ LeadEnd(c) <= elector[c].renewed + elector[c].took + RetryPeriod + RenewDeadline
        /\ elector[c].renewed + elector[c].took <= elector[c].observedTime
        /\ elector[c].deadline <= now + RenewDeadline
        /\ elector[c].step = "wait" => now <= elector[c].timer
        /\ elector[c].step # "wait" => elector[c].deadline # 0

\* The lease is the client's, nothing under way releases it, and none of its own
\* earlier writes could set its RenewTime back.
Holds(c) ==
    /\ lease.holder = c /\ elector[c].observed = Observed(lease)
    /\ lease.renewTime >= elector[c].renewed
    /\ \A w \in late : w.holder # None /\ (w.holder = c => w.renewTime >= elector[c].renewed)

\* A leader holds the lease until it has released it or its lease expires.
HoldOf(c) ==
    Leading(c) =>
        /\ elector[c].renewed <= now
        /\ elector[c].step # "wait" => elector[c].wanted.renewTime >= elector[c].renewed
        /\ \/ elector[c].stage = "release" /\ elector[c].step = "answer"
           \/ Overdue(c)
           \/ Holds(c)

\* All that is known of a client.
Local(c) ==
    /\ ClockOf(c) /\ WantOf(c) /\ OrderOf(c) /\ PermitOf(c)
    /\ AnswerOf(c) /\ CurrentOf(c) /\ LeadOf(c) /\ HoldOf(c)

\* What the server has stored or may still store.
Server ==
    /\ lease.renewTime <= now
    /\ \A w \in late : Permitted(w) /\ 0 <= w.renewTime /\ w.renewTime <= now

IInv == TypeOK /\ Server /\ \A c \in Client : Local(c)
-----------------------------------------------------------------------------
\* What the configuration that NewLeaderElector accepts gives the proofs.
LEMMA Constants ==
    /\ None \notin Client
    /\ LeaseDuration \in Nat /\ RenewDeadline \in Nat /\ RetryPeriod \in Nat /\ Latency \in Nat
    /\ RetryPeriod >= 1 /\ RenewDeadline > 0
    /\ LeaseDuration > RenewDeadline
    /\ MaxJittered \in Int
BY ConfigAssumption DEF MaxJittered

\* The fields of a record.
LEMMA RecordType ==
    ASSUME NEW h \in Holder, NEW t \in Int, NEW n \in Int
    PROVE  /\ Record(h, t, n) \in Rec
           /\ Record(h, t, n).holder = h /\ Record(h, t, n).renewTime = t
           /\ Record(h, t, n).transitions = n
BY DEF Record, Rec

\* Before the Lease exists it has no holder, and no write has its time.
LEMMA NoRecordType == NoRecord \in Rec /\ NoRecord.holder = None /\ NoRecord.renewTime = -1
BY DEF NoRecord, Record, Rec, Holder

\* A client that has not started wants nothing and has seen nothing.
LEMMA DownType ==
  /\ Down \in Elector
  /\ Down.stage = "down" /\ Down.step = "wait" /\ Down.raw = NoRecord
  /\ Down.wanted = NoRecord /\ Down.observedTime = 0
BY NoRecordType DEF Down, Elector, Observed, Rec

\* After a failed try the client waits, a leader at least until the next
\* second.
LEMMA TryFailedType ==
    ASSUME TypeOK, NEW c \in Client, NEW e \in Elector, TryFailed(c, e)
    PROVE  \E t \in Int :
             /\ elector' \in [Client -> Elector]
             /\ \A d \in Client \ {c} : elector'[d] = elector[d]
             /\ elector'[c] = [e EXCEPT !.step = "wait", !.timer = t, !.wanted = NoRecord]
             /\ t \in NextTry(c) /\ (Renewing(c) => t > now)
<1>1. PICK t \in NextTry(c) :
        elector' = [elector EXCEPT ![c] = [e EXCEPT !.step = "wait", !.timer = t,
                                                   !.wanted = NoRecord]]
  BY DEF TryFailed
<1>2. t \in Int /\ (Renewing(c) => t > now)
  BY <1>1, Constants DEF NextTry, TypeOK
<1>3. [e EXCEPT !.step = "wait", !.timer = t, !.wanted = NoRecord] \in Elector
  BY <1>2, NoRecordType DEF Elector
<1> QED
  BY <1>1, <1>2, <1>3 DEF TypeOK

\* Observe notes the present record, and the time unless it is the one noted
\* before.
LEMMA ObserveType ==
    ASSUME TypeOK, NEW e \in Elector
    PROVE  /\ Observe(e) \in Elector
           /\ Observe(e).stage = e.stage /\ Observe(e).step = e.step /\ Observe(e).timer = e.timer
           /\ Observe(e).deadline = e.deadline /\ Observe(e).wanted = e.wanted
           /\ Observe(e).raw = lease /\ Observe(e).cancelled = e.cancelled
           /\ Observe(e).renewed = e.renewed /\ Observe(e).took = e.took
           /\ \/ Observe(e) = e
              \/ Observe(e).observed = Observed(lease) /\ Observe(e).observedTime = now
<1>1. CASE e.raw = lease
  BY <1>1 DEF Observe
<1>2. CASE e.raw # lease
  <2> DEFINE o == Observed(lease)
  <2>1. o \in [holder : Holder, transitions : Int]
    BY DEF Observed, Rec, TypeOK
  <2>2. Observe(e) = [e EXCEPT !.raw = lease, !.observed = o, !.observedTime = now]
    BY <1>2 DEF Observe
  <2>3. lease \in Rec /\ now \in Int
    BY DEF TypeOK
  <2> HIDE DEF o
  <2>4. /\ Observe(e) \in Elector
        /\ Observe(e).stage = e.stage /\ Observe(e).step = e.step /\ Observe(e).timer = e.timer
        /\ Observe(e).deadline = e.deadline /\ Observe(e).wanted = e.wanted
        /\ Observe(e).raw = lease /\ Observe(e).cancelled = e.cancelled
        /\ Observe(e).renewed = e.renewed /\ Observe(e).took = e.took
        /\ Observe(e).observed = o /\ Observe(e).observedTime = now
    BY <2>1, <2>2, <2>3 DEF Elector
  <2> QED
    BY <2>4 DEF o
<1> QED
  BY <1>1, <1>2
-----------------------------------------------------------------------------
\* A step of client c leaves the others alone.
OnlyElector(c) ==
    /\ elector' \in [Client -> Elector]
    /\ \A d \in Client \ {c} : elector'[d] = elector[d]

\* What the client knows of the record, and its last success, have not changed.
SameView(e, f) ==
    /\ f.raw = e.raw /\ f.observed = e.observed /\ f.observedTime = e.observedTime
    /\ f.renewed = e.renewed /\ f.took = e.took

\* The fields of the client that starts a try.
LEMMA TryFields ==
    ASSUME TypeOK, NEW c \in Client, Try(c)
    PROVE  LET e == elector[c]  f == elector'[c]
           IN  /\ OnlyElector(c) /\ SameView(e, f)
               /\ f.stage = e.stage /\ f.step = "get" /\ f.timer = e.timer
               /\ f.wanted.holder = c /\ f.wanted.renewTime = now /\ f.cancelled = e.cancelled
               /\ f.deadline = IF Renewing(c) /\ e.deadline = 0 THEN now + RenewDeadline
                                                               ELSE e.deadline
<1> DEFINE w == Record(c, now, 0)
           dl == IF Renewing(c) /\ elector[c].deadline = 0 THEN now + RenewDeadline
                                                          ELSE elector[c].deadline
<1>1. elector \in [Client -> Elector]
  BY DEF TypeOK
<1>2. w \in Rec /\ w.holder = c /\ w.renewTime = now
  BY RecordType DEF TypeOK, Holder
<1>3. elector[c] \in Elector
  BY <1>1
<1>4. dl \in Int
  BY <1>3, Constants DEF TypeOK, Elector
<1>5. elector' = [elector EXCEPT ![c] = [elector[c] EXCEPT !.step = "get", !.wanted = w,
                                                          !.deadline = dl]]
  BY <1>1, <1>3 DEF Try, Elector
<1> HIDE DEF w, dl
<1>6. [elector[c] EXCEPT !.step = "get", !.wanted = w, !.deadline = dl] \in Elector
  BY <1>2, <1>3, <1>4 DEF Elector
<1>7. OnlyElector(c)
  BY <1>1, <1>5, <1>6 DEF OnlyElector
<1>8. elector'[c] = [elector[c] EXCEPT !.step = "get", !.wanted = w, !.deadline = dl]
  BY <1>1, <1>5
<1> QED
  BY <1>2, <1>3, <1>7, <1>8 DEF SameView, Elector, dl

\* The fields of the client whose try failed.
LEMMA TryFailedFields ==
    ASSUME TypeOK, NEW c \in Client, NEW e \in Elector, TryFailed(c, e)
    PROVE  LET f == elector'[c]
           IN  /\ OnlyElector(c) /\ SameView(e, f)
               /\ f.stage = e.stage /\ f.step = "wait" /\ f.wanted = NoRecord
               /\ f.deadline = e.deadline /\ f.cancelled = e.cancelled
               /\ f.timer \in NextTry(c) /\ (Renewing(c) => f.timer > now)
<1>1. PICK t \in Int :
        /\ elector' \in [Client -> Elector]
        /\ \A d \in Client \ {c} : elector'[d] = elector[d]
        /\ elector'[c] = [e EXCEPT !.step = "wait", !.timer = t, !.wanted = NoRecord]
        /\ t \in NextTry(c) /\ (Renewing(c) => t > now)
  BY TryFailedType
<1> QED
  BY <1>1 DEF OnlyElector, SameView, Elector

\* The fields of the client whose request goes on to its next step.
LEMMA StepFields ==
    ASSUME TypeOK, NEW c \in Client, NEW s \in {"wait", "get", "write", "answer"},
           elector' = [elector EXCEPT ![c].step = s]
    PROVE  LET e == elector[c]  f == elector'[c]
           IN  /\ OnlyElector(c) /\ SameView(e, f)
               /\ f.stage = e.stage /\ f.step = s /\ f.timer = e.timer /\ f.cancelled = e.cancelled
               /\ f.deadline = e.deadline /\ f.wanted = e.wanted
<1>1. elector \in [Client -> Elector] /\ elector[c] \in Elector
  BY DEF TypeOK
<1>2. elector' = [elector EXCEPT ![c] = [elector[c] EXCEPT !.step = s]]
  BY <1>1 DEF Elector
<1>3. [elector[c] EXCEPT !.step = s] \in Elector
  BY <1>1 DEF Elector
<1> QED
  BY <1>1, <1>2, <1>3 DEF OnlyElector, SameView, Elector

\* The fields of the client that has read a record it may replace.
LEMMA GoesFields ==
    ASSUME TypeOK, NEW c \in Client, Get(c), lease # NoRecord,
           ~Held(c, Observe(elector[c]))
    PROVE  LET e == Observe(elector[c])  f == elector'[c]
           IN  /\ OnlyElector(c) /\ SameView(e, f)
               /\ f.stage = e.stage /\ f.step = "write" /\ f.timer = e.timer
               /\ f.deadline = e.deadline /\ f.cancelled = e.cancelled
               /\ f.wanted.holder = e.wanted.holder
               /\ f.wanted.renewTime = e.wanted.renewTime
               /\ f.wanted.transitions = NextTransitions(c, e)
<1> DEFINE e == Observe(elector[c])
           n == NextTransitions(c, e)
<1>1. elector \in [Client -> Elector] /\ elector[c] \in Elector
  BY DEF TypeOK
<1>2. e \in Elector
  BY <1>1, ObserveType
<1>3. n \in Int
  BY DEF NextTransitions, TypeOK, Rec
<1>4. elector' = [elector EXCEPT ![c] = [e EXCEPT !.step = "write", !.wanted.transitions = n]]
  BY DEF Get
<1> HIDE DEF e, n
<1> DEFINE w == [e.wanted EXCEPT !.transitions = n]
<1>5. w \in Rec /\ w.holder = e.wanted.holder /\ w.renewTime = e.wanted.renewTime
      /\ w.transitions = n
  BY <1>2, <1>3 DEF Elector, Rec
<1>6. [e EXCEPT !.step = "write", !.wanted.transitions = n]
        = [e EXCEPT !.step = "write", !.wanted = w]
  BY <1>2 DEF Elector
<1> HIDE DEF w
<1>7. [e EXCEPT !.step = "write", !.wanted = w] \in Elector
  BY <1>2, <1>5 DEF Elector
<1>8. OnlyElector(c)
  BY <1>1, <1>4, <1>6, <1>7 DEF OnlyElector
<1>9. elector'[c] = [e EXCEPT !.step = "write", !.wanted = w]
  BY <1>1, <1>4, <1>6
<1>10. LET f == elector'[c]
       IN  /\ SameView(e, f)
           /\ f.stage = e.stage /\ f.step = "write" /\ f.timer = e.timer
           /\ f.deadline = e.deadline /\ f.wanted = w /\ f.cancelled = e.cancelled
  BY <1>2, <1>9 DEF SameView, Elector
<1> QED
  BY <1>5, <1>8, <1>10 DEF e, n

\* The fields of the client whose try succeeds: it leads.
LEMMA AnswerFields ==
    ASSUME TypeOK, NEW c \in Client, Answer(c)
    PROVE  LET f == elector'[c]
           IN  /\ OnlyElector(c)
               /\ f.stage = "renew" /\ f.step = "wait" /\ f.deadline = 0
               /\ f.timer \in now .. now + RetryPeriod
               /\ f.wanted = NoRecord /\ f.raw = elector[c].raw /\ f.cancelled = elector[c].cancelled
               /\ f.observed = Observed(elector[c].wanted) /\ f.observedTime = now
               /\ f.renewed = elector[c].wanted.renewTime
               /\ f.took = now - elector[c].wanted.renewTime
<1> DEFINE e == elector[c]
           o == Observed(e.wanted)
           t == IF Renewing(c) THEN now + RetryPeriod ELSE now
           zero == 0
           r == e.wanted.renewTime
           k == now - e.wanted.renewTime
<1>1. elector \in [Client -> Elector] /\ e \in Elector
  BY DEF TypeOK
<1>2. o \in [holder : Holder, transitions : Int]
  BY <1>1 DEF Observed, Rec, Elector
<1>3. t \in now .. now + RetryPeriod /\ t \in Int
  BY Constants DEF TypeOK
<1>4. elector' = [elector EXCEPT ![c] =
         [e EXCEPT !.stage = "renew", !.step = "wait", !.deadline = zero, !.timer = t,
                   !.wanted = NoRecord, !.observed = o, !.observedTime = now, !.renewed = r,
                   !.took = k]]
  BY <1>1 DEF Answer
<1>5. /\ now \in Int /\ t \in Int /\ zero \in Int /\ NoRecord \in Rec
      /\ r \in Int /\ k \in Int
  BY <1>1, <1>3, NoRecordType DEF TypeOK, Elector, Rec
<1> HIDE DEF e, o, t, zero, r, k
<1> DEFINE f == [e EXCEPT !.stage = "renew", !.step = "wait", !.deadline = zero, !.timer = t,
                   !.wanted = NoRecord, !.observed = o, !.observedTime = now, !.renewed = r,
                   !.took = k]
<1>6. f \in Elector
  <2>1. e \in Elector
    BY <1>1
  <2> QED
    BY <1>2, <1>5, <2>1 DEF Elector
<1>7. /\ f.stage = "renew" /\ f.step = "wait" /\ f.deadline = zero /\ f.timer = t
      /\ f.wanted = NoRecord /\ f.observed = o /\ f.observedTime = now /\ f.raw = e.raw
      /\ f.cancelled = e.cancelled /\ f.renewed = r /\ f.took = k
  BY <1>1 DEF Elector
<1> HIDE DEF f
<1>8. elector' = [elector EXCEPT ![c] = f]
  BY <1>4 DEF f
<1> QED
  BY <1>1, <1>3, <1>6, <1>7, <1>8 DEF OnlyElector, e, o, zero, r, k

\* The fields of the client that ends.
LEMMA ExitFields ==
    ASSUME TypeOK, NEW c \in Client, Exit(c)
    PROVE  OnlyElector(c) /\ elector'[c] = Down
BY DownType DEF Exit, OnlyElector, TypeOK

\* The fields of the client that starts.
LEMMA StartFields ==
    ASSUME TypeOK, NEW c \in Client, Start(c)
    PROVE  LET f == elector'[c]
           IN  /\ OnlyElector(c) /\ SameView(Down, f)
               /\ f.stage = "acquire" /\ f.step = "wait" /\ f.wanted = NoRecord /\ f.timer = now
<1>1. elector \in [Client -> Elector] /\ elector[c] = Down /\ now \in Int
  BY DEF TypeOK, Start
<1>2. elector' = [elector EXCEPT ![c] = [Down EXCEPT !.stage = "acquire", !.timer = now]]
  BY <1>1, DownType DEF Start, Elector
<1> DEFINE f == [Down EXCEPT !.stage = "acquire", !.timer = now]
<1>3. /\ f \in Elector /\ SameView(Down, f)
      /\ f.stage = "acquire" /\ f.step = "wait" /\ f.wanted = NoRecord /\ f.timer = now
  BY <1>1, DownType DEF Elector, SameView
<1> HIDE DEF f
<1> QED
  BY <1>1, <1>2, <1>3 DEF OnlyElector, f

\* The fields of the client that is cancelled.
LEMMA CancelFields ==
    ASSUME TypeOK, NEW c \in Client, Cancel(c)
    PROVE  LET e == elector[c]  f == elector'[c]
           IN  /\ OnlyElector(c) /\ SameView(e, f)
               /\ f.stage = e.stage /\ f.step = e.step /\ f.timer = e.timer
               /\ f.deadline = e.deadline /\ f.wanted = e.wanted
<1>1. elector \in [Client -> Elector] /\ elector[c] \in Elector
  BY DEF TypeOK
<1>2. elector' = [elector EXCEPT ![c] = [elector[c] EXCEPT !.cancelled = TRUE]]
  BY <1>1 DEF Elector, Cancel
<1>3. [elector[c] EXCEPT !.cancelled = TRUE] \in Elector
  BY <1>1 DEF Elector
<1> QED
  BY <1>1, <1>2, <1>3 DEF OnlyElector, SameView, Elector

\* The fields of the client that goes on to release the lease.
LEMMA ReleaseFields ==
    ASSUME TypeOK, NEW c \in Client,
           elector' = [elector EXCEPT ![c] =
               [@ EXCEPT !.stage = "release", !.step = "write", !.timer = 0, !.deadline = 0,
                         !.wanted = Record(None, now, elector[c].observed.transitions)]]
    PROVE  LET e == elector[c]  f == elector'[c]
           IN  /\ OnlyElector(c) /\ SameView(e, f)
               /\ f.stage = "release" /\ f.step = "write"
               /\ f.wanted.holder = None /\ f.wanted.renewTime = now
               /\ f.wanted.transitions = e.observed.transitions
<1> DEFINE e == elector[c]
           w == Record(None, now, e.observed.transitions)
           zero == 0
<1>1. elector \in [Client -> Elector] /\ e \in Elector /\ now \in Int
  BY DEF TypeOK
<1>2. /\ w \in Rec /\ w.holder = None /\ w.renewTime = now
      /\ w.transitions = e.observed.transitions
  <2>1. e.observed.transitions \in Int
    BY <1>1 DEF Elector
  <2>2. None \in Holder /\ now \in Int
    BY <1>1 DEF Holder
  <2> HIDE DEF e
  <2> QED
    BY <2>1, <2>2, RecordType
<1>3. zero \in Int
  OBVIOUS
<1>4. elector' = [elector EXCEPT ![c] =
         [e EXCEPT !.stage = "release", !.step = "write", !.timer = zero, !.deadline = zero,
                   !.wanted = w]]
  OBVIOUS
<1> HIDE DEF e, w, zero
<1> DEFINE f == [e EXCEPT !.stage = "release", !.step = "write", !.timer = zero,
                          !.deadline = zero, !.wanted = w]
<1>5. /\ f \in Elector /\ SameView(e, f)
      /\ f.stage = "release" /\ f.step = "write" /\ f.wanted = w
  BY <1>1, <1>2, <1>3 DEF Elector, SameView
<1>6. elector' = [elector EXCEPT ![c] = f]
  BY <1>4 DEF f
<1> HIDE DEF f
<1> QED
  BY <1>1, <1>2, <1>5, <1>6 DEF OnlyElector, e
-----------------------------------------------------------------------------
\* A write added to those under way is its client's present one, which was
\* permitted.
LEMMA AbandonAdds ==
    ASSUME IInv, NEW c \in Client, late' = late \/ Abandon(c), NEW w \in late', w \notin late
    PROVE  /\ w = elector[c].wanted /\ w \in Rec
           /\ elector[c].step = "write" /\ c \in current
           /\ Permitted(w) /\ 0 <= w.renewTime /\ w.renewTime <= now
           /\ w.holder = c \/ (w.holder = None /\ elector[c].stage = "release" /\ lease.holder = c)
<1>1. w = elector[c].wanted /\ elector[c].step = "write" /\ c \in current
  BY DEF Abandon
<1>2. elector[c] \in Elector /\ Local(c)
  BY DEF IInv, TypeOK
<1> QED
  BY <1>1, <1>2 DEF Local, ClockOf, WantOf, PermitOf, Elector, Running

\* A step of one client that stores nothing keeps the invariant if it keeps what
\* is known of that client.
LEMMA OneClient ==
    ASSUME IInv, NEW c \in Client, OnlyElector(c), UNCHANGED <<now, lease>>,
           late' = late \/ Abandon(c), current' \subseteq current \cup {c},
           faults' \in Nat, calm' \in Int, Local(c)'
    PROVE  IInv'
<1>1. \A w : Permitted(w) => Permitted(w)'
  BY DEF Permitted
<1>2. TypeOK'
  BY AbandonAdds DEF IInv, TypeOK, OnlyElector
<1>3. Server'
  BY <1>1, AbandonAdds DEF IInv, Server
<1>4. ASSUME NEW d \in Client, d # c
      PROVE  Local(d)'
  <2>1. elector'[d] = elector[d] /\ Local(d)
    BY <1>4 DEF OnlyElector, IInv
  <2>2. ClockOf(d)' /\ WantOf(d)' /\ OrderOf(d)'
    BY <2>1 DEF Local, ClockOf, WantOf, OrderOf, Running
  <2>3. PermitOf(d)'
    BY <1>1, <1>4, <2>1 DEF Local, PermitOf
  <2>4. ASSUME lease.holder = d, NEW w \in late', w \notin late
        PROVE  w.holder \notin {d, None}
    BY <1>4, <2>4, AbandonAdds, Constants
  <2>5. AnswerOf(d)'
    <3> SUFFICES ASSUME Running(d), elector[d].step = "answer"
                 PROVE  StillStored(d)' \/ Superseded(d)'
      BY <2>1 DEF AnswerOf, Running
    <3>1. CASE StillStored(d)
      <4>1. lease.holder = d
        BY <2>1, <3>1 DEF Local, WantOf, StillStored
      <4> QED
        BY <2>1, <2>4, <3>1, <4>1 DEF StillStored
    <3>2. CASE Superseded(d)
      BY <1>4, <2>1, <3>2 DEF Superseded
    <3> QED
      BY <2>1, <3>1, <3>2 DEF Local, AnswerOf
  <2>6. CurrentOf(d)' /\ LeadOf(d)'
    BY <1>4, <2>1 DEF Local, CurrentOf, LeadOf, LeadEnd, Renewing, IsLeader
  <2>7. Holds(d) => Holds(d)'
    BY <2>1, <2>4 DEF Holds
  <2>8. HoldOf(d)'
    BY <2>1, <2>7 DEF Local, HoldOf, Leading, Overdue
  <2> QED
    BY <2>2, <2>3, <2>5, <2>6, <2>8 DEF Local
<1> QED
  BY <1>2, <1>3, <1>4 DEF IInv

\* A client that renews the lease holds it as before after a step of its own
\* that stores nothing.
LEMMA HoldKept ==
    ASSUME IInv, NEW c \in Client, Renewing(c), UNCHANGED <<now, lease>>,
           late' = late \/ Abandon(c), elector'[c].renewed = elector[c].renewed,
           \/ elector'[c].observed = elector[c].observed
           \/ elector'[c].observed = Observed(lease),
           elector'[c].step # "wait" => elector'[c].wanted.renewTime >= elector[c].renewed
    PROVE  HoldOf(c)'
<1>1. HoldOf(c) /\ WantOf(c) /\ Leading(c) /\ elector[c].stage = "renew"
  BY DEF IInv, Local, Renewing, Leading
<1>2. ASSUME Holds(c), NEW w \in late'
      PROVE  w.holder # None /\ (w.holder = c => w.renewTime >= elector[c].renewed)
  <2>1. CASE w \in late
    BY <1>2, <2>1 DEF Holds
  <2>2. CASE w \notin late
    <3>1. w = elector[c].wanted /\ elector[c].step = "write" /\ w.holder = c
      BY <1>1, <2>2, AbandonAdds
    <3> QED
      BY <1>1, <3>1, Constants DEF HoldOf
  <2> QED
    BY <2>1, <2>2
<1>3. Holds(c) => Holds(c)'
  BY <1>2 DEF Holds
<1>4. Overdue(c) => Overdue(c)'
  BY DEF Overdue
<1> QED
  BY <1>1, <1>3, <1>4 DEF HoldOf

\* What a client may write after it saw the present record, or wrote it.
LEMMA PermittedRecord ==
    ASSUME IInv, NEW c \in Client, NEW w \in Rec, lease # NoRecord, w.holder = c,
           NEW o \in Holder, o = lease.holder,
           w.transitions = lease.transitions + (IF o = c THEN 0 ELSE 1),
           \/ lease.holder = None \/ o = c
           \/ lease.renewTime + LeaseDuration <= w.renewTime
    PROVE  Permitted(w)
<1>1. lease \in Rec
  BY DEF IInv, TypeOK
<1>2. CASE o = c
  BY <1>1, <1>2 DEF Permitted, Observed, Rec
<1>3. CASE o # c
  BY <1>1, <1>3, Constants DEF Permitted, Rec
<1> QED
  BY <1>2, <1>3

\* Having read the present record, a client has observed its holder.
LEMMA ObserveSees ==
    ASSUME IInv, NEW c \in Client, lease # NoRecord
    PROVE  Observe(elector[c]).observed = Observed(lease)
<1>1. TypeOK /\ elector[c] \in Elector /\ lease \in Rec /\ OrderOf(c)
  BY DEF IInv, TypeOK, Local
<1>2. ~(Rank(lease) < Rank(lease))
  BY <1>1 DEF Rank, Rec
<1> QED
  BY <1>1, <1>2, ObserveType DEF OrderOf

\* A try starts an iteration of renew at its timer: its deadline is what
\* LeadEnd was.
LEMMA TryKeeps ==
    ASSUME IInv, NEW c \in Client, Try(c)
    PROVE  IInv'
<1>1. TypeOK /\ Local(c) /\ elector[c] \in Elector
  BY DEF IInv, TypeOK
<1> DEFINE e == elector[c]
           f == elector'[c]
<1>2. /\ OnlyElector(c) /\ SameView(e, f)
      /\ f.stage = e.stage /\ f.step = "get" /\ f.timer = e.timer
      /\ f.wanted.holder = c /\ f.wanted.renewTime = now
      /\ f.deadline = IF Renewing(c) /\ e.deadline = 0 THEN now + RenewDeadline
                                                      ELSE e.deadline
  BY <1>1, TryFields
<1>3. UNCHANGED <<now, lease, late, current, faults, calm>> /\ e.step = "wait"
      /\ now >= e.timer /\ Running(c)
  BY DEF Try
<1>4. now \in Nat
  BY <1>1 DEF TypeOK
<1>5. Renewing(c)' <=> Renewing(c)
  BY <1>2 DEF Renewing
<1>6. ClockOf(c)' /\ WantOf(c)' /\ OrderOf(c)' /\ PermitOf(c)' /\ AnswerOf(c)'
  BY <1>1, <1>2, <1>3, <1>4
     DEF Local, ClockOf, WantOf, OrderOf, PermitOf, AnswerOf, SameView, Running
<1>7. LeadOf(c)'
  <2> SUFFICES ASSUME Renewing(c)
               PROVE  LeadOf(c)'
    BY <1>5 DEF LeadOf
  <2>1. now <= e.timer /\ now = e.timer
    BY <1>1, <1>3, <1>4 DEF Local, LeadOf, Elector
  <2>2. LeadEnd(c)' = LeadEnd(c) /\ f.deadline = LeadEnd(c) /\ f.deadline # 0
    BY <1>1, <1>2, <1>3, <1>4, <2>1, Constants DEF LeadEnd, Elector
  <2>3. f.deadline <= now + RenewDeadline
    BY <1>1, <1>2, <1>4, <2>1, Constants DEF Local, LeadOf, Elector
  <2> QED
    BY <1>1, <1>2, <1>3, <2>2, <2>3 DEF Local, LeadOf, SameView
<1>8. CurrentOf(c)'
  BY <1>1, <1>2, <1>3, <1>5 DEF Local, CurrentOf, IsLeader, SameView
<1>9. HoldOf(c)'
  <2>1. CASE Renewing(c)
    <3>1. elector[c].renewed <= now
      BY <1>1, <2>1 DEF Local, HoldOf, Renewing, Leading
    <3> QED
      BY <1>1, <1>2, <1>3, <1>4, <2>1, <3>1, HoldKept DEF SameView, Elector
  <2>2. CASE ~Renewing(c)
    BY <1>2, <1>3, <2>2 DEF HoldOf, Leading, Renewing, Running
  <2> QED
    BY <2>1, <2>2
<1> QED
  BY <1>1, <1>2, <1>3, <1>6, <1>7, <1>8, <1>9, OneClient DEF Local, IInv, TypeOK

\* A failed try: the client waits for the next one, having seen the lease or not.
LEMMA TryFailedKeeps ==
    ASSUME IInv, NEW c \in Client, NEW e \in Elector, TryFailed(c, e), Running(c),
           \/ e = elector[c] /\ current' \subseteq current
           \/ e = Observe(elector[c]) /\ lease # NoRecord,
           UNCHANGED <<now, lease>>, late' = late \/ Abandon(c),
           current' \subseteq current \cup {c}, faults' \in Nat, calm' \in Int,
           elector[c].step # "wait", elector[c].step = "answer" => c \notin current'
    PROVE  IInv'
<1>1. TypeOK /\ Local(c) /\ elector[c] \in Elector /\ lease.renewTime <= now
  BY DEF IInv, TypeOK, Server
<1> DEFINE f == elector'[c]
<1>2. /\ OnlyElector(c) /\ SameView(e, f)
      /\ f.stage = e.stage /\ f.step = "wait" /\ f.wanted = NoRecord
      /\ f.deadline = e.deadline /\ (Renewing(c) => f.timer > now)
  BY <1>1, TryFailedFields
<1>3. now \in Nat /\ lease \in Rec
  BY <1>1 DEF TypeOK
<1>4. /\ e.stage = elector[c].stage /\ e.deadline = elector[c].deadline
      /\ e.renewed = elector[c].renewed /\ e.took = elector[c].took
      /\ \/ e = elector[c]
         \/ /\ lease # NoRecord /\ e.raw = lease
            /\ e.observed = Observed(lease) /\ e.observedTime = now
         \/ e = elector[c] /\ e.raw = lease
  BY <1>1, ObserveType
<1>5. Renewing(c)' <=> Renewing(c)
  BY <1>2, <1>4 DEF Renewing
<1>6. ClockOf(c)' /\ WantOf(c)' /\ OrderOf(c)' /\ PermitOf(c)' /\ AnswerOf(c)'
  <2>1. ClockOf(c)'
    BY <1>1, <1>2, <1>3, <1>4, NoRecordType
       DEF Local, ClockOf, SameView, Rec, Elector
  <2>2. OrderOf(c)'
    BY <1>1, <1>2, <1>4 DEF Local, OrderOf, SameView
  <2> QED
    BY <1>2, <1>4, <2>1, <2>2 DEF WantOf, PermitOf, AnswerOf, Running
<1>7. LeadOf(c)'
  <2> SUFFICES ASSUME Renewing(c)
               PROVE  LeadOf(c)'
    BY <1>5 DEF LeadOf
  <2>1. LeadEnd(c)' = LeadEnd(c) /\ LeadEnd(c) = e.deadline
    BY <1>1, <1>2, <1>4 DEF LeadEnd, Local, LeadOf
  <2>2. elector[c].observedTime <= f.observedTime /\ f.observedTime \in Int
    BY <1>1, <1>2, <1>3, <1>4 DEF Local, ClockOf, SameView, Elector
  <2>3. f.renewed + f.took <= f.observedTime
    BY <1>1, <1>2, <1>4, <2>2 DEF Local, LeadOf, SameView, Elector
  <2>4. now <= f.timer
    BY <1>1, <1>2, <1>3 DEF OnlyElector, Elector
  <2> QED
    BY <1>1, <1>2, <1>4, <2>1, <2>3, <2>4 DEF Local, LeadOf, SameView
<1>8. CurrentOf(c)'
  <2>1. CASE e = elector[c] /\ current' \subseteq current
    BY <1>1, <1>2, <1>5, <2>1 DEF Local, CurrentOf, IsLeader, SameView
  <2>2. CASE e = Observe(elector[c]) /\ lease # NoRecord
    BY <1>2, <2>2, ObserveSees DEF CurrentOf, SameView
  <2> QED
    BY <2>1, <2>2
<1>9. HoldOf(c)'
  <2>1. CASE Renewing(c)
    BY <1>2, <1>4, <2>1, HoldKept DEF SameView
  <2>2. CASE ~Renewing(c)
    BY <1>2, <1>4, <2>2 DEF HoldOf, Leading, Renewing, Running
  <2> QED
    BY <2>1, <2>2
<1> QED
  BY <1>1, <1>2, <1>6, <1>7, <1>8, <1>9, OneClient DEF Local

\* Exit leaves a client that wants nothing.
LEMMA ExitKeeps ==
    ASSUME IInv, NEW c \in Client, Exit(c), UNCHANGED <<now, lease>>, faults' \in Nat,
           calm' \in Int
    PROVE  IInv'
<1>1. OnlyElector(c) /\ elector'[c] = Down
  BY ExitFields DEF IInv
<1>2. now \in Nat
  BY DEF IInv, TypeOK
<1>3. ClockOf(c)' /\ WantOf(c)' /\ OrderOf(c)' /\ PermitOf(c)' /\ AnswerOf(c)'
  BY <1>1, <1>2, DownType, NoRecordType
     DEF ClockOf, WantOf, OrderOf, PermitOf, AnswerOf, Running
<1>4. CurrentOf(c)' /\ LeadOf(c)' /\ HoldOf(c)'
  BY <1>1, DownType DEF CurrentOf, LeadOf, HoldOf, Renewing, Leading
<1> QED
  BY <1>1, <1>3, <1>4, OneClient DEF Exit, Local

\* Start keeps the invariant.
LEMMA StartKeeps ==
    ASSUME IInv, NEW c \in Client, Start(c)
    PROVE  IInv'
<1>1. TypeOK /\ elector[c] = Down
  BY DEF IInv, Start
<1> DEFINE f == elector'[c]
<1>2. /\ OnlyElector(c) /\ SameView(Down, f)
      /\ f.stage = "acquire" /\ f.step = "wait" /\ f.wanted = NoRecord
  BY <1>1, StartFields
<1>3. UNCHANGED <<now, lease, late, current, faults, calm>> /\ now \in Nat
  BY <1>1 DEF Start, TypeOK
<1>4. ClockOf(c)' /\ WantOf(c)' /\ OrderOf(c)' /\ PermitOf(c)' /\ AnswerOf(c)'
  BY <1>2, <1>3, DownType, NoRecordType
     DEF ClockOf, WantOf, OrderOf, PermitOf, AnswerOf, Running, SameView
<1>5. CurrentOf(c)' /\ LeadOf(c)' /\ HoldOf(c)'
  BY <1>2 DEF CurrentOf, LeadOf, HoldOf, Renewing, Leading
<1> QED
  BY <1>1, <1>2, <1>3, <1>4, <1>5, OneClient DEF TypeOK, Local

\* Cancel keeps the invariant.
LEMMA CancelKeeps ==
    ASSUME IInv, NEW c \in Client, Cancel(c)
    PROVE  IInv'
<1>1. TypeOK /\ Local(c)
  BY DEF IInv
<1> DEFINE e == elector[c]
           f == elector'[c]
<1>2. /\ OnlyElector(c) /\ SameView(e, f)
      /\ f.stage = e.stage /\ f.step = e.step /\ f.timer = e.timer
      /\ f.deadline = e.deadline /\ f.wanted = e.wanted
  BY <1>1, CancelFields
<1>3. UNCHANGED <<now, lease, late, current, calm>> /\ faults' \in Nat
  BY <1>1 DEF Cancel, Fault, TypeOK
<1>4. Permitted(e.wanted) => Permitted(e.wanted)'
  BY <1>2, <1>3 DEF Permitted
<1>5. ClockOf(c)' /\ WantOf(c)' /\ OrderOf(c)' /\ PermitOf(c)'
  BY <1>1, <1>2, <1>3, <1>4
     DEF Local, ClockOf, WantOf, OrderOf, PermitOf, SameView, Running
<1>6. AnswerOf(c)' /\ CurrentOf(c)'
  BY <1>1, <1>2, <1>3
     DEF Local, AnswerOf, StillStored, Superseded, CurrentOf, Renewing, IsLeader, SameView, Running
<1>7. LeadOf(c)' /\ HoldOf(c)'
  BY <1>1, <1>2, <1>3
     DEF Local, LeadOf, LeadEnd, HoldOf, Holds, Overdue, Renewing, Leading, SameView
<1> QED
  BY <1>1, <1>2, <1>3, <1>5, <1>6, <1>7, OneClient DEF Local, TypeOK

\* A client that has read the record and wants to write: no leader is disturbed
\* that it does not know of.
LEMMA GetKeeps ==
    ASSUME IInv, NEW c \in Client, Get(c)
    PROVE  IInv'
<1>1. TypeOK /\ Local(c) /\ elector[c] \in Elector /\ lease.renewTime <= now
      /\ lease \in Rec /\ now \in Nat
  BY DEF IInv, TypeOK, Server
<1>2. UNCHANGED <<now, lease, late, faults, calm>> /\ Running(c) /\ elector[c].step = "get"
      /\ current' = current \cup {c} /\ faults' \in Nat /\ calm' \in Int
  BY <1>1 DEF Get, TypeOK
<1> DEFINE o == Observe(elector[c])
           f == elector'[c]
<1>3. /\ o \in Elector
      /\ o.stage = elector[c].stage /\ o.timer = elector[c].timer
      /\ o.deadline = elector[c].deadline /\ o.wanted = elector[c].wanted /\ o.raw = lease
      /\ o.renewed = elector[c].renewed /\ o.took = elector[c].took
      /\ \/ o = elector[c]
         \/ o.observed = Observed(lease) /\ o.observedTime = now
  BY <1>1, ObserveType
<1>4. CASE lease # NoRecord /\ Held(c, o)
  <2>1. TryFailed(c, o)
    BY <1>4 DEF Get
  <2> QED
    BY <1>2, <1>3, <1>4, <2>1, TryFailedKeeps
<1>5. ASSUME /\ OnlyElector(c)
             /\ f.stage = elector[c].stage /\ f.step = "write" /\ f.timer = elector[c].timer
             /\ f.deadline = elector[c].deadline
             /\ f.wanted.holder = c /\ f.wanted.renewTime = elector[c].wanted.renewTime
             /\ f.renewed = elector[c].renewed /\ f.took = elector[c].took,
             Permitted(f.wanted), OrderOf(c)', f.observedTime \in Int,
             elector[c].observedTime <= f.observedTime,
             f.observedTime <= now, f.raw.renewTime <= f.observedTime,
             lease # NoRecord => f.observed = Observed(lease)
      PROVE  IInv'
  <2>1. Renewing(c)' <=> Renewing(c)
    BY <1>5 DEF Renewing
  <2>2. Renewing(c) => lease # NoRecord
    BY <1>1 DEF Local, LeadOf
  <2>3. PermitOf(c)'
    BY <1>2, <1>5 DEF PermitOf, Permitted, Running
  <2>4. ClockOf(c)' /\ WantOf(c)' /\ AnswerOf(c)'
    BY <1>1, <1>2, <1>5 DEF Local, ClockOf, WantOf, AnswerOf, Running
  <2>5. CurrentOf(c)'
    BY <1>2, <1>5, <2>1, <2>2 DEF CurrentOf
  <2>6. LeadOf(c)'
    <3> SUFFICES ASSUME Renewing(c)
                 PROVE  LeadOf(c)'
      BY <2>1 DEF LeadOf
    <3>1. LeadEnd(c)' = LeadEnd(c)
      BY <1>5 DEF LeadEnd
    <3>2. f.renewed + f.took <= f.observedTime
      BY <1>1, <1>5 DEF Local, LeadOf, Elector
    <3> QED
      BY <1>1, <1>2, <1>5, <3>1, <3>2 DEF Local, LeadOf
  <2>7. HoldOf(c)'
    <3>1. CASE Renewing(c)
      <4>1. elector[c].wanted.renewTime >= elector[c].renewed
        BY <1>1, <1>2, <3>1 DEF Local, HoldOf, Renewing, Leading
      <4> QED
        BY <1>2, <1>5, <2>2, <3>1, <4>1, HoldKept
    <3>2. CASE ~Renewing(c)
      BY <1>2, <1>5, <3>2 DEF HoldOf, Leading, Renewing, Running
    <3> QED
      BY <3>1, <3>2
  <2> QED
    BY <1>2, <1>5, <2>3, <2>4, <2>5, <2>6, <2>7, OneClient DEF Local
<1>6. CASE lease = NoRecord
  <2>1. /\ OnlyElector(c) /\ SameView(elector[c], f)
        /\ f.stage = elector[c].stage /\ f.step = "write" /\ f.timer = elector[c].timer
        /\ f.deadline = elector[c].deadline /\ f.wanted = elector[c].wanted
    BY <1>1, <1>6, StepFields DEF Get
  <2>2. f.wanted.holder = c /\ Permitted(f.wanted)
    BY <1>1, <1>2, <1>6, <2>1, Constants DEF Local, WantOf, Permitted
  <2>3. OrderOf(c)'
    BY <1>1, <1>2, <1>6, <2>1 DEF Local, OrderOf, SameView
  <2>4. /\ f.observedTime \in Int /\ elector[c].observedTime <= f.observedTime
        /\ f.observedTime <= now /\ f.raw.renewTime <= f.observedTime
    BY <1>1, <2>1 DEF Local, ClockOf, SameView, Elector
  <2> QED
    BY <1>5, <1>6, <2>1, <2>2, <2>3, <2>4 DEF SameView
<1>7. CASE lease # NoRecord /\ ~Held(c, o)
  <2>1. /\ OnlyElector(c) /\ SameView(o, f)
        /\ f.stage = o.stage /\ f.step = "write" /\ f.timer = o.timer
        /\ f.deadline = o.deadline
        /\ f.wanted.holder = o.wanted.holder
        /\ f.wanted.renewTime = o.wanted.renewTime
        /\ f.wanted.transitions = NextTransitions(c, o)
    BY <1>1, <1>7, GoesFields
  <2>2. o.observed = Observed(lease)
    BY <1>7, ObserveSees
  <2>3. o.observed.holder = lease.holder
    BY <2>2 DEF Observed
  <2>4. o.wanted.holder = c
    BY <1>1, <1>2, <1>3 DEF Local, WantOf
  <2>5. /\ o.observedTime <= now /\ lease.renewTime <= o.observedTime
        /\ elector[c].observedTime <= o.observedTime /\ o.observedTime \in Int
    BY <1>1, <1>3 DEF Local, ClockOf, Rec, Elector
  <2>6. f.wanted \in Rec /\ f \in Elector
    BY <2>1 DEF OnlyElector, Elector
  <2>7. \/ lease.holder = None \/ lease.holder = c
        \/ lease.renewTime + LeaseDuration <= f.wanted.renewTime
    BY <1>1, <1>3, <1>7, <2>1, <2>3, <2>5, <2>6, Constants DEF Held, Rec, Elector
  <2>8. Permitted(f.wanted)
    BY <1>1, <1>7, <2>1, <2>3, <2>4, <2>6, <2>7, PermittedRecord DEF NextTransitions, Rec
  <2>9. OrderOf(c)'
    BY <1>2, <1>3, <1>7, <2>1, <2>2 DEF OrderOf, SameView
  <2> QED
    BY <1>3, <1>5, <2>1, <2>2, <2>4, <2>5, <2>8, <2>9 DEF SameView
<1> QED
  BY <1>4, <1>6, <1>7

\* The client whose write succeeded still has its record in the lease, unless
\* the answer took so long that the record has expired.
LEMMA AnswerKeeps ==
    ASSUME IInv, NEW c \in Client, Answer(c)
    PROVE  IInv'
<1>1. TypeOK /\ Local(c) /\ elector[c] \in Elector /\ now \in Nat /\ lease \in Rec
  BY DEF IInv, TypeOK
<1> DEFINE e == elector[c]
           f == elector'[c]
<1>2. /\ OnlyElector(c)
      /\ f.stage = "renew" /\ f.step = "wait" /\ f.deadline = 0
      /\ f.timer \in now .. now + RetryPeriod
      /\ f.wanted = NoRecord /\ f.raw = elector[c].raw
      /\ f.observed = Observed(e.wanted) /\ f.observedTime = now
      /\ f.renewed = e.wanted.renewTime /\ f.took = now - e.wanted.renewTime
  BY <1>1, AnswerFields
<1>3. UNCHANGED <<now, lease, late, current, faults, calm>>
      /\ Running(c) /\ e.step = "answer"
  BY DEF Answer
<1>4. /\ e.wanted \in Rec /\ e.wanted.holder = c /\ e.wanted.renewTime <= now
      /\ e.wanted.renewTime \in Int
  BY <1>1, <1>3 DEF Local, WantOf, ClockOf, Elector, Rec
<1>5. StillStored(c) \/ Superseded(c)
  BY <1>1, <1>3 DEF Local, AnswerOf
<1>6. lease # NoRecord
  BY <1>4, <1>5, NoRecordType, Constants DEF StillStored, Superseded
<1>7. ClockOf(c)'
  BY <1>1, <1>2, <1>3, NoRecordType DEF Local, ClockOf, Elector, Rec
<1>8. WantOf(c)' /\ PermitOf(c)' /\ AnswerOf(c)'
  BY <1>2 DEF WantOf, PermitOf, AnswerOf, Running
<1>9. OrderOf(c)'
  BY <1>1, <1>2, <1>3, <1>5, <1>6 DEF Local, OrderOf, StillStored, Superseded
<1>10. CurrentOf(c)'
  BY <1>2, <1>3, <1>5 DEF CurrentOf, StillStored, Superseded
<1>11. LeadOf(c)'
  <2>1. LeadEnd(c)' = f.timer + RenewDeadline
    BY <1>2 DEF LeadEnd
  <2>2. f.timer \in Int /\ now <= f.timer /\ f.timer <= now + RetryPeriod /\ f.renewed + f.took = now
    BY <1>1, <1>2, <1>4, Constants
  <2>3. now <= f.timer + RenewDeadline /\ f.timer + RenewDeadline <= now + RetryPeriod + RenewDeadline
    BY <1>1, <2>2, Constants
  <2>4. f.deadline <= now + RenewDeadline
    BY <1>1, <1>2, Constants
  <2> QED
    BY <1>1, <1>2, <1>3, <1>6, <2>1, <2>2, <2>3, <2>4 DEF LeadOf
<1>12. HoldOf(c)'
  <2>1. CASE StillStored(c)
    <3>1. Holds(c)'
      BY <1>1, <1>2, <1>3, <1>4, <2>1 DEF Holds, StillStored
    <3> QED
      BY <1>2, <1>3, <1>4, <3>1 DEF HoldOf
  <2>2. CASE Superseded(c)
    <3>1. Overdue(c)'
      BY <1>2, <1>3, <2>2 DEF Overdue, Superseded
    <3> QED
      BY <1>2, <1>3, <1>4, <3>1 DEF HoldOf
  <2> QED
    BY <1>5, <2>1, <2>2
<1> QED
  BY <1>1, <1>2, <1>3, <1>7, <1>8, <1>9, <1>10, <1>11, <1>12, OneClient DEF Local, TypeOK
-----------------------------------------------------------------------------
\* Ranks are numbers, and a client has seen no record of a rank to come.
LEMMA RawRank ==
    ASSUME IInv, NEW d \in Client
    PROVE  /\ Rank(lease) \in Int /\ Rank(elector[d].raw) \in Int
           /\ elector[d].raw # NoRecord => Rank(elector[d].raw) <= Rank(lease)
<1>1. elector[d] \in Elector /\ lease \in Rec /\ OrderOf(d)
  BY DEF IInv, TypeOK, Local
<1>2. Rank(lease) \in Int /\ Rank(elector[d].raw) \in Int
  BY <1>1 DEF Rank, Rec, Elector
<1>3. Observed(elector[d].raw) = Observed(lease) => Rank(elector[d].raw) = Rank(lease)
  BY DEF Observed, Rank
<1> QED
  BY <1>1, <1>2, <1>3 DEF OrderOf

\* A permitted record follows the present one.
LEMMA PermittedFollows ==
    ASSUME IInv, NEW w \in Rec, Permitted(w), 0 <= w.renewTime
    PROVE  /\ w # NoRecord /\ Rank(w) \in Int
           /\ lease # NoRecord =>
                \/ Observed(w) = Observed(lease) /\ Rank(w) = Rank(lease)
                \/ Rank(lease) < Rank(w)
<1>1. lease \in Rec
  BY DEF IInv, TypeOK
<1>2. w # NoRecord /\ Rank(w) \in Int
  BY NoRecordType DEF Rank, Rec
<1>3. ASSUME lease # NoRecord, Observed(w) # Observed(lease)
      PROVE  Rank(lease) < Rank(w)
  BY <1>1, <1>3 DEF Permitted, Rank, Rec
<1>4. Observed(w) = Observed(lease) => Rank(w) = Rank(lease)
  BY DEF Observed, Rank
<1> QED
  BY <1>2, <1>3, <1>4

\* A leader that holds the lease keeps it until it expires, whatever permitted
\* write is stored that does not release it.
LEMMA PermittedSpares ==
    ASSUME IInv, NEW w \in Rec, Permitted(w), w.renewTime <= now, NEW d \in Client,
           Holds(d), ~Overdue(d), w.holder # None
    PROVE  Observed(w) = Observed(lease) /\ w.holder = d
<1>1. lease \in Rec /\ now \in Nat /\ elector[d] \in Elector
  BY DEF IInv, TypeOK
<1>2. lease.holder = d /\ lease # NoRecord
  BY <1>1, NoRecordType, Constants DEF Holds
<1>3. now < lease.renewTime + LeaseDuration
  BY <1>1, Constants DEF Holds, Overdue, Rec, Elector
<1>4. Observed(w) = Observed(lease)
  BY <1>1, <1>2, <1>3, Constants DEF Permitted, Rec
<1> QED
  BY <1>2, <1>4 DEF Observed

\* The record of a client that has not heard of its success is replaced only
\* when it has expired.
LEMMA PermittedWaits ==
    ASSUME IInv, NEW w \in Rec, Permitted(w), 0 <= w.renewTime, w.renewTime <= now,
           NEW d \in Client, Running(d), elector[d].step = "answer", StillStored(d),
           w.holder \notin {d, None}
    PROVE  /\ now >= elector[d].wanted.renewTime + LeaseDuration
           /\ lease # NoRecord /\ Rank(lease) < Rank(w)
<1>1. lease \in Rec /\ now \in Nat /\ elector[d] \in Elector /\ WantOf(d)
  BY DEF IInv, TypeOK, Local
<1>2. lease = elector[d].wanted /\ lease.holder = d
  BY <1>1 DEF StillStored, WantOf
<1>3. lease # NoRecord
  BY <1>2, NoRecordType, Constants
<1>4. Observed(w) # Observed(lease)
  BY <1>2 DEF Observed
<1>5. now >= lease.renewTime + LeaseDuration
  BY <1>1, <1>2, <1>3, <1>4, Constants DEF Permitted, Rec
<1> QED
  BY <1>2, <1>3, <1>4, <1>5, PermittedFollows

\* A permitted write keeps the invariant when it is stored: what others had
\* read or had under way is out of date, and a leader that holds the lease is
\* spared.
LEMMA StoreKeeps ==
    ASSUME IInv, NEW w \in Rec, Permitted(w), 0 <= w.renewTime, w.renewTime <= now,
           NEW writers \in SUBSET Client, Store(writers, w), UNCHANGED <<now, faults, calm>>,
           elector' \in [Client -> Elector],
           \A d \in Client :
               /\ SameView(elector[d], elector'[d])
               /\ elector'[d].stage = elector[d].stage /\ elector'[d].timer = elector[d].timer
               /\ elector'[d].deadline = elector[d].deadline
               /\ elector'[d].wanted = elector[d].wanted,
           \A d \in Client : \/ elector'[d].step = elector[d].step /\ d \notin writers
                             \/ /\ elector[d].step = "write" /\ elector'[d].step = "answer"
                                /\ w = elector[d].wanted,
           \A d \in Client : Leading(d) /\ Holds(d) =>
               \/ elector[d].stage = "release" /\ elector'[d].step = "answer"
               \/ w.holder # None /\ (w.holder = d => w.renewTime >= elector[d].renewed),
           \A d \in Client :
               Running(d) /\ elector[d].step = "answer" /\ StillStored(d)
                   => w.holder \notin {d, None}
    PROVE  IInv'
<1>1. lease' = w /\ current' = writers /\ late' = {}
  BY DEF Store
<1>2. TypeOK'
  BY <1>1 DEF IInv, TypeOK
<1>3. Server'
  BY <1>1 DEF Server
<1>4. /\ w # NoRecord /\ Rank(w) \in Int
      /\ lease # NoRecord =>
           \/ Observed(w) = Observed(lease) /\ Rank(w) = Rank(lease)
           \/ Rank(lease) < Rank(w)
  BY PermittedFollows
<1>5. ASSUME NEW d \in Client
      PROVE  Local(d)'
  <2>1. Local(d) /\ elector[d] \in Elector /\ elector'[d] \in Elector
    BY DEF IInv, TypeOK
  <2>2. ClockOf(d)' /\ WantOf(d)'
    BY <2>1 DEF Local, ClockOf, WantOf, Running, SameView
  <2>3. /\ Rank(lease) \in Int /\ Rank(elector[d].raw) \in Int
        /\ elector[d].raw # NoRecord => Rank(elector[d].raw) <= Rank(lease)
    BY RawRank
  <2>4. OrderOf(d)'
    <3>1. CASE lease = NoRecord \/ elector[d].raw = NoRecord
      BY <2>1, <3>1 DEF Local, OrderOf, SameView
    <3>2. CASE lease # NoRecord /\ Observed(w) = Observed(lease) /\ Rank(w) = Rank(lease)
      BY <1>1, <1>4, <2>1, <3>2 DEF Local, OrderOf, SameView
    <3>3. CASE lease # NoRecord /\ Rank(lease) < Rank(w) /\ elector[d].raw # NoRecord
      <4>1. Rank(elector[d].raw) < Rank(w)
        BY <1>4, <2>3, <3>3
      <4> QED
        BY <1>1, <1>4, <4>1 DEF OrderOf, SameView
    <3> QED
      BY <1>4, <3>1, <3>2, <3>3
  <2>5. PermitOf(d)' /\ CurrentOf(d)'
    BY <1>1 DEF PermitOf, CurrentOf
  <2>6. AnswerOf(d)'
    <3> SUFFICES ASSUME Running(d), elector'[d].step = "answer"
                 PROVE  StillStored(d)' \/ Superseded(d)'
      BY DEF AnswerOf, Running
    <3>1. CASE elector[d].step # "answer"
      BY <1>1, <3>1 DEF StillStored
    <3>2. CASE elector[d].step = "answer" /\ StillStored(d)
      <4>1. /\ now >= elector[d].wanted.renewTime + LeaseDuration
            /\ lease # NoRecord /\ Rank(lease) < Rank(w)
        BY <3>2, PermittedWaits
      <4>2. elector[d].raw = NoRecord \/ Rank(elector[d].raw) < Rank(w)
        BY <1>4, <2>3, <4>1
      <4> QED
        BY <1>1, <1>4, <3>2, <4>1, <4>2 DEF Superseded, SameView
    <3>3. CASE elector[d].step = "answer" /\ Superseded(d)
      <4>1. elector[d].raw = NoRecord \/ Rank(elector[d].raw) < Rank(w)
        BY <1>4, <2>3, <3>3 DEF Superseded
      <4> QED
        BY <1>1, <1>4, <3>3, <4>1 DEF Superseded, SameView
    <3> QED
      BY <2>1, <3>1, <3>2, <3>3 DEF Local, AnswerOf
  <2>7. LeadOf(d)'
    <3>1. LeadEnd(d)' = LeadEnd(d)
      BY DEF LeadEnd
    <3>2. elector'[d].step = "wait" <=> elector[d].step = "wait"
      OBVIOUS
    <3> QED
      BY <1>1, <1>4, <2>1, <3>1, <3>2 DEF Local, LeadOf, Renewing, SameView
  <2>8. HoldOf(d)'
    <3> SUFFICES ASSUME Leading(d)
                 PROVE  HoldOf(d)'
      BY DEF HoldOf, Leading
    <3>1. /\ elector[d].renewed <= now
          /\ elector'[d].step # "wait" => elector'[d].wanted.renewTime >= elector'[d].renewed
      BY <2>1 DEF Local, HoldOf, SameView
    <3>2. CASE elector[d].stage = "release" /\ elector[d].step = "answer"
      BY <3>1, <3>2 DEF HoldOf, SameView
    <3>3. CASE Overdue(d)
      BY <3>1, <3>3 DEF HoldOf, Overdue, SameView
    <3>4. CASE Holds(d) /\ ~Overdue(d)
      <4>1. CASE elector[d].stage = "release" /\ elector'[d].step = "answer"
        BY <3>1, <4>1 DEF HoldOf, SameView
      <4>2. CASE w.holder # None /\ (w.holder = d => w.renewTime >= elector[d].renewed)
        <5>1. Observed(w) = Observed(lease) /\ w.holder = d
          BY <3>4, <4>2, PermittedSpares
        <5>2. Holds(d)'
          BY <1>1, <3>4, <4>2, <5>1 DEF Holds, SameView
        <5> QED
          BY <3>1, <5>2 DEF HoldOf, SameView
      <4> QED
        BY <3>4, <4>1, <4>2
    <3> QED
      BY <2>1, <3>2, <3>3, <3>4 DEF Local, HoldOf
  <2> QED
    BY <2>2, <2>4, <2>5, <2>6, <2>7, <2>8 DEF Local
<1> QED
  BY <1>2, <1>3, <1>5 DEF IInv

\* The writes of tryAcquireOrRenew and of release keep the invariant.
LEMMA WriteKeeps ==
    ASSUME IInv, NEW c \in Client, Write(c) \/ Release(c)
    PROVE  IInv'
<1> DEFINE w == elector[c].wanted
<1>1. TypeOK /\ Local(c) /\ elector[c] \in Elector /\ w \in Rec
  BY DEF IInv, TypeOK, Elector
<1>2. /\ elector[c].step = "write" /\ c \in current /\ Store({c}, w)
      /\ UNCHANGED <<now, faults, calm>> /\ elector[c].stage # "down"
  BY DEF Write, Release, Running
<1>3. elector' = [elector EXCEPT ![c].step = "answer"]
  BY DEF Write, Release
<1>4. /\ OnlyElector(c) /\ SameView(elector[c], elector'[c])
      /\ elector'[c].stage = elector[c].stage /\ elector'[c].step = "answer"
      /\ elector'[c].timer = elector[c].timer
      /\ elector'[c].deadline = elector[c].deadline /\ elector'[c].wanted = w
  BY <1>1, <1>3, StepFields
<1>5. Permitted(w) /\ 0 <= w.renewTime /\ w.renewTime <= now
  BY <1>1, <1>2 DEF Local, PermitOf, ClockOf
<1>6. \/ w.holder = c
      \/ w.holder = None /\ lease.holder = c /\ elector[c].stage = "release"
  BY <1>1, <1>2 DEF Local, WantOf, PermitOf, Running, Elector
<1>7. ASSUME NEW d \in Client, Leading(d), Holds(d)
      PROVE  \/ elector[d].stage = "release" /\ elector'[d].step = "answer"
             \/ w.holder # None /\ (w.holder = d => w.renewTime >= elector[d].renewed)
  <2>1. CASE w.holder = c
    <3>1. c = d => w.renewTime >= elector[d].renewed
      BY <1>1, <1>2, <1>7 DEF Local, HoldOf
    <3> QED
      BY <2>1, <3>1, Constants
  <2>2. CASE w.holder = None /\ lease.holder = c /\ elector[c].stage = "release"
    BY <1>4, <1>7, <2>2 DEF Holds
  <2> QED
    BY <1>6, <2>1, <2>2
<1>8. ASSUME NEW d \in Client, Running(d), elector[d].step = "answer", StillStored(d)
      PROVE  w.holder \notin {d, None}
  <2>1. d # c /\ lease.holder = d
    BY <1>2, <1>8 DEF IInv, Local, StillStored, WantOf
  <2> QED
    BY <1>6, <2>1, Constants
<1>9. \A d \in Client :
        /\ SameView(elector[d], elector'[d])
        /\ elector'[d].stage = elector[d].stage /\ elector'[d].timer = elector[d].timer
        /\ elector'[d].deadline = elector[d].deadline
        /\ elector'[d].wanted = elector[d].wanted
        /\ \/ elector'[d].step = elector[d].step /\ d \notin {c}
           \/ /\ elector[d].step = "write" /\ elector'[d].step = "answer"
              /\ w = elector[d].wanted
  BY <1>2, <1>4 DEF OnlyElector, SameView
<1>10. elector' \in [Client -> Elector]
  BY <1>4 DEF OnlyElector
<1> HIDE DEF w
<1> QED
  BY <1>1, <1>2, <1>5, <1>7, <1>8, <1>9, <1>10, StoreKeeps

\* A write keeps the invariant even if its client has given up on it.
LEMMA LateWriteKeeps ==
    ASSUME IInv, LateWrite
    PROVE  IInv'
<1>1. PICK w \in late : Store({}, w)
  BY DEF LateWrite
<1>2. UNCHANGED <<now, elector, faults, calm>>
  BY DEF LateWrite
<1>3. w \in Rec /\ Permitted(w) /\ 0 <= w.renewTime /\ w.renewTime <= now
      /\ elector' \in [Client -> Elector]
  BY <1>1, <1>2 DEF IInv, TypeOK, Server
<1>4. \A d \in Client : Leading(d) /\ Holds(d) =>
        w.holder # None /\ (w.holder = d => w.renewTime >= elector[d].renewed)
  BY <1>1 DEF Holds
<1>5. \A d \in Client : Running(d) /\ elector[d].step = "answer" /\ StillStored(d)
                            => w.holder \notin {d, None}
  BY <1>1 DEF StillStored
<1> QED
  BY <1>1, <1>2, <1>3, <1>4, <1>5, StoreKeeps DEF SameView

\* The end of renew keeps the invariant: the lease is released only by its
\* holder.
LEMMA RenewEndsKeeps ==
    ASSUME IInv, NEW c \in Client, RenewEnds(c)
    PROVE  IInv'
<1>1. TypeOK /\ Local(c) /\ lease \in Rec /\ now \in Nat
  BY DEF IInv, TypeOK
<1>2. UNCHANGED <<now, lease, faults, calm>> /\ Renewing(c)
      /\ faults' \in Nat /\ calm' \in Int
  BY <1>1 DEF RenewEnds, TypeOK
<1>3. CASE Exit(c)
  BY <1>2, <1>3, ExitKeeps
<1>4. CASE c \in ReleaseOnCancel /\ IsLeader(c)
  <2> DEFINE e == elector[c]
             f == elector'[c]
  <2>1. /\ OnlyElector(c) /\ SameView(e, f)
        /\ f.stage = "release" /\ f.step = "write"
        /\ f.wanted.holder = None /\ f.wanted.renewTime = now
        /\ f.wanted.transitions = e.observed.transitions
    BY <1>1, <1>4, ReleaseFields DEF RenewEnds
  <2>2. /\ Abandon(c) /\ current' \subseteq current \cup {c}
        /\ c \in current' => c \in current /\ e.step # "answer"
    BY <1>4 DEF RenewEnds
  <2>3. c \in current' => lease.holder = c /\ f.wanted.transitions = lease.transitions
    BY <1>1, <1>2, <1>4, <2>1, <2>2 DEF Local, CurrentOf, Observed, IsLeader
  <2>4. PermitOf(c)'
    BY <1>2, <2>1, <2>3, Constants DEF PermitOf, Permitted
  <2>5. ClockOf(c)' /\ WantOf(c)' /\ OrderOf(c)' /\ AnswerOf(c)'
    BY <1>1, <1>2, <2>1 DEF Local, ClockOf, WantOf, OrderOf, AnswerOf, SameView, Running
  <2>6. CurrentOf(c)' /\ LeadOf(c)'
    BY <2>1 DEF CurrentOf, LeadOf, Renewing
  <2>7. HoldOf(c)'
    <3>1. now >= elector[c].renewed
      BY <1>1, <1>2 DEF Local, HoldOf, Renewing, Leading, TypeOK, Elector
    <3> QED
      BY <1>2, <2>1, <2>2, <3>1, HoldKept DEF SameView
  <2> QED
    BY <1>2, <2>1, <2>2, <2>4, <2>5, <2>6, <2>7, OneClient DEF Local
<1> QED
  BY <1>3, <1>4 DEF RenewEnds

\* Time does not pass a leader's timer or deadline, so not its LeadEnd either.
LEMMA TickKeeps ==
    ASSUME IInv, Tick
    PROVE  IInv'
<1>1. now' = now + 1 /\ now \in Nat /\ UNCHANGED <<lease, current, late, elector, calm>>
  BY DEF Tick, IInv, TypeOK
<1>2. faults' \in Nat
  BY DEF Tick, Fault, IInv, TypeOK
<1>3. TypeOK'
  BY <1>1, <1>2 DEF IInv, TypeOK
<1>4. \A w : Permitted(w) => Permitted(w)'
  BY <1>1 DEF Permitted
<1>5. Server'
  BY <1>1, <1>4 DEF IInv, Server, TypeOK, Rec
<1>6. ASSUME NEW c \in Client
      PROVE  Local(c)'
  <2>1. Local(c) /\ elector[c] \in Elector
    BY DEF IInv, TypeOK
  <2>2. elector[c].wanted \in Rec /\ elector[c].raw \in Rec
    BY <2>1 DEF Elector
  <2>3. ClockOf(c)' /\ WantOf(c)' /\ OrderOf(c)' /\ PermitOf(c)' /\ CurrentOf(c)'
    BY <1>1, <1>4, <2>1, <2>2
       DEF Local, ClockOf, WantOf, OrderOf, PermitOf, CurrentOf, Renewing, IsLeader, Running,
           Elector, Rec
  <2>4. AnswerOf(c)'
    <3>1. Superseded(c) => Superseded(c)'
      BY <1>1, <2>2, Constants DEF Superseded, Rec
    <3>2. StillStored(c) => StillStored(c)'
      BY <1>1 DEF StillStored
    <3> QED
      BY <1>1, <2>1, <3>1, <3>2 DEF Local, AnswerOf, Running
  <2>5. LeadOf(c)'
    <3> SUFFICES ASSUME Renewing(c)
                 PROVE  LeadOf(c)'
      BY <1>1 DEF LeadOf, Renewing
    <3>1. /\ elector[c].step = "wait" => now < elector[c].timer
          /\ elector[c].deadline # 0 => now < elector[c].deadline
      BY DEF Tick, Running, Renewing
    <3>2. LeadEnd(c)' = LeadEnd(c)
      BY <1>1 DEF LeadEnd
    <3>3. /\ now + 1 <= LeadEnd(c)
          /\ elector[c].step = "wait" => now + 1 <= elector[c].timer
          /\ elector[c].deadline <= now + 1 + RenewDeadline
      BY <1>1, <2>1, <3>1, Constants DEF Local, LeadOf, LeadEnd, Elector
    <3> QED
      BY <1>1, <2>1, <3>2, <3>3 DEF Local, LeadOf
  <2>6. HoldOf(c)'
    <3>1. Overdue(c) => Overdue(c)'
      BY <1>1, <2>1, Constants DEF Overdue, Elector
    <3>2. Holds(c) => Holds(c)'
      BY <1>1 DEF Holds
    <3>3. Leading(c) => elector[c].renewed <= now + 1
      BY <1>1, <2>1 DEF Local, HoldOf, Elector
    <3> QED
      BY <1>1, <2>1, <3>1, <3>2, <3>3 DEF Local, HoldOf, Leading
  <2> QED
    BY <2>3, <2>4, <2>5, <2>6 DEF Local
<1> QED
  BY <1>3, <1>5, <1>6 DEF IInv

\* Stabilize, and a step that changes nothing, keep the invariant.
LEMMA StabilizeKeeps ==
    ASSUME IInv, Stabilize \/ UNCHANGED vars
    PROVE  IInv'
<1>1. UNCHANGED <<now, lease, current, late, elector, faults>>
  BY DEF Stabilize, vars
<1>2. calm' \in Int
  BY DEF Stabilize, vars, IInv, TypeOK
<1>3. TypeOK'
  BY <1>1, <1>2 DEF IInv, TypeOK
<1>4. \A w : Permitted(w) => Permitted(w)'
  BY <1>1 DEF Permitted
<1>5. Server'
  BY <1>1, <1>4 DEF IInv, Server
<1>6. ASSUME NEW c \in Client
      PROVE  Local(c)'
  <2>1. Local(c)
    BY DEF IInv
  <2>2. ClockOf(c)' /\ WantOf(c)' /\ OrderOf(c)' /\ PermitOf(c)'
    BY <1>1, <1>4, <2>1 DEF Local, ClockOf, WantOf, OrderOf, PermitOf, Running
  <2>3. AnswerOf(c)' /\ CurrentOf(c)'
    BY <1>1, <2>1
       DEF Local, AnswerOf, StillStored, Superseded, CurrentOf, Renewing, IsLeader, Running
  <2>4. LeadOf(c)' /\ HoldOf(c)'
    BY <1>1, <2>1 DEF Local, LeadOf, LeadEnd, HoldOf, Holds, Overdue, Renewing, Leading
  <2> QED
    BY <2>2, <2>3, <2>4 DEF Local
<1> QED
  BY <1>3, <1>5, <1>6 DEF IInv
-----------------------------------------------------------------------------
\* Every step keeps the inductive invariant.
LEMMA Inductive ==
    ASSUME IInv, [Next]_vars
    PROVE  IInv'
<1>1. TypeOK /\ faults \in Nat /\ calm \in Int
  BY DEF IInv, TypeOK
<1>2. ASSUME NEW c \in Client, GetFails(c) \/ Conflict(c) \/ WriteFails(c)
      PROVE  IInv'
  <2>1. elector[c] \in Elector
    BY <1>1 DEF TypeOK
  <2>2. /\ TryFailed(c, elector[c]) /\ Running(c) /\ UNCHANGED <<now, lease>>
        /\ late' = late \/ Abandon(c)
        /\ current' \subseteq current \cup {c} /\ faults' \in Nat /\ calm' \in Int
        /\ current' \subseteq current /\ elector[c].step # "wait"
        /\ elector[c].step = "answer" => c \notin current'
    BY <1>1, <1>2 DEF GetFails, Conflict, WriteFails, Fault
  <2> QED
    BY <2>1, <2>2, TryFailedKeeps
<1>3. ASSUME NEW c \in Client, AcquireCancelled(c) \/ RunEnds(c) \/ Crash(c)
      PROVE  IInv'
  <2>1. Exit(c) /\ UNCHANGED <<now, lease>> /\ faults' \in Nat /\ calm' \in Int
    BY <1>1, <1>3 DEF AcquireCancelled, RunEnds, Crash, Fault
  <2> QED
    BY <2>1, ExitKeeps
<1>4. ASSUME NEW c \in Client, tryAcquireOrRenew(c)
      PROVE  IInv'
  BY <1>2, <1>4, TryKeeps, GetKeeps, WriteKeeps, AnswerKeeps DEF tryAcquireOrRenew
<1>5. ASSUME NEW c \in Client, Run(c)
      PROVE  IInv'
  BY <1>3, <1>5, StartKeeps, CancelKeeps, RenewEndsKeeps, WriteKeeps DEF Run
<1> QED
  BY <1>4, <1>5, LateWriteKeeps, TickKeeps, StabilizeKeeps DEF Next

\* The invariant holds before any client starts.
LEMMA Initial == Init => IInv
<1> SUFFICES ASSUME Init
             PROVE  IInv
  OBVIOUS
<1>1. TypeOK
  BY NoRecordType, DownType DEF Init, TypeOK
<1>2. Server
  BY NoRecordType DEF Init, Server
<1>3. ASSUME NEW c \in Client
      PROVE  Local(c)
  <2>1. elector[c] = Down /\ now = 0
    BY DEF Init
  <2> QED
    BY <2>1, DownType, NoRecordType
       DEF Local, ClockOf, WantOf, OrderOf, PermitOf, AnswerOf, CurrentOf, LeadOf, HoldOf,
           Renewing, Leading, Running
<1> QED
  BY <1>1, <1>2, <1>3 DEF IInv

\* The inductive invariant holds in every state.
THEOREM Invariance == Spec => []IInv
<1>1. IInv /\ [Next]_vars => IInv'
  BY Inductive
<1> QED
  BY <1>1, Initial, PTL DEF Spec

\* Two clients lead at once only if one of them has released the lease and does
\* not know it yet, or its lease has expired while it releases it or because its
\* last success took too long: for every number of clients, every accepted
\* configuration, and whatever requests are lost, slow or stored after their
\* client gave up.
THEOREM OneLeaderHolds == Spec => []OneLeader
<1>1. ASSUME IInv, NEW c \in Client, Leading(c)
      PROVE  \/ elector[c].stage = "release" /\ elector[c].step = "answer"
             \/ Overdue(c) /\ (elector[c].stage = "release" \/ LateSuccess(c))
             \/ lease.holder = c
  <2>1. LeadOf(c) /\ HoldOf(c) /\ elector[c] \in Elector /\ now \in Nat
    BY <1>1 DEF IInv, Local, TypeOK
  <2>2. ASSUME Overdue(c), Renewing(c)
        PROVE  LateSuccess(c)
    <3>1. LeadEnd(c) \in Int
      BY <2>1, Constants DEF LeadEnd, Elector
    <3> QED
      BY <2>1, <2>2, <3>1, Constants DEF LeadOf, Overdue, LateSuccess, Elector
  <2>3. Renewing(c) \/ elector[c].stage = "release"
    BY <1>1 DEF Leading, Renewing
  <2> QED
    BY <1>1, <2>1, <2>2, <2>3 DEF HoldOf, Holds
<1>2. IInv => OneLeader
  BY <1>1 DEF OneLeader
<1> QED
  BY <1>2, Invariance, PTL

\* The health check never finds the lease of a leader whose loop runs expired,
\* if LeaseDuration leaves a RetryPeriod beyond RenewDeadline.
THEOREM WatchdogStaysQuiet == Spec => []WatchdogQuiet
<1>1. ASSUME IInv, NEW c \in Client, Renewing(c), LeaseDuration >= RenewDeadline + RetryPeriod
      PROVE  now <= elector[c].observedTime + LeaseDuration
  <2>1. LeadOf(c) /\ elector[c] \in Elector /\ now \in Nat
    BY <1>1 DEF IInv, Local, TypeOK
  <2>2. LeadEnd(c) \in Int
    BY <2>1, Constants DEF LeadEnd, Elector
  <2> QED
    BY <1>1, <2>1, <2>2, Constants DEF LeadOf, Elector
<1>2. IInv => WatchdogQuiet
  BY <1>1 DEF WatchdogQuiet
<1> QED
  BY <1>2, Invariance, PTL

\* The record changes only by a permitted write.
LEMMA StoresPermitted ==
    ASSUME IInv, Next, lease' # lease
    PROVE  lease' \in Rec /\ Permitted(lease') /\ lease'.renewTime <= now
<1>1. ASSUME NEW c \in Client, tryAcquireOrRenew(c) \/ Run(c)
      PROVE  Write(c) \/ Release(c)
  BY <1>1 DEF tryAcquireOrRenew, Run, Try, GetFails, Get, Conflict, WriteFails, Answer, Start,
              Cancel, AcquireCancelled, RenewEnds, RunEnds, Crash
<1>2. ASSUME NEW c \in Client, Write(c) \/ Release(c)
      PROVE  lease' \in Rec /\ Permitted(lease') /\ lease'.renewTime <= now
  <2>1. Local(c) /\ elector[c] \in Elector
    BY DEF IInv, TypeOK
  <2>2. lease' = elector[c].wanted /\ elector[c].step = "write" /\ c \in current
    BY <1>2 DEF Write, Release, Store
  <2> QED
    BY <2>1, <2>2 DEF Local, PermitOf, ClockOf, Elector
<1>3. ASSUME LateWrite
      PROVE  lease' \in Rec /\ Permitted(lease') /\ lease'.renewTime <= now
  BY <1>3 DEF LateWrite, Store, IInv, Server, TypeOK
<1> QED
  BY <1>1, <1>2, <1>3 DEF Next, Tick, Stabilize

\* No client ever takes the lease from another before LeaseDuration has passed
\* since the record's RenewTime, unless it was released.
THEOREM LeaseExpiresFirst == Spec => TakesOverExpired
<1>1. ASSUME IInv, Next, lease'.holder \notin {lease.holder, None}, lease.holder # None
      PROVE  now >= lease.renewTime + LeaseDuration
  <2>1. lease' \in Rec /\ Permitted(lease') /\ lease'.renewTime <= now
    BY <1>1, StoresPermitted
  <2>2. lease \in Rec /\ now \in Nat
    BY <1>1 DEF IInv, TypeOK
  <2>3. lease # NoRecord
    BY <1>1, NoRecordType
  <2> QED
    BY <1>1, <2>1, <2>2, <2>3, Constants DEF Permitted, Observed, Rec
<1>2. IInv /\ [Next]_vars =>
        [lease'.holder \notin {lease.holder, None} /\ lease.holder # None
            => now >= lease.renewTime + LeaseDuration]_vars
  BY <1>1
<1> QED
  BY <1>2, Invariance, PTL DEF Spec, TakesOverExpired
-----------------------------------------------------------------------------
(***************************************************************************)
(* The takeover.  Once communication is reliable a try takes no time, so   *)
(* that nobody can come between the steps of a leader that is neither      *)
(* cancelled nor late: it leads for good (Settled).  Until there is one,   *)
(* the lease does not change except by a release, and Unsettled bounds how *)
(* long that lasts: when the old leaders end, by when the others have seen *)
(* the last record, and when they try again.                               *)
(***************************************************************************)
\* A timer is due after now, by no more than the period it was set for.
TimerOf(c) ==
    Running(c) /\ elector[c].step = "wait" =>
        /\ now <= elector[c].timer
        /\ elector[c].timer <= now + (IF Renewing(c) THEN RetryPeriod ELSE MaxJittered)

\* A try is over in the second in which it began, and before its deadline.
PromptOf(c) ==
    Running(c) /\ elector[c].step # "wait" =>
        /\ ~elector[c].cancelled
        /\ elector[c].wanted.renewTime = now
        /\ now <= elector[c].timer
        /\ Renewing(c) => now < elector[c].deadline

\* The holder's next renewal comes before its lease expires, or it is the first
\* since communication is reliable.
InTime(c) ==
    \/ elector[c].timer < lease.renewTime + LeaseDuration
    \/ elector[c].timer <= calm + RetryPeriod

\* A client that leads from now on unless its lease has expired meanwhile: its
\* write has been stored, it waits for its next renewal, or its renewal cannot
\* fail.
Settled(c) ==
    /\ Running(c) /\ ~elector[c].cancelled /\ lease.holder = c
    /\ \/ elector[c].step = "answer" /\ (Renewing(c) \/ now <= calm + TakeoverTime)
       \/ /\ Renewing(c) /\ InTime(c)
          /\ \/ elector[c].step = "wait" /\ elector[c].deadline = 0
             \/ elector[c].step = "get"
             \/ elector[c].step = "write" /\ c \in current

\* By when the leaders of the unreliable time have ended that do not lead on.
LastRelease == calm + RenewDeadline + RetryPeriod

\* Without a settled client: a leader is about to end, or to renew the lease if
\* it still has it.
EndingOf(c) ==
    /\ Renewing(c) =>
          /\ elector[c].step # "answer"
          /\ elector[c].deadline # 0 => elector[c].deadline <= LastRelease
          /\ elector[c].deadline = 0 => elector[c].timer <= calm + RetryPeriod
          /\ lease.holder = c =>
                elector[c].step = "wait" /\ elector[c].timer <= calm + RetryPeriod
    /\ elector[c].stage = "release" => now <= LastRelease

\* Without a settled client: one that acquires tries in time, and has seen the
\* record it waits for early enough.  Only a release can beat it to its write.
WaitingOf(c) ==
    elector[c].stage = "acquire" =>
        /\ elector[c].step # "answer"
        /\ now <= elector[c].timer /\ elector[c].timer <= calm + TakeoverTime
        /\ \/ lease.holder = None
           \/ elector[c].timer <= calm + MaxJittered
           \/ elector[c].raw = lease /\ elector[c].observedTime <= calm + MaxJittered
        /\ elector[c].step = "write" /\ c \notin current =>
              lease.holder = None /\ now <= LastRelease

\* Nobody leads for good yet.
Unsettled == \A c \in Client : EndingOf(c) /\ WaitingOf(c)

\* What holds once communication is reliable.
CalmInv ==
    calm # -1 =>
        /\ late = {}
        /\ \A c \in Client : PromptOf(c)
        /\ Unsettled \/ \E c \in Client : Settled(c)

\* The inductive invariant of the takeover, with IInv.
TakeoverInv == IInv /\ (\A c \in Client : TimerOf(c)) /\ CalmInv
-----------------------------------------------------------------------------
\* A jittered period is no shorter than the period.
LEMMA JitterIsLonger == MaxJittered \in Int /\ MaxJittered >= RetryPeriod
BY Constants DEF MaxJittered

\* A holder that renews the lease a RetryPeriod later is in time.
LEMMA RetryIsShort == RetryPeriod < LeaseDuration
BY ConfigAssumption

\* Only client c acts, and its timer is set for no longer than its period.
LEMMA TimerKept ==
    ASSUME \A d \in Client : TimerOf(d), NEW c \in Client, OnlyElector(c), UNCHANGED now,
           TimerOf(c)'
    PROVE  \A d \in Client : TimerOf(d)'
<1>1. ASSUME NEW d \in Client, d # c PROVE TimerOf(d)'
  <2>1. elector'[d] = elector[d] BY <1>1 DEF OnlyElector
  <2> QED BY <2>1 DEF TimerOf, Running, Renewing
<1> QED BY <1>1

\* Every step keeps the timers in their bounds.
LEMMA TimersKept ==
    ASSUME IInv, \A c \in Client : TimerOf(c), Next
    PROVE  \A c \in Client : TimerOf(c)'
<1>1. TypeOK /\ now \in Nat BY DEF IInv, TypeOK
<1>2. ASSUME NEW c \in Client, NEW e \in Elector, TryFailed(c, e), e.stage = elector[c].stage,
             UNCHANGED now
      PROVE  \A d \in Client : TimerOf(d)'
  <2>1. /\ OnlyElector(c) /\ elector'[c].timer \in NextTry(c)
        /\ elector'[c].stage = elector[c].stage
    BY <1>1, <1>2, TryFailedFields
  <2>2. TimerOf(c)'
    BY <1>1, <1>2, <2>1, Constants DEF NextTry, TimerOf, Renewing
  <2> QED BY <1>2, <2>1, <2>2, TimerKept
<1>3. ASSUME NEW c \in Client, OnlyElector(c), UNCHANGED now,
             ~Running(c)' \/ elector'[c].step # "wait"
      PROVE  \A d \in Client : TimerOf(d)'
  <2>1. TimerOf(c)' BY <1>3 DEF TimerOf
  <2> QED BY <1>3, <2>1, TimerKept
<1>4. ASSUME NEW c \in Client, Try(c) PROVE \A d \in Client : TimerOf(d)'
  BY <1>1, <1>3, <1>4, TryFields DEF Try
<1>5. ASSUME NEW c \in Client, GetFails(c) \/ Conflict(c) \/ WriteFails(c)
      PROVE  \A d \in Client : TimerOf(d)'
  <2>1. elector[c] \in Elector /\ TryFailed(c, elector[c]) /\ UNCHANGED now
    BY <1>1, <1>5 DEF TypeOK, GetFails, Conflict, WriteFails
  <2> QED BY <2>1, <1>2
<1>6. ASSUME NEW c \in Client, Get(c) PROVE \A d \in Client : TimerOf(d)'
  <2>1. elector[c] \in Elector /\ UNCHANGED now BY <1>1, <1>6 DEF TypeOK, Get
  <2>2. CASE lease = NoRecord
    <3>1. elector' = [elector EXCEPT ![c].step = "write"] BY <1>6, <2>2 DEF Get
    <3>2. OnlyElector(c) /\ elector'[c].step = "write" BY <1>1, <3>1, StepFields
    <3> QED BY <1>3, <2>1, <3>2
  <2>3. CASE lease # NoRecord /\ Held(c, Observe(elector[c]))
    <3>1. TryFailed(c, Observe(elector[c])) BY <1>6, <2>3 DEF Get
    <3>2. Observe(elector[c]) \in Elector /\ Observe(elector[c]).stage = elector[c].stage
      BY <1>1, <2>1, ObserveType
    <3> QED BY <1>2, <2>1, <3>1, <3>2
  <2>4. CASE lease # NoRecord /\ ~Held(c, Observe(elector[c]))
    <3>1. OnlyElector(c) /\ elector'[c].step = "write" BY <1>1, <1>6, <2>4, GoesFields
    <3> QED BY <1>3, <2>1, <3>1
  <2> QED BY <2>2, <2>3, <2>4
<1>7. ASSUME NEW c \in Client, Write(c) \/ Release(c) PROVE \A d \in Client : TimerOf(d)'
  <2>1. elector' = [elector EXCEPT ![c].step = "answer"] /\ UNCHANGED now
    BY <1>7 DEF Write, Release
  <2>2. OnlyElector(c) /\ elector'[c].step = "answer" BY <1>1, <2>1, StepFields
  <2> QED BY <1>3, <2>1, <2>2
<1>8. ASSUME NEW c \in Client, Answer(c) PROVE \A d \in Client : TimerOf(d)'
  <2>1. /\ OnlyElector(c) /\ elector'[c].timer \in now .. now + RetryPeriod
        /\ elector'[c].stage = "renew"
    BY <1>1, <1>8, AnswerFields
  <2>2. UNCHANGED now BY <1>8 DEF Answer
  <2>3. TimerOf(c)' BY <1>1, <2>1, <2>2, Constants DEF TimerOf, Renewing
  <2> QED BY <2>1, <2>2, <2>3, TimerKept
<1>9. ASSUME NEW c \in Client, Start(c) PROVE \A d \in Client : TimerOf(d)'
  <2>1. OnlyElector(c) /\ elector'[c].timer = now /\ elector'[c].stage = "acquire"
    BY <1>1, <1>9, StartFields
  <2>2. UNCHANGED now BY <1>9 DEF Start
  <2>3. TimerOf(c)' BY <1>1, <2>1, <2>2, Constants, JitterIsLonger DEF TimerOf, Renewing
  <2> QED BY <2>1, <2>2, <2>3, TimerKept
<1>10. ASSUME NEW c \in Client, Cancel(c) PROVE \A d \in Client : TimerOf(d)'
  <2>1. /\ OnlyElector(c) /\ elector'[c].timer = elector[c].timer
        /\ elector'[c].stage = elector[c].stage /\ elector'[c].step = elector[c].step
    BY <1>1, <1>10, CancelFields
  <2>2. UNCHANGED now BY <1>10 DEF Cancel
  <2>3. TimerOf(c)' BY <2>1, <2>2 DEF TimerOf, Renewing, Running
  <2> QED BY <2>1, <2>2, <2>3, TimerKept
<1>11. ASSUME NEW c \in Client, Exit(c), UNCHANGED now PROVE \A d \in Client : TimerOf(d)'
  <2>1. OnlyElector(c) /\ elector'[c].stage = "down" BY <1>1, <1>11, ExitFields, DownType
  <2> QED BY <1>3, <1>11, <2>1 DEF Running
<1>12. ASSUME NEW c \in Client, AcquireCancelled(c) \/ RunEnds(c) \/ Crash(c)
       PROVE  \A d \in Client : TimerOf(d)'
  BY <1>11, <1>12 DEF AcquireCancelled, RunEnds, Crash
<1>13. ASSUME NEW c \in Client, RenewEnds(c) PROVE \A d \in Client : TimerOf(d)'
  <2>1. UNCHANGED now BY <1>13 DEF RenewEnds
  <2>2. CASE c \in ReleaseOnCancel /\ IsLeader(c)
    <3>1. OnlyElector(c) /\ elector'[c].step = "write"
      BY <1>1, <1>13, <2>2, ReleaseFields DEF RenewEnds
    <3> QED BY <1>3, <2>1, <3>1
  <2>3. CASE ~(c \in ReleaseOnCancel /\ IsLeader(c))
    BY <1>11, <1>13, <2>1, <2>3 DEF RenewEnds
  <2> QED BY <2>2, <2>3
<1>14. ASSUME Tick, NEW c \in Client PROVE TimerOf(c)'
  <2>1. /\ now' = now + 1 /\ elector' = elector /\ elector[c] \in Elector /\ TimerOf(c)
        /\ Running(c) /\ elector[c].step = "wait" => now < elector[c].timer
    BY <1>1, <1>14 DEF Tick, TypeOK
  <2> QED BY <1>1, <2>1, Constants, JitterIsLonger DEF TimerOf, Running, Renewing, Elector
<1>15. ASSUME LateWrite \/ Stabilize, NEW c \in Client PROVE TimerOf(c)'
  BY <1>15 DEF LateWrite, Stabilize, TimerOf, Running, Renewing
<1>16. ASSUME NEW c \in Client, tryAcquireOrRenew(c) PROVE \A d \in Client : TimerOf(d)'
  BY <1>4, <1>5, <1>6, <1>7, <1>8, <1>16 DEF tryAcquireOrRenew
<1>17. ASSUME NEW c \in Client, Run(c) PROVE \A d \in Client : TimerOf(d)'
  BY <1>7, <1>9, <1>10, <1>12, <1>13, <1>17 DEF Run
<1> QED BY <1>14, <1>15, <1>16, <1>17 DEF Next
-----------------------------------------------------------------------------
\* What is known of another client than the one that acts, while nothing is
\* stored.
LEMMA BystanderKept ==
    ASSUME NEW d \in Client, elector'[d] = elector[d], UNCHANGED <<now, lease, calm>>,
           d \in current => d \in current'
    PROVE  /\ PromptOf(d) => PromptOf(d)'
           /\ Settled(d) => Settled(d)'
           /\ EndingOf(d) => EndingOf(d)'
           /\ WaitingOf(d) => WaitingOf(d)'
BY DEF PromptOf, Settled, InTime, EndingOf, WaitingOf, Running, Renewing, LastRelease

\* A step of client c that stores nothing keeps CalmInv if it leaves c settled,
\* or no worse than it was.
LEMMA CalmKept ==
    ASSUME CalmInv, calm # -1, NEW c \in Client, OnlyElector(c), UNCHANGED <<now, lease, calm>>,
           late' = late \/ Abandon(c), current \ {c} \subseteq current', PromptOf(c)',
           Settled(c) => Settled(c)',
           Unsettled => Settled(c)' \/ (EndingOf(c)' /\ WaitingOf(c)')
    PROVE  CalmInv'
<1>1. late' = {} BY DEF CalmInv, Abandon
<1>2. ASSUME NEW d \in Client, d # c
      PROVE  /\ PromptOf(d) => PromptOf(d)'
             /\ Settled(d) => Settled(d)'
             /\ EndingOf(d) => EndingOf(d)'
             /\ WaitingOf(d) => WaitingOf(d)'
  <2>1. elector'[d] = elector[d] /\ (d \in current => d \in current')
    BY <1>2 DEF OnlyElector
  <2> QED BY <2>1, BystanderKept
<1>3. \A d \in Client : PromptOf(d)' BY <1>2 DEF CalmInv
<1>4. CASE Unsettled /\ ~Settled(c)'
  <2>1. Unsettled' BY <1>2, <1>4 DEF Unsettled
  <2> QED BY <1>1, <1>3, <2>1 DEF CalmInv
<1>5. CASE \E d \in Client : Settled(d)
  <2>1. \E d \in Client : Settled(d)' BY <1>2, <1>5
  <2> QED BY <1>1, <1>3, <2>1 DEF CalmInv
<1>6. CASE Settled(c)'
  BY <1>1, <1>3, <1>6 DEF CalmInv
<1> QED BY <1>4, <1>5, <1>6 DEF CalmInv

\* A try begins: that of a leader which still has the lease cannot fail any more.
LEMMA TryCalm ==
    ASSUME TakeoverInv, calm # -1, NEW c \in Client, Try(c)
    PROVE  CalmInv'
<1>1. /\ TypeOK /\ CalmInv /\ TimerOf(c) /\ now \in Nat /\ calm \in Int
      /\ elector[c] \in Elector
  BY DEF TakeoverInv, IInv, TypeOK
<1>2. /\ Running(c) /\ ~elector[c].cancelled /\ elector[c].step = "wait"
      /\ elector[c].deadline = 0 \/ now < elector[c].deadline
      /\ UNCHANGED <<now, lease, current, late, calm>>
  BY DEF Try
<1> DEFINE e == elector[c]
           f == elector'[c]
<1>3. /\ OnlyElector(c) /\ SameView(e, f)
      /\ f.stage = e.stage /\ f.step = "get" /\ f.timer = e.timer
      /\ f.wanted.holder = c /\ f.wanted.renewTime = now /\ f.cancelled = e.cancelled
      /\ f.deadline = IF Renewing(c) /\ e.deadline = 0 THEN now + RenewDeadline ELSE e.deadline
  BY <1>1, TryFields
<1>4. ~f.cancelled /\ (Running(c)' <=> Running(c)) /\ (Renewing(c)' <=> Renewing(c))
  BY <1>2, <1>3 DEF Running, Renewing
<1>5. now <= e.timer /\ (Renewing(c) => now < f.deadline)
  BY <1>1, <1>2, <1>3, Constants DEF Elector, TimerOf
<1>6. PromptOf(c)' BY <1>2, <1>3, <1>4, <1>5 DEF PromptOf
<1>7. Settled(c) => Settled(c)' BY <1>2, <1>3, <1>4 DEF Settled, InTime
<1>8. Unsettled /\ Renewing(c) /\ lease.holder = c => Settled(c)'
  BY <1>2, <1>3, <1>4 DEF Unsettled, EndingOf, Settled, InTime
<1>9. ASSUME Unsettled, ~(Renewing(c) /\ lease.holder = c) PROVE EndingOf(c)' /\ WaitingOf(c)'
  <2>1. EndingOf(c) /\ WaitingOf(c) BY <1>9 DEF Unsettled
  <2>2. Renewing(c) => f.deadline # 0 /\ f.deadline <= LastRelease
    BY <1>1, <1>2, <1>3, <1>5, <2>1, Constants DEF EndingOf, LastRelease, Elector
  <2>3. UNCHANGED LastRelease BY <1>2 DEF LastRelease
  <2>4. EndingOf(c)' BY <1>2, <1>3, <1>4, <1>9, <2>1, <2>2, <2>3 DEF EndingOf, Running
  <2>5. WaitingOf(c)' BY <1>2, <1>3, <2>1 DEF WaitingOf, SameView
  <2> QED BY <2>4, <2>5
<1> QED BY <1>1, <1>2, <1>3, <1>6, <1>7, <1>8, <1>9, CalmKept

\* A conflict happens only to a client that does not have the lease: one that
\* acquires, when the lease was released, or one that is about to end.
LEMMA ConflictCalm ==
    ASSUME TakeoverInv, calm # -1, NEW c \in Client, Conflict(c)
    PROVE  CalmInv'
<1>1. /\ TypeOK /\ CalmInv /\ LeadOf(c) /\ now \in Nat /\ calm \in Int
      /\ elector[c] \in Elector
  BY DEF TakeoverInv, IInv, TypeOK, Local
<1>2. /\ Running(c) /\ elector[c].step = "write" /\ c \notin current
      /\ TryFailed(c, elector[c]) /\ UNCHANGED <<now, lease, current, late, calm>>
  BY DEF Conflict
<1>3. /\ OnlyElector(c) /\ elector'[c].stage = elector[c].stage /\ elector'[c].step = "wait"
      /\ elector'[c].timer \in NextTry(c) /\ elector'[c].deadline = elector[c].deadline
  BY <1>1, <1>2, TryFailedFields
<1>4. PromptOf(c)' BY <1>3 DEF PromptOf
<1>5. ~Settled(c) BY <1>2 DEF Settled
<1>6. ASSUME Unsettled, Renewing(c) PROVE EndingOf(c)' /\ WaitingOf(c)'
  <2>1. EndingOf(c) /\ UNCHANGED LastRelease BY <1>2, <1>6 DEF Unsettled, LastRelease
  <2>2. EndingOf(c)'
    BY <1>1, <1>2, <1>3, <1>6, <2>1 DEF EndingOf, LeadOf, Renewing
  <2> QED BY <1>3, <1>6, <2>2 DEF WaitingOf, Renewing
<1>7. ASSUME Unsettled, ~Renewing(c) PROVE EndingOf(c)' /\ WaitingOf(c)'
  <2>1. ~Renewing(c) /\ elector[c].stage = "acquire"
    BY <1>2, <1>7 DEF Running, Renewing
  <2>2. lease.holder = None /\ now <= LastRelease
    BY <1>2, <1>7, <2>1 DEF Unsettled, WaitingOf
  <2>3. elector'[c].timer \in now + RetryPeriod .. now + MaxJittered
    BY <1>3, <2>1 DEF NextTry
  <2>4. now <= elector'[c].timer /\ elector'[c].timer <= calm + TakeoverTime
    BY <1>1, <2>2, <2>3, Constants, JitterIsLonger DEF LastRelease, TakeoverTime
  <2>5. UNCHANGED <<calm, LeaseDuration, MaxJittered, TakeoverTime>> BY <1>2 DEF TakeoverTime
  <2> QED BY <1>2, <1>3, <2>1, <2>2, <2>4, <2>5 DEF EndingOf, WaitingOf, Renewing
<1> QED BY <1>1, <1>2, <1>3, <1>4, <1>5, <1>6, <1>7, CalmKept

\* A try that is answered at once has left its client's record in the lease.
LEMMA PromptAnswer ==
    ASSUME TakeoverInv, calm # -1, NEW c \in Client, Running(c), elector[c].step = "answer"
    PROVE  lease.holder = c /\ lease.renewTime = now
<1>1. PromptOf(c) /\ AnswerOf(c) /\ WantOf(c) /\ now \in Nat
  BY DEF TakeoverInv, IInv, CalmInv, Local, TypeOK
<1>2. elector[c].wanted.renewTime = now /\ elector[c].wanted.holder = c
  BY <1>1 DEF PromptOf, WantOf
<1>3. ~Superseded(c)
  BY <1>1, <1>2, Constants DEF Superseded
<1> QED BY <1>1, <1>2, <1>3 DEF AnswerOf, StillStored

\* A try succeeds: the client leads from now on.
LEMMA AnswerCalm ==
    ASSUME TakeoverInv, calm # -1, NEW c \in Client, Answer(c)
    PROVE  CalmInv'
<1>1. TypeOK /\ CalmInv /\ PromptOf(c) /\ now \in Nat
  BY DEF TakeoverInv, IInv, CalmInv, TypeOK
<1>2. /\ Running(c) /\ elector[c].step = "answer"
      /\ UNCHANGED <<now, lease, current, late, calm>>
  BY DEF Answer
<1>3. /\ OnlyElector(c) /\ elector'[c].stage = "renew" /\ elector'[c].step = "wait"
      /\ elector'[c].deadline = 0 /\ elector'[c].cancelled = elector[c].cancelled
      /\ elector'[c].timer \in now .. now + RetryPeriod
  BY <1>1, AnswerFields
<1>4. ~elector'[c].cancelled BY <1>1, <1>2, <1>3 DEF PromptOf
<1>5. Settled(c)'
  <2>1. lease.holder = c /\ lease.renewTime = now BY <1>2, PromptAnswer
  <2>2. elector'[c].timer < now + LeaseDuration BY <1>1, <1>3, RetryIsShort, Constants
  <2>3. InTime(c)' BY <1>2, <2>1, <2>2 DEF InTime
  <2> QED BY <1>2, <1>3, <1>4, <2>1, <2>3 DEF Settled, Running, Renewing
<1>6. PromptOf(c)' BY <1>3 DEF PromptOf
<1> QED BY <1>1, <1>2, <1>3, <1>5, <1>6, CalmKept

\* Whoever ends had not settled.
LEMMA ExitCalm ==
    ASSUME TakeoverInv, calm # -1, NEW c \in Client, Exit(c), UNCHANGED <<now, lease, calm>>,
           ~Settled(c)
    PROVE  CalmInv'
<1>1. TypeOK /\ CalmInv BY DEF TakeoverInv, IInv
<1>2. OnlyElector(c) /\ elector'[c].stage = "down" BY <1>1, ExitFields, DownType
<1>3. Abandon(c) /\ current' = current \ {c} BY DEF Exit
<1>4. PromptOf(c)' /\ EndingOf(c)' /\ WaitingOf(c)'
  BY <1>2 DEF PromptOf, EndingOf, WaitingOf, Running, Renewing
<1> QED BY <1>1, <1>2, <1>3, <1>4, CalmKept

\* Only a leader that had not settled ends, and soon.
LEMMA RenewEndsCalm ==
    ASSUME TakeoverInv, calm # -1, NEW c \in Client, RenewEnds(c)
    PROVE  CalmInv'
<1>1. /\ TypeOK /\ CalmInv /\ PromptOf(c) /\ TimerOf(c) /\ LeadOf(c)
      /\ now \in Nat /\ calm \in Int /\ elector[c] \in Elector
  BY DEF TakeoverInv, IInv, CalmInv, Local, TypeOK
<1>2. /\ Renewing(c) /\ Running(c) /\ UNCHANGED <<now, lease, calm>>
      /\ elector[c].cancelled \/ (elector[c].deadline # 0 /\ now >= elector[c].deadline)
  BY DEF RenewEnds, Renewing, Running
<1>3. ~Settled(c)
  <2>1. CASE elector[c].cancelled BY <2>1 DEF Settled
  <2>2. CASE elector[c].deadline # 0 /\ now >= elector[c].deadline
    <3>1. elector[c].step = "wait" BY <1>1, <1>2, <2>2 DEF PromptOf, Elector
    <3> QED BY <2>2, <3>1 DEF Settled
  <2> QED BY <1>2, <2>1, <2>2
<1>4. CASE ~(c \in ReleaseOnCancel /\ IsLeader(c))
  BY <1>2, <1>3, <1>4, ExitCalm DEF RenewEnds
<1>5. CASE c \in ReleaseOnCancel /\ IsLeader(c)
  <2>1. Abandon(c) /\ current \ {c} \subseteq current'
    BY <1>5 DEF RenewEnds
  <2>2. OnlyElector(c) /\ elector'[c].stage = "release" /\ elector'[c].step = "write"
    BY <1>1, <1>5, ReleaseFields DEF RenewEnds
  <2>3. PromptOf(c)' /\ WaitingOf(c)'
    BY <2>2 DEF PromptOf, WaitingOf, Running
  <2>4. ASSUME Unsettled PROVE EndingOf(c)'
    <3>1. EndingOf(c) BY <2>4 DEF Unsettled
    <3>2. now <= LastRelease
      BY <1>1, <1>2, <3>1, Constants DEF EndingOf, LeadOf, LeadEnd, LastRelease, Elector
    <3> QED BY <1>2, <2>2, <3>2 DEF EndingOf, Renewing, LastRelease
  <2> QED BY <1>1, <1>2, <1>3, <2>1, <2>2, <2>3, <2>4, CalmKept
<1> QED BY <1>4, <1>5

\* A read: a leader that still has the lease sees itself as the holder and goes
\* on to write; another client goes on too, or has seen the record early enough
\* and tries in time.
LEMMA GetCalm ==
    ASSUME TakeoverInv, calm # -1, NEW c \in Client, Get(c)
    PROVE  CalmInv'
<1> DEFINE e == elector[c]
           o == Observe(elector[c])
           f == elector'[c]
<1>1. /\ IInv /\ TypeOK /\ CalmInv /\ PromptOf(c) /\ LeadOf(c) /\ ClockOf(c)
      /\ now \in Nat /\ calm \in Int /\ e \in Elector /\ lease \in Rec
  BY DEF TakeoverInv, IInv, CalmInv, Local, TypeOK
<1>2. /\ Running(c) /\ e.step = "get" /\ current' = current \cup {c}
      /\ UNCHANGED <<now, lease, late, calm>>
  BY DEF Get
<1>3. /\ o \in Elector /\ o.stage = e.stage /\ o.timer = e.timer /\ o.deadline = e.deadline
      /\ o.wanted = e.wanted /\ o.cancelled = e.cancelled /\ o.raw = lease
      /\ o = e \/ (o.observed = Observed(lease) /\ o.observedTime = now)
  BY <1>1, ObserveType
<1>4. e.raw = lease => o = e
  BY DEF Observe
<1>5. /\ ~e.cancelled /\ e.wanted.renewTime = now /\ now <= e.timer
      /\ Renewing(c) => now < e.deadline
  BY <1>1, <1>2 DEF PromptOf
<1> HIDE DEF o
<1>6. ASSUME OnlyElector(c), f.stage = e.stage, f.step = "write", f.timer = e.timer,
             f.deadline = e.deadline, f.cancelled = e.cancelled,
             f.wanted.renewTime = now, SameView(o, f) \/ lease = NoRecord
      PROVE  CalmInv'
  <2>1. /\ ~f.cancelled /\ (Running(c)' <=> Running(c)) /\ (Renewing(c)' <=> Renewing(c))
        /\ c \in current'
    BY <1>2, <1>5, <1>6 DEF Running, Renewing
  <2>2. PromptOf(c)' BY <1>2, <1>5, <1>6, <2>1 DEF PromptOf
  <2>3. Settled(c) => Settled(c)' BY <1>2, <1>6, <2>1 DEF Settled, InTime
  <2>4. ASSUME Unsettled, Renewing(c) PROVE EndingOf(c)' /\ WaitingOf(c)'
    <3>1. EndingOf(c) /\ UNCHANGED LastRelease BY <1>2, <2>4 DEF Unsettled, LastRelease
    <3>2. EndingOf(c)' BY <1>1, <1>2, <1>6, <2>4, <3>1 DEF EndingOf, LeadOf, Renewing
    <3> QED BY <1>6, <2>4, <3>2 DEF WaitingOf, Renewing
  <2>5. ASSUME Unsettled, ~Renewing(c) PROVE EndingOf(c)' /\ WaitingOf(c)'
    <3>1. ~Renewing(c) /\ e.stage = "acquire" /\ WaitingOf(c)
      BY <1>2, <2>5 DEF Unsettled, EndingOf, Running, Renewing
    <3>2. lease.holder = None \/ f.timer <= calm + MaxJittered
             \/ (f.raw = lease /\ f.observedTime <= calm + MaxJittered)
      BY <1>4, <1>6, <3>1, NoRecordType DEF WaitingOf, SameView
    <3>3. now <= f.timer /\ f.timer <= calm + TakeoverTime BY <1>6, <3>1 DEF WaitingOf
    <3>4. UNCHANGED TakeoverTime /\ UNCHANGED MaxJittered BY DEF TakeoverTime, MaxJittered
    <3> QED BY <1>2, <1>6, <2>1, <3>1, <3>2, <3>3, <3>4 DEF EndingOf, WaitingOf, Renewing
  <2> QED BY <1>1, <1>2, <1>6, <2>2, <2>3, <2>4, <2>5, CalmKept
<1>7. CASE lease = NoRecord
  <2>1. elector' = [elector EXCEPT ![c].step = "write"] BY <1>7 DEF Get
  <2>2. /\ OnlyElector(c) /\ f.stage = e.stage /\ f.step = "write" /\ f.timer = e.timer
        /\ f.cancelled = e.cancelled /\ f.deadline = e.deadline /\ f.wanted = e.wanted
    BY <1>1, <2>1, StepFields
  <2> QED BY <1>5, <1>6, <1>7, <2>2
<1>8. CASE lease # NoRecord /\ ~Held(c, o)
  <2>1. /\ OnlyElector(c) /\ SameView(o, f)
        /\ f.stage = o.stage /\ f.step = "write" /\ f.timer = o.timer
        /\ f.deadline = o.deadline /\ f.cancelled = o.cancelled
        /\ f.wanted.renewTime = o.wanted.renewTime
    BY <1>1, <1>8, GoesFields DEF o
  <2> QED BY <1>3, <1>5, <1>6, <2>1
<1>9. CASE lease # NoRecord /\ Held(c, o)
  <2>1. TryFailed(c, o) BY <1>9 DEF Get, o
  <2>2. /\ OnlyElector(c) /\ SameView(o, f) /\ f.stage = o.stage /\ f.step = "wait"
        /\ f.timer \in NextTry(c) /\ f.deadline = o.deadline
    BY <1>1, <1>3, <2>1, TryFailedFields
  <2>3. /\ lease.holder # None /\ o.observedTime + LeaseDuration > now
        /\ o.observed.holder # c
    BY <1>3, <1>5, <1>9 DEF Held
  <2>4. lease.holder # c
    <3>1. o.observed = Observed(lease) BY <1>1, <1>9, ObserveSees DEF o
    <3> QED BY <2>3, <3>1 DEF Observed
  <2>5. PromptOf(c)' BY <2>2 DEF PromptOf
  <2>6. ~Settled(c) BY <2>4 DEF Settled
  <2>7. ASSUME Unsettled, Renewing(c) PROVE EndingOf(c)' /\ WaitingOf(c)'
    <3>1. EndingOf(c) /\ UNCHANGED LastRelease BY <1>2, <2>7 DEF Unsettled, LastRelease
    <3>2. EndingOf(c)' BY <1>1, <1>2, <1>3, <2>2, <2>4, <2>7, <3>1 DEF EndingOf, LeadOf, Renewing
    <3> QED BY <1>3, <2>2, <2>7, <3>2 DEF WaitingOf, Renewing
  <2>8. ASSUME Unsettled, ~Renewing(c) PROVE EndingOf(c)' /\ WaitingOf(c)'
    <3>1. e.stage = "acquire" /\ f.stage = "acquire" BY <1>2, <1>3, <2>2, <2>8 DEF Running, Renewing
    <3>2. WaitingOf(c) BY <2>8 DEF Unsettled
    <3>3. f.timer \in now + RetryPeriod .. now + MaxJittered BY <2>2, <2>8 DEF NextTry
    <3>4. o.observedTime <= calm + MaxJittered
      <4>1. CASE e.timer <= calm + MaxJittered
        <5>1. now <= calm + MaxJittered
          BY <1>1, <3>1, <3>2, <4>1, JitterIsLonger DEF WaitingOf, Elector
        <5>2. o.observedTime <= now /\ o.observedTime \in Int
          BY <1>1, <1>3 DEF ClockOf, Elector
        <5> QED BY <1>1, <5>1, <5>2, JitterIsLonger
      <4>2. CASE e.raw = lease /\ e.observedTime <= calm + MaxJittered BY <1>4, <4>2
      <4> QED BY <2>3, <3>1, <3>2, <4>1, <4>2 DEF WaitingOf
    <3>5. now <= f.timer /\ f.timer <= calm + TakeoverTime
      <4>1. o.observedTime \in Int BY <1>3 DEF Elector
      <4> QED BY <1>1, <2>3, <3>3, <3>4, <4>1, Constants, JitterIsLonger DEF TakeoverTime
    <3>6. f.raw = lease /\ f.observedTime <= calm + MaxJittered BY <1>3, <2>2, <3>4 DEF SameView
    <3>7. UNCHANGED TakeoverTime /\ UNCHANGED MaxJittered BY DEF TakeoverTime, MaxJittered
    <3> QED BY <1>2, <2>2, <3>1, <3>5, <3>6, <3>7 DEF EndingOf, WaitingOf, Renewing
  <2> QED BY <1>1, <1>2, <2>2, <2>5, <2>6, <2>7, <2>8, CalmKept
<1> QED BY <1>7, <1>8, <1>9

\* A write of tryAcquireOrRenew is stored: its client has settled.  It is in
\* time, as only a leader whose last success was slow can have settled before.
LEMMA WriteCalm ==
    ASSUME TakeoverInv, calm # -1, NEW c \in Client, Write(c)
    PROVE  CalmInv'
<1> DEFINE e == elector[c]
           f == elector'[c]
<1>1. /\ TypeOK /\ IInv /\ CalmInv /\ PromptOf(c) /\ Local(c)
      /\ now \in Nat /\ calm \in Int /\ e \in Elector
  BY DEF TakeoverInv, IInv, CalmInv, TypeOK
<1>2. /\ Running(c) /\ e.step = "write" /\ c \in current /\ late' = {}
      /\ elector' = [elector EXCEPT ![c].step = "answer"] /\ UNCHANGED <<now, calm>>
  BY DEF Write, Store
<1>3. /\ OnlyElector(c) /\ f.stage = e.stage /\ f.step = "answer"
      /\ f.cancelled = e.cancelled /\ f.deadline = e.deadline /\ f.wanted = e.wanted
  BY <1>1, <1>2, StepFields
<1>4. ~f.cancelled /\ (Running(c)' <=> Running(c)) /\ (Renewing(c)' <=> Renewing(c))
  BY <1>1, <1>2, <1>3 DEF PromptOf, Running, Renewing
<1>5. e.wanted \in Rec /\ Permitted(e.wanted) /\ e.wanted.renewTime <= now /\ e.wanted.holder = c
  BY <1>1, <1>2 DEF Local, PermitOf, ClockOf, WantOf, Elector
<1>6. Renewing(c) \/ now <= calm + TakeoverTime
  <2>1. CASE Unsettled
    <3>1. e.stage = "acquire" \/ Renewing(c) BY <1>2 DEF Running, Renewing
    <3>2. WaitingOf(c) BY <2>1 DEF Unsettled
    <3> QED BY <1>1, <3>1, <3>2, Constants, JitterIsLonger DEF WaitingOf, Elector, TakeoverTime
  <2>2. CASE \E d \in Client : Settled(d)
    <3>1. PICK d \in Client : Settled(d) BY <2>2
    <3>2. CASE d = c BY <1>2, <3>1, <3>2 DEF Settled
    <3>3. CASE d # c
      <4>1. lease.holder = d /\ lease \in Rec /\ elector[d] \in Elector BY <1>1, <3>1 DEF Settled, TypeOK
      <4>2. lease # NoRecord BY <4>1, NoRecordType, Constants
      <4>3. lease.renewTime + LeaseDuration <= now /\ lease.renewTime \in Int
        BY <1>1, <1>5, <3>3, <4>1, <4>2, Constants DEF Permitted, Observed, Rec
      <4>4. elector[d].step # "answer"
        BY <1>1, <3>1, <4>3, PromptAnswer, Constants DEF Settled
      <4>5. InTime(d) /\ now <= elector[d].timer /\ elector[d].timer \in Int
        BY <1>1, <3>1, <4>1, <4>4 DEF Settled, TakeoverInv, CalmInv, TimerOf, PromptOf, Elector
      <4> QED BY <1>1, <4>3, <4>5, Constants, JitterIsLonger DEF InTime, TakeoverTime
    <3> QED BY <3>2, <3>3
  <2> QED BY <1>1, <2>1, <2>2 DEF CalmInv
<1>7. UNCHANGED TakeoverTime BY DEF TakeoverTime
<1>8. Settled(c)'
  <2>1. lease'.holder = c BY <1>5 DEF Write, Store
  <2> QED BY <1>2, <1>3, <1>4, <1>6, <1>7, <2>1 DEF Settled
<1>9. ASSUME NEW d \in Client PROVE PromptOf(d)'
  <2>1. PromptOf(d) BY <1>1 DEF CalmInv
  <2>2. CASE d = c BY <1>2, <1>3, <1>4, <2>1, <2>2 DEF PromptOf
  <2>3. CASE d # c
    <3>1. elector'[d] = elector[d] BY <1>3, <2>3 DEF OnlyElector
    <3> QED BY <1>2, <2>1, <3>1 DEF PromptOf, Running, Renewing
  <2> QED BY <2>2, <2>3
<1> QED BY <1>2, <1>8, <1>9 DEF CalmInv

\* A release is stored: nobody else has the lease, so nobody has settled, and
\* whoever acquires finds no holder.
LEMMA ReleaseCalm ==
    ASSUME TakeoverInv, calm # -1, NEW c \in Client, Release(c)
    PROVE  CalmInv'
<1> DEFINE e == elector[c]
           f == elector'[c]
<1>1. /\ TypeOK /\ CalmInv /\ Local(c)
  BY DEF TakeoverInv, IInv, CalmInv, Local
<1>2. /\ e.stage = "release" /\ e.step = "write" /\ c \in current
      /\ lease' = e.wanted /\ current' = {c} /\ late' = {}
      /\ elector' = [elector EXCEPT ![c].step = "answer"] /\ UNCHANGED <<now, calm>>
  BY DEF Release, Store
<1>3. OnlyElector(c) /\ f.stage = "release" /\ f.step = "answer"
  BY <1>1, <1>2, StepFields
<1>4. lease'.holder = None /\ lease.holder = c
  BY <1>1, <1>2 DEF Local, WantOf, PermitOf
<1>5. \A d \in Client : ~Settled(d)
  BY <1>2, <1>4 DEF Settled, Running
<1>6. \A d \in Client : d # c => elector'[d] = elector[d] BY <1>3 DEF OnlyElector
<1>7. ASSUME NEW d \in Client PROVE PromptOf(d)'
  <2>1. PromptOf(d) BY <1>1 DEF CalmInv
  <2>2. CASE d = c BY <1>3, <2>2 DEF PromptOf, Running
  <2>3. CASE d # c BY <1>2, <1>6, <2>1, <2>3 DEF PromptOf, Running, Renewing
  <2> QED BY <2>2, <2>3
<1>8. UNCHANGED TakeoverTime /\ UNCHANGED MaxJittered /\ UNCHANGED LastRelease
  BY <1>2 DEF TakeoverTime, MaxJittered, LastRelease
<1>9. Unsettled BY <1>1, <1>5 DEF CalmInv
<1>10. Unsettled'
  <2>1. now <= LastRelease BY <1>2, <1>9 DEF Unsettled, EndingOf
  <2>2. EndingOf(c)' /\ WaitingOf(c)' BY <1>2, <1>3, <1>8, <2>1 DEF EndingOf, WaitingOf, Renewing
  <2>3. ASSUME NEW d \in Client, d # c PROVE EndingOf(d)' /\ WaitingOf(d)'
    <3>1. elector'[d] = elector[d] /\ EndingOf(d) /\ WaitingOf(d)
      BY <1>6, <1>9, <2>3 DEF Unsettled
    <3>2. EndingOf(d)' BY <1>2, <1>4, <1>8, <3>1, Constants DEF EndingOf, Renewing
    <3>3. WaitingOf(d)' BY <1>2, <1>4, <1>8, <2>1, <3>1 DEF WaitingOf
    <3> QED BY <3>2, <3>3
  <2> QED BY <2>2, <2>3 DEF Unsettled
<1> QED BY <1>1, <1>2, <1>7, <1>10 DEF CalmInv

\* Time passes only when everybody waits.
LEMMA TickCalm ==
    ASSUME TakeoverInv, calm # -1, Tick
    PROVE  CalmInv'
<1>1. /\ CalmInv /\ now \in Nat /\ calm \in Int /\ elector \in [Client -> Elector]
      /\ \A c \in Client : WantOf(c)
  BY DEF TakeoverInv, IInv, Local, TypeOK
<1>2. /\ now' = now + 1 /\ UNCHANGED <<lease, current, late, elector, calm>>
      /\ \A c \in Client : elector[c].step = "wait"
  BY DEF Tick, Fault
<1>3. \A c \in Client : PromptOf(c)' BY <1>2 DEF PromptOf
<1>4. ASSUME NEW c \in Client, Settled(c) PROVE Settled(c)'
  BY <1>2, <1>4 DEF Settled, InTime, Running, Renewing
<1>5. ASSUME Unsettled, NEW c \in Client PROVE EndingOf(c)' /\ WaitingOf(c)'
  <2>1. EndingOf(c) /\ WaitingOf(c) /\ elector[c] \in Elector BY <1>1, <1>5 DEF Unsettled
  <2>2. elector[c].stage # "release" BY <1>1, <1>2 DEF WantOf
  <2>3. elector[c].stage = "acquire" => now + 1 <= elector[c].timer
    BY <1>1, <1>2, <2>1 DEF Tick, Running, Elector
  <2>4. UNCHANGED TakeoverTime /\ UNCHANGED MaxJittered BY DEF TakeoverTime, MaxJittered
  <2>5. EndingOf(c)' BY <1>2, <2>1, <2>2 DEF EndingOf, Renewing, LastRelease
  <2>6. WaitingOf(c)' BY <1>2, <2>1, <2>3, <2>4 DEF WaitingOf
  <2> QED BY <2>5, <2>6
<1>6. Unsettled => Unsettled' BY <1>5 DEF Unsettled
<1> QED BY <1>1, <1>2, <1>3, <1>4, <1>6 DEF CalmInv

\* When communication becomes reliable everybody waits: a leader between two
\* renewals has settled, and otherwise the waiting is bounded.
LEMMA StabilizeCalm ==
    ASSUME TakeoverInv, Stabilize
    PROVE  CalmInv'
<1>1. /\ now \in Nat /\ elector \in [Client -> Elector]
      /\ \A c \in Client : TimerOf(c) /\ WantOf(c) /\ LeadOf(c)
  BY DEF TakeoverInv, IInv, Local, TypeOK
<1>2. /\ late' = {} /\ calm' = now /\ UNCHANGED <<now, lease, current, elector>>
      /\ \A c \in Client : elector[c].step = "wait"
  BY DEF Stabilize
<1>3. \A c \in Client : PromptOf(c)' BY <1>2 DEF PromptOf
<1>4. ASSUME NEW c \in Client PROVE EndingOf(c)' /\ WaitingOf(c)'
  <2>1. /\ elector[c] \in Elector /\ TimerOf(c) /\ WantOf(c) /\ LeadOf(c)
        /\ elector[c].step = "wait" /\ elector'[c] = elector[c]
    BY <1>1, <1>2
  <2>2. elector[c].stage # "release" BY <2>1 DEF WantOf
  <2>3. Renewing(c) => elector[c].deadline <= now + RenewDeadline BY <2>1 DEF LeadOf
  <2>4. Renewing(c) => elector[c].timer <= now + RetryPeriod
    BY <2>1 DEF TimerOf, Running, Renewing
  <2>5. elector[c].stage = "acquire" =>
           now <= elector[c].timer /\ elector[c].timer <= now + MaxJittered
    BY <2>1 DEF TimerOf, Running, Renewing
  <2>6. now + MaxJittered <= now + TakeoverTime
    BY <1>1, Constants, JitterIsLonger DEF TakeoverTime
  <2>7. elector[c].stage = "acquire" => elector[c].timer <= now + TakeoverTime
    BY <1>1, <2>1, <2>5, <2>6, Constants, JitterIsLonger DEF Elector, TakeoverTime
  <2>8. UNCHANGED TakeoverTime /\ UNCHANGED MaxJittered BY DEF TakeoverTime, MaxJittered
  <2>9. Renewing(c) => elector[c].deadline <= now + RenewDeadline + RetryPeriod
    BY <1>1, <2>1, <2>3, Constants DEF Elector
  <2>10. EndingOf(c)' BY <1>2, <2>1, <2>2, <2>4, <2>9 DEF EndingOf, Renewing, LastRelease
  <2>11. WaitingOf(c)' BY <1>2, <2>1, <2>5, <2>7, <2>8 DEF WaitingOf
  <2> QED BY <2>10, <2>11
<1>5. Unsettled' BY <1>4 DEF Unsettled
<1> QED BY <1>2, <1>3, <1>5 DEF CalmInv

\* Every step keeps the invariant of the takeover.
LEMMA TakeoverInductive ==
    ASSUME TakeoverInv, [Next]_vars
    PROVE  TakeoverInv'
<1>1. IInv' BY Inductive DEF TakeoverInv
<1>2. \A c \in Client : TimerOf(c)'
  <2>1. CASE Next BY <2>1, TimersKept DEF TakeoverInv
  <2>2. CASE UNCHANGED vars BY <2>2 DEF TakeoverInv, vars, TimerOf, Running, Renewing
  <2> QED BY <2>1, <2>2
<1>3. CalmInv'
  <2>1. CASE UNCHANGED vars
    <3>1. UNCHANGED <<now, lease, current, late, elector, calm>> BY <2>1 DEF vars
    <3>2. UNCHANGED TakeoverTime /\ UNCHANGED MaxJittered /\ UNCHANGED LastRelease
      BY <3>1 DEF TakeoverTime, MaxJittered, LastRelease
    <3> QED BY <3>1, <3>2 DEF TakeoverInv, CalmInv, PromptOf, Unsettled, Settled, InTime,
                              EndingOf, WaitingOf, Running, Renewing
  <2>2. CASE Next /\ calm = -1 /\ ~Stabilize
    <3>1. calm' = calm
      BY <2>2 DEF Next, tryAcquireOrRenew, Run, Try, GetFails, Get, Write, Conflict, WriteFails,
           Answer, Start, Cancel, AcquireCancelled, RenewEnds, Release, RunEnds, Crash,
           LateWrite, Tick
    <3> QED BY <2>2, <3>1 DEF CalmInv
  <2>3. CASE Next /\ calm # -1
    <3>1. ~Fault /\ ~LateWrite /\ ~Stabilize
      BY <2>3 DEF Fault, LateWrite, Stabilize, TakeoverInv, CalmInv
    <3>2. ASSUME NEW c \in Client, tryAcquireOrRenew(c) PROVE CalmInv'
      BY <2>3, <3>1, <3>2, TryCalm, GetCalm, WriteCalm, ConflictCalm, AnswerCalm
         DEF tryAcquireOrRenew, GetFails, WriteFails
    <3>3. ASSUME NEW c \in Client, AcquireCancelled(c) \/ RunEnds(c) PROVE CalmInv'
      <4>1. ~Settled(c) /\ Exit(c) /\ UNCHANGED <<now, lease, calm>>
        BY <3>3 DEF AcquireCancelled, RunEnds, Settled, Running
      <4> QED BY <2>3, <4>1, ExitCalm
    <3>4. ASSUME NEW c \in Client, Run(c) PROVE CalmInv'
      BY <2>3, <3>1, <3>3, <3>4, RenewEndsCalm, ReleaseCalm DEF Run, Start, Cancel, Crash
    <3> QED BY <2>3, <3>1, <3>2, <3>4, TickCalm DEF Next
  <2> QED BY <2>1, <2>2, <2>3, StabilizeCalm
<1> QED BY <1>1, <1>2, <1>3 DEF TakeoverInv

\* Once communication is reliable there is a leader within TakeoverTime if any
\* client runs, for every number of clients and every accepted configuration:
\* a crashed or cut-off holder, a write applied too late or a lost answer
\* blocks the lease no longer than that.
THEOREM TakenOverInTime == Spec => []TakeoverInTime
<1>1. Init => TakeoverInv
  <2> SUFFICES ASSUME Init PROVE TakeoverInv
    OBVIOUS
  <2>1. \A c \in Client : TimerOf(c) BY DownType DEF Init, TimerOf, Running
  <2>2. CalmInv BY DEF Init, CalmInv
  <2> QED BY <2>1, <2>2, Initial DEF TakeoverInv
<1>2. TakeoverInv /\ [Next]_vars => TakeoverInv'
  BY TakeoverInductive
<1>3. ASSUME TakeoverInv, calm # -1, NEW c \in Client, Running(c), \A d \in Client : ~Renewing(d)
      PROVE  now <= calm + TakeoverTime
  <2>1. CalmInv /\ now \in Nat /\ calm \in Int /\ elector[c] \in Elector
    BY <1>3 DEF TakeoverInv, IInv, TypeOK
  <2>2. CASE Unsettled
    <3>1. elector[c].stage = "acquire" /\ WaitingOf(c)
      BY <1>3, <2>2 DEF Unsettled, Running, Renewing
    <3> QED BY <2>1, <3>1, Constants, JitterIsLonger DEF WaitingOf, Elector, TakeoverTime
  <2>3. CASE \E d \in Client : Settled(d)
    BY <1>3, <2>3 DEF Settled
  <2> QED BY <1>3, <2>1, <2>2, <2>3 DEF CalmInv
<1>4. TakeoverInv => TakeoverInTime
  <2> SUFFICES ASSUME TakeoverInv, calm # -1, now > calm + TakeoverTime,
                      NEW c \in Client, Running(c), \A d \in Client : ~Renewing(d)
               PROVE  FALSE
    BY DEF TakeoverInTime
  <2>1. now <= calm + TakeoverTime BY <1>3
  <2>2. now \in Nat /\ calm \in Int BY DEF TakeoverInv, IInv, TypeOK
  <2> QED BY <2>1, <2>2, Constants, JitterIsLonger DEF TakeoverTime
<1> QED
  BY <1>1, <1>2, <1>4, PTL DEF Spec
=============================================================================
