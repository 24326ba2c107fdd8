--------------------------- MODULE InformerProofs ---------------------------
(***************************************************************************)
(* The DeltaFIFO, the indexer and the listeners of an informer agree, for  *)
(* any number of keys and handlers and however lists, watches, resyncs,    *)
(* new handlers and the process loop interleave.                           *)
(*                                                                         *)
(* The four invariants hold because of one another.  HandlersAgree needs   *)
(* that every delta a handler is told of fits the object before it         *)
(* (DeltaInv); that a delta fits is a matter of what is known, queued and  *)
(* already deleted when it joins (MayJoin), which for a list relies on the *)
(* order of versions (VersionInv); and HasSynced counts keys, not pops of  *)
(* the first list, only because those keys stay the head of a queue        *)
(* without duplicates (BatchInv, QueueInv).                                *)
(*                                                                         *)
(* Told, the effect of a sequence of notifications, is a recursive         *)
(* function: Steps characterises it by its values, and what is shown of    *)
(* the queue of a listener is shown by induction along such a run.         *)
(***************************************************************************)
EXTENDS Informer, SequenceLemmas

\* f runs through what a handler knows after each of the notifications ns.
Steps(f, v, ns) ==
    /\ f[0] = v
    /\ \A i \in 1..Len(ns) : f[i] = Apply(f[i - 1], ns[i])

\* The recursive function of Told on the first n notifications.
Recursion(f, v, ns, n) ==
    f = [i \in 0..n |-> IF i = 0 THEN v ELSE Apply(f[i - 1], ns[i])]

\* The recursion of Told defines a function, for every number of notifications.
LEMMA RecursionExists ==
    ASSUME NEW v, NEW ns, NEW n \in Nat
    PROVE  \E f : Recursion(f, v, ns, n)
<1> DEFINE G == {k \in 0..n : \E f : Recursion(f, v, ns, k)}
<1>1. 0 \in G
  <2> DEFINE g == [i \in 0..0 |-> v]
  <2>1. Recursion(g, v, ns, 0) BY DEF Recursion
  <2> QED BY <2>1
<1>2. ASSUME NEW k \in 1..n, k - 1 \in G PROVE k \in G
  <2>1. PICK f : Recursion(f, v, ns, k - 1) BY <1>2
  <2>2. \A j \in 0..k-1 : f[j] = IF j = 0 THEN v ELSE Apply(f[j - 1], ns[j])
    BY <2>1 DEF Recursion
  <2> DEFINE g == [i \in 0..k |-> IF i = k THEN Apply(f[k - 1], ns[k]) ELSE f[i]]
             h == [i \in 0..k |-> IF i = 0 THEN v ELSE Apply(g[i - 1], ns[i])]
  <2>3. ASSUME NEW i \in 0..k PROVE g[i] = h[i]
    <3>1. CASE i = k
      <4>1. i - 1 \in 0..k /\ i - 1 # k /\ i # 0 BY <3>1
      <4>2. g[i - 1] = f[k - 1] BY <3>1, <4>1
      <4> QED BY <4>1, <4>2, <3>1
    <3>2. CASE i # k /\ i = 0
      <4>1. 0 \in 0..k-1 OBVIOUS
      <4> QED BY <3>2, <2>2, <4>1
    <3>3. CASE i # k /\ i # 0
      <4>1. i \in 0..k-1 /\ i - 1 \in 0..k /\ i - 1 # k BY <3>3
      <4>2. g[i - 1] = f[i - 1] BY <4>1
      <4> QED BY <4>1, <4>2, <2>2, <3>3
    <3> QED BY <3>1, <3>2, <3>3
  <2>4. g = h BY <2>3
  <2>5. Recursion(g, v, ns, k) BY <2>4 DEF Recursion
  <2> QED BY <2>5
<1>3. \A i \in 0..n : i \in G
  <2> HIDE DEF G
  <2> QED BY <1>1, <1>2, SegmentInduction
<1> QED BY <1>3

\* Told is where such a run ends.
LEMMA ToldRuns ==
    ASSUME NEW v, NEW X, NEW ns \in Seq(X)
    PROVE  \E f : Steps(f, v, ns) /\ Told(v, ns) = f[Len(ns)]
<1> DEFINE f == CHOOSE f : Recursion(f, v, ns, Len(ns))
<1>0. Len(ns) \in Nat BY LenProperties
<1>1. Recursion(f, v, ns, Len(ns)) BY <1>0, RecursionExists
<1>2. Told(v, ns) = f[Len(ns)] BY DEF Told, Recursion
<1> HIDE DEF f
<1>3. \A i \in 0..Len(ns) : f[i] = IF i = 0 THEN v ELSE Apply(f[i - 1], ns[i])
  BY <1>1 DEF Recursion
<1>4. 0 \in 0..Len(ns) /\ \A i \in 1..Len(ns) : i \in 0..Len(ns) /\ i # 0 BY <1>0
<1>5. Steps(f, v, ns) BY <1>3, <1>4 DEF Steps
<1> QED BY <1>2, <1>5

\* Every run ends there.
LEMMA ToldIs ==
    ASSUME NEW v, NEW X, NEW ns \in Seq(X), NEW g, Steps(g, v, ns)
    PROVE  Told(v, ns) = g[Len(ns)]
<1>0. Len(ns) \in Nat BY LenProperties
<1>1. PICK f : Steps(f, v, ns) /\ Told(v, ns) = f[Len(ns)] BY ToldRuns
<1> DEFINE G == {i \in 0..Len(ns) : f[i] = g[i]}
<1>2. 0 \in G BY <1>0, <1>1 DEF Steps
<1>3. ASSUME NEW i \in 1..Len(ns), i - 1 \in G PROVE i \in G
  <2>1. i \in 0..Len(ns) BY <1>0
  <2>2. f[i - 1] = g[i - 1] BY <1>3
  <2> QED BY <2>1, <2>2, <1>1 DEF Steps
<1>4. \A i \in 0..Len(ns) : i \in G
  <2> HIDE DEF G
  <2> QED BY <1>0, <1>2, <1>3, SegmentInduction
<1>5. Len(ns) \in 0..Len(ns) BY <1>0
<1> QED BY <1>1, <1>4, <1>5

\* A handler that is told nothing knows what it knew.
LEMMA ToldNothing ==
    ASSUME NEW v PROVE Told(v, <<>>) = v
<1> DEFINE g == [i \in {0} |-> v]
<1>1. <<>> \in Seq({}) /\ Len(<<>>) = 0 OBVIOUS
<1>2. Steps(g, v, <<>>) BY DEF Steps
<1> HIDE DEF g
<1>3. Told(v, <<>>) = g[Len(<<>>)] BY <1>1, <1>2, ToldIs
<1> QED BY <1>1, <1>2, <1>3 DEF Steps

\* One more notification is applied to what was known before it.
LEMMA ToldAppend ==
    ASSUME NEW v, NEW X, NEW ns \in Seq(X), NEW x \in X
    PROVE  Told(v, Append(ns, x)) = Apply(Told(v, ns), x)
<1>0. Len(ns) \in Nat BY LenProperties
<1>1. PICK f : Steps(f, v, ns) /\ Told(v, ns) = f[Len(ns)] BY ToldRuns
<1> DEFINE t == Append(ns, x)
           g == [i \in 0..Len(ns) + 1 |-> IF i <= Len(ns) THEN f[i] ELSE Apply(f[Len(ns)], x)]
<1>2. t \in Seq(X) /\ Len(t) = Len(ns) + 1 /\ t[Len(ns) + 1] = x /\ \A i \in 1..Len(ns) : t[i] = ns[i]
  OBVIOUS
<1> HIDE DEF t
<1>3. g[0] = v BY <1>0, <1>1 DEF Steps
<1>4. ASSUME NEW i \in 1..Len(t) PROVE g[i] = Apply(g[i - 1], t[i])
  <2>1. i \in 0..Len(ns) + 1 /\ i - 1 \in 0..Len(ns) + 1 /\ i - 1 <= Len(ns) BY <1>0, <1>2
  <2>2. g[i - 1] = f[i - 1] BY <2>1
  <2>3. CASE i <= Len(ns)
    <3>1. i \in 1..Len(ns) /\ g[i] = f[i] BY <2>1, <2>3, <1>0
    <3> QED BY <3>1, <2>2, <1>1, <1>2 DEF Steps
  <2>4. CASE ~(i <= Len(ns))
    <3>1. i = Len(ns) + 1 /\ i - 1 = Len(ns) BY <2>1, <2>4, <1>0, <1>2
    <3> QED BY <3>1, <2>1, <2>2, <2>4, <1>2
  <2> QED BY <2>3, <2>4
<1>5. Steps(g, v, t) BY <1>3, <1>4 DEF Steps
<1>6. Told(v, t) = g[Len(t)]
  <2> HIDE DEF g
  <2> QED BY <1>2, <1>5, ToldIs
<1>7. g[Len(t)] = Apply(f[Len(ns)], x) BY <1>0, <1>2
<1> QED BY <1>1, <1>6, <1>7 DEF t

\* Being told s and then t is being told both: what HandleDeltas adds to a
\* listener's queue comes after all that is there.
LEMMA ToldConcat ==
    ASSUME NEW v, NEW X, NEW s \in Seq(X), NEW t \in Seq(X)
    PROVE  Told(v, s \o t) = Told(Told(v, s), t)
<1> DEFINE l == s \o t
<1>0. Len(s) \in Nat /\ Len(t) \in Nat BY LenProperties
<1>1. PICK f : Steps(f, v, s) /\ Told(v, s) = f[Len(s)] BY ToldRuns
<1>2. PICK e : Steps(e, Told(v, s), t) /\ Told(Told(v, s), t) = e[Len(t)] BY ToldRuns
<1>3. /\ l \in Seq(X) /\ Len(l) = Len(s) + Len(t)
      /\ \A i \in 1..Len(s) + Len(t) : l[i] = IF i <= Len(s) THEN s[i] ELSE t[i - Len(s)]
  BY ConcatProperties
<1> HIDE DEF l
<1> DEFINE g == [i \in 0..Len(s) + Len(t) |-> IF i <= Len(s) THEN f[i] ELSE e[i - Len(s)]]
<1>4. g[0] = v BY <1>0, <1>1 DEF Steps
<1>5. ASSUME NEW i \in 1..Len(l) PROVE g[i] = Apply(g[i - 1], l[i])
  <2>1. i \in 1..Len(s) + Len(t) /\ i \in 0..Len(s) + Len(t) /\ i - 1 \in 0..Len(s) + Len(t) BY <1>0, <1>3
  <2>2. CASE i <= Len(s)
    <3>1. i \in 1..Len(s) /\ i - 1 <= Len(s) BY <2>1, <2>2, <1>0
    <3>2. g[i] = f[i] /\ g[i - 1] = f[i - 1] BY <3>1, <2>1, <2>2
    <3> QED BY <3>1, <3>2, <2>1, <2>2, <1>1, <1>3 DEF Steps
  <2>3. CASE ~(i <= Len(s))
    <3>1. i - Len(s) \in 1..Len(t) BY <2>1, <2>3, <1>0
    <3>2. l[i] = t[i - Len(s)] /\ g[i] = e[i - Len(s)] BY <2>1, <2>3, <1>3
    <3>3. g[i - 1] = e[i - Len(s) - 1]
      <4>1. CASE i - 1 <= Len(s)
        <5>1. i - 1 = Len(s) /\ i - Len(s) - 1 = 0 BY <4>1, <2>1, <2>3, <1>0
        <5> QED BY <5>1, <4>1, <2>1, <1>1, <1>2 DEF Steps
      <4>2. CASE ~(i - 1 <= Len(s))
        <5>1. (i - 1) - Len(s) = i - Len(s) - 1 BY <2>1, <1>0
        <5> QED BY <5>1, <4>2, <2>1
      <4> QED BY <4>1, <4>2
    <3> QED BY <3>1, <3>2, <3>3, <1>2 DEF Steps
  <2> QED BY <2>2, <2>3
<1>6. Steps(g, v, l) BY <1>4, <1>5 DEF Steps
<1>7. Told(v, l) = g[Len(l)]
  <2> HIDE DEF g
  <2> QED BY <1>3, <1>6, ToldIs
<1>8. g[Len(l)] = e[Len(t)]
  <2>1. CASE Len(t) = 0
    <3>1. Len(l) = Len(s) /\ Len(s) \in 0..Len(s) + Len(t) BY <2>1, <1>0, <1>3
    <3> QED BY <2>1, <3>1, <1>1, <1>2, <1>0 DEF Steps
  <2>2. CASE Len(t) # 0
    <3>1. Len(l) \in 0..Len(s) + Len(t) /\ ~(Len(l) <= Len(s)) /\ Len(l) - Len(s) = Len(t)
      BY <2>2, <1>0, <1>3
    <3> QED BY <3>1
  <2> QED BY <2>1, <2>2
<1> QED BY <1>2, <1>7, <1>8 DEF l
\* The oldest notification comes first.
LEMMA ToldHead ==
    ASSUME NEW v, NEW X, NEW s \in Seq(X), s # <<>>
    PROVE  Told(v, s) = Told(Apply(v, Head(s)), Tail(s))
<1> DEFINE x == Head(s)
           one == <<x>>
           rest == Tail(s)
<1>1. x \in X /\ rest \in Seq(X) /\ one \in Seq(X) OBVIOUS
<1>2. s = one \o rest BY HeadTailProperties
<1>3. Told(v, one) = Apply(v, x)
  <2> DEFINE none == <<>>
  <2>1. none \in Seq(X) /\ one = Append(none, x) OBVIOUS
  <2>2. Told(v, none) = v BY ToldNothing
  <2> HIDE DEF none, one, x
  <2> QED BY <1>1, <2>1, <2>2, ToldAppend
<1> HIDE DEF one, rest, x
<1>4. Told(v, one \o rest) = Told(Told(v, one), rest) BY <1>1, ToldConcat
<1> QED BY <1>2, <1>3, <1>4 DEF x, rest

\* The notifications a listener may hold.
Notes == [kind : {"add", "update", "delete"}, key : Key, obj : Nat, sync : BOOLEAN]

\* A notification concerns its own key only, and leaves there what it says, or
\* -1 if it does not fit.
LEMMA ApplyType ==
    ASSUME NEW v \in [Key -> Int], NEW n \in Notes
    PROVE  /\ Apply(v, n) \in [Key -> Int]
           /\ n.key \in Key
           /\ \A k \in Key \ {n.key} : Apply(v, n)[k] = v[k]
           /\ Apply(v, n)[n.key] = IF v[n.key] # -1 /\ ((n.kind = "add") <=> (v[n.key] = 0))
                                   THEN IF n.kind = "delete" THEN 0 ELSE n.obj
                                   ELSE -1
<1>1. n.key \in Key /\ n.obj \in Int BY DEF Notes
<1> DEFINE z == IF v[n.key] # -1 /\ ((n.kind = "add") <=> (v[n.key] = 0))
                THEN IF n.kind = "delete" THEN 0 ELSE n.obj
                ELSE -1
<1>2. z \in Int BY <1>1
<1>3. Apply(v, n) = [v EXCEPT ![n.key] = z] BY <1>1 DEF Apply
<1>4. z = IF v[n.key] # -1 /\ ((n.kind = "add") <=> (v[n.key] = 0))
                THEN IF n.kind = "delete" THEN 0 ELSE n.obj
                ELSE -1 OBVIOUS
<1> HIDE DEF z
<1>5. Apply(v, n)[n.key] = z BY <1>1, <1>3
<1> QED BY <1>1, <1>2, <1>3, <1>4, <1>5

\* What a handler knows has its type, and what did not fit once never fits.
LEMMA ToldAbsorbs ==
    ASSUME NEW v \in [Key -> Int], NEW ns \in Seq(Notes), NEW k \in Key
    PROVE  Told(v, ns) \in [Key -> Int] /\ (v[k] = -1 => Told(v, ns)[k] = -1)
<1>0. Len(ns) \in Nat BY LenProperties
<1>1. PICK f : Steps(f, v, ns) /\ Told(v, ns) = f[Len(ns)] BY ToldRuns
<1> DEFINE G == {i \in 0..Len(ns) : f[i] \in [Key -> Int] /\ (v[k] = -1 => f[i][k] = -1)}
<1>2. 0 \in G BY <1>0, <1>1 DEF Steps
<1>3. ASSUME NEW i \in 1..Len(ns), i - 1 \in G PROVE i \in G
  <2>1. i \in 0..Len(ns) /\ ns[i] \in Notes BY <1>0, ElementOfSeq
  <2>2. f[i] = Apply(f[i - 1], ns[i]) BY <1>1 DEF Steps
  <2>3. f[i - 1] \in [Key -> Int] /\ (v[k] = -1 => f[i - 1][k] = -1) BY <1>3
  <2>4. f[i] \in [Key -> Int]
    <3> DEFINE u == f[i - 1]
               x == ns[i]
    <3>1. u \in [Key -> Int] /\ x \in Notes BY <2>1, <2>3
    <3> HIDE DEF u, x
    <3>2. Apply(u, x) \in [Key -> Int] BY <3>1, ApplyType
    <3> QED BY <3>2, <2>2 DEF u, x
  <2>5. ASSUME v[k] = -1 PROVE f[i][k] = -1
    <3> DEFINE x == ns[i]
               u == f[i - 1]
    <3>1. x \in Notes /\ u \in [Key -> Int] /\ u[k] = -1 /\ f[i] = Apply(u, x) BY <2>1, <2>2, <2>3, <2>5
    <3> HIDE DEF x, u
    <3>2. CASE k = x.key
      <4>1. Apply(u, x)[x.key] = IF u[x.key] # -1 /\ ((x.kind = "add") <=> (u[x.key] = 0))
                                 THEN IF x.kind = "delete" THEN 0 ELSE x.obj
                                 ELSE -1
        BY <3>1, ApplyType
      <4> QED BY <4>1, <3>1, <3>2
    <3>3. CASE k # x.key
      <4>1. \A j \in Key \ {x.key} : Apply(u, x)[j] = u[j] BY <3>1, ApplyType
      <4> QED BY <4>1, <3>1, <3>3
    <3> QED BY <3>2, <3>3
  <2> QED BY <2>1, <2>4, <2>5
<1>4. \A i \in 0..Len(ns) : i \in G
  <2> HIDE DEF G
  <2> QED BY <1>0, <1>2, <1>3, SegmentInduction
<1>5. Len(ns) \in 0..Len(ns) BY <1>0
<1> QED BY <1>1, <1>4, <1>5

\* The handler is passed the oldest notification: if all of them fit, so does
\* the oldest, and the handler writes down what it says.
LEMMA ToldNotify ==
    ASSUME NEW v \in [Key -> Nat], NEW ns \in Seq(Notes), ns # <<>>, Told(v, ns) \in [Key -> Nat]
    PROVE  LET n == Head(ns)
               w == [v EXCEPT ![n.key] = IF n.kind = "delete" THEN 0 ELSE n.obj]
           IN  w \in [Key -> Nat] /\ Told(w, Tail(ns)) = Told(v, ns)
<1> DEFINE n == Head(ns)
           z == IF n.kind = "delete" THEN 0 ELSE n.obj
           w == [v EXCEPT ![n.key] = z]
<1>0. Tail(ns) \in Seq(Notes) /\ n \in Notes /\ v \in [Key -> Int] OBVIOUS
<1>1. n.key \in Key /\ z \in Nat BY <1>0 DEF Notes
<1> DEFINE u == Apply(v, n)
<1>2. u \in [Key -> Int] BY <1>0, ApplyType
<1>3. Told(v, ns) = Told(u, Tail(ns)) BY <1>0, ToldHead
<1>4. u[n.key] # -1
  <2>1. u[n.key] = -1 => Told(u, Tail(ns))[n.key] = -1
    <3> HIDE DEF u
    <3> QED BY <1>0, <1>1, <1>2, ToldAbsorbs
  <2>2. Told(v, ns)[n.key] \in Nat BY <1>1
  <2> QED BY <2>1, <2>2, <1>3
<1>5. u[n.key] = z BY <1>0, <1>4, ApplyType
<1>6. \A k \in Key \ {n.key} : u[k] = v[k] BY <1>0, ApplyType
<1> HIDE DEF u, z
<1>7. w \in [Key -> Nat] BY <1>1
<1>8. u = w
  <2>1. \A k \in Key : u[k] = w[k] BY <1>1, <1>5, <1>6
  <2> QED BY <1>2, <1>7, <2>1
<1> QED BY <1>3, <1>7, <1>8 DEF z
\* A chain of notifications about key k, from the object o[0] to the object
\* o[Len(ns)], in which those that are not in S change nothing.
Chain(ns, S, o, k) ==
    \A i \in 1..Len(ns) :
        /\ ns[i].key = k
        /\ (ns[i].kind = "add") <=> (o[i - 1] = 0)
        /\ o[i] = IF ns[i].kind = "delete" THEN 0 ELSE ns[i].obj
        /\ ns[i] \notin S => o[i] = o[i - 1]

\* A chain leads a handler that has o[0] to the last object, also if
\* notifications that change nothing are left out.
LEMMA ToldChain ==
    ASSUME NEW v \in [Key -> Nat], NEW k \in Key, NEW ns \in Seq(Notes), NEW S,
           NEW o \in [0..Len(ns) -> Nat], v[k] = o[0], Chain(ns, S, o, k)
    PROVE  /\ Keep(ns, S) \in Seq(Notes) /\ Told(v, Keep(ns, S)) \in [Key -> Nat]
           /\ \A j \in Key : Told(v, Keep(ns, S))[j] = IF j = k THEN o[Len(ns)] ELSE v[j]
<1>0. Len(ns) \in Nat BY LenProperties
<1>1. PICK f : Filtered(ns, S, f, Len(ns)) /\ Keep(ns, S) = f[Len(ns)] BY <1>0, KeepIsFiltered
<1>2. \A i \in 0..Len(ns) : f[i] = IF i = 0 THEN <<>>
                                  ELSE IF ns[i] \in S THEN Append(f[i - 1], ns[i]) ELSE f[i - 1]
  BY <1>1 DEF Filtered
<1> DEFINE G == {i \in 0..Len(ns) : f[i] \in Seq(Notes) /\ Told(v, f[i]) = [v EXCEPT ![k] = o[i]]}
<1>3. 0 \in G
  <2>1. 0 \in 0..Len(ns) BY <1>0
  <2>2. f[0] = <<>> BY <1>2, <2>1
  <2>3. Told(v, f[0]) = v BY <2>2, ToldNothing
  <2>4. [v EXCEPT ![k] = o[0]] = v OBVIOUS
  <2>5. f[0] \in Seq(Notes) BY <2>2
  <2> QED BY <2>1, <2>3, <2>4, <2>5
<1>4. ASSUME NEW i \in 1..Len(ns), i - 1 \in G PROVE i \in G
  <2>1. i \in 0..Len(ns) /\ i # 0 /\ i - 1 \in 0..Len(ns) BY <1>0
  <2>0. ns[i] \in Notes BY <1>0, ElementOfSeq
  <2> DEFINE x == ns[i]
             u == [v EXCEPT ![k] = o[i - 1]]
             b == o[i]
             a == o[i - 1]
  <2>2. f[i - 1] \in Seq(Notes) /\ Told(v, f[i - 1]) = u BY <1>4
  <2>3. a \in Nat /\ b \in Nat BY <2>1
  <2>4. u \in [Key -> Int] /\ u[k] = a /\ \A j \in Key \ {k} : u[j] = v[j] BY <2>3
  <2>5. /\ x \in Notes /\ x.key = k /\ ((x.kind = "add") <=> (a = 0))
        /\ b = (IF x.kind = "delete" THEN 0 ELSE x.obj) /\ (x \notin S => b = a)
    BY <2>0, <2>1 DEF Chain
  <2>6. f[i] = IF x \in S THEN Append(f[i - 1], x) ELSE f[i - 1] BY <2>1, <1>2
  <2>7. CASE x \in S
    <3>1. f[i] \in Seq(Notes) BY <2>2, <2>5, <2>6, <2>7
    <3>2. Told(v, f[i]) = Apply(u, x) BY <2>2, <2>5, <2>6, <2>7, ToldAppend
    <3> HIDE DEF x, u, a, b
    <3>3. /\ Apply(u, x) \in [Key -> Int] /\ \A j \in Key \ {x.key} : Apply(u, x)[j] = u[j]
          /\ Apply(u, x)[x.key] = IF u[x.key] # -1 /\ ((x.kind = "add") <=> (u[x.key] = 0))
                                  THEN IF x.kind = "delete" THEN 0 ELSE x.obj
                                  ELSE -1
      BY <2>4, <2>5, ApplyType
    <3>4. Apply(u, x)[k] = b BY <3>3, <2>3, <2>4, <2>5
    <3>5. \A j \in Key : Apply(u, x)[j] = [v EXCEPT ![k] = b][j] BY <3>3, <3>4, <2>4, <2>5
    <3>6. Apply(u, x) = [v EXCEPT ![k] = b] BY <3>3, <3>5
    <3> QED BY <2>1, <3>1, <3>2, <3>6 DEF b
  <2>8. CASE x \notin S
    <3>1. f[i] = f[i - 1] /\ a = b BY <2>5, <2>6, <2>8
    <3> QED BY <2>1, <2>2, <3>1
  <2> QED BY <2>7, <2>8
<1>5. \A i \in 0..Len(ns) : i \in G
  <2> HIDE DEF G
  <2> QED BY <1>0, <1>3, <1>4, SegmentInduction
<1>6. Len(ns) \in 0..Len(ns) BY <1>0
<1>7. f[Len(ns)] \in Seq(Notes) /\ Told(v, f[Len(ns)]) = [v EXCEPT ![k] = o[Len(ns)]] BY <1>5, <1>6
<1>8. o[Len(ns)] \in Nat BY <1>6
<1> QED BY <1>1, <1>7, <1>8

\* The deltas the queue may hold.
Deltas == [type : {"Added", "Updated", "Replaced", "Sync", "Deleted", "Final"}, obj : Nat]

\* The deltas of an object fit each other and the object st in the indexer: none
\* but the first is a resync, and it repeats st; a deletion deletes something.
Fitting(ds, st) ==
    /\ \A n \in 1..Len(ds) : ~IsDeletion(ds[n]) => ds[n].obj # 0
    /\ \A n \in 1..Len(ds) : ds[n].type = "Sync" => n = 1 /\ ds[n].obj = st
    /\ ds # <<>> /\ IsDeletion(ds[1]) => st # 0
    /\ \A n \in 2..Len(ds) : IsDeletion(ds[n]) => ~IsDeletion(ds[n - 1])

\* What HandleDeltas passes to a listener turns the object of the indexer into
\* the one the last delta leaves.
LEMMA HandleDeltasTells ==
    ASSUME NEW k \in Key, NEW w, store \in [Key -> Nat],
           items[k] \in Seq(Deltas), items[k] # <<>>, Fitting(items[k], store[k])
    PROVE  /\ HandleDeltas(k, w) \in Seq(Notes)
           /\ Told(store, HandleDeltas(k, w)) \in [Key -> Nat]
           /\ \A j \in Key : Told(store, HandleDeltas(k, w))[j] =
                                IF j = k THEN After(Last(items[k])) ELSE store[j]
           /\ After(Last(items[k])) \in Nat
<1> DEFINE v == store
<1> DEFINE ds == items[k]
           st == store[k]
           Old(n) == IF n = 1 THEN st ELSE After(ds[n - 1])
           NoteOf(n) == IF IsDeletion(ds[n]) THEN Note("delete", k, ds[n].obj, FALSE)
                        ELSE IF Old(n) = 0 THEN Note("add", k, ds[n].obj, FALSE)
                        ELSE Note("update", k, ds[n].obj, IsSync(ds[n], Old(n)))
           S == {NoteOf(n) : n \in {m \in DOMAIN ds : w \/ ~NoteOf(m).sync}}
           ns == [n \in DOMAIN ds |-> NoteOf(n)]
           o == [i \in 0..Len(ns) |-> Old(i + 1)]
<1>0. Len(ds) \in Nat /\ DOMAIN ds = 1..Len(ds) /\ Len(ds) # 0 BY LenProperties, EmptySeq
<1>1. HandleDeltas(k, w) = Keep(ns, S) BY DEF HandleDeltas
<1>2. ASSUME NEW n \in 1..Len(ds) PROVE ds[n] \in Deltas /\ ds[n].obj \in Nat /\ After(ds[n]) \in Nat
  <2>1. ds[n] \in Deltas BY <1>0, ElementOfSeq
  <2> QED BY <2>1 DEF Deltas, After
<1>3. ASSUME NEW n \in 1..Len(ds) PROVE Old(n) \in Nat
  <2>1. CASE n = 1 BY <2>1
  <2>2. CASE n # 1
    <3>1. n - 1 \in 1..Len(ds) BY <2>2, <1>0
    <3> QED BY <2>2, <3>1, <1>2
  <2> QED BY <2>1, <2>2
<1>4. ASSUME NEW n \in 1..Len(ds)
      PROVE  /\ NoteOf(n) \in Notes /\ NoteOf(n).key = k
             /\ (NoteOf(n).kind = "add") <=> (Old(n) = 0)
             /\ After(ds[n]) = IF NoteOf(n).kind = "delete" THEN 0 ELSE NoteOf(n).obj
             /\ NoteOf(n).sync => After(ds[n]) = Old(n)
  <2> HIDE DEF Old
  <2>1. ds[n].obj \in Nat /\ IsSync(ds[n], Old(n)) \in BOOLEAN BY <1>2 DEF IsSync
  <2>2. CASE IsDeletion(ds[n])
    <3>1. Old(n) # 0
      <4>1. CASE n = 1 BY <4>1, <2>2 DEF Old, Fitting
      <4>2. CASE n # 1
        <5>1. n \in 2..Len(ds) /\ n - 1 \in 1..Len(ds) BY <4>2, <1>0
        <5>2. ~IsDeletion(ds[n - 1]) /\ ds[n - 1].obj # 0 BY <5>1, <2>2 DEF Fitting
        <5> QED BY <5>2, <4>2 DEF Old, After
      <4> QED BY <4>1, <4>2
    <3>2. NoteOf(n) = Note("delete", k, ds[n].obj, FALSE) BY <2>2
    <3> HIDE DEF NoteOf
    <3> QED BY <2>1, <2>2, <3>1, <3>2 DEF Note, Notes, After
  <2>3. CASE ~IsDeletion(ds[n]) /\ Old(n) = 0
    <3>1. NoteOf(n) = Note("add", k, ds[n].obj, FALSE) BY <2>3
    <3> HIDE DEF NoteOf
    <3> QED BY <2>1, <2>3, <3>1 DEF Note, Notes, After
  <2>4. CASE ~IsDeletion(ds[n]) /\ Old(n) # 0
    <3>1. NoteOf(n) = Note("update", k, ds[n].obj, IsSync(ds[n], Old(n))) BY <2>4
    <3> HIDE DEF NoteOf
    <3>2. After(ds[n]) = ds[n].obj BY <2>4 DEF After
    <3>3. IsSync(ds[n], Old(n)) => ds[n].obj = Old(n) BY DEF IsSync, Fitting, Old
    <3> QED BY <2>1, <2>4, <3>1, <3>2, <3>3 DEF Note, Notes
  <2> QED BY <2>2, <2>3, <2>4
<1>5. ns \in Seq(Notes) /\ Len(ns) = Len(ds) /\ \A i \in 1..Len(ds) : ns[i] = NoteOf(i)
  <2> HIDE DEF NoteOf
  <2>1. ns \in [1..Len(ds) -> Notes] BY <1>0, <1>4
  <2> QED BY <2>1, <1>0, LenProperties
<1>6. ASSUME NEW i \in 1..Len(ns), ns[i] \notin S PROVE NoteOf(i).sync
  <2>1. i \in DOMAIN ds /\ ns[i] = NoteOf(i) BY <1>0, <1>5
  <2> HIDE DEF NoteOf
  <2> QED BY <1>6, <2>1
<1>7. /\ o \in [0..Len(ns) -> Nat] /\ o[0] = st
      /\ \A i \in 1..Len(ns) : o[i - 1] = Old(i) /\ o[i] = After(ds[i])
  <2>1. ASSUME NEW i \in 0..Len(ns) PROVE Old(i + 1) \in Nat
    <3>1. CASE i = 0 BY <3>1
    <3>2. CASE i # 0
      <4>1. i \in 1..Len(ds) /\ i + 1 # 1 /\ (i + 1) - 1 = i BY <3>2, <1>0, <1>5
      <4> QED BY <4>1, <1>2
    <3> QED BY <3>1, <3>2
  <2>2. ASSUME NEW i \in 1..Len(ns) PROVE o[i - 1] = Old(i) /\ o[i] = After(ds[i])
    <3>1. i - 1 \in 0..Len(ns) /\ i \in 0..Len(ns) /\ (i - 1) + 1 = i /\ (i + 1) - 1 = i /\ i + 1 # 1
      BY <1>0, <1>5
    <3>2. o[i - 1] = Old((i - 1) + 1) /\ o[i] = Old(i + 1)
      <4> HIDE DEF Old
      <4> QED BY <3>1
    <3>3. Old(i + 1) = After(ds[i]) BY <3>1
    <3> HIDE DEF Old
    <3> QED BY <3>1, <3>2, <3>3
  <2>3. o[0] = st BY <1>0, <1>5
  <2> HIDE DEF Old
  <2> QED BY <2>1, <2>2, <2>3
<1> HIDE DEF NoteOf, Old, S, ns, o
<1>8. ASSUME NEW i \in 1..Len(ns)
      PROVE  /\ ns[i].key = k
             /\ (ns[i].kind = "add") <=> (o[i - 1] = 0)
             /\ o[i] = IF ns[i].kind = "delete" THEN 0 ELSE ns[i].obj
             /\ ns[i] \notin S => o[i] = o[i - 1]
  <2>1. i \in 1..Len(ds) /\ ns[i] = NoteOf(i) BY <1>5
  <2>2. o[i - 1] = Old(i) /\ o[i] = After(ds[i]) BY <1>7
  <2>3. ns[i] \notin S => NoteOf(i).sync BY <1>6
  <2> DEFINE x == NoteOf(i)
  <2>4. /\ x.key = k
        /\ (x.kind = "add") <=> (Old(i) = 0)
        /\ After(ds[i]) = IF x.kind = "delete" THEN 0 ELSE x.obj
        /\ x.sync => After(ds[i]) = Old(i)
    BY <1>4, <2>1
  <2> HIDE DEF x
  <2>5. ns[i] = x /\ (ns[i] \notin S => x.sync) BY <2>1, <2>3 DEF x
  <2> QED BY <2>2, <2>4, <2>5
<1>9. /\ Keep(ns, S) \in Seq(Notes) /\ Told(v, Keep(ns, S)) \in [Key -> Nat]
      /\ \A j \in Key : Told(v, Keep(ns, S))[j] = IF j = k THEN o[Len(ns)] ELSE v[j]
  <2>1. v[k] = o[0] /\ o \in [0..Len(ns) -> Nat] BY <1>7
  <2>2. ns \in Seq(Notes) BY <1>5
  <2>3. Chain(ns, S, o, k) BY <1>8 DEF Chain
  <2>4. \A S1 : \A x \in [0..Len(ns) -> Nat] : v[k] = x[0] /\ Chain(ns, S1, x, k)
                 => /\ Keep(ns, S1) \in Seq(Notes) /\ Told(v, Keep(ns, S1)) \in [Key -> Nat]
                    /\ \A j \in Key : Told(v, Keep(ns, S1))[j] = IF j = k THEN x[Len(ns)] ELSE v[j]
    BY ONLY store \in [Key -> Nat], k \in Key, <2>2, ToldChain
  <2> QED BY <2>1, <2>3, <2>4
<1>10. o[Len(ns)] = After(Last(ds)) /\ After(Last(ds)) \in Nat
  <2>1. Len(ds) \in 1..Len(ds) BY <1>0
  <2> QED BY <1>0, <1>2, <1>5, <1>7, <2>1 DEF Last
<1> QED BY <1>1, <1>9, <1>10

\* A new handler, told of every known object, knows what the indexer holds.
LEMMA ToldAll ==
    ASSUME store \in [Key -> Nat], NEW known \in Seq(Key), Distinct(known),
           Range(known) = {k \in Key : store[k] # 0},
           NEW ns, ns = [n \in DOMAIN known |-> Note("add", known[n], store[known[n]], FALSE)]
    PROVE  ns \in Seq(Notes) /\ Told(Absent, ns) = store
<1>0. Len(known) \in Nat /\ DOMAIN known = 1..Len(known) BY LenProperties
<1>1. \A n \in 1..Len(known) : known[n] \in Key /\ store[known[n]] \in Nat /\ known[n] \in Range(known)
  BY <1>0, ElementOfSeq DEF Range
<1>2. \A n \in 1..Len(known) : store[known[n]] # 0 BY <1>1
<1>3. /\ ns \in Seq(Notes) /\ Len(ns) = Len(known)
      /\ \A n \in 1..Len(known) : ns[n] = Note("add", known[n], store[known[n]], FALSE)
  <2>1. \A n \in 1..Len(known) : Note("add", known[n], store[known[n]], FALSE) \in Notes
    BY <1>1 DEF Note, Notes
  <2>2. ns \in [1..Len(known) -> Notes] BY <1>0, <2>1
  <2>3. ns \in Seq(Notes) /\ DOMAIN ns = 1..Len(known)
    <3> DEFINE N == Len(known)
    <3>1. N \in Nat /\ ns \in [1..N -> Notes] BY <1>0, <2>2
    <3> HIDE DEF N
    <3>2. ns \in Seq(Notes) /\ DOMAIN ns = 1..N BY ONLY <3>1
    <3> QED BY <3>2 DEF N
  <2>4. Len(ns) = Len(known) BY <2>3, <1>0, LenProperties
  <2> QED BY <2>3, <2>4, <1>0
<1> DEFINE g == [i \in 0..Len(known) |->
                   [k \in Key |-> IF \E j \in 1..i : known[j] = k THEN store[k] ELSE 0]]
<1>4. g[0] = Absent
  <2>1. 0 \in 0..Len(known) /\ 1..0 = {} BY <1>0
  <2> QED BY <2>1 DEF Absent
<1>5. ASSUME NEW i \in 1..Len(ns) PROVE g[i] = Apply(g[i - 1], ns[i])
  <2>1. /\ i \in 1..Len(known) /\ i \in 0..Len(known) /\ i - 1 \in 0..Len(known)
        /\ 1..i = (1..i-1) \cup {i} /\ 1..i \subseteq 1..Len(known)
    BY <1>0, <1>3
  <2> DEFINE u == g[i - 1]
             x == ns[i]
             q == known[i]
  <2>2. q \in Key /\ store[q] \in Nat /\ store[q] # 0 BY <1>1, <1>2, <2>1
  <2>3. u = [k \in Key |-> IF \E j \in 1..(i-1) : known[j] = k THEN store[k] ELSE 0] BY <2>1
  <2>4. g[i] = [k \in Key |-> IF \E j \in 1..i : known[j] = k THEN store[k] ELSE 0] BY <2>1
  <2>5. u \in [Key -> Int]
    <3> HIDE DEF g
    <3> QED BY <2>3
  <2>6. u[q] = 0
    <3>1. ASSUME NEW j \in 1..(i-1), known[j] = q PROVE FALSE
      <4>1. j \in DOMAIN known /\ i \in DOMAIN known /\ j # i BY <1>0, <2>1
      <4> QED BY <3>1, <4>1 DEF Distinct
    <3> HIDE DEF u
    <3> QED BY <3>1, <2>2, <2>3
  <2>7. x = Note("add", q, store[q], FALSE) BY <1>3, <2>1
  <2>8. x \in Notes /\ x.key = q /\ x.kind = "add" /\ x.obj = store[q]
    <3> HIDE DEF x, q
    <3> QED BY <2>2, <2>7 DEF Note, Notes
  <2> HIDE DEF x, u
  <2>9. /\ Apply(u, x) \in [Key -> Int] /\ \A k \in Key \ {x.key} : Apply(u, x)[k] = u[k]
        /\ Apply(u, x)[x.key] = IF u[x.key] # -1 /\ ((x.kind = "add") <=> (u[x.key] = 0))
                                THEN IF x.kind = "delete" THEN 0 ELSE x.obj
                                ELSE -1
    BY <2>5, <2>8, ApplyType
  <2>10. Apply(u, x)[q] = store[q] BY <2>6, <2>8, <2>9
  <2>11. ASSUME NEW k \in Key PROVE g[i][k] = Apply(u, x)[k]
    <3>1. g[i][k] = IF \E j \in 1..i : known[j] = k THEN store[k] ELSE 0
      <4> HIDE DEF g
      <4> QED BY <2>4
    <3>2. u[k] = IF \E j \in 1..(i-1) : known[j] = k THEN store[k] ELSE 0 BY <2>3
    <3> HIDE DEF g
    <3>3. CASE k = q
      <4>1. \E j \in 1..i : known[j] = k BY <3>3, <2>1
      <4> QED BY <3>1, <3>3, <4>1, <2>10
    <3>4. CASE k # q
      <4>1. (\E j \in 1..i : known[j] = k) <=> (\E j \in 1..(i-1) : known[j] = k) BY <3>4, <2>1
      <4>2. g[i][k] = u[k] BY <3>1, <3>2, <4>1
      <4> QED BY <3>4, <4>2, <2>8, <2>9
    <3> QED BY <3>3, <3>4
  <2>12. g[i] \in [Key -> Int] 
    <3> HIDE DEF g
    <3>1. \A k \in Key : (IF \E j \in 1..i : known[j] = k THEN store[k] ELSE 0) \in Int OBVIOUS
    <3> QED BY <2>4, <3>1
  <2> HIDE DEF g
  <2>13. g[i] = Apply(u, x)
    <3> DEFINE a == g[i]
               b == Apply(u, x)
    <3>1. a \in [Key -> Int] /\ b \in [Key -> Int] /\ \A k \in Key : a[k] = b[k] BY <2>9, <2>11, <2>12
    <3> HIDE DEF a, b
    <3>2. a = b BY ONLY <3>1
    <3> QED BY <3>2 DEF a, b
  <2> QED BY <2>13 DEF u, x
<1>6. Steps(g, Absent, ns) BY <1>4, <1>5 DEF Steps
<1>7. Told(Absent, ns) = g[Len(ns)]
  <2> HIDE DEF g
  <2> QED BY <1>3, <1>6, ToldIs
<1>8. g[Len(ns)] = [k \in Key |-> IF \E j \in 1..Len(known) : known[j] = k THEN store[k] ELSE 0]
  <2>1. Len(ns) \in 0..Len(known) BY <1>0, <1>3
  <2> QED BY <2>1, <1>3
<1>9. \A k \in Key : (\E j \in 1..Len(known) : known[j] = k) <=> store[k] # 0
  <2>1. \A k : (\E j \in 1..Len(known) : known[j] = k) <=> k \in Range(known) BY <1>0 DEF Range
  <2> QED BY <2>1
<1> HIDE DEF g
<1>10. g[Len(ns)] = store BY <1>8, <1>9
<1> QED BY <1>3, <1>7, <1>10

\* What may join the deltas ds of a key: d, as the last of them.
JoinsLast(r, ds, d) ==
    /\ Len(r) = Len(ds) + 1 /\ r[Len(ds) + 1] = d /\ \A i \in 1..Len(ds) : r[i] = ds[i]
    /\ ds # <<>> /\ IsDeletion(d) => ~IsDeletion(ds[Len(ds)])

\* Or, if d and the last of them are deletions, one deletion stays.
JoinsDeletion(r, ds, d) ==
    /\ Len(r) = Len(ds) /\ ds # <<>> /\ IsDeletion(d) /\ IsDeletion(ds[Len(ds)])
    /\ IsDeletion(r[Len(ds)]) /\ \A i \in 1..(Len(ds) - 1) : r[i] = ds[i]

\* dedupDeltas drops nothing but one of two deletions.
LEMMA DedupFacts ==
    ASSUME NEW ds \in Seq(Deltas), NEW d \in Deltas, NEW r, r = dedupDeltas(Append(ds, d))
    PROVE  /\ r \in Seq(Deltas) /\ r # <<>>
           /\ JoinsLast(r, ds, d) \/ JoinsDeletion(r, ds, d)
<1> DEFINE l == Append(ds, d)
<1>0. Len(ds) \in Nat /\ (ds # <<>> <=> Len(ds) # 0) BY LenProperties, EmptySeq
<1>1. /\ l \in Seq(Deltas) /\ Len(l) = Len(ds) + 1 /\ l[Len(ds) + 1] = d
      /\ \A i \in 1..Len(ds) : l[i] = ds[i]
  OBVIOUS
<1> HIDE DEF l
<1> DEFINE both == Len(l) >= 2 /\ IsDeletion(l[Len(l)]) /\ IsDeletion(l[Len(l) - 1])
           x == IF l[Len(l) - 1].type = "Final" THEN l[Len(l)] ELSE l[Len(l) - 1]
           f == SubSeq(l, 1, Len(l) - 2)
<1>2. r = IF both THEN Append(f, x) ELSE l BY DEF dedupDeltas, l
<1>3. Len(l) - 1 = Len(ds) /\ Len(l) - 2 = Len(ds) - 1 BY <1>0, <1>1
<1>4. CASE both
  <2>1. Len(ds) # 0 /\ Len(ds) \in 1..Len(ds) /\ Len(l) \in 1..Len(l) BY <1>0, <1>1, <1>4
  <2>2. l[Len(l)] = d /\ l[Len(l) - 1] = ds[Len(ds)] BY <1>1, <1>3, <2>1
  <2>3. IsDeletion(d) /\ IsDeletion(ds[Len(ds)]) BY <1>4, <2>2
  <2>4. x \in Deltas /\ IsDeletion(x)
    <3>1. ds[Len(ds)] \in Deltas BY <2>1, ElementOfSeq
    <3> QED BY <2>2, <2>3, <3>1
  <2>5. f \in Seq(Deltas) /\ Len(f) = Len(ds) - 1 /\ \A i \in 1..(Len(ds) - 1) : f[i] = ds[i]
    <3>1. 1 \in Int /\ Len(l) - 2 \in Int /\ 1 <= Len(l) - 2 + 1 /\ Len(l) - 2 <= Len(l) BY <1>0, <1>1, <2>1
    <3>3. /\ f \in Seq(Deltas) /\ Len(f) = Len(l) - 2
          /\ \A i \in 1..(Len(l) - 2) : f[i] = l[i]
      <4>1. \A i \in 1..(Len(l) - 2) : i \in 1..Len(l) BY <1>0, <1>1
      <4>2. \A i \in 1..(Len(l) - 2) : l[i] \in Deltas BY <4>1, <1>1, ElementOfSeq
      <4>3. /\ f \in Seq(Deltas) /\ Len(f) = IF 1 <= Len(l) - 2 THEN (Len(l) - 2) - 1 + 1 ELSE 0
            /\ \A i \in 1..((Len(l) - 2) - 1 + 1) : f[i] = l[1 + i - 1]
        BY <3>1, <4>2, SubSeqProperties
      <4>4. (Len(l) - 2) - 1 + 1 = Len(l) - 2 /\ \A i \in 1..(Len(l) - 2) : 1 + i - 1 = i
        BY <3>1
      <4>5. Len(f) = Len(l) - 2
        <5> DEFINE m == Len(l) - 2
                   c == Len(f)
        <5>1. m \in Int /\ 1 <= m + 1 /\ c = IF 1 <= m THEN m - 1 + 1 ELSE 0 BY <4>3, <3>1
        <5> HIDE DEF m, c
        <5>2. c = m BY ONLY <5>1
        <5> QED BY <5>2 DEF m, c
      <4> HIDE DEF f
      <4> QED BY <4>3, <4>4, <4>5
    <3>2. \A i \in 1..(Len(ds) - 1) : i \in 1..Len(ds) BY <1>0
    <3> QED BY <3>2, <3>3, <1>1, <1>3
  <2> HIDE DEF f, x, both
  <2>6. r = Append(f, x) BY <1>2, <1>4
  <2>7. /\ r \in Seq(Deltas) /\ Len(r) = Len(f) + 1 /\ r[Len(f) + 1] = x
        /\ \A i \in 1..Len(f) : r[i] = f[i]
    BY <2>4, <2>5, <2>6
  <2>8. Len(r) = Len(ds) /\ r[Len(ds)] = x /\ \A i \in 1..(Len(ds) - 1) : r[i] = ds[i]
    BY <2>5, <2>7, <1>0
  <2>9. r # <<>> BY <2>1, <2>7, <2>8, EmptySeq
  <2> QED BY <2>1, <2>3, <2>4, <2>7, <2>8, <2>9, <1>0 DEF JoinsDeletion
<1>5. CASE ~both
  <2>1. r = l BY <1>2, <1>5
  <2>2. r # <<>> BY <2>1, <1>0, <1>1, EmptySeq
  <2>3. ASSUME ds # <<>>, IsDeletion(d) PROVE ~IsDeletion(ds[Len(ds)])
    <3>1. Len(l) >= 2 /\ Len(ds) \in 1..Len(ds) BY <2>3, <1>0, <1>1
    <3>2. l[Len(l)] = d /\ l[Len(l) - 1] = ds[Len(ds)] BY <3>1, <1>1, <1>3
    <3> QED BY <3>1, <3>2, <2>3, <1>5
  <2> QED BY <2>1, <2>2, <2>3, <1>1 DEF JoinsLast
<1> QED BY <1>4, <1>5
-----------------------------------------------------------------------------
\* The deltas ds of an object of which the indexer has st are in the order in
\* which they were written, and W are the versions they may have.
Ordered(ds, st, W) ==
    /\ \A n \in 1..Len(ds) : ~IsDeletion(ds[n]) => st <= ds[n].obj /\ ds[n].obj \in W
    /\ \A m, n \in 1..Len(ds) :
           m < n /\ ~IsDeletion(ds[m]) /\ ~IsDeletion(ds[n]) => ds[m].obj <= ds[n].obj

\* The writes to the collection.
Events == [key : Key, type : {"ADDED", "MODIFIED", "DELETED"}]

\* Every variable has its type.
TypeOK ==
    /\ log \in Seq(Events)
    /\ reflector \in {"list", "listed", "replaced", "watch", "watching", "stored"}
    /\ lastSync \in Nat /\ unavailable \in BOOLEAN /\ answer \in Nat
    /\ items \in [Key -> Seq(Deltas)] /\ queue \in Seq(Key)
    /\ populated \in BOOLEAN /\ initialPopulationCount \in Nat /\ unpopped \in SUBSET Key
    /\ store \in [Key -> Nat]
    /\ joined \in SUBSET Handler /\ syncing \in SUBSET Handler
    /\ pending \in [Handler -> Seq(Notes)] /\ view \in [Handler -> [Key -> Nat]]
    /\ faults \in Nat /\ resyncs \in Nat /\ due \in Nat

\* A key is in the queue, once, if and only if it has deltas.
QueueInv ==
    /\ Distinct(queue)
    /\ \A k \in Key : items[k] # <<>> <=> k \in Range(queue)

\* The keys of the first list that are not popped are the first of the queue,
\* and as many as are still counted.
BatchInv ==
    /\ initialPopulationCount <= Len(queue)
    /\ unpopped = {queue[i] : i \in 1..initialPopulationCount}
    /\ ~populated => queue = <<>>
    /\ due > 0 => populated

\* The reflector never goes back, and what is known and queued of an object are
\* writes it has handed over, in their order.
VersionInv ==
    /\ Written <= Len(log)
    /\ reflector \in {"listed", "replaced"} => lastSync <= answer /\ answer <= Len(log)
    /\ \A k \in Key : store[k] # 0 => store[k] \in Writes(k, Written)
    /\ \A k \in Key : Ordered(items[k], store[k], Writes(k, Written))

\* Every key's deltas fit what the indexer has of it.
DeltaInv == \A k \in Key : Fitting(items[k], store[k])

\* What a handler has been told and is about to be told is what the indexer has.
HandlerInv ==
    /\ \A h \in joined : Told(view[h], pending[h]) = store
    /\ \A h \in Handler \ joined : view[h] = Absent /\ pending[h] = <<>>

\* The inductive invariant.
IInv == TypeOK /\ QueueInv /\ BatchInv /\ VersionInv /\ DeltaInv /\ HandlerInv
-----------------------------------------------------------------------------
\* What the reflector has handed over is a version, and is lastSync unless that
\* is still to be set.
LEMMA WrittenFacts ==
    ASSUME TypeOK
    PROVE  /\ Written \in Nat
           /\ reflector \notin {"replaced", "stored"} => Written = lastSync
           /\ reflector = "replaced" => Written = answer
           /\ reflector = "stored" => Written = lastSync + 1
BY DEF TypeOK, Written

\* A set of versions has a newest.
LEMMA NewestFacts ==
    ASSUME NEW n \in Nat, NEW S, S \subseteq 1..n, S # {}
    PROVE  Newest(S) \in S /\ \A m \in S : m <= Newest(S)
<1> DEFINE T == {n - x : x \in S}
<1>1. T \subseteq Nat /\ T # {}
  <2>1. \A x \in S : n - x \in Nat
    <3>1. \A x \in 1..n : n - x \in Nat OBVIOUS
    <3> QED BY <3>1
  <2>2. T \subseteq Nat BY <2>1
  <2>3. T # {} OBVIOUS
  <2> QED BY <2>2, <2>3
<1>2. PICK t \in T : \A y \in T : t <= y
  <2> HIDE DEF T
  <2> QED BY <1>1, LeastNatural
<1>3. PICK x \in S : t = n - x OBVIOUS
<1>4. \A m \in S : m <= x
  <2> SUFFICES ASSUME NEW m \in S PROVE m <= x OBVIOUS
  <2>1. n - m \in T /\ m \in Nat /\ x \in Nat OBVIOUS
  <2>2. n - x <= n - m BY <1>2, <1>3, <2>1
  <2> QED BY <2>1, <2>2
<1> QED BY <1>4 DEF Newest

\* The object of a key at a version is its last write.
LEMMA ObjectFacts ==
    ASSUME NEW k \in Key, NEW n \in Nat
    PROVE  /\ ObjectAt(k, n) \in Nat
           /\ ObjectAt(k, n) # 0 => /\ ObjectAt(k, n) \in Writes(k, n)
                                    /\ \A m \in Writes(k, n) : m <= ObjectAt(k, n)
<1>1. Writes(k, n) \subseteq 1..n BY DEF Writes
<1> DEFINE W == Writes(k, n)
<1>2. CASE W = {} BY <1>2 DEF ObjectAt
<1>3. CASE W # {}
  <2>1. Newest(W) \in W /\ \A m \in W : m <= Newest(W)
    <3> HIDE DEF W
    <3> QED BY <1>1, <1>3, NewestFacts DEF W
  <2>2. Newest(W) \in Nat BY <2>1, <1>1
  <2>3. ObjectAt(k, n) = Newest(W) \/ ObjectAt(k, n) = 0 BY DEF ObjectAt
  <2> QED BY <2>1, <2>2, <2>3
<1> QED BY <1>2, <1>3

\* The delta d may join the deltas ds.
MayJoin(d, ds, st, W) ==
    IF IsDeletion(d) THEN ds = <<>> => st # 0
    ELSE /\ d.obj \in W /\ st <= d.obj
         /\ \A n \in 1..Len(ds) : ~IsDeletion(ds[n]) => ds[n].obj <= d.obj
         /\ d.type = "Sync" => ds = <<>> /\ d.obj = st

\* A delta joins the deltas of an object.
LEMMA JoinDelta ==
    ASSUME NEW ds \in Seq(Deltas), NEW st \in Nat, NEW W, W \subseteq Nat \ {0}, NEW V, V \subseteq W,
           Fitting(ds, st), Ordered(ds, st, V), NEW d \in Deltas,
           MayJoin(d, ds, st, W), NEW r, r = dedupDeltas(Append(ds, d))
    PROVE  r \in Seq(Deltas) /\ r # <<>> /\ Fitting(r, st) /\ Ordered(r, st, W)
<1> USE DEF MayJoin
<1>0. Len(ds) \in Nat /\ (ds = <<>> <=> Len(ds) = 0) BY LenProperties, EmptySeq
<1>1. r \in Seq(Deltas) /\ r # <<>> BY DedupFacts
<1>2. CASE JoinsLast(r, ds, d)
  <2> USE DEF JoinsLast
  <2>1. \A n \in 1..Len(r) : n \in 1..Len(ds) \/ n = Len(ds) + 1 BY <1>0, <1>2
  <2>2. \A n \in 1..Len(r) : ~IsDeletion(r[n]) => r[n].obj # 0 BY <1>2, <2>1 DEF Fitting
  <2>3. \A n \in 1..Len(r) : r[n].type = "Sync" => n = 1 /\ r[n].obj = st
    <3>1. ASSUME NEW n \in 1..Len(r), r[n].type = "Sync" PROVE n = 1 /\ r[n].obj = st
      <4>1. CASE n \in 1..Len(ds) BY <4>1, <3>1, <1>2 DEF Fitting
      <4>2. CASE n = Len(ds) + 1 BY <4>2, <3>1, <1>0, <1>2 DEF IsDeletion
      <4> QED BY <4>1, <4>2, <2>1
    <3> QED BY <3>1
  <2>4. IsDeletion(r[1]) => st # 0
    <3>1. CASE ds = <<>> BY <3>1, <1>0, <1>2
    <3>2. CASE ds # <<>>
      <4>1. 1 \in 1..Len(ds) BY <3>2, <1>0
      <4> QED BY <3>2, <4>1, <1>2 DEF Fitting
    <3> QED BY <3>1, <3>2
  <2>5. \A n \in 2..Len(r) : IsDeletion(r[n]) => ~IsDeletion(r[n - 1])
    <3>1. ASSUME NEW n \in 2..Len(r), IsDeletion(r[n]) PROVE ~IsDeletion(r[n - 1])
      <4>1. n \in 1..Len(r) /\ n - 1 \in 1..Len(ds) BY <1>0, <1>2
      <4>2. CASE n \in 1..Len(ds)
        <5>1. n \in 2..Len(ds) BY <4>2
        <5> QED BY <4>1, <4>2, <5>1, <3>1, <1>2 DEF Fitting
      <4>3. CASE n = Len(ds) + 1
        <5>1. n - 1 = Len(ds) BY <4>3, <1>0
        <5>2. ds # <<>> BY <4>1, <1>0
        <5> QED BY <4>1, <4>3, <5>1, <5>2, <3>1, <1>2
      <4> QED BY <4>1, <4>2, <4>3, <2>1
    <3> QED BY <3>1
  <2>6. \A n \in 1..Len(r) : ~IsDeletion(r[n]) => st <= r[n].obj /\ r[n].obj \in W
    BY <1>2, <2>1 DEF Ordered
  <2>7. ASSUME NEW m \in 1..Len(r), NEW n \in 1..Len(r), m < n, ~IsDeletion(r[m]), ~IsDeletion(r[n])
        PROVE  r[m].obj <= r[n].obj
    <3>1. m \in 1..Len(ds) BY <1>0, <1>2, <2>7
    <3>2. CASE n \in 1..Len(ds) BY <3>1, <3>2, <1>2, <2>7 DEF Ordered
    <3>3. CASE n = Len(ds) + 1 BY <3>1, <3>3, <1>2, <2>7
    <3> QED BY <3>2, <3>3, <2>1
  <2>8. Fitting(r, st) BY <2>2, <2>3, <2>4, <2>5 DEF Fitting
  <2>9. Ordered(r, st, W) BY <2>6, <2>7 DEF Ordered
  <2> QED BY <1>1, <2>8, <2>9
<1>3. CASE JoinsDeletion(r, ds, d)
  <2> USE DEF JoinsDeletion
  <2>1. \A n \in 1..Len(r) : n \in 1..Len(ds) /\ (n \in 1..(Len(ds) - 1) \/ n = Len(ds)) BY <1>0, <1>3
  <2>2. \A n \in 1..Len(r) : IsDeletion(r[n]) <=> IsDeletion(ds[n]) BY <1>3, <2>1
  <2>3. \A n \in 1..Len(r) : ~IsDeletion(r[n]) => r[n] = ds[n] BY <1>3, <2>1
  <2>4. \A n \in 1..Len(r) : r[n].type = "Sync" => r[n] = ds[n] BY <2>3 DEF IsDeletion
  <2>5. 1 \in 1..Len(r) BY <1>0, <1>3
  <2>6. \A n \in 2..Len(r) : n \in 2..Len(ds) /\ n \in 1..Len(r) /\ n - 1 \in 1..Len(r) BY <1>0, <1>3
  <2>7. Fitting(r, st)
    <3>1. \A n \in 1..Len(r) : ~IsDeletion(r[n]) => r[n].obj # 0 BY <2>1, <2>2, <2>3 DEF Fitting
    <3>2. \A n \in 1..Len(r) : r[n].type = "Sync" => n = 1 /\ r[n].obj = st BY <2>1, <2>4 DEF Fitting
    <3>3. IsDeletion(r[1]) => st # 0 BY <1>3, <2>2, <2>5 DEF Fitting
    <3>4. \A n \in 2..Len(r) : IsDeletion(r[n]) => ~IsDeletion(r[n - 1]) BY <2>2, <2>6 DEF Fitting
    <3> QED BY <3>1, <3>2, <3>3, <3>4 DEF Fitting
  <2>8. \A n \in 1..Len(r) : ~IsDeletion(r[n]) => st <= r[n].obj /\ r[n].obj \in W
    BY <2>1, <2>2, <2>3 DEF Ordered
  <2>9. ASSUME NEW m \in 1..Len(r), NEW n \in 1..Len(r), m < n, ~IsDeletion(r[m]), ~IsDeletion(r[n])
        PROVE  r[m].obj <= r[n].obj
    <3>1. m \in 1..Len(ds) /\ n \in 1..Len(ds) /\ r[m] = ds[m] /\ r[n] = ds[n] BY <2>1, <2>3, <2>9
    <3> QED BY <3>1, <2>9 DEF Ordered
  <2>10. Ordered(r, st, W) BY <2>8, <2>9 DEF Ordered
  <2> QED BY <1>1, <2>7, <2>10
<1>4. JoinsLast(r, ds, d) \/ JoinsDeletion(r, ds, d) BY DedupFacts
<1> QED BY <1>2, <1>3, <1>4

\* queueActionLocked on keys ks with deltas dd.
LEMMA QueueAction ==
    ASSUME items \in [Key -> Seq(Deltas)], queue \in Seq(Key), QueueInv,
           NEW ks \in Seq(Key), Distinct(ks), NEW dd, \A k \in Range(ks) : dd[k] \in Deltas,
           queueActionLocked(ks, dd)
    PROVE  /\ items' \in [Key -> Seq(Deltas)] /\ queue' \in Seq(Key) /\ QueueInv'
           /\ \A k \in Range(ks) : items'[k] = dedupDeltas(Append(items[k], dd[k]))
           /\ \A k \in Key \ Range(ks) : items'[k] = items[k]
           /\ Len(queue) <= Len(queue') /\ \A i \in 1..Len(queue) : queue'[i] = queue[i]
           /\ Range(queue') = Range(queue) \cup Range(ks)
<1> DEFINE E == {k \in Key : items[k] = <<>>}
           t == Keep(ks, E)
<1>1. Range(ks) = ToSet(ks) BY DEF Range, ToSet
<1>2. t \in Seq(Key) /\ Range(t) = Range(ks) \cap E /\ Distinct(t) BY KeptSeq
<1>3. queue' = queue \o t BY DEF queueActionLocked
<1>4. items' = [k \in Key |-> IF k \in Range(ks) THEN dedupDeltas(Append(items[k], dd[k])) ELSE items[k]]
  BY <1>1 DEF queueActionLocked
<1>5. Range(ks) \subseteq Key BY RangeInType
<1>6. ASSUME NEW k \in Range(ks)
      PROVE  dedupDeltas(Append(items[k], dd[k])) \in Seq(Deltas) /\ dedupDeltas(Append(items[k], dd[k])) # <<>>
  <2>1. items[k] \in Seq(Deltas) /\ dd[k] \in Deltas BY <1>5
  <2> QED BY <2>1, DedupFacts
<1>7. items' \in [Key -> Seq(Deltas)] BY <1>4, <1>6
<1>8. \A k \in Range(ks) : items'[k] = dedupDeltas(Append(items[k], dd[k])) BY <1>4, <1>5
<1>9. \A k \in Key \ Range(ks) : items'[k] = items[k] BY <1>4
<1>10. Range(queue) \cap Range(t) = {} /\ Range(queue) \subseteq Key
  <2>1. Range(queue) \subseteq Key BY RangeInType
  <2> QED BY <1>2, <2>1 DEF QueueInv
<1> HIDE DEF t
<1>11. queue' \in Seq(Key) /\ Range(queue') = Range(queue) \cup Range(t) /\ Distinct(queue')
  BY <1>2, <1>3, <1>10, ConcatFacts DEF QueueInv
<1>12. Range(queue') = Range(queue) \cup Range(ks)
  <2>1. \A k \in Range(ks) : k \in E \/ k \in Range(queue) BY <1>5 DEF QueueInv
  <2> QED BY <2>1, <1>2, <1>11
<1>13. \A k \in Key : items'[k] # <<>> <=> k \in Range(queue')
  BY <1>6, <1>8, <1>9, <1>12 DEF QueueInv
<1>14. Len(queue) <= Len(queue') /\ \A i \in 1..Len(queue) : queue'[i] = queue[i]
  <2>1. Len(queue) \in Nat /\ Len(t) \in Nat BY <1>2, LenProperties
  <2>2. Len(queue') = Len(queue) + Len(t) BY <1>2, <1>3, ConcatProperties
  <2>3. \A i \in 1..Len(queue) : i \in 1..Len(queue) + Len(t) /\ i <= Len(queue) BY <2>1
  <2>4. \A i \in 1..Len(queue) : queue'[i] = queue[i] BY <1>2, <1>3, <2>3, ConcatProperties
  <2> QED BY <2>1, <2>2, <2>4
<1>15. QueueInv' BY <1>11, <1>13 DEF QueueInv
<1> QED BY <1>7, <1>8, <1>9, <1>11, <1>12, <1>14, <1>15
\* queueActionLocked keeps what the deltas promise if each new delta may join,
\* and the keys of the first list stay the first of the queue.
LEMMA QueueKeeps ==
    ASSUME TypeOK, QueueInv, BatchInv, VersionInv, DeltaInv,
           NEW ls \in Nat, Written <= ls,
           NEW ks \in Seq(Key), Distinct(ks), NEW dd, \A k \in Range(ks) : dd[k] \in Deltas,
           \A k \in Range(ks) : MayJoin(dd[k], items[k], store[k], Writes(k, ls)),
           queueActionLocked(ks, dd)
    PROVE  /\ items' \in [Key -> Seq(Deltas)] /\ queue' \in Seq(Key) /\ QueueInv'
           /\ \A k \in Key : /\ Fitting(items'[k], store[k])
                             /\ Ordered(items'[k], store[k], Writes(k, ls))
           /\ initialPopulationCount <= Len(queue')
           /\ unpopped = {queue'[i] : i \in 1..initialPopulationCount}
           /\ Range(queue') = Range(queue) \cup Range(ks)
<1>1. items \in [Key -> Seq(Deltas)] /\ queue \in Seq(Key) /\ store \in [Key -> Nat]
  BY DEF TypeOK
<1>2. /\ items' \in [Key -> Seq(Deltas)] /\ queue' \in Seq(Key) /\ QueueInv'
      /\ \A k \in Range(ks) : items'[k] = dedupDeltas(Append(items[k], dd[k]))
      /\ \A k \in Key \ Range(ks) : items'[k] = items[k]
      /\ Len(queue) <= Len(queue') /\ \A i \in 1..Len(queue) : queue'[i] = queue[i]
      /\ Range(queue') = Range(queue) \cup Range(ks)
  BY <1>1, QueueAction
<1>3. ASSUME NEW k \in Key
      PROVE  Fitting(items'[k], store[k]) /\ Ordered(items'[k], store[k], Writes(k, ls))
  <2> DEFINE V == Writes(k, Written)
             W == Writes(k, ls)
             ds == items[k]
             r == items'[k]
             d == dd[k]
             st == store[k]
  <2>1. W \subseteq Nat \ {0} /\ V \subseteq W
    <3>1. Written \in Nat BY WrittenFacts
    <3>2. \A m \in 1..Written : m \in 1..ls BY <3>1
    <3>3. V \subseteq W BY <3>2 DEF Writes
    <3>4. W \subseteq 1..ls BY DEF Writes
    <3> QED BY <3>3, <3>4
  <2>2. ds \in Seq(Deltas) /\ st \in Nat /\ Fitting(ds, st) /\ Ordered(ds, st, V)
    BY <1>1 DEF DeltaInv, VersionInv
  <2>3. CASE k \in Range(ks)
    <3>1. r = dedupDeltas(Append(ds, d)) /\ d \in Deltas /\ MayJoin(d, ds, st, W) BY <2>3, <1>2
    <3> HIDE DEF V, W, ds, r, d, st
    <3>2. Fitting(r, st) /\ Ordered(r, st, W) BY <2>1, <2>2, <3>1, JoinDelta
    <3> QED BY <3>2 DEF V, W, ds, r, d, st
  <2>4. CASE k \notin Range(ks)
    <3>1. r = ds BY <2>4, <1>2
    <3>2. Ordered(ds, st, W) BY <2>1, <2>2 DEF Ordered
    <3> QED BY <2>2, <3>1, <3>2
  <2> QED BY <2>3, <2>4
<1>4. initialPopulationCount <= Len(queue')
  <2>1. Len(queue) \in Nat /\ Len(queue') \in Nat /\ initialPopulationCount \in Nat
    BY <1>1, <1>2, LenProperties DEF TypeOK
  <2> QED BY <2>1, <1>2 DEF BatchInv
<1>5. unpopped = {queue'[i] : i \in 1..initialPopulationCount}
  <2>1. Len(queue) \in Nat /\ initialPopulationCount \in Nat BY <1>1, LenProperties DEF TypeOK
  <2>2. \A i \in 1..initialPopulationCount : i \in 1..Len(queue) BY <2>1 DEF BatchInv
  <2>3. \A i \in 1..initialPopulationCount : queue'[i] = queue[i] BY <2>2, <1>2
  <2> QED BY <2>3 DEF BatchInv
<1> QED BY <1>2, <1>3, <1>4, <1>5

\* A new write changes nothing of the writes up to an earlier version.
LEMMA WritesStay ==
    ASSUME TypeOK, NEW e \in Events, log' = Append(log, e), NEW n \in Nat, n <= Len(log)
    PROVE  \A k \in Key : Writes(k, n)' = Writes(k, n)
<1>0. Len(log) \in Nat /\ log \in Seq(Events) BY LenProperties DEF TypeOK
<1>1. \A m \in 1..Len(log) : log'[m] = log[m] BY <1>0
<1>2. \A m \in 1..n : m \in 1..Len(log) BY <1>0
<1> QED BY <1>1, <1>2 DEF Writes
-----------------------------------------------------------------------------
\* A new informer: nothing is known, queued or told.
LEMMA InitIInv == Init => IInv
<1> SUFFICES ASSUME Init PROVE IInv OBVIOUS
<1> USE DEF Init
<1>0. Absent \in [Key -> Nat] BY DEF Absent
<1>1. TypeOK
  <2>1. items \in [Key -> Seq(Deltas)] /\ pending \in [Handler -> Seq(Notes)] OBVIOUS
  <2>2. log \in Seq(Events) /\ queue \in Seq(Key) OBVIOUS
  <2>3. unavailable \in BOOLEAN /\ populated \in BOOLEAN BY Zenon
  <2>4. view \in [Handler -> [Key -> Nat]] BY <1>0
  <2> QED BY <1>0, <2>1, <2>2, <2>3, <2>4 DEF TypeOK
<1>2. QueueInv BY DEF QueueInv, Distinct, Range
<1>3. BatchInv BY DEF BatchInv
<1>4. VersionInv BY DEF VersionInv, Written, Absent, Ordered
<1>5. DeltaInv BY DEF DeltaInv, Fitting
<1>6. HandlerInv BY DEF HandlerInv
<1> QED BY <1>1, <1>2, <1>3, <1>4, <1>5, <1>6 DEF IInv

\* A write to the collection changes nothing that was written before.
LEMMA WriteKeeps ==
    ASSUME IInv, NEW k \in Key, NEW type \in {"ADDED", "MODIFIED", "DELETED"}, Write(k, type)
    PROVE  IInv'
<1> USE DEF IInv
<1>0. UNCHANGED <<reflectorVars, fifoVars, store, listenerVars, faults, resyncVars>> BY DEF Write
<1> DEFINE e == [key |-> k, type |-> type]
<1>1. e \in Events /\ log' = Append(log, e) BY DEF Write, Events
<1> HIDE DEF e
<1>2. log \in Seq(Events) /\ Len(log) \in Nat BY LenProperties DEF TypeOK
<1>3. log' \in Seq(Events) /\ Len(log') = Len(log) + 1 BY <1>1, <1>2
<1>4. TypeOK' BY <1>0, <1>3 DEF TypeOK, reflectorVars, fifoVars, listenerVars, resyncVars
<1>5. QueueInv' /\ BatchInv' /\ DeltaInv'
  BY <1>0 DEF QueueInv, BatchInv, DeltaInv, fifoVars, resyncVars
<1>6. HandlerInv' BY <1>0 DEF HandlerInv, listenerVars
<1>7. VersionInv'
  <2>1. Written \in Nat /\ Written <= Len(log) /\ lastSync \in Nat /\ answer \in Nat
    BY WrittenFacts DEF TypeOK, VersionInv
  <2>2. Written' = Written /\ lastSync' = lastSync /\ answer' = answer /\ reflector' = reflector /\ items' = items
        /\ store' = store
    BY <1>0 DEF reflectorVars, fifoVars, Written
  <2>3. \A q \in Key : Writes(q, Written)' = Writes(q, Written)
    <3>1. \A n \in Nat : n <= Len(log) => \A q \in Key : Writes(q, n)' = Writes(q, n)
      BY <1>1, WritesStay
    <3> QED BY <3>1, <2>1, <2>2 DEF Writes
  <2> QED BY <1>2, <1>3, <2>1, <2>2, <2>3 DEF VersionInv
<1> QED BY <1>4, <1>5, <1>6, <1>7

\* The reflector's steps that queue nothing.
Moves ==
    \/ List \/ ListUnavailable \/ ListFails \/ Watch \/ WatchFails \/ WatchEnds

\* Lists and watches that fail, end or begin leave the queue alone, and the
\* version of a list is not before what has been seen.
LEMMA MovesKeep == ASSUME IInv, Moves PROVE IInv'
<1> USE DEF IInv
<1>1. UNCHANGED <<log, lastSync, fifoVars, store, listenerVars, resyncVars>>
  BY DEF Moves, List, ListUnavailable, ListFails, Watch, WatchFails, WatchEnds, reflectorVars
<1>2. lastSync \in Nat /\ Len(log) \in Nat /\ Written = lastSync /\ lastSync <= Len(log)
  <2>1. reflector \notin {"replaced", "stored"}
    BY DEF Moves, List, ListUnavailable, ListFails, Watch, WatchFails, WatchEnds
  <2> QED BY <2>1, LenProperties, WrittenFacts DEF TypeOK, VersionInv
<1>3. /\ reflector' \in {"list", "listed", "watch", "watching"}
      /\ unavailable' \in BOOLEAN /\ answer' \in Nat /\ faults' \in Nat
      /\ reflector' = "listed" => lastSync <= answer' /\ answer' <= Len(log)
  <2>1. CASE List
    <3>1. answer' \in lastSync..Len(log) BY <2>1, <1>2 DEF List, Now
    <3>2. unavailable' = FALSE /\ reflector' = "listed" /\ faults' = faults BY <2>1 DEF List
    <3>3. unavailable' \in BOOLEAN BY <3>2, Zenon
    <3>4. faults' \in Nat BY <3>2 DEF TypeOK
    <3>5. answer' \in Nat /\ lastSync <= answer' /\ answer' <= Len(log) BY <3>1, <1>2
    <3> QED BY <3>2, <3>3, <3>4, <3>5
  <2>2. CASE ListUnavailable
    <3>1. faults' = faults + 1 /\ faults \in Nat BY <2>2 DEF ListUnavailable, Fault, TypeOK
    <3>2. unavailable' \in BOOLEAN BY <2>2, Zenon DEF ListUnavailable
    <3>3. CASE answer' = Now /\ reflector' = "listed" BY <3>1, <3>2, <3>3, <1>2 DEF Now
    <3>4. CASE UNCHANGED <<answer, reflector>>
      <4>1. answer' = answer /\ reflector' = "list" BY <2>2, <3>4 DEF ListUnavailable
      <4> QED BY <3>1, <3>2, <4>1 DEF TypeOK
    <3> QED BY <2>2, <3>3, <3>4 DEF ListUnavailable
  <2>3. CASE ListFails BY <2>3, <1>2 DEF ListFails, Fault, TypeOK, reflectorVars
  <2>4. CASE Watch BY <2>4, <1>2 DEF Watch, TypeOK
  <2>5. CASE WatchFails BY <2>5, <1>2 DEF WatchFails, Fault, TypeOK
  <2>6. CASE WatchEnds BY <2>6, <1>2 DEF WatchEnds, Fault, TypeOK
  <2> QED BY <2>1, <2>2, <2>3, <2>4, <2>5, <2>6 DEF Moves
<1>4. TypeOK' BY <1>1, <1>3 DEF TypeOK, fifoVars, listenerVars, resyncVars
<1>5. QueueInv' /\ DeltaInv' BY <1>1 DEF QueueInv, DeltaInv, fifoVars
<1>6. BatchInv' BY <1>1, <1>3 DEF BatchInv, fifoVars, resyncVars
<1>7. VersionInv'
  <2>1. Written' = Written BY <1>1, <1>2, <1>3 DEF Written
  <2>2. \A q \in Key : Writes(q, Written)' = Writes(q, Written) BY <1>1, <2>1 DEF Writes
  <2> QED BY <1>1, <1>2, <1>3, <2>1, <2>2 DEF VersionInv, fifoVars
<1>8. HandlerInv' BY <1>1 DEF HandlerInv, listenerVars
<1> QED BY <1>4, <1>5, <1>6, <1>7, <1>8
\* Noting the version of what was handed over changes nothing else.
LEMMA SetLastSyncKeeps == ASSUME IInv, setLastSyncResourceVersion PROVE IInv'
<1> USE DEF IInv
<1>1. UNCHANGED <<log, unavailable, fifoVars, store, listenerVars, faults, resyncVars>>
  BY DEF setLastSyncResourceVersion
<1>2. /\ reflector' \in {"watch", "watching"} /\ lastSync' \in Nat /\ answer' \in Nat
      /\ Written' = Written
  <2>1. lastSync \in Nat /\ answer \in Nat BY DEF TypeOK
  <2> QED BY <2>1 DEF setLastSyncResourceVersion, Written
<1>3. TypeOK' BY <1>1, <1>2 DEF TypeOK, fifoVars, listenerVars, resyncVars
<1>4. QueueInv' /\ DeltaInv' /\ BatchInv' BY <1>1 DEF QueueInv, DeltaInv, BatchInv, fifoVars, resyncVars
<1>5. VersionInv'
  <2>1. \A q \in Key : Writes(q, Written)' = Writes(q, Written) BY <1>1, <1>2 DEF Writes
  <2> QED BY <1>1, <1>2, <2>1 DEF VersionInv, fifoVars
<1>6. HandlerInv' BY <1>1 DEF HandlerInv, listenerVars
<1> QED BY <1>3, <1>4, <1>5, <1>6

\* Earlier writes are among the writes of any later version.
LEMMA WritesGrow ==
    ASSUME NEW k, NEW m \in Nat, NEW n \in Nat, m <= n
    PROVE  Writes(k, m) \subseteq Writes(k, n) /\ Writes(k, n) \subseteq 1..n
<1>1. \A i \in 1..m : i \in 1..n OBVIOUS
<1> QED BY <1>1 DEF Writes

\* Replace: the objects of a list are at least as new as whatever is queued of
\* them, and only what is known is reported missing.
LEMMA SyncWithKeeps == ASSUME IInv, SyncWith PROVE IInv'
<1> USE DEF IInv
<1> DEFINE n == answer
<1>1. /\ reflector = "listed" /\ Replace(n) /\ reflector' = "replaced"
      /\ UNCHANGED <<log, lastSync, unavailable, answer, store, listenerVars, faults, resyncVars>>
  BY DEF SyncWith
<1>2. /\ n \in Nat /\ Written \in Nat /\ Written <= n /\ n <= Len(log) /\ lastSync <= n
      /\ Written' = n /\ store \in [Key -> Nat]
  <2>1. Written' = n BY <1>1 DEF Written
  <2> QED BY <1>1, <2>1, WrittenFacts DEF TypeOK, VersionInv
<1>0. answer' = n /\ lastSync' = lastSync BY <1>1
<1> HIDE DEF n
<1> DEFINE L == Listed(n)
           M == Missing(n)
           a == SetToSeq(L)
           b == SetToSeq(M)
           ks == a \o b
           dd == [k \in Key |-> IF k \in L THEN Delta("Replaced", ObjectAt(k, n))
                                           ELSE Delta("Final", store[k])]
<1>3. queueActionLocked(ks, dd) BY <1>1 DEF Replace, QueueList
<1>4. L \subseteq Key /\ M \subseteq Key \ L /\ \A k \in M : store[k] # 0 BY DEF Listed, Missing
<1>5. IsFiniteSet(L) /\ IsFiniteSet(M) BY <1>4, InformerAssumption, FS_Subset
<1>6. /\ a \in Seq(Key) /\ Range(a) = L /\ Distinct(a)
      /\ b \in Seq(Key) /\ Range(b) = M /\ Distinct(b)
  <2> HIDE DEF L, M
  <2>1. a \in Seq(L) /\ Range(a) = L /\ Distinct(a) BY <1>5, ListOfSet
  <2>2. b \in Seq(M) /\ Range(b) = M /\ Distinct(b) BY <1>5, ListOfSet
  <2>3. a \in Seq(Key) BY <2>1, <1>4
  <2>4. b \in Seq(Key) BY <2>2, <1>4
  <2> QED BY <2>1, <2>2, <2>3, <2>4
<1>7. ks \in Seq(Key) /\ Range(ks) = L \cup M /\ Distinct(ks)
  <2> HIDE DEF L, M, a, b
  <2> QED BY <1>4, <1>6, ConcatFacts
<1>8. ASSUME NEW k \in Range(ks)
      PROVE  dd[k] \in Deltas /\ MayJoin(dd[k], items[k], store[k], Writes(k, n))
  <2>1. k \in Key /\ (k \in L \/ k \in M) BY <1>4, <1>7
  <2>2. /\ ObjectAt(k, n) \in Nat
        /\ ObjectAt(k, n) # 0 => /\ ObjectAt(k, n) \in Writes(k, n)
                                 /\ \A m \in Writes(k, n) : m <= ObjectAt(k, n)
    BY <1>2, <2>1, ObjectFacts
  <2>3. store[k] \in Nat BY <2>1, <1>2
  <2>4. CASE k \in L
    <3> DEFINE o == ObjectAt(k, n)
               d == dd[k]
               ds == items[k]
    <3>1. d = Delta("Replaced", o) BY <2>1, <2>4
    <3>2. o # 0 BY <2>4 DEF Listed
    <3>3. o \in Nat /\ o \in Writes(k, n) /\ \A m \in Writes(k, n) : m <= o BY <2>2, <3>2
    <3>4. Writes(k, Written) \subseteq Writes(k, n) BY <1>2, WritesGrow
    <3>5. store[k] <= o
      <4>1. CASE store[k] = 0 BY <4>1, <3>3
      <4>2. CASE store[k] # 0
        <5>1. store[k] \in Writes(k, Written) BY <2>1, <4>2 DEF VersionInv
        <5> QED BY <5>1, <3>3, <3>4
      <4> QED BY <4>1, <4>2
    <3>6. \A i \in 1..Len(ds) : ~IsDeletion(ds[i]) => ds[i].obj <= o
      <4>1. Ordered(ds, store[k], Writes(k, Written)) BY <2>1 DEF VersionInv
      <4> HIDE DEF ds, o
      <4> QED BY <4>1, <3>3, <3>4 DEF Ordered
    <3> HIDE DEF o, d, ds
    <3>7. d \in Deltas /\ d.obj = o /\ d.type = "Replaced" /\ ~IsDeletion(d)
      BY <3>1, <3>3 DEF Delta, Deltas, IsDeletion
    <3>8. MayJoin(d, ds, store[k], Writes(k, n)) BY <3>3, <3>5, <3>6, <3>7 DEF MayJoin
    <3> QED BY <3>7, <3>8 DEF d, ds
  <2>5. CASE k \notin L
    <3> DEFINE d == dd[k]
    <3>1. d = Delta("Final", store[k]) BY <2>1, <2>5
    <3>2. store[k] # 0 BY <2>1, <2>5, <1>4
    <3> HIDE DEF d
    <3>3. d \in Deltas /\ IsDeletion(d) BY <3>1, <2>3 DEF Delta, Deltas, IsDeletion
    <3> QED BY <3>2, <3>3 DEF MayJoin, d
  <2> QED BY <2>4, <2>5
<1>9. /\ items' \in [Key -> Seq(Deltas)] /\ queue' \in Seq(Key) /\ QueueInv'
      /\ \A k \in Key : /\ Fitting(items'[k], store[k])
                        /\ Ordered(items'[k], store[k], Writes(k, n))
      /\ initialPopulationCount <= Len(queue')
      /\ unpopped = {queue'[i] : i \in 1..initialPopulationCount}
      /\ Range(queue') = Range(queue) \cup Range(ks)
  <2> HIDE DEF ks, dd
  <2> QED BY <1>2, <1>3, <1>7, <1>8, QueueKeeps
<1>10. /\ populated' = TRUE
       /\ initialPopulationCount' = IF populated THEN initialPopulationCount ELSE Cardinality(L \cup M)
       /\ unpopped' = IF populated THEN unpopped ELSE L \cup M
  BY <1>1 DEF Replace
<1> HIDE DEF L, M, ks, dd
<1>11. Distinct(queue') BY <1>9 DEF QueueInv
<1>12. IsFiniteSet(Range(queue')) /\ Cardinality(Range(queue')) = Len(queue') /\ Len(queue') \in Nat
  BY <1>9, <1>11, LenIsCardinality, LenProperties
<1>13. /\ initialPopulationCount' \in Nat /\ unpopped' \in SUBSET Key
       /\ initialPopulationCount' <= Len(queue')
       /\ unpopped' = {queue'[i] : i \in 1..initialPopulationCount'}
  <2>1. CASE populated BY <2>1, <1>9, <1>10 DEF TypeOK
  <2>2. CASE ~populated
    <3>1. queue = <<>> BY <2>2 DEF BatchInv
    <3>2. Range(queue) = {} BY <3>1, EmptyRange DEF TypeOK
    <3>3. Range(queue') = L \cup M BY <3>2, <1>7, <1>9
    <3>4. initialPopulationCount' = Len(queue') /\ unpopped' = Range(queue') BY <2>2, <3>3, <1>10, <1>12
    <3>5. Range(queue') = {queue'[i] : i \in 1..Len(queue')} BY <1>9, LenProperties DEF Range
    <3> QED BY <3>3, <3>4, <3>5, <1>4, <1>12
  <2> QED BY <2>1, <2>2
<1>14. TypeOK'
  <2>1. populated' \in BOOLEAN BY <1>10, Zenon
  <2> QED BY <2>1, <1>1, <1>2, <1>9, <1>13 DEF TypeOK, listenerVars, resyncVars
<1>15. BatchInv'
  <2>1. populated' BY <1>10, Zenon
  <2> QED BY <2>1, <1>13 DEF BatchInv
<1>16. DeltaInv' BY <1>1, <1>9 DEF DeltaInv
<1>17. VersionInv'
  <2>1. \A k \in Key : Writes(k, Written)' = Writes(k, n) BY <1>1, <1>2 DEF Writes
  <2>2. \A k \in Key : Writes(k, Written) \subseteq Writes(k, n) BY <1>2, WritesGrow
  <2>3. \A k \in Key : store[k] # 0 => store[k] \in Writes(k, n) BY <2>2 DEF VersionInv
  <2> QED BY <1>0, <1>1, <1>2, <1>9, <2>1, <2>3 DEF VersionInv
<1>18. HandlerInv' BY <1>1 DEF HandlerInv, listenerVars
<1> QED BY <1>9, <1>14, <1>15, <1>16, <1>17, <1>18
\* A watch event: the next version is newer than all that is queued, and a
\* deletion joins only if there is something to delete.
LEMMA WatchEventKeeps == ASSUME IInv, WatchEvent PROVE IInv'
<1> USE DEF IInv
<1> DEFINE n == lastSync + 1
           e == log[n]
           k == e.key
           d == DeltaOf(e, n)
<1>1. /\ reflector = "watching" /\ lastSync < Len(log) /\ Receive(k, d)
      /\ reflector' = "stored" /\ UNCHANGED <<log, lastSync, unavailable, answer, store, listenerVars, faults, resyncVars>>
  BY DEF WatchEvent, Now
<1>2. /\ lastSync \in Nat /\ Len(log) \in Nat /\ store \in [Key -> Nat] /\ items \in [Key -> Seq(Deltas)]
      /\ n \in Nat /\ lastSync <= n /\ n <= Len(log) /\ n \in 1..Len(log) /\ n # 0
      /\ Written = lastSync /\ Written' = n
  <2>1. lastSync \in Nat /\ Len(log) \in Nat /\ store \in [Key -> Nat] /\ items \in [Key -> Seq(Deltas)]
    BY LenProperties DEF TypeOK
  <2>2. Written = lastSync /\ Written' = n BY <1>1, WrittenFacts DEF Written
  <2> QED BY <1>1, <2>1, <2>2
<1>3. e \in Events /\ k \in Key
  <2>1. e \in Events BY <1>2, ElementOfSeq DEF TypeOK
  <2> QED BY <2>1 DEF Events
<1>4. /\ d \in Deltas /\ d.obj = n /\ d.type # "Sync"
  <2>1. e.type \in {"ADDED", "MODIFIED", "DELETED"} BY <1>3 DEF Events
  <2> HIDE DEF n, e
  <2> QED BY <1>2, <2>1 DEF DeltaOf, Delta, Deltas
<1>5. n \in Writes(k, n) BY <1>2 DEF Writes
<1> HIDE DEF n, e, k, d
<1>6. \A q \in Key : Writes(q, Written) \subseteq Writes(q, n) BY <1>2, WritesGrow
<1>7. /\ populated' = TRUE /\ initialPopulationCount' = initialPopulationCount /\ unpopped' = unpopped
  BY <1>1 DEF Receive
<1>8. /\ items' \in [Key -> Seq(Deltas)] /\ queue' \in Seq(Key) /\ QueueInv'
      /\ \A q \in Key : /\ Fitting(items'[q], store[q])
                        /\ Ordered(items'[q], store[q], Writes(q, n))
      /\ initialPopulationCount <= Len(queue')
      /\ unpopped = {queue'[i] : i \in 1..initialPopulationCount}
  <2>1. CASE IsDeletion(d) /\ store[k] = 0 /\ items[k] = <<>>
    <3>1. items' = items /\ queue' = queue BY <2>1, <1>1 DEF Receive
    <3>2. \A q \in Key : Ordered(items[q], store[q], Writes(q, n))
      <4> SUFFICES ASSUME NEW q \in Key PROVE Ordered(items[q], store[q], Writes(q, n)) OBVIOUS
      <4> DEFINE V == Writes(q, Written)
                 W == Writes(q, n)
                 ds == items[q]
      <4>1. V \subseteq W /\ Ordered(ds, store[q], V) BY <1>6 DEF VersionInv
      <4> HIDE DEF V, W, ds
      <4>2. Ordered(ds, store[q], W) BY <4>1 DEF Ordered
      <4> QED BY <4>2 DEF W, ds
    <3> QED BY <3>1, <3>2, <1>2 DEF TypeOK, QueueInv, DeltaInv, BatchInv
  <2>2. CASE ~(IsDeletion(d) /\ store[k] = 0 /\ items[k] = <<>>)
    <3> DEFINE ks == <<k>>
               dd == [key \in {k} |-> d]
    <3>1. queueActionLocked(ks, dd) BY <2>2, <1>1 DEF Receive
    <3>2. ks \in Seq(Key) /\ Range(ks) = {k} /\ Distinct(ks) BY <1>3 DEF Range, Distinct
    <3>3. dd[k] = d OBVIOUS
    <3>4. MayJoin(d, items[k], store[k], Writes(k, n))
      <4> DEFINE ds == items[k]
                 st == store[k]
                 V == Writes(k, Written)
      <4>1. CASE IsDeletion(d) BY <4>1, <2>2 DEF MayJoin
      <4>2. CASE ~IsDeletion(d)
        <5>1. V \subseteq 1..Written BY <1>2, WritesGrow
        <5>2. \A m \in V : m <= n
          <6>1. \A m \in 1..Written : m <= n BY <1>2
          <6> QED BY <5>1, <6>1
        <5>3. st <= n
          <6>1. CASE st = 0 BY <6>1, <1>2
          <6>2. CASE st # 0
            <7>1. st \in V BY <6>2, <1>3 DEF VersionInv
            <7> QED BY <7>1, <5>2
          <6> QED BY <6>1, <6>2
        <5>4. Ordered(ds, st, V) BY <1>3 DEF VersionInv
        <5> HIDE DEF ds, st, V
        <5>5. \A i \in 1..Len(ds) : ~IsDeletion(ds[i]) => ds[i].obj <= n BY <5>2, <5>4 DEF Ordered
        <5>6. MayJoin(d, ds, st, Writes(k, n)) BY <4>2, <5>3, <5>5, <1>4, <1>5 DEF MayJoin
        <5> QED BY <5>6 DEF ds, st
      <4> QED BY <4>1, <4>2
    <3> HIDE DEF ks, dd
    <3>5. \A q \in Range(ks) : dd[q] \in Deltas /\ MayJoin(dd[q], items[q], store[q], Writes(q, n))
      BY <3>2, <3>3, <3>4, <1>4
    <3> QED BY <1>2, <3>1, <3>2, <3>5, QueueKeeps
  <2> QED BY <2>1, <2>2
<1>9. TypeOK'
  <2>1. populated' \in BOOLEAN BY <1>7, Zenon
  <2> QED BY <2>1, <1>1, <1>2, <1>7, <1>8 DEF TypeOK, listenerVars, resyncVars
<1>10. BatchInv'
  <2>1. populated' BY <1>7, Zenon
  <2> QED BY <2>1, <1>7, <1>8 DEF BatchInv
<1>11. DeltaInv' BY <1>1, <1>8 DEF DeltaInv
<1>12. VersionInv'
  <2>1. \A q \in Key : Writes(q, Written)' = Writes(q, n) BY <1>1, <1>2 DEF Writes
  <2>2. \A q \in Key : store[q] # 0 => store[q] \in Writes(q, n) BY <1>6 DEF VersionInv
  <2> QED BY <1>1, <1>2, <1>8, <2>1, <2>2 DEF VersionInv
<1>13. HandlerInv' BY <1>1 DEF HandlerInv, listenerVars
<1> QED BY <1>8, <1>9, <1>10, <1>11, <1>12, <1>13

\* Choosing the listeners of a resync tells nobody anything.
LEMMA ShouldResyncKeeps == ASSUME IInv, shouldResync PROVE IInv'
<1> USE DEF IInv
<1>1. /\ populated /\ syncing' \in SUBSET joined /\ resyncs' = resyncs + 1
      /\ due' = due \/ due' = due + 1
      /\ UNCHANGED <<log, reflectorVars, fifoVars, store, joined, pending, view, faults>>
  BY DEF shouldResync
<1>2. TypeOK' BY <1>1 DEF TypeOK, reflectorVars, fifoVars
<1>3. QueueInv' /\ DeltaInv' /\ BatchInv' BY <1>1 DEF QueueInv, DeltaInv, BatchInv, fifoVars
<1>4. VersionInv'
  <2>1. Written' = Written BY <1>1 DEF Written, reflectorVars
  <2>2. \A q \in Key : Writes(q, Written)' = Writes(q, Written) BY <1>1, <2>1 DEF Writes
  <2> QED BY <1>1, <2>1, <2>2 DEF VersionInv, reflectorVars, fifoVars
<1>5. HandlerInv' BY <1>1 DEF HandlerInv
<1> QED BY <1>2, <1>3, <1>4, <1>5

\* Resync repeats what the indexer has, of keys with nothing queued only.
LEMMA ResyncKeeps == ASSUME IInv, Resync PROVE IInv'
<1> USE DEF IInv
<1> DEFINE S == {k \in Key : store[k] # 0 /\ items[k] = <<>>}
           ks == SetToSeq(S)
           dd == [k \in Key |-> Delta("Sync", store[k])]
<1>1. /\ due > 0 /\ due' = due - 1
      /\ UNCHANGED <<log, reflectorVars, populated, initialPopulationCount, unpopped, store,
                     listenerVars, faults, resyncs>>
      /\ queueActionLocked(ks, dd)
  BY DEF Resync
<1>2. Written \in Nat /\ Written <= Written /\ store \in [Key -> Nat] BY WrittenFacts DEF TypeOK
<1>3. ks \in Seq(Key) /\ Range(ks) = S /\ Distinct(ks)
  <2>1. S \subseteq Key OBVIOUS
  <2>2. IsFiniteSet(S) BY <2>1, InformerAssumption, FS_Subset
  <2> HIDE DEF S
  <2>3. ks \in Seq(S) /\ Range(ks) = S /\ Distinct(ks) BY <2>2, ListOfSet
  <2>4. ks \in Seq(Key) BY <2>1, <2>3
  <2> QED BY <2>3, <2>4
<1>4. ASSUME NEW k \in Range(ks)
      PROVE  dd[k] \in Deltas /\ MayJoin(dd[k], items[k], store[k], Writes(k, Written))
  <2>1. k \in Key /\ store[k] # 0 /\ items[k] = <<>> BY <1>3
  <2> DEFINE d == dd[k]
             st == store[k]
             ds == items[k]
  <2>2. st \in Nat /\ st \in Writes(k, Written) BY <1>2, <2>1 DEF VersionInv
  <2>3. d = Delta("Sync", st) BY <2>1
  <2>4. Len(ds) = 0 /\ ds = <<>> BY <2>1
  <2> HIDE DEF d, st, ds
  <2>5. d \in Deltas /\ d.obj = st /\ d.type = "Sync" /\ ~IsDeletion(d) BY <2>2, <2>3 DEF Delta, Deltas, IsDeletion
  <2>6. \A i \in 1..Len(ds) : FALSE BY <2>4
  <2>7. MayJoin(d, ds, st, Writes(k, Written)) BY <2>2, <2>4, <2>5, <2>6 DEF MayJoin
  <2> QED BY <2>5, <2>7 DEF d, st, ds
<1>5. /\ items' \in [Key -> Seq(Deltas)] /\ queue' \in Seq(Key) /\ QueueInv'
      /\ \A k \in Key : /\ Fitting(items'[k], store[k])
                        /\ Ordered(items'[k], store[k], Writes(k, Written))
      /\ initialPopulationCount <= Len(queue')
      /\ unpopped = {queue'[i] : i \in 1..initialPopulationCount}
  <2> HIDE DEF ks, dd
  <2> QED BY <1>1, <1>2, <1>3, <1>4, QueueKeeps
<1> HIDE DEF S, ks, dd
<1>6. TypeOK' BY <1>1, <1>5 DEF TypeOK, reflectorVars, listenerVars
<1>7. BatchInv'
  <2>1. populated' BY <1>1 DEF BatchInv
  <2> QED BY <1>1, <1>5, <2>1 DEF BatchInv
<1>8. DeltaInv' BY <1>1, <1>5 DEF DeltaInv
<1>9. VersionInv'
  <2>1. Written' = Written BY <1>1 DEF Written, reflectorVars
  <2>2. \A k \in Key : Writes(k, Written)' = Writes(k, Written) BY <1>1, <2>1 DEF Writes
  <2> QED BY <1>1, <1>5, <2>1, <2>2 DEF VersionInv, reflectorVars
<1>10. HandlerInv' BY <1>1 DEF HandlerInv, listenerVars
<1> QED BY <1>5, <1>6, <1>7, <1>8, <1>9, <1>10
\* What taking the head off a sequence without duplicates leaves.
LEMMA TailFacts ==
    ASSUME NEW X, NEW s \in Seq(X), s # <<>>, Distinct(s)
    PROVE  /\ Tail(s) \in Seq(X) /\ Distinct(Tail(s)) /\ Range(Tail(s)) = Range(s) \ {Head(s)}
           /\ Head(s) \in Range(s) /\ Head(s) = s[1]
           /\ Len(Tail(s)) = Len(s) - 1 /\ \A i \in 1..(Len(s) - 1) : Tail(s)[i] = s[i + 1]
<1> DEFINE t == Tail(s)
           x == Head(s)
<1>0. Len(s) \in Nat /\ Len(s) # 0 /\ DOMAIN s = 1..Len(s) BY LenProperties, EmptySeq
<1>1. t \in Seq(X) /\ x = s[1] /\ Len(t) = Len(s) - 1 /\ \A i \in 1..(Len(s) - 1) : t[i] = s[i + 1]
  OBVIOUS
<1>2. DOMAIN t = 1..(Len(s) - 1) BY <1>0, <1>1, LenProperties
<1> HIDE DEF t, x
<1>3. \A i \in DOMAIN t : i + 1 \in DOMAIN s /\ i + 1 # 1 /\ t[i] = s[i + 1] BY <1>0, <1>1, <1>2
<1>4. 1 \in DOMAIN s BY <1>0
<1>5. Distinct(t)
  <2>1. ASSUME NEW i \in DOMAIN t, NEW j \in DOMAIN t, i # j PROVE t[i] # t[j]
    <3>1. i + 1 # j + 1 BY <2>1, <1>2, <1>0
    <3> QED BY <3>1, <1>3 DEF Distinct
  <2> QED BY <2>1 DEF Distinct
<1>6. x \in Range(s) BY <1>1, <1>4 DEF Range
<1>7. \A i \in DOMAIN t : t[i] \in Range(s) \ {x} BY <1>1, <1>3, <1>4 DEF Range, Distinct
<1>8. ASSUME NEW i \in DOMAIN s, s[i] # x PROVE s[i] \in Range(t)
  <2>1. i # 1 BY <1>8, <1>1
  <2>2. i - 1 \in DOMAIN t /\ (i - 1) + 1 = i BY <2>1, <1>0, <1>2
  <2>3. t[i - 1] = s[i] BY <2>2, <1>3
  <2> QED BY <2>2, <2>3 DEF Range
<1>9. Range(t) = Range(s) \ {x} BY <1>7, <1>8 DEF Range
<1> QED BY <1>1, <1>5, <1>6, <1>9 DEF t, x

\* A handler that joins is told of all the indexer has, while HandleDeltas is
\* kept out.
LEMMA AddEventHandlerKeeps == ASSUME IInv, NEW h \in Handler, AddEventHandler(h) PROVE IInv'
<1> USE DEF IInv
<1> DEFINE S == {k \in Key : store[k] # 0}
           known == SetToSeq(S)
           ns == [n \in DOMAIN known |-> Note("add", known[n], store[known[n]], FALSE)]
<1>1. /\ h \notin joined /\ joined' = joined \cup {h} /\ syncing' = syncing \cup {h}
      /\ pending' = [pending EXCEPT ![h] = ns]
      /\ UNCHANGED <<log, reflectorVars, fifoVars, store, view, faults, resyncVars>>
  BY DEF AddEventHandler
<1>2. known \in Seq(Key) /\ Range(known) = S /\ Distinct(known)
  <2>1. S \subseteq Key OBVIOUS
  <2>2. IsFiniteSet(S) BY <2>1, InformerAssumption, FS_Subset
  <2> HIDE DEF S
  <2>3. known \in Seq(S) /\ Range(known) = S /\ Distinct(known) BY <2>2, ListOfSet
  <2>4. known \in Seq(Key) BY <2>1, <2>3
  <2> QED BY <2>3, <2>4
<1>3. ns \in Seq(Notes) /\ Told(Absent, ns) = store
  <2>1. store \in [Key -> Nat] BY DEF TypeOK
  <2> HIDE DEF known
  <2> QED BY <2>1, <1>2, ToldAll
<1> HIDE DEF S, known, ns
<1>4. pending' \in [Handler -> Seq(Notes)] /\ pending'[h] = ns /\ \A g \in Handler \ {h} : pending'[g] = pending[g]
  <2> DEFINE Q == Seq(Notes)
  <2>1. pending \in [Handler -> Q] /\ ns \in Q BY <1>3 DEF TypeOK
  <2> HIDE DEF Q
  <2>2. pending' \in [Handler -> Q] /\ pending'[h] = ns /\ \A g \in Handler \ {h} : pending'[g] = pending[g]
    BY <2>1, <1>1
  <2> QED BY <2>2 DEF Q
<1>5. TypeOK' BY <1>1, <1>4 DEF TypeOK, reflectorVars, fifoVars, resyncVars
<1>6. QueueInv' /\ BatchInv' /\ DeltaInv' BY <1>1 DEF QueueInv, BatchInv, DeltaInv, fifoVars, resyncVars
<1>7. VersionInv'
  <2>1. Written' = Written BY <1>1 DEF Written, reflectorVars
  <2>2. \A k \in Key : Writes(k, Written)' = Writes(k, Written) BY <1>1, <2>1 DEF Writes
  <2> QED BY <1>1, <2>1, <2>2 DEF VersionInv, reflectorVars, fifoVars
<1>8. HandlerInv'
  <2>1. view' = view /\ store' = store /\ joined \subseteq Handler BY <1>1 DEF TypeOK
  <2>2. ASSUME NEW g \in joined' PROVE Told(view'[g], pending'[g]) = store'
    <3>1. CASE g = h
      <4>1. view[h] = Absent BY <1>1 DEF HandlerInv
      <4> QED BY <3>1, <4>1, <2>1, <1>3, <1>4
    <3>2. CASE g # h
      <4>1. g \in joined /\ g \in Handler BY <3>2, <2>1, <1>1
      <4>2. pending'[g] = pending[g] BY <3>2, <4>1, <1>4
      <4> QED BY <4>1, <4>2, <2>1 DEF HandlerInv
    <3> QED BY <3>1, <3>2
  <2>3. \A g \in Handler \ joined' : view'[g] = Absent /\ pending'[g] = <<>> BY <2>1, <1>1, <1>4 DEF HandlerInv
  <2> QED BY <2>2, <2>3, <2>1 DEF HandlerInv, Absent
<1> QED BY <1>5, <1>6, <1>7, <1>8
\* A listener passes its oldest notification on.
LEMMA NotifyKeeps == ASSUME IInv, NEW h \in Handler, Notify(h) PROVE IInv'
<1> USE DEF IInv
<1> DEFINE p == pending[h]
           v == view[h]
           n == Head(p)
           w == [v EXCEPT ![n.key] = IF n.kind = "delete" THEN 0 ELSE n.obj]
<1>1. /\ p # <<>> /\ view' = [view EXCEPT ![h] = w] /\ pending' = [pending EXCEPT ![h] = Tail(p)]
      /\ UNCHANGED <<log, reflectorVars, fifoVars, store, joined, syncing, faults, resyncVars>>
  BY DEF Notify
<1>2. /\ p \in Seq(Notes) /\ v \in [Key -> Nat] /\ view \in [Handler -> [Key -> Nat]]
      /\ pending \in [Handler -> Seq(Notes)] /\ store \in [Key -> Nat] /\ joined \subseteq Handler
  BY DEF TypeOK
<1>3. n \in Notes /\ Tail(p) \in Seq(Notes) BY <1>1, <1>2
<1>4. w \in [Key -> Nat]
  <2> DEFINE z == IF n.kind = "delete" THEN 0 ELSE n.obj
  <2>1. z \in Nat BY <1>3 DEF Notes
  <2>2. w = [v EXCEPT ![n.key] = z] OBVIOUS
  <2> HIDE DEF z, w
  <2> QED BY <2>1, <2>2, <1>2
<1>5. h \in joined => Told(w, Tail(p)) = store
  <2> SUFFICES ASSUME h \in joined PROVE Told(w, Tail(p)) = store OBVIOUS
  <2>1. Told(v, p) = store BY DEF HandlerInv
  <2>2. Told(v, p) \in [Key -> Nat] BY <2>1, <1>2
  <2>3. Told(w, Tail(p)) = Told(v, p)
    <3> HIDE DEF p, v
    <3> QED BY <1>1, <1>2, <2>2, ToldNotify
  <2> QED BY <2>1, <2>3
<1>6. h \in joined BY <1>1, <1>2 DEF HandlerInv
<1> DEFINE tl == Tail(p)
<1> HIDE DEF w, p
<1>7. /\ view' \in [Handler -> [Key -> Nat]] /\ view'[h] = w /\ \A g \in Handler \ {h} : view'[g] = view[g]
  <2> DEFINE Q == [Key -> Nat]
  <2>1. w \in Q /\ view \in [Handler -> Q] BY <1>2, <1>4
  <2> HIDE DEF Q
  <2>2. view' \in [Handler -> Q] /\ view'[h] = w /\ \A g \in Handler \ {h} : view'[g] = view[g] BY <2>1, <1>1
  <2> QED BY <2>2 DEF Q
<1>8. /\ pending' \in [Handler -> Seq(Notes)] /\ pending'[h] = tl
      /\ \A g \in Handler \ {h} : pending'[g] = pending[g]
  <2> DEFINE Q == Seq(Notes)
  <2>1. tl \in Q /\ pending \in [Handler -> Q] /\ pending' = [pending EXCEPT ![h] = tl] BY <1>1, <1>2, <1>3
  <2> HIDE DEF Q, tl
  <2>2. /\ pending' \in [Handler -> Q] /\ pending'[h] = tl
        /\ \A g \in Handler \ {h} : pending'[g] = pending[g] BY <2>1
  <2> QED BY <2>2 DEF Q
<1>9. TypeOK' BY <1>1, <1>7, <1>8 DEF TypeOK, reflectorVars, fifoVars, resyncVars
<1>10. QueueInv' /\ BatchInv' /\ DeltaInv' BY <1>1 DEF QueueInv, BatchInv, DeltaInv, fifoVars, resyncVars
<1>11. VersionInv'
  <2>1. Written' = Written BY <1>1 DEF Written, reflectorVars
  <2>2. \A k \in Key : Writes(k, Written)' = Writes(k, Written) BY <1>1, <2>1 DEF Writes
  <2> QED BY <1>1, <2>1, <2>2 DEF VersionInv, reflectorVars, fifoVars
<1>12. HandlerInv'
  <2>1. ASSUME NEW g \in joined PROVE Told(view'[g], pending'[g]) = store
    <3>1. CASE g = h BY <3>1, <1>5, <1>6, <1>7, <1>8
    <3>2. CASE g # h
      <4>1. view'[g] = view[g] /\ pending'[g] = pending[g] BY <3>2, <1>2, <1>7, <1>8
      <4> QED BY <4>1 DEF HandlerInv
    <3> QED BY <3>1, <3>2
  <2>2. \A g \in Handler \ joined : view'[g] = Absent /\ pending'[g] = <<>> BY <1>6, <1>7, <1>8 DEF HandlerInv
  <2> QED BY <2>1, <2>2, <1>1 DEF HandlerInv, Absent
<1> QED BY <1>9, <1>10, <1>11, <1>12

\* Pop with HandleDeltas: the key leaves queue and items together, the indexer
\* takes the last delta, and every listener gets the notifications that lead
\* there.
LEMMA PopKeeps == ASSUME IInv, Pop PROVE IInv'
<1> USE DEF IInv
<1> DEFINE k == Head(queue)
           ds == items[k]
           z == After(Last(ds))
           c == initialPopulationCount
           Hd(h) == HandleDeltas(k, h \in syncing)
<1>1. /\ queue # <<>> /\ queue' = Tail(queue)
      /\ items' = [items EXCEPT ![k] = <<>>] /\ unpopped' = unpopped \ {k}
      /\ store' = [store EXCEPT ![k] = z]
      /\ pending' = [h \in Handler |-> IF h \in joined THEN pending[h] \o Hd(h) ELSE pending[h]]
      /\ initialPopulationCount' = IF c > 0 THEN c - 1 ELSE 0
      /\ UNCHANGED <<log, reflectorVars, populated, joined, syncing, view, faults, resyncVars>>
  BY DEF Pop
<1>2. /\ queue \in Seq(Key) /\ items \in [Key -> Seq(Deltas)] /\ store \in [Key -> Nat]
      /\ pending \in [Handler -> Seq(Notes)] /\ view \in [Handler -> [Key -> Nat]]
      /\ c \in Nat /\ joined \subseteq Handler /\ Written \in Nat
  BY WrittenFacts DEF TypeOK
<1>3. /\ queue' \in Seq(Key) /\ Distinct(queue') /\ Range(queue') = Range(queue) \ {k}
      /\ k \in Range(queue) /\ k = queue[1]
      /\ Len(queue') = Len(queue) - 1 /\ \A i \in 1..(Len(queue) - 1) : queue'[i] = queue[i + 1]
  BY <1>1, <1>2, TailFacts DEF QueueInv
<1>4. k \in Key BY <1>2, <1>3, RangeInType
<1> HIDE DEF k
<1>5. ds \in Seq(Deltas) /\ ds # <<>> /\ Fitting(ds, store[k])
  BY <1>2, <1>3, <1>4 DEF QueueInv, DeltaInv
<1>6. ASSUME NEW h \in joined
      PROVE  Hd(h) \in Seq(Notes) /\ z \in Nat /\ Told(view[h], pending[h] \o Hd(h)) = [store EXCEPT ![k] = z]
  <2> DEFINE hd == Hd(h)
             sy == h \in syncing
  <2>2. HandleDeltas(k, sy) \in Seq(Notes) /\ Told(store, HandleDeltas(k, sy)) \in [Key -> Nat]
        /\ (\A j \in Key : Told(store, HandleDeltas(k, sy))[j] = IF j = k THEN z ELSE store[j])
        /\ z \in Nat
    <3>0. store \in [Key -> Nat] /\ items[k] \in Seq(Deltas) /\ items[k] # <<>>
          /\ Fitting(items[k], store[k])
      BY <1>2, <1>5
    <3>1. \A w : /\ HandleDeltas(k, w) \in Seq(Notes) /\ Told(store, HandleDeltas(k, w)) \in [Key -> Nat]
                 /\ \A j \in Key : Told(store, HandleDeltas(k, w))[j] = IF j = k THEN After(Last(items[k])) ELSE store[j]
                 /\ After(Last(items[k])) \in Nat
      BY ONLY <1>4, <3>0, HandleDeltasTells
    <3> HIDE DEF sy
    <3> QED BY <3>1
  <2>3. hd \in Seq(Notes) /\ Told(store, hd) = [store EXCEPT ![k] = z]
    <3> DEFINE t == Told(store, hd)
    <3>1. hd \in Seq(Notes) /\ t \in [Key -> Nat] /\ (\A j \in Key : t[j] = IF j = k THEN z ELSE store[j]) /\ z \in Nat
      BY <2>2
    <3> HIDE DEF t, z, hd
    <3>2. t = [store EXCEPT ![k] = z] BY <3>1, <1>2, <1>4
    <3> QED BY <3>1, <3>2 DEF t
  <2>4. Told(view[h], pending[h]) = store BY DEF HandlerInv
  <2>5. pending[h] \in Seq(Notes) BY <1>2
  <2> HIDE DEF hd
  <2>6. Told(view[h], pending[h] \o hd) = Told(Told(view[h], pending[h]), hd) BY <2>3, <2>5, ToldConcat
  <2> QED BY <2>2, <2>3, <2>4, <2>6 DEF hd
<1>7. z \in Nat /\ (z # 0 => z \in Writes(k, Written))
  <2>1. Len(ds) \in Nat /\ Len(ds) # 0 BY <1>5, LenProperties, EmptySeq
  <2>2. Len(ds) \in 1..Len(ds) BY <2>1
  <2> DEFINE d == ds[Len(ds)]
  <2>3. d \in Deltas BY <1>5, <2>2, ElementOfSeq
  <2>4. Ordered(ds, store[k], Writes(k, Written)) BY <1>4 DEF VersionInv
  <2>5. ~IsDeletion(d) => d.obj \in Writes(k, Written) BY <2>2, <2>4 DEF Ordered
  <2>6. z = IF IsDeletion(d) THEN 0 ELSE d.obj BY DEF Last, After
  <2> HIDE DEF d, z
  <2> QED BY <2>3, <2>5, <2>6 DEF Deltas
<1> HIDE DEF z
<1>8. /\ items' \in [Key -> Seq(Deltas)] /\ items'[k] = <<>> /\ \A q \in Key \ {k} : items'[q] = items[q]
  <2> DEFINE Q == Seq(Deltas)
             none == <<>>
  <2>1. none \in Q /\ items \in [Key -> Q] /\ items' = [items EXCEPT ![k] = none] BY <1>1, <1>2
  <2> HIDE DEF Q, none
  <2>2. /\ items' \in [Key -> Q] /\ items'[k] = none /\ \A q \in Key \ {k} : items'[q] = items[q]
    BY <2>1, <1>4
  <2> QED BY <2>2 DEF Q, none
<1>9. store' \in [Key -> Nat] /\ store'[k] = z /\ \A q \in Key \ {k} : store'[q] = store[q]
  BY <1>1, <1>2, <1>4, <1>7
<1> HIDE DEF Hd
<1>10. /\ pending' \in [Handler -> Seq(Notes)]
       /\ \A h \in joined : pending'[h] = pending[h] \o Hd(h)
       /\ \A h \in Handler \ joined : pending'[h] = pending[h]
  <2>1. \A h \in joined : pending[h] \o Hd(h) \in Seq(Notes)
    <3> SUFFICES ASSUME NEW h \in joined PROVE pending[h] \o Hd(h) \in Seq(Notes) OBVIOUS
    <3>1. pending[h] \in Seq(Notes) /\ Hd(h) \in Seq(Notes) BY <1>2, <1>6
    <3> QED BY <3>1, ConcatFacts
  <2> QED BY <2>1, <1>1, <1>2
<1>11. Len(queue) \in Nat /\ Len(queue) # 0 BY <1>1, <1>2, LenProperties, EmptySeq
<1>12. /\ initialPopulationCount' \in Nat /\ unpopped' \in SUBSET Key
       /\ initialPopulationCount' <= Len(queue')
       /\ unpopped' = {queue'[i] : i \in 1..initialPopulationCount'}
  <2> DEFINE b == initialPopulationCount'
  <2>1. b = IF c > 0 THEN c - 1 ELSE 0 BY <1>1
  <2>2. c <= Len(queue) /\ unpopped = {queue[i] : i \in 1..c} BY DEF BatchInv
  <2> HIDE DEF b, c
  <2>3. b \in Nat /\ b <= Len(queue') BY <2>1, <2>2, <1>2, <1>3, <1>11
  <2>4. unpopped' \in SUBSET Key BY <1>1 DEF TypeOK
  <2>5. unpopped' = {queue'[i] : i \in 1..b}
    <3>1. \A i \in 1..b : i \in 1..(Len(queue) - 1) /\ i + 1 \in 1..c /\ i + 1 \in 1..Len(queue) /\ i + 1 # 1
      <4>1. c \in Nat BY <1>2 DEF c
      <4> QED BY <4>1, <2>1, <2>2, <1>11
    <3>2. DOMAIN queue = 1..Len(queue) /\ 1 \in 1..Len(queue) BY <1>2, <1>11, LenProperties
    <3>3. \A i \in 1..b : queue'[i] = queue[i + 1] /\ queue[i + 1] # k
      <4> SUFFICES ASSUME NEW i \in 1..b PROVE queue'[i] = queue[i + 1] /\ queue[i + 1] # k OBVIOUS
      <4>1. i + 1 \in DOMAIN queue /\ 1 \in DOMAIN queue /\ i + 1 # 1 BY <3>1, <3>2
      <4>2. queue[i + 1] # queue[1] BY <4>1 DEF QueueInv, Distinct
      <4>3. queue'[i] = queue[i + 1] BY <3>1, <1>3
      <4> QED BY <4>2, <4>3, <1>3
    <3>4. \A i \in 1..b : queue'[i] \in unpopped \ {k} BY <3>1, <3>3, <2>2
    <3>5. ASSUME NEW i \in 1..c, queue[i] # k PROVE \E j \in 1..b : queue'[j] = queue[i]
      <4>1. i # 1 BY <3>5, <1>3
      <4>2. i - 1 \in 1..b /\ (i - 1) + 1 = i BY <4>1, <2>1, <2>2, <1>2
      <4>3. queue'[i - 1] = queue[i] BY <4>2, <3>3
      <4> QED BY <4>2, <4>3
    <3>6. unpopped' = unpopped \ {k} BY <1>1
    <3>7. {queue'[i] : i \in 1..b} \subseteq unpopped \ {k} BY <3>4
    <3>8. unpopped \ {k} \subseteq {queue'[i] : i \in 1..b} BY <3>5, <2>2
    <3> QED BY <3>6, <3>7, <3>8
  <2> QED BY <2>3, <2>4, <2>5 DEF b
<1>13. TypeOK' BY <1>1, <1>3, <1>8, <1>9, <1>10, <1>12 DEF TypeOK, reflectorVars, resyncVars
<1>14. QueueInv' BY <1>3, <1>8 DEF QueueInv
<1>15. BatchInv'
  <2>1. populated' = populated BY <1>1
  <2>2. populated BY <1>1 DEF BatchInv
  <2> QED BY <2>1, <2>2, <1>12 DEF BatchInv
<1>16. ASSUME NEW q \in Key
       PROVE  /\ Fitting(items'[q], store'[q]) /\ Ordered(items'[q], store'[q], Writes(q, Written))
              /\ store'[q] # 0 => store'[q] \in Writes(q, Written)
  <2>1. CASE q = k
    <3>1. items'[q] = <<>> /\ Len(<<>>) = 0 BY <2>1, <1>8
    <3>2. Fitting(items'[q], store'[q]) BY <3>1 DEF Fitting
    <3>3. Ordered(items'[q], store'[q], Writes(q, Written)) BY <3>1 DEF Ordered
    <3> QED BY <2>1, <3>2, <3>3, <1>7, <1>9
  <2>2. CASE q # k
    <3>1. items'[q] = items[q] /\ store'[q] = store[q] BY <2>2, <1>8, <1>9
    <3> QED BY <3>1 DEF DeltaInv, VersionInv
  <2> QED BY <2>1, <2>2
<1>17. DeltaInv' BY <1>16 DEF DeltaInv
<1>18. VersionInv'
  <2>1. Written' = Written BY <1>1 DEF Written, reflectorVars
  <2>2. \A q \in Key : Writes(q, Written)' = Writes(q, Written) BY <1>1, <2>1 DEF Writes
  <2> QED BY <1>1, <1>16, <2>1, <2>2 DEF VersionInv, reflectorVars
<1>19. HandlerInv'
  <2>1. \A h \in joined : Told(view[h], pending'[h]) = store' BY <1>1, <1>6, <1>10
  <2>2. \A h \in Handler \ joined : view[h] = Absent /\ pending'[h] = <<>> BY <1>10 DEF HandlerInv
  <2>3. view' = view /\ joined' = joined BY <1>1
  <2> QED BY <2>1, <2>2, <2>3 DEF HandlerInv, Absent
<1> QED BY <1>13, <1>14, <1>15, <1>17, <1>18, <1>19
-----------------------------------------------------------------------------
\* Nothing changes.
LEMMA StutterKeeps == ASSUME IInv, UNCHANGED vars PROVE IInv'
<1> USE DEF IInv, vars, reflectorVars, fifoVars, listenerVars, resyncVars
<1>1. TypeOK' BY DEF TypeOK
<1>2. QueueInv' /\ BatchInv' /\ DeltaInv' BY DEF QueueInv, BatchInv, DeltaInv
<1>3. VersionInv'
  <2>1. Written' = Written BY DEF Written
  <2>2. \A k \in Key : Writes(k, Written)' = Writes(k, Written) BY <2>1 DEF Writes
  <2> QED BY <2>1, <2>2 DEF VersionInv
<1>4. HandlerInv' BY DEF HandlerInv
<1> QED BY <1>1, <1>2, <1>3, <1>4

\* The inductive invariant holds in every state the informer reaches.
THEOREM Invariance == Spec => []IInv
<1>1. Init => IInv BY InitIInv
<1>2. IInv /\ [Next]_vars => IInv'
  <2> SUFFICES ASSUME IInv, [Next]_vars PROVE IInv' OBVIOUS
  <2>1. CASE List \/ ListUnavailable \/ ListFails \/ Watch \/ WatchFails \/ WatchEnds
    BY <2>1, MovesKeep DEF Moves
  <2>2. CASE SyncWith \/ setLastSyncResourceVersion BY <2>2, SyncWithKeeps, SetLastSyncKeeps
  <2>3. CASE WatchEvent BY <2>3, WatchEventKeeps
  <2>4. CASE Pop BY <2>4, PopKeeps
  <2>5. CASE shouldResync \/ Resync BY <2>5, ShouldResyncKeeps, ResyncKeeps
  <2>6. CASE \E k \in Key, type \in {"ADDED", "MODIFIED", "DELETED"} : Write(k, type)
    BY <2>6, WriteKeeps
  <2>7. CASE \E h \in Handler : AddEventHandler(h) \/ Notify(h)
    BY <2>7, AddEventHandlerKeeps, NotifyKeeps
  <2>8. CASE UNCHANGED vars BY <2>8, StutterKeeps
  <2> QED BY <2>1, <2>2, <2>3, <2>4, <2>5, <2>6, <2>7, <2>8 DEF Next, ListAndWatch
<1> QED BY <1>1, <1>2, PTL DEF Spec

\* delta_fifo.go: `queue` has no duplicates and holds exactly the keys of
\* `items`, so that Pop neither loses deltas nor finds none.
THEOREM QueueIsExact == Spec => []QueueMatchesItems
<1>1. IInv => QueueMatchesItems
  <2> SUFFICES ASSUME IInv PROVE QueueMatchesItems OBVIOUS
  <2>1. DOMAIN queue = 1..Len(queue) BY LenProperties DEF IInv, TypeOK
  <2>2. \A m, n \in 1..Len(queue) : queue[m] = queue[n] => m = n
    BY <2>1 DEF IInv, QueueInv, Distinct
  <2>3. Range(queue) = ToSet(queue) BY DEF Range, ToSet
  <2> QED BY <2>2, <2>3 DEF IInv, QueueInv, QueueMatchesItems
<1> QED BY <1>1, Invariance, PTL

\* HasSynced holds from the moment the last key of the first list was popped,
\* whatever was queued in between, and never stops holding.
THEOREM SyncedWhenPopped == Spec => []SyncedIsFirstBatch
<1>1. IInv => SyncedIsFirstBatch
  <2> SUFFICES ASSUME IInv PROVE SyncedIsFirstBatch OBVIOUS
  <2> DEFINE c == initialPopulationCount
  <2>1. c \in Nat /\ unpopped = {queue[i] : i \in 1..c} BY DEF IInv, TypeOK, BatchInv
  <2>2. c = 0 <=> unpopped = {}
    <3>1. CASE c = 0 BY <3>1, <2>1
    <3>2. CASE c # 0
      <4>1. 1 \in 1..c BY <3>2, <2>1
      <4> QED BY <3>2, <4>1, <2>1
    <3> QED BY <3>1, <3>2
  <2> QED BY <2>2 DEF SyncedIsFirstBatch, HasSynced
<1> QED BY <1>1, Invariance, PTL

\* shared_informer.go: what is known and queued of an object is in the order in
\* which it was written, however lists, watches and resyncs overlap, and
\* nothing is newer than what the reflector has handed over, which is ahead of
\* lastSyncResourceVersion between the write to the store and its setting.
THEOREM OrderIsKept == Spec => []StatesInOrder
<1>1. IInv => StatesInOrder
  <2> SUFFICES ASSUME IInv, NEW k \in Key
               PROVE  LET present == {n \in DOMAIN items[k] : ~IsDeletion(items[k][n])}
                      IN  /\ store[k] <= Written
                          /\ \A n \in present : store[k] <= items[k][n].obj /\ items[k][n].obj <= Written
                          /\ \A m, n \in present : m < n => items[k][m].obj <= items[k][n].obj
    BY DEF StatesInOrder
  <2> DEFINE ds == items[k]
             st == store[k]
             W == Writes(k, Written)
  <2>1. Written \in Nat /\ st \in Nat /\ ds \in Seq(Deltas) BY WrittenFacts DEF IInv, TypeOK
  <2>2. DOMAIN ds = 1..Len(ds) BY <2>1, LenProperties
  <2>3. \A m \in W : m <= Written
    <3>1. W \subseteq 1..Written BY DEF Writes
    <3>2. \A m \in 1..Written : m <= Written BY <2>1
    <3> QED BY <3>1, <3>2
  <2>4. (st # 0 => st \in W) /\ Ordered(ds, st, W) BY DEF IInv, VersionInv
  <2>5. st <= Written BY <2>1, <2>3, <2>4
  <2> HIDE DEF ds, st, W
  <2>6. \A n \in DOMAIN ds : ~IsDeletion(ds[n]) => st <= ds[n].obj /\ ds[n].obj <= Written
    BY <2>2, <2>3, <2>4 DEF Ordered
  <2>7. \A m, n \in DOMAIN ds : m < n /\ ~IsDeletion(ds[m]) /\ ~IsDeletion(ds[n]) => ds[m].obj <= ds[n].obj
    BY <2>2, <2>4 DEF Ordered
  <2> QED BY <2>5, <2>6, <2>7 DEF ds, st
<1> QED BY <1>1, Invariance, PTL

\* Every handler, whenever it joined: what it has been told and what is on its
\* way lead to exactly what the indexer has, and no notification adds what the
\* handler has or updates or deletes what it has not.
THEOREM HandlersAreTold == Spec => []HandlersAgree
<1>1. IInv => HandlersAgree BY DEF IInv, HandlerInv, HandlersAgree
<1> QED BY <1>1, Invariance, PTL
=============================================================================
