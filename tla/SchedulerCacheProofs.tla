------------------------ MODULE SchedulerCacheProofs ------------------------
(***************************************************************************)
(* The scheduler cache counts every pod once, its indexes are exact, its   *)
(* incremental snapshot is complete after every refresh and it implements  *)
(* the abstract cache, for any number of pods, nodes, zones, images and    *)
(* binding goroutines.                                                     *)
(*                                                                         *)
(* The invariant has four parts. FreshInv: the list of NodeInfos is in     *)
(* order of generation and whatever is not newer than the snapshot is in   *)
(* it, so the early break of UpdateSnapshot misses nothing. PodInv: a pod  *)
(* is counted exactly where podStates has it, and podStates agrees with    *)
(* the informer. IndexInv: the tree and the image states hold the          *)
(* informer's nodes. SnapInv: between refreshes the snapshot's lists agree *)
(* with its own map, which a refresh that rebuilds nothing relies on.      *)
(***************************************************************************)
EXTENDS SchedulerCache, SequenceLemmas

\* Types of the list of NodeInfos, the NodeInfos and the generation counter.
ListType ==
    /\ list \in Seq(Node)
    /\ info \in [Node -> NodeInfo]
    /\ generation \in Nat

\* From the head of the list on, generations fall.
FallingGens == \A i, j \in DOMAIN list : i < j => info[list[i]].gen > info[list[j]].gen

\* The list has exactly the NodeInfos in use.
ListedAlive == \A n \in Node : InCache(n) <=> Alive(info[n])

\* No NodeInfo is newer than the counter.
GensBounded == \A n \in Node : info[n].gen <= generation

\* A node no newer than the snapshot is in it as it is in the cache.
SnapFresh ==
    \A n \in Node : (info[n].node # NoNode /\ info[n].gen <= snap.gen) => snap.map[n] = info[n]

\* The snapshot is no newer than the counter.
SnapGenBounded == snap.gen \in Int /\ snap.gen <= generation

\* What every locked method keeps of the list.
ListInv == ListType /\ FallingGens /\ ListedAlive /\ GensBounded

\* The list and what UpdateSnapshot's early break relies on.
FreshInv == ListInv /\ SnapFresh /\ SnapGenBounded

\* The NodeInfos of Touch, before the empty ones are dropped.
Stamped(order, inf) ==
    [n \in Node |->
        IF n \in Range(order)
        THEN [inf[n] EXCEPT !.gen = generation + Len(order) + 1
                                    - (CHOOSE i \in 1..Len(order) : order[i] = n)]
        ELSE inf[n]]

\* Touched NodeInfos get generations above the counter, falling along the
\* order; the others and all pods and node objects stay.
LEMMA StampedFacts ==
    ASSUME NEW order \in Seq(Node), Distinct(order), NEW inf \in [Node -> NodeInfo],
           generation \in Int
    PROVE  /\ Stamped(order, inf) \in [Node -> NodeInfo]
           /\ \A n \in Node : /\ Stamped(order, inf)[n].pods = inf[n].pods
                              /\ Stamped(order, inf)[n].node = inf[n].node
           /\ \A n \in Node : n \notin Range(order) => Stamped(order, inf)[n] = inf[n]
           /\ \A i \in 1..Len(order) :
                 Stamped(order, inf)[order[i]].gen = generation + Len(order) + 1 - i
<1>1. Len(order) \in Nat /\ DOMAIN order = 1..Len(order)
  BY LenProperties
<1> DEFINE at(n) == CHOOSE i \in 1..Len(order) : order[i] = n
<1>2. ASSUME NEW n \in Range(order) PROVE at(n) \in 1..Len(order) /\ order[at(n)] = n
  BY <1>1 DEF Range
<1>3. ASSUME NEW i \in 1..Len(order) PROVE order[i] \in Node /\ order[i] \in Range(order) /\ at(order[i]) = i
  <2>1. order[i] \in Range(order) BY <1>1 DEF Range
  <2>2. at(order[i]) \in 1..Len(order) /\ order[at(order[i])] = order[i] BY <2>1, <1>2
  <2>3. order[i] \in Node BY ElementOfSeq
  <2> HIDE DEF at
  <2> QED BY <2>1, <2>2, <2>3, <1>1 DEF Distinct
<1> DEFINE st == Stamped(order, inf)
<1>4. st = [n \in Node |-> IF n \in Range(order)
                           THEN [inf[n] EXCEPT !.gen = generation + Len(order) + 1 - at(n)]
                           ELSE inf[n]]
  BY DEF Stamped
<1> HIDE DEF st, at
<1>5. ASSUME NEW n \in Node, NEW e \in Int
      PROVE  /\ [inf[n] EXCEPT !.gen = e] \in NodeInfo
             /\ [inf[n] EXCEPT !.gen = e].pods = inf[n].pods
             /\ [inf[n] EXCEPT !.gen = e].node = inf[n].node
             /\ [inf[n] EXCEPT !.gen = e].gen = e
  BY DEF NodeInfo
<1>6. ASSUME NEW n \in Range(order) PROVE generation + Len(order) + 1 - at(n) \in Int
  BY <1>1, <1>2
<1>7. ASSUME NEW n \in Node
      PROVE  st[n] \in NodeInfo /\ st[n].pods = inf[n].pods /\ st[n].node = inf[n].node
             /\ (n \notin Range(order) => st[n] = inf[n])
             /\ (n \in Range(order) => st[n].gen = generation + Len(order) + 1 - at(n))
  <2>1. CASE n \in Range(order)
    <3> DEFINE e == generation + Len(order) + 1 - at(n)
    <3>1. e \in Int BY <2>1, <1>6
    <3>2. st[n] = [inf[n] EXCEPT !.gen = e] BY <1>4, <2>1
    <3> HIDE DEF e
    <3>3. st[n] \in NodeInfo /\ st[n].pods = inf[n].pods /\ st[n].node = inf[n].node /\ st[n].gen = e
      BY <3>1, <3>2, <1>5
    <3> QED BY <3>3, <2>1 DEF e
  <2>2. CASE n \notin Range(order)
    <3>1. st[n] = inf[n] BY <1>4, <2>2
    <3>2. inf[n] \in NodeInfo OBVIOUS
    <3> QED BY <3>1, <3>2, <2>2
  <2> QED BY <2>1, <2>2
<1>8. st \in [Node -> NodeInfo]
  <2>1. DOMAIN st = Node BY <1>4
  <2>2. st = [n \in Node |-> st[n]] BY <1>4
  <2> QED BY <2>2, <1>7
<1>9. \A i \in 1..Len(order) : st[order[i]].gen = generation + Len(order) + 1 - i
  BY <1>3, <1>7
<1> QED BY <1>7, <1>8, <1>9 DEF st
\* An empty NodeInfo is not in use.
LEMMA EmptyInfoFacts ==
    /\ EmptyInfo \in NodeInfo
    /\ EmptyInfo.node = NoNode /\ EmptyInfo.pods = [p \in Pod |-> 0] /\ EmptyInfo.gen = 0
    /\ ~Alive(EmptyInfo)
<1> DEFINE z == [p \in Pod |-> 0]
<1>1. z \in [Pod -> Nat] OBVIOUS
<1>2. \A p \in Pod : ~(z[p] > 0) OBVIOUS
<1> HIDE DEF z
<1>3. EmptyInfo = [node |-> NoNode, pods |-> z, gen |-> 0] BY DEF EmptyInfo, z
<1>4. EmptyInfo \in NodeInfo
  <2> DEFINE zero == 0
  <2>1. zero \in Int OBVIOUS
  <2> HIDE DEF zero
  <2>2. [node |-> NoNode, pods |-> z, gen |-> zero] \in NodeInfo BY <1>1, <2>1 DEF NodeInfo
  <2> QED BY <2>2, <1>3 DEF zero
<1>5. EmptyInfo.node = NoNode /\ EmptyInfo.pods = z /\ EmptyInfo.gen = 0 BY <1>3
<1>6. ~Alive(EmptyInfo) BY <1>2, <1>5 DEF Alive
<1> QED BY <1>4, <1>5, <1>6 DEF z

\* A NodeInfo that is not in use has no pods and no node object.
LEMMA DeadIsEmpty ==
    ASSUME NEW i \in NodeInfo, ~Alive(i)
    PROVE  i.node = NoNode /\ i.pods = [p \in Pod |-> 0]
<1>1. i.pods \in [Pod -> Nat] BY DEF NodeInfo
<1>2. \A p \in Pod : i.pods[p] = 0 BY <1>1 DEF Alive
<1>3. i.pods = [p \in Pod |-> 0]
  <2>1. i.pods = [p \in Pod |-> i.pods[p]] BY <1>1
  <2> QED BY <2>1, <1>2
<1> QED BY <1>3 DEF Alive

\* What Touch does to the NodeInfos: only generations change, and empty ones
\* are dropped.
LEMMA TouchedInfo ==
    ASSUME NEW order \in Seq(Node), Distinct(order), NEW inf \in [Node -> NodeInfo],
           generation \in Int, Touch(order, inf)
    PROVE  /\ info' \in [Node -> NodeInfo]
           /\ generation' = generation + Len(order) /\ generation' \in Int
           /\ \A n \in Node : info'[n].pods = inf[n].pods /\ info'[n].node = inf[n].node
           /\ \A n \in Node : /\ Alive(info'[n]) <=> Alive(Stamped(order, inf)[n])
                              /\ Alive(info'[n]) => info'[n] = Stamped(order, inf)[n]
                              /\ ~Alive(info'[n]) => info'[n].gen = 0
           /\ list' = Keep(order \o Keep(list, Node \ Range(order)),
                           {n \in Node : Alive(Stamped(order, inf)[n])})
<1> DEFINE st == Stamped(order, inf)
<1>1. /\ list' = Keep(order \o Keep(list, Node \ Range(order)), {n \in Node : Alive(st[n])})
      /\ info' = [n \in Node |-> IF Alive(st[n]) THEN st[n] ELSE EmptyInfo]
      /\ generation' = generation + Len(order)
  BY DEF Touch, Stamped, removeNodeInfoFromList, moveNodeInfoToHead
<1>2. /\ st \in [Node -> NodeInfo]
      /\ \A n \in Node : st[n].pods = inf[n].pods /\ st[n].node = inf[n].node
  BY StampedFacts
<1> HIDE DEF st
<1>3. info' \in [Node -> NodeInfo] BY <1>1, <1>2, EmptyInfoFacts
<1>4. Len(order) \in Nat BY LenProperties
<1>5. ASSUME NEW n \in Node
      PROVE  /\ info'[n].pods = inf[n].pods /\ info'[n].node = inf[n].node
             /\ Alive(info'[n]) <=> Alive(st[n])
             /\ Alive(info'[n]) => info'[n] = st[n]
             /\ ~Alive(info'[n]) => info'[n].gen = 0
  <2>1. CASE Alive(st[n])
    <3>1. info'[n] = st[n] BY <2>1, <1>1
    <3> QED BY <3>1, <2>1, <1>2
  <2>2. CASE ~Alive(st[n])
    <3>1. info'[n] = EmptyInfo BY <2>2, <1>1
    <3>2. st[n].node = NoNode /\ st[n].pods = [p \in Pod |-> 0] BY <2>2, <1>2, DeadIsEmpty
    <3> QED BY <3>1, <3>2, <2>2, <1>2, EmptyInfoFacts
  <2> QED BY <2>1, <2>2
<1> QED BY <1>1, <1>3, <1>4, <1>5 DEF st
\* With the touched nodes at the head, generations still fall along the list.
LEMMA MovedToHead ==
    ASSUME NEW order \in Seq(Node), Distinct(order), NEW inf \in [Node -> NodeInfo], ListInv,
           \A n \in Node : n \notin Range(order) => inf[n] = info[n]
    PROVE  LET l == order \o Keep(list, Node \ Range(order))
           IN  /\ l \in Seq(Node)
               /\ Range(l) = Range(order) \cup Range(list)
               /\ \A i, j \in DOMAIN l :
                     i < j => Stamped(order, inf)[l[i]].gen > Stamped(order, inf)[l[j]].gen
<1> DEFINE k == Keep(list, Node \ Range(order))
           st == Stamped(order, inf)
           l == order \o k
<1>0. list \in Seq(Node) /\ info \in [Node -> NodeInfo] /\ generation \in Int
  BY DEF ListInv, ListType
<1>1. k \in Seq(Node) /\ Range(k) = Range(list) \cap (Node \ Range(order))
  BY <1>0, KeepElements
<1>2. Range(k) = Range(list) \ Range(order)
  <2>1. Range(list) \subseteq Node BY <1>0, LenProperties DEF Range
  <2> HIDE DEF k
  <2> QED BY <1>1, <2>1
<1> DEFINE g == [n \in Node |-> info[n].gen]
<1>3. \A i, j \in DOMAIN k : i < j => g[k[i]] > g[k[j]]
  <2>1. \A i, j \in DOMAIN list : i < j => g[list[i]] > g[list[j]]
    <3>1. \A i \in DOMAIN list : list[i] \in Node BY <1>0, LenProperties
    <3> QED BY <3>1 DEF ListInv, FallingGens
  <2> HIDE DEF g, k
  <2>2. \A i, j \in DOMAIN Keep(list, Node \ Range(order)) : i < j =>
           g[Keep(list, Node \ Range(order))[i]] > g[Keep(list, Node \ Range(order))[j]]
    BY <1>0, <2>1, KeepOrder
  <2> QED BY <2>2 DEF k
<1>4. /\ st \in [Node -> NodeInfo]
      /\ \A n \in Node : n \notin Range(order) => st[n] = inf[n]
      /\ \A i \in 1..Len(order) : st[order[i]].gen = generation + Len(order) + 1 - i
  BY <1>0, StampedFacts
<1> HIDE DEF k, st
<1>5. /\ l \in Seq(Node) /\ Len(l) = Len(order) + Len(k)
      /\ \A i \in 1..Len(order) + Len(k) : l[i] = IF i <= Len(order) THEN order[i] ELSE k[i - Len(order)]
      /\ DOMAIN l = 1..Len(l)
  BY <1>1, ConcatProperties, LenProperties
<1>6. Len(order) \in Nat /\ Len(k) \in Nat /\ DOMAIN k = 1..Len(k) /\ DOMAIN order = 1..Len(order)
  BY <1>1, LenProperties
<1> HIDE DEF l
<1>7. Range(l) = Range(order) \cup Range(k)
  <2>1. ASSUME NEW i \in DOMAIN l PROVE l[i] \in Range(order) \cup Range(k)
    <3>1. CASE i <= Len(order)
      BY <3>1, <1>5, <1>6 DEF Range
    <3>2. CASE ~(i <= Len(order))
      <4>1. i - Len(order) \in DOMAIN k BY <3>2, <1>5, <1>6
      <4> QED BY <4>1, <3>2, <1>5, <1>6 DEF Range
    <3> QED BY <3>1, <3>2
  <2>2. ASSUME NEW i \in DOMAIN order PROVE order[i] \in Range(l)
    <3>1. i \in DOMAIN l /\ l[i] = order[i] BY <1>5, <1>6
    <3> QED BY <3>1 DEF Range
  <2>3. ASSUME NEW i \in DOMAIN k PROVE k[i] \in Range(l)
    <3>1. i + Len(order) \in DOMAIN l /\ l[i + Len(order)] = k[i] BY <1>5, <1>6
    <3> QED BY <3>1 DEF Range
  <2> QED BY <2>1, <2>2, <2>3 DEF Range
<1>8. ASSUME NEW i \in DOMAIN k
      PROVE  k[i] \in Node /\ st[k[i]].gen = g[k[i]] /\ g[k[i]] \in Int /\ g[k[i]] <= generation
  <2>1. k[i] \in Node /\ k[i] \notin Range(order) BY <1>1, <1>2, <1>6, ElementOfSeq DEF Range
  <2>2. st[k[i]] = info[k[i]] BY <2>1, <1>4
  <2>3. info[k[i]].gen \in Int BY <2>1, <1>0 DEF NodeInfo
  <2> QED BY <2>1, <2>2, <2>3 DEF ListInv, GensBounded
<1>9. ASSUME NEW i \in DOMAIN l, NEW j \in DOMAIN l, i < j PROVE st[l[i]].gen > st[l[j]].gen
  <2>1. CASE j <= Len(order)
    <3>1. i \in 1..Len(order) /\ j \in 1..Len(order) BY <2>1, <1>5, <1>6, <1>9
    <3>2. l[i] = order[i] /\ l[j] = order[j] BY <3>1, <1>5, <1>6
    <3>3. st[order[i]].gen = generation + Len(order) + 1 - i
          /\ st[order[j]].gen = generation + Len(order) + 1 - j
      BY <3>1, <1>4
    <3> QED BY <3>1, <3>2, <3>3, <1>0, <1>6, <1>9
  <2>2. CASE ~(j <= Len(order)) /\ i <= Len(order)
    <3>1. i \in 1..Len(order) /\ j - Len(order) \in DOMAIN k BY <2>2, <1>5, <1>6, <1>9
    <3>2. l[i] = order[i] /\ l[j] = k[j - Len(order)] BY <3>1, <2>2, <1>5, <1>6
    <3>3. st[order[i]].gen = generation + Len(order) + 1 - i BY <3>1, <1>4
    <3>4. st[l[j]].gen \in Int /\ st[l[j]].gen <= generation
      BY <3>1, <3>2, <1>8
    <3> QED BY <3>1, <3>2, <3>3, <3>4, <1>0, <1>6
  <2>3. CASE ~(i <= Len(order))
    <3>1. i - Len(order) \in DOMAIN k /\ j - Len(order) \in DOMAIN k
          /\ i - Len(order) < j - Len(order)
      BY <2>3, <1>5, <1>6, <1>9
    <3>2. l[i] = k[i - Len(order)] /\ l[j] = k[j - Len(order)] BY <2>3, <1>5, <1>6, <1>9
    <3> HIDE DEF g
    <3> QED BY <3>1, <3>2, <1>3, <1>8
  <2> QED BY <2>1, <2>2, <2>3, <1>5, <1>6, <1>9
<1>10. Range(l) = Range(order) \cup Range(list) BY <1>2, <1>7
<1> QED BY <1>5, <1>9, <1>10 DEF l, k, st
\* A method that changes NodeInfos and moves them to the head keeps what the
\* early break relies on.
LEMMA TouchKeepsOrder ==
    ASSUME NEW order \in Seq(Node), Distinct(order), NEW inf \in [Node -> NodeInfo],
           \A n \in Node : n \notin Range(order) => inf[n] = info[n],
           FreshInv, Touch(order, inf), snap' = snap
    PROVE  /\ FreshInv'
           /\ \A n \in Node : info'[n].pods = inf[n].pods /\ info'[n].node = inf[n].node
<1> DEFINE st == Stamped(order, inf)
           l == order \o Keep(list, Node \ Range(order))
           live == {n \in Node : Alive(st[n])}
<1>0. ListInv /\ list \in Seq(Node) /\ info \in [Node -> NodeInfo] /\ generation \in Nat /\ generation \in Int
  BY DEF FreshInv, ListInv, ListType
<1>1. /\ info' \in [Node -> NodeInfo]
      /\ generation' = generation + Len(order) /\ generation' \in Int
      /\ \A n \in Node : info'[n].pods = inf[n].pods /\ info'[n].node = inf[n].node
      /\ \A n \in Node : /\ Alive(info'[n]) <=> Alive(st[n])
                         /\ Alive(info'[n]) => info'[n] = st[n]
                         /\ ~Alive(info'[n]) => info'[n].gen = 0
      /\ list' = Keep(l, live)
  BY <1>0, TouchedInfo
<1>2. /\ l \in Seq(Node) /\ Range(l) = Range(order) \cup Range(list)
      /\ \A i, j \in DOMAIN l : i < j => st[l[i]].gen > st[l[j]].gen
  BY <1>0, MovedToHead
<1>3. /\ st \in [Node -> NodeInfo]
      /\ \A n \in Node : n \notin Range(order) => st[n] = info[n]
      /\ \A i \in 1..Len(order) : st[order[i]].gen = generation + Len(order) + 1 - i
  BY <1>0, StampedFacts
<1>4. Len(order) \in Nat /\ DOMAIN order = 1..Len(order) BY LenProperties
<1> HIDE DEF st, l
<1>5. list' \in Seq(Node) /\ Range(list') = Range(l) \cap live
  BY <1>1, <1>2, KeepElements
<1>6. generation' \in Nat BY <1>0, <1>1, <1>4
<1>7. ListType' BY <1>1, <1>5, <1>6 DEF ListType
<1>8. \A i \in DOMAIN list' : list'[i] \in Node /\ Alive(st[list'[i]])
  <2>1. \A i \in DOMAIN list' : list'[i] \in Range(list') BY DEF Range
  <2> QED BY <2>1, <1>5
<1>9. FallingGens'
  <2> DEFINE g == [n \in Node |-> st[n].gen]
  <2>1. \A i \in DOMAIN l : l[i] \in Node BY <1>2, LenProperties
  <2>2. \A i, j \in DOMAIN l : i < j => g[l[i]] > g[l[j]] BY <2>1, <1>2
  <2> HIDE DEF g, live
  <2>3. \A i, j \in DOMAIN Keep(l, live) : i < j => g[Keep(l, live)[i]] > g[Keep(l, live)[j]]
    BY <2>2, <1>2, KeepOrder
  <2>4. \A i, j \in DOMAIN list' : i < j => g[list'[i]] > g[list'[j]]
    BY <2>3, <1>1
  <2>5. \A i \in DOMAIN list' : g[list'[i]] = info'[list'[i]].gen
    <3> SUFFICES ASSUME NEW i \in DOMAIN list' PROVE g[list'[i]] = info'[list'[i]].gen OBVIOUS
    <3>1. list'[i] \in Node /\ Alive(st[list'[i]]) BY <1>8
    <3>2. info'[list'[i]] = st[list'[i]] BY <3>1, <1>1
    <3> QED BY <3>1, <3>2 DEF g
  <2> QED BY <2>4, <2>5 DEF FallingGens
<1>10. ASSUME NEW n \in Node PROVE (n \in Range(list')) <=> Alive(info'[n])
  <2>1. CASE n \in Range(order) BY <2>1, <1>1, <1>2, <1>5
  <2>2. CASE n \notin Range(order)
    <3>1. st[n] = info[n] BY <2>2, <1>3
    <3>2. n \in Range(list) <=> Alive(info[n]) BY <1>0 DEF ListInv, ListedAlive, InCache
    <3> QED BY <3>1, <3>2, <2>2, <1>1, <1>2, <1>5
  <2> QED BY <2>1, <2>2
<1>11. ListedAlive' BY <1>10 DEF ListedAlive, InCache
<1>12. ASSUME NEW n \in Node, n \in Range(order)
       PROVE  st[n].gen \in Int /\ st[n].gen > generation /\ st[n].gen <= generation + Len(order)
  <2>1. PICK i \in 1..Len(order) : order[i] = n BY <1>12, <1>4 DEF Range
  <2>2. st[n].gen = generation + Len(order) + 1 - i BY <2>1, <1>3
  <2> QED BY <2>1, <2>2, <1>0, <1>4
<1>13. ASSUME NEW n \in Node PROVE info'[n].gen \in Int /\ info[n].gen \in Int /\ info[n].gen <= generation
  BY <1>0, <1>1 DEF NodeInfo, ListInv, GensBounded
<1>14. ASSUME NEW n \in Node PROVE info'[n].gen <= generation'
  <2>1. CASE ~Alive(info'[n]) BY <2>1, <1>1, <1>6
  <2>2. CASE Alive(info'[n]) /\ n \in Range(order)
    <3>1. info'[n] = st[n] BY <2>2, <1>1
    <3> QED BY <3>1, <2>2, <1>12, <1>1
  <2>3. CASE Alive(info'[n]) /\ n \notin Range(order)
    <3>1. info'[n] = info[n] BY <2>3, <1>1, <1>3
    <3> QED BY <3>1, <1>13, <1>1, <1>0, <1>4
  <2> QED BY <2>1, <2>2, <2>3
<1>15. GensBounded' BY <1>14 DEF GensBounded
<1>16. snap.gen \in Int /\ snap.gen <= generation BY DEF FreshInv, SnapGenBounded
<1>17. SnapGenBounded' BY <1>16, <1>1, <1>0, <1>4 DEF SnapGenBounded
<1>18. ASSUME NEW n \in Node, info'[n].node # NoNode, info'[n].gen <= snap.gen
       PROVE  snap.map[n] = info'[n]
  <2>1. Alive(info'[n]) BY <1>18 DEF Alive
  <2>2. info'[n] = st[n] BY <2>1, <1>1
  <2>3. n \notin Range(order) BY <2>2, <1>12, <1>13, <1>16, <1>18, <1>0
  <2>4. info'[n] = info[n] BY <2>2, <2>3, <1>3
  <2> QED BY <2>4, <1>18 DEF FreshInv, SnapFresh
<1>19. SnapFresh' BY <1>18 DEF SnapFresh
<1> QED BY <1>1, <1>7, <1>9, <1>11, <1>15, <1>17, <1>19 DEF FreshInv, ListInv
\* The order in which one node is touched.
LEMMA OneTouched ==
    ASSUME NEW n \in Node
    PROVE  <<n>> \in Seq(Node) /\ Distinct(<<n>>) /\ Range(<<n>>) = {n} /\ Len(<<n>>) = 1
<1>1. <<n>> \in Seq(Node) /\ Len(<<n>>) = 1 /\ <<n>>[1] = n OBVIOUS
<1>2. DOMAIN <<n>> = {1} OBVIOUS
<1> QED BY <1>1, <1>2 DEF Distinct, Range

\* The order in which two nodes are touched.
LEMMA TwoTouched ==
    ASSUME NEW m \in Node, NEW n \in Node, m # n
    PROVE  <<m, n>> \in Seq(Node) /\ Distinct(<<m, n>>) /\ Range(<<m, n>>) = {m, n}
<1>1. <<m, n>> \in Seq(Node) /\ <<m, n>>[1] = m /\ <<m, n>>[2] = n OBVIOUS
<1>2. DOMAIN <<m, n>> = {1, 2} OBVIOUS
<1> QED BY <1>1, <1>2 DEF Distinct, Range

\* addPod counts the pod once more on its node and changes nothing else.
LEMMA AddPodFacts ==
    ASSUME NEW inf \in [Node -> NodeInfo], NEW p \in Pod, NEW n \in Node
    PROVE  /\ addPod(inf, p, n) \in [Node -> NodeInfo]
           /\ \A m \in Node : /\ addPod(inf, p, n)[m].node = inf[m].node
                              /\ m # n => addPod(inf, p, n)[m] = inf[m]
           /\ \A m \in Node, q \in Pod :
                 addPod(inf, p, n)[m].pods[q] =
                    IF m = n /\ q = p THEN inf[n].pods[p] + 1 ELSE inf[m].pods[q]
<1> DEFINE new == [inf[n].pods EXCEPT ![p] = @ + 1]
           rec == [inf[n] EXCEPT !.pods = new]
<1>1. inf[n] \in NodeInfo /\ inf[n].pods \in [Pod -> Nat] BY DEF NodeInfo
<1>2. new \in [Pod -> Nat] /\ \A q \in Pod : new[q] = IF q = p THEN inf[n].pods[p] + 1 ELSE inf[n].pods[q]
  BY <1>1
<1>3. addPod(inf, p, n) = [inf EXCEPT ![n] = rec]
  BY DEF addPod
<1> HIDE DEF new
<1>4. rec \in NodeInfo /\ rec.node = inf[n].node /\ rec.pods = new
  BY <1>1, <1>2 DEF NodeInfo
<1> HIDE DEF rec
<1> QED BY <1>2, <1>3, <1>4

\* removePod counts the pod once less on its node and changes nothing else.
LEMMA RemovePodFacts ==
    ASSUME NEW inf \in [Node -> NodeInfo], NEW p \in Pod, NEW n \in Node
    PROVE  /\ removePod(inf, p, n) \in [Node -> NodeInfo]
           /\ \A m \in Node : /\ removePod(inf, p, n)[m].node = inf[m].node
                              /\ m # n => removePod(inf, p, n)[m] = inf[m]
           /\ \A m \in Node, q \in Pod :
                 removePod(inf, p, n)[m].pods[q] =
                    IF m = n /\ q = p
                    THEN (IF inf[n].pods[p] = 0 THEN 0 ELSE inf[n].pods[p] - 1)
                    ELSE inf[m].pods[q]
<1> DEFINE c == IF inf[n].pods[p] = 0 THEN 0 ELSE inf[n].pods[p] - 1
           new == [inf[n].pods EXCEPT ![p] = c]
           rec == [inf[n] EXCEPT !.pods = new]
<1>1. inf[n] \in NodeInfo /\ inf[n].pods \in [Pod -> Nat] BY DEF NodeInfo
<1>2. c \in Nat BY <1>1
<1>3. removePod(inf, p, n) = [inf EXCEPT ![n] = rec]
  BY DEF removePod
<1> HIDE DEF c
<1>4. new \in [Pod -> Nat] /\ \A q \in Pod : new[q] = IF q = p THEN c ELSE inf[n].pods[q]
  BY <1>1, <1>2
<1> HIDE DEF new
<1>5. rec \in NodeInfo /\ rec.node = inf[n].node /\ rec.pods = new
  BY <1>1, <1>4 DEF NodeInfo
<1> HIDE DEF rec
<1>6. /\ removePod(inf, p, n) \in [Node -> NodeInfo]
      /\ \A m \in Node : /\ removePod(inf, p, n)[m].node = inf[m].node
                         /\ m # n => removePod(inf, p, n)[m] = inf[m]
      /\ \A m \in Node, q \in Pod :
            removePod(inf, p, n)[m].pods[q] = IF m = n /\ q = p THEN c ELSE inf[m].pods[q]
  BY <1>3, <1>4, <1>5
<1> QED BY <1>6 DEF c

-----------------------------------------------------------------------------
\* Types of podStates, the API server's and informers' pods and the binding
\* goroutines.
PodType ==
    /\ podNode \in [Pod -> Node \cup {NoNode}]
    /\ assumedPods \in SUBSET Pod
    /\ bindingFinished \in [Pod -> BOOLEAN]
    /\ deadline \in [Pod -> {"nil", "ahead", "passed"}]
    /\ api \in [Pod -> Node \cup {Pending, Gone}]
    /\ seen \in [Pod -> Node \cup {Pending, Gone}]
    /\ binder \in [Binder -> [pod : Pod, node : Node,
                              stage : {"binding", "bound", "refused", "failed"}] \cup {NoNode}]

\* An assumed pod has a node, and a deadline once its binding finished.
DeadlinesSet ==
    \A p \in assumedPods : podNode[p] # NoNode /\ (bindingFinished[p] => deadline[p] # "nil")

\* podStates, the NodeInfos and the pod informer agree.
PodInv == PodType /\ CountedOnce /\ CacheAgreesWithInformer /\ ~fatal /\ DeadlinesSet

\* No node object changes.
SameObjects == \A n \in Node : info'[n].node = info[n].node

\* A step that leaves the list and the snapshot alone.
LEMMA FreshUnchanged ==
    ASSUME FreshInv, UNCHANGED <<list, info, generation>>, UNCHANGED snap
    PROVE  FreshInv' /\ SameObjects
BY DEF FreshInv, ListInv, ListType, FallingGens, ListedAlive, GensBounded, SnapFresh,
       SnapGenBounded, InCache, SameObjects

\* removePod finds the pod: it is counted where podStates has it.
LEMMA CanAlwaysRemove ==
    ASSUME PodInv, NEW p \in Pod, podNode[p] # NoNode
    PROVE  podNode[p] \in Node /\ CanRemove(p) /\ info[podNode[p]].pods[p] = 1
<1>1. podNode[p] \in Node BY DEF PodInv, PodType
<1>2. info[podNode[p]].pods[p] = 1 BY <1>1 DEF PodInv, CountedOnce
<1> QED BY <1>1, <1>2 DEF CanRemove
\* If the NodeInfos handed to Touch count every pod once, on its new node, so
\* do the NodeInfos after it.
LEMMA Recounted ==
    ASSUME FreshInv, UNCHANGED snap, NEW order \in Seq(Node), Distinct(order),
           NEW inf \in [Node -> NodeInfo], Touch(order, inf),
           \A n \in Node : n \notin Range(order) => inf[n] = info[n],
           \A n \in Node : inf[n].node = info[n].node,
           \A n \in Node, p \in Pod : inf[n].pods[p] = IF podNode'[p] = n THEN 1 ELSE 0
    PROVE  FreshInv' /\ SameObjects /\ CountedOnce'
<1>1. /\ FreshInv'
      /\ \A n \in Node : info'[n].pods = inf[n].pods /\ info'[n].node = inf[n].node
  BY TouchKeepsOrder
<1> QED BY <1>1 DEF SameObjects, CountedOnce

\* Every entry of the cache is a NodeInfo.
LEMMA InfoTyped ==
    ASSUME FreshInv PROVE info \in [Node -> NodeInfo]
BY DEF FreshInv, ListInv, ListType

\* A pod that was not cached is counted once after addPod.
LEMMA PodCounted ==
    ASSUME FreshInv, PodInv, UNCHANGED snap, NEW p \in Pod, NEW n \in Node,
           podNode[p] = NoNode, Touch(<<n>>, addPod(info, p, n)),
           podNode' = [podNode EXCEPT ![p] = n]
    PROVE  FreshInv' /\ SameObjects /\ CountedOnce'
<1> DEFINE inf == addPod(info, p, n)
<1>1. info \in [Node -> NodeInfo] BY InfoTyped
<1>2. /\ inf \in [Node -> NodeInfo]
      /\ \A m \in Node : inf[m].node = info[m].node /\ (m # n => inf[m] = info[m])
      /\ \A m \in Node, q \in Pod :
            inf[m].pods[q] = IF m = n /\ q = p THEN info[n].pods[p] + 1 ELSE info[m].pods[q]
  BY <1>1, AddPodFacts
<1> HIDE DEF inf
<1>3. Touch(<<n>>, inf) BY DEF inf
<1>4. podNode \in [Pod -> Node \cup {NoNode}] BY DEF PodInv, PodType
<1>5. NoNode \notin Node BY CacheAssumption
<1>6. ASSUME NEW m \in Node, NEW q \in Pod PROVE inf[m].pods[q] = IF podNode'[q] = m THEN 1 ELSE 0
  BY <1>2, <1>4, <1>5 DEF PodInv, CountedOnce
<1> DEFINE order == <<n>>
<1>7. order \in Seq(Node) /\ Distinct(order) /\ Range(order) = {n} BY OneTouched
<1>8. Touch(order, inf) BY <1>3
<1> HIDE DEF order
<1> QED BY <1>2, <1>6, <1>7, <1>8, Recounted

\* A pod is not counted any more after removePod and its removal from
\* podStates.
LEMMA PodUncounted ==
    ASSUME FreshInv, PodInv, UNCHANGED snap, NEW p \in Pod, NEW n \in Node,
           podNode[p] = n, Touch(<<n>>, removePod(info, p, n)), DropStates({p})
    PROVE  FreshInv' /\ SameObjects /\ CountedOnce'
<1> DEFINE inf == removePod(info, p, n)
<1>1. info \in [Node -> NodeInfo] BY InfoTyped
<1>2. /\ inf \in [Node -> NodeInfo]
      /\ \A m \in Node : inf[m].node = info[m].node /\ (m # n => inf[m] = info[m])
      /\ \A m \in Node, q \in Pod :
            inf[m].pods[q] = IF m = n /\ q = p
                             THEN (IF info[n].pods[p] = 0 THEN 0 ELSE info[n].pods[p] - 1)
                             ELSE info[m].pods[q]
  BY <1>1, RemovePodFacts
<1> HIDE DEF inf
<1>3. Touch(<<n>>, inf) BY DEF inf
<1>4. podNode' = [q \in Pod |-> IF q \in {p} THEN NoNode ELSE podNode[q]] BY DEF DropStates
<1>5. NoNode \notin Node BY CacheAssumption
<1>6. ASSUME NEW m \in Node, NEW q \in Pod PROVE inf[m].pods[q] = IF podNode'[q] = m THEN 1 ELSE 0
  BY <1>2, <1>4, <1>5 DEF PodInv, CountedOnce
<1> DEFINE order == <<n>>
<1>7. order \in Seq(Node) /\ Distinct(order) /\ Range(order) = {n} BY OneTouched
<1>8. Touch(order, inf) BY <1>3
<1> HIDE DEF order
<1> QED BY <1>2, <1>6, <1>7, <1>8, Recounted

\* Pods the informer does not have on a node may leave podStates.
LEMMA StatesDropped ==
    ASSUME PodInv, NEW P, P \subseteq Pod, DropStates(P), UNCHANGED fatal,
           UNCHANGED <<api, binder>>, CountedOnce',
           seen' \in [Pod -> Node \cup {Pending, Gone}],
           \A p \in P : seen'[p] \notin Node,
           \A p \in Pod \ P : seen'[p] = seen[p]
    PROVE  PodInv'
<1>1. PodType'
  BY DEF PodInv, PodType, DropStates
<1>2. CacheAgreesWithInformer'
  <2> SUFFICES ASSUME NEW p \in Pod
               PROVE  /\ seen'[p] \in Node => podNode'[p] = seen'[p] /\ p \notin assumedPods'
                      /\ seen'[p] \notin Node /\ podNode'[p] # NoNode => p \in assumedPods'
    BY DEF CacheAgreesWithInformer
  <2>1. CASE p \in P BY <2>1 DEF DropStates
  <2>2. CASE p \notin P BY <2>2 DEF DropStates, PodInv, CacheAgreesWithInformer
  <2> QED BY <2>1, <2>2
<1>3. DeadlinesSet'
  BY DEF PodInv, PodType, DeadlinesSet, DropStates
<1> QED BY <1>1, <1>2, <1>3 DEF PodInv

\* AssumePod: a pod the informer has on a node is in the cache and is refused.
LEMMA AssumePodStep ==
    ASSUME FreshInv, PodInv, NEW b \in Binder, NEW p \in Pod, NEW n \in Node, AssumePod(b, p, n)
    PROVE  FreshInv' /\ PodInv' /\ SameObjects
<1>1. FreshInv' /\ SameObjects /\ CountedOnce'
  BY PodCounted DEF AssumePod, snapVars
<1>2. podNode' = [podNode EXCEPT ![p] = n] /\ assumedPods' = assumedPods \cup {p}
      /\ bindingFinished' = [bindingFinished EXCEPT ![p] = FALSE]
      /\ deadline' = [deadline EXCEPT ![p] = "nil"] /\ podNode[p] = NoNode
      /\ binder' = [binder EXCEPT ![b] = [pod |-> p, node |-> n, stage |-> "binding"]]
      /\ UNCHANGED <<fatal, api, seen>>
  BY DEF AssumePod
<1>3. NoNode \notin Node BY CacheAssumption
<1>4. PodType'
  BY <1>2 DEF PodInv, PodType
<1>5. CacheAgreesWithInformer'
  <2> SUFFICES ASSUME NEW q \in Pod
               PROVE  /\ seen'[q] \in Node => podNode'[q] = seen'[q] /\ q \notin assumedPods'
                      /\ seen'[q] \notin Node /\ podNode'[q] # NoNode => q \in assumedPods'
    BY DEF CacheAgreesWithInformer
  <2>1. seen[q] \in Node => q # p BY <1>2, <1>3 DEF PodInv, CacheAgreesWithInformer
  <2> QED BY <2>1, <1>2 DEF PodInv, PodType, CacheAgreesWithInformer
<1>6. DeadlinesSet'
  BY <1>2, <1>3 DEF PodInv, PodType, DeadlinesSet
<1> QED BY <1>1, <1>2, <1>4, <1>5, <1>6 DEF PodInv
\* A binding goroutine at work has a pod and a node.
LEMMA BinderTyped ==
    ASSUME PodInv, NEW b \in Binder, NEW stages, At(b, stages)
    PROVE  /\ binder[b] \in [pod : Pod, node : Node, stage : {"binding", "bound", "refused", "failed"}]
           /\ binder[b].pod \in Pod /\ binder[b].node \in Node
BY DEF PodInv, PodType, At

\* Bind changes nothing in the cache.
LEMMA BindStep ==
    ASSUME FreshInv, PodInv, NEW b \in Binder, Bind(b)
    PROVE  FreshInv' /\ PodInv' /\ SameObjects
<1>1. FreshInv' /\ SameObjects
  BY FreshUnchanged DEF Bind, cacheVars, snapVars
<1>2. At(b, {"binding"}) /\ UNCHANGED <<list, info, podNode, assumedPods, bindingFinished, deadline, fatal, seen>>
  BY DEF Bind, cacheVars, podVars
<1>3. binder[b] \in [pod : Pod, node : Node, stage : {"binding", "bound", "refused", "failed"}]
      /\ binder[b].pod \in Pod /\ binder[b].node \in Node
  BY <1>2, BinderTyped
<1>4. binder' \in [Binder -> [pod : Pod, node : Node,
                              stage : {"binding", "bound", "refused", "failed"}] \cup {NoNode}]
  <2>1. \E answer \in {"bound", "refused"} : binder' = [binder EXCEPT ![b].stage = answer]
    BY DEF Bind
  <2>2. PICK answer \in {"bound", "refused"} : binder' = [binder EXCEPT ![b].stage = answer] BY <2>1
  <2>3. [binder[b] EXCEPT !.stage = answer]
           \in [pod : Pod, node : Node, stage : {"binding", "bound", "refused", "failed"}]
    BY <1>3, <2>2
  <2> QED BY <2>2, <2>3 DEF PodInv, PodType
<1>5. api' \in [Pod -> Node \cup {Pending, Gone}]
  BY <1>3 DEF Bind, PodInv, PodType
<1>6. PodType' BY <1>2, <1>4, <1>5 DEF PodInv, PodType
<1> QED BY <1>1, <1>2, <1>6 DEF PodInv, CountedOnce, CacheAgreesWithInformer, DeadlinesSet

\* FinishBinding sets the deadline when it marks the pod as finished.
LEMMA FinishBindingStep ==
    ASSUME FreshInv, PodInv, NEW b \in Binder, FinishBinding(b)
    PROVE  FreshInv' /\ PodInv' /\ SameObjects
<1>1. FreshInv' /\ SameObjects
  BY FreshUnchanged DEF FinishBinding, cacheVars, snapVars
<1>2. /\ At(b, {"bound", "refused"})
      /\ binder' = [binder EXCEPT ![b] =
                     IF @.stage = "bound" THEN NoNode ELSE [@ EXCEPT !.stage = "failed"]]
      /\ bindingFinished' = [p \in Pod |-> bindingFinished[p] \/ Expirable(b, p)]
      /\ deadline' = [p \in Pod |-> IF Expirable(b, p) THEN "ahead" ELSE deadline[p]]
      /\ UNCHANGED <<list, info, podNode, assumedPods, fatal, api, seen>>
  BY DEF FinishBinding, AfterFinish, cacheVars
<1>3. binder[b] \in [pod : Pod, node : Node, stage : {"binding", "bound", "refused", "failed"}]
  BY <1>2, BinderTyped
<1>4. binder' \in [Binder -> [pod : Pod, node : Node,
                              stage : {"binding", "bound", "refused", "failed"}] \cup {NoNode}]
  <2>1. [binder[b] EXCEPT !.stage = "failed"]
           \in [pod : Pod, node : Node, stage : {"binding", "bound", "refused", "failed"}]
    BY <1>3
  <2> QED BY <2>1, <1>2 DEF PodInv, PodType
<1>5. \A p \in Pod : Expirable(b, p) \in BOOLEAN BY DEF Expirable
<1>6. PodType'
  <2>1. bindingFinished' \in [Pod -> BOOLEAN] BY <1>2, <1>5
  <2>2. deadline' \in [Pod -> {"nil", "ahead", "passed"}] BY <1>2 DEF PodInv, PodType
  <2> QED BY <2>1, <2>2, <1>2, <1>4 DEF PodInv, PodType
<1>7. DeadlinesSet'
  BY <1>2 DEF PodInv, PodType, DeadlinesSet
<1> QED BY <1>1, <1>2, <1>6, <1>7 DEF PodInv, CountedOnce, CacheAgreesWithInformer

\* BindFails: ForgetPod drops only a pod that is still assumed, so the informer
\* does not have it.
LEMMA BindFailsStep ==
    ASSUME FreshInv, PodInv, NEW b \in Binder, BindFails(b)
    PROVE  FreshInv' /\ PodInv' /\ SameObjects
<1> DEFINE p == binder[b].pod
           n == binder[b].node
<1>1. At(b, {"binding", "failed"}) /\ ForgetPod(p, n) /\ binder' = [binder EXCEPT ![b] = NoNode]
      /\ UNCHANGED <<fatal, snap, api, seen>>
  BY DEF BindFails, snapVars
<1>2. p \in Pod /\ n \in Node BY <1>1, BinderTyped
<1> HIDE DEF p, n
<1>3. binder' \in [Binder -> [pod : Pod, node : Node,
                              stage : {"binding", "bound", "refused", "failed"}] \cup {NoNode}]
  BY <1>1 DEF PodInv, PodType
<1>4. CASE p \in assumedPods /\ podNode[p] = n /\ Touch(<<n>>, removePod(info, p, n)) /\ DropStates({p})
  <2>1. FreshInv' /\ SameObjects /\ CountedOnce' BY <1>1, <1>2, <1>4, PodUncounted
  <2>2. PodType' BY <1>1, <1>2, <1>3, <1>4 DEF PodInv, PodType, DropStates
  <2>3. seen[p] \notin Node BY <1>2, <1>4 DEF PodInv, CacheAgreesWithInformer
  <2>4. CacheAgreesWithInformer'
    <3> SUFFICES ASSUME NEW q \in Pod
                 PROVE  /\ seen'[q] \in Node => podNode'[q] = seen'[q] /\ q \notin assumedPods'
                        /\ seen'[q] \notin Node /\ podNode'[q] # NoNode => q \in assumedPods'
      BY DEF CacheAgreesWithInformer
    <3>1. CASE q = p BY <3>1, <2>3, <1>1, <1>4 DEF DropStates
    <3>2. CASE q # p BY <3>2, <1>1, <1>4 DEF DropStates, PodInv, CacheAgreesWithInformer
    <3> QED BY <3>1, <3>2
  <2>5. DeadlinesSet' BY <1>4 DEF PodInv, PodType, DeadlinesSet, DropStates
  <2> QED BY <2>1, <2>2, <2>4, <2>5, <1>1 DEF PodInv
<1>5. CASE UNCHANGED <<cacheVars, podNode, assumedPods, bindingFinished, deadline>>
  <2>1. FreshInv' /\ SameObjects BY <1>1, <1>5, FreshUnchanged DEF cacheVars
  <2>2. PodType' BY <1>1, <1>3, <1>5 DEF PodInv, PodType
  <2> QED BY <2>1, <2>2, <1>1, <1>5
          DEF PodInv, CountedOnce, CacheAgreesWithInformer, DeadlinesSet, cacheVars
<1> QED BY <1>1, <1>4, <1>5 DEF ForgetPod

\* DeadlinePasses changes no NodeInfo.
LEMMA DeadlinePassesStep ==
    ASSUME FreshInv, PodInv, NEW p \in Pod, DeadlinePasses(p)
    PROVE  FreshInv' /\ PodInv' /\ SameObjects
<1>1. FreshInv' /\ SameObjects
  BY FreshUnchanged DEF DeadlinePasses, cacheVars, snapVars
<1>2. deadline' = [deadline EXCEPT ![p] = "passed"]
      /\ UNCHANGED <<list, info, podNode, assumedPods, bindingFinished, fatal, api, seen, binder>>
  BY DEF DeadlinePasses, cacheVars, envVars
<1>3. PodType' BY <1>2 DEF PodInv, PodType
<1>4. DeadlinesSet' BY <1>2 DEF PodInv, PodType, DeadlinesSet
<1> QED BY <1>1, <1>2, <1>3, <1>4 DEF PodInv, CountedOnce, CacheAgreesWithInformer

\* The API server's pods may change at any time.
LEMMA ServerStep ==
    ASSUME FreshInv, PodInv, NEW p \in Pod,
           DeletePod(p) \/ \E n \in Node : BindElsewhere(p, n)
    PROVE  FreshInv' /\ PodInv' /\ SameObjects
<1>1. UNCHANGED <<cacheVars, podVars, snapVars, seen, lister, binder>>
  BY DEF DeletePod, BindElsewhere
<1>2. api' \in [Pod -> Node \cup {Pending, Gone}]
  BY DEF DeletePod, BindElsewhere, PodInv, PodType
<1>3. FreshInv' /\ SameObjects BY <1>1, FreshUnchanged DEF cacheVars, snapVars
<1>4. PodType' BY <1>1, <1>2 DEF PodInv, PodType, podVars
<1> QED BY <1>1, <1>3, <1>4
        DEF PodInv, CountedOnce, CacheAgreesWithInformer, DeadlinesSet, cacheVars, podVars
\* An order of a set of nodes has each of them once.
LEMMA OrderOfSet ==
    ASSUME NEW S, S \subseteq Node, NEW order \in SetToSeqs(S)
    PROVE  order \in Seq(Node) /\ Distinct(order) /\ Range(order) = S
<1>1. IsFiniteSet(S) BY CacheAssumption, FS_Subset
<1>2. Cardinality(S) \in Nat BY <1>1, FS_CardinalityType
<1> DEFINE D == 1..Cardinality(S)
<1>3. order \in [D -> S] /\ \A i, j \in D : i # j => order[i] # order[j]
  BY DEF SetToSeqs
<1>4. order \in Seq(Node) BY <1>2, <1>3, SeqDef
<1>5. Distinct(order) BY <1>3 DEF Distinct
<1>6. order \in Injection(D, S) BY <1>3 DEF Injection, IsInjective
<1>7. Cardinality(D) = Cardinality(S) BY <1>2, FS_Interval
<1>8. order \in Surjection(D, S) BY <1>1, <1>6, <1>7, FS_Injection
<1>9. Range(order) = S
  BY <1>3, <1>8 DEF Surjection, Range
<1> QED BY <1>4, <1>5, <1>9
\* cleanupAssumedPods: however many pods of a node expire together, each is
\* counted once less.
LEMMA cleanupStep ==
    ASSUME FreshInv, PodInv, cleanupAssumedPods
    PROVE  FreshInv' /\ PodInv' /\ SameObjects
<1> DEFINE E == {p \in assumedPods : bindingFinished[p] /\ deadline[p] = "passed" /\ CanRemove(p)}
           S == {podNode[p] : p \in E}
           inf == [n \in Node |-> [info[n] EXCEPT !.pods =
                     [p \in Pod |-> IF p \in E /\ podNode[p] = n /\ @[p] > 0
                                    THEN @[p] - 1 ELSE @[p]]]]
<1>1. (\E order \in SetToSeqs(S) : Touch(order, inf)) /\ DropStates(E)
      /\ UNCHANGED <<fatal, snap, api, seen, binder>>
  BY DEF cleanupAssumedPods, snapVars, envVars
<1>2. PICK order \in SetToSeqs(S) : Touch(order, inf) BY <1>1
<1>3. E \subseteq assumedPods /\ E \subseteq Pod /\ \A p \in E : podNode[p] \in Node /\ podNode[p] \in S
  <2>1. E \subseteq assumedPods /\ assumedPods \subseteq Pod BY DEF PodInv, PodType
  <2>2. \A p \in E : podNode[p] \in S OBVIOUS
  <2> HIDE DEF E
  <2>3. \A p \in E : podNode[p] # NoNode BY <2>1 DEF PodInv, DeadlinesSet
  <2> QED BY <2>1, <2>2, <2>3 DEF PodInv, PodType
<1>4. info \in [Node -> NodeInfo] BY InfoTyped
<1> HIDE DEF E
<1>5. S \subseteq Node BY <1>3
<1>6. order \in Seq(Node) /\ Distinct(order) /\ Range(order) = S BY <1>2, <1>5, OrderOfSet
<1>7. ASSUME NEW n \in Node
      PROVE  /\ inf[n] \in NodeInfo /\ inf[n].node = info[n].node
             /\ \A p \in Pod : inf[n].pods[p] = IF p \in E /\ podNode[p] = n /\ info[n].pods[p] > 0
                                                THEN info[n].pods[p] - 1 ELSE info[n].pods[p]
             /\ n \notin S => inf[n] = info[n]
  <2> DEFINE ps == [p \in Pod |-> IF p \in E /\ podNode[p] = n /\ info[n].pods[p] > 0
                                  THEN info[n].pods[p] - 1 ELSE info[n].pods[p]]
  <2>1. inf[n] = [info[n] EXCEPT !.pods = ps] OBVIOUS
  <2>2. info[n] \in NodeInfo /\ info[n].pods \in [Pod -> Nat] BY <1>4 DEF NodeInfo
  <2>3. ps \in [Pod -> Nat] BY <2>2
  <2>4. n \notin S => ps = info[n].pods
    <3> SUFFICES ASSUME n \notin S PROVE ps = info[n].pods OBVIOUS
    <3>1. \A p \in E : podNode[p] # n BY <1>3
    <3>2. ps = [p \in Pod |-> info[n].pods[p]] BY <3>1
    <3> QED BY <3>2, <2>2
  <2>5. \A p \in Pod : ps[p] = IF p \in E /\ podNode[p] = n /\ info[n].pods[p] > 0
                                THEN info[n].pods[p] - 1 ELSE info[n].pods[p]
    OBVIOUS
  <2> HIDE DEF ps, S, inf
  <2>6. inf[n] \in NodeInfo /\ inf[n].node = info[n].node /\ inf[n].pods = ps
    BY <2>1, <2>2, <2>3 DEF NodeInfo
  <2>7. ps = info[n].pods => inf[n] = info[n]
    BY <2>1, <2>2 DEF NodeInfo
  <2> QED BY <2>4, <2>5, <2>6, <2>7
<1>8. inf \in [Node -> NodeInfo] BY <1>7
<1> HIDE DEF S, inf
<1>9. NoNode \notin Node BY CacheAssumption
<1>10. podNode' = [p \in Pod |-> IF p \in E THEN NoNode ELSE podNode[p]] BY <1>1 DEF DropStates
<1>11. ASSUME NEW n \in Node, NEW p \in Pod PROVE inf[n].pods[p] = IF podNode'[p] = n THEN 1 ELSE 0
  BY <1>7, <1>9, <1>10 DEF PodInv, CountedOnce
<1>12. FreshInv' /\ SameObjects /\ CountedOnce'
  BY <1>1, <1>2, <1>6, <1>7, <1>8, <1>11, Recounted
<1>13. \A p \in E : seen[p] \notin Node BY <1>3 DEF PodInv, CacheAgreesWithInformer
<1>14. PodInv'
  <2>1. seen' \in [Pod -> Node \cup {Pending, Gone}] BY <1>1 DEF PodInv, PodType
  <2> QED BY <2>1, <1>1, <1>3, <1>12, <1>13, StatesDropped
<1> QED BY <1>12, <1>14

\* UpdatePod takes the pod out of the NodeInfo the informer has it on and puts
\* it back: klog.Fatalf is out of reach.
LEMMA UpdatePodStep ==
    ASSUME FreshInv, PodInv, NEW p \in Pod, UpdatePod(p)
    PROVE  FreshInv' /\ PodInv' /\ SameObjects
<1> DEFINE n == seen[p]
<1>1. n \in Node /\ podNode[p] = n BY DEF UpdatePod, PodInv, CacheAgreesWithInformer
<1>2. Touch(<<n>>, addPod(removePod(info, p, n), p, n)) /\ UNCHANGED <<fatal, snap>>
      /\ UNCHANGED <<podNode, assumedPods, bindingFinished, deadline, api, seen, binder>>
  BY <1>1 DEF UpdatePod, snapVars, envVars
<1> HIDE DEF n
<1>3. info \in [Node -> NodeInfo] BY InfoTyped
<1> DEFINE mid == removePod(info, p, n)
           inf == addPod(mid, p, n)
           order == <<n>>
<1>4. /\ mid \in [Node -> NodeInfo]
      /\ \A m \in Node : mid[m].node = info[m].node /\ (m # n => mid[m] = info[m])
      /\ \A m \in Node, q \in Pod :
            mid[m].pods[q] = IF m = n /\ q = p
                             THEN (IF info[n].pods[p] = 0 THEN 0 ELSE info[n].pods[p] - 1)
                             ELSE info[m].pods[q]
  BY <1>1, <1>3, RemovePodFacts
<1> HIDE DEF mid
<1>5. /\ inf \in [Node -> NodeInfo]
      /\ \A m \in Node : inf[m].node = mid[m].node /\ (m # n => inf[m] = mid[m])
      /\ \A m \in Node, q \in Pod :
            inf[m].pods[q] = IF m = n /\ q = p THEN mid[n].pods[p] + 1 ELSE mid[m].pods[q]
  BY <1>1, <1>4, AddPodFacts
<1>6. order \in Seq(Node) /\ Distinct(order) /\ Range(order) = {n} BY <1>1, OneTouched
<1>7. Touch(order, inf) BY <1>2 DEF mid
<1> HIDE DEF inf, order
<1>8. ASSUME NEW m \in Node, NEW q \in Pod PROVE inf[m].pods[q] = IF podNode'[q] = m THEN 1 ELSE 0
  BY <1>1, <1>2, <1>4, <1>5 DEF PodInv, CountedOnce
<1>9. /\ \A m \in Node : m \notin Range(order) => inf[m] = info[m]
      /\ \A m \in Node : inf[m].node = info[m].node
  BY <1>4, <1>5, <1>6
<1>10. FreshInv' /\ SameObjects /\ CountedOnce'
  BY <1>2, <1>5, <1>6, <1>7, <1>8, <1>9, Recounted
<1>11. PodType' BY <1>2 DEF PodInv, PodType
<1> QED BY <1>2, <1>10, <1>11 DEF PodInv, CacheAgreesWithInformer, DeadlinesSet

\* RemovePod: the pod is where the informer last saw it, so klog.Fatalf is out
\* of reach.
LEMMA RemovePodStep ==
    ASSUME FreshInv, PodInv, NEW p \in Pod, RemovePod(p)
    PROVE  FreshInv' /\ PodInv' /\ SameObjects
<1>0. Gone \notin Node BY CacheAssumption
<1>1. seen' = [seen EXCEPT ![p] = Gone] /\ UNCHANGED <<snap, api, binder>>
  BY DEF RemovePod, snapVars
<1>2. /\ seen' \in [Pod -> Node \cup {Pending, Gone}] /\ seen'[p] \notin Node
      /\ \A q \in Pod \ {p} : seen'[q] = seen[q]
  BY <1>0, <1>1 DEF PodInv, PodType
<1>3. CASE seen[p] \in Node /\ podNode[p] # NoNode /\ p \notin assumedPods
  <2> DEFINE n == seen[p]
  <2>1. n \in Node /\ podNode[p] = n BY <1>3 DEF PodInv, CacheAgreesWithInformer
  <2>2. Touch(<<n>>, removePod(info, p, n)) /\ DropStates({p}) /\ UNCHANGED fatal
    BY <1>3, <2>1 DEF RemovePod
  <2> HIDE DEF n
  <2>3. FreshInv' /\ SameObjects /\ CountedOnce' BY <1>1, <2>1, <2>2, PodUncounted
  <2> DEFINE P == {p}
  <2>4. DropStates(P) /\ P \subseteq Pod /\ (\A q \in P : seen'[q] \notin Node)
        /\ \A q \in Pod \ P : seen'[q] = seen[q]
    BY <1>2, <2>2
  <2> HIDE DEF P
  <2>5. PodInv' BY <1>1, <1>2, <2>2, <2>3, <2>4, StatesDropped
  <2> QED BY <2>3, <2>5
<1>4. CASE seen[p] \notin Node \/ podNode[p] = NoNode \/ p \in assumedPods
  <2>1. UNCHANGED <<list, info, generation, podVars>>
    BY <1>4 DEF RemovePod
  <2>2. FreshInv' /\ SameObjects BY <1>1, <2>1, FreshUnchanged
  <2>3. PodType' BY <1>1, <1>2, <2>1 DEF PodInv, PodType, podVars
  <2>4. NoNode \notin Node BY CacheAssumption
  <2>5. podNode[p] # NoNode => p \in assumedPods
    BY <1>4, <2>4 DEF PodInv, CacheAgreesWithInformer
  <2>6. CacheAgreesWithInformer'
    <3> SUFFICES ASSUME NEW q \in Pod
                 PROVE  /\ seen'[q] \in Node => podNode'[q] = seen'[q] /\ q \notin assumedPods'
                        /\ seen'[q] \notin Node /\ podNode'[q] # NoNode => q \in assumedPods'
      BY DEF CacheAgreesWithInformer
    <3>1. CASE q = p BY <3>1, <1>2, <2>1, <2>5 DEF podVars
    <3>2. CASE q # p BY <3>2, <1>2, <2>1 DEF podVars, PodInv, CacheAgreesWithInformer
    <3> QED BY <3>1, <3>2
  <2> QED BY <2>1, <2>2, <2>3, <2>6 DEF PodInv, CountedOnce, DeadlinesSet, podVars
<1> QED BY <1>3, <1>4
\* An assumed pod that was bound elsewhere moves to the node it was bound to.
LEMMA PodMoved ==
    ASSUME FreshInv, PodInv, UNCHANGED snap, NEW p \in Pod, NEW n \in Node,
           p \in assumedPods, podNode[p] # n,
           Touch(<<n, podNode[p]>>,
                 addPod(IF CanRemove(p) THEN removePod(info, p, podNode[p]) ELSE info, p, n)),
           podNode' = [podNode EXCEPT ![p] = n]
    PROVE  FreshInv' /\ SameObjects /\ CountedOnce'
<1> DEFINE o == podNode[p]
<1>1. o \in Node /\ CanRemove(p) /\ o # n
  <2>1. podNode[p] # NoNode BY DEF PodInv, DeadlinesSet
  <2> QED BY <2>1, CanAlwaysRemove
<1>2. info \in [Node -> NodeInfo] BY InfoTyped
<1>3. podNode \in [Pod -> Node \cup {NoNode}] BY DEF PodInv, PodType
<1> HIDE DEF o
<1> DEFINE mid == removePod(info, p, o)
           inf == addPod(mid, p, n)
           order == <<n, o>>
<1>4. Touch(order, inf) BY <1>1 DEF o
<1>5. /\ mid \in [Node -> NodeInfo]
      /\ \A m \in Node : mid[m].node = info[m].node /\ (m # o => mid[m] = info[m])
      /\ \A m \in Node, q \in Pod :
            mid[m].pods[q] = IF m = o /\ q = p
                             THEN (IF info[o].pods[p] = 0 THEN 0 ELSE info[o].pods[p] - 1)
                             ELSE info[m].pods[q]
  BY <1>1, <1>2, RemovePodFacts
<1> HIDE DEF mid
<1>6. /\ inf \in [Node -> NodeInfo]
      /\ \A m \in Node : inf[m].node = mid[m].node /\ (m # n => inf[m] = mid[m])
      /\ \A m \in Node, q \in Pod :
            inf[m].pods[q] = IF m = n /\ q = p THEN mid[n].pods[p] + 1 ELSE mid[m].pods[q]
  BY <1>5, AddPodFacts
<1>7. order \in Seq(Node) /\ Distinct(order) /\ Range(order) = {n, o} BY <1>1, TwoTouched
<1> HIDE DEF inf, order
<1>8. podNode[p] = o BY DEF o
<1>9. ASSUME NEW m \in Node, NEW q \in Pod PROVE inf[m].pods[q] = IF podNode'[q] = m THEN 1 ELSE 0
  <2>1. info[o].pods[p] = 1 /\ info[n].pods[p] = 0
    BY <1>1, <1>8 DEF PodInv, CountedOnce
  <2>2. CASE q = p
    <3>1. podNode'[q] = n BY <2>2, <1>3
    <3>2. CASE m = o BY <3>1, <3>2, <2>1, <2>2, <1>1, <1>5, <1>6
    <3>3. CASE m = n BY <3>1, <3>3, <2>1, <2>2, <1>1, <1>5, <1>6
    <3>4. CASE m # o /\ m # n
      <4>1. info[m].pods[q] = 0 BY <3>4, <2>2, <1>8 DEF PodInv, CountedOnce
      <4> QED BY <4>1, <3>1, <3>4, <1>5, <1>6
    <3> QED BY <3>2, <3>3, <3>4
  <2>3. CASE q # p
    <3>1. podNode'[q] = podNode[q] BY <2>3, <1>3
    <3>2. inf[m].pods[q] = info[m].pods[q] BY <2>3, <1>5, <1>6
    <3> QED BY <3>1, <3>2 DEF PodInv, CountedOnce
  <2> QED BY <2>2, <2>3
<1>10. /\ \A m \in Node : m \notin Range(order) => inf[m] = info[m]
       /\ \A m \in Node : inf[m].node = info[m].node
  BY <1>5, <1>6, <1>7
<1> QED BY <1>4, <1>6, <1>7, <1>9, <1>10, Recounted

\* AddPod confirms, moves or adds the pod; that it is cached and not assumed is
\* impossible.
LEMMA AddPodStep ==
    ASSUME FreshInv, PodInv, NEW p \in Pod, AddPod(p)
    PROVE  FreshInv' /\ PodInv' /\ SameObjects
<1> DEFINE n == api[p]
<1>1. /\ n \in Node /\ seen[p] = Pending /\ seen' = [seen EXCEPT ![p] = n]
      /\ UNCHANGED <<bindingFinished, fatal, snap, api, binder>>
  BY DEF AddPod, snapVars
<1>2. seen[p] \notin Node /\ NoNode \notin Node BY <1>1, CacheAssumption
<1>3. podNode[p] # NoNode => p \in assumedPods
  BY <1>2 DEF PodInv, CacheAgreesWithInformer
<1>4. /\ podNode' = [podNode EXCEPT ![p] = n]
      /\ assumedPods' = assumedPods \ {p}
      /\ deadline' \in [Pod -> {"nil", "ahead", "passed"}]
      /\ \A q \in Pod \ {p} : deadline'[q] = deadline[q]
  <2>1. CASE p \in assumedPods
    <3>1. podNode[p] # NoNode BY <2>1 DEF PodInv, DeadlinesSet
    <3> QED BY <2>1, <3>1 DEF AddPod, PodInv, PodType
  <2>2. CASE p \notin assumedPods
    <3>1. podNode[p] = NoNode BY <2>2, <1>3
    <3> QED BY <2>2, <3>1 DEF AddPod, PodInv, PodType
  <2> QED BY <2>1, <2>2
<1>5. FreshInv' /\ SameObjects /\ CountedOnce'
  <2>1. CASE podNode[p] = NoNode
    <3>1. p \notin assumedPods BY <2>1 DEF PodInv, DeadlinesSet
    <3>2. Touch(<<n>>, addPod(info, p, n)) BY <2>1, <3>1 DEF AddPod
    <3> HIDE DEF n
    <3> QED BY <2>1, <3>2, <1>1, <1>4, PodCounted
  <2>2. CASE podNode[p] # NoNode /\ podNode[p] # n
    <3>1. p \in assumedPods BY <2>2, <1>3
    <3>2. Touch(<<n, podNode[p]>>,
                addPod(IF CanRemove(p) THEN removePod(info, p, podNode[p]) ELSE info, p, n))
      BY <2>2, <3>1 DEF AddPod
    <3> HIDE DEF n
    <3> QED BY <2>2, <3>1, <3>2, <1>1, <1>4, PodMoved
  <2>3. CASE podNode[p] # NoNode /\ podNode[p] = n
    <3>1. p \in assumedPods BY <2>3, <1>3
    <3>2. UNCHANGED <<list, info, generation>> BY <2>3, <3>1 DEF AddPod
    <3>3. FreshInv' /\ SameObjects BY <3>2, <1>1, FreshUnchanged
    <3>4. podNode' = podNode BY <2>3, <1>4 DEF PodInv, PodType
    <3> QED BY <3>2, <3>3, <3>4 DEF PodInv, CountedOnce
  <2> QED BY <2>1, <2>2, <2>3
<1> HIDE DEF n
<1>6. PodType' BY <1>1, <1>4 DEF PodInv, PodType
<1>7. CacheAgreesWithInformer'
  <2> SUFFICES ASSUME NEW q \in Pod
               PROVE  /\ seen'[q] \in Node => podNode'[q] = seen'[q] /\ q \notin assumedPods'
                      /\ seen'[q] \notin Node /\ podNode'[q] # NoNode => q \in assumedPods'
    BY DEF CacheAgreesWithInformer
  <2>1. CASE q = p BY <2>1, <1>1, <1>4 DEF PodInv, PodType
  <2>2. CASE q # p BY <2>2, <1>1, <1>4 DEF PodInv, PodType, CacheAgreesWithInformer
  <2> QED BY <2>1, <2>2
<1>8. DeadlinesSet' BY <1>1, <1>4 DEF PodInv, PodType, DeadlinesSet
<1> QED BY <1>1, <1>5, <1>6, <1>7, <1>8 DEF PodInv
-----------------------------------------------------------------------------
\* The type of the node tree.
NodeTree == [tree : [Zone -> Seq(Node)], zones : Seq(Zone), numNodes : Int]

\* The nodes a lister has.
Held(lst) == {n \in Node : lst[n] # NoNode}

\* The tree has every listed node once, in its zone, and every zone with nodes
\* once.
TreeOK(t, lst) ==
    /\ t \in NodeTree
    /\ \A z \in Zone, n \in Node : n \in Range(t.tree[z]) <=> (lst[n] # NoNode /\ lst[n].zone = z)
    /\ \A z \in Zone : Distinct(t.tree[z])
    /\ Distinct(t.zones)
    /\ \A z \in Zone : z \in Range(t.zones) <=> t.tree[z] # <<>>
    /\ t.numNodes = Cardinality(Held(lst))

\* What the node informer may hold.
Lister == [Node -> NodeObj \cup {NoNode}]

\* A node object is an object, with a zone and images.
LEMMA ObjFacts ==
    ASSUME NEW o \in NodeObj PROVE o # NoNode /\ o.zone \in Zone /\ o.images \in SUBSET Image
BY CacheAssumption

\* There are finitely many nodes.
LEMMA HeldFinite ==
    ASSUME NEW lst PROVE IsFiniteSet(Held(lst)) /\ Cardinality(Held(lst)) \in Nat
<1>1. Held(lst) \in SUBSET Node BY DEF Held
<1>2. IsFiniteSet(Held(lst)) BY <1>1, CacheAssumption, FS_Subset
<1> QED BY <1>2, FS_CardinalityType

\* addNode of node_tree.go.
LEMMA TreeAdd ==
    ASSUME NEW t, NEW lst \in Lister, TreeOK(t, lst), NEW n \in Node, lst[n] = NoNode,
           NEW o \in NodeObj
    PROVE  TreeOK(treeAddNode(t, n, o.zone), [lst EXCEPT ![n] = o])
<1> DEFINE z == o.zone
           new == [lst EXCEPT ![n] = o]
           u == treeAddNode(t, n, z)
           row == Append(t.tree[z], n)
           zs == IF z \in Range(t.zones) THEN t.zones ELSE Append(t.zones, z)
<1>1. z \in Zone /\ o # NoNode BY ObjFacts
<1>2. n \notin Range(t.tree[z]) BY <1>1 DEF TreeOK
<1>3. /\ new \in Lister /\ new[n] = o /\ \A m \in Node : m # n => new[m] = lst[m]
  BY DEF Lister
<1>4. t.tree \in [Zone -> Seq(Node)] /\ t.zones \in Seq(Zone) /\ t.numNodes \in Int
  BY DEF TreeOK, NodeTree
<1>5. u = [tree |-> [t.tree EXCEPT ![z] = row], zones |-> zs, numNodes |-> t.numNodes + 1]
  BY <1>2 DEF treeAddNode
<1>6. t.tree[z] \in Seq(Node) /\ Distinct(t.tree[z]) BY <1>1, <1>4 DEF TreeOK
<1>7. row \in Seq(Node) /\ Range(row) = Range(t.tree[z]) \cup {n} /\ row # <<>> /\ Distinct(row)
  BY <1>2, <1>6, AppendFacts
<1>8. zs \in Seq(Zone) /\ Range(zs) = Range(t.zones) \cup {z} /\ Distinct(zs)
  <2>1. CASE z \in Range(t.zones) BY <2>1, <1>4 DEF TreeOK
  <2>2. CASE z \notin Range(t.zones)
    <3>1. Distinct(t.zones) BY DEF TreeOK
    <3>2. /\ Append(t.zones, z) \in Seq(Zone) /\ Range(Append(t.zones, z)) = Range(t.zones) \cup {z}
          /\ Distinct(Append(t.zones, z))
      BY <2>2, <3>1, <1>1, <1>4, AppendFacts
    <3> QED BY <3>2, <2>2
  <2> QED BY <2>1, <2>2
<1> HIDE DEF row, zs, new, z
<1>9. /\ u.tree = [t.tree EXCEPT ![z] = row] /\ u.zones = zs /\ u.numNodes = t.numNodes + 1
      /\ u \in NodeTree
  <2> DEFINE c == t.numNodes + 1
             tr == [t.tree EXCEPT ![z] = row]
  <2>1. c \in Int /\ tr \in [Zone -> Seq(Node)]
    <3> DEFINE Q == Seq(Node)
    <3>1. t.tree \in [Zone -> Q] /\ row \in Q BY <1>4, <1>7
    <3> HIDE DEF Q
    <3>2. tr \in [Zone -> Q] BY <3>1
    <3> QED BY <3>2, <1>4 DEF Q
  <2>2. u = [tree |-> tr, zones |-> zs, numNodes |-> c] BY <1>5
  <2> HIDE DEF c, tr, u
  <2>3. u.tree = tr /\ u.zones = zs /\ u.numNodes = c /\ u \in NodeTree
    BY <2>1, <2>2, <1>8 DEF NodeTree
  <2> QED BY <2>3 DEF c, tr
<1>10. u.tree[z] = row /\ \A y \in Zone : y # z => u.tree[y] = t.tree[y] BY <1>1, <1>4, <1>9
<1> HIDE DEF u
<1>11. ASSUME NEW y \in Zone, NEW m \in Node
       PROVE  m \in Range(u.tree[y]) <=> (new[m] # NoNode /\ new[m].zone = y)
  <2>1. m \in Range(t.tree[y]) <=> (lst[m] # NoNode /\ lst[m].zone = y) BY DEF TreeOK
  <2>2. CASE y = z /\ m = n BY <2>2, <1>1, <1>3, <1>7, <1>10 DEF z
  <2>3. CASE y = z /\ m # n BY <2>1, <2>3, <1>3, <1>7, <1>10
  <2>4. CASE y # z /\ m = n BY <2>1, <2>4, <1>3, <1>10 DEF z
  <2>5. CASE y # z /\ m # n BY <2>1, <2>5, <1>3, <1>10
  <2> QED BY <2>2, <2>3, <2>4, <2>5
<1>12. \A y \in Zone : Distinct(u.tree[y]) BY <1>7, <1>10 DEF TreeOK
<1>13. \A y \in Zone : y \in Range(u.zones) <=> u.tree[y] # <<>>
  BY <1>1, <1>7, <1>8, <1>9, <1>10 DEF TreeOK
<1>14. u.numNodes = Cardinality(Held(new))
  <2>1. Held(new) = Held(lst) \cup {n} /\ n \notin Held(lst) BY <1>1, <1>3 DEF Held
  <2>2. Cardinality(Held(lst) \cup {n}) = Cardinality(Held(lst)) + 1
    BY <2>1, HeldFinite, FS_AddElement
  <2> QED BY <2>1, <2>2, <1>9 DEF TreeOK
<1>15. TreeOK(u, new) BY <1>8, <1>9, <1>11, <1>12, <1>13, <1>14 DEF TreeOK
<1> QED BY <1>15 DEF u, new, z
\* removeNode of node_tree.go finds the node, and takes its zone out with its
\* last node.
LEMMA TreeRemove ==
    ASSUME NEW t, NEW lst \in Lister, TreeOK(t, lst), NEW n \in Node, lst[n] # NoNode
    PROVE  /\ TreeOK(treeRemoveNode(t, n, lst[n].zone), [lst EXCEPT ![n] = NoNode])
           /\ treeRemoveNode(t, n, lst[n].zone) # t
<1> DEFINE z == lst[n].zone
           new == [lst EXCEPT ![n] = NoNode]
           u == treeRemoveNode(t, n, z)
           row == Keep(t.tree[z], Node \ {n})
           zs == IF row = <<>> THEN Keep(t.zones, Zone \ {z}) ELSE t.zones
<1>1. z \in Zone
  <2>1. lst[n] \in NodeObj BY DEF Lister
  <2> QED BY <2>1, ObjFacts
<1>2. n \in Range(t.tree[z]) BY <1>1 DEF TreeOK
<1>3. /\ new \in Lister /\ new[n] = NoNode /\ \A m \in Node : m # n => new[m] = lst[m]
  BY DEF Lister
<1>4. t.tree \in [Zone -> Seq(Node)] /\ t.zones \in Seq(Zone) /\ t.numNodes \in Int
  BY DEF TreeOK, NodeTree
<1>5. u = [tree |-> [t.tree EXCEPT ![z] = row], zones |-> zs, numNodes |-> t.numNodes - 1]
  BY <1>2 DEF treeRemoveNode
<1>6. t.tree[z] \in Seq(Node) /\ Distinct(t.tree[z]) BY <1>1, <1>4 DEF TreeOK
<1>7. row \in Seq(Node) /\ Range(row) = Range(t.tree[z]) \ {n} /\ Distinct(row)
  <2>1. row \in Seq(Node) /\ Range(row) = Range(t.tree[z]) \cap (Node \ {n}) /\ Distinct(row)
    BY <1>6, KeptSeq
  <2>2. Range(t.tree[z]) \subseteq Node BY <1>6, RangeInType
  <2> HIDE DEF row
  <2> QED BY <2>1, <2>2
<1> HIDE DEF row, new
<1>8. /\ zs \in Seq(Zone) /\ Distinct(zs)
      /\ Range(zs) = IF row = <<>> THEN Range(t.zones) \ {z} ELSE Range(t.zones)
  <2>1. Distinct(t.zones) BY DEF TreeOK
  <2>2. CASE row # <<>> BY <2>1, <2>2, <1>4
  <2>3. CASE row = <<>>
    <3> DEFINE k == Keep(t.zones, Zone \ {z})
    <3>1. k \in Seq(Zone) /\ Range(k) = Range(t.zones) \cap (Zone \ {z}) /\ Distinct(k)
      BY <2>1, <1>4, KeptSeq
    <3>2. Range(t.zones) \subseteq Zone BY <1>4, RangeInType
    <3>3. zs = k BY <2>3
    <3> HIDE DEF k, zs
    <3> QED BY <3>1, <3>2, <3>3, <2>3
  <2> QED BY <2>2, <2>3
<1> HIDE DEF zs, z
<1>9. /\ u.tree = [t.tree EXCEPT ![z] = row] /\ u.zones = zs /\ u.numNodes = t.numNodes - 1
      /\ u \in NodeTree
  <2> DEFINE c == t.numNodes - 1
             tr == [t.tree EXCEPT ![z] = row]
  <2>1. c \in Int /\ tr \in [Zone -> Seq(Node)]
    <3> DEFINE Q == Seq(Node)
    <3>1. t.tree \in [Zone -> Q] /\ row \in Q BY <1>4, <1>7
    <3> HIDE DEF Q
    <3>2. tr \in [Zone -> Q] BY <3>1
    <3> QED BY <3>2, <1>4 DEF Q
  <2>2. u = [tree |-> tr, zones |-> zs, numNodes |-> c] BY <1>5
  <2> HIDE DEF c, tr, u
  <2>3. u.tree = tr /\ u.zones = zs /\ u.numNodes = c /\ u \in NodeTree
    BY <2>1, <2>2, <1>8 DEF NodeTree
  <2> QED BY <2>3 DEF c, tr
<1>10. u.tree[z] = row /\ \A y \in Zone : y # z => u.tree[y] = t.tree[y] BY <1>1, <1>4, <1>9
<1> HIDE DEF u
<1>11. ASSUME NEW y \in Zone, NEW m \in Node
       PROVE  m \in Range(u.tree[y]) <=> (new[m] # NoNode /\ new[m].zone = y)
  <2>1. m \in Range(t.tree[y]) <=> (lst[m] # NoNode /\ lst[m].zone = y) BY DEF TreeOK
  <2>2. CASE y = z /\ m = n BY <2>2, <1>3, <1>7, <1>10
  <2>3. CASE y = z /\ m # n BY <2>1, <2>3, <1>3, <1>7, <1>10
  <2>4. CASE y # z /\ m = n BY <2>1, <2>4, <1>3, <1>10 DEF z
  <2>5. CASE y # z /\ m # n BY <2>1, <2>5, <1>3, <1>10
  <2> QED BY <2>2, <2>3, <2>4, <2>5
<1>12. \A y \in Zone : Distinct(u.tree[y]) BY <1>7, <1>10 DEF TreeOK
<1>13. t.tree[z] # <<>> BY <1>2, <1>6, EmptyRange
<1>14. \A y \in Zone : y \in Range(u.zones) <=> u.tree[y] # <<>>
  BY <1>1, <1>8, <1>9, <1>10, <1>13 DEF TreeOK
<1>15. u.numNodes = Cardinality(Held(new))
  <2>1. Held(new) = Held(lst) \ {n} /\ n \in Held(lst) BY <1>3 DEF Held
  <2>2. Cardinality(Held(lst) \ {n}) = Cardinality(Held(lst)) - 1
    BY <2>1, HeldFinite, FS_RemoveElement
  <2> QED BY <2>1, <2>2, <1>9 DEF TreeOK
<1>16. TreeOK(u, new) BY <1>8, <1>9, <1>11, <1>12, <1>14, <1>15 DEF TreeOK
<1>17. u # t BY <1>4, <1>9
<1> QED BY <1>16, <1>17 DEF u, new, z

\* updateNode of node_tree.go moves the node from its old zone to the new one.
LEMMA TreeUpdate ==
    ASSUME NEW t, NEW lst \in Lister, TreeOK(t, lst), NEW n \in Node, lst[n] # NoNode,
           NEW o \in NodeObj
    PROVE  TreeOK(treeUpdateNode(t, n, lst[n].zone, o.zone), [lst EXCEPT ![n] = o])
<1> DEFINE new == [lst EXCEPT ![n] = o]
<1>0. o # NoNode /\ o.zone \in Zone BY ObjFacts
<1>1. /\ new \in Lister /\ new[n] = o /\ \A m \in Node : m # n => new[m] = lst[m]
  BY DEF Lister
<1>2. CASE lst[n].zone = o.zone
  <2>1. treeUpdateNode(t, n, lst[n].zone, o.zone) = t BY <1>2 DEF treeUpdateNode
  <2> HIDE DEF new
  <2>2. Held(new) = Held(lst) BY <1>0, <1>1 DEF Held
  <2>3. \A z \in Zone, m \in Node : (new[m] # NoNode /\ new[m].zone = z)
                                       <=> (lst[m] # NoNode /\ lst[m].zone = z)
    <3> SUFFICES ASSUME NEW z \in Zone, NEW m \in Node
                 PROVE  (new[m] # NoNode /\ new[m].zone = z) <=> (lst[m] # NoNode /\ lst[m].zone = z)
      OBVIOUS
    <3>1. CASE m = n BY <3>1, <1>0, <1>1, <1>2
    <3>2. CASE m # n BY <3>2, <1>1
    <3> QED BY <3>1, <3>2
  <2>4. TreeOK(t, new) BY <2>2, <2>3 DEF TreeOK
  <2> QED BY <2>1, <2>4 DEF new
<1>3. CASE lst[n].zone # o.zone
  <2> DEFINE mid == [lst EXCEPT ![n] = NoNode]
             r == treeRemoveNode(t, n, lst[n].zone)
  <2>1. TreeOK(r, mid) BY TreeRemove
  <2>2. mid \in Lister /\ mid[n] = NoNode /\ [mid EXCEPT ![n] = o] = new BY DEF Lister
  <2> HIDE DEF mid, r, new
  <2>3. TreeOK(treeAddNode(r, n, o.zone), [mid EXCEPT ![n] = o]) BY <2>1, <2>2, TreeAdd
  <2>4. treeUpdateNode(t, n, lst[n].zone, o.zone) = treeAddNode(r, n, o.zone)
    BY <1>3 DEF treeUpdateNode, r
  <2> QED BY <2>2, <2>3, <2>4 DEF new
<1> QED BY <1>2, <1>3

\* An image is credited to exactly the listed nodes that report it.
ImagesOK(states, lst) == states = [i \in Image |-> {n \in Node : i \in ImagesOf(lst[n])}]

\* The old object's images are taken back before the new one's are added.
LEMMA ImagesAdded ==
    ASSUME NEW states, NEW lst \in Lister, ImagesOK(states, lst), NEW n \in Node, NEW o \in NodeObj
    PROVE  ImagesOK(addNodeImageStates(removeNodeImageStates(states, n, lst[n]), n, o),
                    [lst EXCEPT ![n] = o])
<1> DEFINE new == [lst EXCEPT ![n] = o]
           mid == removeNodeImageStates(states, n, lst[n])
           end == addNodeImageStates(mid, n, o)
<1>1. new[n] = o /\ \A m \in Node : m # n => new[m] = lst[m] BY DEF Lister
<1>2. \A i \in Image : mid[i] = IF i \in ImagesOf(lst[n]) THEN states[i] \ {n} ELSE states[i]
  BY DEF removeNodeImageStates
<1>3. end = [i \in Image |-> IF i \in ImagesOf(o) THEN mid[i] \cup {n} ELSE mid[i]]
  BY DEF addNodeImageStates
<1> HIDE DEF new, mid, end
<1>4. ASSUME NEW i \in Image PROVE end[i] = {m \in Node : i \in ImagesOf(new[m])}
  <2>1. states[i] = {m \in Node : i \in ImagesOf(lst[m])} BY DEF ImagesOK
  <2>2. end[i] = IF i \in ImagesOf(o) THEN mid[i] \cup {n} ELSE mid[i] BY <1>3
  <2>3. mid[i] = IF i \in ImagesOf(lst[n]) THEN states[i] \ {n} ELSE states[i] BY <1>2
  <2>4. ASSUME NEW m PROVE m \in end[i] <=> m \in Node /\ i \in ImagesOf(new[m])
    <3>1. CASE m = n
      <4>1. new[m] = o BY <1>1, <3>1
      <4> QED BY <2>1, <2>2, <2>3, <3>1, <4>1
    <3>2. CASE m # n
      <4>1. m \in Node => new[m] = lst[m] BY <1>1, <3>2
      <4> QED BY <2>1, <2>2, <2>3, <3>2, <4>1
    <3> QED BY <3>1, <3>2
  <2> QED BY <2>4
<1>5. end = [i \in Image |-> {m \in Node : i \in ImagesOf(new[m])}] BY <1>3, <1>4
<1> QED BY <1>5 DEF ImagesOK, new, mid, end

\* A removed node's images are taken back.
LEMMA ImagesRemoved ==
    ASSUME NEW states, NEW lst \in Lister, ImagesOK(states, lst), NEW n \in Node
    PROVE  ImagesOK(removeNodeImageStates(states, n, lst[n]), [lst EXCEPT ![n] = NoNode])
<1> DEFINE new == [lst EXCEPT ![n] = NoNode]
           end == removeNodeImageStates(states, n, lst[n])
<1>1. new[n] = NoNode /\ \A m \in Node : m # n => new[m] = lst[m] BY DEF Lister
<1>2. end = [i \in Image |-> IF i \in ImagesOf(lst[n]) THEN states[i] \ {n} ELSE states[i]]
  BY DEF removeNodeImageStates
<1>3. ImagesOf(NoNode) = {} BY DEF ImagesOf
<1> HIDE DEF new, end
<1>4. ASSUME NEW i \in Image PROVE end[i] = {m \in Node : i \in ImagesOf(new[m])}
  <2>1. states[i] = {m \in Node : i \in ImagesOf(lst[m])} BY DEF ImagesOK
  <2>2. ASSUME NEW m PROVE m \in end[i] <=> m \in Node /\ i \in ImagesOf(new[m])
    BY <1>1, <1>2, <1>3, <2>1
  <2> QED BY <2>2
<1>5. end = [i \in Image |-> {m \in Node : i \in ImagesOf(new[m])}] BY <1>2, <1>4
<1> QED BY <1>5 DEF ImagesOK, new, end
\* The cache has the node objects the informer has.
ObjectsListed == \A n \in Node : info[n].node = lister[n]

\* The indexes over the nodes agree with the node informer.
IndexInv ==
    /\ lister \in Lister
    /\ ObjectsListed
    /\ TreeOK(nodeTree, lister)
    /\ ImagesOK(imageStates, lister)

\* A step that changes no node object.
LEMMA IndexUnchanged ==
    ASSUME IndexInv, SameObjects, UNCHANGED <<nodeTree, imageStates, lister>>
    PROVE  IndexInv'
<1>1. ObjectsListed' BY DEF IndexInv, ObjectsListed, SameObjects
<1>2. TreeOK(nodeTree', lister') /\ ImagesOK(imageStates', lister') /\ lister' \in Lister
  BY DEF IndexInv
<1> QED BY <1>1, <1>2 DEF IndexInv

\* Setting a node object changes no pod.
LEMMA NodeTouched ==
    ASSUME FreshInv, UNCHANGED snap, NEW n \in Node, NEW o \in NodeObj \cup {NoNode},
           Touch(<<n>>, [info EXCEPT ![n].node = o])
    PROVE  /\ FreshInv'
           /\ \A m \in Node : info'[m].pods = info[m].pods
           /\ \A m \in Node : info'[m].node = IF m = n THEN o ELSE info[m].node
<1> DEFINE rec == [info[n] EXCEPT !.node = o]
           inf == [info EXCEPT ![n] = rec]
           order == <<n>>
<1>1. info \in [Node -> NodeInfo] BY InfoTyped
<1>2. rec \in NodeInfo /\ rec.node = o /\ rec.pods = info[n].pods BY <1>1 DEF NodeInfo
<1>3. Touch(order, inf) OBVIOUS
<1>4. order \in Seq(Node) /\ Distinct(order) /\ Range(order) = {n} BY OneTouched
<1> HIDE DEF rec, order
<1>5. inf \in [Node -> NodeInfo] /\ inf[n] = rec /\ \A m \in Node : m # n => inf[m] = info[m]
  BY <1>1, <1>2
<1> HIDE DEF inf
<1>6. \A m \in Node : m \notin Range(order) => inf[m] = info[m] BY <1>4, <1>5
<1>7. /\ FreshInv'
      /\ \A m \in Node : info'[m].pods = inf[m].pods /\ info'[m].node = inf[m].node
  BY <1>3, <1>4, <1>5, <1>6, TouchKeepsOrder
<1> QED BY <1>2, <1>5, <1>7

\* A step that changes no pod.
LEMMA PodsUntouched ==
    ASSUME PodInv, UNCHANGED <<podVars, api, seen, binder>>,
           \A n \in Node : info'[n].pods = info[n].pods
    PROVE  PodInv'
<1>1. UNCHANGED <<podNode, assumedPods, bindingFinished, deadline, fatal>> BY DEF podVars
<1>2. PodType' BY <1>1 DEF PodInv, PodType
<1> QED BY <1>1, <1>2 DEF PodInv, CountedOnce, CacheAgreesWithInformer, DeadlinesSet

\* A node the informer has is in the cache, so RemoveNode's error is out of
\* reach.
LEMMA LiveIsCached ==
    ASSUME FreshInv, IndexInv, NEW n \in Node, lister[n] # NoNode
    PROVE  InCache(n)
<1>1. Alive(info[n]) BY DEF Alive, IndexInv, ObjectsListed
<1> QED BY <1>1 DEF FreshInv, ListInv, ListedAlive

\* AddNode and UpdateNode.
LEMMA AddNodeStep ==
    ASSUME FreshInv, PodInv, IndexInv, NEW n \in Node, NEW o \in NodeObj,
           AddNode(n, o) \/ UpdateNode(n, o)
    PROVE  FreshInv' /\ PodInv' /\ IndexInv'
<1>1. /\ lister' = [lister EXCEPT ![n] = o]
      /\ imageStates' = addNodeImageStates(
                            removeNodeImageStates(imageStates, n, info[n].node), n, o)
      /\ Touch(<<n>>, [info EXCEPT ![n].node = o])
      /\ UNCHANGED <<podVars, snap, api, seen, binder>>
  BY DEF AddNode, UpdateNode, snapVars
<1>2. /\ FreshInv'
      /\ \A m \in Node : info'[m].pods = info[m].pods
      /\ \A m \in Node : info'[m].node = IF m = n THEN o ELSE info[m].node
  BY <1>1, NodeTouched
<1>3. PodInv' BY <1>1, <1>2, PodsUntouched
<1>4. lister \in Lister /\ info[n].node = lister[n] BY DEF IndexInv, ObjectsListed
<1>5. lister' \in Lister BY <1>1, <1>4 DEF Lister
<1>6. ObjectsListed' BY <1>1, <1>2, <1>4 DEF IndexInv, ObjectsListed, Lister
<1>7. TreeOK(nodeTree', lister')
  <2>1. CASE AddNode(n, o)
    <3>1. lister[n] = NoNode /\ nodeTree' = treeAddNode(nodeTree, n, o.zone) BY <2>1 DEF AddNode
    <3> QED BY <3>1, <1>1, <1>4, TreeAdd DEF IndexInv
  <2>2. CASE UpdateNode(n, o)
    <3>1. lister[n] # NoNode BY <2>2 DEF UpdateNode
    <3>2. InCache(n) BY <3>1, LiveIsCached
    <3>3. nodeTree' = treeUpdateNode(nodeTree, n, lister[n].zone, o.zone)
      BY <2>2, <3>2 DEF UpdateNode
    <3> QED BY <3>1, <3>3, <1>1, <1>4, TreeUpdate DEF IndexInv
  <2> QED BY <2>1, <2>2
<1>8. ImagesOK(imageStates', lister') BY <1>1, <1>4, ImagesAdded DEF IndexInv
<1> QED BY <1>2, <1>3, <1>5, <1>6, <1>7, <1>8 DEF IndexInv

\* RemoveNode: the tree changes, so the image states are taken back too.
LEMMA RemoveNodeStep ==
    ASSUME FreshInv, PodInv, IndexInv, NEW n \in Node, RemoveNode(n)
    PROVE  FreshInv' /\ PodInv' /\ IndexInv'
<1>1. lister[n] # NoNode /\ lister' = [lister EXCEPT ![n] = NoNode]
      /\ UNCHANGED <<podVars, snap, api, seen, binder>>
  BY DEF RemoveNode, snapVars
<1>2. InCache(n) BY <1>1, LiveIsCached
<1>3. /\ Touch(<<n>>, [info EXCEPT ![n].node = NoNode])
      /\ nodeTree' = treeRemoveNode(nodeTree, n, lister[n].zone)
      /\ imageStates' = IF nodeTree' = nodeTree THEN imageStates
                        ELSE removeNodeImageStates(imageStates, n, lister[n])
  BY <1>2 DEF RemoveNode
<1>4. /\ FreshInv'
      /\ \A m \in Node : info'[m].pods = info[m].pods
      /\ \A m \in Node : info'[m].node = IF m = n THEN NoNode ELSE info[m].node
  BY <1>1, <1>3, NodeTouched
<1>5. PodInv' BY <1>1, <1>4, PodsUntouched
<1>6. lister \in Lister BY DEF IndexInv
<1>7. lister' \in Lister BY <1>1, <1>6 DEF Lister
<1>8. ObjectsListed' BY <1>1, <1>4, <1>6 DEF IndexInv, ObjectsListed, Lister
<1>9. TreeOK(nodeTree', lister') /\ nodeTree' # nodeTree
  BY <1>1, <1>3, <1>6, TreeRemove DEF IndexInv
<1>10. ImagesOK(imageStates', lister')
  BY <1>1, <1>3, <1>6, <1>9, ImagesRemoved DEF IndexInv
<1> QED BY <1>4, <1>5, <1>7, <1>8, <1>9, <1>10 DEF IndexInv
-----------------------------------------------------------------------------
\* The zones that have an r-th node.
Having(t, r) == Keep(t.zones, {z \in Zone : Len(t.tree[z]) >= r})

\* The r-th round of nodeTree.list.
Round(t, r) == [i \in DOMAIN Having(t, r) |-> t.tree[Having(t, r)[i]][r]]

\* A round has the r-th node of every zone that has one, once.
LEMMA RoundFacts ==
    ASSUME NEW t, NEW lst \in Lister, TreeOK(t, lst), NEW r \in Nat, r # 0
    PROVE  /\ Round(t, r) \in Seq(Node) /\ Distinct(Round(t, r))
           /\ \A n \in Node : n \in Range(Round(t, r)) <=>
                 \E z \in Zone : r \in DOMAIN t.tree[z] /\ t.tree[z][r] = n
<1> DEFINE S == {z \in Zone : Len(t.tree[z]) >= r}
           H == Having(t, r)
           row == Round(t, r)
<1>1. t.tree \in [Zone -> Seq(Node)] /\ t.zones \in Seq(Zone) BY DEF TreeOK, NodeTree
<1>2. Distinct(t.zones) BY DEF TreeOK
<1>3. H \in Seq(Zone) /\ Range(H) = Range(t.zones) \cap S /\ Distinct(H)
  BY <1>1, <1>2, KeptSeq DEF Having
<1>4. row = [i \in DOMAIN H |-> t.tree[H[i]][r]] BY DEF Round
<1>5. ASSUME NEW z \in Zone
      PROVE  /\ t.tree[z] \in Seq(Node) /\ Len(t.tree[z]) \in Nat
             /\ DOMAIN t.tree[z] = 1..Len(t.tree[z])
             /\ r \in DOMAIN t.tree[z] <=> z \in S
             /\ r \in DOMAIN t.tree[z] => z \in Range(t.zones)
  <2>1. t.tree[z] \in Seq(Node) BY <1>1
  <2>2. Len(t.tree[z]) \in Nat /\ DOMAIN t.tree[z] = 1..Len(t.tree[z]) BY <2>1, LenProperties
  <2>3. r \in DOMAIN t.tree[z] <=> z \in S BY <2>2
  <2>4. r \in DOMAIN t.tree[z] => t.tree[z] # <<>>
    <3> SUFFICES ASSUME r \in DOMAIN t.tree[z] PROVE t.tree[z] # <<>> OBVIOUS
    <3>1. Range(t.tree[z]) # {} BY DEF Range
    <3> QED BY <3>1, <2>1, EmptyRange
  <2>5. r \in DOMAIN t.tree[z] => z \in Range(t.zones) BY <2>4 DEF TreeOK
  <2> QED BY <2>1, <2>2, <2>3, <2>5
<1> HIDE DEF H, row, S
<1>6. Len(H) \in Nat /\ DOMAIN H = 1..Len(H) BY <1>3, LenProperties
<1>7. ASSUME NEW i \in DOMAIN H
      PROVE  /\ H[i] \in Zone /\ r \in DOMAIN t.tree[H[i]] /\ row[i] = t.tree[H[i]][r]
             /\ row[i] \in Node /\ row[i] \in Range(t.tree[H[i]]) /\ lst[row[i]].zone = H[i]
  <2>1. H[i] \in Range(H) BY DEF Range
  <2>2. H[i] \in Zone /\ H[i] \in S BY <2>1, <1>3, RangeInType
  <2>3. r \in DOMAIN t.tree[H[i]] BY <2>2, <1>5
  <2>4. row[i] = t.tree[H[i]][r] BY <1>4
  <2>5. row[i] \in Range(t.tree[H[i]]) BY <2>3, <2>4 DEF Range
  <2>6. row[i] \in Node BY <2>2, <2>5, <1>5, RangeInType
  <2> QED BY <2>2, <2>3, <2>4, <2>5, <2>6 DEF TreeOK
<1>8. row \in Seq(Node)
  <2>1. row \in [1..Len(H) -> Node] BY <1>4, <1>6, <1>7
  <2> QED BY <2>1, <1>6, SeqDef
<1>9. Distinct(row)
  <2>1. DOMAIN row = DOMAIN H BY <1>4
  <2> QED BY <2>1, <1>3, <1>7 DEF Distinct
<1>10. ASSUME NEW n \in Node, n \in Range(row)
       PROVE  \E z \in Zone : r \in DOMAIN t.tree[z] /\ t.tree[z][r] = n
  <2>1. PICK i \in DOMAIN H : row[i] = n BY <1>4, <1>10 DEF Range
  <2> QED BY <2>1, <1>7
<1>11. ASSUME NEW n \in Node, NEW z \in Zone, r \in DOMAIN t.tree[z], t.tree[z][r] = n
       PROVE  n \in Range(row)
  <2>1. z \in Range(H) BY <1>3, <1>5, <1>11
  <2>2. PICK i \in DOMAIN H : H[i] = z BY <2>1 DEF Range
  <2>3. row[i] = n /\ i \in DOMAIN row BY <2>2, <1>4, <1>11
  <2> QED BY <2>3 DEF Range
<1> QED BY <1>8, <1>9, <1>10, <1>11 DEF row

\* nodeTree.list returns every listed node once.
LEMMA TreeListed ==
    ASSUME NEW t, NEW lst \in Lister, TreeOK(t, lst)
    PROVE  treeList(t) \in Seq(Node) /\ Distinct(treeList(t)) /\ Range(treeList(t)) = Held(lst)
<1> DEFINE N == t.numNodes
           seqs == [r \in 1..N |-> Round(t, r)]
<1>1. N = Cardinality(Held(lst)) /\ N \in Nat BY HeldFinite DEF TreeOK
<1>2. treeList(t) = FlattenSeq(seqs) BY DEF treeList, Round, Having
<1>3. t.tree \in [Zone -> Seq(Node)] BY DEF TreeOK, NodeTree
<1> HIDE DEF N
<1>4. ASSUME NEW r \in 1..N
      PROVE  /\ seqs[r] \in Seq(Node) /\ Distinct(seqs[r])
             /\ \A n \in Node : n \in Range(seqs[r]) <=>
                   \E z \in Zone : r \in DOMAIN t.tree[z] /\ t.tree[z][r] = n
  <2>1. r \in Nat /\ r # 0 BY <1>1
  <2>2. seqs[r] = Round(t, r) OBVIOUS
  <2> HIDE DEF seqs
  <2> QED BY <2>1, <2>2, RoundFacts
<1>5. seqs \in Seq(Seq(Node)) /\ Len(seqs) = N
  <2>1. seqs \in [1..N -> Seq(Node)] BY <1>4
  <2>2. seqs \in Seq(Seq(Node)) BY <2>1, <1>1, SeqDef
  <2>3. DOMAIN seqs = 1..N OBVIOUS
  <2> HIDE DEF seqs
  <2>4. DOMAIN seqs = 1..Len(seqs) /\ Len(seqs) \in Nat BY <2>2, LenProperties
  <2> QED BY <2>2, <2>3, <2>4, <1>1
<1> HIDE DEF seqs
<1>6. ASSUME NEW r \in 1..N, NEW q \in 1..N, r < q PROVE Range(seqs[r]) \cap Range(seqs[q]) = {}
  <2> SUFFICES ASSUME NEW n \in Range(seqs[r]), n \in Range(seqs[q]) PROVE FALSE OBVIOUS
  <2>1. n \in Node BY <1>4, RangeInType
  <2>2. PICK z \in Zone : r \in DOMAIN t.tree[z] /\ t.tree[z][r] = n BY <1>4, <2>1
  <2>3. PICK y \in Zone : q \in DOMAIN t.tree[y] /\ t.tree[y][q] = n BY <1>4, <2>1
  <2>4. n \in Range(t.tree[z]) /\ n \in Range(t.tree[y]) BY <2>2, <2>3 DEF Range
  <2>5. z = y BY <2>1, <2>4 DEF TreeOK
  <2>6. Distinct(t.tree[z]) BY DEF TreeOK
  <2>7. r # q BY <1>1, <1>6
  <2> QED BY <2>2, <2>3, <2>5, <2>6, <2>7 DEF Distinct
<1>7. /\ FlattenSeq(seqs) \in Seq(Node) /\ Distinct(FlattenSeq(seqs))
      /\ \A x : x \in Range(FlattenSeq(seqs)) <=> \E i \in 1..N : x \in Range(seqs[i])
  <2>1. \A i \in 1..Len(seqs) : Distinct(seqs[i]) BY <1>4, <1>5
  <2>2. \A i, j \in 1..Len(seqs) : i < j => Range(seqs[i]) \cap Range(seqs[j]) = {} BY <1>5, <1>6
  <2>3. /\ FlattenSeq(seqs) \in Seq(Node) /\ Distinct(FlattenSeq(seqs))
        /\ \A x : x \in Range(FlattenSeq(seqs)) <=> \E i \in 1..Len(seqs) : x \in Range(seqs[i])
    BY <2>1, <2>2, <1>5, FlattenFacts
  <2> QED BY <2>3, <1>5
<1>8. ASSUME NEW n \in Range(FlattenSeq(seqs)) PROVE n \in Held(lst)
  <2>1. PICK i \in 1..N : n \in Range(seqs[i]) BY <1>7
  <2>2. n \in Node BY <2>1, <1>4, RangeInType
  <2>3. PICK z \in Zone : i \in DOMAIN t.tree[z] /\ t.tree[z][i] = n BY <2>1, <2>2, <1>4
  <2>4. n \in Range(t.tree[z]) BY <2>3 DEF Range
  <2> QED BY <2>2, <2>4 DEF TreeOK, Held
<1>9. ASSUME NEW n \in Held(lst) PROVE n \in Range(FlattenSeq(seqs))
  <2> DEFINE z == lst[n].zone
  <2>1. n \in Node /\ lst[n] # NoNode BY DEF Held
  <2>2. z \in Zone
    <3>1. lst[n] \in NodeObj BY <2>1 DEF Lister
    <3> QED BY <3>1, ObjFacts
  <2>3. n \in Range(t.tree[z]) BY <2>1, <2>2 DEF TreeOK
  <2>4. PICK r \in DOMAIN t.tree[z] : t.tree[z][r] = n BY <2>3 DEF Range
  <2>5. t.tree[z] \in Seq(Node) /\ Distinct(t.tree[z]) BY <2>2, <1>3 DEF TreeOK
  <2>6. Cardinality(Range(t.tree[z])) = Len(t.tree[z]) BY <2>5, LenIsCardinality
  <2>7. Range(t.tree[z]) \in SUBSET Held(lst)
    <3>1. Range(t.tree[z]) \subseteq Node BY <2>5, RangeInType
    <3>2. \A m \in Node : m \in Range(t.tree[z]) => lst[m] # NoNode BY <2>2 DEF TreeOK
    <3> QED BY <3>1, <3>2 DEF Held
  <2>8. Cardinality(Range(t.tree[z])) <= N BY <2>7, <1>1, HeldFinite, FS_Subset
  <2>9. Len(t.tree[z]) \in Nat /\ DOMAIN t.tree[z] = 1..Len(t.tree[z]) BY <2>5, LenProperties
  <2>10. r \in 1..N BY <2>4, <2>6, <2>8, <2>9, <1>1
  <2>11. n \in Range(seqs[r]) BY <2>1, <2>2, <2>4, <2>10, <1>4
  <2> QED BY <2>10, <2>11, <1>7
<1>10. Range(FlattenSeq(seqs)) = Held(lst) BY <1>8, <1>9
<1> QED BY <1>2, <1>7, <1>10
-----------------------------------------------------------------------------
\* The type of the snapshot's map.
SnapMap == [Node -> NodeInfo \cup {NoNode}]

\* Between refreshes the snapshot's lists agree with its own map.
SnapInv ==
    /\ snap.map \in SnapMap
    /\ snap.list \in Seq(Node) /\ Distinct(snap.list)
    /\ Range(snap.list) = Entries(snap.map)
    /\ snap.have = HavingTerms(snap.list, snap.map)
    /\ ~snapErr

\* The map a refresh ends with: every live node as it is in the cache.
LiveMap == [n \in Node |-> IF lister[n] # NoNode THEN info[n] ELSE NoNode]

\* The nodes a refresh copies.
Cloned == {n \in Visited : info[n].node # NoNode}

\* The snapshot's map once they are copied.
Copied == [n \in Node |-> IF n \in Cloned THEN info[n] ELSE snap.map[n]]

\* The early break misses no change: a node behind it has the generation of its
\* entry.
LEMMA VisitedOrFresh ==
    ASSUME FreshInv, NEW n \in Node, info[n].node # NoNode
    PROVE  n \in Visited \/ snap.map[n] = info[n]
<1>1. list \in Seq(Node) /\ info \in [Node -> NodeInfo] BY DEF FreshInv, ListInv, ListType
<1>2. Len(list) \in Nat /\ DOMAIN list = 1..Len(list) BY <1>1, LenProperties
<1>3. n \in Range(list) BY DEF FreshInv, ListInv, ListedAlive, InCache, Alive
<1>4. PICK j \in DOMAIN list : list[j] = n BY <1>3 DEF Range
<1>5. CASE \A m \in 1..j : info[list[m]].gen > snap.gen
  BY <1>4, <1>5 DEF Visited
<1>6. CASE ~\A m \in 1..j : info[list[m]].gen > snap.gen
  <2>1. PICK m \in 1..j : ~(info[list[m]].gen > snap.gen) BY <1>6
  <2>2. m \in DOMAIN list /\ (m < j \/ m = j) BY <1>2, <1>4, <2>1
  <2>3. list[m] \in Node /\ list[j] \in Node BY <1>1, <1>2, <1>4, <2>2, ElementOfSeq
  <2>4. info[list[m]].gen \in Int /\ info[list[j]].gen \in Int /\ snap.gen \in Int
    BY <1>1, <2>3 DEF NodeInfo, FreshInv, SnapGenBounded
  <2>5. m < j => info[list[m]].gen > info[list[j]].gen
    BY <1>4, <2>2 DEF FreshInv, ListInv, FallingGens
  <2>6. info[n].gen <= snap.gen BY <1>4, <2>1, <2>2, <2>4, <2>5
  <2> QED BY <2>6 DEF FreshInv, SnapFresh
<1> QED BY <1>5, <1>6

\* After copying, every live node is right, whatever else is in the map.
LEMMA CopiedFacts ==
    ASSUME FreshInv, IndexInv, SnapInv
    PROVE  /\ Copied \in SnapMap
           /\ \A n \in Held(lister) : Copied[n] = info[n] /\ Copied[n] # NoNode
           /\ Held(lister) \subseteq Entries(Copied)
           /\ \A n \in Node : n \notin Held(lister) => Copied[n] = snap.map[n] /\ n \notin Cloned
<1>1. info \in [Node -> NodeInfo] BY InfoTyped
<1>2. snap.map \in SnapMap BY DEF SnapInv
<1>3. Copied \in SnapMap BY <1>1, <1>2 DEF Copied, SnapMap
<1>4. NoNode \notin NodeInfo BY CacheAssumption
<1>5. ASSUME NEW n \in Held(lister) PROVE Copied[n] = info[n] /\ Copied[n] # NoNode /\ n \in Node
  <2>1. n \in Node /\ info[n].node # NoNode BY DEF Held, IndexInv, ObjectsListed
  <2>2. n \in Visited \/ snap.map[n] = info[n] BY <2>1, VisitedOrFresh
  <2>3. Copied[n] = info[n] BY <2>1, <2>2 DEF Copied, Cloned
  <2> QED BY <2>1, <2>3, <1>1, <1>4
<1>6. ASSUME NEW n \in Node, n \notin Held(lister) PROVE Copied[n] = snap.map[n] /\ n \notin Cloned
  <2>1. info[n].node = NoNode BY <1>6 DEF Held, IndexInv, ObjectsListed
  <2> QED BY <2>1 DEF Copied, Cloned
<1>7. Held(lister) \subseteq Entries(Copied) BY <1>5 DEF Entries
<1> QED BY <1>3, <1>5, <1>6, <1>7

\* There are finitely many entries.
LEMMA EntriesFinite ==
    ASSUME NEW map PROVE IsFiniteSet(Entries(map)) /\ Cardinality(Entries(map)) \in Nat
<1>1. Entries(map) \in SUBSET Node BY DEF Entries
<1>2. IsFiniteSet(Entries(map)) BY <1>1, CacheAssumption, FS_Subset
<1> QED BY <1>2, FS_CardinalityType

\* With no more entries than nodes, the entries are the nodes.
LEMMA NotShrunk ==
    ASSUME FreshInv, IndexInv, SnapInv, ~(Cardinality(Entries(Copied)) > nodeTree.numNodes)
    PROVE  Entries(Copied) = Held(lister) /\ Copied = LiveMap
<1> DEFINE E == Entries(Copied)
           L == Held(lister)
<1>1. /\ Copied \in SnapMap
      /\ \A n \in L : Copied[n] = info[n]
      /\ L \subseteq E
  BY CopiedFacts
<1>2. IsFiniteSet(E) /\ Cardinality(E) \in Nat BY EntriesFinite
<1>3. nodeTree.numNodes = Cardinality(L) BY DEF IndexInv, TreeOK
<1>4. Cardinality(L) \in Nat BY HeldFinite
<1>5. ~(Cardinality(E) > Cardinality(L)) BY <1>3
<1> HIDE DEF E, L
<1>6. Cardinality(L) <= Cardinality(E) /\ (Cardinality(E) = Cardinality(L) => E = L)
  BY <1>1, <1>2, FS_Subset
<1>7. E = L BY <1>2, <1>4, <1>5, <1>6
<1>8. \A n \in Node : n \notin L => Copied[n] = NoNode BY <1>7 DEF E, Entries
<1>9. ASSUME NEW n \in Node PROVE Copied[n] = IF lister[n] # NoNode THEN info[n] ELSE NoNode
  BY <1>1, <1>8 DEF L, Held
<1>10. Copied = [n \in Node |-> Copied[n]] BY <1>1 DEF SnapMap
<1>11. Copied = LiveMap BY <1>9, <1>10 DEF LiveMap
<1> QED BY <1>7, <1>11 DEF E, L

\* removeDeletedNodesFromSnapshot removes as many entries as there are dead
\* ones, hence all of them.
LEMMA Shrunk ==
    ASSUME FreshInv, IndexInv, SnapInv, Cardinality(Entries(Copied)) > nodeTree.numNodes,
           NEW map \in removeDeletedNodesFromSnapshot(Copied)
    PROVE  map = LiveMap
<1> DEFINE E == Entries(Copied)
           L == Held(lister)
           dead == {n \in E : ~InCache(n) \/ info[n].node = NoNode}
           excess == Cardinality(E) - nodeTree.numNodes
           wanted == IF excess < Cardinality(dead) THEN excess ELSE Cardinality(dead)
<1>1. /\ Copied \in SnapMap
      /\ \A n \in L : Copied[n] = info[n]
      /\ L \subseteq E
  BY CopiedFacts
<1>2. PICK D \in {C \in SUBSET dead : Cardinality(C) = wanted} :
         map = [n \in Node |-> IF n \in D THEN NoNode ELSE Copied[n]]
  BY DEF removeDeletedNodesFromSnapshot
<1>3. dead = E \ L
  <2>1. ASSUME NEW n \in E PROVE (~InCache(n) \/ info[n].node = NoNode) <=> n \notin L
    <3>1. n \in Node BY DEF Entries
    <3>2. info[n].node = NoNode <=> n \notin L BY <3>1 DEF Held, IndexInv, ObjectsListed
    <3>3. n \in L => InCache(n) BY LiveIsCached DEF Held
    <3> QED BY <3>2, <3>3
  <2> QED BY <2>1
<1>4. IsFiniteSet(E) /\ Cardinality(E) \in Nat BY EntriesFinite
<1>5. nodeTree.numNodes = Cardinality(L) /\ Cardinality(L) \in Nat BY HeldFinite DEF IndexInv, TreeOK
<1>6. D \subseteq dead /\ Cardinality(D) = wanted BY <1>2
<1> HIDE DEF E, L, dead
<1>7. Cardinality(dead) = Cardinality(E) - Cardinality(L) /\ IsFiniteSet(dead)
  <2>1. E \cap L = L BY <1>1
  <2>2. IsFiniteSet(E \ L) /\ Cardinality(E \ L) = Cardinality(E) - Cardinality(E \cap L)
    BY <1>4, FS_Difference
  <2> QED BY <2>1, <2>2, <1>3
<1>8. wanted = Cardinality(dead) BY <1>4, <1>5, <1>7
<1>9. D = dead BY <1>6, <1>7, <1>8, FS_Subset
<1>10. ASSUME NEW n \in Node
       PROVE  (IF n \in D THEN NoNode ELSE Copied[n]) = IF lister[n] # NoNode THEN info[n] ELSE NoNode
  <2>1. CASE n \in L
    <3>1. lister[n] # NoNode BY <2>1 DEF L, Held
    <3> QED BY <3>1, <2>1, <1>1, <1>3, <1>9
  <2>2. CASE n \notin L
    <3>1. lister[n] = NoNode BY <2>2 DEF L, Held
    <3>2. n \notin E => Copied[n] = NoNode BY DEF E, Entries
    <3> QED BY <3>1, <3>2, <2>2, <1>3, <1>9
  <2> QED BY <2>1, <2>2
<1>11. map = [n \in Node |-> IF n \in D THEN NoNode ELSE Copied[n]] BY <1>2
<1> QED BY <1>10, <1>11 DEF LiveMap
\* The map's entries are the live nodes.
LEMMA LiveMapFacts ==
    ASSUME FreshInv
    PROVE  LiveMap \in SnapMap /\ Entries(LiveMap) = Held(lister)
<1>1. info \in [Node -> NodeInfo] BY InfoTyped
<1>2. NoNode \notin NodeInfo BY CacheAssumption
<1> QED BY <1>1, <1>2 DEF LiveMap, SnapMap, Entries, Held

\* The lists of nodes with terms depend only on which nodes have them.
LEMMA SameTerms ==
    ASSUME NEW l \in Seq(Node), NEW map, NEW new,
           \A n \in Node, k \in TermKind : Has(k, map[n]) <=> Has(k, new[n])
    PROVE  HavingTerms(l, map) = HavingTerms(l, new)
<1>1. ASSUME NEW k \in TermKind
      PROVE  Keep(l, {n \in Node : Has(k, map[n])}) = Keep(l, {n \in Node : Has(k, new[n])})
  <2> DEFINE S == {n \in Node : Has(k, map[n])}
             R == {n \in Node : Has(k, new[n])}
  <2>1. S = R OBVIOUS
  <2> QED BY <2>1
<1> QED BY <1>1 DEF HavingTerms

\* What UpdateSnapshot leaves, whichever of its lists it rebuilt; its
\* consistency check does not fail.
LEMMA SnapshotTaken ==
    ASSUME FreshInv, IndexInv, SnapInv, UpdateSnapshot
    PROVE  /\ snap'.map = LiveMap
           /\ snap'.list \in Seq(Node) /\ Distinct(snap'.list) /\ Range(snap'.list) = Held(lister)
           /\ snap'.have = HavingTerms(snap'.list, LiveMap)
           /\ snap'.gen = IF list = <<>> THEN snap.gen ELSE info[Head(list)].gen
           /\ ~snapErr'
<1> DEFINE added == \E n \in Cloned : snap.map[n] = NoNode
           termsChanged == \E n \in Cloned, k \in TermKind : Has(k, snap.map[n]) # Has(k, info[n])
           shrink == Cardinality(Entries(Copied)) > nodeTree.numNodes
           rebuilt(m) == Keep(treeList(nodeTree), Entries(m))
           tried(m) == IF added \/ shrink THEN rebuilt(m) ELSE snap.list
           bad(m) == Len(tried(m)) # nodeTree.numNodes
           final(m) == IF bad(m) THEN rebuilt(m) ELSE tried(m)
           gen == IF list = <<>> THEN snap.gen ELSE info[Head(list)].gen
<1>1. PICK map \in IF shrink THEN removeDeletedNodesFromSnapshot(Copied) ELSE {Copied} :
         /\ snap' = [map |-> map,
                     list |-> final(map),
                     have |-> IF added \/ shrink \/ termsChanged \/ bad(map)
                              THEN HavingTerms(final(map), map) ELSE snap.have,
                     gen |-> gen]
         /\ snapErr' = bad(map)
  BY DEF UpdateSnapshot, Cloned, Copied
<1>2. map = LiveMap
  <2>1. CASE shrink BY <2>1, <1>1, Shrunk
  <2>2. CASE ~shrink BY <2>2, <1>1, NotShrunk
  <2> QED BY <2>1, <2>2
<1>3. Entries(map) = Held(lister) BY <1>2, LiveMapFacts
<1>4. nodeTree.numNodes = Cardinality(Held(lister)) BY DEF IndexInv, TreeOK
<1>5. rebuilt(map) \in Seq(Node) /\ Distinct(rebuilt(map)) /\ Range(rebuilt(map)) = Held(lister)
  <2> DEFINE tl == treeList(nodeTree)
  <2>1. tl \in Seq(Node) /\ Distinct(tl) /\ Range(tl) = Held(lister)
    BY TreeListed DEF IndexInv
  <2> HIDE DEF tl
  <2>2. Keep(tl, Entries(map)) \in Seq(Node) /\ Range(Keep(tl, Entries(map))) = Range(tl) \cap Entries(map)
        /\ Distinct(Keep(tl, Entries(map)))
    BY <2>1, KeptSeq
  <2> QED BY <2>1, <2>2, <1>3 DEF tl
<1>6. ASSUME ~added, ~shrink
      PROVE  snap.list \in Seq(Node) /\ Distinct(snap.list) /\ Range(snap.list) = Held(lister)
             /\ map = Copied
  <2>1. Entries(Copied) = Held(lister) /\ Copied = LiveMap BY <1>6, NotShrunk
  <2>2. Entries(Copied) = Entries(snap.map)
    <3>1. ASSUME NEW n \in Node PROVE Copied[n] # NoNode <=> snap.map[n] # NoNode
      <4>1. CASE n \in Cloned
        <5>1. snap.map[n] # NoNode BY <4>1, <1>6
        <5>2. Copied[n] = info[n] BY <4>1 DEF Copied
        <5>3. info[n] # NoNode BY InfoTyped, CacheAssumption
        <5> QED BY <5>1, <5>2, <5>3
      <4>2. CASE n \notin Cloned BY <4>2 DEF Copied
      <4> QED BY <4>1, <4>2
    <3> QED BY <3>1 DEF Entries
  <2> QED BY <2>1, <2>2, <1>2 DEF SnapInv
<1> HIDE DEF rebuilt
<1>7. tried(map) \in Seq(Node) /\ Distinct(tried(map)) /\ Range(tried(map)) = Held(lister)
  <2>1. CASE added \/ shrink BY <2>1, <1>5
  <2>2. CASE ~(added \/ shrink)
    <3>1. tried(map) = snap.list BY <2>2
    <3> QED BY <3>1, <2>2, <1>6
  <2> QED BY <2>1, <2>2
<1>8. ~bad(map)
  <2> HIDE DEF tried
  <2> QED BY <1>4, <1>7, LenIsCardinality
<1>9. final(map) = tried(map) BY <1>8
<1>10. (IF added \/ shrink \/ termsChanged \/ bad(map) THEN HavingTerms(final(map), map) ELSE snap.have)
         = HavingTerms(tried(map), map)
  <2>1. CASE added \/ shrink \/ termsChanged
    <3> HIDE DEF added, shrink, termsChanged, tried, final, bad
    <3> QED BY <2>1, <1>9
  <2>2. CASE ~(added \/ shrink \/ termsChanged)
    <3>1. tried(map) = snap.list BY <2>2
    <3>2. map = Copied BY <2>2, <1>6
    <3>3. ASSUME NEW n \in Node, NEW k \in TermKind PROVE Has(k, snap.map[n]) <=> Has(k, Copied[n])
      <4>1. CASE n \in Cloned
        <5>1. Copied[n] = info[n] BY <4>1 DEF Copied
        <5>2. ~termsChanged BY <2>2
        <5>3. Has(k, snap.map[n]) = Has(k, info[n]) BY <4>1, <5>2
        <5> QED BY <5>1, <5>3
      <4>2. CASE n \notin Cloned BY <4>2 DEF Copied
      <4> QED BY <4>1, <4>2
    <3>4. snap.list \in Seq(Node) /\ snap.have = HavingTerms(snap.list, snap.map) BY DEF SnapInv
    <3>5. HavingTerms(snap.list, snap.map) = HavingTerms(snap.list, Copied) BY <3>3, <3>4, SameTerms
    <3>6. (IF added \/ shrink \/ termsChanged \/ bad(map) THEN HavingTerms(final(map), map) ELSE snap.have)
            = snap.have
      <4> HIDE DEF added, shrink, termsChanged, tried, final, bad
      <4> QED BY <2>2, <1>8
    <3> QED BY <3>1, <3>2, <3>4, <3>5, <3>6
  <2> QED BY <2>1, <2>2
<1>11. snap' = [map |-> map, list |-> tried(map), have |-> HavingTerms(tried(map), map), gen |-> gen]
  <2> HIDE DEF added, shrink, termsChanged, tried, final, bad, gen
  <2> QED BY <1>1, <1>9, <1>10
<1>12. ~snapErr' BY <1>1, <1>8
<1> DEFINE l == tried(map)
           h == HavingTerms(l, map)
<1>13. snap'.map = map /\ snap'.list = l /\ snap'.have = h /\ snap'.gen = gen
  <2>1. snap' = [map |-> map, list |-> l, have |-> h, gen |-> gen] BY <1>11
  <2> HIDE DEF l, h, gen
  <2> QED BY <2>1
<1> HIDE DEF tried
<1> QED BY <1>2, <1>7, <1>12, <1>13
\* UpdateSnapshot keeps the invariant.
LEMMA UpdateSnapshotStep ==
    ASSUME FreshInv, PodInv, IndexInv, SnapInv, UpdateSnapshot
    PROVE  FreshInv' /\ PodInv' /\ IndexInv' /\ SnapInv'
<1>1. UNCHANGED <<list, info, generation, nodeTree, imageStates, podVars, api, seen, lister, binder>>
  BY DEF UpdateSnapshot, cacheVars, envVars
<1>2. /\ snap'.map = LiveMap
      /\ snap'.list \in Seq(Node) /\ Distinct(snap'.list) /\ Range(snap'.list) = Held(lister)
      /\ snap'.have = HavingTerms(snap'.list, LiveMap)
      /\ snap'.gen = IF list = <<>> THEN snap.gen ELSE info[Head(list)].gen
      /\ ~snapErr'
  BY SnapshotTaken
<1>3. PodInv' BY <1>1, PodsUntouched
<1>4. IndexInv'
  <2>1. SameObjects BY <1>1 DEF SameObjects
  <2> QED BY <1>1, <2>1, IndexUnchanged
<1>5. LiveMap \in SnapMap /\ Entries(LiveMap) = Held(lister) BY LiveMapFacts
<1>6. SnapInv' BY <1>2, <1>5 DEF SnapInv
<1>7. list \in Seq(Node) /\ info \in [Node -> NodeInfo] BY DEF FreshInv, ListInv, ListType
<1>8. SnapGenBounded'
  <2>1. CASE list = <<>> BY <2>1, <1>1, <1>2 DEF FreshInv, SnapGenBounded
  <2>2. CASE list # <<>>
    <3>1. Head(list) \in Node BY <2>2, <1>7, HeadTailProperties
    <3>2. info[Head(list)].gen \in Int BY <3>1, <1>7 DEF NodeInfo
    <3>3. info[Head(list)].gen <= generation BY <3>1 DEF FreshInv, ListInv, GensBounded
    <3> QED BY <2>2, <3>2, <3>3, <1>1, <1>2 DEF SnapGenBounded
  <2> QED BY <2>1, <2>2
<1>9. SnapFresh'
  <2> SUFFICES ASSUME NEW n \in Node, info'[n].node # NoNode PROVE snap'.map[n] = info'[n]
    BY DEF SnapFresh
  <2>1. lister[n] # NoNode BY <1>1 DEF IndexInv, ObjectsListed
  <2> QED BY <2>1, <1>1, <1>2 DEF LiveMap
<1>10. ListInv'
  BY <1>1 DEF FreshInv, ListInv, ListType, FallingGens, ListedAlive, GensBounded, InCache
<1> QED BY <1>3, <1>4, <1>6, <1>8, <1>9, <1>10 DEF FreshInv

\* The inductive invariant.
IInv == FreshInv /\ PodInv /\ IndexInv /\ SnapInv

\* It holds of an empty cache.
LEMMA InitIInv == Init => IInv
<1> SUFFICES ASSUME Init PROVE IInv OBVIOUS
<1>1. list = <<>> /\ info = [n \in Node |-> EmptyInfo] /\ generation = 0 BY DEF Init
<1>2. list \in Seq(Node) /\ Range(list) = {} /\ DOMAIN list = {}
  <2>1. <<>> \in Seq(Node) /\ Len(<<>>) = 0 BY EmptySeq
  <2>2. DOMAIN <<>> = 1..0 BY <2>1, LenProperties
  <2> QED BY <1>1, <2>1, <2>2 DEF Range
<1>3. \A n \in Node : info[n] = EmptyInfo BY <1>1
<1>4. ListInv
  <2>1. info \in [Node -> NodeInfo] BY <1>1, EmptyInfoFacts
  <2>2. ListType BY <1>1, <1>2, <2>1 DEF ListType
  <2>3. FallingGens BY <1>2 DEF FallingGens
  <2>4. ListedAlive BY <1>2, <1>3, EmptyInfoFacts DEF ListedAlive, InCache
  <2>5. GensBounded BY <1>1, <1>3, EmptyInfoFacts DEF GensBounded
  <2> QED BY <2>2, <2>3, <2>4, <2>5 DEF ListInv
<1> DEFINE none == [n \in Node |-> NoNode]
           no == [k \in TermKind |-> <<>>]
           zero == 0
<1>5. snap = [map |-> none, list |-> <<>>, have |-> no, gen |-> zero] /\ ~snapErr BY DEF Init
<1>6. none \in SnapMap /\ Entries(none) = {} /\ \A n \in Node : none[n] = NoNode BY DEF SnapMap, Entries
<1>7. zero \in Int /\ zero <= generation BY <1>1
<1> HIDE DEF none, zero, no
<1>8. snap.map = none /\ snap.list = <<>> /\ snap.have = no /\ snap.gen = zero BY <1>5
<1>9. FreshInv
  <2>1. SnapGenBounded BY <1>7, <1>8 DEF SnapGenBounded
  <2>2. SnapFresh BY <1>3, EmptyInfoFacts DEF SnapFresh
  <2> QED BY <1>4, <2>1, <2>2 DEF FreshInv
<1>10. SnapInv
  <2>1. Distinct(list) BY <1>2 DEF Distinct
  <2>2. HavingTerms(<<>>, none) = no
    <3>1. ASSUME NEW k \in TermKind PROVE Keep(<<>>, {n \in Node : Has(k, none[n])}) = <<>>
      <4> DEFINE S == {n \in Node : Has(k, none[n])}
      <4> HIDE DEF S
      <4>1. Keep(list, S) \in Seq(Node) /\ Range(Keep(list, S)) = Range(list) \cap S
        BY <1>2, KeepElements
      <4>2. Keep(list, S) = <<>> BY <4>1, <1>2, EmptyRange
      <4> QED BY <4>2, <1>1 DEF S
    <3> QED BY <3>1 DEF HavingTerms, no
  <2> QED BY <2>1, <2>2, <1>1, <1>2, <1>5, <1>6, <1>8 DEF SnapInv
<1>11. PodInv
  <2>0. NoNode \notin Node /\ Pending \notin Node BY CacheAssumption
  <2>1. PodType BY DEF Init, PodType
  <2>2. CountedOnce
    <3> SUFFICES ASSUME NEW n \in Node, NEW p \in Pod
                 PROVE  info[n].pods[p] = IF podNode[p] = n THEN 1 ELSE 0
      BY DEF CountedOnce
    <3>1. podNode[p] = NoNode BY DEF Init
    <3>2. info[n].pods = [q \in Pod |-> 0] BY <1>3, EmptyInfoFacts
    <3> QED BY <3>1, <3>2, <2>0
  <2>3. CacheAgreesWithInformer BY <2>0 DEF Init, CacheAgreesWithInformer
  <2>4. DeadlinesSet /\ ~fatal BY DEF Init, DeadlinesSet
  <2> QED BY <2>1, <2>2, <2>3, <2>4 DEF PodInv
<1>12. IndexInv
  <2>1. lister = [n \in Node |-> NoNode] BY DEF Init
  <2>2. lister \in Lister /\ ObjectsListed
    BY <2>1, <1>3, EmptyInfoFacts DEF Lister, ObjectsListed
  <2>3. ImagesOK(imageStates, lister)
    <3>1. imageStates = [i \in Image |-> {}] BY DEF Init
    <3>2. \A i \in Image : {n \in Node : i \in ImagesOf(lister[n])} = {}
      BY <2>1 DEF ImagesOf
    <3> QED BY <3>1, <3>2 DEF ImagesOK
  <2>4. TreeOK(nodeTree, lister)
    <3> DEFINE tr == [z \in Zone |-> <<>>]
               c == 0
    <3>1. nodeTree = [tree |-> tr, zones |-> list, numNodes |-> c] BY <1>1 DEF Init
    <3>2. list \in Seq(Zone) /\ Distinct(list) BY <1>1, <1>2, EmptySeq DEF Distinct
    <3>3. tr \in [Zone -> Seq(Node)] /\ c \in Int /\ \A z \in Zone : tr[z] = list BY <1>1, <1>2
    <3>4. Held(lister) = {} BY <2>1 DEF Held
    <3>5. c = Cardinality(Held(lister)) BY <3>4, FS_EmptySet
    <3> HIDE DEF tr, c
    <3>6. /\ nodeTree.tree = tr /\ nodeTree.zones = list /\ nodeTree.numNodes = c
          /\ nodeTree \in NodeTree
      BY <3>1, <3>2, <3>3 DEF NodeTree
    <3>7. \A z \in Zone : nodeTree.tree[z] = list BY <3>3, <3>6
    <3> QED BY <3>2, <3>5, <3>6, <3>7, <2>1, <1>1, <1>2 DEF TreeOK
  <2> QED BY <2>2, <2>3, <2>4 DEF IndexInv
<1> QED BY <1>9, <1>10, <1>11, <1>12 DEF IInv

\* A step that leaves the snapshot alone.
LEMMA SnapUnchanged ==
    ASSUME SnapInv, UNCHANGED snapVars PROVE SnapInv'
<1>1. snap' = snap /\ snapErr' = snapErr BY DEF snapVars
<1> QED BY <1>1 DEF SnapInv

\* A step of the pods keeps the parts about nodes.
LEMMA PodStep ==
    ASSUME IInv, FreshInv' /\ PodInv' /\ SameObjects,
           UNCHANGED <<nodeTree, imageStates, lister, snapVars>>
    PROVE  IInv'
BY IndexUnchanged, SnapUnchanged DEF IInv

\* Every step keeps it.
LEMMA NextIInv == IInv /\ [Next]_vars => IInv'
<1> SUFFICES ASSUME IInv, [Next]_vars PROVE IInv' OBVIOUS
<1>0. FreshInv /\ PodInv /\ IndexInv /\ SnapInv BY DEF IInv
<1>1. ASSUME NEW n \in Node, NEW o \in NodeObj, AddNode(n, o) \/ UpdateNode(n, o) PROVE IInv'
  BY <1>0, <1>1, AddNodeStep, SnapUnchanged DEF IInv, AddNode, UpdateNode
<1>2. ASSUME NEW n \in Node, RemoveNode(n) PROVE IInv'
  BY <1>0, <1>2, RemoveNodeStep, SnapUnchanged DEF IInv, RemoveNode
<1>3. CASE UpdateSnapshot BY <1>0, <1>3, UpdateSnapshotStep DEF IInv
<1>4. ASSUME NEW b \in Binder, NEW p \in Pod, NEW n \in Node, AssumePod(b, p, n) PROVE IInv'
  BY <1>0, <1>4, AssumePodStep, PodStep DEF AssumePod
<1>5. ASSUME NEW b \in Binder, Bind(b) PROVE IInv'
  BY <1>0, <1>5, BindStep, PodStep DEF Bind, cacheVars
<1>6. ASSUME NEW b \in Binder, FinishBinding(b) PROVE IInv'
  BY <1>0, <1>6, FinishBindingStep, PodStep DEF FinishBinding, cacheVars
<1>7. ASSUME NEW b \in Binder, BindFails(b) PROVE IInv'
  BY <1>0, <1>7, BindFailsStep, PodStep DEF BindFails
<1>8. ASSUME NEW p \in Pod, DeletePod(p) \/ \E n \in Node : BindElsewhere(p, n) PROVE IInv'
  BY <1>0, <1>8, ServerStep, PodStep DEF DeletePod, BindElsewhere, cacheVars
<1>9. ASSUME NEW p \in Pod, DeadlinePasses(p) PROVE IInv'
  BY <1>0, <1>9, DeadlinePassesStep, PodStep DEF DeadlinePasses, cacheVars, envVars
<1>10. ASSUME NEW p \in Pod, AddPod(p) PROVE IInv'
  BY <1>0, <1>10, AddPodStep, PodStep DEF AddPod
<1>11. ASSUME NEW p \in Pod, UpdatePod(p) PROVE IInv'
  BY <1>0, <1>11, UpdatePodStep, PodStep DEF UpdatePod, envVars
<1>12. ASSUME NEW p \in Pod, RemovePod(p) PROVE IInv'
  BY <1>0, <1>12, RemovePodStep, PodStep DEF RemovePod
<1>13. CASE cleanupAssumedPods
  BY <1>0, <1>13, cleanupStep, PodStep DEF cleanupAssumedPods, envVars
<1>14. CASE UNCHANGED vars
  <2>1. UNCHANGED <<list, info, generation, nodeTree, imageStates, podVars, snap, snapVars,
                    api, seen, lister, binder>>
    BY <1>14 DEF vars, cacheVars, snapVars, envVars
  <2>2. FreshInv' /\ SameObjects BY <1>0, <2>1, FreshUnchanged
  <2>3. PodInv' BY <1>0, <2>1, PodsUntouched
  <2> QED BY <2>1, <2>2, <2>3, PodStep
<1> QED
  BY <1>1, <1>2, <1>3, <1>4, <1>5, <1>6, <1>7, <1>8, <1>9, <1>10, <1>11, <1>12, <1>13, <1>14
     DEF Next

\* Every method of the cache, in any interleaving with the informers and
\* binding goroutines, keeps the inductive invariant.
THEOREM Invariance == Spec => []IInv
BY InitIInv, NextIInv, PTL DEF Spec
\* UpdateSnapshot may stop at the first NodeInfo that is no newer than the
\* snapshot (RecencyOrder).
THEOREM ReadsAreFresh == Spec => []RecencyOrder
<1>1. IInv => RecencyOrder
  BY DEF IInv, FreshInv, ListInv, FallingGens, ListedAlive, SnapFresh, RecencyOrder
<1> QED BY <1>1, Invariance, PTL

\* A pod's resources are counted exactly once, on the node podStates has it on.
THEOREM PodsCountedOnce == Spec => []CountedOnce
<1>1. IInv => CountedOnce BY DEF IInv, PodInv
<1> QED BY <1>1, Invariance, PTL

\* A pod the informer reports on a node is counted there and no longer assumed;
\* any other pod in the cache is an assumption.
THEOREM InformerAgrees == Spec => []CacheAgreesWithInformer
<1>1. IInv => CacheAgreesWithInformer BY DEF IInv, PodInv
<1> QED BY <1>1, Invariance, PTL

\* The cache's klog.Fatalf calls, the snapshot's consistency error and the nil
\* deadline are out of reach.
THEOREM AlarmsSilent == Spec => []NoAlarm
<1>1. IInv => NoAlarm BY DEF IInv, PodInv, DeadlinesSet, SnapInv, NoAlarm
<1> QED BY <1>1, Invariance, PTL

\* How often an element occurs in a sequence without duplicates.
LEMMA OccursOnce ==
    ASSUME NEW X, NEW s \in Seq(X), Distinct(s), NEW x
    PROVE  Cardinality({i \in DOMAIN s : s[i] = x}) = IF x \in Range(s) THEN 1 ELSE 0
<1> DEFINE at == {i \in DOMAIN s : s[i] = x}
<1>1. CASE x \in Range(s)
  <2>1. PICK i \in DOMAIN s : s[i] = x BY <1>1 DEF Range
  <2>2. at = {i} BY <2>1 DEF Distinct
  <2> QED BY <1>1, <2>2, FS_Singleton
<1>2. CASE x \notin Range(s)
  <2>1. at = {} BY <1>2 DEF Range
  <2> QED BY <1>2, <2>1, FS_EmptySet
<1> QED BY <1>1, <1>2

\* The node tree, numNodes and the image states hold exactly the live nodes.
THEOREM IndexesAreExact == Spec => []IndexesHoldLiveNodes
<1>1. ASSUME IInv PROVE IndexesHoldLiveNodes
  <2>1. TreeOK(nodeTree, lister) /\ ObjectsListed /\ ImagesOK(imageStates, lister)
    BY <1>1 DEF IInv, IndexInv
  <2>2. nodeTree.tree \in [Zone -> Seq(Node)] /\ nodeTree.zones \in Seq(Zone)
    BY <2>1 DEF TreeOK, NodeTree
  <2>3. ASSUME NEW z \in Zone, NEW n \in Node
        PROVE  Cardinality({i \in DOMAIN nodeTree.tree[z] : nodeTree.tree[z][i] = n})
                  = IF lister[n] # NoNode /\ lister[n].zone = z THEN 1 ELSE 0
    <3>1. nodeTree.tree[z] \in Seq(Node) /\ Distinct(nodeTree.tree[z]) BY <2>1, <2>2 DEF TreeOK
    <3>2. n \in Range(nodeTree.tree[z]) <=> (lister[n] # NoNode /\ lister[n].zone = z)
      BY <2>1 DEF TreeOK
    <3> DEFINE s == nodeTree.tree[z]
    <3> HIDE DEF s
    <3>3. Cardinality({i \in DOMAIN s : s[i] = n}) = IF n \in Range(s) THEN 1 ELSE 0
      BY <3>1, OccursOnce DEF s
    <3> QED BY <3>2, <3>3 DEF s
  <2>4. ASSUME NEW z \in Zone
        PROVE  nodeTree.tree[z] # <<>> <=>
                  Cardinality({i \in DOMAIN nodeTree.zones : nodeTree.zones[i] = z}) = 1
    <3>1. Distinct(nodeTree.zones) /\ (z \in Range(nodeTree.zones) <=> nodeTree.tree[z] # <<>>)
      BY <2>1 DEF TreeOK
    <3>2. Cardinality({i \in DOMAIN nodeTree.zones : nodeTree.zones[i] = z})
             = IF z \in Range(nodeTree.zones) THEN 1 ELSE 0
      BY <3>1, <2>2, OccursOnce
    <3> QED BY <3>1, <3>2
  <2>5. nodeTree.numNodes = Cardinality({n \in Node : info[n].node # NoNode})
    <3>1. Held(lister) = {n \in Node : info[n].node # NoNode} BY <2>1 DEF Held, ObjectsListed
    <3> QED BY <3>1, <2>1 DEF TreeOK
  <2>6. \A i \in Image : imageStates[i] = {n \in Node : i \in ImagesOf(lister[n])}
    BY <2>1 DEF ImagesOK
  <2> QED BY <2>3, <2>4, <2>5, <2>6 DEF IndexesHoldLiveNodes
<1> QED BY <1>1, Invariance, PTL

\* After UpdateSnapshot its lists hold each live node once and the affinity
\* lists exactly the nodes with such pods.
THEOREM RefreshesAreComplete == Spec => RefreshIsComplete
<1>1. ASSUME IInv, UpdateSnapshot PROVE RefreshedLists'
  <2>1. /\ snap'.map = LiveMap
        /\ snap'.list \in Seq(Node) /\ Distinct(snap'.list) /\ Range(snap'.list) = Held(lister)
        /\ snap'.have = HavingTerms(snap'.list, LiveMap)
    BY <1>1, SnapshotTaken DEF IInv
  <2>2. UNCHANGED <<info, podNode>> BY <1>1 DEF UpdateSnapshot, cacheVars, podVars
  <2>3. Cardinality(Range(snap'.list)) = Len(snap'.list) BY <2>1, LenIsCardinality
  <2>4. Range(snap'.list) = {n \in Node : info'[n].node # NoNode}
    BY <1>1, <2>1, <2>2 DEF Held, IInv, IndexInv, ObjectsListed
  <2>5. ASSUME NEW k \in TermKind
        PROVE  snap'.have[k] = Keep(snap'.list, {n \in Node : \E p \in Declares[k] : podNode'[p] = n})
    <3> DEFINE l == snap'.list
               S == {n \in Node : Has(k, LiveMap[n])}
               R == {n \in Node : \E p \in Declares[k] : podNode'[p] = n}
    <3>1. snap'.have[k] = Keep(l, S) BY <2>1 DEF HavingTerms
    <3>2. ASSUME NEW i \in DOMAIN l PROVE l[i] \in S <=> l[i] \in R
      <4>1. l[i] \in Range(l) BY DEF Range
      <4>2. l[i] \in Node /\ lister[l[i]] # NoNode BY <4>1, <2>1 DEF Held
      <4> DEFINE n == l[i]
      <4>3. LiveMap[n] = info[n] BY <4>2 DEF LiveMap
      <4>4. info[n] # NoNode BY <1>1, <4>2, InfoTyped, CacheAssumption DEF IInv
      <4>5. Declares[k] \subseteq Pod BY CacheAssumption
      <4>6. \A p \in Pod : info[n].pods[p] = IF podNode[p] = n THEN 1 ELSE 0
        BY <1>1, <4>2 DEF IInv, PodInv, CountedOnce
      <4>7. Has(k, LiveMap[n]) <=> \E p \in Declares[k] : podNode[p] = n
        BY <4>3, <4>4, <4>5, <4>6 DEF Has
      <4> QED BY <4>2, <4>7, <2>2
    <3>3. l \in Seq(Node) BY <2>1
    <3> HIDE DEF l, S, R
    <3>4. Keep(l, S) = Keep(l, R) BY <3>2, <3>3, KeepAgree
    <3> QED BY <3>1, <3>4 DEF l, R
  <2> QED BY <2>3, <2>4, <2>5 DEF RefreshedLists
<1>2. IInv /\ [Next]_vars => [UpdateSnapshot => RefreshedLists']_vars
  BY <1>1
<1> QED BY <1>2, Invariance, PTL DEF Spec, RefreshIsComplete
-----------------------------------------------------------------------------
\* The refinement mapping: node objects.
Objects == [n \in Node |-> info[n].node]

\* The refinement mapping: what a scheduling cycle sees.
View == [n \in Node |-> IF snap.map[n] = NoNode THEN NoNode
                        ELSE [object |-> snap.map[n].node,
                              pods |-> {p \in Pod : snap.map[n].pods[p] > 0}]]

\* A step that changes neither objects nor snapshot.
LEMMA SameAbs ==
    ASSUME SameObjects, UNCHANGED snap PROVE Objects' = Objects /\ View' = View
BY DEF SameObjects, Objects, View

\* Forgetting and expiring are Drop.
LEMMA AbsDrops ==
    ASSUME PodInv, NEW P, P \subseteq assumedPods, DropStates(P), SameObjects, UNCHANGED snap
    PROVE  Abs!AbsNext
<1>1. P \in SUBSET Pod BY DEF PodInv, PodType
<1>2. Objects' = Objects /\ View' = View BY SameAbs
<1>3. Abs!Drop(P) BY <1>2 DEF Abs!Drop, DropStates, Objects, View
<1> QED BY <1>1, <1>3 DEF Abs!AbsNext

\* A step nobody can see.
LEMMA AbsStutters ==
    ASSUME SameObjects, UNCHANGED <<snap, podNode, assumedPods>>
    PROVE  UNCHANGED Abs!absVars
<1>1. Objects' = Objects /\ View' = View BY SameAbs
<1> QED BY <1>1 DEF Abs!absVars, Objects, View

\* A node event is ChangeNode.
LEMMA AbsNodeStep ==
    ASSUME NEW n \in Node, \A m \in Node : m # n => info'[m].node = info[m].node,
           UNCHANGED <<snap, podNode, assumedPods>>
    PROVE  Abs!AbsNext
<1>1. View' = View BY DEF View
<1>2. \A m \in Node \ {n} : Objects'[m] = Objects[m] BY DEF Objects
<1>3. Abs!ChangeNode BY <1>1, <1>2 DEF Abs!ChangeNode, Objects, View
<1> QED BY <1>3 DEF Abs!AbsNext

\* UpdateSnapshot, incremental as it is, is Refresh: the view becomes what the
\* cache has.
LEMMA AbsRefreshes ==
    ASSUME IInv, UpdateSnapshot
    PROVE  Abs!AbsNext
<1>1. UNCHANGED <<info, podNode, assumedPods>> BY DEF UpdateSnapshot, cacheVars, podVars
<1>2. snap'.map = LiveMap BY SnapshotTaken DEF IInv
<1> DEFINE PodsOf(n) == {p \in Pod : podNode[p] = n}
           seen1 == [n \in Node |-> IF Objects[n] = NoNode THEN NoNode
                                    ELSE [object |-> Objects[n], pods |-> PodsOf(n)]]
<1>3. ASSUME NEW n \in Node
      PROVE  (IF LiveMap[n] = NoNode THEN NoNode
              ELSE [object |-> LiveMap[n].node, pods |-> {p \in Pod : LiveMap[n].pods[p] > 0}])
             = (IF Objects[n] = NoNode THEN NoNode ELSE [object |-> Objects[n], pods |-> PodsOf(n)])
  <2>1. Objects[n] = info[n].node /\ info[n].node = lister[n]
    BY DEF Objects, IInv, IndexInv, ObjectsListed
  <2>2. CASE lister[n] = NoNode
    <3>1. LiveMap[n] = NoNode BY <2>2 DEF LiveMap
    <3> QED BY <2>1, <2>2, <3>1
  <2>3. CASE lister[n] # NoNode
    <3>1. LiveMap[n] = info[n] BY <2>3 DEF LiveMap
    <3>2. info[n] # NoNode BY InfoTyped, CacheAssumption DEF IInv
    <3>3. {p \in Pod : info[n].pods[p] > 0} = PodsOf(n)
      BY DEF IInv, PodInv, CountedOnce
    <3> QED BY <2>1, <2>3, <3>1, <3>2, <3>3
  <2> QED BY <2>2, <2>3
<1>4. View' = seen1 BY <1>2, <1>3 DEF View
<1>5. Objects' = Objects BY <1>1 DEF Objects
<1>6. Abs!Refresh
  BY <1>1, <1>4, <1>5 DEF Abs!Refresh, Abs!PodsOn, Objects, View
<1> QED BY <1>6 DEF Abs!AbsNext
\* The pod informer's events are Add and Remove, or nothing.
LEMMA AbsPodSteps ==
    ASSUME IInv, NEW p \in Pod, AddPod(p) \/ UpdatePod(p) \/ RemovePod(p)
    PROVE  Abs!AbsNext \/ UNCHANGED Abs!absVars
<1>0. FreshInv /\ PodInv BY DEF IInv
<1>1. CASE AddPod(p)
  <2>1. SameObjects /\ UNCHANGED snap BY <1>0, <1>1, AddPodStep DEF AddPod, snapVars
  <2>2. Objects' = Objects /\ View' = View BY <2>1, SameAbs
  <2>3. seen[p] = Pending /\ api[p] \in Node /\ Pending \notin Node
    BY <1>1, CacheAssumption DEF AddPod
  <2>4. podNode[p] # NoNode => p \in assumedPods
    BY <2>3, <1>0 DEF PodInv, CacheAgreesWithInformer
  <2>5. podNode' = [podNode EXCEPT ![p] = api[p]] /\ assumedPods' = assumedPods \ {p}
    <3>1. CASE p \in assumedPods
      <4>1. podNode[p] # NoNode BY <3>1, <1>0 DEF PodInv, DeadlinesSet
      <4> QED BY <3>1, <4>1, <1>1 DEF AddPod
    <3>2. CASE p \notin assumedPods
      <4>1. podNode[p] = NoNode BY <3>2, <2>4
      <4> QED BY <3>2, <4>1, <1>1 DEF AddPod
    <3> QED BY <3>1, <3>2
  <2>6. Abs!Add(p, api[p]) BY <2>2, <2>4, <2>5 DEF Abs!Add, Objects, View
  <2> QED BY <2>3, <2>6 DEF Abs!AbsNext
<1>2. CASE UpdatePod(p)
  BY <1>0, <1>2, UpdatePodStep, AbsStutters DEF UpdatePod, snapVars
<1>3. CASE RemovePod(p)
  <2>1. SameObjects /\ UNCHANGED snap BY <1>0, <1>3, RemovePodStep DEF RemovePod, snapVars
  <2>2. Objects' = Objects /\ View' = View BY <2>1, SameAbs
  <2>3. CASE seen[p] \in Node /\ podNode[p] # NoNode /\ p \notin assumedPods
    <3>1. podNode[p] = seen[p] BY <2>3, <1>0 DEF PodInv, CacheAgreesWithInformer
    <3>2. DropStates({p}) BY <1>3, <2>3, <3>1 DEF RemovePod
    <3>3. podNode' = [podNode EXCEPT ![p] = NoNode]
      <4>1. podNode \in [Pod -> Node \cup {NoNode}] BY <1>0 DEF PodInv, PodType
      <4>2. podNode' = [q \in Pod |-> IF q \in {p} THEN NoNode ELSE podNode[q]] BY <3>2 DEF DropStates
      <4> QED BY <4>1, <4>2
    <3>4. assumedPods' = assumedPods BY <2>3, <3>2 DEF DropStates
    <3>5. Abs!Remove(p) BY <2>2, <2>3, <3>3, <3>4 DEF Abs!Remove, Objects, View
    <3> QED BY <3>5 DEF Abs!AbsNext
  <2>4. CASE ~(seen[p] \in Node /\ podNode[p] # NoNode /\ p \notin assumedPods)
    <3>1. UNCHANGED <<podNode, assumedPods>> BY <1>3, <2>4 DEF RemovePod, podVars
    <3> QED BY <2>1, <3>1, AbsStutters
  <2> QED BY <2>3, <2>4
<1> QED BY <1>1, <1>2, <1>3

\* The loop and the binding goroutines take the steps Assume and Drop, or
\* nothing.
LEMMA AbsBinderSteps ==
    ASSUME IInv, NEW b \in Binder,
           \/ \E p \in Pod, n \in Node : AssumePod(b, p, n)
           \/ Bind(b) \/ FinishBinding(b) \/ BindFails(b)
    PROVE  Abs!AbsNext \/ UNCHANGED Abs!absVars
<1>0. FreshInv /\ PodInv BY DEF IInv
<1>1. ASSUME NEW p \in Pod, NEW n \in Node, AssumePod(b, p, n) PROVE Abs!AbsNext
  <2>1. SameObjects /\ UNCHANGED snap BY <1>0, <1>1, AssumePodStep DEF AssumePod, snapVars
  <2>2. Objects' = Objects /\ View' = View BY <2>1, SameAbs
  <2>3. Abs!Assume(p, n) BY <1>1, <2>2 DEF AssumePod, Abs!Assume, Objects, View
  <2> QED BY <2>3 DEF Abs!AbsNext
<1>2. CASE Bind(b) BY <1>0, <1>2, BindStep, AbsStutters DEF Bind, snapVars, podVars
<1>3. CASE FinishBinding(b)
  BY <1>0, <1>3, FinishBindingStep, AbsStutters DEF FinishBinding, snapVars
<1>4. CASE BindFails(b)
  <2>1. SameObjects /\ UNCHANGED snap BY <1>0, <1>4, BindFailsStep DEF BindFails, snapVars
  <2> DEFINE p == binder[b].pod
  <2>2. ForgetPod(p, binder[b].node) BY <1>4 DEF BindFails
  <2> HIDE DEF p
  <2>3. CASE p \in assumedPods /\ DropStates({p})
    <3> DEFINE P == {p}
    <3>1. P \subseteq assumedPods /\ DropStates(P) BY <2>3
    <3> HIDE DEF P
    <3> QED BY <3>1, <2>1, <1>0, AbsDrops
  <2>4. CASE UNCHANGED <<podNode, assumedPods>> BY <2>1, <2>4, AbsStutters
  <2> QED BY <2>2, <2>3, <2>4 DEF ForgetPod
<1> QED BY <1>1, <1>2, <1>3, <1>4

\* Every step of the cache is a step of the abstract cache or changes nothing
\* of it.
LEMMA AbsNextStep ==
    ASSUME IInv, [Next]_vars
    PROVE  Abs!AbsNext \/ UNCHANGED Abs!absVars
<1>0. FreshInv /\ PodInv /\ IndexInv BY DEF IInv
<1>1. ASSUME NEW n \in Node, NEW o \in NodeObj, AddNode(n, o) \/ UpdateNode(n, o) PROVE Abs!AbsNext
  <2>1. Touch(<<n>>, [info EXCEPT ![n].node = o]) /\ UNCHANGED <<podVars, snap>>
    BY <1>1 DEF AddNode, UpdateNode, snapVars
  <2>2. \A m \in Node : info'[m].node = IF m = n THEN o ELSE info[m].node
    BY <1>0, <2>1, NodeTouched
  <2> QED BY <2>1, <2>2, AbsNodeStep DEF podVars
<1>2. ASSUME NEW n \in Node, RemoveNode(n) PROVE Abs!AbsNext \/ UNCHANGED Abs!absVars
  <2>1. UNCHANGED <<podVars, snap>> BY <1>2 DEF RemoveNode, snapVars
  <2>2. lister[n] # NoNode BY <1>2 DEF RemoveNode
  <2>3. Touch(<<n>>, [info EXCEPT ![n].node = NoNode])
    BY <1>0, <1>2, <2>2, LiveIsCached DEF RemoveNode
  <2>4. \A m \in Node : info'[m].node = IF m = n THEN NoNode ELSE info[m].node
    BY <1>0, <2>1, <2>3, NodeTouched
  <2> QED BY <2>1, <2>4, AbsNodeStep DEF podVars
<1>3. CASE UpdateSnapshot BY <1>3, AbsRefreshes
<1>4. ASSUME NEW p \in Pod, DeletePod(p) \/ \E n \in Node : BindElsewhere(p, n)
      PROVE  UNCHANGED Abs!absVars
  BY <1>0, <1>4, ServerStep, AbsStutters DEF DeletePod, BindElsewhere, snapVars, podVars
<1>5. ASSUME NEW p \in Pod, DeadlinePasses(p) PROVE UNCHANGED Abs!absVars
  BY <1>0, <1>5, DeadlinePassesStep, AbsStutters DEF DeadlinePasses, snapVars
<1>6. CASE cleanupAssumedPods
  <2> DEFINE E == {p \in assumedPods : bindingFinished[p] /\ deadline[p] = "passed" /\ CanRemove(p)}
  <2>1. DropStates(E) /\ UNCHANGED snap BY <1>6 DEF cleanupAssumedPods, snapVars
  <2>2. E \subseteq assumedPods OBVIOUS
  <2>3. SameObjects BY <1>0, <1>6, cleanupStep
  <2> HIDE DEF E
  <2> QED BY <2>1, <2>2, <2>3, <1>0, AbsDrops
<1>7. CASE UNCHANGED vars
  <2>1. UNCHANGED <<info, snap, podNode, assumedPods>>
    BY <1>7 DEF vars, cacheVars, snapVars, podVars
  <2>2. SameObjects BY <2>1 DEF SameObjects
  <2> QED BY <2>1, <2>2, AbsStutters
<1> QED
  BY <1>1, <1>2, <1>3, <1>4, <1>5, <1>6, <1>7, AbsPodSteps, AbsBinderSteps DEF Next

\* The cache with its generations, list and incremental snapshot implements
\* interface.go's pod state machine with snapshots that show the cache as it
\* is: the abstract cache the scheduler model is built on.
THEOREM ImplementsAbs == Spec => AbsSpec
<1>1. Init => Abs!AbsInit
  <2> SUFFICES ASSUME Init PROVE Abs!AbsInit OBVIOUS
  <2>1. Objects = [n \in Node |-> NoNode]
    <3>1. \A n \in Node : info[n] = EmptyInfo BY DEF Init
    <3> QED BY <3>1, EmptyInfoFacts DEF Objects
  <2> DEFINE none == [n \in Node |-> NoNode]
             no == [k \in TermKind |-> <<>>]
             zero == 0
  <2>2. snap = [map |-> none, list |-> <<>>, have |-> no, gen |-> zero] BY DEF Init
  <2>3. \A n \in Node : none[n] = NoNode OBVIOUS
  <2> HIDE DEF none, no, zero
  <2>4. snap.map = none BY <2>2
  <2>5. View = [n \in Node |-> NoNode] BY <2>3, <2>4 DEF View
  <2> QED BY <2>1, <2>5 DEF Init, Abs!AbsInit, Objects, View
<1>2. IInv /\ [Next]_vars => [Abs!AbsNext]_Abs!absVars
  BY AbsNextStep
<1> QED BY <1>1, <1>2, Invariance, PTL DEF Spec, AbsSpec, Abs!AbsSpec
=============================================================================
