--------------------------- MODULE SequenceLemmas ---------------------------
(***************************************************************************)
(* What filtering and flattening do to a sequence, for the proofs about    *)
(* the lists the code keeps.                                               *)
(*                                                                         *)
(* Keep and FlattenSeq are recursive functions. That they exist, and what  *)
(* their values are, is shown by induction: the least index at which a     *)
(* statement fails would not be the least (LeastNatural, from the well-    *)
(* foundedness of the naturals).                                           *)
(***************************************************************************)
EXTENDS SeqFilter, Integers, SequencesExt, SequenceTheorems, FiniteSetTheorems, TLAPS

\* A non-empty set of naturals has a least element: the form of induction used
\* here.
LEMMA LeastNatural ==
    ASSUME NEW T, T \subseteq Nat, T # {}
    PROVE  \E x \in T : \A y \in T : x <= y
<1>1. \E x \in T : \A y \in T : ~(<<y, x>> \in OpToRel(<, Nat))
  BY NatLessThanWellFounded, WFMin
<1>2. PICK x \in T : \A y \in T : ~(<<y, x>> \in OpToRel(<, Nat))
  BY <1>1
<1>3. ASSUME NEW y \in T PROVE x <= y
  <2>1. x \in Nat /\ y \in Nat
    OBVIOUS
  <2>2. ~(y < x)
    BY <1>2, <2>1 DEF OpToRel
  <2> QED BY <2>1, <2>2
<1> QED BY <1>3

\* f is the recursive function of Keep on the first n elements of s.
Filtered(s, S, f, n) ==
    f = [i \in 0..n |-> IF i = 0 THEN <<>>
                        ELSE IF s[i] \in S THEN Append(f[i - 1], s[i]) ELSE f[i - 1]]

\* The recursion defines a function: a least n without one would extend the one
\* for n - 1.
LEMMA FilterExists ==
    ASSUME NEW s, NEW S, NEW n \in Nat
    PROVE  \E f : Filtered(s, S, f, n)
<1> DEFINE T == {k \in Nat : ~\E f : Filtered(s, S, f, k)}
<1> SUFFICES T = {} OBVIOUS
<1> SUFFICES ASSUME T # {} PROVE FALSE OBVIOUS
<1>1. PICK k \in T : \A y \in T : k <= y
  <2> HIDE DEF T
  <2>1. T \subseteq Nat BY DEF T
  <2> QED BY LeastNatural, <2>1
<1>2. k \in Nat /\ ~\E f : Filtered(s, S, f, k)
  OBVIOUS
<1>3. CASE k = 0
  <2> DEFINE g == [i \in 0..0 |-> <<>>]
  <2>1. Filtered(s, S, g, 0) BY DEF Filtered
  <2> QED BY <1>2, <1>3, <2>1
<1>4. CASE k # 0
  <2>1. k - 1 \in Nat /\ k - 1 \notin T
    BY <1>1, <1>2, <1>4
  <2>2. PICK f : Filtered(s, S, f, k - 1)
    BY <2>1
  <2> DEFINE g == [i \in 0..k |-> IF i = k THEN IF s[k] \in S THEN Append(f[k - 1], s[k])
                                                 ELSE f[k - 1]
                                  ELSE f[i]]
             h == [i \in 0..k |-> IF i = 0 THEN <<>>
                        ELSE IF s[i] \in S THEN Append(g[i - 1], s[i]) ELSE g[i - 1]]
  <2>3. ASSUME NEW i \in 0..k PROVE g[i] = h[i]
    <3>0. \A j \in 0..k-1 : f[j] = IF j = 0 THEN <<>>
                        ELSE IF s[j] \in S THEN Append(f[j - 1], s[j]) ELSE f[j - 1]
      BY <2>2 DEF Filtered
    <3>1. CASE i = k
      <4>1. g[i - 1] = f[k - 1] BY <3>1, <1>2, <1>4
      <4> QED BY <4>1, <3>1, <1>2, <1>4
    <3>2. CASE i = 0
      BY <3>2, <3>0, <1>2, <1>4
    <3>3. CASE i # k /\ i # 0
      <4>1. i \in 0..k-1 /\ i - 1 \in 0..k /\ i - 1 # k BY <3>3, <1>2
      <4>2. g[i - 1] = f[i - 1] BY <4>1
      <4> QED BY <4>1, <4>2, <3>0, <3>3
    <3> QED BY <3>1, <3>2, <3>3
  <2>4. g = h
    BY <2>3
  <2>5. Filtered(s, S, g, k)
    BY <2>4 DEF Filtered
  <2> QED BY <2>5, <1>2
<1> QED BY <1>3, <1>4

\* Keep is the last value of such a function.
LEMMA KeepIsFiltered ==
    ASSUME NEW s, NEW S, Len(s) \in Nat
    PROVE  \E f : Filtered(s, S, f, Len(s)) /\ Keep(s, S) = f[Len(s)]
<1> DEFINE f == CHOOSE f : Filtered(s, S, f, Len(s))
<1>1. Filtered(s, S, f, Len(s))
  BY FilterExists
<1>2. Keep(s, S) = f[Len(s)]
  BY DEF Keep, Filtered
<1> QED BY <1>1, <1>2
\* m gives, for each element of t, its place among the first n elements of s:
\* in order, only elements of S, and every one of them.
Picks(t, s, S, n, m) ==
    /\ m \in [1..Len(t) -> 1..n]
    /\ \A j, k \in 1..Len(t) : j < k => m[j] < m[k]
    /\ \A k \in 1..Len(t) : t[k] = s[m[k]] /\ s[m[k]] \in S
    /\ \A i \in 1..n : s[i] \in S => \E k \in 1..Len(t) : m[k] = i

\* An element that is not in S leaves the kept sequence as it is.
LEMMA PicksSkip ==
    ASSUME NEW X, NEW s \in Seq(X), NEW S, NEW n \in Nat, n # 0, n <= Len(s),
           NEW t \in Seq(X), NEW m, Picks(t, s, S, n - 1, m), s[n] \notin S
    PROVE  Picks(t, s, S, n, m)
<1>1. Len(t) \in Nat BY LenProperties
<1>2. m \in [1..Len(t) -> 1..n]
  BY <1>1 DEF Picks
<1>3. \A i \in 1..n : s[i] \in S => i \in 1..(n-1)
  OBVIOUS
<1> QED BY <1>2, <1>3 DEF Picks

\* An element of S goes to the end of the kept sequence.
LEMMA PicksAppend ==
    ASSUME NEW X, NEW s \in Seq(X), NEW S, NEW n \in Nat, n # 0, n <= Len(s),
           NEW t \in Seq(X), NEW m, Picks(t, s, S, n - 1, m), s[n] \in S
    PROVE  /\ Append(t, s[n]) \in Seq(X)
           /\ \E mm : Picks(Append(t, s[n]), s, S, n, mm)
<1>1. Len(t) \in Nat /\ Len(s) \in Nat BY LenProperties
<1>2. s[n] \in X BY <1>1, ElementOfSeq
<1> DEFINE u == Append(t, s[n])
<1>3. u \in Seq(X) /\ Len(u) = Len(t) + 1 /\ u[Len(t) + 1] = s[n]
      /\ \A k \in 1..Len(t) : u[k] = t[k]
  BY <1>2
<1> DEFINE mm == [k \in 1..Len(t) + 1 |-> IF k = Len(t) + 1 THEN n ELSE m[k]]
<1>4. /\ m \in [1..Len(t) -> 1..(n-1)]
      /\ \A j, k \in 1..Len(t) : j < k => m[j] < m[k]
      /\ \A k \in 1..Len(t) : t[k] = s[m[k]] /\ s[m[k]] \in S
      /\ \A i \in 1..(n-1) : s[i] \in S => \E k \in 1..Len(t) : m[k] = i
  BY DEF Picks
<1>5. mm \in [1..Len(u) -> 1..n]
  BY <1>1, <1>3, <1>4
<1>6. ASSUME NEW j \in 1..Len(u), NEW k \in 1..Len(u), j < k PROVE mm[j] < mm[k]
  <2>1. j \in 1..Len(t) /\ m[j] \in 1..(n-1) BY <1>1, <1>3, <1>4, <1>6
  <2>2. CASE k = Len(t) + 1 BY <2>1, <2>2, <1>1, <1>6
  <2>3. CASE k # Len(t) + 1
    <3>1. k \in 1..Len(t) BY <2>3, <1>1, <1>3
    <3> QED BY <3>1, <2>1, <1>1, <1>4, <1>6
  <2> QED BY <2>2, <2>3
<1>7. ASSUME NEW k \in 1..Len(u) PROVE u[k] = s[mm[k]] /\ s[mm[k]] \in S
  BY <1>1, <1>3, <1>4
<1>8. ASSUME NEW i \in 1..n, s[i] \in S PROVE \E k \in 1..Len(u) : mm[k] = i
  <2>1. CASE i = n
    <3>1. Len(t) + 1 \in 1..Len(u) BY <1>1, <1>3
    <3>2. mm[Len(t) + 1] = i BY <2>1, <1>1
    <3> QED BY <3>1, <3>2
  <2>2. CASE i # n
    <3>1. PICK k \in 1..Len(t) : m[k] = i BY <2>2, <1>4, <1>8
    <3>2. k \in 1..Len(u) /\ mm[k] = i BY <3>1, <1>1, <1>3
    <3> QED BY <3>2
  <2> QED BY <2>1, <2>2
<1>9. Picks(u, s, S, n, mm)
  <2> HIDE DEF u, mm
  <2> QED BY <1>5, <1>6, <1>7, <1>8 DEF Picks
<1> QED BY <1>3, <1>9

\* What a loop that drops entries leaves of a sequence: Keep(s, S) picks
\* exactly the elements of s in S, in order.
LEMMA KeepPicks ==
    ASSUME NEW X, NEW s \in Seq(X), NEW S
    PROVE  Keep(s, S) \in Seq(X) /\ \E m : Picks(Keep(s, S), s, S, Len(s), m)
<1>1. Len(s) \in Nat BY LenProperties
<1>2. PICK f : Filtered(s, S, f, Len(s)) /\ Keep(s, S) = f[Len(s)]
  BY <1>1, KeepIsFiltered
<1>3. \A i \in 0..Len(s) : f[i] = IF i = 0 THEN <<>>
                        ELSE IF s[i] \in S THEN Append(f[i - 1], s[i]) ELSE f[i - 1]
  BY <1>2 DEF Filtered
<1> DEFINE Good(k) == f[k] \in Seq(X) /\ \E m : Picks(f[k], s, S, k, m)
           T == {k \in 0..Len(s) : ~Good(k)}
<1> SUFFICES T = {}
  <2>1. Good(Len(s)) BY <1>1
  <2> QED BY <2>1, <1>2
<1> SUFFICES ASSUME T # {} PROVE FALSE OBVIOUS
<1>4. PICK k \in T : \A y \in T : k <= y
  <2>1. T \subseteq Nat BY <1>1
  <2> HIDE DEF T
  <2> QED BY LeastNatural, <2>1
<1>5. k \in 0..Len(s) /\ ~Good(k)
  OBVIOUS
<1>6. CASE k = 0
  <2> DEFINE m == [j \in {} |-> 0]
  <2>1. f[0] = <<>> BY <1>3, <1>5, <1>6
  <2>2. Picks(<<>>, s, S, 0, m)
    <3>1. Len(<<>>) = 0 OBVIOUS
    <3>2. 1..Len(<<>>) = {} BY <3>1
    <3>3. m \in [1..Len(<<>>) -> 1..0] BY <3>2
    <3> QED BY <3>2, <3>3 DEF Picks
  <2>3. f[0] \in Seq(X) BY <2>1
  <2>4. Good(0) BY <2>1, <2>2, <2>3
  <2> QED BY <2>4, <1>5, <1>6
<1>7. CASE k # 0
  <2>1. k \in Nat /\ k - 1 \in 0..Len(s) /\ k - 1 \notin T /\ k <= Len(s)
    <3> HIDE DEF T
    <3>1. k - 1 \in 0..Len(s) BY <1>5, <1>1, <1>7
    <3>2. k - 1 \notin T BY <1>4, <1>5, <1>1
    <3> QED BY <3>1, <3>2, <1>5, <1>1
  <2>2. Good(k - 1) BY <2>1
  <2> HIDE DEF T
  <2>3. PICK m : Picks(f[k - 1], s, S, k - 1, m) BY <2>2
  <2>4. f[k - 1] \in Seq(X) BY <2>2
  <2>5. CASE s[k] \in S
    <3>1. f[k] = Append(f[k - 1], s[k]) BY <1>3, <1>5, <1>7, <2>5
    <3>2. Append(f[k - 1], s[k]) \in Seq(X)
          /\ \E mm : Picks(Append(f[k - 1], s[k]), s, S, k, mm)
      BY <2>1, <2>3, <2>4, <2>5, <1>7, PicksAppend
    <3> QED BY <3>1, <3>2, <1>5
  <2>6. CASE s[k] \notin S
    <3>1. f[k] = f[k - 1] BY <1>3, <1>5, <1>7, <2>6
    <3>2. Picks(f[k - 1], s, S, k, m)
      BY <2>1, <2>3, <2>4, <2>6, <1>7, PicksSkip
    <3> QED BY <3>1, <3>2, <2>4, <1>5
  <2> QED BY <2>5, <2>6
<1> QED BY <1>6, <1>7
\* The elements that are left when a loop drops entries from a slice or a list
\* are those of the sequence that are in S.
THEOREM KeepElements ==
    ASSUME NEW X, NEW s \in Seq(X), NEW S
    PROVE  /\ Keep(s, S) \in Seq(X)
           /\ Range(Keep(s, S)) = Range(s) \cap S
<1> DEFINE t == Keep(s, S)
<1>1. t \in Seq(X) BY KeepPicks
<1>2. PICK m : Picks(t, s, S, Len(s), m) BY KeepPicks
<1> HIDE DEF t
<1>3. DOMAIN t = 1..Len(t) /\ DOMAIN s = 1..Len(s) BY <1>1, LenProperties
<1>4. ASSUME NEW k \in DOMAIN t PROVE t[k] \in {s[i] : i \in DOMAIN s} \cap S
  BY <1>2, <1>3 DEF Picks
<1>5. ASSUME NEW i \in DOMAIN s, s[i] \in S PROVE \E k \in DOMAIN t : t[k] = s[i]
  <2>1. PICK k \in 1..Len(t) : m[k] = i BY <1>2, <1>3, <1>5 DEF Picks
  <2>2. t[k] = s[m[k]] BY <1>2, <2>1 DEF Picks
  <2> QED BY <1>3, <2>1, <2>2
<1>6. Range(t) = Range(s) \cap S
  BY <1>4, <1>5 DEF Range
<1> QED BY <1>1, <1>6 DEF t

\* Dropping entries brings no duplicate.
THEOREM KeepDistinct ==
    ASSUME NEW X, NEW s \in Seq(X), NEW S,
           \A i, j \in DOMAIN s : i # j => s[i] # s[j]
    PROVE  \A i, j \in DOMAIN Keep(s, S) : i # j => Keep(s, S)[i] # Keep(s, S)[j]
<1> DEFINE t == Keep(s, S)
<1>1. t \in Seq(X) BY KeepPicks
<1>2. PICK m : Picks(t, s, S, Len(s), m) BY KeepPicks
<1> HIDE DEF t
<1>3. DOMAIN t = 1..Len(t) /\ DOMAIN s = 1..Len(s) /\ Len(t) \in Nat /\ Len(s) \in Nat
  BY <1>1, LenProperties
<1>4. ASSUME NEW i \in DOMAIN t, NEW j \in DOMAIN t, i # j PROVE t[i] # t[j]
  <2>1. m[i] \in 1..Len(s) /\ m[j] \in 1..Len(s) BY <1>2, <1>3 DEF Picks
  <2>2. i < j => m[i] < m[j] BY <1>2, <1>3 DEF Picks
  <2>3. j < i => m[j] < m[i] BY <1>2, <1>3 DEF Picks
  <2>4. m[i] # m[j] BY <2>1, <2>2, <2>3, <1>3, <1>4
  <2>5. t[i] = s[m[i]] /\ t[j] = s[m[j]] BY <1>2, <1>3 DEF Picks
  <2> QED BY <2>1, <2>4, <2>5, <1>3
<1> QED BY <1>4 DEF t

\* Dropping entries keeps the order: where g falls along s it falls along what
\* is left of s (NodeInfo generations along the cache's list).
THEOREM KeepOrder ==
    ASSUME NEW X, NEW s \in Seq(X), NEW S, NEW g,
           \A i, j \in DOMAIN s : i < j => g[s[i]] > g[s[j]]
    PROVE  \A i, j \in DOMAIN Keep(s, S) : i < j => g[Keep(s, S)[i]] > g[Keep(s, S)[j]]
<1> DEFINE t == Keep(s, S)
<1>1. t \in Seq(X) BY KeepPicks
<1>2. PICK m : Picks(t, s, S, Len(s), m) BY KeepPicks
<1> HIDE DEF t
<1>3. DOMAIN t = 1..Len(t) /\ DOMAIN s = 1..Len(s) BY <1>1, LenProperties
<1>4. ASSUME NEW i \in DOMAIN t, NEW j \in DOMAIN t, i < j PROVE g[t[i]] > g[t[j]]
  <2>1. m[i] \in 1..Len(s) /\ m[j] \in 1..Len(s) BY <1>2, <1>3 DEF Picks
  <2>2. m[i] < m[j] BY <1>2, <1>3, <1>4 DEF Picks
  <2>3. t[i] = s[m[i]] /\ t[j] = s[m[j]] BY <1>2, <1>3 DEF Picks
  <2> QED BY <2>1, <2>2, <2>3, <1>3
<1> QED BY <1>4 DEF t

\* No element occurs twice in s.
Distinct(s) == \A i, j \in DOMAIN s : i # j => s[i] # s[j]

\* The facts about Keep the proofs use together.
LEMMA KeptSeq ==
    ASSUME NEW X, NEW s \in Seq(X), NEW S, Distinct(s)
    PROVE  Keep(s, S) \in Seq(X) /\ Range(Keep(s, S)) = Range(s) \cap S /\ Distinct(Keep(s, S))
<1>1. \A i, j \in DOMAIN s : i # j => s[i] # s[j] BY DEF Distinct
<1>2. \A i, j \in DOMAIN Keep(s, S) : i # j => Keep(s, S)[i] # Keep(s, S)[j]
  BY <1>1, KeepDistinct
<1> QED BY <1>2, KeepElements DEF Distinct

\* What Append does to the elements of a sequence.
LEMMA AppendFacts ==
    ASSUME NEW X, NEW s \in Seq(X), NEW x \in X
    PROVE  /\ Append(s, x) \in Seq(X) /\ Range(Append(s, x)) = Range(s) \cup {x}
           /\ Append(s, x) # <<>>
           /\ Distinct(s) /\ x \notin Range(s) => Distinct(Append(s, x))
<1>1. Len(s) \in Nat /\ DOMAIN s = 1..Len(s) BY LenProperties
<1> DEFINE t == Append(s, x)
<1>2. t \in Seq(X) /\ Len(t) = Len(s) + 1 /\ t[Len(s) + 1] = x /\ \A i \in 1..Len(s) : t[i] = s[i]
  OBVIOUS
<1>3. DOMAIN t = 1..Len(t) BY <1>2, LenProperties
<1> HIDE DEF t
<1>4. Range(t) = Range(s) \cup {x}
  <2>1. ASSUME NEW i \in DOMAIN t PROVE t[i] \in Range(s) \cup {x} BY <1>1, <1>2, <1>3 DEF Range
  <2>2. ASSUME NEW i \in DOMAIN s PROVE s[i] \in Range(t)
    <3>1. i \in DOMAIN t /\ t[i] = s[i] BY <1>1, <1>2, <1>3
    <3> QED BY <3>1 DEF Range
  <2>3. x \in Range(t)
    <3>1. Len(s) + 1 \in DOMAIN t /\ t[Len(s) + 1] = x BY <1>1, <1>2, <1>3
    <3> QED BY <3>1 DEF Range
  <2> QED BY <2>1, <2>2, <2>3 DEF Range
<1>5. t # <<>> BY <1>1, <1>2
<1>6. ASSUME Distinct(s), x \notin Range(s) PROVE Distinct(t)
  BY <1>1, <1>2, <1>3, <1>6 DEF Distinct, Range
<1> QED BY <1>2, <1>4, <1>5, <1>6 DEF t

\* A sequence is empty exactly when it has no elements.
LEMMA EmptyRange ==
    ASSUME NEW X, NEW s \in Seq(X)
    PROVE  s = <<>> <=> Range(s) = {}
<1>1. Len(s) \in Nat /\ DOMAIN s = 1..Len(s) BY LenProperties
<1>2. ASSUME s # <<>> PROVE Range(s) # {}
  <2>1. Len(s) \in Nat \ {0} BY <1>2, EmptySeq
  <2>2. 1 \in DOMAIN s BY <2>1, <1>1
  <2> QED BY <2>2 DEF Range
<1>3. ASSUME s = <<>> PROVE Range(s) = {}
  <2>1. Len(s) = 0 BY <1>3
  <2>2. DOMAIN s = {} BY <2>1, <1>1
  <2> QED BY <2>2 DEF Range
<1> QED BY <1>2, <1>3

\* The elements of a sequence over X are in X.
LEMMA RangeInType ==
    ASSUME NEW X, NEW s \in Seq(X) PROVE Range(s) \subseteq X
BY LenProperties DEF Range
\* A sequence without duplicates has as many places as elements.
LEMMA LenIsCardinality ==
    ASSUME NEW X, NEW s \in Seq(X), Distinct(s)
    PROVE  IsFiniteSet(Range(s)) /\ Cardinality(Range(s)) = Len(s)
<1>1. Len(s) \in Nat /\ DOMAIN s = 1..Len(s) /\ s \in [1..Len(s) -> X] BY LenProperties
<1>2. s \in [1..Len(s) -> Range(s)] BY <1>1 DEF Range
<1>3. s \in Bijection(1..Len(s), Range(s))
  BY <1>1, <1>2 DEF Bijection, Injection, Surjection, IsInjective, Range, Distinct
<1>4. IsFiniteSet(1..Len(s)) /\ Cardinality(1..Len(s)) = Len(s) BY <1>1, FS_Interval
<1>5. ExistsBijection(1..Len(s), Range(s)) BY <1>3 DEF ExistsBijection
<1> QED BY <1>4, <1>5, FS_Bijection

\* What concatenation does to the elements of two sequences.
LEMMA ConcatFacts ==
    ASSUME NEW X, NEW s \in Seq(X), NEW t \in Seq(X)
    PROVE  /\ s \o t \in Seq(X) /\ Range(s \o t) = Range(s) \cup Range(t)
           /\ Distinct(s) /\ Distinct(t) /\ Range(s) \cap Range(t) = {} => Distinct(s \o t)
<1> DEFINE l == s \o t
<1>1. Len(s) \in Nat /\ Len(t) \in Nat /\ DOMAIN s = 1..Len(s) /\ DOMAIN t = 1..Len(t)
  BY LenProperties
<1>2. /\ l \in Seq(X) /\ Len(l) = Len(s) + Len(t) /\ DOMAIN l = 1..Len(l)
      /\ \A i \in 1..Len(s) + Len(t) : l[i] = IF i <= Len(s) THEN s[i] ELSE t[i - Len(s)]
  BY ConcatProperties, LenProperties
<1> HIDE DEF l
<1>3. Range(l) = Range(s) \cup Range(t)
  <2>1. ASSUME NEW i \in DOMAIN l PROVE l[i] \in Range(s) \cup Range(t)
    <3>1. CASE i <= Len(s) BY <3>1, <1>1, <1>2 DEF Range
    <3>2. CASE ~(i <= Len(s))
      <4>1. i - Len(s) \in DOMAIN t BY <3>2, <1>1, <1>2
      <4> QED BY <4>1, <3>2, <1>1, <1>2 DEF Range
    <3> QED BY <3>1, <3>2
  <2>2. ASSUME NEW i \in DOMAIN s PROVE s[i] \in Range(l)
    <3>1. i \in DOMAIN l /\ l[i] = s[i] BY <1>1, <1>2
    <3> QED BY <3>1 DEF Range
  <2>3. ASSUME NEW i \in DOMAIN t PROVE t[i] \in Range(l)
    <3>1. i + Len(s) \in DOMAIN l /\ l[i + Len(s)] = t[i] BY <1>1, <1>2
    <3> QED BY <3>1 DEF Range
  <2> QED BY <2>1, <2>2, <2>3 DEF Range
<1>4. ASSUME Distinct(s), Distinct(t), Range(s) \cap Range(t) = {}, NEW i \in DOMAIN l, NEW j \in DOMAIN l, i < j
      PROVE  l[i] # l[j]
  <2>1. CASE j <= Len(s)
    <3>1. i \in DOMAIN s /\ j \in DOMAIN s BY <2>1, <1>1, <1>2, <1>4
    <3> QED BY <3>1, <2>1, <1>1, <1>2, <1>4 DEF Distinct
  <2>2. CASE i <= Len(s) /\ ~(j <= Len(s))
    <3>1. i \in DOMAIN s /\ j - Len(s) \in DOMAIN t BY <2>2, <1>1, <1>2
    <3>2. l[i] \in Range(s) /\ l[j] \in Range(t) BY <3>1, <2>2, <1>1, <1>2 DEF Range
    <3> QED BY <3>2, <1>4
  <2>3. CASE ~(i <= Len(s))
    <3>1. i - Len(s) \in DOMAIN t /\ j - Len(s) \in DOMAIN t /\ i - Len(s) # j - Len(s)
      BY <2>3, <1>1, <1>2, <1>4
    <3>2. l[i] = t[i - Len(s)] /\ l[j] = t[j - Len(s)] BY <2>3, <1>1, <1>2, <1>4
    <3> QED BY <3>1, <3>2, <1>4 DEF Distinct
  <2> QED BY <2>1, <2>2, <2>3, <1>1, <1>2, <1>4
<1>5. ASSUME Distinct(s), Distinct(t), Range(s) \cap Range(t) = {} PROVE Distinct(l)
  <2> SUFFICES ASSUME NEW i \in DOMAIN l, NEW j \in DOMAIN l, i # j PROVE l[i] # l[j]
    BY DEF Distinct
  <2>1. i < j \/ j < i BY <1>1, <1>2
  <2> QED BY <2>1, <1>4, <1>5
<1> QED BY <1>2, <1>3, <1>5 DEF l

\* f is the recursive function of FlattenSeq on the first n sequences.
Flattened(seqs, f, n) ==
    f = [i \in 1..n |-> IF i = 1 THEN seqs[i] ELSE f[i - 1] \o seqs[i]]

\* The recursion of FlattenSeq defines a function.
LEMMA FlattenExists ==
    ASSUME NEW seqs, NEW n \in Nat
    PROVE  \E f : Flattened(seqs, f, n)
<1> DEFINE T == {k \in Nat : ~\E f : Flattened(seqs, f, k)}
<1> SUFFICES T = {} OBVIOUS
<1> SUFFICES ASSUME T # {} PROVE FALSE OBVIOUS
<1>1. PICK k \in T : \A y \in T : k <= y
  <2> HIDE DEF T
  <2>1. T \subseteq Nat BY DEF T
  <2> QED BY LeastNatural, <2>1
<1>2. k \in Nat /\ ~\E f : Flattened(seqs, f, k)
  OBVIOUS
<1>3. CASE k = 0
  <2> DEFINE g == [i \in 1..0 |-> <<>>]
  <2>1. Flattened(seqs, g, 0) BY DEF Flattened
  <2> QED BY <1>2, <1>3, <2>1
<1>4. CASE k # 0
  <2>1. k - 1 \in Nat /\ k - 1 \notin T
    BY <1>1, <1>2, <1>4
  <2>2. PICK f : Flattened(seqs, f, k - 1)
    BY <2>1
  <2> DEFINE g == [i \in 1..k |-> IF i = k THEN (IF k = 1 THEN seqs[k] ELSE f[k - 1] \o seqs[k])
                                  ELSE f[i]]
             h == [i \in 1..k |-> IF i = 1 THEN seqs[i] ELSE g[i - 1] \o seqs[i]]
  <2>3. ASSUME NEW i \in 1..k PROVE g[i] = h[i]
    <3>0. \A j \in 1..k-1 : f[j] = IF j = 1 THEN seqs[j] ELSE f[j - 1] \o seqs[j]
      BY <2>2 DEF Flattened
    <3>1. CASE i = k /\ k = 1
      BY <3>1, <1>2, <1>4
    <3>2. CASE i = k /\ k # 1
      <4>1. g[i - 1] = f[k - 1] BY <3>2, <1>2, <1>4
      <4> QED BY <4>1, <3>2, <1>2, <1>4
    <3>3. CASE i # k /\ i = 1
      BY <3>3, <3>0, <1>2, <1>4
    <3>4. CASE i # k /\ i # 1
      <4>1. i \in 1..k-1 /\ i - 1 \in 1..k /\ i - 1 # k BY <3>4, <1>2
      <4>2. g[i - 1] = f[i - 1] BY <4>1
      <4> QED BY <4>1, <4>2, <3>0, <3>4
    <3> QED BY <3>1, <3>2, <3>3, <3>4
  <2>4. g = h
    BY <2>3
  <2>5. Flattened(seqs, g, k)
    BY <2>4 DEF Flattened
  <2> QED BY <2>5, <1>2
<1> QED BY <1>3, <1>4

\* Rows without duplicates and without common elements make, one after the
\* other, a sequence without duplicates that has exactly their elements
\* (nodeTree.list appends a round of nodes at a time).
THEOREM FlattenFacts ==
    ASSUME NEW X, NEW seqs \in Seq(Seq(X)),
           \A i \in 1..Len(seqs) : Distinct(seqs[i]),
           \A i, j \in 1..Len(seqs) : i < j => Range(seqs[i]) \cap Range(seqs[j]) = {}
    PROVE  /\ FlattenSeq(seqs) \in Seq(X) /\ Distinct(FlattenSeq(seqs))
           /\ \A x : x \in Range(FlattenSeq(seqs)) <=> \E i \in 1..Len(seqs) : x \in Range(seqs[i])
<1>1. Len(seqs) \in Nat /\ \A i \in 1..Len(seqs) : seqs[i] \in Seq(X)
  BY LenProperties, ElementOfSeq
<1> DEFINE n == Len(seqs)
<1>2. CASE n = 0
  <2>1. FlattenSeq(seqs) = seqs BY <1>2 DEF FlattenSeq
  <2>2. seqs = <<>> BY <1>2, EmptySeq
  <2>3. <<>> \in Seq(X) /\ Range(<<>>) = {} /\ DOMAIN <<>> = {}
    <3>1. <<>> \in Seq(X) /\ Len(<<>>) = 0 BY EmptySeq
    <3>2. DOMAIN <<>> = 1..0 BY <3>1, LenProperties
    <3> QED BY <3>1, <3>2 DEF Range
  <2>4. Distinct(<<>>) BY <2>3 DEF Distinct
  <2>5. 1..n = {} BY <1>2
  <2> QED BY <2>1, <2>2, <2>3, <2>4, <2>5
<1>3. CASE n # 0
  <2> DEFINE f == CHOOSE f : Flattened(seqs, f, n)
  <2>1. Flattened(seqs, f, n) BY <1>1, FlattenExists
  <2>2. FlattenSeq(seqs) = f[n] BY <1>3 DEF FlattenSeq, Flattened
  <2> HIDE DEF f
  <2>3. \A i \in 1..n : f[i] = IF i = 1 THEN seqs[i] ELSE f[i - 1] \o seqs[i]
    BY <2>1 DEF Flattened
  <2> DEFINE Good(k) == /\ f[k] \in Seq(X) /\ Distinct(f[k])
                        /\ \A x : x \in Range(f[k]) <=> \E i \in 1..k : x \in Range(seqs[i])
             T == {k \in 1..n : ~Good(k)}
  <2> SUFFICES T = {}
    <3>1. n \in 1..n BY <1>1, <1>3
    <3>2. Good(n)
      <4> HIDE DEF Good, n
      <4> QED BY <3>1
    <3> QED BY <3>2, <2>2
  <2> SUFFICES ASSUME T # {} PROVE FALSE OBVIOUS
  <2>4. PICK k \in T : \A y \in T : k <= y
    <3>1. T \subseteq Nat BY <1>1
    <3> HIDE DEF T
    <3> QED BY LeastNatural, <3>1
  <2>5. k \in 1..n /\ ~Good(k) OBVIOUS
  <2>6. CASE k = 1
    <3>1. f[1] = seqs[1] /\ seqs[1] \in Seq(X) /\ Distinct(seqs[1]) BY <2>3, <2>5, <2>6, <1>1
    <3>2. 1..1 = {1} OBVIOUS
    <3>3. Good(1) BY <3>1, <3>2
    <3> QED BY <3>3, <2>5, <2>6
  <2>7. CASE k # 1
    <3>1. k - 1 \in 1..n /\ k - 1 \notin T /\ k \in Nat
      <4> HIDE DEF T
      <4>1. k - 1 \in 1..n BY <2>5, <2>7, <1>1
      <4>2. k - 1 \notin T BY <2>4, <2>5, <1>1
      <4> QED BY <4>1, <4>2, <2>5, <1>1
    <3>2. Good(k - 1) BY <3>1
    <3> HIDE DEF T
    <3>3. f[k] = f[k - 1] \o seqs[k] BY <2>3, <2>5, <2>7
    <3>4. seqs[k] \in Seq(X) /\ Distinct(seqs[k]) BY <2>5, <1>1
    <3>5. Range(f[k - 1]) \cap Range(seqs[k]) = {}
      <4> SUFFICES ASSUME NEW x \in Range(f[k - 1]), x \in Range(seqs[k]) PROVE FALSE OBVIOUS
      <4>1. PICK i \in 1..(k-1) : x \in Range(seqs[i]) BY <3>2
      <4>2. i \in 1..n /\ i < k BY <4>1, <2>5, <3>1, <1>1
      <4>3. Range(seqs[i]) \cap Range(seqs[k]) = {} BY <4>2, <2>5
      <4> QED BY <4>1, <4>3
    <3>6. f[k - 1] \o seqs[k] \in Seq(X) /\ Distinct(f[k - 1] \o seqs[k])
          /\ Range(f[k - 1] \o seqs[k]) = Range(f[k - 1]) \cup Range(seqs[k])
      BY <3>2, <3>4, <3>5, ConcatFacts
    <3>7. ASSUME NEW x PROVE x \in Range(f[k]) <=> \E i \in 1..k : x \in Range(seqs[i])
      <4>1. x \in Range(f[k]) <=> x \in Range(f[k - 1]) \/ x \in Range(seqs[k]) BY <3>3, <3>6
      <4>2. x \in Range(f[k - 1]) <=> \E i \in 1..(k-1) : x \in Range(seqs[i]) BY <3>2
      <4>3. 1..k = 1..(k-1) \cup {k} BY <2>5, <1>1, <2>7
      <4> QED BY <4>1, <4>2, <4>3
    <3>8. Good(k) BY <3>3, <3>6, <3>7
    <3> QED BY <3>8, <2>5
  <2> QED BY <2>6, <2>7
<1> QED BY <1>2, <1>3
\* Only the elements of the sequence matter for what is kept of it.
THEOREM KeepAgree ==
    ASSUME NEW X, NEW s \in Seq(X), NEW S, NEW R,
           \A i \in DOMAIN s : s[i] \in S <=> s[i] \in R
    PROVE  Keep(s, S) = Keep(s, R)
<1>1. Len(s) \in Nat /\ DOMAIN s = 1..Len(s) BY LenProperties
<1>2. PICK f : Filtered(s, S, f, Len(s)) /\ Keep(s, S) = f[Len(s)] BY <1>1, KeepIsFiltered
<1>3. PICK g : Filtered(s, R, g, Len(s)) /\ Keep(s, R) = g[Len(s)] BY <1>1, KeepIsFiltered
<1>4. \A i \in 0..Len(s) : /\ f[i] = IF i = 0 THEN <<>> ELSE IF s[i] \in S THEN Append(f[i - 1], s[i]) ELSE f[i - 1]
                           /\ g[i] = IF i = 0 THEN <<>> ELSE IF s[i] \in R THEN Append(g[i - 1], s[i]) ELSE g[i - 1]
  BY <1>2, <1>3 DEF Filtered
<1> DEFINE T == {k \in 0..Len(s) : f[k] # g[k]}
<1> SUFFICES T = {} BY <1>1, <1>2, <1>3
<1> SUFFICES ASSUME T # {} PROVE FALSE OBVIOUS
<1>5. PICK k \in T : \A y \in T : k <= y
  <2>1. T \subseteq Nat BY <1>1
  <2> HIDE DEF T
  <2> QED BY LeastNatural, <2>1
<1>6. k \in 0..Len(s) /\ f[k] # g[k] OBVIOUS
<1>7. CASE k = 0 BY <1>4, <1>6, <1>7
<1>8. CASE k # 0
  <2>1. k - 1 \in 0..Len(s) /\ k \in DOMAIN s BY <1>1, <1>6, <1>8
  <2>2. k - 1 \notin T
    <3> HIDE DEF T
    <3> QED BY <1>5, <1>1, <1>6
  <2>3. f[k - 1] = g[k - 1] BY <2>1, <2>2
  <2> HIDE DEF T
  <2> QED BY <2>1, <2>3, <1>4, <1>6, <1>8
<1> QED BY <1>7, <1>8
\* Induction along a segment of the naturals.
LEMMA SegmentInduction ==
    ASSUME NEW n \in Nat, NEW G, 0 \in G, \A i \in 1..n : i - 1 \in G => i \in G
    PROVE  \A i \in 0..n : i \in G
<1> DEFINE T == {i \in 0..n : i \notin G}
<1> SUFFICES ASSUME T # {} PROVE FALSE OBVIOUS
<1>1. PICK k \in T : \A y \in T : k <= y
  <2>1. T \subseteq Nat OBVIOUS
  <2> HIDE DEF T
  <2> QED BY LeastNatural, <2>1
<1>2. k \in 1..n /\ k - 1 \in 0..n /\ ~(k <= k - 1) OBVIOUS
<1>3. k - 1 \notin T BY <1>1, <1>2
<1> QED BY <1>2, <1>3

\* A finite set as a list: every element, once.
LEMMA ListOfSet ==
    ASSUME NEW S, IsFiniteSet(S)
    PROVE  SetToSeq(S) \in Seq(S) /\ Range(SetToSeq(S)) = S /\ Distinct(SetToSeq(S))
<1> DEFINE n == Cardinality(S)
           IsList(f) == f \in [1..n -> S] /\ IsInjective(f)
<1>1. n \in Nat BY FS_CardinalityType
<1>2. PICK b : b \in Bijection(1..n, S)
  BY FS_CardinalityType DEF ExistsBijection
<1>3. IsList(b) BY <1>2 DEF Bijection, Injection
<1> DEFINE s == SetToSeq(S)
<1>4. IsList(s) BY <1>3 DEF SetToSeq
<1> HIDE DEF s
<1>5. s \in Seq(S) /\ DOMAIN s = 1..n BY <1>1, <1>4
<1>6. Distinct(s) BY <1>4, <1>5 DEF IsInjective, Distinct
<1>7. Range(s) \subseteq S BY <1>5, RangeInType
<1>8. Cardinality(Range(s)) = n
  <2>1. Len(s) = n BY <1>5, <1>1, LenProperties
  <2> QED BY <2>1, <1>5, <1>6, LenIsCardinality
<1>9. Range(s) = S
  BY <1>7, <1>8, FS_Subset
<1> QED BY <1>5, <1>6, <1>9 DEF s
=============================================================================
