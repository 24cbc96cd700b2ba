-------------------------- MODULE ThinkingProofs ---------------------------
(***************************************************************************)
(* Proofs about what the agents plan, pursue and conclude.  Each component *)
(* is on its own, with an invariant, the lemma that every step preserves   *)
(* it, and the lemma that it implies what the component promises;          *)
(* PlatformServicesProofs says what follows for all together.              *)
(*                                                                         *)
(* The lemmas about sequences, orders and numbers come first: the library  *)
(* has them in other forms, or not at all.                                 *)
(***************************************************************************)
EXTENDS Goals, Reasoning, WellFoundedInduction, FiniteSetTheorems,
        FunctionTheorems, SequenceTheorems, TLAPS
-----------------------------------------------------------------------------
(* Induction over the natural numbers, with a set or a function for the    *)
(* predicate, and what follows for sequences and orders.                   *)

(* What holds of 0, and of n + 1 if of n, holds of every number. *)
LEMMA SetInduction ==
  ASSUME NEW S, 0 \in S, \A n \in Nat : n \in S => n + 1 \in S
  PROVE  Nat \subseteq S
<1> DEFINE T == Nat \ S
           R == OpToRel(<, Nat)
<1> SUFFICES ASSUME T # {} PROVE FALSE
  OBVIOUS
<1>1. IsWellFoundedOn(R, Nat)
  BY NatLessThanWellFounded
<1>2. PICK n \in T : \A m \in T : <<m, n>> \notin R
  <2> HIDE DEF T, R
  <2>1. T \subseteq Nat BY DEF T
  <2> QED BY <1>1, <2>1, WFMin
<1>3. \A m, k \in Nat : m < k => <<m, k>> \in R
  BY DEF OpToRel
<1> HIDE DEF R
<1>4. n # 0 /\ n - 1 \in Nat /\ n - 1 < n /\ n \in Nat
  OBVIOUS
<1>5. <<n - 1, n>> \in R
  BY <1>3, <1>4
<1>6. n - 1 \in S
  BY <1>2, <1>5, <1>4
<1> QED BY <1>4, <1>6

(* Functions on the first numbers that are defined by recursion exist. *)
IsRecursion(f, D, b, step, N) ==
  f \in [0 .. N -> D] /\ f[0] = b /\ \A n \in 1 .. N : f[n] = step[f[n - 1]]

(* A step that stays in D can be repeated any number of times. *)
LEMMA RecursionExists ==
  ASSUME NEW D, NEW b \in D, NEW step \in [D -> D], NEW N \in Nat
  PROVE  \E f : IsRecursion(f, D, b, step, N)
<1> DEFINE Fits(f, n) == f \in [0 .. n -> D] /\ f[0] = b /\ \A i \in 1 .. n : f[i] = step[f[i - 1]]
           S == {n \in Nat : \E f \in [0 .. n -> D] : Fits(f, n)}
<1>1. 0 \in S
  <2> DEFINE f == [i \in 0 .. 0 |-> b]
  <2>1. Fits(f, 0) OBVIOUS
  <2> QED BY <2>1
<1>2. ASSUME NEW n \in Nat, n \in S PROVE n + 1 \in S
  <2>1. PICK f \in [0 .. n -> D] : Fits(f, n) BY <1>2
  <2> DEFINE g == [i \in 0 .. n + 1 |-> IF i = n + 1 THEN step[f[n]] ELSE f[i]]
  <2>2. f[n] \in D OBVIOUS
  <2>3. g \in [0 .. n + 1 -> D] BY <2>2
  <2>4. g[0] = b BY <2>1
  <2>5. \A i \in 1 .. n + 1 : g[i] = step[g[i - 1]]
    <3> TAKE i \in 1 .. n + 1
    <3>1. CASE i = n + 1 BY <3>1
    <3>2. CASE i # n + 1
      <4>1. i \in 1 .. n /\ i - 1 \in 0 .. n BY <3>2
      <4> QED BY <4>1, <2>1
    <3> QED BY <3>1, <3>2
  <2> HIDE DEF g
  <2> QED BY <2>3, <2>4, <2>5
<1>3. Nat \subseteq S
  <2> HIDE DEF S
  <2> QED BY <1>1, <1>2, SetInduction
<1>4. PICK f \in [0 .. N -> D] : Fits(f, N) BY <1>3
<1> QED BY <1>4 DEF IsRecursion

-----------------------------------------------------------------------------

(* Every nonempty set of numbers has a least one, and Min is it. *)
LEMMA LeastOf ==
  ASSUME NEW S \in SUBSET Nat, S # {}
  PROVE  Min(S) \in S /\ \A m \in S : Min(S) <= m
<1> DEFINE R == OpToRel(<, Nat)
<1>1. PICK n \in S : \A m \in S : <<m, n>> \notin R
  <2>1. IsWellFoundedOn(R, Nat) BY NatLessThanWellFounded
  <2> HIDE DEF R
  <2> QED BY <2>1, WFMin
<1>2. \A m \in S : ~(m < n)
  BY <1>1 DEF OpToRel
<1> HIDE DEF R
<1>3. \A m \in S : n <= m
  BY <1>2
<1> QED BY <1>3 DEF Min

-----------------------------------------------------------------------------
(* Sequences by their length and elements alone. *)
IsSequence(s) == Len(s) \in Nat /\ s = [i \in 1 .. Len(s) |-> s[i]]

(* What is appended comes last, and the others stay in place. *)
LEMMA AppendToSequence ==
  ASSUME NEW s, IsSequence(s), NEW x
  PROVE  /\ IsSequence(Append(s, x)) /\ Len(Append(s, x)) = Len(s) + 1
         /\ Append(s, x)[Len(s) + 1] = x /\ \A i \in 1 .. Len(s) : Append(s, x)[i] = s[i]
<1> DEFINE T == {s[i] : i \in 1 .. Len(s)} \cup {x}
<1>1. s \in Seq(T)
  <2>1. \A i \in 1 .. Len(s) : s[i] \in T OBVIOUS
  <2>2. [i \in 1 .. Len(s) |-> s[i]] \in Seq(T)
    <3> HIDE DEF T
    <3> QED BY <2>1 DEF IsSequence
  <2> QED BY <2>2 DEF IsSequence
<1>2. x \in T
  OBVIOUS
<1> HIDE DEF T
<1>3. /\ Append(s, x) \in Seq(T) /\ Len(Append(s, x)) = Len(s) + 1
      /\ Append(s, x)[Len(s) + 1] = x /\ \A i \in 1 .. Len(s) : Append(s, x)[i] = s[i]
  BY <1>1, <1>2
<1>4. IsSequence(Append(s, x))
  <2> DEFINE t == Append(s, x)
  <2>1. t \in Seq(T) BY <1>3
  <2> HIDE DEF t
  <2>2. Len(t) \in Nat /\ t = [i \in 1 .. Len(t) |-> t[i]] BY <2>1
  <2> QED BY <2>2 DEF IsSequence, t
<1> QED BY <1>3, <1>4

(* The empty sequence is one. *)
LEMMA EmptySequence == IsSequence(<< >>) /\ Len(<< >>) = 0
<1>1. Len(<< >>) = 0 /\ << >> = [i \in 1 .. 0 |-> << >>[i]]
  OBVIOUS
<1> QED BY <1>1 DEF IsSequence

-----------------------------------------------------------------------------
(* Strict orders, as sets of pairs, and the finite sets in their order.    *)
IsOrder(R, S) ==
  /\ \A x, y \in S : x # y => <<x, y>> \in R \/ <<y, x>> \in R
  /\ \A x, y \in S : <<x, y>> \in R => <<y, x>> \notin R
  /\ \A x, y, z \in S : <<x, y>> \in R /\ <<y, z>> \in R => <<x, z>> \in R

(* Without one of its members a set has one fewer. *)
LEMMA LessByOne ==
  ASSUME NEW X, IsFiniteSet(X), NEW n \in Nat, Cardinality(X) = n + 1, NEW x \in X
  PROVE  IsFiniteSet(X \ {x}) /\ Cardinality(X \ {x}) = n /\ X # {}
<1>1. IsFiniteSet(X \ {x}) /\ Cardinality(X \ {x}) = (IF x \in X THEN Cardinality(X) - 1 ELSE Cardinality(X))
  BY FS_RemoveElement
<1> QED BY <1>1

(* A finite set that is ordered has a last member. *)
LEMMA LastExists ==
  ASSUME NEW S, IsFiniteSet(S), NEW R, IsOrder(R, S), S # {}
  PROVE  \E x \in S : \A y \in S : y # x => <<y, x>> \in R
<1> DEFINE HasLast(X) == \E x \in X : \A y \in X : y # x => <<y, x>> \in R
           T == {n \in Nat : \A X \in SUBSET S : Cardinality(X) = n + 1 => HasLast(X)}
<1>1. 0 \in T
  <2> SUFFICES ASSUME NEW X \in SUBSET S, Cardinality(X) = 1 PROVE HasLast(X)
    OBVIOUS
  <2>1. IsFiniteSet(X) BY FS_Subset
  <2>2. PICK x : X = {x} BY <2>1, FS_Singleton
  <2> QED BY <2>2
<1>2. ASSUME NEW n \in Nat, n \in T PROVE n + 1 \in T
  <2> SUFFICES ASSUME NEW X \in SUBSET S, Cardinality(X) = n + 1 + 1 PROVE HasLast(X)
    OBVIOUS
  <2>1. IsFiniteSet(X) BY FS_Subset
  <2>2. X # {}
    <3>1. Cardinality({}) = 0 BY FS_EmptySet
    <3>2. n + 1 + 1 # 0 OBVIOUS
    <3> QED BY <3>1, <3>2
  <2>3. PICK x : x \in X BY <2>2
  <2> DEFINE Y == X \ {x}
  <2>4. Cardinality(Y) = n + 1
    <3>1. n + 1 \in Nat OBVIOUS
    <3> QED BY <2>1, <2>3, <3>1, LessByOne
  <2>5. HasLast(Y)
    <3>1. Y \in SUBSET S OBVIOUS
    <3> HIDE DEF Y, HasLast
    <3> QED BY <3>1, <2>4, <1>2
  <2>6. PICK y \in Y : \A z \in Y : z # y => <<z, y>> \in R
    BY <2>5
  <2>7. x \in S /\ y \in S /\ x # y /\ y \in X /\ \A z \in X : z \in Y \/ z = x
    BY <2>3, <2>6
  <2>8. CASE <<x, y>> \in R
    <3>1. \A z \in X : z # y => <<z, y>> \in R BY <2>8, <2>6, <2>7
    <3> QED BY <3>1, <2>7
  <2>9. CASE <<y, x>> \in R
    <3>1. ASSUME NEW z \in X, z # x PROVE <<z, x>> \in R
      <4>1. z \in S /\ z \in Y BY <3>1
      <4>2. CASE z = y BY <4>2, <2>9
      <4>3. CASE z # y BY <4>1, <4>3, <2>6, <2>7, <2>9 DEF IsOrder
      <4> QED BY <4>2, <4>3
    <3> QED BY <3>1, <2>3
  <2> QED BY <2>7, <2>8, <2>9 DEF IsOrder
<1>3. Nat \subseteq T
  <2> HIDE DEF T
  <2> QED BY <1>1, <1>2, SetInduction
<1>4. Cardinality(S) \in Nat /\ Cardinality(S) # 0
  BY FS_CardinalityType, FS_EmptySet
<1>5. Cardinality(S) - 1 \in T /\ Cardinality(S) = (Cardinality(S) - 1) + 1
  <2>1. Cardinality(S) - 1 \in Nat BY <1>4
  <2> HIDE DEF T
  <2> QED BY <2>1, <1>3, <1>4
<1>6. S \in SUBSET S OBVIOUS
<1>7. HasLast(S)
  <2> HIDE DEF HasLast
  <2> QED BY <1>5, <1>6
<1> QED BY <1>7

SortedAs(s, X, R) == s \in [1 .. Cardinality(X) -> X] /\ \A j \in DOMAIN s : \A i \in 1 .. j - 1 : <<s[i], s[j]>> \in R

(* A finite set that is ordered can be sorted. *)
LEMMA SortingExists ==
  ASSUME NEW S, IsFiniteSet(S), NEW R, IsOrder(R, S)
  PROVE  \E s : SortedAs(s, S, R)
<1> DEFINE T == {n \in Nat : \A X \in SUBSET S : Cardinality(X) = n => \E s : SortedAs(s, X, R)}
<1>1. 0 \in T
  <2> SUFFICES ASSUME NEW X \in SUBSET S, Cardinality(X) = 0 PROVE \E s : SortedAs(s, X, R)
    OBVIOUS
  <2> DEFINE s == [i \in 1 .. 0 |-> i]
  <2>1. s \in [1 .. Cardinality(X) -> X] OBVIOUS
  <2>2. DOMAIN s = {} OBVIOUS
  <2> HIDE DEF s
  <2>3. SortedAs(s, X, R) BY <2>1, <2>2 DEF SortedAs
  <2> QED BY <2>3
<1>2. ASSUME NEW n \in Nat, n \in T PROVE n + 1 \in T
  <2> SUFFICES ASSUME NEW X \in SUBSET S, Cardinality(X) = n + 1 PROVE \E s : SortedAs(s, X, R)
    OBVIOUS
  <2>1. IsFiniteSet(X) BY FS_Subset
  <2>2. X # {}
    <3>1. Cardinality({}) = 0 BY FS_EmptySet
    <3>2. n + 1 # 0 OBVIOUS
    <3> QED BY <3>1, <3>2
  <2>3. IsOrder(R, X) BY DEF IsOrder
  <2>4. PICK x \in X : \A y \in X : y # x => <<y, x>> \in R
    BY <2>1, <2>2, <2>3, LastExists
  <2> DEFINE Y == X \ {x}
  <2>5. Cardinality(Y) = n /\ Y \in SUBSET S BY <2>1, <2>4, LessByOne
  <2>6. \E t : SortedAs(t, Y, R)
    <3> HIDE DEF Y
    <3> QED BY <2>5, <1>2
  <2>7. PICK t : SortedAs(t, Y, R) BY <2>6
  <2>8. t \in [1 .. n -> Y] /\ \A j \in 1 .. n : \A i \in 1 .. j - 1 : <<t[i], t[j]>> \in R
    <3> HIDE DEF Y
    <3> QED BY <2>7, <2>5 DEF SortedAs
  <2> DEFINE s == [i \in 1 .. n + 1 |-> IF i = n + 1 THEN x ELSE t[i]]
  <2>9. s \in [1 .. n + 1 -> X] BY <2>8, <2>4
  <2>10. ASSUME NEW j \in 1 .. n + 1, NEW i \in 1 .. j - 1 PROVE <<s[i], s[j]>> \in R
    <3>1. i \in 1 .. n /\ s[i] = t[i] /\ t[i] \in Y BY <2>8
    <3>2. CASE j = n + 1
      <4>1. s[j] = x BY <3>2
      <4> QED BY <3>1, <4>1, <2>4
    <3>3. CASE j # n + 1
      <4>1. s[j] = t[j] /\ j \in 1 .. n BY <3>3
      <4> QED BY <3>1, <4>1, <2>8
    <3> QED BY <3>2, <3>3
  <2> HIDE DEF s
  <2>11. SortedAs(s, X, R) BY <2>9, <2>10 DEF SortedAs
  <2> QED BY <2>11
<1>3. Nat \subseteq T
  <2> HIDE DEF T
  <2> QED BY <1>1, <1>2, SetInduction
<1>4. Cardinality(S) \in T BY <1>3, FS_CardinalityType
<1>5. S \in SUBSET S OBVIOUS
<1> QED BY <1>4, <1>5

(* What is sorted holds every element once. *)
LEMMA SortedIs ==
  ASSUME NEW S, IsFiniteSet(S), NEW R, IsOrder(R, S), NEW s, SortedAs(s, S, R)
  PROVE  /\ Cardinality(S) \in Nat /\ s \in [1 .. Cardinality(S) -> S]
         /\ \A i, j \in 1 .. Cardinality(S) : i < j => <<s[i], s[j]>> \in R
         /\ \A i, j \in 1 .. Cardinality(S) : s[i] = s[j] => i = j
         /\ \A x \in S : \E i \in 1 .. Cardinality(S) : s[i] = x
<1> DEFINE n == Cardinality(S)
<1>1. n \in Nat BY FS_CardinalityType
<1>2. s \in [1 .. n -> S] BY DEF SortedAs
<1>3. \A i, j \in 1 .. n : i < j => <<s[i], s[j]>> \in R
  <2> HIDE DEF n
  <2> SUFFICES ASSUME NEW i \in 1 .. n, NEW j \in 1 .. n, i < j PROVE <<s[i], s[j]>> \in R
    OBVIOUS
  <2>1. j \in DOMAIN s /\ i \in 1 .. j - 1 BY <1>1, <1>2
  <2> QED BY <2>1 DEF SortedAs
<1>4. \A i, j \in 1 .. n : i # j => s[i] # s[j]
  <2> HIDE DEF n
  <2> SUFFICES ASSUME NEW i \in 1 .. n, NEW j \in 1 .. n, i < j PROVE s[i] # s[j]
    BY <1>1
  <2>1. s[i] \in S /\ s[j] \in S /\ <<s[i], s[j]>> \in R BY <1>2, <1>3
  <2> QED BY <2>1 DEF IsOrder
<1>5. \A x \in S : \E i \in 1 .. n : s[i] = x
  <2>1. IsFiniteSet(1 .. n) /\ Cardinality(1 .. n) = n
    <3>1. \A k \in Nat : IsFiniteSet(1 .. k) /\ Cardinality(1 .. k) = k
      BY FS_Interval
    <3> HIDE DEF n
    <3> QED BY <3>1, <1>1
  <2>2. s \in Injection(1 .. n, S)
    <3> HIDE DEF n
    <3> QED BY <1>2, <1>4 DEF Injection, IsInjective
  <2>3. s \in Surjection(1 .. n, S)
    <3>1. \A k \in Nat : k = n /\ Cardinality(1 .. k) = k => s \in Surjection(1 .. k, S)
      BY <2>1, <2>2, FS_Injection
    <3> QED BY <1>1, <2>1, <3>1
  <2> HIDE DEF n
  <2> QED BY <2>3 DEF Surjection
<1> HIDE DEF n
<1>6. (\A i, j \in 1 .. n : s[i] = s[j] => i = j) BY <1>4
<1>7. n \in Nat /\ s \in [1 .. n -> S] BY <1>1, <1>2
<1> QED BY <1>3, <1>5, <1>6, <1>7 DEF n

(* There are k numbers from 1 to k. *)
LEMMA FirstNumbers == \A k \in Nat : IsFiniteSet(1 .. k) /\ Cardinality(1 .. k) = k
  BY FS_Interval

(* A sequence without repetitions has as many values as places. *)
LEMMA ValuesOfInjective ==
  ASSUME NEW k \in Nat, NEW g, DOMAIN g = 1 .. k, \A i, j \in 1 .. k : g[i] = g[j] => i = j
  PROVE  Cardinality({g[i] : i \in DOMAIN g}) = k /\ IsFiniteSet({g[i] : i \in DOMAIN g})
<1> DEFINE V == {g[i] : i \in 1 .. k}
           h == [i \in 1 .. k |-> g[i]]
<1>1. h \in [1 .. k -> V] OBVIOUS
<1>2. h \in Surjection(1 .. k, V)
  <2>1. \A y \in V : \E i \in 1 .. k : h[i] = y OBVIOUS
  <2> HIDE DEF V, h
  <2> QED BY <1>1, <2>1 DEF Surjection
<1>3. h \in Injection(1 .. k, V)
  <2>1. \A i, j \in 1 .. k : h[i] = h[j] => i = j OBVIOUS
  <2> HIDE DEF V, h
  <2> QED BY <1>1, <2>1 DEF Injection, IsInjective
<1>4. IsFiniteSet(1 .. k) /\ Cardinality(1 .. k) = k BY FirstNumbers
<1> HIDE DEF V, h
<1>5. IsFiniteSet(V) /\ Cardinality(V) = Cardinality(1 .. k)
  <2>1. IsFiniteSet(V) BY <1>2, <1>4, FS_Surjection
  <2>2. Cardinality(V) = Cardinality(1 .. k) <=> h \in Injection(1 .. k, V)
    BY <1>2, <1>4, FS_Surjection
  <2> QED BY <2>1, <2>2, <1>3
<1> QED BY <1>4, <1>5 DEF V

-----------------------------------------------------------------------------
(* Plans and their reviews.                                                *)

FollowUps(p, tasks) == {id \in Nodes(p) : InDegree(p, tasks, id) <= 0}

(* _topological_sort() adds, round by round, the tasks whose dependencies   *)
(* are sorted.                                                             *)
LEMMA SortedByRounds ==
  ASSUME NEW p, Len(p) \in Nat
  PROVE  \E f \in [0 .. Len(p) -> SUBSET Nodes(p)] :
           /\ f[0] = {} /\ \A n \in 1 .. Len(p) : f[n] = FollowUps(p, f[n - 1])
           /\ Sorted(p) = f[Len(p)]
<1> DEFINE N == Len(p)
           D == SUBSET Nodes(p)
           step == [s \in D |-> FollowUps(p, s)]
           Def(f) == f = [n \in 0 .. N |-> IF n = 0 THEN {} ELSE {id \in Nodes(p) : InDegree(p, f[n - 1], id) <= 0}]
           f == CHOOSE g : Def(g)
<1>1. \E g : IsRecursion(g, D, {}, step, N)
  <2>1. {} \in D OBVIOUS
  <2>2. step \in [D -> D] BY DEF FollowUps
  <2>3. N \in Nat OBVIOUS
  <2> HIDE DEF step, D, N, Def, f
  <2> QED BY <2>1, <2>2, <2>3, RecursionExists
<1>2. PICK g : g \in [0 .. N -> D] /\ g[0] = {} /\ \A n \in 1 .. N : g[n] = step[g[n - 1]]
  <2> HIDE DEF step, D, N, Def, f
  <2> QED BY <1>1 DEF IsRecursion
<1>3. \A n \in 1 .. N : g[n] = {id \in Nodes(p) : InDegree(p, g[n - 1], id) <= 0}
  <2> TAKE n \in 1 .. N
  <2>1. n - 1 \in 0 .. N OBVIOUS
  <2>2. g[n - 1] \in D BY <1>2, <2>1
  <2> HIDE DEF Def, f
  <2> QED BY <1>2, <2>2 DEF FollowUps
<1>4. g \in [0 .. N -> D] BY <1>2
<1>5. Def(g)
  <2> DEFINE h == [n \in 0 .. N |-> IF n = 0 THEN {} ELSE {id \in Nodes(p) : InDegree(p, g[n - 1], id) <= 0}]
  <2>1. \A n \in 0 .. N : g[n] = h[n]
    BY <1>2, <1>3
  <2>2. g = [n \in 0 .. N |-> g[n]]
    <3> HIDE DEF Def, f, D, h, step
    <3> QED BY <1>4
  <2> HIDE DEF h
  <2>3. g = [n \in 0 .. N |-> h[n]] BY <2>1, <2>2
  <2> QED BY <2>3 DEF h
<1>6. Def(f)
  <2> HIDE DEF Def
  <2> QED BY <1>5
<1>7. Sorted(p) = f[N]
  BY DEF Sorted
<1> HIDE DEF f
<1>8. \A n \in 0 .. N : f[n] \in SUBSET Nodes(p)
  BY <1>6
<1>9. f \in [0 .. N -> SUBSET Nodes(p)]
  BY <1>6, <1>8
<1>10. f[0] = {}
  BY <1>6
<1>11. ASSUME NEW n \in 1 .. N PROVE f[n] = FollowUps(p, f[n - 1])
  <2>1. n \in 0 .. N /\ n # 0 OBVIOUS
  <2> QED BY <1>6, <2>1 DEF FollowUps
<1> HIDE DEF Def, step
<1> QED BY <1>7, <1>9, <1>10, <1>11

Task == [id : TaskIds, deps : {d \in SUBSET TaskIds : IsFiniteSet(d)}]

(* The tasks of a proposal are its places, and their names its nodes. *)
LEMMA ProposalFacts ==
  ASSUME NEW p \in Seq(Task)
  PROVE  /\ Len(p) \in Nat /\ DOMAIN p = 1 .. Len(p)
         /\ \A i \in DOMAIN p : p[i].id \in Nodes(p) /\ IsFiniteSet(p[i].deps)
         /\ \A id \in Nodes(p) : \E i \in DOMAIN p : p[i].id = id
<1>1. \A i \in DOMAIN p : p[i] \in Task
  OBVIOUS
<1>2. \A t \in Task : IsFiniteSet(t.deps)
  BY DEF Task
<1> QED BY <1>1, <1>2 DEF Nodes

(* In a proposal without repetitions a name is at one place only. *)
LEMMA UniqueIds ==
  ASSUME NEW p \in Seq(Task), UniqueTasks(p), NEW i \in DOMAIN p, NEW j \in DOMAIN p, p[i].id = p[j].id
  PROVE  i = j
<1> DEFINE f == [k \in 1 .. Len(p) |-> p[k].id]
<1>1. f \in Surjection(1 .. Len(p), Nodes(p))
  BY ProposalFacts DEF Surjection, Nodes
<1>2. IsFiniteSet(1 .. Len(p)) /\ Cardinality(1 .. Len(p)) = Len(p)
  <2>1. \A n \in Nat : IsFiniteSet(1 .. n) /\ Cardinality(1 .. n) = n BY FS_Interval
  <2> QED BY <2>1, ProposalFacts
<1>3. f \in Injection(1 .. Len(p), Nodes(p))
  <2> HIDE DEF f
  <2> QED BY <1>1, <1>2, FS_SurjSameCardinalityImpliesInj DEF UniqueTasks
<1>4. f[i] = f[j] /\ i \in 1 .. Len(p) /\ j \in 1 .. Len(p)
  BY ProposalFacts
<1> HIDE DEF f
<1> QED BY <1>3, <1>4 DEF Injection, IsInjective

(* In a proposal without repetitions a task waits for its own dependencies. *)
LEMMA UniqueDependencies ==
  ASSUME NEW p \in Seq(Task), UniqueTasks(p), NEW i \in DOMAIN p
  PROVE  Dependencies(p, p[i].id) = p[i].deps
<1>1. {j \in DOMAIN p : p[j].id = p[i].id} = {i}
  BY UniqueIds
<1>2. Max({i}) = i
  BY ProposalFacts DEF Max
<1> QED BY <1>1, <1>2 DEF Dependencies

(* If the ids are unique, the degree of a task counts what it depends on    *)
(* and is not there yet.                                                   *)
LEMMA DegreeCountsMissing ==
  ASSUME NEW p \in Seq(Task), UniqueTasks(p), NEW id \in Nodes(p), NEW tasks
  PROVE  /\ IsFiniteSet(Dependencies(p, id))
         /\ InDegree(p, tasks, id) \in Nat
         /\ InDegree(p, tasks, id) = 0 <=> Dependencies(p, id) \subseteq tasks
<1>1. PICK i \in DOMAIN p : p[i].id = id
  BY ProposalFacts
<1> DEFINE deps == p[i].deps
           present == deps \cap tasks
<1>2. Dependencies(p, id) = deps /\ IsFiniteSet(deps)
  BY <1>1, UniqueDependencies, ProposalFacts
<1>3. {e \in (DOMAIN p) \X tasks : p[e[1]].id = id /\ e[2] \in p[e[1]].deps} = {i} \X present
  <2>1. \A j \in DOMAIN p : p[j].id = id <=> j = i
    BY <1>1, UniqueIds
  <2> QED BY <2>1
<1>4. IsFiniteSet({i}) /\ Cardinality({i}) = 1
  BY FS_Singleton
<1>5. IsFiniteSet(present) /\ Cardinality(deps) \in Nat /\ Cardinality(present) \in Nat
  BY <1>2, FS_Intersection, FS_CardinalityType
<1>6. Cardinality({i} \X present) = Cardinality(present)
  <2> HIDE DEF present, deps
  <2>1. Cardinality({i} \X present) = Cardinality({i}) * Cardinality(present) BY <1>4, <1>5, FS_Product
  <2> QED BY <2>1, <1>4, <1>5
<1>7. InDegree(p, tasks, id) = Cardinality(deps) - Cardinality(present)
  BY <1>2, <1>3, <1>6 DEF InDegree, EdgesFrom
<1>8. present \in SUBSET deps /\ (present = deps <=> deps \subseteq tasks)
  OBVIOUS
<1>9. Cardinality(present) <= Cardinality(deps) /\ (Cardinality(deps) = Cardinality(present) => deps = present)
  BY <1>2, <1>8, FS_Subset
<1> HIDE DEF present, deps
<1>10. Cardinality(deps) - Cardinality(present) = 0 <=> present = deps
  BY <1>5, <1>9
<1> QED BY <1>2, <1>5, <1>7, <1>8, <1>9, <1>10

Closed(p) == \A id \in Nodes(p) : Dependencies(p, id) \subseteq Nodes(p)

(* Kahn's algorithm: a graph of unique tasks is sorted as a whole exactly   *)
(* if it has no cycle.                                                     *)
LEMMA SortedIffAcyclic ==
  ASSUME NEW p \in Seq(Task), UniqueTasks(p), Closed(p)
  PROVE  Sorted(p) = Nodes(p) <=> Acyclic(p)
<1> DEFINE N == Len(p)
<1>1. N \in Nat
  BY ProposalFacts
<1>2. PICK f \in [0 .. N -> SUBSET Nodes(p)] :
         /\ f[0] = {} /\ \A n \in 1 .. N : f[n] = FollowUps(p, f[n - 1])
         /\ Sorted(p) = f[N]
  BY <1>1, SortedByRounds
<1>3. ASSUME NEW tasks PROVE FollowUps(p, tasks) = {id \in Nodes(p) : Dependencies(p, id) \subseteq tasks}
  BY DegreeCountsMissing DEF FollowUps
<1>4. \A n \in 1 .. N : f[n] = {id \in Nodes(p) : Dependencies(p, id) \subseteq f[n - 1]}
  BY <1>2, <1>3
<1>5. ASSUME Sorted(p) = Nodes(p), NEW s \in SUBSET Nodes(p), s # {}
      PROVE  \E id \in s : Dependencies(p, id) \cap s = {}
  <2> SUFFICES ASSUME \A id \in s : Dependencies(p, id) \cap s # {} PROVE FALSE
    OBVIOUS
  <2> DEFINE S == {n \in Nat : n <= N => f[n] \cap s = {}}
  <2>1. 0 \in S BY <1>2
  <2>2. ASSUME NEW n \in Nat, n \in S PROVE n + 1 \in S
    <3> SUFFICES ASSUME n + 1 <= N PROVE f[n + 1] \cap s = {}
      OBVIOUS
    <3>1. f[n] \cap s = {} BY <1>1, <2>2
    <3>2. n + 1 \in 1 .. N /\ (n + 1) - 1 = n BY <1>1
    <3>3. f[n + 1] = {id \in Nodes(p) : Dependencies(p, id) \subseteq f[n]} BY <1>4, <3>2
    <3> QED BY <3>1, <3>3
  <2>3. Nat \subseteq S
    <3> HIDE DEF S
    <3> QED BY <2>1, <2>2, SetInduction
  <2>4. f[N] \cap s = {} BY <1>1, <2>3
  <2> QED BY <2>4, <1>2, <1>5
<1>6. ASSUME Acyclic(p) PROVE Sorted(p) = Nodes(p)
  <2> DEFINE S == {n \in Nat : n <= N => /\ Cardinality(f[n]) >= n \/ f[n] = Nodes(p)
                                      /\ (n # 0 => f[n - 1] \subseteq f[n])}
  <2>0. IsFiniteSet(Nodes(p)) /\ Cardinality(Nodes(p)) = N
    <3>1. [k \in 1 .. N |-> p[k].id] \in Surjection(1 .. N, Nodes(p))
      BY ProposalFacts DEF Surjection, Nodes
    <3>2. IsFiniteSet(1 .. N) BY <1>1, FS_Interval
    <3> QED BY <3>1, <3>2, FS_Surjection DEF UniqueTasks
  <2>1. 0 \in S
    <3>1. Cardinality(f[0]) = 0 BY <1>2, FS_EmptySet
    <3> QED BY <3>1
  <2>2. ASSUME NEW n \in Nat, n \in S PROVE n + 1 \in S
    <3> SUFFICES ASSUME n + 1 <= N
                 PROVE  /\ Cardinality(f[n + 1]) >= n + 1 \/ f[n + 1] = Nodes(p)
                        /\ f[n] \subseteq f[n + 1]
      OBVIOUS
    <3>1. n + 1 \in 1 .. N /\ (n + 1) - 1 = n /\ n \in 0 .. N /\ n + 1 \in 0 .. N BY <1>1
    <3>2. f[n + 1] = {id \in Nodes(p) : Dependencies(p, id) \subseteq f[n]} BY <1>4, <3>1
    <3>3. f[n] \subseteq f[n + 1]
      <4>1. CASE n = 0 BY <4>1, <1>2
      <4>2. CASE n # 0
        <5>1. n \in 1 .. N BY <4>2, <3>1
        <5>2. f[n - 1] \subseteq f[n] BY <2>2, <4>2, <3>1
        <5>3. f[n] = {id \in Nodes(p) : Dependencies(p, id) \subseteq f[n - 1]} BY <1>4, <5>1
        <5> QED BY <3>2, <5>2, <5>3
      <4> QED BY <4>1, <4>2
    <3>4. f[n] \in SUBSET Nodes(p) /\ f[n + 1] \in SUBSET Nodes(p) BY <3>1, <1>2
    <3>5. CASE f[n] = Nodes(p)
      <4>1. f[n + 1] = Nodes(p) BY <3>2, <3>5 DEF Closed
      <4> QED BY <4>1, <3>3
    <3>6. CASE f[n] # Nodes(p)
      <4>1. Cardinality(f[n]) >= n BY <2>2, <3>6, <3>1
      <4>2. PICK id \in Nodes(p) \ f[n] : Dependencies(p, id) \cap (Nodes(p) \ f[n]) = {}
        BY <1>6, <3>4, <3>6 DEF Acyclic
      <4>3. Dependencies(p, id) \subseteq f[n] BY <4>2 DEF Closed
      <4>4. f[n] \cup {id} \in SUBSET f[n + 1] BY <3>2, <3>3, <4>2, <4>3
      <4>5. IsFiniteSet(f[n]) /\ IsFiniteSet(f[n + 1])
        BY <2>0, <3>4, FS_Subset
      <4>6. Cardinality(f[n] \cup {id}) = Cardinality(f[n]) + 1
        BY <4>2, <4>5, FS_AddElement
      <4>7. Cardinality(f[n] \cup {id}) <= Cardinality(f[n + 1])
        BY <4>4, <4>5, FS_Subset
      <4>8. Cardinality(f[n]) \in Nat /\ Cardinality(f[n + 1]) \in Nat
        BY <4>5, FS_CardinalityType
      <4>9. Cardinality(f[n + 1]) >= n + 1
        BY <4>1, <4>6, <4>7, <4>8
      <4> QED BY <4>9, <3>3
    <3> QED BY <3>5, <3>6
  <2>3. Nat \subseteq S
    <3> HIDE DEF S
    <3> QED BY <2>1, <2>2, SetInduction
  <2>4. Cardinality(f[N]) >= N \/ f[N] = Nodes(p)
    <3>1. N \in S BY <1>1, <2>3
    <3> QED BY <1>1, <3>1
  <2>5. f[N] \in SUBSET Nodes(p) BY <1>1, <1>2
  <2>6. f[N] = Nodes(p)
    <3>1. Cardinality(f[N]) <= Cardinality(Nodes(p)) /\ (Cardinality(f[N]) = Cardinality(Nodes(p)) => f[N] = Nodes(p)) /\ IsFiniteSet(f[N])
      BY <2>0, <2>5, FS_Subset
    <3>2. Cardinality(f[N]) \in Nat BY <3>1, FS_CardinalityType
    <3> QED BY <1>1, <2>0, <2>4, <3>1, <3>2
  <2> QED BY <1>2, <2>6
<1> QED BY <1>5, <1>6 DEF Acyclic
-----------------------------------------------------------------------------
(* The inductive invariant of the plans: of the graph, and of the row.     *)
Wave(p) == SUBSET [id : Nodes(p), ok : BOOLEAN]

Tried(waves) == {t.id : t \in UNION {waves[i] : i \in DOMAIN waves}}

TriedBefore(waves, j) == {u.id : u \in UNION {waves[i] : i \in 1 .. j - 1}}

GraphFits ==
  \/ plan.stage \in {"none", "stored"}
  \/ /\ plan = [stage |-> plan.stage, proposal |-> plan.proposal, waves |-> plan.waves]
     /\ plan.stage \in {"accepted", "refused", "running", "executed", "deadlocked"}
     /\ plan.proposal \in Seq(Task)
     /\ plan.waves \in Seq(Wave(plan.proposal))
     /\ plan.stage = "refused" <=> ~ValidGraph(plan.proposal)
     /\ UniqueTasks(plan.proposal) =>
          /\ plan.stage # "deadlocked"
          /\ \A j \in DOMAIN plan.waves : \A t \in plan.waves[j] :
               Dependencies(plan.proposal, t.id) \subseteq TriedBefore(plan.waves, j)

ReviewVerdicts == {"approved", "rejected"}

FitsReview(x) ==
  \/ x = NotReviewing
  \/ /\ x = [pc |-> x.pc, verdict |-> x.verdict, comment |-> x.comment, seen |-> x.seen]
     /\ x.pc \in {"checked", "flushed"} /\ x.verdict \in ReviewVerdicts

Named(status, approved, rejected) == IF status = "approved" THEN approved ELSE rejected

RowFits ==
  /\ plan_row = [status |-> plan_row.status, approved_by |-> plan_row.approved_by,
                 rejected_by |-> plan_row.rejected_by, comments |-> plan_row.comments]
  /\ plan_row.status \in {"draft"} \cup ReviewVerdicts
  /\ plan_row.status = "draft" => plan_row = Drafted
  /\ plan_row.status # "draft" => Named(plan_row.status, plan_row.approved_by, plan_row.rejected_by) # {}

ReviewsFit ==
  /\ review = [r \in PlanReviewers |-> review[r]]
  /\ \A r \in PlanReviewers : FitsReview(review[r])
  /\ reviews_overlap \in BOOLEAN

(* Unless two reviews overlapped, a review has found a draft and still      *)
(* does, and a row that is none names who has made it that.                *)
ReviewsAlone ==
  reviews_overlap = FALSE =>
    /\ \A r \in PlanReviewers : review[r] # NotReviewing =>
         /\ plan_row = Drafted /\ review[r].seen = {} /\ review[r].comment \subseteq {r}
         /\ \A o \in PlanReviewers \ {r} : review[o] = NotReviewing
    /\ plan_row.status # "draft" =>
         \E r \in PlanReviewers :
           /\ Named(plan_row.status, plan_row.approved_by, plan_row.rejected_by) = {r}
           /\ plan_row.approved_by \cup plan_row.rejected_by = {r}
           /\ plan_row.comments \subseteq {r}

PlansIInv == GraphFits /\ RowFits /\ ReviewsFit /\ ReviewsAlone

(* Nothing is planned or reviewed at first. *)
LEMMA PlansInitIInv ==
  ASSUME PlansInit
  PROVE  PlansIInv
<1>1. GraphFits
  BY DEF PlansInit, GraphFits
<1>2. RowFits /\ ReviewsFit /\ ReviewsAlone
  BY DEF PlansInit, RowFits, ReviewsFit, ReviewsAlone, FitsReview, NotReviewing, Drafted, ReviewVerdicts
<1> QED BY <1>1, <1>2 DEF PlansIInv

(* Nothing is a sequence of whatever. *)
LEMMA NothingIsASequence ==
  ASSUME NEW W
  PROVE  << >> \in Seq(W) /\ DOMAIN << >> = {}
OBVIOUS

(* A plan that is made has no waves yet, and is sorted only if it can be. *)
LEMMA DecomposeFits ==
  ASSUME PlansAssumption, PlansIInv, Decompose
  PROVE  GraphFits'
<1>1. PICK p \in Proposals :
        plan' = [stage |-> IF ValidGraph(p) THEN "accepted" ELSE "refused", proposal |-> p, waves |-> << >>]
  BY DEF Decompose
<1>2. p \in Seq(Task)
  BY DEF PlansAssumption, Task
<1>3. << >> \in Seq(Wave(p)) /\ DOMAIN << >> = {}
  BY NothingIsASequence
<1>4. plan'.proposal = p /\ plan'.waves = << >> /\ plan'.stage = (IF ValidGraph(p) THEN "accepted" ELSE "refused")
  BY <1>1
<1>5. plan' = [stage |-> plan'.stage, proposal |-> plan'.proposal, waves |-> plan'.waves]
  BY <1>1
<1>6. \A j \in DOMAIN plan'.waves : FALSE
  BY <1>3, <1>4
<1>7. plan'.stage \in {"accepted", "refused"} /\ (plan'.stage = "refused" <=> ~ValidGraph(p))
  BY <1>4
<1> QED BY <1>2, <1>3, <1>4, <1>5, <1>6, <1>7 DEF GraphFits

(* What was tried before the next wave is what was tried. *)
LEMMA TriedUpTo ==
  ASSUME NEW W, NEW waves \in Seq(W)
  PROVE  TriedBefore(waves, Len(waves) + 1) = Tried(waves)
<1>1. DOMAIN waves = 1 .. Len(waves) /\ Len(waves) \in Nat /\ (Len(waves) + 1) - 1 = Len(waves)
  OBVIOUS
<1> QED BY <1>1 DEF TriedBefore, Tried

(* Another wave changes nothing of what was tried before the earlier ones. *)
LEMMA TriedKept ==
  ASSUME NEW W, NEW waves \in Seq(W), NEW wave, NEW j \in DOMAIN waves
  PROVE  TriedBefore(Append(waves, wave), j) = TriedBefore(waves, j)
<1>1. \A i \in 1 .. j - 1 : Append(waves, wave)[i] = waves[i]
  OBVIOUS
<1> QED BY <1>1 DEF TriedBefore

(* A wave tries what waits for nothing, once. *)
LEMMA ExecuteWaveFits ==
  ASSUME PlansIInv, ExecuteWave
  PROVE  GraphFits'
<1> DEFINE p == plan.proposal
           waves == plan.waves
<1>1. PICK failing \in SUBSET Ready :
        plan' = [plan EXCEPT !.stage = IF Completed \cup Ready = Nodes(p) THEN "executed" ELSE "running",
                             !.waves = Append(@, {[id |-> id, ok |-> id \notin failing] : id \in Ready})]
  BY DEF ExecuteWave
<1> DEFINE wave == {[id |-> id, ok |-> id \notin failing] : id \in Ready}
           st == IF Completed \cup Ready = Nodes(p) THEN "executed" ELSE "running"
<1>2. /\ plan = [stage |-> plan.stage, proposal |-> p, waves |-> waves]
      /\ plan.stage \in {"accepted", "running"} /\ ValidGraph(p)
      /\ p \in Seq(Task) /\ waves \in Seq(Wave(p))
  BY DEF PlansIInv, GraphFits, ExecuteWave
<1>3. plan' = [stage |-> st, proposal |-> p, waves |-> Append(waves, wave)]
  <2> HIDE DEF st, wave
  <2> QED BY <1>1, <1>2 DEF st, wave
<1>4. wave \in Wave(p)
  <2>1. ASSUME NEW id \in Ready PROVE [id |-> id, ok |-> id \notin failing] \in [id : Nodes(p), ok : BOOLEAN]
    <3>1. id \in Nodes(p) BY DEF Ready
    <3>2. (id \notin failing) \in BOOLEAN OBVIOUS
    <3> QED BY <3>1, <3>2
  <2> QED BY <2>1 DEF Wave
<1>5. Append(waves, wave) \in Seq(Wave(p))
  <2> HIDE DEF wave, waves, p
  <2> QED BY <1>2, <1>4
<1>6. st \in {"executed", "running"}
  OBVIOUS
<1>7. ASSUME UniqueTasks(p), NEW j \in DOMAIN Append(waves, wave), NEW t \in Append(waves, wave)[j]
      PROVE  Dependencies(p, t.id) \subseteq TriedBefore(Append(waves, wave), j)
  <2>1. CASE j = Len(waves) + 1
    <3>1. t \in wave
      <4> HIDE DEF wave, waves, p
      <4> QED BY <1>2, <1>7, <2>1
    <3>2. t.id \in Ready
      BY <3>1
    <3>3. t.id \in Nodes(p) /\ InDegree(p, Completed, t.id) = 0
      BY <3>2 DEF Ready
    <3>4. Dependencies(p, t.id) \subseteq Completed
      <4> HIDE DEF p
      <4> QED BY <1>2, <1>7, <3>3, DegreeCountsMissing
    <3>5. Completed = Tried(waves)
      BY DEF Completed, Tried
    <3>6. TriedBefore(waves, j) = Tried(waves)
      <4> HIDE DEF waves, p
      <4> QED BY <1>2, <2>1, TriedUpTo
    <3>7. TriedBefore(Append(waves, wave), j) = TriedBefore(waves, j)
      <4>1. \A i \in 1 .. j - 1 : Append(waves, wave)[i] = waves[i]
        <5> HIDE DEF waves, p, wave
        <5> QED BY <1>2, <2>1
      <4> QED BY <4>1 DEF TriedBefore
    <3> QED BY <3>4, <3>5, <3>6, <3>7
  <2>2. CASE j # Len(waves) + 1
    <3>1. j \in DOMAIN waves /\ t \in waves[j]
      <4> HIDE DEF wave, waves, p
      <4> QED BY <1>2, <1>7, <2>2
    <3>2. Dependencies(p, t.id) \subseteq TriedBefore(waves, j)
      BY <1>2, <1>7, <3>1 DEF PlansIInv, GraphFits
    <3>3. TriedBefore(Append(waves, wave), j) = TriedBefore(waves, j)
      <4> HIDE DEF waves, p, wave
      <4> QED BY <1>2, <3>1, TriedKept
    <3> QED BY <3>2, <3>3
  <2> QED BY <2>1, <2>2
<1> HIDE DEF st, wave
<1>8. plan'.stage = st /\ plan'.proposal = p /\ plan'.waves = Append(waves, wave)
  BY <1>3
<1>9. plan' = [stage |-> plan'.stage, proposal |-> plan'.proposal, waves |-> plan'.waves]
  BY <1>3
<1> HIDE DEF p, waves
<1>10. plan'.stage # "refused" /\ plan'.stage # "deadlocked" /\ plan'.stage \in {"accepted", "refused", "running", "executed", "deadlocked"}
  BY <1>6, <1>8
<1> QED BY <1>2, <1>5, <1>7, <1>8, <1>9, <1>10 DEF GraphFits

(* An acyclic plan whose tasks are distinct never stops in the middle. *)
LEMMA NoExecutionDeadlock ==
  ASSUME PlansIInv, ExecutionDeadlock
  PROVE  ~UniqueTasks(plan.proposal)
<1> DEFINE p == plan.proposal
<1> SUFFICES ASSUME UniqueTasks(p) PROVE FALSE
  OBVIOUS
<1>1. p \in Seq(Task) /\ ValidGraph(p)
  BY DEF PlansIInv, GraphFits, ExecutionDeadlock
<1>2. Closed(p) /\ Acyclic(p)
  <2>1. Closed(p) /\ Sorted(p) = Nodes(p) BY <1>1 DEF ValidGraph, Closed
  <2> HIDE DEF p
  <2> QED BY <1>1, <2>1, SortedIffAcyclic
<1> DEFINE left == Nodes(p) \ Completed
<1>3. Completed \subseteq Nodes(p)
  <2>1. /\ plan.waves \in Seq(Wave(p)) BY DEF PlansIInv, GraphFits, ExecutionDeadlock
  <2>2. \A i \in DOMAIN plan.waves : plan.waves[i] \in Wave(p) BY <2>1
  <2> QED BY <2>2 DEF Completed, Wave
<1>4. left # {} /\ left \in SUBSET Nodes(p)
  BY <1>3 DEF ExecutionDeadlock
<1>5. PICK id \in left : Dependencies(p, id) \cap left = {}
  <2> HIDE DEF left, p
  <2> QED BY <1>2, <1>4 DEF Acyclic
<1>6. Dependencies(p, id) \subseteq Completed
  BY <1>2, <1>5 DEF Closed
<1>7. InDegree(p, Completed, id) = 0
  <2>1. id \in Nodes(p) BY <1>5
  <2> HIDE DEF left, p
  <2> QED BY <1>1, <1>6, <2>1, DegreeCountsMissing
<1>8. id \in Ready
  BY <1>5, <1>7 DEF Ready
<1> QED BY <1>8 DEF ExecutionDeadlock

(* An execution that stops in the middle is over. *)
LEMMA ExecutionDeadlockFits ==
  ASSUME PlansIInv, ExecutionDeadlock
  PROVE  GraphFits'
<1>1. /\ plan = [stage |-> plan.stage, proposal |-> plan.proposal, waves |-> plan.waves]
      /\ plan.stage # "refused" /\ ValidGraph(plan.proposal)
      /\ plan.proposal \in Seq(Task) /\ plan.waves \in Seq(Wave(plan.proposal))
  BY DEF PlansIInv, GraphFits, ExecutionDeadlock
<1>2. plan' = [stage |-> "deadlocked", proposal |-> plan.proposal, waves |-> plan.waves]
  BY <1>1 DEF ExecutionDeadlock
<1>3. ~UniqueTasks(plan.proposal)
  BY NoExecutionDeadlock
<1> QED BY <1>1, <1>2, <1>3 DEF GraphFits
-----------------------------------------------------------------------------
(* The reviews of the stored plan.                                         *)
LEMMA CheckPlanFits ==
  ASSUME PlansIInv, NEW r \in PlanReviewers, CheckPlan(r)
  PROVE  RowFits' /\ ReviewsFit' /\ ReviewsAlone'
<1>1. PICK verdict \in ReviewVerdicts, comment \in SUBSET {r} :
        review' = [review EXCEPT ![r] =
          [pc |-> "checked", verdict |-> verdict, comment |-> comment, seen |-> plan_row.comments]]
  BY DEF CheckPlan, ReviewVerdicts
<1> DEFINE x == [pc |-> "checked", verdict |-> verdict, comment |-> comment, seen |-> plan_row.comments]
<1>2. /\ RowFits /\ plan_row' = plan_row /\ plan_row = Drafted
      /\ review = [o \in PlanReviewers |-> review[o]] /\ \A o \in PlanReviewers : FitsReview(review[o])
  BY DEF PlansIInv, RowFits, ReviewsFit, CheckPlan
<1>3. FitsReview(x) /\ x.comment \subseteq {r} /\ x.seen = plan_row.comments /\ x # NotReviewing
  BY <1>1 DEF FitsReview, NotReviewing
<1> HIDE DEF x
<1>4. /\ review'[r] = x /\ \A o \in PlanReviewers \ {r} : review'[o] = review[o]
      /\ review' = [o \in PlanReviewers |-> review'[o]]
  BY <1>1, <1>2 DEF x
<1>5. reviews_overlap' \in BOOLEAN
  BY DEF CheckPlan, PlansIInv, ReviewsFit
<1>6. ReviewsFit'
  BY <1>2, <1>3, <1>4, <1>5 DEF ReviewsFit
<1>7. RowFits'
  BY <1>2 DEF RowFits
<1>8. reviews_overlap' = FALSE => \A o \in PlanReviewers : review[o] = NotReviewing
  BY DEF CheckPlan
<1>9. x.seen = {} /\ plan_row.status = "draft"
  BY <1>2, <1>3 DEF Drafted
<1>10. ReviewsAlone'
  BY <1>2, <1>3, <1>4, <1>8, <1>9 DEF ReviewsAlone
<1> QED BY <1>6, <1>7, <1>10

(* A review that is flushed holds the row. *)
LEMMA FlushReviewFits ==
  ASSUME PlansIInv, NEW r \in PlanReviewers, FlushReview(r)
  PROVE  RowFits' /\ ReviewsFit' /\ ReviewsAlone'
<1> DEFINE y == review[r]
           x == [pc |-> "flushed", verdict |-> y.verdict, comment |-> y.comment, seen |-> y.seen]
<1>1. /\ y = [pc |-> "checked", verdict |-> y.verdict, comment |-> y.comment, seen |-> y.seen]
      /\ y.verdict \in ReviewVerdicts
  BY DEF FlushReview, PlansIInv, ReviewsFit, FitsReview, NotReviewing
<1>2. /\ RowFits /\ plan_row' = plan_row /\ reviews_overlap' = reviews_overlap
      /\ review = [o \in PlanReviewers |-> review[o]] /\ \A o \in PlanReviewers : FitsReview(review[o])
      /\ reviews_overlap \in BOOLEAN
  BY DEF PlansIInv, ReviewsFit, FlushReview
<1>3. review'[r] = [y EXCEPT !.pc = "flushed"] /\ \A o \in PlanReviewers \ {r} : review'[o] = review[o]
  BY <1>2 DEF FlushReview
<1>4. review'[r] = x
  <2> HIDE DEF y
  <2> QED BY <1>1, <1>3
<1>5. review' = [o \in PlanReviewers |-> review'[o]]
  BY <1>2 DEF FlushReview
<1>6. FitsReview(x) /\ x.seen = y.seen /\ x.comment = y.comment /\ x # NotReviewing /\ y # NotReviewing
  <2>1. y.pc = "checked" BY DEF FlushReview
  <2> HIDE DEF y
  <2> QED BY <1>1, <2>1 DEF FitsReview, NotReviewing
<1> HIDE DEF x
<1>7. ReviewsFit'
  BY <1>2, <1>4, <1>3, <1>5, <1>6 DEF ReviewsFit
<1>8. RowFits'
  BY <1>2 DEF RowFits
<1>9. ReviewsAlone'
  BY <1>2, <1>3, <1>4, <1>6 DEF ReviewsAlone, PlansIInv
<1> QED BY <1>7, <1>8, <1>9

(* A review that commits was allowed by the status it has seen, or         *)
(* overlapped.                                                             *)
LEMMA CommitReviewFits ==
  ASSUME PlansIInv, NEW r \in PlanReviewers, CommitReview(r)
  PROVE  RowFits' /\ ReviewsFit' /\ ReviewsAlone'
<1> DEFINE y == review[r]
<1>1. /\ y = [pc |-> y.pc, verdict |-> y.verdict, comment |-> y.comment, seen |-> y.seen]
      /\ y.verdict \in ReviewVerdicts /\ y # NotReviewing
  BY DEF CommitReview, PlansIInv, ReviewsFit, FitsReview, NotReviewing
<1> DEFINE yes == IF y.verdict = "approved" THEN {r} ELSE plan_row.approved_by
           no == IF y.verdict = "rejected" THEN {r} ELSE plan_row.rejected_by
           said == IF y.comment # {} THEN y.seen \cup y.comment ELSE plan_row.comments
<1>2. plan_row' = [status |-> y.verdict, approved_by |-> yes, rejected_by |-> no, comments |-> said]
  BY DEF CommitReview, Reviewed, PlansIInv, RowFits
<1>3. /\ review = [o \in PlanReviewers |-> review[o]] /\ \A o \in PlanReviewers : FitsReview(review[o])
      /\ reviews_overlap \in BOOLEAN /\ reviews_overlap' = reviews_overlap
      /\ review' = [review EXCEPT ![r] = NotReviewing]
  BY DEF PlansIInv, ReviewsFit, CommitReview
<1>4. Named(y.verdict, yes, no) = {r}
  BY <1>1 DEF Named, ReviewVerdicts
<1>5. /\ review'[r] = NotReviewing /\ \A o \in PlanReviewers \ {r} : review'[o] = review[o]
      /\ review' = [o \in PlanReviewers |-> review'[o]]
  BY <1>3
<1>6. ASSUME reviews_overlap = FALSE
      PROVE  /\ \A o \in PlanReviewers : review'[o] = NotReviewing
             /\ yes \cup no = {r} /\ said \subseteq {r}
  <2>1. /\ plan_row = Drafted /\ y.seen = {} /\ y.comment \subseteq {r}
        /\ \A o \in PlanReviewers \ {r} : review[o] = NotReviewing
    BY <1>1, <1>6 DEF PlansIInv, ReviewsAlone
  <2>2. plan_row.approved_by = {} /\ plan_row.rejected_by = {} /\ plan_row.comments = {}
    BY <2>1 DEF Drafted
  <2> QED BY <1>1, <1>5, <2>1, <2>2 DEF ReviewVerdicts
<1> HIDE DEF yes, no, said, y
<1>7. /\ plan_row'.status = y.verdict /\ plan_row'.approved_by = yes /\ plan_row'.rejected_by = no
      /\ plan_row'.comments = said
      /\ plan_row' = [status |-> plan_row'.status, approved_by |-> plan_row'.approved_by,
                      rejected_by |-> plan_row'.rejected_by, comments |-> plan_row'.comments]
  BY <1>2
<1>8. y.verdict # "draft"
  BY <1>1 DEF ReviewVerdicts
<1>9. RowFits'
  BY <1>1, <1>4, <1>7, <1>8 DEF RowFits
<1>10. ReviewsFit'
  BY <1>3, <1>5 DEF ReviewsFit, FitsReview
<1>11. ReviewsAlone'
  BY <1>3, <1>4, <1>6, <1>7 DEF ReviewsAlone
<1> QED BY <1>9, <1>10, <1>11

(* A review that fails leaves the row alone. *)
LEMMA AbortReviewFits ==
  ASSUME PlansIInv, NEW r \in PlanReviewers, AbortReview(r)
  PROVE  RowFits' /\ ReviewsFit' /\ ReviewsAlone'
<1>1. /\ RowFits /\ plan_row' = plan_row /\ reviews_overlap' = reviews_overlap
      /\ review = [o \in PlanReviewers |-> review[o]] /\ \A o \in PlanReviewers : FitsReview(review[o])
      /\ reviews_overlap \in BOOLEAN /\ review' = [review EXCEPT ![r] = NotReviewing]
  BY DEF PlansIInv, ReviewsFit, AbortReview
<1>2. /\ review'[r] = NotReviewing /\ \A o \in PlanReviewers \ {r} : review'[o] = review[o]
      /\ review' = [o \in PlanReviewers |-> review'[o]]
  BY <1>1
<1>3. ReviewsFit'
  BY <1>1, <1>2 DEF ReviewsFit, FitsReview
<1>4. RowFits'
  BY <1>1 DEF RowFits
<1>5. ReviewsAlone'
  BY <1>1, <1>2 DEF ReviewsAlone, PlansIInv
<1> QED BY <1>3, <1>4, <1>5

(* Every step of a plan and its reviews preserves the invariant. *)
LEMMA PlansNextIInv ==
  ASSUME PlansAssumption, PlansIInv, [PlansNext]_planVars
  PROVE  PlansIInv'
<1> DEFINE Rest == UNCHANGED <<plan_row, review, reviews_overlap>>
<1>1. ASSUME Rest PROVE RowFits' /\ ReviewsFit' /\ ReviewsAlone'
  BY <1>1 DEF PlansIInv, RowFits, ReviewsFit, ReviewsAlone
<1>2. ASSUME UNCHANGED plan PROVE GraphFits'
  BY <1>2 DEF PlansIInv, GraphFits
<1>3. CASE Decompose
  BY <1>3, <1>1, DecomposeFits DEF Decompose, PlansIInv
<1>4. CASE ExecuteWave
  BY <1>4, <1>1, ExecuteWaveFits DEF ExecuteWave, PlansIInv
<1>5. CASE ExecutionDeadlock
  BY <1>5, <1>1, ExecutionDeadlockFits DEF ExecutionDeadlock, PlansIInv
<1>6. CASE StorePlan
  <2>1. plan'.stage = "stored" BY <1>6 DEF StorePlan
  <2>2. GraphFits' BY <2>1 DEF GraphFits
  <2> QED BY <1>6, <1>1, <2>2 DEF StorePlan, PlansIInv
<1>7. ASSUME NEW r \in PlanReviewers, CheckPlan(r) PROVE PlansIInv'
  BY <1>7, <1>2, CheckPlanFits DEF CheckPlan, PlansIInv
<1>8. ASSUME NEW r \in PlanReviewers, FlushReview(r) PROVE PlansIInv'
  BY <1>8, <1>2, FlushReviewFits DEF FlushReview, PlansIInv
<1>9. ASSUME NEW r \in PlanReviewers, CommitReview(r) PROVE PlansIInv'
  BY <1>9, <1>2, CommitReviewFits DEF CommitReview, PlansIInv
<1>10. ASSUME NEW r \in PlanReviewers, AbortReview(r) PROVE PlansIInv'
  BY <1>10, <1>2, AbortReviewFits DEF AbortReview, PlansIInv
<1>11. CASE UNCHANGED planVars
  BY <1>11, <1>1, <1>2 DEF planVars, PlansIInv
<1> QED BY <1>3, <1>4, <1>5, <1>6, <1>7, <1>8, <1>9, <1>10, <1>11 DEF PlansNext

(* The invariant implies what plans promise. *)
LEMMA PlansIInvSound ==
  ASSUME PlansIInv
  PROVE  PlansAreSound
<1>1. GraphsRunInOrder
  <2> DEFINE p == plan.proposal
  <2> SUFFICES ASSUME plan.stage \notin {"none", "stored"}, UniqueTasks(p)
               PROVE  /\ plan.stage = "refused" <=> ~(Acyclic(p) /\ Closed(p))
                      /\ plan.stage # "deadlocked"
                      /\ \A j \in DOMAIN plan.waves : \A t \in plan.waves[j] :
                           Dependencies(p, t.id) \subseteq TriedBefore(plan.waves, j)
    BY DEF GraphsRunInOrder, Closed, TriedBefore
  <2>1. /\ p \in Seq(Task) /\ (plan.stage = "refused" <=> ~ValidGraph(p))
        /\ plan.stage # "deadlocked"
        /\ \A j \in DOMAIN plan.waves : \A t \in plan.waves[j] :
             Dependencies(p, t.id) \subseteq TriedBefore(plan.waves, j)
    BY DEF PlansIInv, GraphFits
  <2>2. ValidGraph(p) <=> Closed(p) /\ Sorted(p) = Nodes(p)
    BY DEF ValidGraph, Closed
  <2>3. Closed(p) => (Sorted(p) = Nodes(p) <=> Acyclic(p))
    <3> HIDE DEF p
    <3> QED BY <2>1, SortedIffAcyclic
  <2> QED BY <2>1, <2>2, <2>3
<1>2. ReviewsAreRecorded
  <2> DEFINE by == [approved |-> plan_row.approved_by, rejected |-> plan_row.rejected_by]
  <2> SUFFICES ASSUME plan_row.status # "draft"
               PROVE  /\ by[plan_row.status] # {}
                      /\ ~reviews_overlap => /\ Cardinality(plan_row.approved_by \cup plan_row.rejected_by) = 1
                                             /\ plan_row.comments \subseteq by[plan_row.status]
    BY DEF ReviewsAreRecorded
  <2>1. plan_row.status \in ReviewVerdicts
    BY DEF PlansIInv, RowFits
  <2>2. by[plan_row.status] = Named(plan_row.status, plan_row.approved_by, plan_row.rejected_by)
    BY <2>1 DEF Named, ReviewVerdicts
  <2>3. by[plan_row.status] # {}
    BY <2>2 DEF PlansIInv, RowFits
  <2>4. ASSUME ~reviews_overlap
        PROVE  /\ Cardinality(plan_row.approved_by \cup plan_row.rejected_by) = 1
               /\ plan_row.comments \subseteq by[plan_row.status]
    <3>1. PICK r \in PlanReviewers :
            /\ Named(plan_row.status, plan_row.approved_by, plan_row.rejected_by) = {r}
            /\ plan_row.approved_by \cup plan_row.rejected_by = {r}
            /\ plan_row.comments \subseteq {r}
      BY <2>4 DEF PlansIInv, ReviewsAlone, ReviewsFit
    <3> QED BY <2>2, <3>1, FS_Singleton
  <2> QED BY <2>3, <2>4
<1> QED BY <1>1, <1>2 DEF PlansAreSound

(* The inductive invariant holds in every reachable state. *)
LEMMA PlansInvariance == PlansSpec => []PlansIInv
<1>1. PlansInit => PlansIInv
  BY PlansInitIInv, PlansAssumption
<1>2. PlansIInv /\ [PlansNext]_planVars => PlansIInv'
  BY PlansNextIInv, PlansAssumption
<1>3. QED BY <1>1, <1>2, PTL DEF PlansSpec

-----------------------------------------------------------------------------
(* Goals of users.                                                         *)

GoalColumns == {"status", "notes", "completed"}

FitsGoal(x, n) ==
  /\ x = [status |-> x.status, notes |-> x.notes, completed |-> x.completed]
  /\ x.status \in Statuses /\ x.completed \in BOOLEAN
  /\ x.status = "completed" => x.completed = TRUE
  /\ x.notes \in Seq(1 .. n) /\ IsInjective(x.notes)

(* What a call may write to a goal that exists: its own note is among the   *)
(* notes, and a goal is completed with the time of it.                     *)
FitsChange(c, name, n) ==
  /\ DOMAIN c \subseteq GoalColumns
  /\ "notes" \in DOMAIN c => /\ c["notes"] \in Seq(1 .. n) /\ IsInjective(c["notes"])
                             /\ name \in ToSet(c["notes"])
  /\ "completed" \in DOMAIN c => c["completed"] = TRUE
  /\ "status" \in DOMAIN c => /\ c["status"] \in Statuses
                              /\ (c["status"] = "completed" => "completed" \in DOMAIN c)

FitsCall(x, existing, n) ==
  /\ DOMAIN x = {"op", "name", "seen", "flushed", "todo", "memorized"}
  /\ x.op \in {"none", "create", "progress", "complete", "abandon", "answering", "turn", "over"}
  /\ x.name \in 0 .. n
  /\ x.op = "none" => x = NoGoalSession
  /\ DOMAIN x.seen \subseteq existing /\ existing \subseteq Goals
  /\ x.todo \subseteq DOMAIN x.seen
  /\ \A g \in DOMAIN x.seen : x.name > 0 /\ FitsGoal(x.seen[g], x.name - 1)
  /\ x.op = "create" => x.todo = {} /\ \E g \in Goals \ existing : x.flushed = [h \in {g} |-> NewGoal]
  /\ x.op # "create" => /\ DOMAIN x.flushed \subseteq DOMAIN x.seen
                        /\ \A g \in DOMAIN x.flushed : FitsChange(x.flushed[g], x.name, n)
                        /\ \A g \in DOMAIN x.flushed, h \in x.todo : g < h

(* A session that may still commit has seen the safe notes, and so has      *)
(* what it writes.                                                         *)
KeepsSafe(x, safe) ==
  x.op # "over" =>
    \A n \in safe :
      /\ n[1] \in DOMAIN x.seen => n[2] \in ToSet(x.seen[n[1]].notes)
      /\ n[1] \in DOMAIN x.flushed /\ x.op # "create" /\ "notes" \in DOMAIN x.flushed[n[1]] =>
           n[2] \in ToSet(x.flushed[n[1]]["notes"])

GoalsIInv ==
  /\ goal_calls \in Nat
  /\ goals = [g \in Goals |-> goals[g]]
  /\ \A g \in Existing : FitsGoal(goals[g], goal_calls)
  /\ goal_session = [s \in GoalSessions |-> goal_session[s]]
  /\ \A s \in GoalSessions : FitsCall(goal_session[s], Existing, goal_calls)
  /\ \A s \in GoalSessions : KeepsSafe(goal_session[s], safe_notes)
  /\ \A s, t \in GoalSessions :
       s # t => DOMAIN goal_session[s].flushed \cap DOMAIN goal_session[t].flushed = {}
  /\ \A n \in safe_notes : n[1] \in Existing /\ n[2] \in ToSet(goals[n[1]].notes)
  /\ LearnedFromAnswers

(* There are no goals and no calls at first. *)
LEMMA GoalsInitIInv ==
  ASSUME GoalAssumption, GoalsInit
  PROVE  GoalsIInv
<1>1. goal_calls = 0 /\ goals = [g \in Goals |-> goals[g]]
  BY DEF GoalsInit
<1>2. FitsGoal(NewGoal, 0)
  BY DEF FitsGoal, NewGoal, Statuses, IsInjective
<1>3. \A g \in Existing : goals[g] = NewGoal
  BY DEF GoalsInit, Existing
<1>4. goal_session = [s \in GoalSessions |-> NoGoalSession]
  BY DEF GoalsInit
<1>5. FitsCall(NoGoalSession, Existing, 0) /\ KeepsSafe(NoGoalSession, {}) /\ NoGoalSession.flushed = << >>
  BY DEF FitsCall, KeepsSafe, NoGoalSession, Existing
<1>6. LearnedFromAnswers /\ safe_notes = {}
  BY DEF GoalsInit, LearnedFromAnswers
<1>7. \A s \in GoalSessions : goal_session[s] = NoGoalSession
  BY <1>4
<1>8. goal_session = [s \in GoalSessions |-> goal_session[s]]
  BY <1>4
<1>9. \A s \in GoalSessions : DOMAIN goal_session[s].flushed = {}
  BY <1>5, <1>7
<1> QED BY <1>1, <1>2, <1>3, <1>5, <1>6, <1>7, <1>8, <1>9 DEF GoalsIInv

(* A goal that fits after n calls fits after more of them. *)
LEMMA GoalFitsLater ==
  ASSUME NEW n \in Nat, NEW k \in Nat, n <= k, NEW x, FitsGoal(x, n)
  PROVE  FitsGoal(x, k)
<1>1. 1 .. n \subseteq 1 .. k
  OBVIOUS
<1>2. x.notes \in Seq(1 .. k)
  <2>1. x.notes \in Seq(1 .. n) BY DEF FitsGoal
  <2> QED BY <1>1, <2>1, SeqMonotonic
<1> QED BY <1>2 DEF FitsGoal

(* A change that fits after n calls fits after more of them. *)
LEMMA ChangeFitsLater ==
  ASSUME NEW n \in Nat, NEW k \in Nat, n <= k, NEW name, NEW c, FitsChange(c, name, n)
  PROVE  FitsChange(c, name, k)
<1>1. 1 .. n \subseteq 1 .. k
  OBVIOUS
<1>2. "notes" \in DOMAIN c => c["notes"] \in Seq(1 .. k)
  <2>1. "notes" \in DOMAIN c => c["notes"] \in Seq(1 .. n) BY DEF FitsChange
  <2> QED BY <1>1, <2>1, SeqMonotonic
<1> QED BY <1>2 DEF FitsChange

(* A call that fits after n calls fits after more of them. *)
LEMMA GoalCallFitsLater ==
  ASSUME NEW n \in Nat, NEW k \in Nat, n <= k, NEW existing, NEW x, FitsCall(x, existing, n)
  PROVE  FitsCall(x, existing, k)
<1>1. x.name \in 0 .. k
  BY DEF FitsCall
<1>2. x.op # "create" => \A g \in DOMAIN x.flushed : FitsChange(x.flushed[g], x.name, k)
  BY ChangeFitsLater DEF FitsCall
<1> QED BY <1>1, <1>2 DEF FitsCall

(* A step of one session that commits nothing. *)
LEMMA OneGoalSession ==
  ASSUME GoalsIInv, NEW s \in GoalSessions, NEW x,
         goal_calls' \in Nat, goal_calls <= goal_calls',
         goals' = goals, learned' = learned, turns_answered' = turns_answered, safe_notes' = safe_notes,
         goal_session' = [goal_session EXCEPT ![s] = x],
         FitsCall(x, Existing, goal_calls'), KeepsSafe(x, safe_notes),
         \A t \in GoalSessions \ {s} : DOMAIN x.flushed \cap DOMAIN goal_session[t].flushed = {}
  PROVE  GoalsIInv'
<1>1. /\ goal_session' = [t \in GoalSessions |-> goal_session'[t]]
      /\ goal_session'[s] = x /\ \A t \in GoalSessions \ {s} : goal_session'[t] = goal_session[t]
  BY DEF GoalsIInv
<1>2. Existing' = Existing
  BY DEF Existing
<1>3. \A g \in Existing : FitsGoal(goals[g], goal_calls')
  BY GoalFitsLater DEF GoalsIInv
<1>4. \A t \in GoalSessions : FitsCall(goal_session'[t], Existing, goal_calls')
  BY <1>1, GoalCallFitsLater DEF GoalsIInv
<1>5. \A t \in GoalSessions : KeepsSafe(goal_session'[t], safe_notes)
  BY <1>1 DEF GoalsIInv
<1>6. \A t, u \in GoalSessions :
        t # u => DOMAIN goal_session'[t].flushed \cap DOMAIN goal_session'[u].flushed = {}
  BY <1>1 DEF GoalsIInv
<1>7. LearnedFromAnswers'
  BY DEF GoalsIInv, LearnedFromAnswers
<1> QED BY <1>1, <1>2, <1>3, <1>4, <1>5, <1>6, <1>7 DEF GoalsIInv

(* A call sees goals that exist, and everything in them. *)
LEMMA CallsFit ==
  ASSUME GoalsIInv, NEW s \in GoalSessions, NEW gs \in SUBSET Existing,
         NEW op \in {"progress", "complete", "abandon", "answering"}, Calls(s, op, gs, gs, << >>),
         UNCHANGED <<goals, memoryHistory, safe_notes>>
  PROVE  GoalsIInv'
<1> DEFINE x == [op |-> op, name |-> goal_calls + 1, seen |-> [g \in gs |-> goals[g]],
                 flushed |-> << >>, todo |-> gs, memorized |-> {}]
<1>1. goal_calls \in Nat /\ goal_calls' = goal_calls + 1 /\ goal_session' = [goal_session EXCEPT ![s] = x]
  BY DEF Calls, GoalsIInv
<1>2. \A g \in gs : FitsGoal(goals[g], goal_calls)
  BY DEF GoalsIInv
<1>3. DOMAIN << >> = {}
  OBVIOUS
<1>4. FitsCall(x, Existing, goal_calls')
  BY <1>1, <1>2, <1>3 DEF FitsCall, Existing
<1>5. KeepsSafe(x, safe_notes)
  BY <1>3 DEF KeepsSafe, GoalsIInv
<1>6. DOMAIN x.flushed = {}
  BY <1>3
<1>7. goal_calls' \in Nat /\ goal_calls <= goal_calls'
  BY <1>1
<1>8. goals' = goals /\ learned' = learned /\ turns_answered' = turns_answered /\ safe_notes' = safe_notes
  BY DEF memoryHistory
<1> HIDE DEF x
<1>9. \A t \in GoalSessions \ {s} : DOMAIN x.flushed \cap DOMAIN goal_session[t].flushed = {}
  BY <1>6
<1> QED BY <1>1, <1>4, <1>5, <1>7, <1>8, <1>9, OneGoalSession

(* create_goal() writes a goal that nobody else has. *)
LEMMA CreateGoalIInv ==
  ASSUME GoalsIInv, NEW s \in GoalSessions, CreateGoal(s)
  PROVE  GoalsIInv'
<1>1. PICK g \in Goals \ Existing :
        /\ \A o \in GoalSessions : g \notin DOMAIN goal_session[o].flushed
        /\ Calls(s, "create", {}, {}, [h \in {g} |-> NewGoal])
  BY DEF CreateGoal
<1> DEFINE x == [op |-> "create", name |-> goal_calls + 1, seen |-> [h \in {} |-> goals[h]],
                 flushed |-> [h \in {g} |-> NewGoal], todo |-> {}, memorized |-> {}]
<1>2. goal_calls \in Nat /\ goal_calls' = goal_calls + 1 /\ goal_session' = [goal_session EXCEPT ![s] = x]
  BY <1>1 DEF Calls, GoalsIInv
<1>3. FitsCall(x, Existing, goal_calls')
  BY <1>2 DEF FitsCall, Existing
<1>4. KeepsSafe(x, safe_notes)
  BY DEF KeepsSafe
<1>5. \A t \in GoalSessions \ {s} : DOMAIN x.flushed \cap DOMAIN goal_session[t].flushed = {}
  BY <1>1
<1>6. goals' = goals /\ learned' = learned /\ turns_answered' = turns_answered /\ safe_notes' = safe_notes
  BY DEF CreateGoal, memoryHistory
<1>7. goal_calls' \in Nat /\ goal_calls <= goal_calls'
  BY <1>2
<1> HIDE DEF x
<1> QED BY <1>2, <1>3, <1>4, <1>5, <1>6, <1>7, OneGoalSession

(* A call of the routes looks its goal up. *)
LEMMA GetGoalIInv ==
  ASSUME GoalsIInv, NEW s \in GoalSessions, GetGoal(s)
  PROVE  GoalsIInv'
<1>1. PICK g \in Existing, op \in {"progress", "complete", "abandon"} : Calls(s, op, {g}, {g}, << >>)
  BY DEF GetGoal
<1>2. {g} \in SUBSET Existing
  OBVIOUS
<1> QED BY <1>1, <1>2, CallsFit DEF GetGoal

(* A turn of the agent loads the goals that are active. *)
LEMMA BeginTurnIInv ==
  ASSUME GoalsIInv, NEW s \in GoalSessions, BeginTurn(s)
  PROVE  GoalsIInv'
<1>1. ActiveGoals \in SUBSET Existing
  BY DEF ActiveGoals
<1> QED BY <1>1, CallsFit DEF BeginTurn

(* A step of a session that neither flushes nor sees anything. *)
LEMMA SessionGoesOn ==
  ASSUME GoalsIInv, NEW s \in GoalSessions, NEW x, NEW y, y = goal_session[s],
         UNCHANGED <<goals, goal_calls, memoryHistory, safe_notes>>,
         goal_session' = [goal_session EXCEPT ![s] = x],
         DOMAIN x = DOMAIN y, x.name = y.name, x.seen = y.seen,
         y.op \in {"answering", "turn"},
         \/ x.op = "turn" /\ x.flushed = y.flushed
         \/ x.op = "over" /\ x.flushed = << >>,
         x.todo \subseteq y.todo
  PROVE  GoalsIInv'
<1>1. goals' = goals /\ learned' = learned /\ turns_answered' = turns_answered /\ safe_notes' = safe_notes
  BY DEF memoryHistory
<1>2. goal_calls' = goal_calls /\ goal_calls \in Nat /\ goal_calls <= goal_calls'
  BY DEF GoalsIInv
<1>3. FitsCall(y, Existing, goal_calls) /\ KeepsSafe(y, safe_notes)
  BY DEF GoalsIInv
<1>4. DOMAIN x.flushed \subseteq DOMAIN y.flushed
  OBVIOUS
<1>5. x.name = y.name /\ x.seen = y.seen
  OBVIOUS
<1>6. FitsCall(x, Existing, goal_calls)
  BY <1>3, <1>4, <1>5 DEF FitsCall
<1>7. KeepsSafe(x, safe_notes)
  BY <1>3, <1>5 DEF KeepsSafe
<1>8. \A t \in GoalSessions \ {s} : DOMAIN x.flushed \cap DOMAIN goal_session[t].flushed = {}
  BY <1>4 DEF GoalsIInv
<1> QED BY <1>1, <1>2, <1>6, <1>7, <1>8, OneGoalSession

(* A session that ends without a commit leaves the goals alone. *)
LEMMA SessionEnds ==
  ASSUME GoalsIInv, NEW s \in GoalSessions,
         UNCHANGED <<goals, goal_calls, memoryHistory, safe_notes>>,
         goal_session' = [goal_session EXCEPT ![s] = NoGoalSession]
  PROVE  GoalsIInv'
<1>1. goals' = goals /\ learned' = learned /\ turns_answered' = turns_answered /\ safe_notes' = safe_notes
  BY DEF memoryHistory
<1>2. goal_calls' = goal_calls /\ goal_calls \in Nat /\ goal_calls <= goal_calls'
  BY DEF GoalsIInv
<1>3. FitsCall(NoGoalSession, Existing, goal_calls) /\ KeepsSafe(NoGoalSession, safe_notes)
      /\ DOMAIN NoGoalSession.flushed = {}
  BY <1>2 DEF FitsCall, KeepsSafe, NoGoalSession, Existing
<1>4. \A t \in GoalSessions \ {s} : DOMAIN NoGoalSession.flushed \cap DOMAIN goal_session[t].flushed = {}
  BY <1>3
<1> QED BY <1>1, <1>2, <1>3, <1>4, OneGoalSession

(* What a flush writes.                                                    *)
LEMMA ChangeFits ==
  ASSUME NEW x, NEW existing, NEW n \in Nat, FitsCall(x, existing, n), NEW g \in x.todo,
         x.op \in {"progress", "complete", "abandon", "turn", "over"}
  PROVE  FitsChange(Change(x, g), x.name, n)
<1> DEFINE seen == x.seen[g]
           new == Append(seen.notes, x.name)
<1>1. /\ x.name \in 1 .. n /\ seen.notes \in Seq(1 .. x.name - 1) /\ IsInjective(seen.notes)
      /\ seen.status \in Statuses
  BY DEF FitsCall, FitsGoal
<1>2. /\ new \in Seq(1 .. n) /\ IsInjective(new) /\ x.name \in ToSet(new)
  <2> DEFINE old == seen.notes
  <2> HIDE DEF seen
  <2>1. old \in Seq(1 .. n)
    <3>1. 1 .. x.name - 1 \subseteq 1 .. n BY <1>1
    <3> QED BY <1>1, <3>1, SeqMonotonic
  <2>2. \A i \in 1 .. Len(old) : old[i] < x.name BY <1>1
  <2> HIDE DEF old
  <2>3. /\ new = Append(old, x.name) /\ new \in Seq(1 .. n) /\ Len(old) \in Nat
        /\ Len(new) = Len(old) + 1 /\ DOMAIN new = 1 .. Len(old) + 1 /\ DOMAIN old = 1 .. Len(old)
        /\ new[Len(old) + 1] = x.name /\ \A i \in 1 .. Len(old) : new[i] = old[i]
    BY <1>1, <2>1 DEF old
  <2>4. IsInjective(old) BY <1>1 DEF old
  <2> HIDE DEF new
  <2>5. \A i, j \in 1 .. Len(old) : old[i] = old[j] => i = j
    BY <2>3, <2>4 DEF IsInjective
  <2>6. \A i \in 1 .. Len(old) : old[i] \in Int
    BY <2>1
  <2>7. \A i, j \in 1 .. Len(old) + 1 : new[i] = new[j] => i = j
    <3> TAKE i, j \in 1 .. Len(old) + 1
    <3> HAVE new[i] = new[j]
    <3>1. CASE i \in 1 .. Len(old) /\ j \in 1 .. Len(old) BY <3>1, <2>3, <2>5
    <3>2. CASE i = Len(old) + 1 /\ j \in 1 .. Len(old) BY <3>2, <2>2, <2>3, <2>6, <1>1
    <3>3. CASE j = Len(old) + 1 /\ i \in 1 .. Len(old) BY <3>3, <2>2, <2>3, <2>6, <1>1
    <3>4. CASE i = Len(old) + 1 /\ j = Len(old) + 1 BY <3>4
    <3> QED BY <3>1, <3>2, <3>3, <3>4, <2>3
  <2>8. Len(old) + 1 \in DOMAIN new BY <2>3
  <2> QED BY <2>3, <2>7, <2>8 DEF IsInjective, ToSet
<1> HIDE DEF new
<1>3. CASE x.op \in {"progress", "turn", "over"}
  <2>1. Change(x, g) = [notes |-> new] BY <1>3 DEF Change, new
  <2> QED BY <1>2, <2>1 DEF FitsChange, GoalColumns
<1>4. CASE x.op = "complete" /\ seen.status = "completed"
  <2>1. Change(x, g) = [completed |-> TRUE] BY <1>4 DEF Change
  <2> QED BY <2>1 DEF FitsChange, GoalColumns
<1>5. CASE x.op = "complete" /\ seen.status # "completed"
  <2>1. Change(x, g) = [status |-> "completed", completed |-> TRUE] BY <1>5 DEF Change
  <2> QED BY <2>1 DEF FitsChange, GoalColumns, Statuses
<1>6. CASE x.op = "abandon" /\ seen.status = "abandoned"
  <2>1. Change(x, g) = << >> BY <1>6 DEF Change
  <2>2. DOMAIN << >> = {} OBVIOUS
  <2> QED BY <2>1, <2>2 DEF FitsChange, GoalColumns
<1>7. CASE x.op = "abandon" /\ seen.status # "abandoned"
  <2>1. Change(x, g) = [status |-> "abandoned"] BY <1>7 DEF Change
  <2> QED BY <2>1 DEF FitsChange, GoalColumns, Statuses
<1> QED BY <1>3, <1>4, <1>5, <1>6, <1>7

(* A flush writes the next goal of the call, in the order of the goals. *)
LEMMA FlushGoalIInv ==
  ASSUME GoalAssumption, GoalsIInv, NEW s \in GoalSessions, FlushGoal(s)
  PROVE  GoalsIInv'
<1> DEFINE y == goal_session[s]
           g == Min(y.todo)
           c == Change(y, g)
           w == [h \in {g} \cup DOMAIN y.flushed |-> IF h = g THEN c ELSE y.flushed[h]]
           x == [y EXCEPT !.todo = @ \ {g}, !.flushed = w]
<1>1. FitsCall(y, Existing, goal_calls) /\ KeepsSafe(y, safe_notes) /\ goal_calls \in Nat
  BY DEF GoalsIInv
<1>2. y.todo # {} /\ y.op # "answering" /\ \A o \in GoalSessions \ {s} : g \notin DOMAIN goal_session[o].flushed
  BY DEF FlushGoal, Holds
<1>3. g \in y.todo /\ \A h \in y.todo : g <= h
  <2>0. Goals \subseteq Nat BY GoalAssumption DEF Goals
  <2> HIDE DEF y
  <2>1. y.todo \in SUBSET Nat BY <1>1, <2>0 DEF FitsCall
  <2> QED BY <1>2, <2>1, LeastOf
<1>4. goal_session' = [goal_session EXCEPT ![s] = x]
  BY DEF FlushGoal, Does
<1>5. y.op \in {"progress", "complete", "abandon", "turn", "over"}
  <2>1. y.op # "none"
    BY <1>1, <1>2 DEF FitsCall, NoGoalSession
  <2>2. y.op # "create"
    <3> SUFFICES ASSUME y.op = "create" PROVE FALSE OBVIOUS
    <3>1. y.todo = {} BY <1>1 DEF FitsCall
    <3> QED BY <1>2, <3>1
  <2> QED BY <1>1, <1>2, <2>1, <2>2 DEF FitsCall
<1>6. FitsChange(c, y.name, goal_calls)
  <2> HIDE DEF y, g
  <2> QED BY <1>1, <1>3, <1>5, ChangeFits
<1>7. \A n \in safe_notes : n[1] = g /\ y.op # "over" /\ "notes" \in DOMAIN c => n[2] \in ToSet(c["notes"])
  <2> SUFFICES ASSUME NEW n \in safe_notes, n[1] = g, y.op # "over", "notes" \in DOMAIN c
               PROVE  n[2] \in ToSet(c["notes"])
    OBVIOUS
  <2>0. "notes" \in DOMAIN c
    OBVIOUS
  <2>1. g \in DOMAIN y.seen /\ n[2] \in ToSet(y.seen[g].notes)
    BY <1>1, <1>3 DEF FitsCall, KeepsSafe
  <2>2. c["notes"] = Append(y.seen[g].notes, y.name)
    <3> HIDE DEF y, g
    <3>1. CASE y.op \in {"progress", "turn", "over"}
      <4>1. c = [notes |-> Append(y.seen[g].notes, y.name)] BY <3>1 DEF Change
      <4> QED BY <4>1
    <3>2. CASE y.op \in {"complete", "abandon"}
      <4>1. c \in {[completed |-> TRUE], [status |-> "completed", completed |-> TRUE], << >>, [status |-> "abandoned"]}
        BY <3>2 DEF Change
      <4>2. DOMAIN << >> = {} OBVIOUS
      <4>3. "notes" \notin DOMAIN c BY <4>1, <4>2
      <4> QED BY <4>3, <2>0
    <3> QED BY <1>5, <3>1, <3>2
  <2>3. y.seen[g].notes \in Seq(1 .. y.name - 1)
    BY <1>1, <2>1 DEF FitsCall, FitsGoal
  <2> DEFINE old == y.seen[g].notes
  <2>4. \A i \in DOMAIN old : i \in DOMAIN Append(old, y.name) /\ Append(old, y.name)[i] = old[i]
    <3>1. old \in Seq(1 .. y.name - 1) BY <2>3
    <3> HIDE DEF old, y
    <3> QED BY <3>1
  <2> HIDE DEF old, y, g, c
  <2> QED BY <2>1, <2>2, <2>4 DEF ToSet, old
<1>8. DOMAIN w = {g} \cup DOMAIN y.flushed /\ w[g] = c /\ \A h \in DOMAIN y.flushed : h # g => w[h] = y.flushed[h]
  OBVIOUS
<1>9. /\ DOMAIN y.flushed \subseteq DOMAIN y.seen /\ y.todo \subseteq DOMAIN y.seen
      /\ \A h \in DOMAIN y.flushed : FitsChange(y.flushed[h], y.name, goal_calls)
      /\ \A h \in DOMAIN y.flushed, t \in y.todo : h < t
  BY <1>1, <1>5 DEF FitsCall
<1> HIDE DEF c, w, g
<1>10. \A h \in DOMAIN w, t \in y.todo \ {g} : h < t
  <2>0. Goals \subseteq Int BY GoalAssumption DEF Goals
  <2> HIDE DEF y
  <2>1. \A t \in y.todo : t \in Int BY <1>1, <2>0 DEF FitsCall
  <2> QED BY <1>3, <1>8, <1>9, <2>1
<1>11. FitsCall(x, Existing, goal_calls)
  <2>1. /\ DOMAIN x = {"op", "name", "seen", "flushed", "todo", "memorized"}
        /\ x.op = y.op /\ x.name = y.name /\ x.seen = y.seen /\ x.flushed = w /\ x.todo = y.todo \ {g}
    <3> HIDE DEF y
    <3> QED BY <1>1 DEF x, FitsCall
  <2>2. x.op # "none" /\ x.op # "create" BY <1>5, <2>1
  <2>3. \A h \in DOMAIN w : FitsChange(w[h], y.name, goal_calls) BY <1>6, <1>8, <1>9
  <2>4. DOMAIN w \subseteq DOMAIN y.seen BY <1>3, <1>8, <1>9
  <2> HIDE DEF x, y
  <2> QED BY <1>1, <1>9, <1>10, <2>1, <2>2, <2>3, <2>4 DEF FitsCall
<1>12. KeepsSafe(x, safe_notes)
  <2>1. x.op = y.op /\ x.seen = y.seen /\ x.flushed = w
    <3> HIDE DEF y
    <3> QED BY <1>1 DEF x, FitsCall
  <2> HIDE DEF x, y
  <2> QED BY <1>1, <1>7, <1>8, <2>1 DEF KeepsSafe
<1>13. \A t \in GoalSessions \ {s} : DOMAIN x.flushed \cap DOMAIN goal_session[t].flushed = {}
  <2>1. x.flushed = w
    <3> HIDE DEF y
    <3> QED BY <1>1 DEF x, FitsCall
  <2> QED BY <1>2, <1>8, <2>1 DEF GoalsIInv
<1>14. goals' = goals /\ learned' = learned /\ turns_answered' = turns_answered /\ safe_notes' = safe_notes
       /\ goal_calls' = goal_calls /\ goal_calls' \in Nat /\ goal_calls <= goal_calls'
  BY <1>1 DEF FlushGoal, memoryHistory
<1>15. FitsCall(x, Existing, goal_calls')
  BY <1>11, <1>14
<1> HIDE DEF x
<1> QED BY <1>4, <1>12, <1>13, <1>14, <1>15, OneGoalSession

(* An answer names the goals of the turn that it is about. *)
LEMMA TurnAnsweredIInv ==
  ASSUME GoalsIInv, NEW s \in GoalSessions, TurnAnswered(s)
  PROVE  GoalsIInv'
<1> DEFINE y == goal_session[s]
<1>1. PICK about \in SUBSET y.todo, agent \in BOOLEAN :
        Does(s, [y EXCEPT !.op = "turn", !.todo = about, !.memorized = TurnMemory(agent)])
  BY DEF TurnAnswered
<1> DEFINE x == [y EXCEPT !.op = "turn", !.todo = about, !.memorized = TurnMemory(agent)]
<1>2. FitsCall(y, Existing, goal_calls) /\ y.op = "answering"
  BY DEF GoalsIInv, TurnAnswered
<1>3. goal_session' = [goal_session EXCEPT ![s] = x] /\ UNCHANGED <<goals, goal_calls, memoryHistory, safe_notes>>
  BY <1>1 DEF Does, TurnAnswered
<1>4. /\ DOMAIN x = DOMAIN y /\ x.name = y.name /\ x.seen = y.seen /\ x.op = "turn" /\ x.flushed = y.flushed
      /\ x.todo \subseteq y.todo
  <2> HIDE DEF y
  <2> QED BY <1>2 DEF FitsCall
<1>5. y = goal_session[s]
  OBVIOUS
<1> HIDE DEF x, y
<1> QED BY <1>2, <1>3, <1>4, <1>5, SessionGoesOn

(* The memory of a turn is stored with its session. *)
LEMMA StoreTurnMemoryIInv ==
  ASSUME GoalsIInv, NEW s \in GoalSessions, StoreTurnMemory(s)
  PROVE  GoalsIInv'
<1> DEFINE y == goal_session[s]
<1>1. PICK task : Does(s, [y EXCEPT !.memorized = @ \cup {task}])
  BY DEF StoreTurnMemory
<1> DEFINE x == [y EXCEPT !.memorized = @ \cup {task}]
<1>2. FitsCall(y, Existing, goal_calls) /\ y.op = "turn"
  BY DEF GoalsIInv, StoreTurnMemory
<1>3. goal_session' = [goal_session EXCEPT ![s] = x] /\ UNCHANGED <<goals, goal_calls, memoryHistory, safe_notes>>
  BY <1>1 DEF Does, StoreTurnMemory
<1>4. /\ DOMAIN x = DOMAIN y /\ x.name = y.name /\ x.seen = y.seen /\ x.op = "turn" /\ x.flushed = y.flushed
      /\ x.todo \subseteq y.todo
  <2> HIDE DEF y
  <2> QED BY <1>2 DEF FitsCall
<1>5. y = goal_session[s]
  OBVIOUS
<1> HIDE DEF x, y
<1> QED BY <1>2, <1>3, <1>4, <1>5, SessionGoesOn

(* A turn that is over writes nothing. *)
LEMMA OverFits ==
  ASSUME NEW y, NEW x, NEW existing, NEW n, FitsCall(y, existing, n),
         x = [y EXCEPT !.op = "over", !.flushed = << >>, !.memorized = {}]
  PROVE  /\ DOMAIN x = DOMAIN y /\ x.name = y.name /\ x.seen = y.seen /\ x.op = "over"
         /\ x.flushed = << >> /\ x.todo = y.todo
BY DEF FitsCall

(* A turn that fails writes nothing. *)
LEMMA TurnFailsIInv ==
  ASSUME GoalsIInv, NEW s \in GoalSessions, TurnFails(s)
  PROVE  GoalsIInv'
<1> DEFINE y == goal_session[s]
           x == [y EXCEPT !.op = "over", !.flushed = << >>, !.memorized = {}]
<1>1. FitsCall(y, Existing, goal_calls) /\ y.op = "turn"
  BY DEF GoalsIInv, TurnFails
<1>2. goal_session' = [goal_session EXCEPT ![s] = x] /\ UNCHANGED <<goals, goal_calls, memoryHistory, safe_notes>>
  BY DEF Does, Over, TurnFails
<1>3. /\ DOMAIN x = DOMAIN y /\ x.name = y.name /\ x.seen = y.seen /\ x.op = "over" /\ x.flushed = << >>
      /\ x.todo = y.todo
  <2> HIDE DEF y
  <2>1. x = [y EXCEPT !.op = "over", !.flushed = << >>, !.memorized = {}] OBVIOUS
  <2> HIDE DEF x
  <2> QED BY <1>1, <2>1, OverFits
<1>4. y = goal_session[s]
  OBVIOUS
<1> HIDE DEF x, y
<1> QED BY <1>1, <1>2, <1>3, <1>4, SessionGoesOn

(* The tasks behind a turn come to their end. *)
LEMMA TasksEndIInv ==
  ASSUME GoalsIInv, NEW s \in GoalSessions, TasksEnd(s)
  PROVE  GoalsIInv'
<1> DEFINE y == goal_session[s]
           x == [y EXCEPT !.todo = {}]
<1>1. CASE /\ y.op = "turn" /\ goal_session' = [goal_session EXCEPT ![s] = x]
           /\ UNCHANGED <<goals, goal_calls, memoryHistory, safe_notes>>
  <2>1. FitsCall(y, Existing, goal_calls)
    BY DEF GoalsIInv
  <2>2. /\ DOMAIN x = DOMAIN y /\ x.name = y.name /\ x.seen = y.seen /\ x.op = "turn" /\ x.flushed = y.flushed
        /\ x.todo \subseteq y.todo
    <3> HIDE DEF y
    <3> QED BY <1>1, <2>1 DEF FitsCall
  <2>3. y = goal_session[s]
    OBVIOUS
  <2> HIDE DEF x, y
  <2> QED BY <1>1, <2>2, <2>3, SessionGoesOn
<1>2. CASE /\ goal_session' = [goal_session EXCEPT ![s] = NoGoalSession]
           /\ UNCHANGED <<goals, goal_calls, memoryHistory, safe_notes>>
  BY <1>2, SessionEnds
<1> QED BY <1>1, <1>2 DEF TasksEnd, Does

-----------------------------------------------------------------------------
(* The commits.                                                            *)
LEMMA UpdatedFits ==
  ASSUME NEW n \in Nat, NEW old, FitsGoal(old, n), NEW c, NEW name, FitsChange(c, name, n)
  PROVE  /\ FitsGoal(Updated(old, c), n)
         /\ Updated(old, c).notes = IF "notes" \in DOMAIN c THEN c["notes"] ELSE old.notes
<1> DEFINE st == Column(c, old, "status")
           no == Column(c, old, "notes")
           co == Column(c, old, "completed")
<1>1. st \in Statuses /\ co \in BOOLEAN /\ (st = "completed" => co = TRUE)
  BY DEF FitsGoal, FitsChange, Column
<1>2. no \in Seq(1 .. n) /\ IsInjective(no)
  BY DEF FitsGoal, FitsChange, Column
<1>3. no = IF "notes" \in DOMAIN c THEN c["notes"] ELSE old.notes
  BY DEF Column
<1>4. Updated(old, c) = [status |-> st, notes |-> no, completed |-> co]
  BY DEF Updated
<1> HIDE DEF st, no, co
<1> QED BY <1>1, <1>2, <1>3, <1>4 DEF FitsGoal

(* A goal that fits is not the missing one. *)
LEMMA RealGoal ==
  ASSUME GoalAssumption, NEW n \in Nat, NEW x, FitsGoal(x, n)
  PROVE  x # NoGoal
<1>1. x.notes \in Seq(Nat)
  <2>1. 1 .. n \subseteq Nat /\ x.notes \in Seq(1 .. n) BY DEF FitsGoal
  <2> QED BY <2>1, SeqMonotonic
<1> QED BY <1>1, GoalAssumption DEF FitsGoal

(* What a session commits keeps the notes of the calls that met nobody. *)
LEMMA CommitsFit ==
  ASSUME GoalAssumption, GoalsIInv, NEW s \in GoalSessions, Commits(s), goal_calls' = goal_calls,
         LearnedFromAnswers', goal_session[s].op \notin {"answering", "over"}, NEW x,
         goal_session' = [goal_session EXCEPT ![s] = x],
         x = NoGoalSession \/ (/\ DOMAIN x = DOMAIN goal_session[s] /\ x.name = goal_session[s].name
                               /\ x.seen = goal_session[s].seen /\ x.op = "over" /\ x.flushed = << >>
                               /\ x.todo = goal_session[s].todo /\ goal_session[s].op = "turn")
  PROVE  GoalsIInv'
<1> DEFINE y == goal_session[s]
           flushed == y.flushed
<1>1. /\ FitsCall(y, Existing, goal_calls) /\ KeepsSafe(y, safe_notes) /\ goal_calls \in Nat
      /\ y.op \notin {"answering", "over"}
  BY DEF GoalsIInv
<1>2. goals' = [g \in Goals |-> IF g \notin DOMAIN flushed THEN goals[g]
                                ELSE IF goals[g] = NoGoal THEN flushed[g] ELSE Updated(goals[g], flushed[g])]
  BY DEF Commits
<1>3. ASSUME NEW g \in Goals
      PROVE  \/ goals'[g] = goals[g] /\ g \notin DOMAIN flushed
             \/ g \notin Existing /\ g \in DOMAIN flushed /\ goals'[g] = NewGoal
             \/ /\ g \in Existing /\ g \in DOMAIN flushed /\ y.op # "create"
                /\ goals'[g] = Updated(goals[g], flushed[g])
                /\ FitsChange(flushed[g], y.name, goal_calls)
  <2>1. CASE g \notin DOMAIN flushed BY <2>1, <1>2
  <2>2. CASE g \in DOMAIN flushed /\ y.op = "create"
    <3>1. goals[g] = NoGoal /\ flushed[g] = NewGoal BY <1>1, <2>2 DEF FitsCall, Existing
    <3> HIDE DEF flushed
    <3> QED BY <1>2, <2>2, <3>1 DEF Existing
  <2>3. CASE g \in DOMAIN flushed /\ y.op # "create"
    <3>1. g \in Existing /\ FitsChange(flushed[g], y.name, goal_calls) BY <1>1, <2>3 DEF FitsCall
    <3> HIDE DEF flushed, y
    <3> QED BY <1>2, <2>3, <3>1 DEF Existing
  <2> QED BY <2>1, <2>2, <2>3
<1> HIDE DEF flushed, y
<1>4. FitsGoal(NewGoal, goal_calls)
  <2>1. << >> \in Seq(1 .. goal_calls) /\ DOMAIN << >> = {} OBVIOUS
  <2> QED BY <2>1 DEF FitsGoal, NewGoal, Statuses, IsInjective
<1>5. \A g \in Existing : FitsGoal(goals[g], goal_calls)
  BY DEF GoalsIInv
<1>6. \A g \in Goals : goals'[g] # NoGoal => FitsGoal(goals'[g], goal_calls)
  <2> TAKE g \in Goals
  <2> HAVE goals'[g] # NoGoal
  <2>1. CASE goals'[g] = goals[g] BY <1>5, <2>1 DEF Existing
  <2>2. CASE goals'[g] = NewGoal BY <1>4, <2>2
  <2>3. CASE g \in Existing /\ goals'[g] = Updated(goals[g], flushed[g]) /\ FitsChange(flushed[g], y.name, goal_calls)
    BY <1>1, <1>5, <2>3, UpdatedFits
  <2> QED BY <1>3, <2>1, <2>2, <2>3
<1>7. Existing' = {g \in Goals : goals'[g] # NoGoal}
  BY DEF Existing
<1>8. Existing \subseteq Existing' /\ \A g \in Existing' \ Existing : g \in DOMAIN flushed
  <2>1. \A g \in Existing : FitsGoal(goals'[g], goal_calls)
    <3> TAKE g \in Existing
    <3>1. g \in Goals BY DEF Existing
    <3>2. CASE goals'[g] = goals[g] BY <1>5, <3>2
    <3>3. CASE goals'[g] = Updated(goals[g], flushed[g]) /\ FitsChange(flushed[g], y.name, goal_calls)
      BY <1>1, <1>5, <3>3, UpdatedFits
    <3> QED BY <1>3, <3>1, <3>2, <3>3
  <2>2. \A g \in Existing : g \in Goals /\ goals'[g] # NoGoal BY <1>1, <2>1, RealGoal DEF Existing
  <2>3. \A g \in Goals \ Existing : g \notin DOMAIN flushed => goals'[g] = NoGoal BY <1>3 DEF Existing
  <2> QED BY <1>7, <2>2, <2>3
<1>9. /\ goal_session' = [t \in GoalSessions |-> goal_session'[t]]
      /\ goal_session'[s] = x /\ \A t \in GoalSessions \ {s} : goal_session'[t] = goal_session[t]
  BY DEF GoalsIInv
<1>10. ASSUME NEW t \in GoalSessions \ {s} PROVE FitsCall(goal_session[t], Existing', goal_calls)
  <2> DEFINE z == goal_session[t]
  <2>1. FitsCall(z, Existing, goal_calls) BY DEF GoalsIInv
  <2>2. DOMAIN flushed \cap DOMAIN z.flushed = {} BY DEF GoalsIInv, flushed, y
  <2>3. Existing' \subseteq Goals BY <1>7
  <2> HIDE DEF z
  <2>4. z.op = "create" => z.todo = {} /\ \E g \in Goals \ Existing' : z.flushed = [h \in {g} |-> NewGoal]
    <3> SUFFICES ASSUME z.op = "create" PROVE z.todo = {} /\ \E g \in Goals \ Existing' : z.flushed = [h \in {g} |-> NewGoal]
      OBVIOUS
    <3>1. PICK g \in Goals \ Existing : z.flushed = [h \in {g} |-> NewGoal] BY <2>1 DEF FitsCall
    <3>2. g \in DOMAIN z.flushed BY <3>1
    <3>3. g \notin Existing' BY <1>8, <2>2, <3>2
    <3> QED BY <2>1, <3>1, <3>3 DEF FitsCall
  <2> QED BY <1>8, <2>1, <2>3, <2>4 DEF FitsCall, z
<1>11. FitsCall(x, Existing', goal_calls)
  <2>1. CASE x = NoGoalSession
    BY <1>1, <1>7, <2>1 DEF FitsCall, NoGoalSession
  <2>2. CASE /\ DOMAIN x = DOMAIN y /\ x.name = y.name /\ x.seen = y.seen /\ x.op = "over"
             /\ x.flushed = << >> /\ x.todo = y.todo
    <3>1. DOMAIN << >> = {} OBVIOUS
    <3>2. Existing' \subseteq Goals BY <1>7
    <3> QED BY <1>1, <1>8, <2>2, <3>1, <3>2 DEF FitsCall
  <2> QED BY <2>1, <2>2 DEF y
<1>12. DOMAIN x.flushed = {}
  <2>1. DOMAIN << >> = {} OBVIOUS
  <2> QED BY <2>1 DEF NoGoalSession
<1> DEFINE safe == {h \in DOMAIN flushed : /\ "notes" \in DOMAIN flushed[h] /\ goals[h] # NoGoal
                                           /\ GoalReaders(h) \subseteq {s}}
<1>13. safe_notes' = safe_notes \cup {<<g, y.name>> : g \in safe}
  BY DEF Commits, flushed, y
<1>14. ASSUME NEW g \in safe
       PROVE  /\ g \in Existing /\ y.op # "create" /\ y.name \in ToSet(goals'[g].notes)
              /\ \A t \in GoalSessions \ {s} : g \notin DOMAIN goal_session[t].seen
  <2>1. g \in DOMAIN flushed /\ goals[g] # NoGoal /\ "notes" \in DOMAIN flushed[g] OBVIOUS
  <2>2. y.op # "create"
    <3> SUFFICES ASSUME y.op = "create" PROVE FALSE OBVIOUS
    <3>1. PICK h \in Goals \ Existing : flushed = [k \in {h} |-> NewGoal] BY <1>1 DEF FitsCall, flushed
    <3>2. g = h BY <2>1, <3>1
    <3> QED BY <2>1, <3>2 DEF Existing
  <2>3. g \in Existing BY <1>1, <2>1, <2>2 DEF FitsCall, flushed
  <2>4. g \in Goals BY <2>3 DEF Existing
  <2>5. goals'[g] = Updated(goals[g], flushed[g]) /\ FitsChange(flushed[g], y.name, goal_calls)
    BY <1>3, <2>1, <2>3, <2>4
  <2>6. goals'[g].notes = flushed[g]["notes"] BY <1>1, <1>5, <2>1, <2>3, <2>5, UpdatedFits
  <2>7. y.name \in ToSet(flushed[g]["notes"]) BY <2>1, <2>5 DEF FitsChange
  <2> QED BY <2>2, <2>3, <2>6, <2>7 DEF GoalReaders
<1>15. ASSUME NEW n \in safe_notes PROVE n[1] \in Existing' /\ n[2] \in ToSet(goals'[n[1]].notes)
  <2> DEFINE g == n[1]
  <2>1. g \in Existing /\ n[2] \in ToSet(goals[g].notes) BY DEF GoalsIInv
  <2>2. g \in Goals BY <2>1 DEF Existing
  <2>3. CASE goals'[g] = goals[g] BY <1>8, <2>1, <2>3
  <2>4. CASE /\ g \in DOMAIN flushed /\ y.op # "create" /\ goals'[g] = Updated(goals[g], flushed[g])
             /\ FitsChange(flushed[g], y.name, goal_calls)
    <3>1. goals'[g].notes = IF "notes" \in DOMAIN flushed[g] THEN flushed[g]["notes"] ELSE goals[g].notes
      BY <1>1, <1>5, <2>1, <2>4, UpdatedFits
    <3>2. "notes" \in DOMAIN flushed[g] => n[2] \in ToSet(flushed[g]["notes"])
      BY <1>1, <2>4 DEF KeepsSafe, flushed
    <3> QED BY <1>8, <2>1, <3>1, <3>2
  <2> HIDE DEF g
  <2> QED BY <1>3, <2>1, <2>2, <2>3, <2>4
<1>16. \A n \in safe_notes' : n[1] \in Existing' /\ n[2] \in ToSet(goals'[n[1]].notes)
  <2> TAKE n \in safe_notes'
  <2>1. CASE n \in safe_notes BY <1>15, <2>1
  <2>2. CASE \E g \in safe : n = <<g, y.name>>
    <3>1. PICK g \in safe : n = <<g, y.name>> BY <2>2
    <3> HIDE DEF safe
    <3> QED BY <1>8, <1>14, <3>1
  <2> QED BY <1>13, <2>1, <2>2
<1>17. KeepsSafe(x, safe_notes')
  <2>1. CASE x = NoGoalSession
    <3>1. DOMAIN << >> = {} OBVIOUS
    <3> QED BY <2>1, <3>1 DEF KeepsSafe, NoGoalSession
  <2>2. CASE x.op = "over" BY <2>2 DEF KeepsSafe
  <2> QED BY <2>1, <2>2
<1>18. ASSUME NEW t \in GoalSessions \ {s} PROVE KeepsSafe(goal_session[t], safe_notes')
  <2> DEFINE z == goal_session[t]
  <2>1. FitsCall(z, Existing, goal_calls) /\ KeepsSafe(z, safe_notes) BY DEF GoalsIInv
  <2>2. \A n \in safe_notes' \ safe_notes : n[1] \notin DOMAIN z.seen
    <3> TAKE n \in safe_notes' \ safe_notes
    <3>1. PICK g \in safe : n = <<g, y.name>> BY <1>13
    <3> HIDE DEF safe
    <3> QED BY <1>14, <3>1
  <2> HIDE DEF z
  <2> QED BY <2>1, <2>2 DEF KeepsSafe, FitsCall, z
<1>19. \A t \in GoalSessions : FitsCall(goal_session'[t], Existing', goal_calls) /\ KeepsSafe(goal_session'[t], safe_notes')
  BY <1>9, <1>10, <1>11, <1>17, <1>18
<1>20. \A t, u \in GoalSessions :
         t # u => DOMAIN goal_session'[t].flushed \cap DOMAIN goal_session'[u].flushed = {}
  BY <1>9, <1>12 DEF GoalsIInv
<1>21. goals' = [g \in Goals |-> goals'[g]]
  BY <1>2
<1>22. \A g \in Existing' : FitsGoal(goals'[g], goal_calls)
  BY <1>6, <1>7
<1> HIDE DEF safe
<1> QED BY <1>1, <1>9, <1>16, <1>19, <1>20, <1>21, <1>22 DEF GoalsIInv

(* A call of the routes commits. *)
LEMMA CommitCallIInv ==
  ASSUME GoalAssumption, GoalsIInv, NEW s \in GoalSessions, CommitCall(s)
  PROVE  GoalsIInv'
<1>1. goal_session' = [goal_session EXCEPT ![s] = NoGoalSession] /\ Commits(s) /\ goal_calls' = goal_calls
  BY DEF CommitCall, Does
<1>2. LearnedFromAnswers'
  BY DEF CommitCall, memoryHistory, GoalsIInv, LearnedFromAnswers
<1>3. goal_session[s].op \notin {"answering", "over"}
  BY DEF CommitCall
<1> QED BY <1>1, <1>2, <1>3, CommitsFit

(* A turn commits. *)
LEMMA TurnEndsIInv ==
  ASSUME GoalAssumption, GoalsIInv, NEW s \in GoalSessions, TurnEnds(s)
  PROVE  GoalsIInv'
<1> DEFINE y == goal_session[s]
           x == [y EXCEPT !.op = "over", !.flushed = << >>, !.memorized = {}]
<1>1. FitsCall(y, Existing, goal_calls) /\ y.op = "turn"
  BY DEF GoalsIInv, TurnEnds
<1>2. goal_session' = [goal_session EXCEPT ![s] = x] /\ Commits(s) /\ goal_calls' = goal_calls
  BY DEF Does, Over, TurnEnds
<1>3. /\ DOMAIN x = DOMAIN y /\ x.name = y.name /\ x.seen = y.seen /\ x.op = "over" /\ x.flushed = << >>
      /\ x.todo = y.todo
  <2> HIDE DEF y
  <2>1. x = [y EXCEPT !.op = "over", !.flushed = << >>, !.memorized = {}] OBVIOUS
  <2> HIDE DEF x
  <2> QED BY <1>1, <2>1, OverFits
<1>4. LearnedFromAnswers'
  BY DEF TurnEnds, GoalsIInv, LearnedFromAnswers
<1>5. y = goal_session[s]
  OBVIOUS
<1> HIDE DEF x
<1> QED BY <1>1, <1>2, <1>3, <1>4, <1>5, CommitsFit

(* Every step of the goals preserves the invariant. *)
LEMMA GoalsNextIInv ==
  ASSUME GoalAssumption, GoalsIInv, [GoalsNext]_goalVars
  PROVE  GoalsIInv'
<1>1. ASSUME NEW s \in GoalSessions, RollbackCall(s) PROVE GoalsIInv'
  <2>1. UNCHANGED <<goals, goal_calls, memoryHistory, safe_notes>>
        /\ goal_session' = [goal_session EXCEPT ![s] = NoGoalSession]
    BY <1>1 DEF RollbackCall, Does
  <2> QED BY <2>1, SessionEnds
<1>2. CASE UNCHANGED goalVars
  <2>1. /\ goals' = goals /\ goal_session' = goal_session /\ goal_calls' = goal_calls
        /\ learned' = learned /\ turns_answered' = turns_answered /\ safe_notes' = safe_notes
    BY <1>2 DEF goalVars
  <2>2. Existing' = Existing BY <2>1 DEF Existing
  <2> QED BY <2>1, <2>2 DEF GoalsIInv, LearnedFromAnswers
<1> QED BY <1>1, <1>2, CreateGoalIInv, GetGoalIInv, FlushGoalIInv, CommitCallIInv, BeginTurnIInv, TurnAnsweredIInv,
           TurnEndsIInv, TasksEndIInv, StoreTurnMemoryIInv, TurnFailsIInv DEF GoalsNext

(* The invariant implies what goals promise. *)
LEMMA GoalsIInvSound ==
  ASSUME GoalAssumption, GoalsIInv
  PROVE  GoalsAreKept
<1>1. SafeNotesStay
  BY DEF SafeNotesStay, GoalsIInv, FitsGoal
<1>2. EndsAreStamped
  BY DEF EndsAreStamped, GoalsIInv, FitsGoal
<1>3. NobodyWaitsForEver
  <2> SUFFICES ASSUME NEW s \in GoalSessions, NEW t \in GoalSessions, s # t,
                      NEW g \in Wants(s), Holds(t, g), NEW h \in Wants(t), Holds(s, h)
               PROVE  FALSE
    BY DEF NobodyWaitsForEver
  <2>1. \A u \in GoalSessions : \A k \in Wants(u) :
          /\ k \in goal_session[u].todo /\ k \in Nat
          /\ \A held \in DOMAIN goal_session[u].flushed : held < k /\ held \in Nat
    <3> TAKE u \in GoalSessions
    <3> TAKE k \in Wants(u)
    <3> DEFINE y == goal_session[u]
    <3>0. Goals \subseteq Nat BY GoalAssumption DEF Goals
    <3>1. FitsCall(y, Existing, goal_calls) BY DEF GoalsIInv
    <3>2. y.todo # {} /\ k = Min(y.todo) BY DEF Wants
    <3> HIDE DEF y
    <3>3. y.todo \in SUBSET Nat /\ DOMAIN y.seen \subseteq Nat BY <3>0, <3>1 DEF FitsCall
    <3>4. k \in y.todo BY <3>2, <3>3, LeastOf
    <3>5. y.op # "create" BY <3>1, <3>2 DEF FitsCall
    <3>6. /\ DOMAIN y.flushed \subseteq DOMAIN y.seen /\ \A i \in DOMAIN y.flushed, j \in y.todo : i < j
      BY <3>1, <3>5 DEF FitsCall
    <3> QED BY <3>3, <3>4, <3>6 DEF y
  <2>2. g \in DOMAIN goal_session[t].flushed /\ h \in DOMAIN goal_session[s].flushed BY DEF Holds
  <2>3. g < h /\ h < g /\ g \in Nat /\ h \in Nat BY <2>1, <2>2
  <2> QED BY <2>3
<1> QED BY <1>1, <1>2, <1>3 DEF GoalsAreKept, GoalsIInv

(* The inductive invariant holds in every reachable state. *)
LEMMA GoalsInvariance == GoalsSpec => []GoalsIInv
<1>1. GoalsInit => GoalsIInv
  BY GoalsInitIInv, GoalAssumption
<1>2. GoalsIInv /\ [GoalsNext]_goalVars => GoalsIInv'
  BY GoalsNextIInv, GoalAssumption
<1>3. QED BY <1>1, <1>2, PTL DEF GoalsSpec

-----------------------------------------------------------------------------
(* Deliberation.                                                           *)

(* Every nonempty set of bounded numbers has a greatest one, and Max is it. *)
LEMMA GreatestOf ==
  ASSUME NEW n \in Nat, NEW S \in SUBSET (0 .. n), S # {}
  PROVE  Max(S) \in S /\ \A m \in S : m <= Max(S)
<1> DEFINE D == {n - x : x \in S}
<1>8. \A x \in S : n - x \in Nat OBVIOUS
<1>1. D \in SUBSET Nat /\ D # {} BY <1>8
<1>2. Min(D) \in D /\ \A d \in D : Min(D) <= d
  <2> HIDE DEF D
  <2> QED BY <1>1, LeastOf
<1>3. PICK x \in S : Min(D) = n - x BY <1>2
<1>4. ASSUME NEW y \in S PROVE x >= y
  <2>1. n - y \in D OBVIOUS
  <2>2. n - x <= n - y BY <2>1, <1>2, <1>3
  <2> QED BY <2>2
<1>5. \E z \in S : \A y \in S : z >= y BY <1>4
<1>6. Max(S) \in S /\ \A y \in S : Max(S) >= y BY <1>5 DEF Max
<1>7. \A y \in S : y \in Int OBVIOUS
<1> QED BY <1>6, <1>7

(* Without its last member a longer sequence is what it was. *)
LEMMA FrontOfAppend ==
  ASSUME NEW S, NEW s \in Seq(S), NEW x \in S
  PROVE  Append(s, x) \in Seq(S) /\ Front(Append(s, x)) = s /\ Len(Append(s, x)) = Len(s) + 1 /\ Append(s, x) # << >>
<1> DEFINE t == Append(s, x)
<1>1. t \in Seq(S) /\ Len(t) = Len(s) + 1 /\ Len(s) \in Nat /\ \A i \in 1 .. Len(s) : t[i] = s[i]
  OBVIOUS
<1>2. Len(<< >>) = 0 OBVIOUS
<1> HIDE DEF t
<1>3. Front(t) = SubSeq(t, 1, Len(t) - 1) BY DEF Front
<1>4. Len(t) - 1 = Len(s) BY <1>1
<1>5. Front(t) = s
  <2>1. SubSeq(t, 1, Len(s)) = [i \in 1 .. Len(s) |-> t[i]] BY <1>1
  <2>2. s = [i \in 1 .. Len(s) |-> s[i]] OBVIOUS
  <2> QED BY <2>1, <2>2, <1>1, <1>3, <1>4
<1> QED BY <1>1, <1>2, <1>5 DEF t

-----------------------------------------------------------------------------
Outcomes == {"none", "low", "medium", "high", "critical", "system_error"}
NotAsked == \A check \in RedTeamChecks : red_team[check] = "idle"
NotCalled == \A m \in Members : council[m] = "idle"

(* Nobody has been asked before a deliberation begins, and only one kind   *)
(* of it goes on.                                                          *)
ChecksFit ==
  /\ red_team = [check \in RedTeamChecks |-> red_team[check]]
  /\ stage = "checks" => \A check \in RedTeamChecks : red_team[check] \in {"running"} \cup Outcomes
  /\ stage = "done" => \A check \in RedTeamChecks : red_team[check] # "running"
  /\ stage \notin {"checks", "done"} => NotAsked

MembersFit ==
  /\ council = [m \in Members |-> council[m]]
  /\ stage \notin {"positions", "critiques", "done"} => NotCalled

Paths == Seq(Nat)
PathFits(path, ns) ==
  path \in Paths /\ Len(path) <= MaxDepth /\ (path # << >> => Front(path) \in DOMAIN ns /\ ns[Front(path)] = "inner")

(* What is still to be asked is new, and every question that was taken     *)
(* apart has its first part asked or to be asked.                          *)
TreeFits(ns, todo) ==
  /\ \A path \in DOMAIN ns : PathFits(path, ns)
  /\ todo \in Seq(Paths)
  /\ \A i \in 1 .. Len(todo) : PathFits(todo[i], ns) /\ todo[i] \notin DOMAIN ns
  /\ \A i, j \in 1 .. Len(todo) : todo[i] = todo[j] => i = j
  /\ \A path \in DOMAIN ns : ns[path] = "inner" =>
       Append(path, 1) \in DOMAIN ns \/ \E i \in 1 .. Len(todo) : todo[i] = Append(path, 1)

DeliberationIInv ==
  /\ ChecksFit /\ MembersFit
  /\ stage \notin {"questions", "done"} => nodes = << >> /\ agenda = << >>
  /\ TreeFits(nodes, agenda)
  /\ stage = "done" => agenda = << >>
  /\ stage = "done" /\ nodes # << >> => judgement.truths = Leaves
  /\ FindingsWeigh /\ DissentIsKept

(* A tree without nodes is the empty function. *)
LEMMA NoNodes == [path \in {} |-> ""] = << >>
<1>1. IsSequence(<< >>) /\ Len(<< >>) = 0 BY EmptySequence
<1>2. << >> = [i \in 1 .. 0 |-> << >>[i]] BY <1>1 DEF IsSequence
<1>3. 1 .. 0 = {} OBVIOUS
<1>4. DOMAIN << >> = {} OBVIOUS
<1> DEFINE f == [path \in {} |-> ""]
<1>5. f = [path \in {} |-> f[path]] OBVIOUS
<1> QED BY <1>2, <1>3, <1>5

(* Before the first question there is no tree. *)
LEMMA NoTree == DeliberationAssumption => TreeFits(<< >>, << >>)
<1> SUFFICES ASSUME DeliberationAssumption PROVE TreeFits(<< >>, << >>) OBVIOUS
<1>1. DOMAIN << >> = {} OBVIOUS
<1>2. << >> \in Seq(Paths) /\ Len(<< >>) = 0 OBVIOUS
<1> QED BY <1>1, <1>2 DEF TreeFits

(* Nothing is deliberated at first. *)
LEMMA DeliberationInitIInv == ASSUME DeliberationAssumption, DeliberationInit PROVE DeliberationIInv
<1>1. nodes = << >> /\ agenda = << >> /\ stage = "idle" BY NoNodes DEF DeliberationInit
<1>2. ChecksFit BY <1>1 DEF DeliberationInit, ChecksFit, NotAsked
<1>3. MembersFit BY <1>1 DEF DeliberationInit, MembersFit, NotCalled
<1>4. TreeFits(nodes, agenda) BY <1>1, NoTree
<1>5. FindingsWeigh /\ DissentIsKept BY <1>1 DEF FindingsWeigh, DissentIsKept
<1> QED BY <1>1, <1>2, <1>3, <1>4, <1>5 DEF DeliberationIInv

-----------------------------------------------------------------------------
(* The red team. *)
SameTree == nodes' = nodes /\ agenda' = agenda

(* An analysis of the red team begins. *)
LEMMA AnalyzeKeeps == ASSUME DeliberationIInv, Analyze PROVE DeliberationIInv'
<1>1. stage = "idle" /\ stage' = "checks" /\ SameTree /\ council' = council
      /\ red_team' = [check \in RedTeamChecks |-> "running"]
  BY DEF Analyze, SameTree
<1>2. ChecksFit' BY <1>1 DEF ChecksFit
<1>3. MembersFit' BY <1>1 DEF DeliberationIInv, MembersFit, NotCalled
<1>4. FindingsWeigh' /\ DissentIsKept' BY <1>1 DEF FindingsWeigh, DissentIsKept
<1> QED BY <1>1, <1>2, <1>3, <1>4 DEF DeliberationIInv, SameTree

(* A check of the red team ends. *)
LEMMA CheckEndsKeeps ==
  ASSUME DeliberationIInv, NEW check \in RedTeamChecks, NEW outcome \in Outcomes, CheckEnds(check, outcome)
  PROVE  DeliberationIInv'
<1>1. /\ red_team[check] = "running" /\ red_team' = [red_team EXCEPT ![check] = outcome]
      /\ council' = council /\ stage' = stage /\ nodes' = nodes /\ agenda' = agenda /\ judgement' = judgement
  BY DEF CheckEnds
<1>2. stage = "checks" BY <1>1 DEF DeliberationIInv, ChecksFit, NotAsked
<1>3. \A c \in RedTeamChecks : red_team'[c] = IF c = check THEN outcome ELSE red_team[c]
  BY <1>1 DEF DeliberationIInv, ChecksFit
<1>4. red_team' = [c \in RedTeamChecks |-> red_team'[c]] BY <1>1 DEF DeliberationIInv, ChecksFit
<1>5. ChecksFit' BY <1>1, <1>2, <1>3, <1>4 DEF DeliberationIInv, ChecksFit
<1>6. MembersFit' BY <1>1 DEF DeliberationIInv, MembersFit, NotCalled
<1>7. FindingsWeigh' /\ DissentIsKept' BY <1>1, <1>2 DEF FindingsWeigh, DissentIsKept
<1> QED BY <1>1, <1>2, <1>5, <1>6, <1>7 DEF DeliberationIInv

(* What the checks weigh. *)
LEMMA OverallIs ==
  ASSUME NEW check \in RedTeamChecks, \A c \in RedTeamChecks : red_team[c] \in Outcomes
  PROVE  /\ Overall \in 0 .. 4
         /\ red_team[check] = "critical" => Overall = 4
         /\ red_team[check] = "system_error" => Overall \in 3 .. 4
<1> DEFINE S == {Severity(red_team[c]) : c \in RedTeamChecks}
<1>1. \A o \in Outcomes : Severity(o) \in 0 .. 4
  <2> TAKE o \in Outcomes
  <2>1. CASE o = "none" BY <2>1 DEF Severity
  <2>2. CASE o = "low" BY <2>2 DEF Severity
  <2>3. CASE o = "medium" BY <2>3 DEF Severity
  <2>4. CASE o \in {"high", "system_error"} BY <2>4 DEF Severity
  <2>5. CASE o = "critical" BY <2>5 DEF Severity
  <2> QED BY <2>1, <2>2, <2>3, <2>4, <2>5 DEF Outcomes
<1>2. S \in SUBSET (0 .. 4) /\ S # {} BY <1>1
<1>3. Severity(red_team[check]) \in S OBVIOUS
<1> HIDE DEF S
<1>4. Max(S) \in S /\ \A s \in S : s <= Max(S) BY <1>2, GreatestOf
<1>5. Overall = Max(S) BY DEF Overall, S
<1>6. Overall \in 0 .. 4 /\ Severity(red_team[check]) <= Overall BY <1>2, <1>3, <1>4, <1>5
<1>7. Severity("critical") = 4 /\ Severity("system_error") = 3 BY DEF Severity
<1> QED BY <1>6, <1>7

(* The verdict is at least as severe as the worst of the checks. *)
LEMMA AggregateKeeps ==
  ASSUME DeliberationIInv, AllChecked, NEW rule, NEW reviewed, NEW severity, Aggregate(rule, reviewed, severity),
         Overall = 4 => reviewed = TRUE /\ severity = 4,
         Overall = 3 => severity = 3 /\ (rule = "model" \/ reviewed = TRUE)
  PROVE  DeliberationIInv'
<1>1. /\ judgement' = [by |-> rule, review |-> reviewed, severity |-> severity]
      /\ stage = "checks" /\ stage' = "done"
      /\ red_team' = red_team /\ council' = council /\ nodes' = nodes /\ agenda' = agenda
  BY DEF Aggregate, AllChecked
<1>2. \A check \in RedTeamChecks : red_team[check] \in Outcomes
  BY <1>1 DEF DeliberationIInv, ChecksFit, AllChecked
<1>3. \A check \in RedTeamChecks : red_team[check] # "running" BY DEF AllChecked
<1>4. ChecksFit'
  <2>1. red_team = [check \in RedTeamChecks |-> red_team[check]] BY DEF DeliberationIInv, ChecksFit
  <2> QED BY <1>1, <1>3, <2>1 DEF ChecksFit
<1>5. NotCalled /\ council = [m \in Members |-> council[m]] BY <1>1 DEF DeliberationIInv, MembersFit
<1>6. MembersFit' BY <1>1, <1>5 DEF MembersFit
<1>7. DissentIsKept' BY <1>1, <1>5 DEF DissentIsKept, NotCalled
<1>8. nodes = << >> /\ agenda = << >> BY <1>1 DEF DeliberationIInv
<1>9. FindingsWeigh'
  <2>1. judgement'.by = rule /\ judgement'.review = reviewed /\ judgement'.severity = severity BY <1>1
  <2>2. ASSUME NEW check \in RedTeamChecks, red_team[check] = "critical" PROVE judgement'.review
    <3>1. Overall = 4 BY <1>2, <2>2, OverallIs
    <3>2. reviewed = TRUE BY <3>1
    <3> QED BY <2>1, <3>2
  <2>3. ASSUME NEW check \in RedTeamChecks, red_team[check] = "system_error"
        PROVE  judgement'.severity >= 3 /\ (judgement'.review \/ judgement'.by = "model")
    <3>1. Overall \in 3 .. 4 BY <1>2, <2>3, OverallIs
    <3>2. CASE Overall = 3
      <4>1. severity = 3 /\ (rule = "model" \/ reviewed = TRUE) BY <3>2
      <4> QED BY <2>1, <4>1
    <3>3. CASE Overall = 4
      <4>1. severity = 4 /\ reviewed = TRUE BY <3>3
      <4> QED BY <2>1, <4>1
    <3> QED BY <3>1, <3>2, <3>3
  <2> QED BY <2>2, <2>3, <1>1 DEF FindingsWeigh
<1> QED BY <1>1, <1>4, <1>6, <1>7, <1>8, <1>9 DEF DeliberationIInv

-----------------------------------------------------------------------------
(* The council. *)
LEMMA CouncilKeeps ==
  ASSUME DeliberationIInv, stage' \in {"positions", "critiques"}, stage \in {"idle", "positions", "critiques"},
         council' = [m \in Members |-> council'[m]], UNCHANGED <<red_team, nodes, agenda, judgement>>
  PROVE  DeliberationIInv'
<1>1. NotAsked /\ red_team = [check \in RedTeamChecks |-> red_team[check]] BY DEF DeliberationIInv, ChecksFit
<1>2. ChecksFit' BY <1>1 DEF ChecksFit, NotAsked
<1>3. MembersFit' BY DEF MembersFit
<1>4. FindingsWeigh' /\ DissentIsKept' BY DEF FindingsWeigh, DissentIsKept
<1>5. TreeFits(nodes', agenda') /\ nodes' = << >> /\ agenda' = << >> BY DEF DeliberationIInv
<1>6. stage' # "done" OBVIOUS
<1> QED BY <1>2, <1>3, <1>4, <1>5, <1>6 DEF DeliberationIInv

(* The council ends with a judgement, or for want of one. *)
LEMMA CouncilEnds ==
  ASSUME DeliberationIInv, stage' = "done", stage \in {"positions", "critiques"}, AllAnswered,
         judgement'.by = "fallback" => judgement'.review /\ judgement'.dissent = Members,
         ~Readable => judgement'.by = "exception",
         UNCHANGED <<red_team, council, nodes, agenda>>
  PROVE  DeliberationIInv'
<1>1. NotAsked /\ red_team = [check \in RedTeamChecks |-> red_team[check]] BY DEF DeliberationIInv, ChecksFit
<1>2. ChecksFit' BY <1>1 DEF ChecksFit, NotAsked
<1>3. MembersFit' BY DEF DeliberationIInv, MembersFit
<1>4. FindingsWeigh' BY <1>1 DEF FindingsWeigh, NotAsked
<1>5. DissentIsKept' BY DEF DissentIsKept, Readable
<1>6. TreeFits(nodes', agenda') /\ nodes' = << >> /\ agenda' = << >> BY DEF DeliberationIInv
<1> QED BY <1>2, <1>3, <1>4, <1>5, <1>6 DEF DeliberationIInv

-----------------------------------------------------------------------------
(* The tree. *)
LEMMA QuestionsKeep ==
  ASSUME DeliberationIInv, stage \in {"idle", "questions"}, stage' = "questions", TreeFits(nodes', agenda'),
         UNCHANGED <<red_team, council, judgement>>
  PROVE  DeliberationIInv'
<1>1. NotAsked /\ red_team = [check \in RedTeamChecks |-> red_team[check]] BY DEF DeliberationIInv, ChecksFit
<1>2. ChecksFit' BY <1>1 DEF ChecksFit, NotAsked
<1>3. MembersFit' BY DEF DeliberationIInv, MembersFit, NotCalled
<1>4. FindingsWeigh' /\ DissentIsKept' BY DEF FindingsWeigh, DissentIsKept
<1> QED BY <1>2, <1>3, <1>4 DEF DeliberationIInv

(* A question becomes the root of a tree. *)
LEMMA DecomposeKeeps ==
  ASSUME DeliberationAssumption, DeliberationIInv, DecomposeQuestion PROVE DeliberationIInv'
<1>1. /\ stage = "idle" /\ stage' = "questions" /\ agenda' = << << >> >> /\ UNCHANGED <<red_team, council, judgement>>
      /\ nodes' = nodes /\ nodes = << >>
  BY DEF DecomposeQuestion, DeliberationIInv
<1>2. TreeFits(<< >>, << << >> >>)
  <2>1. DOMAIN << >> = {} OBVIOUS
  <2>2. << >> \in Paths /\ Len(<< >>) = 0 BY DEF Paths
  <2> DEFINE a == << << >> >>
  <2>3. Len(a) = 1 /\ a[1] = << >> OBVIOUS
  <2>4. a \in Seq(Paths) BY <2>2
  <2> HIDE DEF a
  <2>5. PathFits(<< >>, << >>) BY <2>2 DEF PathFits, DeliberationAssumption
  <2>6. \A i \in 1 .. Len(a) : i = 1 /\ a[i] = << >> BY <2>3
  <2>7. TreeFits(<< >>, a) BY <2>1, <2>4, <2>5, <2>6 DEF TreeFits
  <2> QED BY <2>7 DEF a
<1>3. TreeFits(nodes', agenda') BY <1>1, <1>2
<1> QED BY <1>1, <1>3, QuestionsKeep

(* A question of the agenda is settled, or has children that are put before*)
(* the others.                                                             *)
LEMMA SettleKeeps ==
  ASSUME DeliberationIInv, DeliberationAssumption, Asking, NEW children \in Nat, NEW outcome, Settle(outcome, children),
         outcome = "inner" <=> children > 0, children > 0 => Len(Head(agenda)) < MaxDepth
  PROVE  DeliberationIInv'
<1> DEFINE head == Head(agenda)
           ns == [path \in DOMAIN nodes \cup {head} |-> IF path = head THEN outcome ELSE nodes[path]]
           new == [i \in 1 .. children |-> Append(head, i)]
           rest == Tail(agenda)
           todo == new \o rest
<1>1. /\ stage = "questions" /\ stage' = "questions" /\ nodes' = ns /\ agenda' = todo /\ agenda # << >>
      /\ UNCHANGED <<red_team, council, judgement>>
  BY DEF Settle, Asking
<1>2. /\ \A path \in DOMAIN nodes : PathFits(path, nodes)
      /\ agenda \in Seq(Paths)
      /\ \A i \in 1 .. Len(agenda) : PathFits(agenda[i], nodes) /\ agenda[i] \notin DOMAIN nodes
      /\ \A i, j \in 1 .. Len(agenda) : agenda[i] = agenda[j] => i = j
      /\ \A path \in DOMAIN nodes : nodes[path] = "inner" =>
           Append(path, 1) \in DOMAIN nodes \/ \E i \in 1 .. Len(agenda) : agenda[i] = Append(path, 1)
  BY DEF DeliberationIInv, TreeFits
<1>3. /\ rest \in Seq(Paths) /\ Len(agenda) \in Nat \ {0} /\ Len(rest) = Len(agenda) - 1 /\ head = agenda[1]
      /\ \A i \in 1 .. Len(rest) : rest[i] = agenda[i + 1]
  BY <1>1, <1>2
<1>4. 1 \in 1 .. Len(agenda) BY <1>3
<1>5. PathFits(head, nodes) /\ head \notin DOMAIN nodes /\ head \in Seq(Nat) BY <1>2, <1>3, <1>4 DEF PathFits, Paths
<1>6. \A i \in 1 .. children : /\ new[i] = Append(head, i) /\ new[i] \in Paths /\ Front(new[i]) = head
                               /\ Len(new[i]) = Len(head) + 1 /\ new[i] # << >> /\ new[i][Len(head) + 1] = i
  <2> TAKE i \in 1 .. children
  <2>1. i \in Nat /\ new[i] = Append(head, i) OBVIOUS
  <2>2. Append(head, i)[Len(head) + 1] = i BY <1>5, <2>1
  <2> QED BY <2>1, <2>2, <1>5, FrontOfAppend DEF Paths
<1>7. new \in Seq(Paths) /\ Len(new) = children BY <1>6
<1> HIDE DEF new, rest, head
<1>8. /\ todo \in Seq(Paths) /\ Len(todo) = Len(new) + Len(rest)
      /\ \A i \in 1 .. Len(new) + Len(rest) : todo[i] = IF i <= Len(new) THEN new[i] ELSE rest[i - Len(new)]
  BY <1>3, <1>7, ConcatProperties
<1>9. DOMAIN ns = DOMAIN nodes \cup {head} /\ ns[head] = outcome /\ \A path \in DOMAIN nodes : ns[path] = nodes[path]
  BY <1>5
<1> HIDE DEF ns, todo
<1>10. \A path : PathFits(path, nodes) => PathFits(path, ns) BY <1>9 DEF PathFits
<1> DEFINE m == Len(rest)
<1>11. m \in Nat /\ Len(agenda) = m + 1 BY <1>3
<1>12. Len(todo) = children + m /\ \A i \in 1 .. children + m : todo[i] = IF i <= children THEN new[i] ELSE rest[i - children]
  BY <1>7, <1>8
<1>13. \A i \in 1 .. m : rest[i] = agenda[i + 1] /\ i + 1 \in 1 .. Len(agenda) BY <1>3, <1>11
<1> HIDE DEF m
<1>14. \A i \in 1 .. children + m :
         \/ i \in 1 .. children /\ todo[i] = new[i]
         \/ i - children \in 1 .. m /\ todo[i] = agenda[i - children + 1] /\ i - children + 1 \in 1 .. Len(agenda)
            /\ i - children + 1 # 1
  <2> TAKE i \in 1 .. children + m
  <2>1. CASE i <= children BY <2>1, <1>12
  <2>2. CASE ~(i <= children)
    <3>1. i - children \in 1 .. m BY <2>2, <1>11
    <3>2. todo[i] = rest[i - children] BY <2>2, <1>12
    <3> QED BY <3>1, <3>2, <1>13
  <2> QED BY <2>1, <2>2
<1>15. \A i \in 1 .. children : PathFits(new[i], ns) /\ new[i] \notin DOMAIN ns /\ \A j \in 1 .. Len(agenda) : agenda[j] # new[i]
  <2> TAKE i \in 1 .. children
  <2>1. children > 0 OBVIOUS
  <2>2. ns[head] = "inner" /\ Len(head) < MaxDepth BY <2>1, <1>9 DEF head
  <2>3. Len(new[i]) <= MaxDepth
    <3>1. Len(head) \in Nat BY <1>5
    <3> QED BY <2>2, <3>1, <1>6 DEF DeliberationAssumption
  <2>4. PathFits(new[i], ns) BY <2>2, <2>3, <1>6, <1>9 DEF PathFits
  <2>5. new[i] \notin DOMAIN nodes /\ \A j \in 1 .. Len(agenda) : agenda[j] # new[i]
    BY <1>2, <1>5, <1>6 DEF PathFits
  <2>6. new[i] # head BY <1>5, <1>6
  <2> QED BY <2>4, <2>5, <2>6, <1>9
<1>16. \A path \in DOMAIN ns : PathFits(path, ns) BY <1>2, <1>5, <1>9, <1>10
<1>17. \A i \in 1 .. Len(todo) : PathFits(todo[i], ns) /\ todo[i] \notin DOMAIN ns
  <2> SUFFICES ASSUME NEW i \in 1 .. children + m PROVE PathFits(todo[i], ns) /\ todo[i] \notin DOMAIN ns BY <1>12
  <2>1. CASE i \in 1 .. children /\ todo[i] = new[i] BY <2>1, <1>15
  <2>2. CASE todo[i] = agenda[i - children + 1] /\ i - children + 1 \in 1 .. Len(agenda) /\ i - children + 1 # 1
    <3>1. PathFits(todo[i], nodes) /\ todo[i] \notin DOMAIN nodes BY <2>2, <1>2
    <3>2. todo[i] # head BY <2>2, <1>2, <1>3, <1>4
    <3> QED BY <3>1, <3>2, <1>9, <1>10
  <2> QED BY <2>1, <2>2, <1>14
<1>18. \A i, j \in 1 .. Len(todo) : todo[i] = todo[j] => i = j
  <2> SUFFICES ASSUME NEW i \in 1 .. children + m, NEW j \in 1 .. children + m, todo[i] = todo[j] PROVE i = j BY <1>12
  <2>1. CASE i \in 1 .. children /\ j \in 1 .. children /\ todo[i] = new[i] /\ todo[j] = new[j]
    <3>1. new[i] = new[j] BY <2>1
    <3>2. new[i][Len(head) + 1] = i /\ new[j][Len(head) + 1] = j BY <2>1, <1>6
    <3> QED BY <3>1, <3>2
  <2>2. CASE i \in 1 .. children /\ todo[i] = new[i] /\ todo[j] = agenda[j - children + 1] /\ j - children + 1 \in 1 .. Len(agenda)
    BY <2>2, <1>15
  <2>3. CASE j \in 1 .. children /\ todo[j] = new[j] /\ todo[i] = agenda[i - children + 1] /\ i - children + 1 \in 1 .. Len(agenda)
    BY <2>3, <1>15
  <2>4. CASE /\ todo[j] = agenda[j - children + 1] /\ j - children + 1 \in 1 .. Len(agenda)
             /\ todo[i] = agenda[i - children + 1] /\ i - children + 1 \in 1 .. Len(agenda)
    <3>1. i - children + 1 = j - children + 1 BY <2>4, <1>2
    <3> QED BY <3>1
  <2> QED BY <2>1, <2>2, <2>3, <2>4, <1>14
<1>19. ASSUME NEW path \in DOMAIN ns, ns[path] = "inner"
       PROVE  Append(path, 1) \in DOMAIN ns \/ \E i \in 1 .. Len(todo) : todo[i] = Append(path, 1)
  <2>1. CASE path = head
    <3>1. children > 0 BY <2>1, <1>9, <1>19
    <3>2. 1 \in 1 .. children /\ 1 \in 1 .. children + m /\ 1 <= children BY <3>1, <1>11
    <3>3. todo[1] = new[1] BY <3>2, <1>12
    <3>4. new[1] = Append(head, 1) BY <3>2, <1>6
    <3> QED BY <2>1, <3>2, <3>3, <3>4, <1>12
  <2>2. CASE path # head
    <3>1. path \in DOMAIN nodes /\ nodes[path] = "inner" BY <2>2, <1>9, <1>19
    <3>2. CASE Append(path, 1) \in DOMAIN nodes BY <3>2, <1>9
    <3>3. CASE \E i \in 1 .. Len(agenda) : agenda[i] = Append(path, 1)
      <4>1. PICK i \in 1 .. Len(agenda) : agenda[i] = Append(path, 1) BY <3>3
      <4>2. CASE i = 1 BY <4>1, <4>2, <1>3, <1>9
      <4>3. CASE i # 1
        <5> DEFINE k == children + i - 1
        <5>1. k \in 1 .. children + m /\ ~(k <= children) /\ k - children = i - 1 /\ i - 1 \in 1 .. m /\ (i - 1) + 1 = i
          BY <4>3, <1>11
        <5> HIDE DEF k
        <5>2. todo[k] = rest[i - 1] BY <5>1, <1>12
        <5>3. rest[i - 1] = agenda[i] BY <5>1, <1>13
        <5> QED BY <4>1, <5>1, <5>2, <5>3, <1>12
      <4> QED BY <4>2, <4>3
    <3> QED BY <3>1, <3>2, <3>3, <1>2
  <2> QED BY <2>1, <2>2
<1>20. TreeFits(ns, todo) BY <1>8, <1>16, <1>17, <1>18, <1>19 DEF TreeFits
<1> QED BY <1>1, <1>20, QuestionsKeep

(* The answer is put together when nothing is left to settle. *)
LEMMA ReconstructKeeps ==
  ASSUME DeliberationIInv, Reconstruct PROVE DeliberationIInv'
<1>1. /\ stage = "questions" /\ agenda = << >> /\ stage' = "done" /\ judgement'.truths = Leaves
      /\ red_team' = red_team /\ council' = council /\ nodes' = nodes /\ agenda' = agenda
  BY DEF Reconstruct
<1>2. NotAsked /\ NotCalled /\ red_team = [check \in RedTeamChecks |-> red_team[check]]
      /\ council = [m \in Members |-> council[m]]
  BY <1>1 DEF DeliberationIInv, ChecksFit, MembersFit
<1>3. ChecksFit' /\ MembersFit' BY <1>1, <1>2 DEF ChecksFit, MembersFit, NotAsked
<1>4. FindingsWeigh' /\ DissentIsKept' BY <1>1, <1>2 DEF FindingsWeigh, DissentIsKept, NotAsked, NotCalled
<1>5. Leaves' = Leaves BY <1>1 DEF Leaves
<1> QED BY <1>1, <1>3, <1>4, <1>5 DEF DeliberationIInv

(* Every step of the deliberations preserves the invariant. *)
LEMMA DeliberationNextIInv ==
  ASSUME DeliberationAssumption, DeliberationIInv, [DeliberationNext]_deliberationVars
  PROVE  DeliberationIInv'
<1>1. CASE Analyze BY <1>1, AnalyzeKeeps
<1>2. ASSUME NEW check \in RedTeamChecks, CheckReturns(check) \/ CheckUnparsed(check) \/ CheckFails(check)
      PROVE  DeliberationIInv'
  <2>1. \E outcome \in Outcomes : CheckEnds(check, outcome)
    BY <1>2 DEF CheckReturns, CheckUnparsed, CheckFails, Outcomes
  <2> QED BY <2>1, CheckEndsKeeps
<1>3. CASE NothingFound
  <2>1. AllChecked /\ Overall = 0 /\ Aggregate("rule", FALSE, 1) BY <1>3 DEF NothingFound
  <2>2. Overall # 3 /\ Overall # 4 BY <2>1
  <2> QED BY <2>1, <2>2, AggregateKeeps
<1>4. CASE CriticalFound
  <2>1. AllChecked /\ Overall = 4 /\ Aggregate("rule", TRUE, 4) BY <1>4 DEF CriticalFound
  <2>2. Overall # 3 BY <2>1
  <2> QED BY <2>1, <2>2, AggregateKeeps
<1>5. CASE ModelAggregates
  <2>1. AllChecked /\ Overall \in 1 .. 3 BY <1>5 DEF ModelAggregates
  <2>2. PICK reviewed \in BOOLEAN : Aggregate("model", reviewed, Overall) BY <1>5 DEF ModelAggregates
  <2>3. Overall # 4 BY <2>1
  <2> QED BY <2>1, <2>2, <2>3, AggregateKeeps
<1>6. CASE AggregationFails
  <2>1. AllChecked /\ Overall \in 1 .. 3 /\ Aggregate("fallback", Overall = 3, Overall) BY <1>6 DEF AggregationFails
  <2>2. Overall # 4 BY <2>1
  <2>3. Overall = 3 => (Overall = 3) = TRUE OBVIOUS
  <2> QED BY <2>1, <2>2, <2>3, AggregateKeeps
<1>7. CASE Deliberate
  <2>1. council' = [m \in Members |-> council'[m]] BY <1>7 DEF Deliberate
  <2> QED BY <1>7, <2>1, CouncilKeeps DEF Deliberate
<1>8. ASSUME NEW m \in Members, MemberAnswers(m) PROVE DeliberationIInv'
  <2>1. council = [n \in Members |-> council[n]] BY DEF DeliberationIInv, MembersFit
  <2>2. council' = [n \in Members |-> council'[n]] BY <1>8, <2>1 DEF MemberAnswers
  <2>3. stage \in {"positions", "critiques"} /\ stage' = stage /\ UNCHANGED <<red_team, nodes, agenda, judgement>>
    BY <1>8 DEF MemberAnswers
  <2> QED BY <2>2, <2>3, CouncilKeeps
<1>9. CASE Raise
  <2>1. judgement'.by = "exception" BY <1>9 DEF Raise
  <2> QED BY <1>9, <2>1, CouncilEnds DEF Raise
<1>10. CASE Criticise
  <2>1. council' = [m \in Members |-> council'[m]] BY <1>10 DEF Criticise
  <2> QED BY <1>10, <2>1, CouncilKeeps DEF Criticise
<1>11. CASE Synthesize
  <2>1. judgement'.by = "model" BY <1>11 DEF Synthesize
  <2> QED BY <1>11, <2>1, CouncilEnds DEF Synthesize
<1>12. CASE SynthesisFails
  <2>1. judgement'.review = TRUE /\ judgement'.dissent = Members BY <1>12 DEF SynthesisFails
  <2> QED BY <1>12, <2>1, CouncilEnds DEF SynthesisFails
<1>13. CASE DecomposeQuestion BY <1>13, DecomposeKeeps
<1>14. CASE FundamentalAnswer
  <2>1. Asking /\ Settle("fundamental", 0) BY <1>14 DEF FundamentalAnswer
  <2>2. 0 \in Nat /\ ~(0 > 0) OBVIOUS
  <2> QED BY <2>1, <2>2, SettleKeeps
<1>15. CASE Subdivide
  <2>1. Asking /\ Len(Head(agenda)) < MaxDepth BY <1>15 DEF Subdivide
  <2>2. PICK asked \in 0 .. MaxBranches + 1 :
          IF asked = 0 THEN Settle("fundamental", 0) ELSE Settle("inner", Min({asked, MaxBranches}))
    BY <1>15 DEF Subdivide
  <2>3. CASE asked = 0
    <3>1. 0 \in Nat /\ ~(0 > 0) OBVIOUS
    <3> QED BY <2>1, <2>2, <2>3, <3>1, SettleKeeps
  <2>4. CASE asked # 0
    <3> DEFINE M == {asked, MaxBranches}
    <3>1. asked \in Nat \ {0} /\ MaxBranches \in Nat \ {0} BY <2>4 DEF DeliberationAssumption
    <3>2. M \in SUBSET Nat /\ M # {} BY <3>1
    <3>3. \A x \in M : x > 0 BY <3>1
    <3> HIDE DEF M
    <3>4. Min(M) \in M BY <3>2, LeastOf
    <3>5. Min(M) \in Nat /\ Min(M) > 0 BY <3>2, <3>3, <3>4
    <3>6. Settle("inner", Min(M)) BY <2>2, <2>4 DEF M
    <3> QED BY <2>1, <3>5, <3>6, SettleKeeps
  <2> QED BY <2>3, <2>4
<1>16. CASE DecompositionFails
  <2>1. Asking /\ Settle("failed", 0) BY <1>16 DEF DecompositionFails
  <2>2. 0 \in Nat /\ ~(0 > 0) OBVIOUS
  <2> QED BY <2>1, <2>2, SettleKeeps
<1>17. CASE Reconstruct BY <1>17, ReconstructKeeps
<1>18. CASE UNCHANGED deliberationVars
  BY <1>18 DEF deliberationVars, DeliberationIInv, ChecksFit, MembersFit, NotAsked, NotCalled, FindingsWeigh, DissentIsKept, Leaves
<1> QED BY <1>1, <1>2, <1>3, <1>4, <1>5, <1>6, <1>7, <1>8, <1>9, <1>10, <1>11, <1>12, <1>13, <1>14, <1>15, <1>16, <1>17, <1>18
        DEF DeliberationNext

(* The invariant implies what deliberations promise. *)
LEMMA DeliberationIInvSound == ASSUME DeliberationAssumption, DeliberationIInv PROVE DeliberationIsSound
<1>1. \A path \in DOMAIN nodes : PathFits(path, nodes) BY DEF DeliberationIInv, TreeFits
<1>2. \A path \in DOMAIN nodes : /\ Len(path) <= MaxDepth
                                 /\ path # << >> => Front(path) \in DOMAIN nodes /\ nodes[Front(path)] = "inner"
  BY <1>1 DEF PathFits
<1>3. ASSUME stage = "done", NEW path \in DOMAIN nodes
      PROVE  nodes[path] = "inner" <=> Append(path, 1) \in DOMAIN nodes
  <2>1. path \in Seq(Nat) BY <1>1 DEF PathFits, Paths
  <2>2. Front(Append(path, 1)) = path /\ Append(path, 1) # << >> BY <2>1, FrontOfAppend
  <2>3. Append(path, 1) \in DOMAIN nodes => nodes[path] = "inner" BY <2>2, <1>2
  <2>4. agenda = << >> BY <1>3 DEF DeliberationIInv
  <2>5. Len(agenda) = 0 BY <2>4
  <2>6. ~ \E i \in 1 .. Len(agenda) : TRUE BY <2>5
  <2>7. nodes[path] = "inner" => Append(path, 1) \in DOMAIN nodes BY <2>6 DEF DeliberationIInv, TreeFits
  <2> QED BY <2>3, <2>7
<1>4. stage = "done" /\ nodes # << >> => judgement.truths = Leaves BY DEF DeliberationIInv
<1>5. TreeIsComplete BY <1>2, <1>3, <1>4 DEF TreeIsComplete
<1> QED BY <1>5 DEF DeliberationIInv, DeliberationIsSound

(* The inductive invariant holds in every reachable state. *)
LEMMA DeliberationInvariance == DeliberationSpec => []DeliberationIInv
<1>1. DeliberationInit => DeliberationIInv
  BY DeliberationInitIInv, DeliberationAssumption
<1>2. DeliberationIInv /\ [DeliberationNext]_deliberationVars => DeliberationIInv'
  BY DeliberationNextIInv, DeliberationAssumption
<1>3. QED BY <1>1, <1>2, PTL DEF DeliberationSpec

-----------------------------------------------------------------------------
(* Reasoning.                                                              *)

(* Nothing less a penalty is nothing. *)
LEMMA PenalisedNothing == Penalised(0, 10, 1, 30) = 0
<1> DEFINE M == {10 * 1, 30}
           x == 0 - Min(M)
           S == {0, x}
<1>1. M \in SUBSET Nat /\ M # {} /\ \A m \in M : m > 0 OBVIOUS
<1>2. Min(M) \in M
  <2> HIDE DEF M
  <2> QED BY <1>1, LeastOf
<1>3. Min(M) \in Nat /\ Min(M) > 0 BY <1>1, <1>2
<1>4. x \in Int /\ x < 0 BY <1>3
<1> HIDE DEF x
<1>5. \A y \in S : 0 >= y BY <1>4
<1>6. \A z \in S : (\A y \in S : z >= y) => z = 0 BY <1>4
<1>7. Max(S) = CHOOSE z \in S : \A y \in S : z >= y BY DEF Max
<1>8. 0 \in S OBVIOUS
<1> HIDE DEF S
<1>9. Max(S) = 0 BY <1>5, <1>6, <1>7, <1>8
<1> QED BY <1>9 DEF Penalised, S, x, M

(* Places in the order by falling score. *)
Precedes(o, b, score) == score[o] > score[b] \/ (score[o] = score[b] /\ o < b)

FirstOf(A, score, w) == {b \in A : Place(b, A, score) < w}

(* Branches have places, and those that come before have the lower ones. *)
LEMMA PlaceIs ==
  ASSUME NEW n \in Nat, NEW A \in SUBSET (1 .. n), A # {}, NEW score, \A a \in A : score[a] \in Int
  PROVE  /\ IsFiniteSet(A)
         /\ \A b \in A : Place(b, A, score) \in Nat
         /\ \A a, b \in A : a # b => Precedes(a, b, score) \/ Precedes(b, a, score)
         /\ \A a, b \in A : Precedes(a, b, score) => Place(a, A, score) < Place(b, A, score)
         /\ \E b \in A : Place(b, A, score) = 0 /\ \A a \in A : ~Precedes(a, b, score)
         /\ \A w \in Nat : Cardinality(FirstOf(A, score, w)) <= w
<1> DEFINE In(b) == {o \in A : Precedes(o, b, score)}
           P(b) == Place(b, A, score)
<1>1. \A b : P(b) = Cardinality(In(b)) BY DEF Place, Precedes
<1>2. IsFiniteSet(A)
  <2>1. IsFiniteSet(1 .. n) BY FirstNumbers
  <2> QED BY <2>1, FS_Subset
<1>3. \A b : In(b) \subseteq A OBVIOUS
<1>4. \A b : IsFiniteSet(In(b)) /\ Cardinality(In(b)) \in Nat
  <2> TAKE b
  <2>1. In(b) \subseteq A BY <1>3
  <2> HIDE DEF In
  <2> QED BY <1>2, <2>1, FS_Subset, FS_CardinalityType
<1>5. \A a \in A : a \in Int OBVIOUS
<1>6. \A a, b \in A : a # b => Precedes(a, b, score) \/ Precedes(b, a, score)
  <2> TAKE a, b \in A
  <2>1. score[a] \in Int /\ score[b] \in Int /\ a \in Int /\ b \in Int BY <1>5
  <2> QED BY <2>1 DEF Precedes
<1>7. \A a, b, c \in A : Precedes(a, b, score) /\ Precedes(b, c, score) => Precedes(a, c, score)
  <2> TAKE a, b, c \in A
  <2>1. score[a] \in Int /\ score[b] \in Int /\ score[c] \in Int /\ a \in Int /\ b \in Int /\ c \in Int BY <1>5
  <2> QED BY <2>1 DEF Precedes
<1>8. \A a, b \in A : ~(Precedes(a, b, score) /\ Precedes(b, a, score))
  <2> TAKE a, b \in A
  <2>1. score[a] \in Int /\ score[b] \in Int /\ a \in Int /\ b \in Int BY <1>5
  <2> QED BY <2>1 DEF Precedes
<1>9. \A a, b \in A : Precedes(a, b, score) => Cardinality(In(a)) < Cardinality(In(b))
  <2> SUFFICES ASSUME NEW a \in A, NEW b \in A, Precedes(a, b, score) PROVE Cardinality(In(a)) < Cardinality(In(b))
    OBVIOUS
  <2>1. In(a) \subseteq In(b) BY <1>7
  <2>2. a \in In(b) /\ a \notin In(a) BY <1>8
  <2>3. IsFiniteSet(In(b)) /\ IsFiniteSet(In(a)) BY <1>4
  <2> HIDE DEF In
  <2>4. In(a) # In(b) BY <2>2
  <2>5. Cardinality(In(a)) <= Cardinality(In(b)) /\ (Cardinality(In(a)) = Cardinality(In(b)) => In(a) = In(b))
    BY <2>1, <2>3, FS_Subset
  <2> QED BY <2>4, <2>5, <1>4
<1>10. PICK b \in A : \A a \in A : ~Precedes(a, b, score)
  <2> DEFINE R == {ab \in A \X A : Precedes(ab[2], ab[1], score)}
  <2>1. \A a, c : <<a, c>> \in R <=> (a \in A /\ c \in A /\ Precedes(c, a, score)) OBVIOUS
  <2> HIDE DEF R
  <2>2. IsOrder(R, A) BY <2>1, <1>6, <1>7, <1>8 DEF IsOrder
  <2>3. PICK b \in A : \A y \in A : y # b => <<y, b>> \in R BY <1>2, <2>2, LastExists
  <2>4. \A a \in A : ~Precedes(a, b, score) BY <2>1, <2>3, <1>8
  <2> QED BY <2>4
<1>11. P(b) = 0
  <2>1. In(b) = {} BY <1>10
  <2>2. Cardinality({}) = 0 BY FS_EmptySet
  <2> HIDE DEF In, P
  <2> QED BY <2>1, <2>2, <1>1
<1> HIDE DEF In
<1>12. \A a, c \in A : Precedes(a, c, score) => P(a) < P(c)
  <2> HIDE DEF P
  <2> QED BY <1>1, <1>9
<1>13. \A a : P(a) \in Nat
  <2> HIDE DEF P
  <2> QED BY <1>1, <1>4
<1>14. ASSUME NEW w \in Nat PROVE Cardinality(FirstOf(A, score, w)) <= w
  <2> HIDE DEF P
  <2> DEFINE C == {c \in A : P(c) < w}
             f == [c \in C |-> P(c) + 1]
  <2>1. \A c \in C : P(c) + 1 \in 1 .. w BY <1>13
  <2>2. f \in [C -> 1 .. w] BY <2>1
  <2>3. \A a, c \in C : f[a] = f[c] => a = c
    <3> SUFFICES ASSUME NEW a \in C, NEW c \in C, f[a] = f[c] PROVE a = c OBVIOUS
    <3>1. P(a) + 1 = P(c) + 1 /\ a \in A /\ c \in A OBVIOUS
    <3>2. P(a) = P(c) BY <3>1, <1>13
    <3> QED BY <3>1, <3>2, <1>6, <1>12, <1>13
  <2> HIDE DEF f, C
  <2>4. f \in Injection(C, 1 .. w) BY <2>2, <2>3 DEF Injection, IsInjective
  <2>5. IsFiniteSet(1 .. w) /\ Cardinality(1 .. w) = w BY FirstNumbers
  <2>6. Cardinality(C) <= w BY <2>4, <2>5, FS_Injection
  <2>7. FirstOf(A, score, w) = C BY DEF FirstOf, C, P
  <2> QED BY <2>6, <2>7
<1> QED BY <1>2, <1>6, <1>10, <1>11, <1>12, <1>13, <1>14

-----------------------------------------------------------------------------
Strategies == {"chain_of_thought", "tree_of_thought", "self_consistency", "retrieval_augmented_reasoning", "specialist"}

ChainFits == strategy = "chain_of_thought" /\ phase = "verify" /\ outage => draft.confidence = 0

(* What has been left behind in the last round is not better than what is  *)
(* still alive.                                                            *)
BeamFits ==
  /\ DOMAIN draft = {"branches", "rounds"} /\ draft.rounds \in Nat
  /\ \E n \in Nat : DOMAIN draft.branches = 1 .. n
  /\ \A b \in DOMAIN draft.branches : /\ draft.branches[b].score \in 0 .. 10 /\ draft.branches[b].steps \in 0 .. draft.rounds
                                      /\ outage => draft.branches[b].score = 5
  /\ Alive # {} /\ (draft.rounds > 0 => Cardinality(Alive) <= BeamWidth)
  /\ \A b \in Alive : draft.branches[b].steps = draft.rounds
  /\ \A b \in DOMAIN draft.branches, a \in Alive :
       draft.branches[b].steps = draft.rounds /\ b \notin Alive => draft.branches[b].score <= draft.branches[a].score
BranchesFit ==
  strategy = "tree_of_thought" =>
    /\ phase \in {"start", "round", "done"}
    /\ phase = "start" => draft = Nothing
    /\ phase # "start" => BeamFits

AnswersFit ==
  strategy = "self_consistency" /\ phase \in {"vote", "done"} /\ outage =>
    \A i \in 1 .. NumSamples : draft.answers[i] = Failed(i)

AttemptFits ==
  strategy = "retrieval_augmented_reasoning" /\ phase # "start" =>
    /\ DOMAIN draft = {"confidence", "complete", "failed", "retrieved", "queries"}
    /\ outage => draft.confidence = 0

SpecialistFits ==
  strategy = "specialist" =>
    /\ DOMAIN draft = {"critical", "confidence"} /\ draft.confidence \in Int
    /\ outage => draft.confidence = 0

ReasoningIInv ==
  /\ phase = "idle" => strategy = "none" /\ draft = Nothing
  /\ phase # "idle" => strategy \in Strategies
  /\ ChainFits /\ BranchesFit /\ AnswersFit /\ AttemptFits /\ SpecialistFits
  /\ phase = "done" => ReasoningIsSound

(* Nothing is reasoned at first. *)
LEMMA ReasoningInitIInv == ASSUME ReasoningInit PROVE ReasoningIInv
BY DEF ReasoningInit, ReasoningIInv, ChainFits, BranchesFit, AnswersFit, AttemptFits, SpecialistFits

(* The branches that are kept are the best of those there were. *)
LEMMA BeamFitsKept ==
  ASSUME BranchesFit, strategy = "tree_of_thought", phase # "done", phase # "idle"
  PROVE  BeamIsKept
<1>1. CASE phase = "start"
  <2>1. draft = [confidence |-> 0] BY <1>1 DEF BranchesFit, Nothing
  <2>2. "branches" \notin DOMAIN draft BY <2>1
  <2> QED BY <2>2 DEF BeamIsKept, Has
<1>2. CASE phase # "start"
  <2>1. BeamFits BY <1>2 DEF BranchesFit
  <2>2. ~Concluded BY DEF Concluded
  <2> QED BY <2>1, <2>2 DEF BeamFits, BeamIsKept
<1> QED BY <1>1, <1>2

(* The invariant implies what the strategies promise. *)
LEMMA ReasoningIInvSound == ASSUME ReasoningIInv PROVE ReasoningIsSound
<1>1. CASE phase = "done" BY <1>1 DEF ReasoningIInv
<1>2. CASE phase # "done"
  <2>1. ~Concluded BY <1>2 DEF Concluded
  <2>2. OutageIsWorthDefaults /\ MajorityWins /\ CriticalIsVerified
    BY <2>1 DEF OutageIsWorthDefaults, MajorityWins, CriticalIsVerified
  <2>3. BeamIsKept
    <3>1. CASE strategy # "tree_of_thought" BY <3>1 DEF BeamIsKept
    <3>2. CASE strategy = "tree_of_thought"
      <4>1. phase # "idle" /\ BranchesFit BY <3>2 DEF ReasoningIInv
      <4> QED BY <1>2, <3>2, <4>1, BeamFitsKept
    <3> QED BY <3>1, <3>2
  <2> QED BY <2>2, <2>3 DEF ReasoningIsSound
<1> QED BY <1>1, <1>2

-----------------------------------------------------------------------------
(* A step that goes on keeps what is known of its own strategy. *)
LEMMA ProceedKeeps ==
  ASSUME strategy' = strategy, strategy \in Strategies, phase' \notin {"idle", "done"},
         ChainFits', BranchesFit', AnswersFit', AttemptFits', SpecialistFits'
  PROVE  ReasoningIInv'
BY DEF ReasoningIInv

(* What a step of the chain of thought has to show. *)
LEMMA ChainKeeps ==
  ASSUME strategy' = "chain_of_thought", phase' \notin {"idle"}, ChainFits',
         phase' = "done" /\ "confidence" \in DOMAIN reasoned' /\ outage' => reasoned'.confidence = 0
  PROVE  ReasoningIInv'
<1>1. BranchesFit' /\ AnswersFit' /\ AttemptFits' /\ SpecialistFits'
  BY DEF BranchesFit, AnswersFit, AttemptFits, SpecialistFits
<1>2. strategy' \in Strategies BY DEF Strategies
<1>3. BeamIsKept' /\ MajorityWins' /\ CriticalIsVerified' BY DEF BeamIsKept, MajorityWins, CriticalIsVerified
<1>4. phase' = "done" => OutageIsWorthDefaults' BY DEF OutageIsWorthDefaults, Concluded, Has
<1> QED BY <1>1, <1>2, <1>3, <1>4 DEF ReasoningIInv, ReasoningIsSound

(* What a step of the retrieval augmented reasoning has to show. *)
LEMMA AttemptKeeps ==
  ASSUME strategy' = "retrieval_augmented_reasoning", phase' \notin {"idle"}, AttemptFits',
         phase' = "done" /\ "confidence" \in DOMAIN reasoned' /\ outage' => reasoned'.confidence = 0
  PROVE  ReasoningIInv'
<1>1. BranchesFit' /\ AnswersFit' /\ ChainFits' /\ SpecialistFits'
  BY DEF BranchesFit, AnswersFit, ChainFits, SpecialistFits
<1>2. strategy' \in Strategies BY DEF Strategies
<1>3. BeamIsKept' /\ MajorityWins' /\ CriticalIsVerified' BY DEF BeamIsKept, MajorityWins, CriticalIsVerified
<1>4. phase' = "done" => OutageIsWorthDefaults' BY DEF OutageIsWorthDefaults, Concluded, Has
<1> QED BY <1>1, <1>2, <1>3, <1>4 DEF ReasoningIInv, ReasoningIsSound

(* What a step of a specialist has to show. *)
LEMMA SpecialistKeeps ==
  ASSUME strategy' = "specialist", phase' \notin {"idle"}, SpecialistFits', CriticalIsVerified',
         phase' = "done" /\ "confidence" \in DOMAIN reasoned' /\ outage' => reasoned'.confidence = 0 /\ reasoned'.review
  PROVE  ReasoningIInv'
<1>1. BranchesFit' /\ AnswersFit' /\ ChainFits' /\ AttemptFits'
  BY DEF BranchesFit, AnswersFit, ChainFits, AttemptFits
<1>2. strategy' \in Strategies BY DEF Strategies
<1>3. BeamIsKept' /\ MajorityWins' BY DEF BeamIsKept, MajorityWins
<1>4. phase' = "done" => OutageIsWorthDefaults' BY DEF OutageIsWorthDefaults, Concluded, Has
<1> QED BY <1>1, <1>2, <1>3, <1>4 DEF ReasoningIInv, ReasoningIsSound

(* What a step of the self-consistency has to show. *)
LEMMA SamplesKeep ==
  ASSUME strategy' = "self_consistency", phase' \notin {"idle"}, AnswersFit', phase' = "done" => MajorityWins',
         phase' = "done" /\ outage' => reasoned'.confidence = 40 + 60 \div NumSamples
  PROVE  ReasoningIInv'
<1>1. BranchesFit' /\ ChainFits' /\ AttemptFits' /\ SpecialistFits'
  BY DEF BranchesFit, ChainFits, AttemptFits, SpecialistFits
<1>2. strategy' \in Strategies BY DEF Strategies
<1>3. BeamIsKept' /\ CriticalIsVerified' BY DEF BeamIsKept, CriticalIsVerified
<1>4. phase' = "done" => OutageIsWorthDefaults' BY DEF OutageIsWorthDefaults, Concluded, Has
<1> QED BY <1>1, <1>2, <1>3, <1>4 DEF ReasoningIInv, ReasoningIsSound

(* What a step of the tree of thought has to show. *)
LEMMA TreeKeeps ==
  ASSUME strategy' = "tree_of_thought", phase' \notin {"idle"}, BranchesFit', phase' = "done" => BeamIsKept',
         phase' = "done" /\ outage' => reasoned'.confidence = 50
  PROVE  ReasoningIInv'
<1>1. AnswersFit' /\ ChainFits' /\ AttemptFits' /\ SpecialistFits'
  BY DEF AnswersFit, ChainFits, AttemptFits, SpecialistFits
<1>2. strategy' \in Strategies BY DEF Strategies
<1>3. MajorityWins' /\ CriticalIsVerified' BY DEF MajorityWins, CriticalIsVerified
<1>4. phase' = "done" => OutageIsWorthDefaults' BY DEF OutageIsWorthDefaults, Concluded, Has
<1> QED BY <1>1, <1>2, <1>3, <1>4 DEF ReasoningIInv, ReasoningIsSound

-----------------------------------------------------------------------------
(* Beginning. *)
LEMMA RouteKeeps == ASSUME ReasoningIInv, Route PROVE ReasoningIInv'
<1>1. phase' = "start" /\ draft' = draft /\ draft = Nothing BY DEF Route, ReasoningIInv
<1>2. strategy' \in Strategies \ {"specialist"}
  <2>1. PICK override \in {"none", "chain_of_thought"}, complexity \in {"low", "medium", "high"},
             task \in {"safety_critical", "knowledge_intensive", "planning", "simple", "general"} :
          strategy' = SelectStrategy(override, task, complexity, "chain_of_thought")
    BY DEF Route
  <2>2. CASE override # "none" BY <2>1, <2>2 DEF SelectStrategy, Strategies
  <2>3. CASE override = "none" /\ task = "safety_critical" BY <2>1, <2>3 DEF SelectStrategy, Strategies
  <2>4. CASE override = "none" /\ task = "knowledge_intensive" BY <2>1, <2>4 DEF SelectStrategy, Strategies
  <2>5. CASE override = "none" /\ task = "planning" BY <2>1, <2>5 DEF SelectStrategy, Strategies
  <2>6. CASE override = "none" /\ task = "simple" BY <2>1, <2>6 DEF SelectStrategy, Strategies
  <2>7. CASE override = "none" /\ task = "general" BY <2>1, <2>7 DEF SelectStrategy, Strategies
  <2> QED BY <2>2, <2>3, <2>4, <2>5, <2>6, <2>7
<1> QED BY <1>1, <1>2 DEF ReasoningIInv, ChainFits, BranchesFit, AnswersFit, AttemptFits, SpecialistFits

(* A specialist begins. *)
LEMMA BeginSpecialistKeeps == ASSUME ReasoningIInv, BeginSpecialist PROVE ReasoningIInv'
<1>1. phase' = "start" /\ strategy' = "specialist" BY DEF BeginSpecialist
<1>2. PICK critical \in BOOLEAN : draft' = [critical |-> critical, confidence |-> 0] BY DEF BeginSpecialist
<1>3. DOMAIN draft' = {"critical", "confidence"} /\ draft'.confidence = 0 BY <1>2
<1>4. SpecialistFits' BY <1>3 DEF SpecialistFits
<1>5. CriticalIsVerified' BY <1>1 DEF CriticalIsVerified, Concluded
<1> QED BY <1>1, <1>4, <1>5, SpecialistKeeps

-----------------------------------------------------------------------------
(* A chain of thought. *)
LEMMA ThinkKeeps == ASSUME ReasoningIInv, Think PROVE ReasoningIInv'
<1>1. strategy' = "chain_of_thought" BY DEF Think, Call
<1>2. CASE \E c \in Confidences : Proceed("verify", [confidence |-> c], FALSE)
  <2>1. phase' = "verify" /\ ~outage' BY <1>2 DEF Proceed
  <2> QED BY <1>1, <2>1, ChainKeeps DEF ChainFits
<1>3. CASE Proceed("verify", [confidence |-> 20], FALSE)
  <2>1. phase' = "verify" /\ ~outage' BY <1>3 DEF Proceed
  <2> QED BY <1>1, <2>1, ChainKeeps DEF ChainFits
<1>4. CASE Proceed("verify", [confidence |-> 0], TRUE)
  <2>1. phase' = "verify" /\ draft'.confidence = 0 BY <1>4 DEF Proceed
  <2> QED BY <1>1, <2>1, ChainKeeps DEF ChainFits
<1>5. CASE Malformed
  <2>1. phase' = "done" /\ ~outage' BY <1>5 DEF Malformed, Finish
  <2> QED BY <1>1, <2>1, ChainKeeps DEF ChainFits
<1> QED BY <1>2, <1>3, <1>4, <1>5 DEF Think

(* A chain is verified, or its verification fails. *)
LEMMA VerifyChainKeeps == ASSUME ReasoningIInv, VerifyChain PROVE ReasoningIInv'
<1>1. strategy' = "chain_of_thought" /\ strategy = "chain_of_thought" /\ phase = "verify" BY DEF VerifyChain, Call
<1>2. CASE \E c \in Confidences, issues \in 0 .. 4 : Finish([confidence |-> Penalised(c, 10, issues, 30)], FALSE)
  <2>1. phase' = "done" /\ ~outage' BY <1>2 DEF Finish
  <2> QED BY <1>1, <2>1, ChainKeeps DEF ChainFits
<1>3. CASE Finish([confidence |-> Penalised((draft.confidence * 9) \div 10, 10, 1, 30)], FALSE)
  <2>1. phase' = "done" /\ ~outage' BY <1>3 DEF Finish
  <2> QED BY <1>1, <2>1, ChainKeeps DEF ChainFits
<1>4. CASE Finish([confidence |-> Penalised((draft.confidence * 8) \div 10, 10, 1, 30)], TRUE)
  <2>1. phase' = "done" /\ (outage' => outage) /\ reasoned'.confidence = Penalised((draft.confidence * 8) \div 10, 10, 1, 30)
    BY <1>4 DEF Finish
  <2>2. outage => draft.confidence = 0 BY <1>1 DEF ReasoningIInv, ChainFits
  <2>3. (0 * 8) \div 10 = 0 OBVIOUS
  <2>4. outage' => reasoned'.confidence = 0 BY <2>1, <2>2, <2>3, PenalisedNothing
  <2> QED BY <1>1, <2>1, <2>4, ChainKeeps DEF ChainFits
<1> QED BY <1>2, <1>3, <1>4 DEF VerifyChain

-----------------------------------------------------------------------------
(* Retrieval-augmented reasoning. *)
AttemptFields == {"confidence", "complete", "failed", "retrieved", "queries"}

(* The retrieval augmented reasoning has its first attempt. *)
LEMMA AttemptedKeeps == ASSUME ReasoningIInv, Attempt PROVE ReasoningIInv'
<1>1. strategy' = "retrieval_augmented_reasoning" BY DEF Attempt, Call
<1>2. CASE \E c \in Confidences, complete \in BOOLEAN, readable \in BOOLEAN :
             Proceed("attempted", [confidence |-> c, complete |-> complete, failed |-> ~readable,
                                   retrieved |-> FALSE, queries |-> 0], FALSE)
  <2>1. phase' = "attempted" /\ ~outage' /\ DOMAIN draft' = AttemptFields BY <1>2 DEF Proceed, AttemptFields
  <2> QED BY <1>1, <2>1, AttemptKeeps DEF AttemptFits, AttemptFields
<1>3. CASE Proceed("attempted", [confidence |-> 0, complete |-> FALSE, failed |-> TRUE,
                                 retrieved |-> FALSE, queries |-> 0], TRUE)
  <2>1. phase' = "attempted" /\ DOMAIN draft' = AttemptFields /\ draft'.confidence = 0 BY <1>3 DEF Proceed, AttemptFields
  <2> QED BY <1>1, <2>1, AttemptKeeps DEF AttemptFits, AttemptFields
<1> QED BY <1>2, <1>3 DEF Attempt

(* A step of the retrieval that is not its last. *)
LEMMA RetrievalKeeps ==
  ASSUME ReasoningIInv, strategy = "retrieval_augmented_reasoning", strategy' = strategy, phase \notin {"idle", "start"},
         phase' \notin {"idle", "done"}, DOMAIN draft' = DOMAIN draft,
         outage' => outage /\ draft'.confidence = draft.confidence
  PROVE  ReasoningIInv'
<1>1. DOMAIN draft = AttemptFields /\ (outage => draft.confidence = 0)
  BY DEF ReasoningIInv, AttemptFits, AttemptFields
<1>2. AttemptFits' BY <1>1 DEF AttemptFits, AttemptFields
<1> QED BY <1>2, AttemptKeeps

(* The retrieval ends with a confidence it has come by. *)
LEMMA RetrievalEnds ==
  ASSUME ReasoningIInv, strategy = "retrieval_augmented_reasoning", strategy' = strategy, phase \notin {"idle", "start"},
         phase' = "done", draft' = draft,
         "confidence" \in DOMAIN reasoned' /\ outage' => outage /\ reasoned'.confidence \in {draft.confidence, (draft.confidence * 9) \div 10},
         outage' => outage
  PROVE  ReasoningIInv'
<1>1. DOMAIN draft = AttemptFields /\ (outage => draft.confidence = 0)
  BY DEF ReasoningIInv, AttemptFits, AttemptFields
<1>2. AttemptFits' BY <1>1 DEF AttemptFits, AttemptFields
<1>3. (0 * 9) \div 10 = 0 OBVIOUS
<1>4. "confidence" \in DOMAIN reasoned' /\ outage' => reasoned'.confidence = 0 BY <1>1, <1>3
<1> QED BY <1>2, <1>4, AttemptKeeps

(* The first attempt is returned, when it is good enough. *)
LEMMA ReturnKeeps == ASSUME ReasoningIInv, ReturnAtOnce PROVE ReasoningIInv'
<1>1. /\ strategy = "retrieval_augmented_reasoning" /\ strategy' = strategy /\ phase = "attempted" /\ phase' = "done"
      /\ draft' = draft /\ (outage' => outage)
      /\ reasoned' = [confidence |-> draft.confidence, failed |-> draft.failed, retrieved |-> FALSE]
  BY DEF ReturnAtOnce, Call, Finish
<1>2. reasoned'.confidence = draft.confidence BY <1>1
<1> QED BY <1>1, <1>2, RetrievalEnds

(* The gaps of the first attempt are found. *)
LEMMA FindGapsKeeps == ASSUME ReasoningIInv, FindGaps PROVE ReasoningIInv'
<1>1. strategy = "retrieval_augmented_reasoning" /\ strategy' = strategy /\ phase = "attempted" BY DEF FindGaps, Call
<1>2. DOMAIN draft = AttemptFields BY <1>1 DEF ReasoningIInv, AttemptFits, AttemptFields
<1>3. \A n : LET new == [draft EXCEPT !.queries = n] IN DOMAIN new = DOMAIN draft /\ new.confidence = draft.confidence
  BY <1>2 DEF AttemptFields
<1>4. ASSUME NEW n \in 0 .. MaxQueries, Proceed("retrieve", [draft EXCEPT !.queries = n], FALSE) PROVE ReasoningIInv'
  <2>1. phase' = "retrieve" /\ ~outage' /\ DOMAIN draft' = DOMAIN draft BY <1>3, <1>4 DEF Proceed
  <2> QED BY <1>1, <2>1, RetrievalKeeps
<1>5. CASE Proceed("retrieve", [draft EXCEPT !.queries = 1], TRUE)
  <2>1. phase' = "retrieve" /\ (outage' => outage) /\ DOMAIN draft' = DOMAIN draft /\ draft'.confidence = draft.confidence
    BY <1>3, <1>5 DEF Proceed
  <2> QED BY <1>1, <2>1, RetrievalKeeps
<1>6. CASE Malformed
  <2>1. phase' = "done" /\ ~outage' /\ draft' = draft BY <1>6 DEF Malformed, Finish
  <2> QED BY <1>1, <2>1, RetrievalEnds
<1> QED BY <1>4, <1>5, <1>6 DEF FindGaps

(* What may fill the gaps is retrieved. *)
LEMMA RetrieveKeeps == ASSUME ReasoningIInv, Retrieve PROVE ReasoningIInv'
<1>1. strategy = "retrieval_augmented_reasoning" /\ strategy' = strategy /\ phase = "retrieve" BY DEF Retrieve, Call
<1>2. DOMAIN draft = AttemptFields BY <1>1 DEF ReasoningIInv, AttemptFits, AttemptFields
<1>3. PICK found \in BOOLEAN : Proceed("augment", [draft EXCEPT !.retrieved = found], TRUE) BY DEF Retrieve
<1>4. phase' = "augment" /\ (outage' => outage) /\ DOMAIN draft' = DOMAIN draft /\ draft'.confidence = draft.confidence
  BY <1>2, <1>3 DEF Proceed, AttemptFields
<1> QED BY <1>1, <1>4, RetrievalKeeps

(* The attempt is made again with what was retrieved. *)
LEMMA AugmentKeeps == ASSUME ReasoningIInv, Augment PROVE ReasoningIInv'
<1>1. strategy = "retrieval_augmented_reasoning" /\ strategy' = strategy /\ phase = "augment" BY DEF Augment, Call
<1>2. ASSUME NEW c \in Confidences, Proceed("check", [draft EXCEPT !.confidence = c, !.failed = FALSE], FALSE)
      PROVE  ReasoningIInv'
  <2>1. phase' = "check" /\ ~outage' /\ DOMAIN draft' = DOMAIN draft BY <1>2 DEF Proceed
  <2> QED BY <1>1, <2>1, RetrievalKeeps
<1>3. CASE Proceed("check", draft, TRUE)
  <2>1. phase' = "check" /\ (outage' => outage) /\ draft' = draft BY <1>3 DEF Proceed
  <2> QED BY <1>1, <2>1, RetrievalKeeps
<1> QED BY <1>2, <1>3 DEF Augment

(* The answer is checked against its sources. *)
LEMMA CheckSourcesKeeps == ASSUME ReasoningIInv, CheckSources PROVE ReasoningIInv'
<1>1. strategy = "retrieval_augmented_reasoning" /\ strategy' = strategy /\ phase = "check" BY DEF CheckSources, Call
<1>2. ASSUME NEW c \in Confidences, NEW unsupported \in 0 .. 3,
             Finish([confidence |-> Penalised(c, 15, unsupported, 40), failed |-> draft.failed,
                     retrieved |-> draft.retrieved], FALSE)
      PROVE  ReasoningIInv'
  <2>1. phase' = "done" /\ ~outage' /\ draft' = draft BY <1>2 DEF Finish
  <2> QED BY <1>1, <2>1, RetrievalEnds
<1>3. CASE Finish([confidence |-> (draft.confidence * 9) \div 10, failed |-> draft.failed, retrieved |-> draft.retrieved], TRUE)
  <2>1. phase' = "done" /\ (outage' => outage) /\ draft' = draft /\ reasoned'.confidence = (draft.confidence * 9) \div 10
    BY <1>3 DEF Finish
  <2> QED BY <1>1, <2>1, RetrievalEnds
<1> QED BY <1>2, <1>3 DEF CheckSources

-----------------------------------------------------------------------------
(* The specialist. *)
LEMMA SpecialistProceeds ==
  ASSUME ReasoningIInv, strategy = "specialist", strategy' = strategy, phase' \notin {"idle", "done"},
         DOMAIN draft' = DOMAIN draft, draft'.confidence \in Int,
         outage' => outage /\ draft'.confidence = draft.confidence
  PROVE  ReasoningIInv'
<1>1. SpecialistFits' BY DEF ReasoningIInv, SpecialistFits
<1>2. CriticalIsVerified' BY DEF CriticalIsVerified, Concluded
<1> QED BY <1>1, <1>2, SpecialistKeeps

(* A specialist observes what its tool has returned. *)
LEMMA ObserveKeeps == ASSUME ReasoningIInv, ObserveResult PROVE ReasoningIInv'
<1>1. strategy = "specialist" /\ strategy' = strategy /\ draft' = draft /\ phase' = "think" /\ (outage' => outage)
  BY DEF ObserveResult, Call, Proceed
<1>2. draft.confidence \in Int BY <1>1 DEF ReasoningIInv, SpecialistFits
<1> QED BY <1>1, <1>2, SpecialistProceeds

(* A specialist thinks, acts, or answers. *)
LEMMA SpecialistThinks == ASSUME ReasoningAssumption, ReasoningIInv, ThinkAsSpecialist PROVE ReasoningIInv'
<1>1. strategy = "specialist" /\ strategy' = strategy BY DEF ThinkAsSpecialist, Call
<1>2. DOMAIN draft = {"critical", "confidence"} /\ draft.confidence \in Int BY <1>1 DEF ReasoningIInv, SpecialistFits
<1>3. ASSUME NEW c \in Confidences \cup {30}, Proceed("verify", [draft EXCEPT !.confidence = c], FALSE)
      PROVE  ReasoningIInv'
  <2>1. c \in Int BY DEF ReasoningAssumption
  <2>2. phase' = "verify" /\ ~outage' /\ DOMAIN draft' = DOMAIN draft /\ draft'.confidence = c BY <1>2, <1>3 DEF Proceed
  <2> QED BY <1>1, <2>1, <2>2, SpecialistProceeds
<1>4. CASE Proceed("verify", draft, TRUE)
  <2>1. phase' = "verify" /\ (outage' => outage) /\ draft' = draft BY <1>4 DEF Proceed
  <2> QED BY <1>1, <1>2, <2>1, SpecialistProceeds
<1> QED BY <1>3, <1>4 DEF ThinkAsSpecialist

(* A specialist verifies what is critical. *)
LEMMA SpecialistVerifies == ASSUME ReasoningIInv, VerifyAsSpecialist PROVE ReasoningIInv'
<1>1. strategy = "specialist" /\ strategy' = strategy BY DEF VerifyAsSpecialist, Call
<1>2. DOMAIN draft = {"critical", "confidence"} /\ draft.confidence \in Int /\ (outage => draft.confidence = 0)
  BY <1>1 DEF ReasoningIInv, SpecialistFits
<1>3. ASSUME NEW verified \in BOOLEAN, NEW reviewed \in BOOLEAN,
             Finish([confidence |-> draft.confidence, verified |-> verified, review |-> NeedsReview(verified, reviewed)], FALSE)
      PROVE  ReasoningIInv'
  <2> DEFINE r == NeedsReview(verified, reviewed)
  <2>1. draft.critical /\ ~r => verified /\ draft.confidence >= 60 BY <1>2 DEF NeedsReview
  <2> HIDE DEF r
  <2>2. /\ reasoned' = [confidence |-> draft.confidence, verified |-> verified, review |-> r]
        /\ phase' = "done" /\ ~outage' /\ draft' = draft
    BY <1>3 DEF Finish, r
  <2>3. reasoned'.confidence = draft.confidence /\ reasoned'.verified = verified /\ reasoned'.review = r BY <2>2
  <2>4. CriticalIsVerified' BY <2>1, <2>2, <2>3 DEF CriticalIsVerified
  <2>5. SpecialistFits' BY <1>2, <2>2 DEF SpecialistFits
  <2> QED BY <1>1, <2>2, <2>4, <2>5, SpecialistKeeps
<1>4. CASE Finish([confidence |-> draft.confidence, verified |-> FALSE, review |-> TRUE], TRUE)
  <2>1. /\ phase' = "done" /\ (outage' => outage) /\ draft' = draft /\ reasoned'.review = TRUE
        /\ reasoned'.confidence = draft.confidence
    BY <1>4 DEF Finish
  <2>2. CriticalIsVerified' BY <2>1 DEF CriticalIsVerified
  <2>3. SpecialistFits' BY <1>2, <2>1 DEF SpecialistFits
  <2>4. outage' => reasoned'.confidence = 0 /\ reasoned'.review BY <1>2, <2>1
  <2> QED BY <1>1, <2>1, <2>2, <2>3, <2>4, SpecialistKeeps
<1>5. CASE Malformed
  <2>1. phase' = "done" /\ ~outage' /\ draft' = draft /\ reasoned' = [raised |-> TRUE] BY <1>5 DEF Malformed, Finish
  <2>2. "confidence" \notin DOMAIN reasoned' BY <2>1
  <2>3. CriticalIsVerified' BY <2>2 DEF CriticalIsVerified, Concluded, Has
  <2>4. SpecialistFits' BY <1>2, <2>1 DEF SpecialistFits
  <2> QED BY <1>1, <2>1, <2>3, <2>4, SpecialistKeeps
<1> QED BY <1>3, <1>4, <1>5 DEF VerifyAsSpecialist

-----------------------------------------------------------------------------
(* The vote. *)
LEMMA SampleKeeps == ASSUME ReasoningIInv, Sample PROVE ReasoningIInv'
<1>1. strategy' = "self_consistency" BY DEF Sample, Call
<1>2. PICK answers \in {f \in [1 .. NumSamples -> UNION {SampleAnswers(i) : i \in 1 .. NumSamples}] :
                          \A i \in 1 .. NumSamples : f[i] \in SampleAnswers(i)} :
        Proceed("vote", [answers |-> answers], \A i \in 1 .. NumSamples : answers[i] = Failed(i))
  BY DEF Sample
<1>3. phase' = "vote" /\ draft' = [answers |-> answers] /\ (outage' => \A i \in 1 .. NumSamples : answers[i] = Failed(i))
  BY <1>2 DEF Proceed
<1>4. draft'.answers = answers BY <1>3
<1>5. AnswersFit' BY <1>3, <1>4 DEF AnswersFit
<1> QED BY <1>1, <1>3, <1>5, SamplesKeep

(* Votes are within the samples, and two answers with a majority are the   *)
(* same.                                                                   *)
LEMMA VotesCount ==
  ASSUME ReasoningAssumption
  PROVE  /\ \A i \in 1 .. NumSamples : Votes(i) \in 0 .. NumSamples
         /\ \A i, j \in 1 .. NumSamples : Votes(i) + Votes(j) > NumSamples => draft.answers[i] = draft.answers[j]
         /\ Majority \in 1 .. NumSamples /\ \A j \in 1 .. NumSamples : Votes(j) <= Votes(Majority)
<1> DEFINE S == 1 .. NumSamples
           V(i) == {j \in S : draft.answers[j] = draft.answers[i]}
<1>1. NumSamples \in Nat \ {0} BY DEF ReasoningAssumption
<1>2. IsFiniteSet(S) /\ Cardinality(S) = NumSamples BY <1>1, FirstNumbers
<1>3. \A i : V(i) \subseteq S OBVIOUS
<1>4. \A i : Votes(i) = Cardinality(V(i)) BY DEF Votes
<1>5. \A i, j : draft.answers[i] # draft.answers[j] => V(i) \cap V(j) = {} OBVIOUS
<1>13. \A a \in S : a \in Int OBVIOUS
<1>14. S # {} BY <1>1
<1>15. \A i \in S : i \in V(i) OBVIOUS
<1> HIDE DEF V, S
<1>6. \A i : IsFiniteSet(V(i)) /\ Cardinality(V(i)) \in Nat /\ Cardinality(V(i)) <= NumSamples
  <2> TAKE i
  <2>1. V(i) \subseteq S BY <1>3
  <2> QED BY <2>1, <1>2, FS_Subset, FS_CardinalityType
<1>7. \A i \in S : Votes(i) \in 0 .. NumSamples BY <1>1, <1>4, <1>6
<1>8. \A i, j \in S : Votes(i) + Votes(j) > NumSamples => draft.answers[i] = draft.answers[j]
  <2> SUFFICES ASSUME NEW i \in S, NEW j \in S, Votes(i) + Votes(j) > NumSamples, draft.answers[i] # draft.answers[j]
               PROVE  FALSE
    OBVIOUS
  <2>1. V(i) \cap V(j) = {} BY <1>5
  <2>2. Cardinality(V(i) \cup V(j)) = Cardinality(V(i)) + Cardinality(V(j)) - Cardinality(V(i) \cap V(j))
    BY <1>6, FS_Union
  <2>3. Cardinality(V(i) \cap V(j)) = 0 BY <2>1, FS_EmptySet
  <2>4. V(i) \cup V(j) \subseteq S BY <1>3
  <2>5. Cardinality(V(i) \cup V(j)) <= NumSamples BY <2>4, <1>2, FS_Subset
  <2> QED BY <2>2, <2>3, <2>5, <1>1, <1>4, <1>6
<1>9. \E i \in S : \A j \in S : Votes(j) < Votes(i) \/ (Votes(j) = Votes(i) /\ i <= j)
  <2> DEFINE votes == [i \in S |-> Votes(i)]
  <2>1. \A i \in S : votes[i] = Votes(i) /\ votes[i] \in Int BY <1>7
  <2>2. S \in SUBSET (1 .. NumSamples) /\ NumSamples \in Nat BY <1>1 DEF S
  <2> HIDE DEF votes
  <2>3. /\ \A a, b \in S : a # b => Precedes(a, b, votes) \/ Precedes(b, a, votes)
        /\ \E b \in S : Place(b, S, votes) = 0 /\ \A a \in S : ~Precedes(a, b, votes)
    BY <2>1, <2>2, <1>14, PlaceIs
  <2>4. PICK i \in S : \A a \in S : ~Precedes(a, i, votes) BY <2>3
  <2>5. ASSUME NEW j \in S PROVE Votes(j) < Votes(i) \/ (Votes(j) = Votes(i) /\ i <= j)
    <3>1. CASE j = i BY <3>1, <1>13
    <3>2. CASE j # i
      <4>1. Precedes(i, j, votes) BY <2>3, <2>4, <3>2
      <4>2. Votes(i) \in Int /\ Votes(j) \in Int /\ i \in Int /\ j \in Int BY <1>7, <1>13
      <4>3. votes[i] = Votes(i) /\ votes[j] = Votes(j) BY <2>1
      <4> QED BY <4>1, <4>2, <4>3 DEF Precedes
    <3> QED BY <3>1, <3>2
  <2> QED BY <2>5
<1>10. Majority \in S /\ \A j \in S : Votes(j) < Votes(Majority) \/ (Votes(j) = Votes(Majority) /\ Majority <= j)
  <2>1. Majority = CHOOSE i \in S : \A j \in S : Votes(j) < Votes(i) \/ (Votes(j) = Votes(i) /\ i <= j)
    BY DEF Majority, S
  <2> QED BY <1>9, <2>1
<1>11. \A j \in S : Votes(j) <= Votes(Majority) BY <1>7, <1>10
<1> QED BY <1>7, <1>8, <1>10, <1>11 DEF S

(* The majority of the samples wins. *)
LEMMA VoteKeeps == ASSUME ReasoningAssumption, ReasoningIInv, Vote PROVE ReasoningIInv'
<1>1. /\ strategy = "self_consistency" /\ strategy' = strategy /\ phase = "vote" /\ phase' = "done" /\ draft' = draft
      /\ (outage' => outage)
      /\ reasoned' = [confidence |-> 40 + (60 * Votes(Majority)) \div NumSamples, answer |-> draft.answers[Majority]]
  BY DEF Vote, Call, Finish
<1>2. reasoned'.answer = draft.answers[Majority] /\ reasoned'.confidence = 40 + (60 * Votes(Majority)) \div NumSamples
  BY <1>1
<1>3. AnswersFit' BY <1>1 DEF ReasoningIInv, AnswersFit
<1>4. \A i \in 1 .. NumSamples : 2 * Votes(i) > NumSamples => reasoned'.answer = draft.answers[i]
  <2> SUFFICES ASSUME NEW i \in 1 .. NumSamples, 2 * Votes(i) > NumSamples PROVE draft.answers[Majority] = draft.answers[i]
    BY <1>2
  <2>1. NumSamples \in Nat /\ Votes(i) \in Nat /\ Votes(Majority) \in Nat /\ Votes(i) <= Votes(Majority)
        /\ Majority \in 1 .. NumSamples
    BY VotesCount DEF ReasoningAssumption
  <2>2. Votes(Majority) + Votes(i) > NumSamples BY <2>1
  <2> QED BY <2>1, <2>2, VotesCount
<1>5. MajorityWins'
  <2>1. \A i : Votes(i)' = Votes(i) BY <1>1 DEF Votes
  <2> QED BY <1>1, <1>4, <2>1 DEF MajorityWins
<1>6. ASSUME outage' PROVE reasoned'.confidence = 40 + 60 \div NumSamples
  <2> DEFINE m == Majority
  <2>1. m \in 1 .. NumSamples /\ Votes(m) \in 0 .. NumSamples /\ NumSamples \in Nat BY VotesCount DEF ReasoningAssumption
  <2>2. \A i \in 1 .. NumSamples : draft.answers[i] = Failed(i) BY <1>1, <1>6 DEF ReasoningIInv, AnswersFit
  <2>3. {j \in 1 .. NumSamples : draft.answers[j] = draft.answers[m]} = {m}
    <3> HIDE DEF m
    <3>1. \A j \in 1 .. NumSamples : draft.answers[j] = draft.answers[m] <=> j = m BY <2>1, <2>2 DEF Failed
    <3> QED BY <2>1, <3>1
  <2>4. Votes(m) = 1
    <3>1. Cardinality({m}) = 1 BY FS_Singleton
    <3> QED BY <2>3, <3>1 DEF Votes
  <2>5. 60 * Votes(m) = 60 BY <2>4
  <2> QED BY <1>2, <2>5
<1> QED BY <1>1, <1>3, <1>5, <1>6, SamplesKeep

-----------------------------------------------------------------------------
(* The tree. *)
LEMMA GenerateKeeps == ASSUME ReasoningIInv, Generate PROVE ReasoningIInv'
<1>1. strategy' = "tree_of_thought" BY DEF Generate, Call
<1>2. PICK n \in 1 .. NumBranches, failed \in BOOLEAN :
        Proceed("round", [branches |-> [b \in 1 .. n |-> Branch], rounds |-> 0], failed)
  BY DEF Generate
<1> DEFINE bs == [b \in 1 .. n |-> Branch]
<1>3. phase' = "round" /\ draft' = [branches |-> bs, rounds |-> 0] BY <1>2 DEF Proceed
<1>4. DOMAIN draft' = {"branches", "rounds"} /\ draft'.branches = bs /\ draft'.rounds = 0 BY <1>3
<1>5. DOMAIN bs = 1 .. n /\ \A b \in 1 .. n : bs[b].score = 5 /\ bs[b].steps = 0 /\ bs[b].alive = TRUE BY DEF Branch
<1>6. n \in Nat /\ 1 \in 1 .. n OBVIOUS
<1> HIDE DEF bs
<1>7. Alive' = 1 .. n BY <1>4, <1>5 DEF Alive
<1>8. BeamFits'
  <2>1. \A b \in DOMAIN draft'.branches : /\ draft'.branches[b].score \in 0 .. 10 /\ draft'.branches[b].steps \in 0 .. draft'.rounds
                                          /\ draft'.branches[b].score = 5
    BY <1>4, <1>5
  <2>2. Alive' # {} /\ ~(draft'.rounds > 0) /\ draft'.rounds \in Nat BY <1>4, <1>6, <1>7
  <2>3. \A b \in Alive' : draft'.branches[b].steps = draft'.rounds BY <1>4, <1>5, <1>7
  <2>4. \A b \in DOMAIN draft'.branches : b \in Alive' BY <1>4, <1>5, <1>7
  <2>5. \E k \in Nat : DOMAIN draft'.branches = 1 .. k BY <1>4, <1>5, <1>6
  <2> QED BY <2>1, <2>2, <2>3, <2>4, <2>5, <1>4 DEF BeamFits
<1>9. BranchesFit' BY <1>3, <1>8 DEF BranchesFit
<1> QED BY <1>1, <1>3, <1>9, TreeKeeps

(* A round of the tree keeps the best branches. *)
LEMMA RoundKeeps == ASSUME ReasoningAssumption, ReasoningIInv, Round PROVE ReasoningIInv'
<1>1. strategy = "tree_of_thought" /\ strategy' = strategy /\ phase = "round" BY DEF Round, Call
<1>2. BeamFits BY <1>1 DEF ReasoningIInv, BranchesFit
<1>3. PICK failed \in BOOLEAN : \E score \in [Alive -> IF failed THEN {5} ELSE Scores] :
       Proceed("round",
         [branches |-> [b \in DOMAIN draft.branches |->
            IF b \in Alive
              THEN [score |-> score[b], steps |-> draft.branches[b].steps + 1,
                    alive |-> Place(b, Alive, score) < BeamWidth]
              ELSE draft.branches[b]],
          rounds |-> draft.rounds + 1], failed)
  BY DEF Round
<1>4. PICK score \in [Alive -> IF failed THEN {5} ELSE Scores] :
       Proceed("round",
         [branches |-> [b \in DOMAIN draft.branches |->
            IF b \in Alive
              THEN [score |-> score[b], steps |-> draft.branches[b].steps + 1,
                    alive |-> Place(b, Alive, score) < BeamWidth]
              ELSE draft.branches[b]],
          rounds |-> draft.rounds + 1], failed)
  BY <1>3
<1> DEFINE old == draft.branches
           A == Alive
           r == draft.rounds
           P(b) == Place(b, Alive, score)
           bs == [b \in DOMAIN old |-> IF b \in A THEN [score |-> score[b], steps |-> old[b].steps + 1, alive |-> P(b) < BeamWidth]
                                       ELSE old[b]]
           L == {b \in A : P(b) < BeamWidth}
<1>5. phase' = "round" /\ draft' = [branches |-> bs, rounds |-> r + 1] /\ (outage' => outage /\ failed) BY <1>4 DEF Proceed
<1>6. DOMAIN draft' = {"branches", "rounds"} /\ draft'.branches = bs /\ draft'.rounds = r + 1 BY <1>5
<1>7. PICK n \in Nat : DOMAIN old = 1 .. n BY <1>2 DEF BeamFits
<1>8. /\ r \in Nat /\ A # {} /\ A = {b \in DOMAIN old : old[b].alive} /\ \A b \in A : old[b].steps = r
      /\ \A b \in DOMAIN old : old[b].score \in 0 .. 10 /\ old[b].steps \in 0 .. r /\ (outage => old[b].score = 5)
  BY <1>2 DEF BeamFits, Alive
<1>9. \A b \in A : score[b] \in 0 .. 10 /\ (failed => score[b] = 5)
  <2>1. CASE failed = TRUE
    <3>1. score \in [Alive -> {5}] BY <2>1
    <3> QED BY <3>1
  <2>2. CASE failed = FALSE
    <3>1. score \in [Alive -> Scores] BY <2>2
    <3>2. \A b \in A : score[b] \in Scores BY <3>1
    <3>3. \A x \in Scores : x \in 0 .. 10 BY DEF ReasoningAssumption
    <3> QED BY <2>2, <3>2, <3>3
  <2> QED BY <2>1, <2>2
<1>10. A \in SUBSET (1 .. n) BY <1>7, <1>8
<1>11. /\ \A b \in A : P(b) \in Nat
       /\ \A a, b \in A : Precedes(a, b, score) => P(a) < P(b)
       /\ \E b \in A : P(b) = 0
       /\ \A w \in Nat : Cardinality(FirstOf(A, score, w)) <= w
  <2>1. \A a \in A : score[a] \in Int BY <1>9
  <2>3. n \in Nat /\ A # {} BY <1>7, <1>8
  <2> HIDE DEF A, P, bs, L, old, r
  <2>2. /\ \A b \in A : Place(b, A, score) \in Nat
        /\ \A a, b \in A : Precedes(a, b, score) => Place(a, A, score) < Place(b, A, score)
        /\ \E b \in A : Place(b, A, score) = 0 /\ \A a \in A : ~Precedes(a, b, score)
        /\ \A w \in Nat : Cardinality(FirstOf(A, score, w)) <= w
    BY <1>10, <2>1, <2>3, PlaceIs
  <2> QED BY <2>2 DEF A, P
<1>12. DOMAIN bs = DOMAIN old /\ \A b \in DOMAIN old \ A : bs[b] = old[b] OBVIOUS
<1> HIDE DEF P, A, old
<1>13. \A b \in A : bs[b].score = score[b] /\ bs[b].steps = old[b].steps + 1 /\ (bs[b].alive <=> P(b) < BeamWidth)
  <2> TAKE b \in A
  <2>1. b \in DOMAIN old BY <1>8
  <2>2. bs[b] = [score |-> score[b], steps |-> old[b].steps + 1, alive |-> P(b) < BeamWidth] BY <2>1
  <2> DEFINE x == P(b) < BeamWidth
  <2>3. bs[b] = [score |-> score[b], steps |-> old[b].steps + 1, alive |-> x] BY <2>2
  <2> HIDE DEF bs, x
  <2>4. bs[b].score = score[b] /\ bs[b].steps = old[b].steps + 1 /\ bs[b].alive = x BY <2>3
  <2>5. bs[b].alive <=> P(b) < BeamWidth BY <2>4, Zenon DEF x
  <2> QED BY <2>4, <2>5
<1> HIDE DEF bs
<1>14. BeamWidth \in Nat \ {0} BY DEF ReasoningAssumption
<1>15. Alive' = L
  <2>1. Alive' = {b \in DOMAIN bs : bs[b].alive} BY <1>6 DEF Alive
  <2>2. \A b \in DOMAIN bs : bs[b].alive <=> b \in L
    <3> TAKE b \in DOMAIN bs
    <3>1. CASE b \in A
      <4>1. bs[b].alive <=> P(b) < BeamWidth BY <3>1, <1>13
      <4> QED BY <4>1, <3>1, Zenon
    <3>2. CASE b \notin A
      <4>1. bs[b] = old[b] /\ ~old[b].alive BY <3>2, <1>8, <1>12
      <4> QED BY <4>1, <3>2
    <3> QED BY <3>1, <3>2
  <2>3. L \subseteq DOMAIN bs BY <1>8, <1>12
  <2> HIDE DEF L
  <2> QED BY <2>1, <2>2, <2>3
<1>16. L # {} BY <1>11, <1>14
<1>17. Cardinality(L) <= BeamWidth
  <2>1. FirstOf(A, score, BeamWidth) = L BY DEF FirstOf, P, A
  <2> HIDE DEF L
  <2> QED BY <2>1, <1>11, <1>14
<1>18. \A b \in L : b \in A /\ P(b) < BeamWidth OBVIOUS
<1>19. \A b \in A : b \notin L => ~(P(b) < BeamWidth) OBVIOUS
<1> HIDE DEF L, r
<1>20. \A b \in DOMAIN bs : bs[b].score \in 0 .. 10 /\ bs[b].steps \in 0 .. r + 1 /\ (outage' => bs[b].score = 5)
  <2> TAKE b \in DOMAIN bs
  <2>1. CASE b \in A
    <3>1. bs[b].score = score[b] /\ bs[b].steps = old[b].steps + 1 /\ old[b].steps = r BY <2>1, <1>8, <1>13
    <3> QED BY <3>1, <2>1, <1>5, <1>8, <1>9
  <2>2. CASE b \notin A
    <3>1. bs[b] = old[b] /\ b \in DOMAIN old BY <2>2, <1>12
    <3>2. old[b].score \in 0 .. 10 /\ old[b].steps \in 0 .. r /\ (outage => old[b].score = 5) BY <3>1, <1>8
    <3> QED BY <3>1, <3>2, <1>5, <1>8
  <2> QED BY <2>1, <2>2
<1>21. \A b \in L : bs[b].steps = r + 1 BY <1>8, <1>13, <1>18
<1>22. ASSUME NEW b \in DOMAIN bs, NEW a \in L, bs[b].steps = r + 1, b \notin L
       PROVE  bs[b].score <= bs[a].score
  <2>1. b \in A
    <3> SUFFICES ASSUME b \notin A PROVE FALSE OBVIOUS
    <3>1. bs[b] = old[b] /\ b \in DOMAIN old BY <1>12
    <3>2. old[b].steps \in 0 .. r BY <3>1, <1>8
    <3> QED BY <3>1, <3>2, <1>8, <1>22
  <2>2. a \in A /\ P(a) < BeamWidth /\ ~(P(b) < BeamWidth) BY <2>1, <1>18, <1>19, <1>22
  <2>3. ~(P(b) < P(a)) BY <2>1, <2>2, <1>11, <1>14
  <2>4. ~Precedes(b, a, score) BY <2>1, <2>2, <2>3, <1>11
  <2>5. ~(score[b] > score[a]) /\ score[a] \in Int /\ score[b] \in Int BY <2>1, <2>2, <2>4, <1>9 DEF Precedes
  <2>6. bs[b].score = score[b] /\ bs[a].score = score[a] BY <2>1, <2>2, <1>13
  <2> QED BY <2>5, <2>6
<1>23. BeamFits'
  <2>1. r + 1 \in Nat BY <1>8
  <2>2. \E k \in Nat : DOMAIN bs = 1 .. k BY <1>7, <1>12
  <2> QED BY <2>1, <2>2, <1>6, <1>15, <1>16, <1>17, <1>20, <1>21, <1>22 DEF BeamFits
<1>24. BranchesFit' BY <1>5, <1>23 DEF BranchesFit
<1> QED BY <1>1, <1>5, <1>24, TreeKeeps

(* The best branch is alive, and no other has a better score. *)
LEMMA BestIs ==
  ASSUME BeamFits
  PROVE  Best \in Alive /\ \A o \in Alive : draft.branches[o].score <= draft.branches[Best].score
<1> DEFINE A == Alive
           score == [b \in A |-> draft.branches[b].score]
<1>1. PICK n \in Nat : DOMAIN draft.branches = 1 .. n BY DEF BeamFits
<1>2. A \in SUBSET (1 .. n) /\ A # {} BY <1>1 DEF BeamFits, Alive
<1>3. \A b \in A : score[b] = draft.branches[b].score /\ score[b] \in Int BY DEF BeamFits, Alive
<1> HIDE DEF score, A
<1>4. /\ \A a, b \in A : a # b => Precedes(a, b, score) \/ Precedes(b, a, score)
      /\ \E b \in A : Place(b, A, score) = 0 /\ \A a \in A : ~Precedes(a, b, score)
  BY <1>2, <1>3, PlaceIs
<1>5. PICK b \in A : \A a \in A : ~Precedes(a, b, score) BY <1>4
<1>6. \A o \in A : score[o] < score[b] \/ (score[o] = score[b] /\ b <= o)
  <2> TAKE o \in A
  <2>1. o \in Int /\ b \in Int /\ score[o] \in Int /\ score[b] \in Int BY <1>2, <1>3
  <2>2. CASE o = b BY <2>1, <2>2
  <2>3. CASE o # b
    <3>1. Precedes(b, o, score) BY <2>3, <1>4, <1>5
    <3> QED BY <2>1, <3>1 DEF Precedes
  <2> QED BY <2>2, <2>3
<1>7. \E x \in Alive : \A o \in Alive :
          \/ draft.branches[o].score < draft.branches[x].score
          \/ draft.branches[o].score = draft.branches[x].score /\ x <= o
  BY <1>3, <1>6 DEF A
<1>8. Best \in Alive /\ \A o \in Alive : \/ draft.branches[o].score < draft.branches[Best].score
                                         \/ draft.branches[o].score = draft.branches[Best].score /\ Best <= o
  BY <1>7 DEF Best
<1>9. \A o \in Alive : draft.branches[o].score \in Int BY <1>3 DEF A
<1> QED BY <1>8, <1>9

(* The tree concludes with its best branch. *)
LEMMA ConcludeKeeps ==
  ASSUME ReasoningIInv, strategy = "tree_of_thought", strategy' = strategy, phase = "round",
         NEW c, NEW failed, ConcludeWith(c, failed), failed => c = 10 * draft.branches[Best].score
  PROVE  ReasoningIInv'
<1> DEFINE s == draft.branches[Best].score
<1>1. /\ phase' = "done" /\ draft' = draft /\ (outage' => outage /\ failed)
      /\ reasoned' = [confidence |-> (6 * c + 40 * s) \div 10, branch |-> Best]
  BY DEF ConcludeWith, Finish
<1>2. reasoned'.confidence = (6 * c + 40 * s) \div 10 /\ reasoned'.branch = Best BY <1>1
<1>3. BeamFits BY DEF ReasoningIInv, BranchesFit
<1>4. Best \in Alive /\ \A o \in Alive : draft.branches[o].score <= s BY <1>3, BestIs
<1>5. outage => s = 5 BY <1>3, <1>4 DEF BeamFits, Alive
<1> HIDE DEF s
<1>6. outage' => reasoned'.confidence = 50
  <2> SUFFICES ASSUME outage' PROVE reasoned'.confidence = 50 OBVIOUS
  <2>1. s = 5 /\ c = 10 * s BY <1>1, <1>5 DEF s
  <2>2. (6 * (10 * 5) + 40 * 5) \div 10 = 50 OBVIOUS
  <2> QED BY <1>2, <2>1, <2>2
<1>7. Alive' = Alive BY <1>1 DEF Alive
<1>8. BeamFits' BY <1>1, <1>3, <1>7 DEF BeamFits
<1>9. BranchesFit' BY <1>1, <1>8 DEF BranchesFit
<1>10. \A b \in DOMAIN draft.branches : draft.branches[b].steps = draft.rounds => draft.branches[b].score <= s
  <2> TAKE b \in DOMAIN draft.branches
  <2>1. CASE b \in Alive BY <1>4, <2>1
  <2>2. CASE b \notin Alive BY <1>3, <1>4, <2>2 DEF BeamFits, s
  <2> QED BY <2>1, <2>2
<1>11. BeamIsKept'
  <2>1. Alive' # {} /\ (draft'.rounds > 0 => Cardinality(Alive') <= BeamWidth) /\ \A b \in Alive' : draft'.branches[b].steps = draft'.rounds
    BY <1>8 DEF BeamFits
  <2>2. \A b \in DOMAIN draft'.branches : draft'.branches[b].steps = draft'.rounds => draft'.branches[b].score <= draft'.branches[reasoned'.branch].score
    BY <1>1, <1>2, <1>10 DEF s
  <2> QED BY <2>1, <2>2 DEF BeamIsKept
<1> QED BY <1>1, <1>6, <1>9, <1>11, TreeKeeps

(* The conclusion is drawn, or fails. *)
LEMMA ConcludeTreeKeeps == ASSUME ReasoningIInv, ConcludeTree PROVE ReasoningIInv'
<1>1. strategy = "tree_of_thought" /\ strategy' = strategy /\ phase = "round" BY DEF ConcludeTree, Call
<1>2. ASSUME NEW c \in Confidences, ConcludeWith(c, FALSE) PROVE ReasoningIInv' BY <1>1, <1>2, ConcludeKeeps
<1>3. CASE ConcludeWith(10 * draft.branches[Best].score, TRUE) BY <1>1, <1>3, ConcludeKeeps
<1> QED BY <1>2, <1>3 DEF ConcludeTree

(* Every step of the strategies preserves the invariant. *)
LEMMA ReasoningNextIInv ==
  ASSUME ReasoningAssumption, ReasoningIInv, [ReasoningNext]_reasoningVars
  PROVE  ReasoningIInv'
<1>1. CASE UNCHANGED reasoningVars
  <2>1. strategy' = strategy /\ phase' = phase /\ draft' = draft /\ reasoned' = reasoned /\ outage' = outage
    BY <1>1 DEF reasoningVars
  <2>2. BranchesFit' BY <2>1 DEF ReasoningIInv, BranchesFit, BeamFits, Alive
  <2>3. ChainFits' /\ AnswersFit' /\ AttemptFits' /\ SpecialistFits'
    BY <2>1 DEF ReasoningIInv, ChainFits, AnswersFit, AttemptFits, SpecialistFits
  <2>4. ReasoningIsSound => ReasoningIsSound'
    BY <2>1 DEF ReasoningIsSound, OutageIsWorthDefaults, BeamIsKept, MajorityWins, CriticalIsVerified, Concluded, Alive, Votes
  <2> QED BY <2>1, <2>2, <2>3, <2>4 DEF ReasoningIInv
<1>2. CASE Route BY <1>2, RouteKeeps
<1>3. CASE BeginSpecialist BY <1>3, BeginSpecialistKeeps
<1>4. CASE Think BY <1>4, ThinkKeeps
<1>5. CASE VerifyChain BY <1>5, VerifyChainKeeps
<1>6. CASE Generate BY <1>6, GenerateKeeps
<1>7. CASE Round BY <1>7, RoundKeeps
<1>8. CASE ConcludeTree BY <1>8, ConcludeTreeKeeps
<1>9. CASE Sample BY <1>9, SampleKeeps
<1>10. CASE Vote BY <1>10, VoteKeeps
<1>11. CASE Attempt BY <1>11, AttemptedKeeps
<1>12. CASE ReturnAtOnce BY <1>12, ReturnKeeps
<1>13. CASE FindGaps BY <1>13, FindGapsKeeps
<1>14. CASE Retrieve BY <1>14, RetrieveKeeps
<1>15. CASE Augment BY <1>15, AugmentKeeps
<1>16. CASE CheckSources BY <1>16, CheckSourcesKeeps
<1>17. CASE ObserveResult BY <1>17, ObserveKeeps
<1>18. CASE ThinkAsSpecialist BY <1>18, SpecialistThinks
<1>19. CASE VerifyAsSpecialist BY <1>19, SpecialistVerifies
<1> QED BY <1>1, <1>2, <1>3, <1>4, <1>5, <1>6, <1>7, <1>8, <1>9, <1>10, <1>11, <1>12, <1>13, <1>14, <1>15, <1>16, <1>17, <1>18, <1>19
        DEF ReasoningNext

(* The inductive invariant holds in every reachable state. *)
LEMMA ReasoningInvariance == ReasoningSpec => []ReasoningIInv
<1>1. ReasoningInit => ReasoningIInv
  BY ReasoningInitIInv, ReasoningAssumption
<1>2. ReasoningIInv /\ [ReasoningNext]_reasoningVars => ReasoningIInv'
  BY ReasoningNextIInv, ReasoningAssumption
<1>3. QED BY <1>1, <1>2, PTL DEF ReasoningSpec
=============================================================================
