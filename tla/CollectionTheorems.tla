------------------------- MODULE CollectionTheorems -------------------------
(***************************************************************************)
(* Facts about what the other modules compute with collections, for any    *)
(* finite set: sums (SumFunctionOnSet of the community modules), the       *)
(* places that sorts and filters leave (Arranging), and counts by key.     *)
(*                                                                         *)
(* The recursion inside the fold is a CHOOSE of a function on the subsets. *)
(* That there is one such function and no other, and each fact after it,   *)
(* goes by induction on a finite set; the induction is over a set of       *)
(* subsets (G), which no prover needs to instantiate an operator for.      *)
(***************************************************************************)
EXTENDS Integers, FiniteSets, FiniteSetsExt, Functions, Arranging, TLAPS, FiniteSetTheorems, WellFoundedInduction

\* Of the subsets of a finite set that are bad, some is bad and none inside it is.
LEMMA SmallestSet ==
  ASSUME NEW S, IsFiniteSet(S), NEW Bad, Bad \subseteq SUBSET S, Bad # {}
  PROVE  \E U \in Bad : \A V \in SUBSET U : V # U => V \notin Bad
<1>1. Bad \subseteq FiniteSubsetsOf(S)
  BY FS_FiniteSubsetsOfFinite
<1>2. PICK U \in Bad : \A V \in Bad : <<V, U>> \notin StrictSubsetOrdering(S)
  BY <1>1, WFMin, FS_StrictSubsetOrderingWellFounded
<1>3. ASSUME NEW V \in SUBSET U, V # U PROVE V \notin Bad
  <2>1. V \in SUBSET S /\ U \in SUBSET S
    OBVIOUS
  <2>2. V \subseteq U /\ U # V
    BY <1>3
  <2>3. <<V, U>> \in StrictSubsetOrdering(S)
    BY <2>1, <2>2 DEF StrictSubsetOrdering
  <2> QED
    BY <1>2, <2>3
<1> QED
  BY <1>3

\* Induction on a finite set, with a set of its subsets in place of a predicate.
LEMMA GrownSet ==
  ASSUME NEW S, IsFiniteSet(S), NEW G, {} \in G,
         \A U \in SUBSET S : \A a \in S \ U : U \in G => U \cup {a} \in G
  PROVE  S \in G
<1> DEFINE Bad == {U \in SUBSET S : U \notin G}
<1>1. SUFFICES ASSUME S \notin G PROVE FALSE
  OBVIOUS
<1>2. Bad \subseteq SUBSET S /\ Bad # {}
  BY <1>1
<1>3. PICK U \in Bad : \A V \in SUBSET U : V # U => V \notin Bad
  <2> HIDE DEF Bad
  <2> QED
    BY <1>2, SmallestSet
<1>4. PICK a : a \in U
  OBVIOUS
<1>5. U \ {a} \in SUBSET S /\ U \ {a} \in SUBSET U /\ U \ {a} # U /\ a \in S \ (U \ {a}) /\ (U \ {a}) \cup {a} = U
  BY <1>4
<1>6. U \ {a} \in G
  BY <1>3, <1>5
<1> QED
  BY <1>5, <1>6

-----------------------------------------------------------------------------
(* The recursion of the fold.                                              *)

Picked(s) == CHOOSE x \in s : TRUE
Adds(h, f, S) == h = [s \in SUBSET S |-> IF s = {} THEN 0 ELSE f[Picked(s)] + h[s \ {Picked(s)}]]
Adder(f, S) == CHOOSE h : Adds(h, f, S)

\* A sum is what the recursive function of its set says of the whole set.
LEMMA SumIs == ASSUME NEW f, NEW S PROVE SumFunctionOnSet(f, S) = Adder(f, S)[S]
  BY DEF SumFunctionOnSet, FoldFunctionOnSet, MapThenFoldSet, Adds, Adder, Picked

\* The element that the recursion takes is one of the set's.
LEMMA PickedIs == ASSUME NEW s, s # {} PROVE Picked(s) \in s
  BY DEF Picked

\* The function of a set contains that of each of its subsets.
Below(h, T) == [s \in SUBSET T |-> h[s]]
LEMMA AddsPart ==
  ASSUME NEW f, NEW S, NEW h, Adds(h, f, S), NEW T \in SUBSET S
  PROVE  Adds(Below(h, T), f, T)
<1> DEFINE g == [s \in SUBSET T |-> h[s]]
<1>1. ASSUME NEW s \in SUBSET T PROVE g[s] = IF s = {} THEN 0 ELSE f[Picked(s)] + g[s \ {Picked(s)}]
  <2>1. s \in SUBSET S /\ s \ {Picked(s)} \in SUBSET T
    OBVIOUS
  <2> QED
    BY <2>1 DEF Adds
<1> QED
  BY <1>1 DEF Adds, Below

\* Two functions of one set agree if those of all smaller sets do.
LEMMA AddsSame ==
  ASSUME NEW f, NEW S, NEW g, NEW h, Adds(g, f, S), Adds(h, f, S),
         \A V \in SUBSET S : V # S => \A k, l : Adds(k, f, V) /\ Adds(l, f, V) => k = l
  PROVE  g = h
<1>1. ASSUME NEW V \in SUBSET S, V # S PROVE g[V] = h[V]
  <2>1. Adds(Below(g, V), f, V) /\ Adds(Below(h, V), f, V)
    <3> V \in SUBSET S /\ Adds(g, f, S) /\ Adds(h, f, S)
      OBVIOUS
    <3>1. Adds(Below(g, V), f, V)
      BY AddsPart
    <3>2. Adds(Below(h, V), f, V)
      BY AddsPart
    <3> QED
      BY <3>1, <3>2, Zenon
  <2>2. Below(g, V) = Below(h, V)
    BY <1>1, <2>1
  <2>3. V \in SUBSET V
    OBVIOUS
  <2> QED
    BY <2>2, <2>3 DEF Below
<1>2. g[S] = h[S]
  <2>1. PICK t : t = S \ {Picked(S)}
    OBVIOUS
  <2>2. t \in SUBSET S /\ S \in SUBSET S /\ (S # {} => t # S)
    BY <2>1, PickedIs
  <2>3. /\ g[S] = IF S = {} THEN 0 ELSE f[Picked(S)] + g[t]
        /\ h[S] = IF S = {} THEN 0 ELSE f[Picked(S)] + h[t]
    BY <2>1, <2>2 DEF Adds
  <2>4. S # {} => g[t] = h[t]
    BY <1>1, <2>2
  <2> QED
    BY <2>3, <2>4
<1>3. \A V \in SUBSET S : g[V] = h[V]
  BY <1>1, <1>2
<1>4. g = [s \in SUBSET S |-> g[s]] /\ h = [s \in SUBSET S |-> h[s]]
  BY DEF Adds
<1> QED
  BY <1>3, <1>4

\* A finite set has at most one such function,
LEMMA AddsOnce ==
  ASSUME NEW f, NEW S, IsFiniteSet(S)
  PROVE  \A g, h : Adds(g, f, S) /\ Adds(h, f, S) => g = h
<1> DEFINE Bad == {U \in SUBSET S : ~ \A g, h : Adds(g, f, U) /\ Adds(h, f, U) => g = h}
<1>1. SUFFICES ASSUME Bad # {} PROVE FALSE
  OBVIOUS
<1>2. PICK U \in Bad : \A V \in SUBSET U : V # U => V \notin Bad
  <2>1. Bad \subseteq SUBSET S
    OBVIOUS
  <2> HIDE DEF Bad
  <2> QED
    BY <1>1, <2>1, SmallestSet
<1>3. \A V \in SUBSET U : V # U => \A k, l : Adds(k, f, V) /\ Adds(l, f, V) => k = l
  BY <1>2
<1>4. \A g, h : Adds(g, f, U) /\ Adds(h, f, U) => g = h
  BY <1>3, AddsSame
<1> QED
  BY <1>4

\* and it has one.
LEMMA AdderIs == ASSUME NEW f, NEW S, IsFiniteSet(S) PROVE Adds(Adder(f, S), f, S)
<1> DEFINE Bad == {U \in SUBSET S : ~ \E h : Adds(h, f, U)}
<1>1. SUFFICES ASSUME Bad # {} PROVE FALSE
  <2>1. S \in SUBSET S
    OBVIOUS
  <2> QED
    BY <2>1 DEF Adder
<1>2. PICK U \in Bad : \A V \in SUBSET U : V # U => V \notin Bad
  <2>1. Bad \subseteq SUBSET S
    OBVIOUS
  <2> HIDE DEF Bad
  <2> QED
    BY <1>1, <2>1, SmallestSet
<1>3. ASSUME NEW V \in SUBSET U, V # U PROVE Adds(Adder(f, V), f, V)
  BY <1>2, <1>3 DEF Adder
<1>4. IsFiniteSet(U) /\ \A V \in SUBSET U : IsFiniteSet(V)
  BY FS_Subset
<1> DEFINE h == [s \in SUBSET U |->
     IF s # U THEN Adder(f, s)[s] ELSE IF s = {} THEN 0 ELSE f[Picked(s)] + Adder(f, s \ {Picked(s)})[s \ {Picked(s)}]]
<1>5. ASSUME NEW s \in SUBSET U PROVE h[s] = IF s = {} THEN 0 ELSE f[Picked(s)] + h[s \ {Picked(s)}]
  <2>1. CASE s = {}
    BY <1>3, <2>1 DEF Adds
  <2>2. CASE s # {}
    <3>1. PICK t : t = s \ {Picked(s)}
      OBVIOUS
    <3>2. t \in SUBSET s /\ t \in SUBSET U /\ t # U /\ t # s
      BY <2>2, <3>1, PickedIs
    <3>3. h[t] = Adder(f, t)[t]
      BY <3>2
    <3>4. CASE s = U
      BY <2>2, <3>1, <3>3, <3>4
    <3>5. CASE s # U
      <4>1. Adds(Adder(f, s), f, s) /\ Adds(Adder(f, t), f, t)
        BY <1>3, <3>2, <3>5
      <4>2. Adder(f, s)[s] = f[Picked(s)] + Adder(f, s)[t]
        <5>1. s \in SUBSET s
          OBVIOUS
        <5> QED
          BY <2>2, <3>1, <4>1, <5>1 DEF Adds
      <4>3. Adds(Below(Adder(f, s), t), f, t)
        BY <3>2, <4>1, AddsPart
      <4>4. Below(Adder(f, s), t) = Adder(f, t)
        BY <1>4, <3>2, <4>1, <4>3, AddsOnce
      <4>5. Adder(f, s)[t] = Adder(f, t)[t]
        <5>1. t \in SUBSET t
          OBVIOUS
        <5>2. Below(Adder(f, s), t)[t] = Adder(f, s)[t]
          BY <5>1 DEF Below
        <5> QED
          BY <4>4, <5>2
      <4>6. h[s] = Adder(f, s)[s]
        BY <3>5
      <4> QED
        BY <2>2, <3>1, <3>3, <4>2, <4>5, <4>6
    <3> QED
      BY <3>4, <3>5
  <2> QED
    BY <2>1, <2>2
<1>6. Adds(h, f, U)
  BY <1>5 DEF Adds
<1> QED
  BY <1>6

\* So a sum is zero, or the chosen element's value and the sum of the rest.
LEMMA SumStep ==
  ASSUME NEW f, NEW S, IsFiniteSet(S)
  PROVE  /\ SumFunctionOnSet(f, {}) = 0
         /\ S # {} => SumFunctionOnSet(f, S) = f[Picked(S)] + SumFunctionOnSet(f, S \ {Picked(S)})
<1>1. SumFunctionOnSet(f, {}) = 0
  <2>1. IsFiniteSet({}) /\ {} \in SUBSET {}
    BY FS_EmptySet
  <2>2. Adds(Adder(f, {}), f, {})
    BY <2>1, AdderIs
  <2> QED
    BY <2>1, <2>2, SumIs DEF Adds
<1>2. ASSUME S # {} PROVE SumFunctionOnSet(f, S) = f[Picked(S)] + SumFunctionOnSet(f, S \ {Picked(S)})
  <2>1. PICK t : t = S \ {Picked(S)}
    OBVIOUS
  <2>2. IsFiniteSet(t) /\ t \in SUBSET S /\ S \in SUBSET S /\ t \in SUBSET t
    BY <2>1, FS_Subset
  <2>3. Adds(Adder(f, S), f, S) /\ Adds(Adder(f, t), f, t)
    BY <2>2, AdderIs
  <2>4. Adder(f, S)[S] = f[Picked(S)] + Adder(f, S)[t]
    BY <1>2, <2>1, <2>2, <2>3 DEF Adds
  <2>5. Below(Adder(f, S), t) = Adder(f, t)
    <3>1. Adds(Below(Adder(f, S), t), f, t)
      BY <2>2, <2>3, AddsPart
    <3> QED
      BY <2>2, <2>3, <3>1, AddsOnce
  <2>6. Below(Adder(f, S), t)[t] = Adder(f, S)[t]
    BY <2>2 DEF Below
  <2> QED
    BY <2>1, <2>4, <2>5, <2>6, SumIs
<1> QED
  BY <1>1, <1>2

-----------------------------------------------------------------------------
(* Sums.                                                                   *)

Sum(f, S) == SumFunctionOnSet(f, S)

\* Nothing adds up to zero.
LEMMA SumEmpty == ASSUME NEW f PROVE Sum(f, {}) = 0
  BY SumStep, FS_EmptySet DEF Sum

\* Integers add up to an integer.
LEMMA SumInt ==
  ASSUME NEW S, IsFiniteSet(S), NEW f, \A x \in S : f[x] \in Int
  PROVE  Sum(f, S) \in Int
<1> DEFINE Bad == {U \in SUBSET S : Sum(f, U) \notin Int}
<1>1. SUFFICES ASSUME Bad # {} PROVE FALSE
  OBVIOUS
<1>2. PICK U \in Bad : \A V \in SUBSET U : V # U => V \notin Bad
  <2>1. Bad \subseteq SUBSET S
    OBVIOUS
  <2> HIDE DEF Bad
  <2> QED
    BY <1>1, <2>1, SmallestSet
<1>3. U # {} /\ IsFiniteSet(U)
  <2>1. Sum(f, {}) = 0
    BY SumEmpty
  <2>2. U \in SUBSET S /\ Sum(f, U) \notin Int
    OBVIOUS
  <2> HIDE DEF Bad
  <2> QED
    <3>1. IsFiniteSet(U)
      BY <2>2, FS_Subset
    <3>2. ASSUME U = {} PROVE FALSE
      <4>1. Sum(f, U) = 0
        BY <2>1, <3>2
      <4> QED
        BY <2>2, <4>1
    <3> QED
      BY <3>1, <3>2
<1>4. PICK a, t : a = Picked(U) /\ t = U \ {a}
  OBVIOUS
<1>5. a \in S /\ t \in SUBSET U /\ t # U /\ t \in SUBSET S
  BY <1>3, <1>4, PickedIs
<1>6. Sum(f, U) = f[a] + Sum(f, t)
  BY <1>3, <1>4, SumStep DEF Sum
<1>7. Sum(f, t) \in Int
  BY <1>2, <1>5
<1> QED
  BY <1>5, <1>6, <1>7

\* Any element may be taken out first.
LEMMA SumLess ==
  ASSUME NEW S, IsFiniteSet(S), NEW f, \A x \in S : f[x] \in Int, NEW a \in S
  PROVE  Sum(f, S) = f[a] + Sum(f, S \ {a})
<1> DEFINE Bad == {U \in SUBSET S : \E b \in U : Sum(f, U) # f[b] + Sum(f, U \ {b})}
<1>1. SUFFICES ASSUME Bad # {} PROVE FALSE
  <2>1. S \in SUBSET S
    OBVIOUS
  <2> QED
    BY <2>1
<1>2. PICK U \in Bad : \A V \in SUBSET U : V # U => V \notin Bad
  <2>1. Bad \subseteq SUBSET S
    OBVIOUS
  <2> HIDE DEF Bad
  <2> QED
    BY <1>1, <2>1, SmallestSet
<1>3. PICK b \in U : Sum(f, U) # f[b] + Sum(f, U \ {b})
  OBVIOUS
<1>4. PICK a1, t, v, w : a1 = Picked(U) /\ t = U \ {a1} /\ v = U \ {b} /\ w = U \ {a1, b}
  OBVIOUS
<1>5. /\ a1 \in U /\ U \in SUBSET S /\ t \in SUBSET U /\ t # U /\ v \in SUBSET U /\ v # U /\ w \in SUBSET U
      /\ w = t \ {b} /\ w = v \ {a1}
  BY <1>3, <1>4, PickedIs
<1>6. IsFiniteSet(U) /\ IsFiniteSet(w)
  BY <1>5, FS_Subset
<1>7. Sum(f, U) = f[a1] + Sum(f, t)
  BY <1>4, <1>5, <1>6, SumStep DEF Sum
<1>8. a1 # b
  BY <1>3, <1>4, <1>7
<1>9. b \in t /\ a1 \in v
  BY <1>3, <1>4, <1>5, <1>8
<1>10. Sum(f, t) = f[b] + Sum(f, w)
  <2>1. t \in SUBSET S /\ t \notin Bad
    BY <1>2, <1>5
  <2> QED
    BY <1>5, <1>9, <2>1
<1>11. Sum(f, v) = f[a1] + Sum(f, w)
  <2>1. v \in SUBSET S /\ v \notin Bad
    BY <1>2, <1>5
  <2> QED
    BY <1>5, <1>9, <2>1
<1>12. Sum(f, w) \in Int /\ f[a1] \in Int /\ f[b] \in Int
  BY <1>3, <1>5, <1>6, SumInt
<1> QED
  BY <1>3, <1>4, <1>7, <1>10, <1>11, <1>12

\* One element more is its value more.
LEMMA SumMore ==
  ASSUME NEW S, IsFiniteSet(S), NEW f, NEW a, a \notin S, \A x \in S \cup {a} : f[x] \in Int
  PROVE  Sum(f, S \cup {a}) = f[a] + Sum(f, S)
<1>1. IsFiniteSet(S \cup {a}) /\ (S \cup {a}) \ {a} = S /\ a \in S \cup {a}
  BY FS_AddElement
<1> QED
  BY <1>1, SumLess

\* Sets of one and of two elements.
LEMMA SumOne == ASSUME NEW f, NEW a, f[a] \in Int PROVE Sum(f, {a}) = f[a]
<1>1. {} \cup {a} = {a} /\ IsFiniteSet({}) /\ a \notin {}
  BY FS_EmptySet
<1>2. Sum(f, {} \cup {a}) = f[a] + Sum(f, {})
  BY <1>1, SumMore
<1> QED
  BY <1>1, <1>2, SumEmpty

LEMMA SumTwo == ASSUME NEW f, NEW a, NEW b, a # b, f[a] \in Int, f[b] \in Int PROVE Sum(f, {a, b}) = f[a] + f[b]
<1>1. {a} \cup {b} = {a, b} /\ IsFiniteSet({a}) /\ b \notin {a}
  BY FS_Singleton
<1>2. Sum(f, {a} \cup {b}) = f[b] + Sum(f, {a})
  BY <1>1, SumMore
<1>3. Sum(f, {a}) = f[a]
  BY SumOne
<1>4. Sum(f, {a, b}) = f[b] + f[a]
  BY <1>1, <1>2, <1>3
<1> QED
  BY <1>4

\* A sum depends on the values of its set's elements only.
LEMMA SumSame ==
  ASSUME NEW S, IsFiniteSet(S), NEW f, NEW g, \A x \in S : f[x] \in Int /\ f[x] = g[x]
  PROVE  Sum(f, S) = Sum(g, S)
<1> DEFINE G == {U \in SUBSET S : Sum(f, U) = Sum(g, U)}
<1>1. {} \in G
  BY SumEmpty
<1>2. ASSUME NEW U \in SUBSET S, NEW a \in S \ U, U \in G PROVE U \cup {a} \in G
  <2>1. IsFiniteSet(U)
    BY FS_Subset
  <2>2. Sum(f, U \cup {a}) = f[a] + Sum(f, U) /\ Sum(g, U \cup {a}) = g[a] + Sum(g, U)
    BY <2>1, SumMore
  <2> QED
    BY <1>2, <2>2
<1> HIDE DEF G
<1>3. S \in G
  BY <1>1, <1>2, GrownSet
<1> QED
  BY <1>3 DEF G

\* A common factor stands outside.
LEMMA SumScaled ==
  ASSUME NEW S, IsFiniteSet(S), NEW f, NEW g, NEW c \in Int, \A x \in S : f[x] \in Int /\ g[x] = c * f[x]
  PROVE  Sum(g, S) = c * Sum(f, S)
<1> DEFINE G == {U \in SUBSET S : Sum(g, U) = c * Sum(f, U)}
<1>1. {} \in G
  BY SumEmpty
<1>2. ASSUME NEW U \in SUBSET S, NEW a \in S \ U, U \in G PROVE U \cup {a} \in G
  <2>1. IsFiniteSet(U)
    BY FS_Subset
  <2>2. \A x \in S : g[x] \in Int
    OBVIOUS
  <2>3. Sum(f, U \cup {a}) = f[a] + Sum(f, U) /\ Sum(g, U \cup {a}) = g[a] + Sum(g, U)
    BY <2>1, <2>2, SumMore
  <2>4. PICK m, n : m = f[a] /\ n = Sum(f, U)
    OBVIOUS
  <2>5. m \in Int /\ n \in Int
    BY <2>1, <2>4, SumInt
  <2>6. c * (m + n) = c * m + c * n
    BY <2>5
  <2>7. g[a] = c * m /\ Sum(g, U) = c * n
    BY <1>2, <2>4
  <2> QED
    BY <2>3, <2>4, <2>6, <2>7
<1> HIDE DEF G
<1>3. S \in G
  BY <1>1, <1>2, GrownSet
<1> QED
  BY <1>3 DEF G

\* Sums are monotonic.
LEMMA SumAtMost ==
  ASSUME NEW S, IsFiniteSet(S), NEW f, NEW g, \A x \in S : f[x] \in Int /\ g[x] \in Int /\ f[x] <= g[x]
  PROVE  Sum(f, S) <= Sum(g, S)
<1> DEFINE G == {U \in SUBSET S : Sum(f, U) <= Sum(g, U)}
<1>1. {} \in G
  BY SumEmpty
<1>2. ASSUME NEW U \in SUBSET S, NEW a \in S \ U, U \in G PROVE U \cup {a} \in G
  <2>1. IsFiniteSet(U)
    BY FS_Subset
  <2>2. Sum(f, U \cup {a}) = f[a] + Sum(f, U) /\ Sum(g, U \cup {a}) = g[a] + Sum(g, U)
    BY <2>1, SumMore
  <2>3. Sum(f, U) \in Int /\ Sum(g, U) \in Int
    BY <2>1, SumInt
  <2> QED
    BY <1>2, <2>2, <2>3
<1> HIDE DEF G
<1>3. S \in G
  BY <1>1, <1>2, GrownSet
<1> QED
  BY <1>3 DEF G

\* The sum of sums is the sum of each.
LEMMA SumPlus ==
  ASSUME NEW S, IsFiniteSet(S), NEW f, NEW g, NEW h,
         \A x \in S : f[x] \in Int /\ g[x] \in Int /\ h[x] = f[x] + g[x]
  PROVE  Sum(h, S) = Sum(f, S) + Sum(g, S)
<1> DEFINE G == {U \in SUBSET S : Sum(h, U) = Sum(f, U) + Sum(g, U)}
<1>1. {} \in G
  BY SumEmpty
<1>2. ASSUME NEW U \in SUBSET S, NEW a \in S \ U, U \in G PROVE U \cup {a} \in G
  <2>1. IsFiniteSet(U)
    BY FS_Subset
  <2>2. \A x \in S : h[x] \in Int
    OBVIOUS
  <2>3. /\ Sum(f, U \cup {a}) = f[a] + Sum(f, U) /\ Sum(g, U \cup {a}) = g[a] + Sum(g, U)
        /\ Sum(h, U \cup {a}) = h[a] + Sum(h, U)
    BY <2>1, <2>2, SumMore
  <2>4. Sum(f, U) \in Int /\ Sum(g, U) \in Int
    BY <2>1, SumInt
  <2> QED
    BY <1>2, <2>3, <2>4
<1> HIDE DEF G
<1>3. S \in G
  BY <1>1, <1>2, GrownSet
<1> QED
  BY <1>3 DEF G

\* Sets with nothing in common add up.
LEMMA SumApart ==
  ASSUME NEW S, IsFiniteSet(S), NEW T, IsFiniteSet(T), S \cap T = {}, NEW f, \A x \in S \cup T : f[x] \in Int
  PROVE  Sum(f, S \cup T) = Sum(f, S) + Sum(f, T)
<1> DEFINE G == {U \in SUBSET T : Sum(f, S \cup U) = Sum(f, S) + Sum(f, U)}
<1>1. {} \in G
  <2>1. S \cup {} = S /\ Sum(f, S) \in Int
    BY SumInt
  <2> QED
    BY <2>1, SumEmpty
<1>2. ASSUME NEW U \in SUBSET T, NEW a \in T \ U, U \in G PROVE U \cup {a} \in G
  <2>1. IsFiniteSet(U)
    BY FS_Subset
  <2>2. PICK w : w = S \cup U
    OBVIOUS
  <2>3. IsFiniteSet(w) /\ a \notin w /\ w \cup {a} = S \cup (U \cup {a}) /\ (\A x \in w \cup {a} : f[x] \in Int)
    BY <2>1, <2>2, FS_Union
  <2>4. Sum(f, w \cup {a}) = f[a] + Sum(f, w) /\ Sum(f, U \cup {a}) = f[a] + Sum(f, U)
    BY <2>1, <2>3, SumMore
  <2>5. Sum(f, S) \in Int /\ Sum(f, U) \in Int /\ f[a] \in Int /\ U \cup {a} \in SUBSET T
    BY <2>1, SumInt
  <2>6. Sum(f, w) = Sum(f, S) + Sum(f, U)
    BY <1>2, <2>2
  <2>7. Sum(f, S \cup (U \cup {a})) = f[a] + Sum(f, w)
    BY <2>3, <2>4
  <2>8. Sum(f, S \cup (U \cup {a})) = Sum(f, S) + Sum(f, U \cup {a})
    BY <2>4, <2>5, <2>6, <2>7
  <2> QED
    BY <2>5, <2>8
<1> HIDE DEF G
<1>3. T \in G
  BY <1>1, <1>2, GrownSet
<1> QED
  BY <1>3 DEF G

\* Of naturals, a part adds up to no more than the whole.
LEMMA SumPart ==
  ASSUME NEW S, IsFiniteSet(S), NEW T \in SUBSET S, NEW f, \A x \in S : f[x] \in Nat
  PROVE  Sum(f, T) \in Nat /\ Sum(f, S) \in Nat /\ Sum(f, T) <= Sum(f, S)
<1>1. ASSUME NEW U \in SUBSET S PROVE Sum(f, U) \in Nat
  <2>1. IsFiniteSet(U)
    BY FS_Subset
  <2>2. PICK z : z = [x \in U |-> 0]
    OBVIOUS
  <2>3. Sum(z, U) = 0 * Sum(z, U) /\ Sum(z, U) \in Int
    BY <2>1, <2>2, SumScaled, SumInt
  <2>4. Sum(z, U) <= Sum(f, U)
    BY <2>1, <2>2, SumAtMost
  <2> QED
    BY <2>1, <2>3, <2>4, SumInt
<1>2. PICK r : r = S \ T
  OBVIOUS
<1>3. r \in SUBSET S /\ IsFiniteSet(r) /\ IsFiniteSet(T) /\ T \cap r = {} /\ T \cup r = S
  BY <1>2, FS_Subset
<1>4. Sum(f, S) = Sum(f, T) + Sum(f, r)
  BY <1>3, SumApart
<1> QED
  BY <1>1, <1>3, <1>4

\* As many ones as a set has elements add up to their number.
LEMMA SumOnes ==
  ASSUME NEW S, IsFiniteSet(S), NEW f, \A x \in S : f[x] = 1
  PROVE  Sum(f, S) = Cardinality(S)
<1> DEFINE G == {U \in SUBSET S : Sum(f, U) = Cardinality(U)}
<1>1. {} \in G
  BY SumEmpty, FS_EmptySet
<1>2. ASSUME NEW U \in SUBSET S, NEW a \in S \ U, U \in G PROVE U \cup {a} \in G
  <2>1. IsFiniteSet(U)
    BY FS_Subset
  <2>2. a \notin U /\ \A x \in U \cup {a} : f[x] \in Int
    OBVIOUS
  <2>3. Sum(f, U \cup {a}) = f[a] + Sum(f, U)
    BY <2>1, <2>2, SumMore
  <2>4. Cardinality(U \cup {a}) = Cardinality(U) + 1 /\ Cardinality(U) \in Nat
    BY <2>1, <2>2, FS_AddElement, FS_CardinalityType
  <2>5. Sum(f, U) = Cardinality(U) /\ f[a] = 1
    BY <1>2
  <2> QED
    BY <2>3, <2>4, <2>5
<1> HIDE DEF G
<1>3. S \in G
  BY <1>1, <1>2, GrownSet
<1> QED
  BY <1>3 DEF G

\* Less everywhere is less in all, unless there is nothing.
LEMMA SumBelow ==
  ASSUME NEW S, IsFiniteSet(S), S # {}, NEW f, NEW g, \A x \in S : f[x] \in Int /\ g[x] \in Int /\ f[x] < g[x]
  PROVE  Sum(f, S) < Sum(g, S)
<1>1. PICK a \in S : TRUE
  OBVIOUS
<1>2. PICK T : T = S \ {a}
  OBVIOUS
<1>3. IsFiniteSet(T) /\ \A x \in T : f[x] \in Int /\ g[x] \in Int /\ f[x] <= g[x]
  BY <1>2, FS_Subset
<1>4. Sum(f, T) <= Sum(g, T)
  BY <1>3, SumAtMost
<1>5. Sum(f, T) \in Int /\ Sum(g, T) \in Int
  BY <1>3, SumInt
<1>6. Sum(f, S) = f[a] + Sum(f, T)
  BY <1>2, SumLess
<1>7. Sum(g, S) = g[a] + Sum(g, T)
  BY <1>2, SumLess
<1> QED
  BY <1>4, <1>5, <1>6, <1>7

\* A sum over the images of a one-to-one function, and over sets that are apart.
Maps(q, T, S) == S = {q[t] : t \in T} /\ \A x, y \in T : q[x] = q[y] => x = y
LEMMA SumMapped ==
  ASSUME NEW T, IsFiniteSet(T), NEW S, NEW q, Maps(q, T, S),
         NEW f, NEW g, \A t \in T : f[q[t]] \in Int /\ g[t] = f[q[t]]
  PROVE  IsFiniteSet(S) /\ Sum(g, T) = Sum(f, S)
<1>0. S = {q[t] : t \in T} /\ \A x, y \in T : q[x] = q[y] => x = y
  BY DEF Maps
<1> DEFINE Image(U) == {q[t] : t \in U}
           G == {U \in SUBSET T : IsFiniteSet(Image(U)) /\ Sum(g, U) = Sum(f, Image(U))}
<1>1. {} \in G
  <2>1. Image({}) = {}
    OBVIOUS
  <2> QED
    BY <2>1, SumEmpty, FS_EmptySet
<1>2. ASSUME NEW U \in SUBSET T, NEW a \in T \ U, U \in G PROVE U \cup {a} \in G
  <2>1. PICK V : V = Image(U)
    OBVIOUS
  <2>2. Image(U \cup {a}) = V \cup {q[a]} /\ q[a] \notin V
    BY <1>0, <2>1
  <2>3. IsFiniteSet(U) /\ IsFiniteSet(V)
    BY <1>2, <2>1, FS_Subset
  <2>4. \A x \in U \cup {a} : g[x] \in Int
    OBVIOUS
  <2>5. \A x \in V \cup {q[a]} : f[x] \in Int
    BY <2>1
  <2>6. Sum(g, U \cup {a}) = g[a] + Sum(g, U)
    BY <2>3, <2>4, SumMore
  <2>7. Sum(f, V \cup {q[a]}) = f[q[a]] + Sum(f, V)
    BY <2>2, <2>3, <2>5, SumMore
  <2> QED
    <3>1. IsFiniteSet(V \cup {q[a]})
      BY <2>3, FS_AddElement
    <3>2. Sum(g, U) = Sum(f, V)
      BY <1>2, <2>1
    <3>3. Sum(g, U \cup {a}) = Sum(f, V \cup {q[a]})
      BY <2>6, <2>7, <3>2
    <3> QED
      BY <2>1, <2>2, <3>1, <3>3
<1> HIDE DEF G
<1>3. T \in G
  BY <1>1, <1>2, GrownSet
<1> QED
  BY <1>0, <1>3 DEF G

Divides(P, I, S) ==
  /\ S = UNION {P[i] : i \in I} /\ \A i \in I : IsFiniteSet(P[i])
  /\ \A i, j \in I : i # j => P[i] \cap P[j] = {}
LEMMA SumParts ==
  ASSUME NEW I, IsFiniteSet(I), NEW P, NEW S, Divides(P, I, S),
         NEW f, \A i \in I : \A x \in P[i] : f[x] \in Int,
         NEW g, \A i \in I : g[i] = Sum(f, P[i])
  PROVE  IsFiniteSet(S) /\ Sum(g, I) = Sum(f, S)
<1>0. (\A i \in I : IsFiniteSet(P[i])) /\ \A i, j \in I : i # j => P[i] \cap P[j] = {}
  BY DEF Divides
<1> DEFINE All(U) == UNION {P[i] : i \in U}
           G == {U \in SUBSET I : IsFiniteSet(All(U)) /\ Sum(g, U) = Sum(f, All(U))}
<1>1. {} \in G
  <2>1. All({}) = {}
    OBVIOUS
  <2> QED
    BY <2>1, SumEmpty, FS_EmptySet
<1>2. ASSUME NEW U \in SUBSET I, NEW a \in I \ U, U \in G PROVE U \cup {a} \in G
  <2>1. PICK V, W : V = All(U) /\ W = P[a]
    OBVIOUS
  <2>2. All(U \cup {a}) = W \cup V /\ W \cap V = {}
    BY <1>0, <2>1
  <2>3. IsFiniteSet(U) /\ IsFiniteSet(V) /\ IsFiniteSet(W) /\ Sum(g, U) = Sum(f, V)
    BY <1>0, <1>2, <2>1, FS_Subset
  <2>4. \A x \in W \cup V : f[x] \in Int
    BY <2>1
  <2>5. \A x \in U \cup {a} : g[x] \in Int
    BY <1>0, SumInt
  <2>6. Sum(g, U \cup {a}) = g[a] + Sum(g, U)
    BY <2>3, <2>5, SumMore
  <2>7. Sum(f, W \cup V) = Sum(f, W) + Sum(f, V)
    BY <2>2, <2>3, <2>4, SumApart
  <2>8. IsFiniteSet(W \cup V)
    BY <2>3, FS_Union
  <2> QED
    BY <2>1, <2>2, <2>3, <2>6, <2>7, <2>8
<1> HIDE DEF G
<1>3. I \in G
  BY <1>1, <1>2, GrownSet
<1>4. S = All(I)
  BY DEF Divides
<1> QED
  BY <1>3, <1>4 DEF G

\* The sum of values that are between two bounds.
LEMMA SumBetween ==
  ASSUME NEW S, IsFiniteSet(S), NEW f, NEW lo \in Int, NEW hi \in Int,
         \A x \in S : f[x] \in Int /\ lo <= f[x] /\ f[x] <= hi
  PROVE  /\ Sum(f, S) \in Int /\ Cardinality(S) \in Nat
         /\ lo * Cardinality(S) <= Sum(f, S) /\ Sum(f, S) <= hi * Cardinality(S)
<1>1. PICK ones, low, high : ones = [x \in S |-> 1] /\ low = [x \in S |-> lo] /\ high = [x \in S |-> hi]
  OBVIOUS
<1>2. \A x \in S : ones[x] = 1 /\ ones[x] \in Int /\ low[x] = lo * ones[x] /\ high[x] = hi * ones[x]
  BY <1>1
<1>3. \A x \in S : low[x] = lo /\ high[x] = hi
  BY <1>1
<1>4. Sum(ones, S) = Cardinality(S)
  BY <1>2, SumOnes
<1>5. Sum(low, S) = lo * Sum(ones, S)
  BY <1>2, SumScaled
<1>6. Sum(high, S) = hi * Sum(ones, S)
  BY <1>2, SumScaled
<1>7. Sum(low, S) <= Sum(f, S)
  BY <1>3, SumAtMost
<1>8. Sum(f, S) <= Sum(high, S)
  BY <1>3, SumAtMost
<1>9. Sum(f, S) \in Int /\ Cardinality(S) \in Nat
  BY SumInt, FS_CardinalityType
<1> QED
  BY <1>4, <1>5, <1>6, <1>7, <1>8, <1>9

-----------------------------------------------------------------------------
(* Extremes.                                                               *)

\* The largest and the least of finitely many numbers.
LEMMA LargestOf ==
  ASSUME NEW S, IsFiniteSet(S), S # {}, NEW g, \A x \in S : g[x] \in Int
  PROVE  \E m \in S : \A x \in S : g[x] <= g[m]
<1> DEFINE G == {U \in SUBSET S : U = {} \/ \E m \in U : \A x \in U : g[x] <= g[m]}
<1>1. {} \in G
  OBVIOUS
<1>2. ASSUME NEW U \in SUBSET S, NEW a \in S \ U, U \in G PROVE U \cup {a} \in G
  <2>1. CASE U = {}
    <3>1. \A x \in U \cup {a} : g[x] <= g[a]
      BY <2>1
    <3> QED
      BY <3>1
  <2>2. CASE U # {}
    <3>1. PICK m \in U : \A x \in U : g[x] <= g[m]
      BY <1>2, <2>2
    <3>2. CASE g[m] <= g[a]
      <4>1. \A x \in U \cup {a} : g[x] <= g[a]
        BY <3>1, <3>2
      <4> QED
        BY <4>1
    <3>3. CASE ~(g[m] <= g[a])
      <4>1. \A x \in U \cup {a} : g[x] <= g[m]
        BY <3>1, <3>3
      <4> QED
        BY <3>1, <4>1
    <3> QED
      BY <3>2, <3>3
  <2> QED
    BY <2>1, <2>2
<1> HIDE DEF G
<1>3. S \in G
  BY <1>1, <1>2, GrownSet
<1> QED
  BY <1>3 DEF G

LEMMA LeastOf ==
  ASSUME NEW S, IsFiniteSet(S), S # {}, NEW g, \A x \in S : g[x] \in Int
  PROVE  \E m \in S : \A x \in S : g[m] <= g[x]
<1>1. PICK h : h = [x \in S |-> 0 - g[x]]
  OBVIOUS
<1>2. \A x \in S : h[x] = 0 - g[x] /\ h[x] \in Int
  BY <1>1
<1>3. PICK m \in S : \A x \in S : h[x] <= h[m]
  BY <1>2, LargestOf
<1> QED
  BY <1>2, <1>3

\* Max and Min of the community modules.
LEMMA MaxIs ==
  ASSUME NEW S, IsFiniteSet(S), S # {}, \A x \in S : x \in Int
  PROVE  Max(S) \in S /\ \A x \in S : x <= Max(S)
<1>1. PICK g : g = [x \in S |-> x]
  OBVIOUS
<1>2. PICK m \in S : \A x \in S : g[x] <= g[m]
  BY <1>1, LargestOf
<1>3. \A x \in S : m >= x
  BY <1>1, <1>2
<1> QED
  BY <1>3 DEF Max

LEMMA MinIs ==
  ASSUME NEW S, IsFiniteSet(S), S # {}, \A x \in S : x \in Int
  PROVE  Min(S) \in S /\ \A x \in S : Min(S) <= x
<1>1. PICK g : g = [x \in S |-> x]
  OBVIOUS
<1>2. PICK m \in S : \A x \in S : g[m] <= g[x]
  BY <1>1, LeastOf
<1>3. \A x \in S : m <= x
  BY <1>1, <1>2
<1> QED
  BY <1>3 DEF Min

-----------------------------------------------------------------------------
(* Sorting and filtering.                                                  *)

LEMMA IntervalIs == ASSUME NEW n \in Nat PROVE IsFiniteSet(1..n) /\ Cardinality(1..n) = n
<1>1. PICK a \in Int, b \in Int : a = 1 /\ b = n
  OBVIOUS
<1>2. IsFiniteSet(a..b) /\ Cardinality(a..b) = IF a > b THEN 0 ELSE b - a + 1
  BY FS_Interval
<1> QED
  BY <1>1, <1>2

\* A sort puts each of finitely many keyed places at a rank of its own.
Ahead(p, q) == p[1] < q[1] \/ (p[1] = q[1] /\ p[2] < q[2])
UpTo(pairs, p) == {q \in pairs : q[1] < p[1] \/ (q[1] = p[1] /\ q[2] <= p[2])}
Keyed(pairs) == /\ \A p \in pairs : p[1] \in Int /\ p[2] \in Nat
                /\ \A p, q \in pairs : p[2] = q[2] => p = q

LEMMA AheadRanksLower ==
  ASSUME NEW P, IsFiniteSet(P), Keyed(P), NEW p \in P, NEW q \in P, Ahead(p, q)
  PROVE  Cardinality(UpTo(P, p)) < Cardinality(UpTo(P, q))
<1>1. \A r \in P : r[1] \in Int /\ r[2] \in Nat
  BY DEF Keyed
<1>2. UpTo(P, p) \in SUBSET UpTo(P, q)
  BY <1>1 DEF UpTo, Ahead
<1>3. q \in UpTo(P, q) /\ q \notin UpTo(P, p)
  BY <1>1 DEF UpTo, Ahead
<1>4. IsFiniteSet(UpTo(P, q))
  <2>1. UpTo(P, q) \in SUBSET P
    BY DEF UpTo
  <2> QED
    BY <2>1, FS_Subset
<1>5. IsFiniteSet(UpTo(P, p)) /\ Cardinality(UpTo(P, p)) <= Cardinality(UpTo(P, q))
      /\ Cardinality(UpTo(P, p)) # Cardinality(UpTo(P, q))
  BY <1>2, <1>3, <1>4, FS_Subset
<1> QED
  BY <1>4, <1>5, FS_CardinalityType

LEMMA RanksAre ==
  ASSUME NEW P, IsFiniteSet(P), Keyed(P)
  PROVE  /\ \A k \in 1..Cardinality(P) : InOrder(P, k) \in P
         /\ \A j, k \in 1..Cardinality(P) : j < k => Ahead(InOrder(P, j), InOrder(P, k))
         /\ \A p \in P : \E k \in 1..Cardinality(P) : InOrder(P, k) = p
<1>0. PICK n \in Nat : n = Cardinality(P)
  BY FS_CardinalityType
<1>1. PICK rank : n = Cardinality(P) /\ rank = [p \in P |-> Cardinality(UpTo(P, p))]
  BY <1>0
<1>2. \A p, q \in P : p = q \/ Ahead(p, q) \/ Ahead(q, p)
  BY DEF Keyed, Ahead
<1>3. \A p, q \in P : Ahead(p, q) => rank[p] < rank[q]
  BY <1>1, AheadRanksLower
<1>4. \A p \in P : rank[p] \in 1..n
  <2>1. TAKE p \in P
  <2>2. UpTo(P, p) \in SUBSET P /\ p \in UpTo(P, p)
    BY DEF UpTo, Keyed
  <2>3. IsFiniteSet(UpTo(P, p)) /\ Cardinality(UpTo(P, p)) <= n /\ UpTo(P, p) # {}
    BY <1>1, <2>2, FS_Subset
  <2>4. Cardinality(UpTo(P, p)) \in Nat /\ Cardinality(UpTo(P, p)) # 0
    BY <2>3, FS_CardinalityType, FS_EmptySet
  <2> QED
    BY <1>1, <2>3, <2>4
<1>5. \A p, q \in P : rank[p] = rank[q] => p = q
  <2>1. TAKE p, q \in P
  <2>2. rank[p] \in Int /\ rank[q] \in Int
    BY <1>4
  <2> QED
    BY <1>2, <1>3, <2>2
<1>6. \A k \in 1..n : \E p \in P : rank[p] = k
  <2>1. PICK T : T = 1..n
    OBVIOUS
  <2>2. IsFiniteSet(T) /\ Cardinality(T) = n
    BY <2>1, IntervalIs
  <2>3. rank \in [P -> T]
    BY <1>1, <1>4, <2>1
  <2>4. rank \in Injection(P, T)
    BY <1>5, <2>3 DEF Injection, IsInjective
  <2>5. rank \in Surjection(P, T)
    BY <1>1, <2>2, <2>4, FS_Injection
  <2> QED
    BY <2>1, <2>5 DEF Surjection
<1>7. \A k \in 1..n : InOrder(P, k) \in P /\ rank[InOrder(P, k)] = k
  <2>1. TAKE k \in 1..n
  <2>2. PICK p \in P : rank[p] = k
    BY <1>6
  <2>3. Cardinality(UpTo(P, p)) = k
    BY <1>1, <2>2
  <2>4. InOrder(P, k) \in P /\ Cardinality(UpTo(P, InOrder(P, k))) = k
    BY <2>3 DEF InOrder, UpTo
  <2> QED
    BY <1>1, <2>4
<1>8. ASSUME NEW j \in 1..n, NEW k \in 1..n, j < k PROVE Ahead(InOrder(P, j), InOrder(P, k))
  <2>1. PICK p \in P, q \in P : p = InOrder(P, j) /\ q = InOrder(P, k) /\ rank[p] = j /\ rank[q] = k
    BY <1>7
  <2>2. p # q /\ ~Ahead(q, p)
    BY <1>3, <1>8, <2>1
  <2> QED
    BY <1>2, <2>1, <2>2
<1>9. ASSUME NEW p \in P PROVE InOrder(P, rank[p]) = p
  BY <1>4, <1>5, <1>7
<1> QED
  BY <1>1, <1>4, <1>7, <1>8, <1>9

\* An order of finitely many places has each of them once.
Placed(p, n, at) ==
  /\ n \in Nat /\ n = Cardinality(at) /\ p \in [1..n -> at]
  /\ \A j, k \in 1..n : p[j] = p[k] => j = k
  /\ \A i \in at : \E k \in 1..n : p[k] = i

LEMMA SumPlaced ==
  ASSUME NEW at, IsFiniteSet(at), NEW n, NEW p, Placed(p, n, at),
         NEW f, NEW g, \A i \in at : f[i] \in Int, \A k \in 1..n : g[k] = f[p[k]]
  PROVE  Sum(g, 1..n) = Sum(f, at)
<1>1. IsFiniteSet(1..n)
  BY IntervalIs DEF Placed
<1>2. at = {p[k] : k \in 1..n}
  BY DEF Placed
<1>3. \A k \in 1..n : f[p[k]] \in Int /\ g[k] = f[p[k]]
  BY DEF Placed
<1>4. \A j, k \in 1..n : p[j] = p[k] => j = k
  BY DEF Placed
<1>5. PICK T : T = 1..n
  OBVIOUS
<1>6. Maps(p, T, at) /\ IsFiniteSet(T) /\ \A t \in T : f[p[t]] \in Int /\ g[t] = f[p[t]]
  BY <1>1, <1>2, <1>3, <1>4, <1>5 DEF Maps
<1>7. Sum(g, T) = Sum(f, at)
  BY <1>6, SumMapped
<1> QED
  BY <1>5, <1>7

Sorts(list, s, at, key) ==
  \E n \in Nat : \E p \in [1..n -> at] :
    /\ list = [k \in 1..n |-> s[p[k]]]
    /\ \A j, k \in 1..n : j < k => key[p[j]] < key[p[k]] \/ (key[p[j]] = key[p[k]] /\ p[j] < p[k])

Orders(list, s, at, key) ==
  \E n, p :
    /\ Placed(p, n, at) /\ list = [k \in 1..n |-> s[p[k]]]
    /\ \A j, k \in 1..n : j < k => key[p[j]] < key[p[k]] \/ (key[p[j]] = key[p[k]] /\ p[j] < p[k])

LEMMA ArrangedOrders ==
  ASSUME NEW s, NEW at, IsFiniteSet(at), at \subseteq Nat, NEW key, \A i \in at : key[i] \in Int
  PROVE  Orders(Arranged(s, at, key), s, at, key)
<1>1. PICK P, f : P = {<<key[i], i>> : i \in at} /\ f = [i \in at |-> <<key[i], i>>]
  OBVIOUS
<1>2. \A q \in P : q[2] \in at /\ q[1] = key[q[2]]
  BY <1>1
<1>3. Keyed(P)
  BY <1>1 DEF Keyed
<1>4. IsFiniteSet(P)
  <2>1. f \in Surjection(at, P)
    BY <1>1 DEF Surjection
  <2> QED
    BY <2>1, FS_Surjection
<1>5. PICK n \in Nat : n = Cardinality(P)
  BY <1>4, FS_CardinalityType
<1>6. PICK p : p = [k \in 1..n |-> InOrder(P, k)[2]]
  OBVIOUS
<1>7. \A k \in 1..n : InOrder(P, k) \in P
  BY <1>3, <1>4, <1>5, RanksAre
<1>8. p \in [1..n -> at] /\ \A k \in 1..n : p[k] = InOrder(P, k)[2] /\ key[p[k]] = InOrder(P, k)[1]
  BY <1>2, <1>6, <1>7
<1>9. Arranged(s, at, key) = [k \in 1..n |-> s[p[k]]]
  BY <1>1, <1>5, <1>8 DEF Arranged
<1>10. ASSUME NEW j \in 1..n, NEW k \in 1..n, j < k
       PROVE  key[p[j]] < key[p[k]] \/ (key[p[j]] = key[p[k]] /\ p[j] < p[k])
  <2>1. Ahead(InOrder(P, j), InOrder(P, k))
    BY <1>3, <1>4, <1>5, <1>10, RanksAre
  <2> QED
    BY <1>8, <2>1 DEF Ahead
<1>11. Placed(p, n, at)
  <2>1. f \in Bijection(at, P)
    BY <1>1 DEF Bijection, Injection, Surjection, IsInjective
  <2>2. n = Cardinality(at)
    BY <1>4, <1>5, <2>1, FS_Surjection DEF Bijection
  <2>3. ASSUME NEW i \in at PROVE \E k \in 1..n : p[k] = i
    <3>1. f[i] \in P /\ f[i][2] = i
      BY <1>1
    <3>2. PICK k \in 1..n : InOrder(P, k) = f[i]
      BY <1>3, <1>4, <1>5, <3>1, RanksAre
    <3> QED
      BY <1>8, <3>1, <3>2
  <2>4. ASSUME NEW j \in 1..n, NEW k \in 1..n, p[j] = p[k] PROVE j = k
    <3>1. ~(j < k) /\ ~(k < j)
      <4>1. key[p[j]] \in Int /\ key[p[k]] \in Int /\ p[j] \in Nat /\ p[k] \in Nat
        BY <1>8
      <4>2. ~(key[p[j]] < key[p[k]]) /\ ~(key[p[k]] < key[p[j]]) /\ ~(p[j] < p[k]) /\ ~(p[k] < p[j])
        BY <2>4, <4>1
      <4> QED
        BY <1>10, <4>2
    <3> QED
      BY <3>1
  <2> QED
    BY <1>8, <2>2, <2>3, <2>4 DEF Placed
<1> QED
  BY <1>9, <1>10, <1>11 DEF Orders

LEMMA ArrangedIs ==
  ASSUME NEW s, NEW at, IsFiniteSet(at), at \subseteq Nat, NEW key, \A i \in at : key[i] \in Int
  PROVE  Sorts(Arranged(s, at, key), s, at, key)
<1>1. Orders(Arranged(s, at, key), s, at, key)
  BY ArrangedOrders
<1> QED
  BY <1>1 DEF Orders, Sorts, Placed


\* A filter keeps the order and takes each of the places once.
Keeps(list, s, at) ==
  \E n, p :
    Placed(p, n, at) /\ list = [k \in 1..n |-> s[p[k]]] /\ \A j, k \in 1..n : j < k => p[j] < p[k]
Filters(list, s, at) ==
  \E n \in Nat : \E p \in [1..n -> at] :
    list = [k \in 1..n |-> s[p[k]]] /\ \A j, k \in 1..n : j < k => p[j] < p[k]

LEMMA KeptKeeps ==
  ASSUME NEW s, NEW at, IsFiniteSet(at), at \subseteq Nat
  PROVE  Keeps(Kept(s, at), s, at)
<1>1. PICK key : key = [i \in at |-> 0]
  OBVIOUS
<1>2. \A i \in at : key[i] \in Int /\ key[i] = 0
  BY <1>1
<1>3. Orders(Arranged(s, at, key), s, at, key)
  BY <1>2, ArrangedOrders
<1>4. PICK n, p :
        /\ Placed(p, n, at) /\ Arranged(s, at, key) = [k \in 1..n |-> s[p[k]]]
        /\ \A j, k \in 1..n : j < k => key[p[j]] < key[p[k]] \/ (key[p[j]] = key[p[k]] /\ p[j] < p[k])
  BY <1>3 DEF Orders
<1>5. \A k \in 1..n : p[k] \in at
  BY <1>4 DEF Placed
<1>6. \A j, k \in 1..n : j < k => p[j] < p[k]
  <2>1. TAKE j, k \in 1..n
  <2>2. key[p[j]] = 0 /\ key[p[k]] = 0
    BY <1>2, <1>5
  <2>3. ~(key[p[j]] < key[p[k]])
    BY <2>2
  <2> QED
    BY <1>4, <2>3
<1>7. Kept(s, at) = Arranged(s, at, key)
  BY <1>1 DEF Kept
<1> QED
  BY <1>4, <1>6, <1>7 DEF Keeps

LEMMA KeptIs ==
  ASSUME NEW s, NEW at, IsFiniteSet(at), at \subseteq Nat
  PROVE  Filters(Kept(s, at), s, at)
<1>1. Keeps(Kept(s, at), s, at)
  BY KeptKeeps
<1> QED
  BY <1>1 DEF Keeps, Filters, Placed

-----------------------------------------------------------------------------
(* Counts by key.                                                          *)

\* Counted by what they have in common, things are counted once.
Having(S, f, U) == {x \in S : f[x] \in U}

LEMMA HavingIs ==
  ASSUME NEW S, IsFiniteSet(S), NEW f, NEW U
  PROVE  IsFiniteSet(Having(S, f, U)) /\ Cardinality(Having(S, f, U)) \in Nat
<1>1. Having(S, f, U) \in SUBSET S
  BY DEF Having
<1> QED
  BY <1>1, FS_Subset, FS_CardinalityType

LEMMA CardApart ==
  ASSUME NEW V, NEW W, IsFiniteSet(V), IsFiniteSet(W), V \cap W = {}
  PROVE  Cardinality(V \cup W) = Cardinality(V) + Cardinality(W)
<1>1. Cardinality(V) \in Nat /\ Cardinality(W) \in Nat
  BY FS_CardinalityType
<1>2. Cardinality(V \cup W) = Cardinality(V) + Cardinality(W) - Cardinality(V \cap W)
  BY FS_Union
<1>3. Cardinality(V \cap W) = 0
  BY FS_EmptySet
<1> QED
  BY <1>1, <1>2, <1>3

\* Each of finitely many keys with the number of those that have it.
Tallies(g, K, f, S) ==
  /\ \A x \in S : f[x] \in K
  /\ \A k \in K : g[k] = Cardinality(Having(S, f, {k}))
LEMMA TalliesAddUp ==
  ASSUME NEW S, IsFiniteSet(S), NEW f, NEW K, IsFiniteSet(K), NEW g, Tallies(g, K, f, S)
  PROVE  Sum(g, K) = Cardinality(S)
<1>0. (\A x \in S : f[x] \in K) /\ \A k \in K : g[k] = Cardinality(Having(S, f, {k}))
  BY DEF Tallies
<1>2. \A k \in K : g[k] \in Int
  <2>1. TAKE k \in K
  <2>2. PICK U : U = {k}
    OBVIOUS
  <2>3. g[k] = Cardinality(Having(S, f, U)) /\ Cardinality(Having(S, f, U)) \in Nat
    BY <1>0, <2>2, HavingIs
  <2> QED
    BY <2>3
<1> DEFINE G == {U \in SUBSET K : Sum(g, U) = Cardinality(Having(S, f, U))}
<1>3. {} \in G
  <2>1. Having(S, f, {}) = {}
    BY DEF Having
  <2> QED
    BY <2>1, SumEmpty, FS_EmptySet
<1>4. ASSUME NEW U \in SUBSET K, NEW a \in K \ U, U \in G PROVE U \cup {a} \in G
  <2>1. Having(S, f, U \cup {a}) = Having(S, f, U) \cup Having(S, f, {a})
        /\ Having(S, f, U) \cap Having(S, f, {a}) = {}
    BY <1>4 DEF Having
  <2>2. Cardinality(Having(S, f, U \cup {a})) = Cardinality(Having(S, f, U)) + Cardinality(Having(S, f, {a}))
    BY <2>1, HavingIs, CardApart
  <2>3. IsFiniteSet(U)
    BY FS_Subset
  <2>4. Sum(g, U \cup {a}) = g[a] + Sum(g, U)
    BY <1>2, <2>3, SumMore
  <2>5. Sum(g, U) = Cardinality(Having(S, f, U)) /\ g[a] = Cardinality(Having(S, f, {a}))
    BY <1>0, <1>4
  <2>6. Cardinality(Having(S, f, U)) \in Nat /\ Cardinality(Having(S, f, {a})) \in Nat
    BY HavingIs
  <2>7. Sum(g, U \cup {a}) = Cardinality(Having(S, f, U \cup {a}))
    BY <2>2, <2>4, <2>5, <2>6
  <2> QED
    BY <2>7
<1> HIDE DEF G
<1>5. K \in G
  BY <1>3, <1>4, GrownSet
<1>6. Having(S, f, K) = S
  BY <1>0 DEF Having
<1> QED
  BY <1>5, <1>6 DEF G

\* ... and with the keys that somebody has.
Counts(g, K, f, S) == Tallies(g, K, f, S) /\ \A k \in K : \E x \in S : k = f[x]
LEMMA CountedByKey ==
  ASSUME NEW S, IsFiniteSet(S), NEW f, NEW K, NEW g, Counts(g, K, f, S)
  PROVE  IsFiniteSet(K) /\ Sum(g, K) = Cardinality(S)
<1>1. IsFiniteSet(K)
  <2>1. PICK h : h = [x \in S |-> f[x]]
    OBVIOUS
  <2>2. h \in [S -> K] /\ \A k \in K : \E x \in S : h[x] = k
    BY <2>1 DEF Counts, Tallies
  <2>3. h \in Surjection(S, K)
    BY <2>2 DEF Surjection
  <2> QED
    BY <2>3, FS_Surjection
<1> QED
  BY <1>1, TalliesAddUp DEF Counts

=============================================================================
