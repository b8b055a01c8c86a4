----------------------------- MODULE SumLemmas ------------------------------
(***************************************************************************)
(* What SumOf computes: the recursion of MapThenFoldSet removes the        *)
(* elements one by one in an order CHOOSE fixes; the lemmas below say that *)
(* the recursion has a solution and that its value does not depend on the  *)
(* order.                                                                  *)
(*                                                                         *)
(* The induction is over a set of sets: FiniteSetInduction is the least    *)
(* counterexample argument, from the well-foundedness of the strict subset *)
(* order of a finite set.                                                  *)
(***************************************************************************)
EXTENDS Sums, FiniteSetTheorems, WellFoundedInduction, TLAPS

\* A set of sets that has every subset of S whose strict subsets it has, has S.
LEMMA SubsetInduction ==
    ASSUME NEW S, IsFiniteSet(S), NEW G,
           \A T \in SUBSET S : (\A U \in SUBSET T : U # T => U \in G) => T \in G
    PROVE  \A T \in SUBSET S : T \in G
  <1> DEFINE Bad == {T \in SUBSET S : T \notin G}
             R   == StrictSubsetOrdering(S)
  <1>1. SUFFICES ASSUME Bad # {} PROVE FALSE OBVIOUS
  <1>2. IsWellFoundedOn(R, FiniteSubsetsOf(S)) BY FS_StrictSubsetOrderingWellFounded
  <1>3. Bad \subseteq FiniteSubsetsOf(S) BY FS_FiniteSubsetsOfFinite
  <1> HIDE DEF Bad, R
  <1>4. PICK T \in Bad : \A U \in Bad : <<U, T>> \notin R BY <1>1, <1>2, <1>3, WFMin
  <1> USE DEF Bad, R
  <1>5. ASSUME NEW U \in SUBSET T, U # T PROVE U \in G
    <2>1. <<U, T>> \in R BY <1>5 DEF StrictSubsetOrdering
    <2>2. U \notin Bad BY <2>1, <1>4
    <2> QED BY <2>2
  <1> QED BY <1>5

\* A set of sets that has {} and grows by any element of S has S.
LEMMA FiniteSetInduction ==
    ASSUME NEW S, IsFiniteSet(S), NEW G, {} \in G,
           \A T \in SUBSET S : \A x \in S \ T : T \in G => T \cup {x} \in G
    PROVE  S \in G
  <1>1. ASSUME NEW T \in SUBSET S, \A U \in SUBSET T : U # T => U \in G
        PROVE  T \in G
    <2>1. CASE T = {} BY <2>1
    <2>2. CASE T # {}
      <3>1. PICK x \in T : TRUE BY <2>2
      <3>2. T \ {x} \in G BY <1>1, <3>1
      <3>3. x \in S \ (T \ {x}) /\ T \ {x} \in SUBSET S OBVIOUS
      <3>4. (T \ {x}) \cup {x} = T BY <3>1
      <3> QED BY <3>2, <3>3, <3>4
    <2> QED BY <2>1, <2>2
  <1>2. \A T \in SUBSET S : T \in G BY <1>1, SubsetInduction
  <1> QED BY <1>2

----------------------------------------------------------------------------
\* The element the fold takes next, and its recursion over the subsets of S.
Pick(s) == CHOOSE x \in s : TRUE

SumsBelow(f, S, g) ==
    g = [s \in SUBSET S |-> IF s = {} THEN 0 ELSE f[Pick(s)] + g[s \ {Pick(s)}]]

Below(f, S) == CHOOSE g : SumsBelow(f, S, g)

LEMMA SumIsBelow == \A f, S : SumOf(f, S) = Below(f, S)[S]
  <1> QED BY DEF SumOf, MapThenSumSet, MapThenFoldSet, Below, SumsBelow, Pick

LEMMA PickIn == \A s : s # {} => Pick(s) \in s
  <1> QED BY DEF Pick

\* Two solutions, over whatever sets, agree on every finite set they both sum.
LEMMA SumsAgree ==
    ASSUME NEW f, NEW S, NEW T, NEW g, NEW h, SumsBelow(f, S, g), SumsBelow(f, T, h),
           NEW V, IsFiniteSet(V), V \subseteq S, V \subseteq T
    PROVE  g[V] = h[V]
  <1> DEFINE G == {U \in SUBSET V : g[U] = h[U]}
  <1>1. ASSUME NEW U \in SUBSET V, \A W \in SUBSET U : W # U => W \in G
        PROVE  U \in G
    <2>1. U \in SUBSET S /\ U \in SUBSET T OBVIOUS
    <2>2. CASE U = {}
      <3>1. g[U] = 0 BY <2>1, <2>2 DEF SumsBelow
      <3>2. h[U] = 0 BY <2>1, <2>2 DEF SumsBelow
      <3> QED BY <3>1, <3>2
    <2>3. CASE U # {}
      <3> DEFINE W == U \ {Pick(U)}
      <3>0. W \in SUBSET U /\ W # U BY <2>3, PickIn
      <3>1. g[U] = f[Pick(U)] + g[W] BY <2>1, <2>3 DEF SumsBelow
      <3>2. h[U] = f[Pick(U)] + h[W] BY <2>1, <2>3 DEF SumsBelow
      <3>3. g[W] = h[W] BY <1>1, <3>0
      <3> QED BY <3>1, <3>2, <3>3
    <2> QED BY <2>2, <2>3
  <1> HIDE DEF G
  <1>2. \A U \in SUBSET V : U \in G BY <1>1, SubsetInduction
  <1> QED BY <1>2 DEF G

\* The recursion has a solution over a finite set: where every smaller set has one,
\* the sums of the smaller sets are one.
LEMMA SumsExist ==
    ASSUME NEW f, NEW S, IsFiniteSet(S)
    PROVE  SumsBelow(f, S, Below(f, S))
  <1> DEFINE G == {T \in SUBSET S : \E g : SumsBelow(f, T, g)}
  <1>1. ASSUME NEW T \in SUBSET S, \A U \in SUBSET T : U # T => U \in G
        PROVE  T \in G
    <2> DEFINE h == [s \in SUBSET T |->
                       IF s = {} THEN 0
                       ELSE f[Pick(s)] + Below(f, s \ {Pick(s)})[s \ {Pick(s)}]]
    <2>1. ASSUME NEW U \in SUBSET T, U # T PROVE SumsBelow(f, U, Below(f, U))
      <3>1. \E g : SumsBelow(f, U, g) BY <1>1, <2>1
      <3> QED BY <3>1 DEF Below
    <2>2. ASSUME NEW U \in SUBSET T, U # T PROVE h[U] = Below(f, U)[U]
      <3>1. CASE U = {}
        <4>1. Below(f, U)[U] = 0 BY <2>1, <2>2, <3>1 DEF SumsBelow
        <4> QED BY <3>1, <4>1
      <3>2. CASE U # {}
        <4> DEFINE W == U \ {Pick(U)}
        <4>1. W \in SUBSET U /\ W \in SUBSET T /\ W # T BY <2>2
        <4>2. Below(f, U)[U] = f[Pick(U)] + Below(f, U)[W]
          BY <2>1, <2>2, <3>2 DEF SumsBelow
        <4>3. IsFiniteSet(W) BY <4>1, FS_Subset
        <4>4. Below(f, U)[W] = Below(f, W)[W]
          BY <2>1, <2>2, <4>1, <4>3, SumsAgree
        <4>5. h[U] = f[Pick(U)] + Below(f, W)[W] BY <3>2
        <4> QED BY <4>2, <4>4, <4>5
      <3> QED BY <3>1, <3>2
    <2>3. SumsBelow(f, T, h)
      <3>1. ASSUME NEW s \in SUBSET T, s # {}
            PROVE  h[s] = f[Pick(s)] + h[s \ {Pick(s)}]
        <4>1. s \ {Pick(s)} \in SUBSET T /\ s \ {Pick(s)} # T BY <3>1, PickIn
        <4>2. h[s \ {Pick(s)}] = Below(f, s \ {Pick(s)})[s \ {Pick(s)}] BY <2>2, <4>1
        <4> HIDE DEF h
        <4>3. h[s] = f[Pick(s)] + Below(f, s \ {Pick(s)})[s \ {Pick(s)}] BY <3>1 DEF h
        <4> QED BY <4>2, <4>3
      <3>2. h = [s \in SUBSET T |-> h[s]] OBVIOUS
      <3>3. h[{}] = 0 OBVIOUS
      <3> HIDE DEF h
      <3> QED BY <3>1, <3>2, <3>3 DEF SumsBelow
    <2> HIDE DEF h
    <2> QED BY <2>3
  <1> HIDE DEF G
  <1>2. S \in G BY <1>1, SubsetInduction
  <1> QED BY <1>2 DEF G, Below

LEMMA SumEmpty == \A f : SumOf(f, {}) = 0
  <1> TAKE f
  <1>1. SumsBelow(f, {}, Below(f, {})) BY SumsExist, FS_EmptySet
  <1>2. Below(f, {})[{}] = 0 BY <1>1 DEF SumsBelow
  <1> QED BY <1>2, SumIsBelow

LEMMA SumPick ==
    ASSUME NEW f, NEW S, IsFiniteSet(S), S # {}
    PROVE  SumOf(f, S) = f[Pick(S)] + SumOf(f, S \ {Pick(S)})
  <1> DEFINE W == S \ {Pick(S)}
  <1>1. SumsBelow(f, S, Below(f, S)) BY SumsExist
  <1>2. IsFiniteSet(W) BY FS_Subset
  <1>3. SumsBelow(f, W, Below(f, W)) BY <1>2, SumsExist
  <1>4. Below(f, S)[S] = f[Pick(S)] + Below(f, S)[W] BY <1>1 DEF SumsBelow
  <1>5. Below(f, S)[W] = Below(f, W)[W] BY <1>1, <1>2, <1>3, SumsAgree
  <1> QED BY <1>4, <1>5, SumIsBelow

----------------------------------------------------------------------------
LEMMA SumType ==
    ASSUME NEW f, NEW S, IsFiniteSet(S), \A x \in S : f[x] \in Int
    PROVE  SumOf(f, S) \in Int
  <1> DEFINE G == {T \in SUBSET S : SumOf(f, T) \in Int}
  <1>1. ASSUME NEW T \in SUBSET S, \A U \in SUBSET T : U # T => U \in G
        PROVE  T \in G
    <2>1. CASE T = {} BY <2>1, SumEmpty
    <2>2. CASE T # {}
      <3>1. IsFiniteSet(T) BY FS_Subset
      <3>2. Pick(T) \in T BY <2>2, PickIn
      <3>3. SumOf(f, T \ {Pick(T)}) \in Int BY <1>1, <3>2
      <3>4. SumOf(f, T) = f[Pick(T)] + SumOf(f, T \ {Pick(T)}) BY <2>2, <3>1, SumPick
      <3> QED BY <3>2, <3>3, <3>4
    <2> QED BY <2>1, <2>2
  <1> HIDE DEF G
  <1>2. S \in G BY <1>1, SubsetInduction
  <1> QED BY <1>2 DEF G

\* Any element may be taken first.
LEMMA SumRemove ==
    ASSUME NEW f, NEW S, IsFiniteSet(S), \A x \in S : f[x] \in Int, NEW e \in S
    PROVE  SumOf(f, S) = SumOf(f, S \ {e}) + f[e]
  <1> DEFINE G == {T \in SUBSET S : \A x \in T : SumOf(f, T) = SumOf(f, T \ {x}) + f[x]}
  <1>1. ASSUME NEW T \in SUBSET S, \A U \in SUBSET T : U # T => U \in G
        PROVE  T \in G
    <2> SUFFICES ASSUME NEW x \in T PROVE SumOf(f, T) = SumOf(f, T \ {x}) + f[x] OBVIOUS
    <2> DEFINE p == Pick(T)
    <2>1. p \in T BY PickIn
    <2>2. /\ IsFiniteSet(T) /\ IsFiniteSet(T \ {x}) /\ IsFiniteSet(T \ {p})
          /\ IsFiniteSet((T \ {p}) \ {x})
      BY FS_Subset
    <2>3. SumOf(f, T) = f[p] + SumOf(f, T \ {p}) BY <2>2, SumPick
    <2>4. SumOf(f, T \ {x}) \in Int /\ SumOf(f, (T \ {p}) \ {x}) \in Int
      BY <2>2, SumType
    <2>5. CASE x = p BY <2>1, <2>3, <2>4, <2>5
    <2>6. CASE x # p
      <3>1. T \ {p} \in G /\ T \ {x} \in G BY <1>1, <2>1
      <3>2. SumOf(f, T \ {p}) = SumOf(f, (T \ {p}) \ {x}) + f[x] BY <2>6, <3>1
      <3>3. SumOf(f, T \ {x}) = SumOf(f, (T \ {x}) \ {p}) + f[p] BY <2>1, <2>6, <3>1
      <3>4. (T \ {x}) \ {p} = (T \ {p}) \ {x} OBVIOUS
      <3>5. f[x] \in Int /\ f[p] \in Int BY <2>1
      <3>6. SumOf(f, T \ {x}) = SumOf(f, (T \ {p}) \ {x}) + f[p] BY <3>3, <3>4
      <3> QED BY <2>3, <2>4, <3>2, <3>5, <3>6
    <2> QED BY <2>5, <2>6
  <1> HIDE DEF G
  <1>2. S \in G BY <1>1, SubsetInduction
  <1> QED BY <1>2 DEF G

LEMMA SumAdd ==
    ASSUME NEW f, NEW S, IsFiniteSet(S), NEW e, e \notin S,
           \A x \in S : f[x] \in Int, f[e] \in Int
    PROVE  SumOf(f, S \cup {e}) = SumOf(f, S) + f[e]
  <1>1. IsFiniteSet(S \cup {e}) BY FS_AddElement
  <1>2. (S \cup {e}) \ {e} = S OBVIOUS
  <1> QED BY <1>1, <1>2, SumRemove

LEMMA SumSame ==
    ASSUME NEW f, NEW g, NEW S, IsFiniteSet(S), \A x \in S : f[x] = g[x]
    PROVE  SumOf(f, S) = SumOf(g, S)
  <1> DEFINE G == {T \in SUBSET S : SumOf(f, T) = SumOf(g, T)}
  <1>1. ASSUME NEW T \in SUBSET S, \A U \in SUBSET T : U # T => U \in G
        PROVE  T \in G
    <2>1. CASE T = {} BY <2>1, SumEmpty
    <2>2. CASE T # {}
      <3>1. IsFiniteSet(T) BY FS_Subset
      <3>2. Pick(T) \in T BY <2>2, PickIn
      <3>3. T \ {Pick(T)} \in G BY <1>1, <3>2
      <3>4. /\ SumOf(f, T) = f[Pick(T)] + SumOf(f, T \ {Pick(T)})
            /\ SumOf(g, T) = g[Pick(T)] + SumOf(g, T \ {Pick(T)})
        BY <2>2, <3>1, SumPick
      <3> QED BY <3>2, <3>3, <3>4
    <2> QED BY <2>1, <2>2
  <1> HIDE DEF G
  <1>2. S \in G BY <1>1, SubsetInduction
  <1> QED BY <1>2 DEF G

LEMMA SumZero ==
    ASSUME NEW f, NEW S, IsFiniteSet(S), \A x \in S : f[x] = 0
    PROVE  SumOf(f, S) = 0
  <1> DEFINE G == {T \in SUBSET S : SumOf(f, T) = 0}
  <1>1. {} \in G BY SumEmpty
  <1>2. ASSUME NEW T \in SUBSET S, NEW x \in S \ T, T \in G PROVE T \cup {x} \in G
    <2>1. IsFiniteSet(T) /\ \A y \in T : f[y] \in Int BY FS_Subset
    <2>2. SumOf(f, T \cup {x}) = SumOf(f, T) + f[x] BY <2>1, SumAdd
    <2> QED BY <1>2, <2>2
  <1> HIDE DEF G
  <1>3. S \in G BY <1>1, <1>2, FiniteSetInduction
  <1> QED BY <1>3 DEF G

LEMMA SumNonNegative ==
    ASSUME NEW f, NEW S, IsFiniteSet(S), \A x \in S : f[x] \in Int /\ f[x] >= 0
    PROVE  SumOf(f, S) >= 0
  <1> DEFINE G == {T \in SUBSET S : SumOf(f, T) >= 0}
  <1>1. {} \in G BY SumEmpty
  <1>2. ASSUME NEW T \in SUBSET S, NEW x \in S \ T, T \in G PROVE T \cup {x} \in G
    <2>1. IsFiniteSet(T) BY FS_Subset
    <2>2. SumOf(f, T) \in Int BY <2>1, SumType
    <2>3. SumOf(f, T \cup {x}) = SumOf(f, T) + f[x] BY <2>1, SumAdd
    <2> QED BY <1>2, <2>2, <2>3
  <1> HIDE DEF G
  <1>3. S \in G BY <1>1, <1>2, FiniteSetInduction
  <1> QED BY <1>3 DEF G

\* A sum over T, in bijection with S.
LEMMA SumImage ==
    ASSUME NEW f, NEW S, IsFiniteSet(S), NEW T, NEW h \in Bijection(S, T), NEW k,
           \A x \in S : k[x] = f[h[x]] /\ k[x] \in Int
    PROVE  IsFiniteSet(T) /\ SumOf(f, T) = SumOf(k, S)
  <1>0. /\ \A x \in S : h[x] \in T
        /\ \A y \in T : \E x \in S : y = h[x]
        /\ \A x, y \in S : h[x] = h[y] => x = y
    BY DEF Bijection, Injection, Surjection, IsInjective
  <1> DEFINE I(V) == {h[x] : x \in V}
             G    == {V \in SUBSET S : IsFiniteSet(I(V)) /\ SumOf(f, I(V)) = SumOf(k, V)}
  <1>1. {} \in G
    <2>1. I({}) = {} OBVIOUS
    <2> QED BY <2>1, SumEmpty, FS_EmptySet
  <1>2. ASSUME NEW V \in SUBSET S, NEW x \in S \ V, V \in G PROVE V \cup {x} \in G
    <2>1. IsFiniteSet(V) BY FS_Subset
    <2>2. IsFiniteSet(I(V)) BY <1>2
    <2>3. I(V \cup {x}) = I(V) \cup {h[x]} OBVIOUS
    <2>4. h[x] \notin I(V) BY <1>0
    <2>5. f[h[x]] \in Int /\ \A y \in I(V) : f[y] \in Int OBVIOUS
    <2> HIDE DEF I
    <2>6. IsFiniteSet(I(V) \cup {h[x]}) BY <2>2, FS_AddElement
    <2>7. SumOf(f, I(V) \cup {h[x]}) = SumOf(f, I(V)) + f[h[x]]
      BY <2>2, <2>4, <2>5, SumAdd
    <2>8. k[x] = f[h[x]] /\ k[x] \in Int /\ \A y \in V : k[y] \in Int OBVIOUS
    <2>9. SumOf(k, V \cup {x}) = SumOf(k, V) + k[x] BY <2>1, <2>8, SumAdd
    <2> QED BY <1>2, <2>3, <2>6, <2>7, <2>8, <2>9
  <1>3. I(S) = T BY <1>0
  <1> HIDE DEF G, I
  <1>4. S \in G BY <1>1, <1>2, FiniteSetInduction
  <1> QED BY <1>3, <1>4 DEF G

\* The sum over 1 .. n grows by one term.
LEMMA SumNext ==
    ASSUME NEW f, NEW n \in Nat, \A j \in 1 .. n + 1 : f[j] \in Int
    PROVE  SumOf(f, 1 .. n + 1) = SumOf(f, 1 .. n) + f[n + 1]
  <1> DEFINE I == 1 .. n
             m == n + 1
  <1>1. IsFiniteSet(I) BY FS_Interval
  <1>2. 1 .. n + 1 = I \cup {m} /\ m \notin I OBVIOUS
  <1>3. f[m] \in Int /\ \A j \in I : f[j] \in Int OBVIOUS
  <1> HIDE DEF I, m
  <1>4. SumOf(f, I \cup {m}) = SumOf(f, I) + f[m] BY <1>1, <1>2, <1>3, SumAdd
  <1> QED BY <1>2, <1>4 DEF I, m

=============================================================================
