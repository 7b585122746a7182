--------------------------- MODULE AnalyzerProofs ---------------------------
(***************************************************************************)
(* The analyzer for every set of files, entries, ranges and policies.      *)
(* TotalsAddUp, PieIsWhole and ChartsShowTheView compare sums that are     *)
(* taken in different orders and groups, so the first sections prove what  *)
(* sums over finite sets are: SumFunctionOnSet is defined by recursion on  *)
(* sets, and the induction they need follows from the fact that every set  *)
(* of naturals has a least element.                                        *)
(***************************************************************************)
EXTENDS Analyzer, FiniteSetTheorems, TLAPS

-----------------------------------------------------------------------------
(***************************************************************************)
(* Sums over finite sets.                                                  *)
(***************************************************************************)

LEMMA Least ==
    ASSUME NEW T, T \subseteq Nat, T # {}
    PROVE  \E m \in T : \A k \in T : m <= k
<1>1. PICK m \in T : \A k \in T : <<k, m>> \notin OpToRel(<, Nat)
  BY WFMin, NatLessThanWellFounded
<1>2. \A k \in T : ~(k < m)
  BY <1>1 DEF OpToRel
<1>3. QED
  BY <1>2

LEMMA Induction ==
    ASSUME NEW Good, 0 \in Good, \A n \in Nat : n \in Good => n + 1 \in Good
    PROVE  Nat \subseteq Good
<1> DEFINE Bad == Nat \ Good
<1>1. SUFFICES ASSUME Bad # {} PROVE FALSE
  OBVIOUS
<1>2. PICK m \in Bad : \A k \in Bad : m <= k
  BY <1>1, Least
<1>3. m # 0 /\ m \in Nat
  OBVIOUS
<1>4. m - 1 \in Nat /\ m - 1 \in Good
  BY <1>2, <1>3
<1>5. m - 1 + 1 \in Good
  BY <1>4
<1>6. QED
  BY <1>3, <1>5

\* Induction on a finite set.
LEMMA SetInduction ==
    ASSUME NEW S, IsFiniteSet(S), NEW Good, {} \in Good,
           \A s \in Good : \A x \in S \ s : s \subseteq S => s \cup {x} \in Good
    PROVE  S \in Good
<1> DEFINE Bad == {s \in SUBSET S : s \notin Good}
           T == {Cardinality(s) : s \in Bad}
<1>1. \A s \in SUBSET S : IsFiniteSet(s) /\ Cardinality(s) \in Nat
  BY FS_Subset, FS_CardinalityType
<1>2. SUFFICES ASSUME Bad # {} PROVE FALSE
  OBVIOUS
<1>3. PICK m \in T : \A k \in T : m <= k
  <2>1. T \subseteq Nat /\ T # {}
    BY <1>1, <1>2
  <2> HIDE DEF T
  <2>2. QED
    BY <2>1, Least
<1>4. PICK s \in Bad : m = Cardinality(s)
  BY <1>3
<1>5. PICK x \in s : TRUE
  BY <1>4
<1> DEFINE r == s \ {x}
<1>6. r \in SUBSET S /\ x \in S \ r /\ r \cup {x} = s
  BY <1>4, <1>5
<1>7. Cardinality(r) < Cardinality(s)
  <2>1. IsFiniteSet(s) /\ Cardinality(s) \in Nat /\ Cardinality(r) = Cardinality(s) - 1
    BY <1>1, <1>4, <1>5, FS_RemoveElement
  <2>2. QED
    BY <2>1
<1>8. r \in Good
  <2>1. Cardinality(r) \in Nat /\ Cardinality(s) \in Nat
    BY <1>1, <1>4, <1>6
  <2>2. ASSUME r \in Bad PROVE FALSE
    <3>1. Cardinality(r) \in T
      BY <2>2
    <3>2. m <= Cardinality(r)
      BY <1>3, <3>1
    <3> HIDE DEF T, r, Bad
    <3>3. QED
      BY <1>4, <1>7, <2>1, <3>2
  <2>3. QED
    BY <1>6, <2>2
<1>9. QED
  BY <1>4, <1>6, <1>8

\* The recursion that SumFunctionOnSet unfolds.
Picked(s) == CHOOSE x \in s : TRUE
Sums(g, f, S) ==
    g = [s \in SUBSET S |-> IF s = {} THEN 0 ELSE f[Picked(s)] + g[s \ {Picked(s)}]]

LEMMA SumIsChosen == \A f, S : SumFunctionOnSet(f, S) = (CHOOSE g : Sums(g, f, S))[S]
BY DEF SumFunctionOnSet, FoldFunctionOnSet, MapThenFoldSet, Sums, Picked

LEMMA PickedIn == \A s : s # {} => Picked(s) \in s
BY DEF Picked

\* The sum's recursion has a solution.
LEMMA SumsExist ==
    ASSUME NEW S, IsFiniteSet(S), NEW f
    PROVE  \E g : Sums(g, f, S)
<1> DEFINE Following(g, s) == IF s = {} THEN 0 ELSE f[Picked(s)] + g[s \ {Picked(s)}]
           Solves(g, n) == \A s \in SUBSET S : Cardinality(s) <= n => g[s] = Following(g, s)
           Good == {n \in Nat : \E g : Solves(g, n)}
<1>1. \A s \in SUBSET S : Cardinality(s) \in Nat /\ (Cardinality(s) = 0 <=> s = {})
  BY FS_Subset, FS_CardinalityType, FS_EmptySet
<1>2. \A s \in SUBSET S : s # {} =>
        s \ {Picked(s)} \in SUBSET S /\ Cardinality(s \ {Picked(s)}) = Cardinality(s) - 1
  BY PickedIn, FS_Subset, FS_RemoveElement
<1>3. 0 \in Good
  <2> DEFINE g == [s \in SUBSET S |-> 0]
  <2>1. Solves(g, 0)
    BY <1>1
  <2> HIDE DEF g, Solves
  <2>2. QED
    BY <2>1
<1>4. ASSUME NEW n \in Nat, n \in Good PROVE n + 1 \in Good
  <2>1. PICK g : Solves(g, n)
    BY <1>4
  <2> DEFINE h == [s \in SUBSET S |-> Following(g, s)]
  <2>2. ASSUME NEW s \in SUBSET S, Cardinality(s) <= n + 1
        PROVE  h[s] = Following(h, s)
    <3>1. CASE s = {}
      BY <3>1
    <3>2. CASE s # {}
      <4> DEFINE r == s \ {Picked(s)}
      <4>1. r \in SUBSET S /\ Cardinality(r) <= n
        BY <1>1, <1>2, <2>2, <3>2
      <4>2. g[r] = h[r]
        BY <2>1, <4>1
      <4>3. QED
        BY <3>2, <4>2
    <3>3. QED
      BY <3>1, <3>2
  <2>3. Solves(h, n + 1)
    BY <2>2
  <2> HIDE DEF h, Solves
  <2>4. QED
    BY <2>3
<1>5. Cardinality(S) \in Good
  <2> HIDE DEF Good
  <2>1. Nat \subseteq Good
    BY <1>3, <1>4, Induction
  <2>2. QED
    BY <1>1, <2>1
<1>6. PICK g : Solves(g, Cardinality(S))
  BY <1>5
<1> DEFINE h == [s \in SUBSET S |-> Following(g, s)]
<1>7. \A s \in SUBSET S : Cardinality(s) <= Cardinality(S)
  BY FS_Subset
<1>8. \A s \in SUBSET S : g[s] = h[s]
  BY <1>6, <1>7
<1>9. Sums(h, f, S)
  <2>1. \A s \in SUBSET S : h[s] = Following(h, s)
    BY <1>2, <1>8
  <2>2. QED
    BY <2>1 DEF Sums
<1>10. QED
  BY <1>9

LEMMA SumsAgree ==
    ASSUME NEW S, NEW R, IsFiniteSet(S), NEW f, NEW g, Sums(g, f, S),
           NEW h, Sums(h, f, R)
    PROVE  \A s \in SUBSET (S \cap R) : g[s] = h[s]
<1> DEFINE Good == {n \in Nat : \A s \in SUBSET (S \cap R) : Cardinality(s) = n => g[s] = h[s]}
<1>1. \A s \in SUBSET S : IsFiniteSet(s) /\ Cardinality(s) \in Nat /\ (Cardinality(s) = 0 <=> s = {})
  BY FS_Subset, FS_CardinalityType, FS_EmptySet
<1>2. 0 \in Good
  BY <1>1 DEF Sums
<1>3. ASSUME NEW n \in Nat, n \in Good PROVE n + 1 \in Good
  <2>1. ASSUME NEW s \in SUBSET (S \cap R), Cardinality(s) = n + 1
        PROVE  g[s] = h[s]
    <3> DEFINE r == s \ {Picked(s)}
    <3>1. s # {}
      BY <1>1, <2>1
    <3>2. r \in SUBSET (S \cap R) /\ Cardinality(r) = n
      BY <1>1, <2>1, <3>1, PickedIn, FS_RemoveElement
    <3>3. g[r] = h[r]
      BY <1>3, <3>2
    <3>4. g[s] = f[Picked(s)] + g[r] /\ h[s] = f[Picked(s)] + h[r]
      BY <3>1 DEF Sums
    <3>5. QED
      BY <3>3, <3>4
  <2>2. QED
    BY <2>1
<1>4. Nat \subseteq Good
  <2> HIDE DEF Good
  <2>1. QED
    BY <1>2, <1>3, Induction
<1>5. QED
  BY <1>1, <1>4

\* What SumFunctionOnSet computes: the element it takes first, and the rest.
LEMMA SumUnfolds ==
    ASSUME NEW S, IsFiniteSet(S), NEW f
    PROVE  SumFunctionOnSet(f, S) =
             IF S = {} THEN 0
             ELSE f[Picked(S)] + SumFunctionOnSet(f, S \ {Picked(S)})
<1> DEFINE R == S \ {Picked(S)}
           g == CHOOSE u : Sums(u, f, S)
           h == CHOOSE u : Sums(u, f, R)
<1>1. IsFiniteSet(R)
  BY FS_Subset
<1>2. Sums(g, f, S) /\ Sums(h, f, R)
  BY <1>1, SumsExist
<1>3. SumFunctionOnSet(f, S) = g[S] /\ SumFunctionOnSet(f, R) = h[R]
  BY SumIsChosen
<1>4. g[R] = h[R]
  <2>1. R \in SUBSET (S \cap R)
    OBVIOUS
  <2> HIDE DEF g, h, R
  <2>2. QED
    BY <1>2, <2>1, SumsAgree
<1>5. g[S] = IF S = {} THEN 0 ELSE f[Picked(S)] + g[R]
  <2> HIDE DEF g
  <2>1. QED
    BY <1>2 DEF Sums
<1>6. QED
  BY <1>3, <1>4, <1>5

LEMMA SumEmpty == \A f : SumFunctionOnSet(f, {}) = 0
BY SumUnfolds, FS_EmptySet

\* Sums do not depend on the order in which the elements are taken.
LEMMA SumAdds ==
    ASSUME NEW S, IsFiniteSet(S), NEW f, \A x \in S : f[x] \in Int
    PROVE  /\ SumFunctionOnSet(f, S) \in Int
           /\ \A x \in S : SumFunctionOnSet(f, S) = f[x] + SumFunctionOnSet(f, S \ {x})
<1> DEFINE P(s) == /\ SumFunctionOnSet(f, s) \in Int
                   /\ \A x \in s : SumFunctionOnSet(f, s) = f[x] + SumFunctionOnSet(f, s \ {x})
           Good == {n \in Nat : \A s \in SUBSET S : Cardinality(s) <= n => P(s)}
<1>1. \A s \in SUBSET S : /\ IsFiniteSet(s) /\ Cardinality(s) \in Nat
                          /\ Cardinality(s) = 0 <=> s = {}
                          /\ \A x \in s : Cardinality(s \ {x}) = Cardinality(s) - 1
  BY FS_Subset, FS_CardinalityType, FS_EmptySet, FS_RemoveElement
<1>2. 0 \in Good
  BY <1>1, SumEmpty
<1>3. ASSUME NEW n \in Nat, n \in Good PROVE n + 1 \in Good
  <2>1. ASSUME NEW s \in SUBSET S, Cardinality(s) <= n + 1
        PROVE  P(s)
    <3> DEFINE p == Picked(s)
               r == s \ {p}
    <3>1. CASE s = {}
      BY <3>1, SumEmpty
    <3>2. CASE s # {}
      <4>1. p \in s
        BY <3>2, PickedIn
      <4>2. SumFunctionOnSet(f, s) = f[p] + SumFunctionOnSet(f, r)
        BY <1>1, <3>2, SumUnfolds
      <4>3. \A t \in SUBSET s : t # s => P(t)
        <5>1. ASSUME NEW t \in SUBSET s, t # s PROVE Cardinality(t) <= n
          <6>1. PICK x \in s : x \notin t
            BY <5>1
          <6>2. t \in SUBSET (s \ {x}) /\ IsFiniteSet(s \ {x})
            BY <1>1, <6>1
          <6>3. Cardinality(t) <= Cardinality(s \ {x})
            BY <6>2, FS_Subset
          <6>4. Cardinality(s \ {x}) = Cardinality(s) - 1 /\ Cardinality(s) \in Nat
                /\ Cardinality(t) \in Nat
            BY <1>1, <6>1
          <6>5. QED
            BY <2>1, <6>3, <6>4
        <5>2. QED
          BY <1>3, <5>1
      <4> HIDE DEF p
      <4>4. P(r)
        BY <4>1, <4>3
      <4>5. ASSUME NEW x \in s, x # p
            PROVE  SumFunctionOnSet(f, s) = f[x] + SumFunctionOnSet(f, s \ {x})
        <5> DEFINE q == s \ {x}
                   rest == r \ {x}
        <5>1. rest = q \ {p} /\ x \in r /\ p \in q
          BY <4>1, <4>5
        <5>2. P(q) /\ P(rest)
          <6>1. q # s /\ rest # s
            BY <4>5
          <6>2. QED
            BY <4>3, <6>1
        <5>3. SumFunctionOnSet(f, r) = f[x] + SumFunctionOnSet(f, rest)
          BY <4>4, <5>1
        <5>4. SumFunctionOnSet(f, q) = f[p] + SumFunctionOnSet(f, rest)
          BY <5>1, <5>2
        <5>5. SumFunctionOnSet(f, rest) \in Int /\ f[x] \in Int /\ f[p] \in Int
          BY <4>1, <5>2
        <5>6. QED
          BY <4>2, <5>3, <5>4, <5>5
      <4>6. SumFunctionOnSet(f, s) \in Int /\ f[p] \in Int
        BY <4>1, <4>2, <4>4
      <4>7. QED
        BY <4>2, <4>5, <4>6
    <3>3. QED
      BY <3>1, <3>2
  <2> HIDE DEF P
  <2>2. QED
    BY <2>1
<1>4. Nat \subseteq Good
  <2> HIDE DEF Good
  <2>1. QED
    BY <1>2, <1>3, Induction
<1>5. P(S)
  <2> HIDE DEF P
  <2>1. QED
    BY <1>1, <1>4
<1>6. QED
  BY <1>5

LEMMA SumInsert ==
    ASSUME NEW S, IsFiniteSet(S), NEW f, NEW x, x \notin S, \A y \in S \cup {x} : f[y] \in Int
    PROVE  /\ SumFunctionOnSet(f, S) \in Int
           /\ SumFunctionOnSet(f, S \cup {x}) = f[x] + SumFunctionOnSet(f, S)
<1>1. IsFiniteSet(S \cup {x}) /\ (S \cup {x}) \ {x} = S /\ x \in S \cup {x}
  BY FS_AddElement
<1>2. QED
  BY <1>1, SumAdds

LEMMA SumOne ==
    ASSUME NEW f, NEW x, f[x] \in Int
    PROVE  SumFunctionOnSet(f, {x}) = f[x]
<1>1. IsFiniteSet({x}) /\ {x} \ {x} = {}
  BY FS_Singleton
<1>2. SumFunctionOnSet(f, {x}) = f[x] + SumFunctionOnSet(f, {x} \ {x})
  BY <1>1, SumAdds
<1>3. QED
  BY <1>1, <1>2, SumEmpty

LEMMA SumZeros ==
    ASSUME NEW S, IsFiniteSet(S), NEW f, \A x \in S : f[x] = 0
    PROVE  SumFunctionOnSet(f, S) = 0
<1> DEFINE Good == {s \in SUBSET S : SumFunctionOnSet(f, s) = 0}
<1>1. {} \in Good
  BY SumEmpty
<1>2. ASSUME NEW s \in Good, NEW x \in S \ s, s \subseteq S PROVE s \cup {x} \in Good
  <2>1. IsFiniteSet(s) /\ f[x] = 0 /\ \A y \in s \cup {x} : f[y] \in Int
    BY <1>2, FS_Subset
  <2>2. SumFunctionOnSet(f, s \cup {x}) = f[x] + SumFunctionOnSet(f, s)
    BY <1>2, <2>1, SumInsert
  <2>3. QED
    BY <2>1, <2>2
<1>3. S \in Good
  <2> HIDE DEF Good
  <2>1. QED
    BY <1>1, <1>2, SetInduction
<1>4. QED
  BY <1>3

LEMMA SumEqual ==
    ASSUME NEW S, IsFiniteSet(S), NEW f, NEW g, \A x \in S : f[x] \in Int /\ f[x] = g[x]
    PROVE  SumFunctionOnSet(f, S) = SumFunctionOnSet(g, S)
<1> DEFINE Good == {s \in SUBSET S : SumFunctionOnSet(f, s) = SumFunctionOnSet(g, s)}
<1>1. {} \in Good
  BY SumEmpty
<1>2. ASSUME NEW s \in Good, NEW x \in S \ s, s \subseteq S PROVE s \cup {x} \in Good
  <2>1. IsFiniteSet(s) /\ \A y \in s \cup {x} : f[y] \in Int /\ f[y] = g[y]
    BY <1>2, FS_Subset
  <2>2. SumFunctionOnSet(f, s \cup {x}) = f[x] + SumFunctionOnSet(f, s)
    BY <1>2, <2>1, SumInsert
  <2>3. SumFunctionOnSet(g, s \cup {x}) = g[x] + SumFunctionOnSet(g, s)
    BY <1>2, <2>1, SumInsert
  <2>4. QED
    BY <2>1, <2>2, <2>3
<1>3. S \in Good
  <2> HIDE DEF Good
  <2>1. QED
    BY <1>1, <1>2, SetInduction
<1>4. QED
  BY <1>3

\* A part and the rest.
LEMMA SumSplit ==
    ASSUME NEW S, IsFiniteSet(S), NEW f, \A x \in S : f[x] \in Int, NEW T \in SUBSET S
    PROVE  SumFunctionOnSet(f, S) = SumFunctionOnSet(f, T) + SumFunctionOnSet(f, S \ T)
<1> DEFINE Splits(t) == SumFunctionOnSet(f, S) = SumFunctionOnSet(f, t) + SumFunctionOnSet(f, S \ t)
           Good == {t \in SUBSET T : Splits(t)}
<1>1. \A t \in SUBSET S : IsFiniteSet(t) /\ SumFunctionOnSet(f, t) \in Int
  <2>1. ASSUME NEW t \in SUBSET S PROVE IsFiniteSet(t)
    BY FS_Subset
  <2>2. QED
    BY <2>1, SumAdds
<1>2. {} \in Good
  <2>1. S \ {} = S
    OBVIOUS
  <2>2. QED
    BY <1>1, <2>1, SumEmpty
<1>3. ASSUME NEW t \in Good, NEW x \in T \ t, t \subseteq T PROVE t \cup {x} \in Good
  <2> DEFINE r == S \ t
  <2>1. SumFunctionOnSet(f, t \cup {x}) = f[x] + SumFunctionOnSet(f, t)
    BY <1>1, <1>3, SumInsert
  <2>2. SumFunctionOnSet(f, r) = f[x] + SumFunctionOnSet(f, r \ {x})
    <3>1. IsFiniteSet(r) /\ x \in r /\ \A y \in r : f[y] \in Int
      BY <1>1, <1>3
    <3> HIDE DEF r
    <3>2. QED
      BY <3>1, SumAdds
  <2>3. r \ {x} = S \ (t \cup {x})
    OBVIOUS
  <2>4. /\ f[x] \in Int /\ SumFunctionOnSet(f, t) \in Int
        /\ SumFunctionOnSet(f, r \ {x}) \in Int
    BY <1>1, <1>3
  <2>5. Splits(t)
    BY <1>3
  <2>6. \A a, b, c \in Int : b + (a + c) = (a + b) + c
    OBVIOUS
  <2>7. Splits(t \cup {x})
    <3>1. SumFunctionOnSet(f, S) = SumFunctionOnSet(f, t) + SumFunctionOnSet(f, r)
      BY <2>5
    <3>2. SumFunctionOnSet(f, S \ (t \cup {x})) = SumFunctionOnSet(f, r \ {x})
      BY <2>3
    <3> HIDE DEF r
    <3>3. SumFunctionOnSet(f, S) =
            SumFunctionOnSet(f, t \cup {x}) + SumFunctionOnSet(f, S \ (t \cup {x}))
      BY <2>1, <2>2, <2>4, <2>6, <3>1, <3>2
    <3>4. QED
      BY <3>3
  <2>8. QED
    BY <1>3, <2>7
<1>4. T \in Good
  <2>1. IsFiniteSet(T)
    BY FS_Subset
  <2> HIDE DEF Good
  <2>2. QED
    BY <1>2, <1>3, <2>1, SetInduction
<1>5. QED
  BY <1>4

\* A sum may be taken group by group.
Grouped(f, key, s, K) == [k \in K |-> SumFunctionOnSet(f, {x \in s : key[x] = k})]

LEMMA SumGrouped ==
    ASSUME NEW S, IsFiniteSet(S), NEW K, IsFiniteSet(K), NEW key, \A x \in S : key[x] \in K,
           NEW f, \A x \in S : f[x] \in Int
    PROVE  SumFunctionOnSet(f, S) = SumFunctionOnSet(Grouped(f, key, S, K), K)
<1> DEFINE Group(s, k) == {x \in s : key[x] = k}
           By(s) == Grouped(f, key, s, K)
           Good == {s \in SUBSET S : SumFunctionOnSet(f, s) = SumFunctionOnSet(By(s), K)}
<1>1. \A s \in SUBSET S : /\ IsFiniteSet(s) /\ SumFunctionOnSet(f, s) \in Int
                          /\ \A k \in K : By(s)[k] = SumFunctionOnSet(f, Group(s, k))
                                          /\ By(s)[k] \in Int
  <2>1. ASSUME NEW s \in SUBSET S PROVE IsFiniteSet(s) /\ SumFunctionOnSet(f, s) \in Int
    <3>1. IsFiniteSet(s)
      BY FS_Subset
    <3>2. QED
      BY <3>1, SumAdds
  <2>2. QED
    BY <2>1 DEF Grouped
<1>2. {} \in Good
  <2>1. \A k \in K : By({})[k] = 0
    BY SumEmpty DEF Grouped
  <2>2. SumFunctionOnSet(By({}), K) = 0
    BY <2>1, SumZeros
  <2>3. QED
    BY <2>2, SumEmpty
<1>3. ASSUME NEW s \in Good, NEW x \in S \ s, s \subseteq S PROVE s \cup {x} \in Good
  <2> DEFINE t == s \cup {x}
             p == key[x]
             rest == K \ {p}
  <2>1. SumFunctionOnSet(f, t) = f[x] + SumFunctionOnSet(f, s)
    BY <1>1, <1>3, SumInsert
  <2>2. p \in K /\ IsFiniteSet(rest)
    BY FS_Subset
  <2>3. By(t)[p] = f[x] + By(s)[p]
    <3>1. Group(t, p) = Group(s, p) \cup {x} /\ x \notin Group(s, p)
      BY <1>3
    <3>2. IsFiniteSet(Group(s, p)) /\ \A y \in Group(s, p) \cup {x} : f[y] \in Int
      <4>1. Group(s, p) \in SUBSET S
        BY <1>3
      <4>2. QED
        BY <1>1, <4>1
    <3> HIDE DEF Group
    <3>3. SumFunctionOnSet(f, Group(t, p)) = f[x] + SumFunctionOnSet(f, Group(s, p))
      BY <3>1, <3>2, SumInsert
    <3>4. QED
      BY <1>1, <1>3, <2>2, <3>3
  <2>4. \A k \in rest : By(t)[k] \in Int /\ By(t)[k] = By(s)[k]
    <3>1. ASSUME NEW k \in rest PROVE Group(t, k) = Group(s, k)
      BY <3>1
    <3> HIDE DEF Group
    <3>2. QED
      BY <1>1, <1>3, <3>1
  <2> HIDE DEF By
  <2>5. SumFunctionOnSet(By(t), rest) = SumFunctionOnSet(By(s), rest)
    BY <2>2, <2>4, SumEqual
  <2>6. t \in SUBSET S
    BY <1>3
  <2>7. /\ SumFunctionOnSet(By(t), K) = By(t)[p] + SumFunctionOnSet(By(t), rest)
        /\ SumFunctionOnSet(By(s), K) = By(s)[p] + SumFunctionOnSet(By(s), rest)
    <3>1. /\ \A k \in K : By(t)[k] \in Int
          /\ \A k \in K : By(s)[k] \in Int
      BY <1>1, <1>3, <2>6
    <3>2. QED
      BY <2>2, <3>1, SumAdds
  <2>8. /\ f[x] \in Int /\ By(s)[p] \in Int /\ SumFunctionOnSet(By(s), rest) \in Int
    <3>1. \A k \in rest : By(s)[k] \in Int
      BY <1>1, <1>3
    <3>2. QED
      BY <1>1, <1>3, <2>2, <3>1, SumAdds
  <2>9. SumFunctionOnSet(f, t) = SumFunctionOnSet(By(t), K)
    BY <1>3, <2>1, <2>3, <2>5, <2>7, <2>8
  <2>10. QED
    BY <2>6, <2>9
<1>4. S \in Good
  <2> HIDE DEF Good
  <2>1. QED
    BY <1>2, <1>3, SetInduction
<1>5. QED
  BY <1>4

\* A sum over other names of its terms.
LEMMA SumRenamed ==
    ASSUME NEW S, IsFiniteSet(S), NEW T, IsFiniteSet(T), NEW f, NEW g, NEW h,
           \A x \in S : f[x] \in Int /\ h[x] \in T /\ g[h[x]] = f[x],
           \A x, y \in S : h[x] = h[y] => x = y, \A t \in T : \E x \in S : h[x] = t
    PROVE  SumFunctionOnSet(f, S) = SumFunctionOnSet(g, T)
<1>1. ASSUME NEW t \in T
      PROVE  Grouped(f, h, S, T)[t] \in Int /\ Grouped(f, h, S, T)[t] = g[t]
  <2>1. PICK x \in S : h[x] = t
    OBVIOUS
  <2>2. {y \in S : h[y] = t} = {x}
    BY <2>1
  <2>3. SumFunctionOnSet(f, {x}) = f[x]
    BY SumOne
  <2>4. QED
    BY <2>1, <2>2, <2>3 DEF Grouped
<1>2. SumFunctionOnSet(f, S) = SumFunctionOnSet(Grouped(f, h, S, T), T)
  BY SumGrouped
<1>3. QED
  BY <1>1, <1>2, SumEqual

-----------------------------------------------------------------------------
(***************************************************************************)
(* The day counters of the bar charts.  The key                            *)
(* (tm_year << 8) | tm_yday does not tell two days apart that are 256 days *)
(* apart in an odd tm_year, or 109, 110, a year or a leap year across the  *)
(* end of an even one.  None of these is a multiple of 7: no two days of a *)
(* weekday share a key, and the chart by weekday counts its days exactly;  *)
(* the chart by hour need not.                                             *)
(***************************************************************************)

\* get_count_key of day d of year y.
Key(y, d) == (256 * y) + (d % 256) + (IF d >= 256 /\ y % 2 = 0 THEN 256 ELSE 0)

LEMMA SameRemainder ==
    ASSUME NEW m \in Int, NEW n \in Int, m % 7 = n % 7
    PROVE  \E k \in Int : m = n + 7 * k
BY SMT

\* Leap days, as DayNumber counts them.
LEMMA LeapDay ==
    ASSUME NEW y \in Nat
    PROVE  \E l \in {0, 1} : y \div 4 = (y - 1) \div 4 + l
BY SMT

\* The year and the day of the year overlap in one bit of the key.
Parts(y, d, c, r) ==
    /\ c \in {0, 1} /\ r \in 0..255
    /\ Key(y, d) = 256 * (y + c) + r
    /\ \/ d = r /\ c = 0
       \/ d = r + 256 /\ c = 1 - (y % 2)

LEMMA KeyParts ==
    ASSUME NEW y \in Nat, NEW d \in 0..365
    PROVE  \E c, r : Parts(y, d, c, r)
<1>1. CASE d < 256
  <2>1. d % 256 = d
    BY <1>1
  <2>2. Parts(y, d, 0, d)
    BY <1>1, <2>1 DEF Parts, Key
  <2>3. QED
    BY <2>2
<1>2. CASE d >= 256
  <2>1. d % 256 = d - 256 /\ y % 2 \in {0, 1}
    BY <1>2
  <2>2. CASE y % 2 = 0
    <3>1. Parts(y, d, 1, d - 256)
      BY <1>2, <2>1, <2>2 DEF Parts, Key
    <3>2. QED
      BY <3>1
  <2>3. CASE y % 2 = 1
    <3>1. Parts(y, d, 0, d - 256)
      BY <1>2, <2>1, <2>3 DEF Parts, Key
    <3>2. QED
      BY <3>1
  <2>4. QED
    BY <2>1, <2>2, <2>3
<1>3. QED
  BY <1>1, <1>2

\* The later of two days with one key and one weekday is the earlier one.
LEMMA Apart ==
    ASSUME NEW y \in Nat, NEW z \in Nat, NEW d \in 0..365, NEW e \in 0..365, y <= z,
           Key(y, d)
             = Key(z, e),
           (1 + (365 * y + (y - 1) \div 4 + d)) % 7
             = (1 + (365 * z + (z - 1) \div 4 + e)) % 7
    PROVE  y = z /\ d = e
<1> DEFINE A == (y - 1) \div 4
           B == (z - 1) \div 4
<1>1. PICK b, r : Parts(y, d, b, r)
  BY KeyParts
<1>2. PICK c, s : Parts(z, e, c, s)
  BY KeyParts
<1>3. 256 * (y + b) + r = 256 * (z + c) + s
  BY <1>1, <1>2 DEF Parts
<1> b \in {0, 1} /\ r \in 0..255 /\ c \in {0, 1} /\ s \in 0..255
  BY <1>1, <1>2 DEF Parts
<1>4. r = s /\ y + b = z + c
  <2>1. \A m, n \in Int : 256 * m + r = 256 * n + s => r = s /\ m = n
    OBVIOUS
  <2>2. y + b \in Int /\ z + c \in Int
    OBVIOUS
  <2>3. QED
    BY <1>3, <2>1, <2>2
<1>5. A \in Int /\ B \in Int
  OBVIOUS
<1>6. PICK k \in Int : 1 + (365 * y + A + d) = (1 + (365 * z + B + e)) + 7 * k
  <2> HIDE DEF A, B
  <2>1. 1 + (365 * y + A + d) \in Int /\ 1 + (365 * z + B + e) \in Int
    BY <1>5
  <2>2. QED
    BY <2>1, SameRemainder DEF A, B
<1>7. CASE y = z
  <2>1. d - e \in {0, 256, -256} /\ A = B
    BY <1>1, <1>2, <1>4, <1>7 DEF Parts
  <2>2. d - e = 7 * k
    BY <1>5, <1>6, <1>7, <2>1
  <2>3. d = e
    BY <2>1, <2>2
  <2>4. QED
    BY <1>7, <2>3
<1>8. CASE z = y + 1
  <2>1. PICK l \in {0, 1} : B = A + l
    BY <1>8, LeapDay
  <2>2. b = 1 /\ c = 0 /\ d = r + 256 /\ y % 2 = 0
    BY <1>1, <1>2, <1>4, <1>8 DEF Parts
  <2>3. z % 2 = 1
    BY <1>8, <2>2
  <2>4. e - d \in {0, -256}
    BY <1>2, <1>4, <2>2 DEF Parts
  <2>5. 365 + l + (e - d) = 7 * (-k)
    BY <1>5, <1>6, <1>8, <2>1
  <2>6. QED
    BY <2>4, <2>5
<1>9. QED
  BY <1>4, <1>7, <1>8

\* Two days of one weekday have different count keys (datacontainer.h:63-66),
\* in the calendar of DayNumber, which is the real one up to 2099.
THEOREM SameKeyOtherWeekday ==
    ASSUME NEW a \in CalendarDays, NEW b \in CalendarDays,
           get_count_key(a) = get_count_key(b), tm_wday(a) = tm_wday(b)
    PROVE  a = b
<1>1. /\ a.tm_year \in Nat /\ a.tm_yday \in 0..365
      /\ b.tm_year \in Nat /\ b.tm_yday \in 0..365
  BY DEF CalendarDays
<1>2. a.tm_year = b.tm_year /\ a.tm_yday = b.tm_yday
  <2> DEFINE y == a.tm_year
             d == a.tm_yday
             z == b.tm_year
             e == b.tm_yday
  <2>1. Key(y, d)
          = Key(z, e)
    BY DEF get_count_key, Key
  <2>2. (1 + (365 * y + (y - 1) \div 4 + d)) % 7
          = (1 + (365 * z + (z - 1) \div 4 + e)) % 7
    BY DEF tm_wday, DayNumber
  <2> HIDE DEF y, d, z, e
  <2>3. y \in Nat /\ d \in 0..365 /\ z \in Nat /\ e \in 0..365
    BY <1>1 DEF y, d, z, e
  <2>4. CASE y <= z
    <3>1. y = z /\ d = e
      BY <2>1, <2>2, <2>3, <2>4, Apart
    <3>2. QED
      BY <3>1 DEF y, d, z, e
  <2>5. CASE z <= y
    <3>1. z = y /\ e = d
      BY <2>1, <2>2, <2>3, <2>5, Apart
    <3>2. QED
      BY <3>1 DEF y, d, z, e
  <2>6. QED
    BY <2>3, <2>4, <2>5
<1>3. QED
  BY <1>2 DEF CalendarDays

\* Two days with one key are counted as one; there is no other error.
LEMMA KeysCount ==
    ASSUME NEW group, IsFiniteSet(group)
    PROVE  LET days == {e.day : e \in group}
               keys == {get_count_key(e.day) : e \in group}
           IN  /\ Cardinality(keys) \in Nat /\ Cardinality(days) \in Nat
               /\ Cardinality(keys) <= Cardinality(days)
               /\ (\A a, b \in days : get_count_key(a) = get_count_key(b) => a = b)
                    => Cardinality(keys) = Cardinality(days)
<1> DEFINE days == {e.day : e \in group}
           keys == {get_count_key(e.day) : e \in group}
           dayOf == [e \in group |-> e.day]
           keyOf == [d \in days |-> get_count_key(d)]
<1>1. IsFiniteSet(days)
  <2>1. dayOf \in Surjection(group, days)
    BY DEF Surjection
  <2>2. QED
    BY <2>1, FS_Surjection
<1>2. keyOf \in Surjection(days, keys)
  BY DEF Surjection
<1>3. /\ IsFiniteSet(keys) /\ Cardinality(keys) <= Cardinality(days)
  <2> HIDE DEF days, keys, keyOf
  <2>1. QED
    BY <1>1, <1>2, FS_Surjection
<1>4. ASSUME \A a, b \in days : get_count_key(a) = get_count_key(b) => a = b
      PROVE  Cardinality(keys) = Cardinality(days)
  <2>1. keyOf \in Bijection(days, keys)
    BY <1>2, <1>4 DEF Bijection, Injection, Surjection, IsInjective
  <2>2. ExistsBijection(days, keys)
    BY <2>1 DEF ExistsBijection
  <2> HIDE DEF days, keys
  <2>3. QED
    BY <1>1, <2>2, FS_Bijection
<1>5. Cardinality(keys) \in Nat /\ Cardinality(days) \in Nat
  BY <1>1, <1>3, FS_CardinalityType
<1>6. QED
  BY <1>3, <1>4, <1>5

\* The bar of a weekday counts every day of its entries once, however many
\* entries there are, and though keys of days of different weekdays meet.
THEOREM WeekdaysCounted ==
    ASSUME NEW entries, IsFiniteSet(entries), \A e \in entries : e.day \in CalendarDays,
           NEW w \in 0..6
    PROVE  WeekdayGroup(entries)[w].second =
             Cardinality({e.day : e \in {e \in entries : tm_wday(e.day) = w}})
<1> DEFINE group == {e \in entries : tm_wday(e.day) = w}
<1>1. WeekdayGroup(entries)[w].second = Cardinality({get_count_key(e.day) : e \in group})
  BY DEF WeekdayGroup, OfGroup, process_entries
<1>2. \A a, b \in {e.day : e \in group} : get_count_key(a) = get_count_key(b) => a = b
  BY SameKeyOtherWeekday
<1>3. IsFiniteSet(group)
  BY FS_Subset
<1> HIDE DEF group
<1>4. QED
  BY <1>1, <1>2, <1>3, KeysCount DEF group

-----------------------------------------------------------------------------
(***************************************************************************)
(* Totals of entries.                                                      *)
(***************************************************************************)

Seconds == [e \in Entries |-> e.duration]

LEMMA EntryType ==
    ASSUME NEW E \in SUBSET Entries
    PROVE  /\ IsFiniteSet(E)
           /\ \A e \in E : /\ e.proc_name \in Texts /\ e.description \in Texts
                           /\ e.day \in CalendarDays /\ e.hour \in 0..23
                           /\ e.duration \in Int /\ Seconds[e] = e.duration
<1>1. IsFiniteSet(E)
  BY EntriesAssumption, FS_Subset DEF EntriesAssumption
<1>2. QED
  BY <1>1, EntriesAssumption DEF EntriesAssumption, Seconds

LEMMA StartIsInt == \A e \in Entries : tm_wday(e.day) \in 0..6 /\ time_start(e) \in Int
<1> SUFFICES ASSUME NEW e \in Entries PROVE tm_wday(e.day) \in 0..6 /\ time_start(e) \in Int
  OBVIOUS
<1>1. e.day.tm_year \in Int /\ e.day.tm_yday \in Int /\ e.hour \in Int
  BY EntryType DEF CalendarDays
<1>2. DayNumber(e.day) \in Int
  BY <1>1 DEF DayNumber
<1>3. tm_wday(e.day) \in 0..6
  BY <1>2 DEF tm_wday
<1>4. time_start(e) \in Int
  BY <1>1, <1>2 DEF time_start
<1>5. QED
  BY <1>3, <1>4

LEMMA FiniteImage ==
    ASSUME NEW S, IsFiniteSet(S), NEW f
    PROVE  IsFiniteSet({f[x] : x \in S})
<1> DEFINE g == [x \in S |-> f[x]]
<1>1. g \in Surjection(S, {f[x] : x \in S})
  BY DEF Surjection
<1>2. QED
  BY <1>1, FS_Surjection

LEMMA TotalIsSum ==
    ASSUME NEW E \in SUBSET Entries
    PROVE  Total(E) = SumFunctionOnSet(Seconds, E) /\ Total(E) \in Int
<1> DEFINE f == [e \in E |-> e.duration]
<1>1. Total(E) = SumFunctionOnSet(f, E)
  BY DEF Total, SumFunction
<1>2. \A e \in E : f[e] \in Int /\ f[e] = Seconds[e]
  BY EntryType
<1>3. IsFiniteSet(E)
  BY EntryType
<1> HIDE DEF f
<1>4. SumFunctionOnSet(f, E) = SumFunctionOnSet(Seconds, E) /\ SumFunctionOnSet(f, E) \in Int
  BY <1>2, <1>3, SumEqual, SumAdds
<1>5. QED
  BY <1>1, <1>4

\* A total is the sum of the totals of the groups.
LEMMA TotalGrouped ==
    ASSUME NEW E \in SUBSET Entries, NEW K, IsFiniteSet(K), NEW key, \A e \in E : key[e] \in K,
           NEW f, \A k \in K : f[k] = Total({e \in E : key[e] = k})
    PROVE  Total(E) = SumFunctionOnSet(f, K)
<1>1. IsFiniteSet(E) /\ \A e \in E : Seconds[e] \in Int
  BY EntryType
<1>2. SumFunctionOnSet(Seconds, E) = SumFunctionOnSet(Grouped(Seconds, key, E, K), K)
  BY <1>1, SumGrouped
<1>3. ASSUME NEW k \in K
      PROVE  Grouped(Seconds, key, E, K)[k] \in Int /\ Grouped(Seconds, key, E, K)[k] = f[k]
  <2>1. {e \in E : key[e] = k} \in SUBSET Entries
    OBVIOUS
  <2>2. QED
    BY <2>1, TotalIsSum DEF Grouped
<1>4. SumFunctionOnSet(Grouped(Seconds, key, E, K), K) = SumFunctionOnSet(f, K)
  BY <1>3, SumEqual
<1>5. QED
  BY <1>2, <1>4, TotalIsSum

Matching(E, filter) == {e \in E : match_filter(e, filter)}
OfProcess(E, p) == {e \in E : e.proc_name = p}
OfBoth(E, p, d) == {e \in E : e.proc_name = p /\ e.description = d}

\* What the source model holds.
LEMMA GroupedByName ==
    ASSUME NEW E \in SUBSET Entries
    PROVE  /\ DOMAIN ProcNameGroup(E) = {e.proc_name : e \in E}
           /\ IsFiniteSet(DOMAIN ProcNameGroup(E))
           /\ \A p \in DOMAIN ProcNameGroup(E) :
                /\ DOMAIN ProcNameGroup(E)[p] = {e.description : e \in OfProcess(E, p)}
                /\ IsFiniteSet(DOMAIN ProcNameGroup(E)[p])
                /\ \A d \in DOMAIN ProcNameGroup(E)[p] :
                     /\ ProcNameGroup(E)[p][d] = Total(OfBoth(E, p, d))
                     /\ ProcNameGroup(E)[p][d] \in Int
<1>1. DOMAIN ProcNameGroup(E) = {e.proc_name : e \in E}
  BY DEF ProcNameGroup
<1>2. IsFiniteSet({e.proc_name : e \in E})
  <2> DEFINE f == [e \in E |-> e.proc_name]
  <2>1. {f[e] : e \in E} = {e.proc_name : e \in E}
    OBVIOUS
  <2> HIDE DEF f
  <2>2. IsFiniteSet(E)
    BY EntryType
  <2>3. IsFiniteSet({f[e] : e \in E})
    BY <2>2, FiniteImage
  <2>4. QED
    BY <2>1, <2>3
<1>3. ASSUME NEW p \in {e.proc_name : e \in E}
      PROVE  /\ DOMAIN ProcNameGroup(E)[p] = {e.description : e \in OfProcess(E, p)}
             /\ IsFiniteSet(DOMAIN ProcNameGroup(E)[p])
             /\ \A d \in DOMAIN ProcNameGroup(E)[p] :
                  /\ ProcNameGroup(E)[p][d] = Total(OfBoth(E, p, d))
                  /\ ProcNameGroup(E)[p][d] \in Int
  <2> DEFINE G == OfProcess(E, p)
  <2>1. ProcNameGroup(E)[p] = [d \in {e.description : e \in G} |->
                                 Total({e \in G : e.description = d})]
    BY DEF ProcNameGroup, OfProcess
  <2>2. IsFiniteSet({e.description : e \in G})
    <3> DEFINE f == [e \in G |-> e.description]
    <3>1. {f[e] : e \in G} = {e.description : e \in G}
      OBVIOUS
    <3>2. G \in SUBSET Entries
      BY DEF OfProcess
    <3> HIDE DEF f, G
    <3>3. IsFiniteSet(G)
      BY <3>2, EntryType
    <3>4. IsFiniteSet({f[e] : e \in G})
      BY <3>3, FiniteImage
    <3>5. QED
      BY <3>1, <3>4
  <2>3. \A d : {e \in G : e.description = d} = OfBoth(E, p, d) /\ OfBoth(E, p, d) \in SUBSET Entries
    BY DEF OfProcess, OfBoth
  <2>4. \A d : Total(OfBoth(E, p, d)) \in Int
    BY <2>3, TotalIsSum
  <2> HIDE DEF G
  <2>5. QED
    BY <2>1, <2>2, <2>3, <2>4 DEF G
<1>4. QED
  BY <1>1, <1>2, <1>3

\* The rows of the tree, filtered one by one, and the entries, filtered before
\* they are grouped, come to the same.
RowOf(m, filter) == [p \in DOMAIN m |-> SumFunctionOnSet(m[p], Visible(m, p, filter))]

LEMMA RowsAddUp ==
    ASSUME NEW E \in SUBSET Entries, NEW filter
    PROVE  LET m == ProcNameGroup(E)
           IN  /\ \A p \in DOMAIN m :
                    RowOf(m, filter)[p] = Total(OfProcess(Matching(E, filter), p))
               /\ SumFunction(RowOf(m, filter)) = Total(Matching(E, filter))
<1> DEFINE m == ProcNameGroup(E)
           M == Matching(E, filter)
           key == [e \in M |-> e.proc_name]
<1>1. M \in SUBSET Entries /\ M \subseteq E
  BY DEF Matching
<1>2. ASSUME NEW p \in DOMAIN m
      PROVE  RowOf(m, filter)[p] = Total(OfProcess(M, p))
  <2> DEFINE V == Visible(m, p, filter)
             P == OfProcess(M, p)
             text == [e \in P |-> e.description]
  <2>1. V \subseteq DOMAIN m[p] /\ IsFiniteSet(V)
    <3>1. V \subseteq DOMAIN m[p]
      BY DEF Visible
    <3>2. QED
      BY <3>1, GroupedByName, FS_Subset
  <2>2. P \in SUBSET Entries
    BY <1>1 DEF OfProcess
  <2>3. \A e \in P : text[e] \in V
    <3>1. ASSUME NEW e \in P PROVE e.description \in V
      <4>1. e \in OfProcess(E, p) /\ (p \in filter \/ e.description \in filter)
        BY <3>1 DEF OfProcess, Matching, match_filter
      <4>2. e.description \in DOMAIN m[p]
        <5>1. DOMAIN m[p] = {o.description : o \in OfProcess(E, p)}
          BY GroupedByName
        <5>2. QED
          BY <4>1, <5>1
      <4>3. QED
        BY <4>1, <4>2 DEF Visible
    <3>2. QED
      BY <3>1
  <2>4. ASSUME NEW d \in V
        PROVE  m[p][d] = Total({e \in P : text[e] = d})
    <3>1. d \in DOMAIN m[p] /\ (d \in filter \/ p \in filter)
      BY DEF Visible
    <3>2. OfBoth(E, p, d) = {e \in P : text[e] = d}
      BY <3>1 DEF OfBoth, OfProcess, Matching, match_filter
    <3>3. QED
      BY <3>1, <3>2, GroupedByName
  <2> HIDE DEF V, P, text, m
  <2>5. Total(P) = SumFunctionOnSet(m[p], V)
    BY <2>1, <2>2, <2>3, <2>4, TotalGrouped
  <2>6. QED
    BY <2>5 DEF RowOf, V, P
<1>3. SumFunction(RowOf(m, filter)) = Total(M)
  <2>1. SumFunction(RowOf(m, filter)) = SumFunctionOnSet(RowOf(m, filter), DOMAIN m)
    BY DEF SumFunction, RowOf
  <2>2. IsFiniteSet(DOMAIN m) /\ \A e \in M : key[e] \in DOMAIN m
    BY <1>1, GroupedByName
  <2>3. \A p \in DOMAIN m : RowOf(m, filter)[p] = Total({e \in M : key[e] = p})
    <3>1. \A p : OfProcess(M, p) = {e \in M : key[e] = p}
      BY DEF OfProcess
    <3>2. QED
      BY <1>2, <3>1
  <2> HIDE DEF m, M, key
  <2>4. QED
    BY <1>1, <2>1, <2>2, <2>3, TotalGrouped
<1>4. QED
  BY <1>2, <1>3

-----------------------------------------------------------------------------
(***************************************************************************)
(* The slices of the pie chart.                                            *)
(***************************************************************************)

\* A container is what ProcNameGroup makes of some entries.
Container(c) == \E E \in SUBSET Entries : c = ProcNameGroup(E)

\* Slices with numbers to add.
Valued(slices) == IsFiniteSet(slices) /\ \A s \in slices : s.value \in Int

Values(slices) == [s \in slices |-> s.value]

LEMMA SumIsSum ==
    ASSUME NEW slices, Valued(slices), NEW part \in SUBSET slices
    PROVE  /\ Valued(part)
           /\ Sum(part) = SumFunctionOnSet(Values(slices), part)
           /\ Sum(part) \in Int
<1>1. IsFiniteSet(part)
  BY FS_Subset DEF Valued
<1>2. Sum(part) = SumFunctionOnSet(Values(part), part)
  BY DEF Sum, SumFunction, Values
<1>3. \A s \in part : Values(part)[s] \in Int /\ Values(part)[s] = Values(slices)[s]
  BY DEF Values, Valued
<1>4. SumFunctionOnSet(Values(part), part) = SumFunctionOnSet(Values(slices), part)
  BY <1>1, <1>3, SumEqual
<1>5. SumFunctionOnSet(Values(part), part) \in Int
  BY <1>1, <1>3, SumAdds
<1>6. QED
  BY <1>1, <1>2, <1>4, <1>5 DEF Valued

\* The details of a process add up to the slice of the process.
LEMMA SlicesOf ==
    ASSUME NEW c, Container(c)
    PROVE  /\ IsFiniteSet(DOMAIN c)
           /\ \A p \in DOMAIN c : Valued(Details(c, p))
           /\ Valued(Everything(c)) /\ Valued(Processes(c))
<1>1. PICK E \in SUBSET Entries : c = ProcNameGroup(E)
  BY DEF Container
<1>2. IsFiniteSet(DOMAIN c)
  BY <1>1, GroupedByName
<1>3. ASSUME NEW p \in DOMAIN c PROVE Valued(Details(c, p))
  <2> DEFINE f == [d \in DOMAIN c[p] |-> Slice(<<p, d>>, c[p][d], FALSE)]
  <2>1. IsFiniteSet(DOMAIN c[p]) /\ \A d \in DOMAIN c[p] : c[p][d] \in Int
    BY <1>1, GroupedByName
  <2>2. Details(c, p) = {f[d] : d \in DOMAIN c[p]}
    BY DEF Details
  <2>3. \A d \in DOMAIN c[p] : f[d].value \in Int
    BY <2>1 DEF Slice
  <2> HIDE DEF f
  <2>4. IsFiniteSet({f[d] : d \in DOMAIN c[p]})
    BY <2>1, FiniteImage
  <2>5. QED
    BY <2>2, <2>3, <2>4 DEF Valued
<1>4. Valued(Everything(c))
  <2> DEFINE f == [e \in E |-> Slice(<<e.proc_name, e.description>>,
                                     c[e.proc_name][e.description], FALSE)]
  <2>1. ASSUME NEW s \in Everything(c)
        PROVE  s.value \in Int /\ \E e \in E : s = f[e]
    <3>1. PICK p \in DOMAIN c : s \in Details(c, p)
      BY DEF Everything
    <3>2. PICK d \in DOMAIN c[p] : s = Slice(<<p, d>>, c[p][d], FALSE)
      BY <3>1 DEF Details
    <3>3. DOMAIN c[p] = {e.description : e \in OfProcess(E, p)}
      BY <1>1, GroupedByName
    <3>4. PICK e \in OfProcess(E, p) : d = e.description
      BY <3>3
    <3>5. e \in E /\ e.proc_name = p
      BY DEF OfProcess
    <3>6. s = f[e]
      BY <3>2, <3>4, <3>5
    <3>7. s.value \in Int
      BY <1>3, <3>1 DEF Valued
    <3> HIDE DEF f
    <3>8. QED
      BY <3>5, <3>6, <3>7
  <2> HIDE DEF f
  <2>2. IsFiniteSet(E)
    BY EntryType
  <2>3. IsFiniteSet({f[e] : e \in E})
    BY <2>2, FiniteImage
  <2>4. Everything(c) \subseteq {f[e] : e \in E}
    BY <2>1
  <2>5. IsFiniteSet(Everything(c))
    BY <2>3, <2>4, FS_Subset
  <2>6. QED
    BY <2>1, <2>5 DEF Valued
<1>5. Valued(Processes(c))
  <2> DEFINE f == [p \in DOMAIN c |-> Slice(<<p>>, Sum(Details(c, p)), TRUE)]
  <2>1. Processes(c) = {f[p] : p \in DOMAIN c}
    BY DEF Processes
  <2>2. \A p \in DOMAIN c : f[p].value \in Int
    BY <1>3, SumIsSum DEF Slice
  <2> HIDE DEF f
  <2>3. IsFiniteSet({f[p] : p \in DOMAIN c})
    BY <1>2, FiniteImage
  <2>4. QED
    BY <2>1, <2>2, <2>3 DEF Valued
<1>6. QED
  BY <1>2, <1>3, <1>4, <1>5

\* The two overviews have the same sum.
LEMMA OverviewsAgree ==
    ASSUME NEW c, Container(c)
    PROVE  Sum(Processes(c)) = Sum(Everything(c))
<1> DEFINE A == Everything(c)
           key == [s \in A |-> s.of[1]]
           K == DOMAIN c
           part == Grouped(Values(A), key, A, K)
           slice == [p \in K |-> Slice(<<p>>, Sum(Details(c, p)), TRUE)]
<1>1. \A p \in K : Details(c, p) \subseteq A /\ \A s \in Details(c, p) : s.of[1] = p
  BY DEF Everything, Details, Slice
<1>2. \A s \in A : key[s] \in K
  BY <1>1 DEF Everything
<1>3. \A p \in K : {s \in A : key[s] = p} = Details(c, p)
  <2>1. ASSUME NEW p \in K, NEW s \in A, key[s] = p PROVE s \in Details(c, p)
    <3>1. PICK q \in K : s \in Details(c, q)
      BY DEF Everything
    <3>2. q = p
      BY <1>1, <2>1, <3>1
    <3>3. QED
      BY <3>1, <3>2
  <2>2. QED
    BY <1>1, <2>1
<1>4. ASSUME NEW p \in K PROVE part[p] = Sum(Details(c, p)) /\ part[p] \in Int
  <2>1. Details(c, p) \in SUBSET A /\ Valued(A)
    BY <1>1, SlicesOf
  <2>2. part[p] = SumFunctionOnSet(Values(A), Details(c, p))
    BY <1>3 DEF Grouped
  <2>3. QED
    BY <2>1, <2>2, SumIsSum
<1>5. Sum(A) = SumFunctionOnSet(part, K)
  <2>1. IsFiniteSet(A) /\ IsFiniteSet(K) /\ \A s \in A : Values(A)[s] \in Int
    BY SlicesOf DEF Valued, Values
  <2>2. Sum(A) = SumFunctionOnSet(Values(A), A)
    BY DEF Sum, SumFunction, Values
  <2> HIDE DEF A, K, key
  <2>3. QED
    BY <1>2, <2>1, <2>2, SumGrouped
<1>6. SumFunctionOnSet(part, K) = Sum(Processes(c))
  <2> DEFINE B == Processes(c)
  <2>1. Sum(B) = SumFunctionOnSet(Values(B), B)
    BY DEF Sum, SumFunction, Values
  <2>2. IsFiniteSet(K) /\ IsFiniteSet(B)
    BY SlicesOf DEF Valued
  <2>3. \A p \in K : part[p] \in Int /\ slice[p] \in B /\ Values(B)[slice[p]] = part[p]
    <3>1. \A p \in K : slice[p] \in B /\ slice[p].value = Sum(Details(c, p))
      BY DEF Processes, Slice
    <3> HIDE DEF slice, part, K, B
    <3>2. QED
      BY <1>4, <3>1 DEF Values
  <2>4. \A p, q \in K : slice[p] = slice[q] => p = q
    <3>1. \A p \in K : slice[p].of[1] = p
      BY DEF Slice
    <3> HIDE DEF slice
    <3>2. QED
      BY <3>1
  <2>5. \A s \in B : \E p \in K : slice[p] = s
    BY DEF Processes
  <2> HIDE DEF K, B, part, slice
  <2>6. SumFunctionOnSet(part, K) = SumFunctionOnSet(Values(B), B)
    BY <2>2, <2>3, <2>4, <2>5, SumRenamed
  <2>7. QED
    BY <2>1, <2>6 DEF B
<1>7. QED
  BY <1>5, <1>6

\* Every entry is in one slice.
LEMMA EverythingIsTotal ==
    ASSUME NEW E \in SUBSET Entries
    PROVE  Sum(Everything(ProcNameGroup(E))) = Total(E)
<1> DEFINE c == ProcNameGroup(E)
           A == Everything(c)
           key == [e \in E |-> Slice(<<e.proc_name, e.description>>,
                                     c[e.proc_name][e.description], FALSE)]
<1>1. Container(c)
  BY DEF Container
<1>2. IsFiniteSet(A)
  BY <1>1, SlicesOf DEF Valued
<1>3. ASSUME NEW e \in E PROVE key[e] \in A
  <2>1. e.proc_name \in DOMAIN c /\ e \in OfProcess(E, e.proc_name)
    BY GroupedByName DEF OfProcess
  <2>2. DOMAIN c[e.proc_name] = {o.description : o \in OfProcess(E, e.proc_name)}
    BY <2>1, GroupedByName
  <2>3. key[e] \in Details(c, e.proc_name)
    BY <2>1, <2>2 DEF Details
  <2>4. QED
    BY <2>1, <2>3 DEF Everything
<1>4. ASSUME NEW s \in A PROVE Values(A)[s] = Total({e \in E : key[e] = s})
  <2>1. PICK p \in DOMAIN c : s \in Details(c, p)
    BY DEF Everything
  <2>2. PICK d \in DOMAIN c[p] : s = Slice(<<p, d>>, c[p][d], FALSE)
    BY <2>1 DEF Details
  <2>3. {e \in E : key[e] = s} = OfBoth(E, p, d)
    <3>1. ASSUME NEW e \in E, key[e] = s
          PROVE  e.proc_name = p /\ e.description = d
      <4>1. <<e.proc_name, e.description>> = <<p, d>>
        <5>1. key[e].of = <<e.proc_name, e.description>> /\ s.of = <<p, d>>
          BY <2>2 DEF Slice
        <5>2. QED
          BY <3>1, <5>1
      <4>2. QED
        BY <4>1
    <3>2. ASSUME NEW e \in E, e.proc_name = p, e.description = d
          PROVE  key[e] = s
      BY <2>2, <3>2
    <3> HIDE DEF key
    <3>3. QED
      BY <3>1, <3>2 DEF OfBoth
  <2>4. s.value = c[p][d]
    BY <2>2 DEF Slice
  <2>5. c[p][d] = Total(OfBoth(E, p, d))
    BY GroupedByName
  <2> HIDE DEF key, c, A
  <2>6. QED
    BY <2>3, <2>4, <2>5 DEF Values
<1>5. Sum(A) = SumFunctionOnSet(Values(A), A)
  BY DEF Sum, SumFunction, Values
<1> HIDE DEF A, key
<1>6. Total(E) = SumFunctionOnSet(Values(A), A)
  BY <1>2, <1>3, <1>4, TotalGrouped
<1>7. QED
  BY <1>5, <1>6 DEF A

\* The series of the chart: its slices, and what they come to.
Overview(c, is_full) == IF is_full THEN Everything(c) ELSE Processes(c)
Charted(c, is_full, name) == IF name = "" THEN Overview(c, is_full) ELSE Details(c, name)
Whole(c, name) == Sum(IF name = "" THEN Everything(c) ELSE Details(c, name))

LEMMA ChartedIsWhole ==
    ASSUME NEW c, Container(c), NEW is_full \in BOOLEAN, NEW name, name = "" \/ name \in DOMAIN c
    PROVE  /\ Valued(Charted(c, is_full, name))
           /\ Sum(Charted(c, is_full, name)) = Whole(c, name)
           /\ \A v : Slice(<<"Others">>, v, FALSE) \notin Charted(c, is_full, name)
<1>1. Valued(Charted(c, is_full, name))
  BY SlicesOf DEF Charted, Overview
<1>2. Sum(Charted(c, is_full, name)) = Whole(c, name)
  BY OverviewsAgree DEF Charted, Overview, Whole
<1>3. ASSUME NEW v, Slice(<<"Others">>, v, FALSE) \in Charted(c, is_full, name)
      PROVE  FALSE
  <2> DEFINE o == Slice(<<"Others">>, v, FALSE)
  <2>1. o.of = <<"Others">> /\ o.drill = FALSE
    BY DEF Slice
  <2>2. ASSUME NEW p, o \in Details(c, p) PROVE FALSE
    <3>1. PICK d : o = Slice(<<p, d>>, c[p][d], FALSE)
      BY <2>2 DEF Details
    <3>2. <<"Others">> = <<p, d>>
      BY <2>1, <3>1 DEF Slice
    <3>3. QED
      BY <3>2
  <2>3. ASSUME o \in Processes(c) PROVE FALSE
    <3>1. PICK p : o = Slice(<<p>>, Sum(Details(c, p)), TRUE)
      BY <2>3 DEF Processes
    <3>2. o.drill = TRUE
      BY <3>1 DEF Slice
    <3>3. QED
      BY <2>1, <3>2
  <2> HIDE DEF o
  <2>4. o \notin Everything(c) /\ o \notin Processes(c)
    BY <2>1, <2>2, <2>3 DEF Everything
  <2>5. o \in Charted(c, is_full, name)
    BY <1>3 DEF o
  <2>6. QED
    BY <2>2, <2>4, <2>5 DEF Charted, Overview
<1>4. QED
  BY <1>1, <1>2, <1>3

\* The policies let some of the slices through.
LEMMA KeptArePart ==
    ASSUME NEW policy \in Policies, NEW slices, NEW duration, NEW K \in Kept(slices, policy, duration)
    PROVE  K \subseteq slices
<1>1. policy.type \in {"all", "percentage", "count"}
  BY PoliciesAssumption DEF PoliciesAssumption
<1>2. QED
  BY <1>1 DEF Kept

LEMMA Plus == \A a, b \in Int : a + 0 = a /\ a + b = b + a
OBVIOUS

LEMMA SeriesIsWhole ==
    ASSUME NEW c, Container(c), NEW is_full \in BOOLEAN, NEW policy \in Policies,
           NEW name, name = "" \/ name \in DOMAIN c,
           NEW series \in get_series(c, is_full, policy, name)
    PROVE  /\ Sum(series) = Whole(c, name)
           /\ \A s \in series : s.drill => s \in Charted(c, is_full, name)
<1> DEFINE all == Charted(c, is_full, name)
           slices == {s \in all : s.value # 0}
<1>1. PICK kept \in Kept(slices, policy, Sum(all)) : series = Finalized(kept, slices)
  BY DEF get_series, Charted, Overview
<1>2. kept \in SUBSET slices /\ slices \in SUBSET all
  BY KeptArePart
<1>3. Valued(all)
  BY ChartedIsWhole
<1>4. Sum(slices) = Whole(c, name)
  <2>1. IsFiniteSet(all) /\ \A s \in all : Values(all)[s] \in Int
    BY <1>3 DEF Valued, Values
  <2>2. SumFunctionOnSet(Values(all), all)
          = SumFunctionOnSet(Values(all), slices) + SumFunctionOnSet(Values(all), all \ slices)
    <3> HIDE DEF all, slices
    <3>1. QED
      BY <1>2, <2>1, SumSplit
  <2>3. SumFunctionOnSet(Values(all), all \ slices) = 0
    <3>1. \A s \in all \ slices : Values(all)[s] = 0
      BY DEF Values
    <3>2. IsFiniteSet(all \ slices)
      BY <2>1, FS_Subset
    <3>3. QED
      BY <3>1, <3>2, SumZeros
  <2>4. /\ Sum(all) = SumFunctionOnSet(Values(all), all)
        /\ Sum(slices) = SumFunctionOnSet(Values(all), slices) /\ Sum(slices) \in Int
    BY <1>2, <1>3, SumIsSum
  <2>5. Sum(all) = Whole(c, name)
    BY ChartedIsWhole
  <2>6. SumFunctionOnSet(Values(all), slices) \in Int
    BY <2>4
  <2> HIDE DEF all, slices
  <2>7. SumFunctionOnSet(Values(all), all) = SumFunctionOnSet(Values(all), slices)
    BY <2>2, <2>3, <2>6, Plus, Zenon
  <2>8. QED
    BY <2>4, <2>5, <2>7
<1>5. CASE kept = slices
  <2>1. series = slices
    BY <1>1, <1>5 DEF Finalized
  <2>2. QED
    BY <1>4, <2>1
<1>6. CASE kept # slices
  <2> DEFINE rest == slices \ kept
             o == Slice(<<"Others">>, Sum(rest), FALSE)
  <2>1. series = kept \cup {o} /\ o.value = Sum(rest) /\ o.drill = FALSE
    BY <1>1, <1>6 DEF Finalized, Slice
  <2>2. o \notin kept
    BY <1>2, ChartedIsWhole
  <2>3. /\ Valued(slices) /\ Valued(kept) /\ Valued(rest)
        /\ Sum(kept) \in Int /\ Sum(rest) \in Int
        /\ Sum(kept) = SumFunctionOnSet(Values(slices), kept)
        /\ Sum(rest) = SumFunctionOnSet(Values(slices), rest)
        /\ Sum(slices) = SumFunctionOnSet(Values(slices), slices)
    <3>1. Valued(slices)
      BY <1>2, <1>3, SumIsSum
    <3>2. QED
      BY <1>2, <3>1, SumIsSum
  <2>4. Sum(slices) = Sum(kept) + Sum(rest)
    <3>1. IsFiniteSet(slices) /\ \A s \in slices : Values(slices)[s] \in Int
      BY <2>3 DEF Valued, Values
    <3> HIDE DEF slices
    <3>2. SumFunctionOnSet(Values(slices), slices)
            = SumFunctionOnSet(Values(slices), kept) + SumFunctionOnSet(Values(slices), rest)
      BY <1>2, <3>1, SumSplit
    <3> HIDE DEF rest
    <3>3. QED
      BY <2>3, <3>2
  <2>5. Sum(series) = o.value + Sum(kept)
    <3>1. Valued(series)
      BY <2>1, <2>3, FS_AddElement DEF Valued
    <3>2. IsFiniteSet(kept) /\ \A s \in kept \cup {o} : Values(series)[s] \in Int
      BY <2>1, <2>3, <3>1 DEF Valued, Values
    <3> HIDE DEF o
    <3>3. SumFunctionOnSet(Values(series), kept \cup {o})
            = Values(series)[o] + SumFunctionOnSet(Values(series), kept)
      BY <2>2, <3>2, SumInsert
    <3>4. /\ Sum(series) = SumFunctionOnSet(Values(series), series)
          /\ Sum(kept) = SumFunctionOnSet(Values(series), kept)
      <4>1. series \in SUBSET series /\ kept \in SUBSET series
        BY <2>1
      <4>2. QED
        BY <3>1, <4>1, SumIsSum
    <3>5. Values(series)[o] = o.value
      BY <2>1 DEF Values
    <3>6. QED
      BY <2>1, <3>3, <3>4, <3>5
  <2>6. Sum(series) = Whole(c, name)
    <3>1. o.value = Sum(rest) /\ Sum(rest) \in Int /\ Sum(kept) \in Int
      BY <2>1, <2>3
    <3> HIDE DEF o, rest, slices
    <3>2. Sum(series) = Sum(slices)
      BY <2>4, <2>5, <3>1, Plus, Zenon
    <3>3. QED
      BY <1>4, <3>2
  <2>7. \A s \in series : s.drill => s \in all
    BY <1>2, <2>1
  <2>8. QED
    BY <2>6, <2>7
<1>7. QED
  BY <1>5, <1>6

\* A slice that can be clicked names a process that is there.
LEMMA ClickIsSafe ==
    ASSUME NEW c, Container(c), NEW is_full \in BOOLEAN, is_full = FALSE, NEW policy \in Policies,
           NEW name, name = "" \/ name \in DOMAIN c,
           NEW series \in get_series(c, is_full, policy, name), NEW slice \in series
    PROVE  get_name(slice) = "" \/ get_name(slice) \in DOMAIN c
<1>1. CASE slice.drill
  <2>1. slice \in Charted(c, is_full, name)
    BY <1>1, SeriesIsWhole
  <2>2. ASSUME NEW p, slice \in Details(c, p) PROVE FALSE
    <3>1. PICK d : slice = Slice(<<p, d>>, c[p][d], FALSE)
      BY <2>2 DEF Details
    <3>2. slice.drill = FALSE
      BY <3>1 DEF Slice
    <3>3. QED
      BY <1>1, <3>2
  <2>3. slice \in Processes(c)
    BY <2>1, <2>2 DEF Charted, Overview
  <2>4. PICK p \in DOMAIN c : slice = Slice(<<p>>, Sum(Details(c, p)), TRUE)
    BY <2>3 DEF Processes
  <2>5. slice.of = <<p>>
    BY <2>4 DEF Slice
  <2>6. get_name(slice) = p
    <3>1. get_name(slice) = Last(slice.of)
      BY <1>1 DEF get_name
    <3>2. Last(<<p>>) = p
      BY DEF Last
    <3>3. QED
      BY <2>5, <3>1, <3>2
  <2>7. QED
    BY <2>6
<1>2. CASE ~slice.drill
  BY <1>2 DEF get_name
<1>3. QED
  BY <1>1, <1>2

-----------------------------------------------------------------------------
(***************************************************************************)
(* The state behind the window.                                            *)
(***************************************************************************)

States == {"open", "bare", "closed"}

StateInv ==
    /\ files \in [Files -> [kind : {"missing", "garbage", "notable", "table"},
                            rows : SUBSET Entries]]
    /\ data_access = NoFile \/ data_access \in [file : Files, state : States]
    /\ data_range \in Ranges /\ filter_pattern \in Filters \cup {NoFilter}

\* Model, rows and status bar are always those of the entries last loaded and
\* of the search pattern.
ViewInv ==
    /\ shown.entries \subseteq Entries
    /\ model = ProcNameGroup(shown.entries)
    /\ parents = RowOf(model, filter_pattern)
    /\ total_time = SumFunction(RowOf(model, filter_pattern))
    /\ ViewFollowsFile

\* The actions of the dialogs.
Charting ==
    \/ open_weekday_of_chart_dialog \/ open_hour_of_chart_dialog
    \/ ToggleSeries
    \/ \E policy \in Policies : open_drilldown_pie_chart(policy) \/ set_policy(policy)
    \/ \E is_full \in BOOLEAN : set_model_type(is_full)
    \/ dialog.kind = "pie" /\ \E slice \in dialog.slices : handleSliceClicked(slice)
    \/ CloseDialog

LEMMA ChartingOnlyDraws ==
    ASSUME Charting
    PROVE  UNCHANGED <<files, data_access, data_range, filter_pattern, view>>
BY DEF Charting, open_weekday_of_chart_dialog, open_hour_of_chart_dialog, ToggleSeries,
       open_drilldown_pie_chart, set_policy, set_model_type, handleSliceClicked, CloseDialog,
       OpenDialog, OnPie

LEMMA ReadIsPart == \A entries : \A R \in Read(entries) : R \subseteq entries
BY DEF Read

LEMMA RowsAreEntries ==
    ASSUME StateInv, NEW access, access = NoFile \/ access \in [file : Files, state : States]
    PROVE  Rows(access) \subseteq Entries
<1>1. CASE access = NoFile
  <2>1. access.state = "none"
    BY <1>1 DEF NoFile
  <2>2. QED
    BY <2>1 DEF Rows
<1>2. CASE access \in [file : Files, state : States]
  <2>1. access.file \in Files
    BY <1>2
  <2>2. files[access.file].rows \subseteq Entries
    BY <2>1 DEF StateInv
  <2>3. QED
    BY <2>2 DEF Rows
<1>3. QED
  BY <1>1, <1>2

LEMMA InitStateInv == Init => StateInv
BY DEF Init, StateInv

LEMMA NextStateInv ==
    ASSUME StateInv, [Next]_vars
    PROVE  StateInv'
<1> USE DEF StateInv
<1>1. CASE Recorded
  <2>1. PICK e \in Entries : files' = [files EXCEPT ![DefaultFile].rows = @ \cup {e}]
    BY <1>1 DEF Recorded
  <2>2. files' \in [Files -> [kind : {"missing", "garbage", "notable", "table"},
                              rows : SUBSET Entries]]
    BY <2>1, FilesAssumption DEF FilesAssumption
  <2>3. QED
    BY <1>1, <2>2 DEF Recorded
<1>2. CASE Created
  <2>1. files' \in [Files -> [kind : {"missing", "garbage", "notable", "table"},
                              rows : SUBSET Entries]]
    BY <1>2, FilesAssumption DEF FilesAssumption, Created
  <2>2. QED
    BY <1>2, <2>1 DEF Created
<1>3. ASSUME NEW filter \in Filters \cup {NoFilter}, apply_filter(filter)
      PROVE  StateInv'
  BY <1>3 DEF apply_filter
<1>4. ASSUME NEW file \in Files, load_from_file(file)
      PROVE  StateInv'
  <2>1. PICK state \in Opened(file) : data_access' = [file |-> file, state |-> state]
    BY <1>4 DEF load_from_file
  <2>2. state \in States
    BY DEF Opened, States
  <2>3. QED
    BY <1>4, <2>1, <2>2 DEF load_from_file
<1>5. ASSUME NEW range \in Ranges, set_range(range)
      PROVE  StateInv'
  BY <1>5 DEF set_range
<1>6. ASSUME NEW expression \in Expressions, apply_expression(expression)
      PROVE  StateInv'
  BY <1>6 DEF apply_expression
<1>7. CASE Charting
  BY <1>7, ChartingOnlyDraws
<1>8. CASE UNCHANGED vars
  BY <1>8 DEF vars
<1>9. QED
  BY <1>1, <1>2, <1>3, <1>4, <1>5, <1>6, <1>7, <1>8 DEF Next, Charting

LEMMA LoadShows ==
    ASSUME NEW file, NEW R \in SUBSET Entries, load_model(file, R),
           filter_pattern' = filter_pattern
    PROVE  /\ shown' = [file |-> file, entries |-> R]
           /\ shown'.entries \subseteq Entries
           /\ model' = ProcNameGroup(shown'.entries)
           /\ parents' = RowOf(model', filter_pattern')
           /\ total_time' = SumFunction(RowOf(model', filter_pattern'))
<1>1. shown' = [file |-> file, entries |-> R] /\ model' = ProcNameGroup(R)
  BY DEF load_model
<1>2. /\ parents' = RowOf(ProcNameGroup(R), filter_pattern)
      /\ total_time' = SumFunction(RowOf(ProcNameGroup(R), filter_pattern))
  BY DEF load_model, update_parents_values, RowOf
<1>3. QED
  BY <1>1, <1>2

LEMMA InitViewInv ==
    ASSUME Init
    PROVE  ViewInv
<1>1. shown.entries = {} /\ data_access.state = "none"
  BY DEF Init, NoFile
<1>2. model = << >> /\ parents = << >> /\ total_time = 0
  BY DEF Init
<1>3. model = ProcNameGroup(shown.entries)
  <2>1. {e.proc_name : e \in {}} = {}
    OBVIOUS
  <2>2. ProcNameGroup({}) \in [{} -> {}] /\ << >> \in [{} -> {}]
    BY <2>1 DEF ProcNameGroup
  <2>3. ProcNameGroup({}) = << >>
    BY <2>2
  <2>4. QED
    BY <1>1, <1>2, <2>3
<1>4. parents = RowOf(model, filter_pattern)
  <2>1. RowOf(<< >>, filter_pattern) \in [{} -> {}] /\ << >> \in [{} -> {}]
    BY DEF RowOf
  <2>2. RowOf(<< >>, filter_pattern) = << >>
    BY <2>1
  <2>3. QED
    BY <1>2, <2>2
<1>5. total_time = SumFunction(RowOf(model, filter_pattern))
  <2>1. DOMAIN RowOf(model, filter_pattern) = {}
    BY <1>2, <1>4
  <2>2. QED
    BY <1>2, <2>1, SumEmpty DEF SumFunction
<1>6. QED
  BY <1>1, <1>3, <1>4, <1>5 DEF ViewInv, ViewFollowsFile

LEMMA NextViewInv ==
    ASSUME StateInv, ViewInv, [Next]_vars
    PROVE  ViewInv'
<1> USE DEF ViewInv, ViewFollowsFile
<1>1. CASE Recorded \/ Created
  BY <1>1 DEF Recorded, Created, view
<1>2. ASSUME NEW filter \in Filters \cup {NoFilter}, apply_filter(filter)
      PROVE  ViewInv'
  <2>1. /\ parents' = RowOf(model, filter)
        /\ total_time' = SumFunction(RowOf(model, filter))
    BY <1>2 DEF apply_filter, update_parents_values, RowOf
  <2>2. UNCHANGED <<data_access, model, shown>> /\ filter_pattern' = filter
    BY <1>2 DEF apply_filter
  <2>3. QED
    BY <2>1, <2>2
<1>3. ASSUME NEW file \in Files, load_from_file(file)
      PROVE  ViewInv'
  <2>1. PICK state \in Opened(file) :
          LET access == [file |-> file, state |-> state]
          IN  /\ data_access' = access
              /\ IF state = "open"
                 THEN \E R \in Read(InRange(Rows(access), data_range)) : load_model(file, R)
                 ELSE UNCHANGED view
    BY <1>3 DEF load_from_file
  <2> DEFINE access == [file |-> file, state |-> state]
  <2>2. state \in States /\ filter_pattern' = filter_pattern
    BY <1>3 DEF Opened, States, load_from_file
  <2>3. CASE state = "open"
    <3>1. PICK R \in Read(InRange(Rows(access), data_range)) : load_model(file, R)
      BY <2>1, <2>3
    <3>2. R \in SUBSET Entries
      <4>1. R \subseteq Rows(access)
        BY ReadIsPart DEF InRange
      <4>2. Rows(access) \subseteq Entries
        BY <2>2, RowsAreEntries
      <4>3. QED
        BY <4>1, <4>2
    <3>3. shown'.file = data_access'.file
      BY <2>1, <2>2, <3>1, <3>2, LoadShows
    <3>4. QED
      BY <2>2, <3>1, <3>2, <3>3, LoadShows
  <2>4. CASE state # "open"
    BY <2>1, <2>2, <2>4 DEF view
  <2>5. QED
    BY <2>3, <2>4
<1>4. ASSUME NEW part \in SUBSET Rows(data_access), NEW R \in Read(part),
             load_model(data_access.file, R), UNCHANGED <<data_access, filter_pattern>>
      PROVE  ViewInv'
  <2>1. R \subseteq Rows(data_access)
    BY ReadIsPart
  <2>2. Rows(data_access) \subseteq Entries
    BY RowsAreEntries DEF StateInv
  <2>3. R \in SUBSET Entries
    BY <2>1, <2>2
  <2>4. shown'.file = data_access'.file
    BY <1>4, <2>3, LoadShows
  <2>5. QED
    BY <1>4, <2>3, <2>4, LoadShows
<1>5. ASSUME NEW range \in Ranges, set_range(range)
      PROVE  ViewInv'
  <2>1. PICK R \in Read(InRange(Rows(data_access), range)) : load_model(data_access.file, R)
    BY <1>5 DEF set_range
  <2>2. UNCHANGED <<data_access, filter_pattern>>
    BY <1>5 DEF set_range
  <2>3. InRange(Rows(data_access), range) \in SUBSET Rows(data_access)
    BY DEF InRange
  <2> HIDE DEF ViewInv
  <2>4. QED
    BY <1>4, <2>1, <2>2, <2>3
<1>6. ASSUME NEW expression \in Expressions, apply_expression(expression)
      PROVE  ViewInv'
  <2>1. PICK R \in Read(Rows(data_access) \cap expression) : load_model(data_access.file, R)
    BY <1>6 DEF apply_expression
  <2>2. UNCHANGED <<data_access, filter_pattern>>
    BY <1>6 DEF apply_expression
  <2>3. Rows(data_access) \cap expression \in SUBSET Rows(data_access)
    OBVIOUS
  <2> HIDE DEF ViewInv
  <2>4. QED
    BY <1>4, <2>1, <2>2, <2>3
<1>7. CASE Charting
  BY <1>7, ChartingOnlyDraws DEF view
<1>8. CASE UNCHANGED vars
  BY <1>8 DEF vars
<1>9. QED
  <2> HIDE DEF ViewInv
  <2>1. QED
    BY <1>1, <1>2, <1>3, <1>5, <1>6, <1>7, <1>8 DEF Next, Charting

-----------------------------------------------------------------------------
(***************************************************************************)
(* The dialogs.                                                            *)
(***************************************************************************)

BarChart(d) ==
    /\ d = [kind |-> d.kind, read |-> d.read, bars |-> d.bars, series |-> d.series,
            entries |-> d.entries]
    /\ d.entries \subseteq Entries
    /\ \/ d.kind = "weekday" /\ d.bars = WeekdayGroup(d.entries)
       \/ d.kind = "hour" /\ d.bars = HourGroup(d.entries)

PieData(d) ==
    /\ d = [kind |-> "pie", read |-> d.read, container |-> d.container, is_full |-> d.is_full,
            policy |-> d.policy, name |-> d.name, slices |-> d.slices]
    /\ Container(d.container) /\ d.is_full \in BOOLEAN /\ d.policy \in Policies

\* The slices are a series for what the dialog says it shows.
PieChartOf(d) ==
    /\ PieData(d)
    /\ d.name = "" \/ d.name \in DOMAIN d.container
    /\ d.slices \in get_series(d.container, d.is_full, d.policy, d.name)

DialogInv == dialog = NoDialog \/ BarChart(dialog) \/ PieChartOf(dialog)

LEMMA Kinds ==
    \A d : /\ d = NoDialog => d.kind = "none"
           /\ BarChart(d) => d.kind \in {"weekday", "hour"}
           /\ PieChartOf(d) => d.kind = "pie"
<1>1. ASSUME NEW d, PieChartOf(d) PROVE d.kind = "pie"
  <2>1. d = [kind |-> "pie", read |-> d.read, container |-> d.container, is_full |-> d.is_full,
             policy |-> d.policy, name |-> d.name, slices |-> d.slices]
    BY <1>1 DEF PieChartOf, PieData
  <2>2. QED
    BY <2>1
<1>2. QED
  BY <1>1 DEF NoDialog, BarChart

LEMMA SeriesChanges ==
    ASSUME NEW d, PieData(d), NEW name, name = "" \/ name \in DOMAIN d.container,
           change_series(d, name)
    PROVE  PieChartOf(dialog')
<1>1. PICK slices \in get_series(d.container, d.is_full, d.policy, name) :
        dialog' = [d EXCEPT !.name = name, !.slices = slices]
  BY DEF change_series
<1>2. PICK read, container, is_full, policy, was, old :
        d = [kind |-> "pie", read |-> read, container |-> container, is_full |-> is_full,
             policy |-> policy, name |-> was, slices |-> old]
  BY DEF PieData
<1>3. dialog' = [kind |-> "pie", read |-> read, container |-> container,
                 is_full |-> is_full, policy |-> policy, name |-> name, slices |-> slices]
  BY <1>1, <1>2
<1>4. /\ dialog'.read = d.read /\ dialog'.container = d.container
      /\ dialog'.is_full = d.is_full /\ dialog'.policy = d.policy
      /\ dialog'.name = name /\ dialog'.slices = slices
      /\ dialog' = [kind |-> "pie", read |-> dialog'.read, container |-> dialog'.container,
                    is_full |-> dialog'.is_full, policy |-> dialog'.policy,
                    name |-> dialog'.name, slices |-> dialog'.slices]
  BY <1>2, <1>3
<1>5. PieData(dialog')
  BY <1>4 DEF PieData
<1>6. QED
  BY <1>4, <1>5 DEF PieChartOf

LEMMA QuickIsPart ==
    ASSUME StateInv, NEW R \in Read(InRange(Rows(data_access), data_range))
    PROVE  R \subseteq Entries /\ Quick(R) \subseteq Entries
<1>1. R \subseteq Rows(data_access)
  BY ReadIsPart DEF InRange
<1>2. Rows(data_access) \subseteq Entries
  BY RowsAreEntries DEF StateInv
<1>3. QED
  BY <1>1, <1>2 DEF Quick

\* What opening a chart makes of the entries it reads.
LEMMA BarsOpen ==
    ASSUME StateInv, open_weekday_of_chart_dialog \/ open_hour_of_chart_dialog
    PROVE  /\ BarChart(dialog') /\ dialog = NoDialog
           /\ dialog'.entries = Quick(dialog'.read)
<1>1. CASE open_weekday_of_chart_dialog
  <2>1. PICK R \in Read(InRange(Rows(data_access), data_range)) :
          dialog' = [kind |-> "weekday", read |-> R, bars |-> WeekdayGroup(Quick(R)),
                     series |-> "total", entries |-> Quick(R)]
    BY <1>1 DEF open_weekday_of_chart_dialog, OpenDialog, Bars
  <2>2. Quick(R) \subseteq Entries
    BY QuickIsPart
  <2>3. dialog = NoDialog
    BY <1>1 DEF open_weekday_of_chart_dialog, OpenDialog
  <2>4. QED
    BY <2>1, <2>2, <2>3 DEF BarChart
<1>2. CASE open_hour_of_chart_dialog
  <2>1. PICK R \in Read(InRange(Rows(data_access), data_range)) :
          dialog' = [kind |-> "hour", read |-> R, bars |-> HourGroup(Quick(R)),
                     series |-> "total", entries |-> Quick(R)]
    BY <1>2 DEF open_hour_of_chart_dialog, OpenDialog, Bars
  <2>2. Quick(R) \subseteq Entries
    BY QuickIsPart
  <2>3. dialog = NoDialog
    BY <1>2 DEF open_hour_of_chart_dialog, OpenDialog
  <2>4. QED
    BY <2>1, <2>2, <2>3 DEF BarChart
<1>3. QED
  BY <1>1, <1>2

LEMMA PieOpens ==
    ASSUME StateInv, NEW policy \in Policies, open_drilldown_pie_chart(policy)
    PROVE  /\ PieChartOf(dialog') /\ dialog = NoDialog
           /\ dialog'.read \subseteq Entries
           /\ dialog'.container = ProcNameGroup(Quick(dialog'.read))
<1>1. PICK R \in Read(InRange(Rows(data_access), data_range)) :
        change_series([kind |-> "pie", read |-> R, container |-> ProcNameGroup(Quick(R)),
                       is_full |-> FALSE, policy |-> policy, name |-> "", slices |-> {}], "")
  BY DEF open_drilldown_pie_chart, OpenDialog
<1> DEFINE d == [kind |-> "pie", read |-> R, container |-> ProcNameGroup(Quick(R)),
                 is_full |-> FALSE, policy |-> policy, name |-> "", slices |-> {}]
<1>2. R \subseteq Entries /\ Quick(R) \subseteq Entries
  BY QuickIsPart
<1>3. Container(ProcNameGroup(Quick(R)))
  BY <1>2 DEF Container
<1>4. PieData(d)
  BY <1>3 DEF PieData
<1>5. d.read = R /\ d.container = ProcNameGroup(Quick(R))
  OBVIOUS
<1>6. dialog'.read = d.read /\ dialog'.container = d.container
  <2>1. PICK slices : dialog' = [d EXCEPT !.name = "", !.slices = slices]
    BY <1>1 DEF change_series
  <2>2. QED
    BY <2>1
<1>7. PieChartOf(dialog')
  <2> HIDE DEF d
  <2>1. change_series(d, "")
    BY <1>1 DEF d
  <2>2. QED
    BY <1>4, <2>1, SeriesChanges
<1>8. dialog = NoDialog
  BY DEF open_drilldown_pie_chart, OpenDialog
<1> HIDE DEF d
<1>9. QED
  BY <1>2, <1>5, <1>6, <1>7, <1>8

LEMMA DialogActions ==
    ASSUME [Next]_vars
    PROVE  \/ UNCHANGED dialog \/ open_weekday_of_chart_dialog \/ open_hour_of_chart_dialog
           \/ ToggleSeries \/ CloseDialog
           \/ \E policy \in Policies : open_drilldown_pie_chart(policy)
           \/ /\ dialog.kind = "pie"
              /\ \/ \E policy \in Policies : set_policy(policy)
                 \/ \E is_full \in BOOLEAN : set_model_type(is_full)
                 \/ \E slice \in dialog.slices : handleSliceClicked(slice)
<1>1. \/ UNCHANGED dialog \/ open_weekday_of_chart_dialog \/ open_hour_of_chart_dialog
      \/ ToggleSeries \/ CloseDialog
      \/ \E policy \in Policies : open_drilldown_pie_chart(policy) \/ set_policy(policy)
      \/ \E is_full \in BOOLEAN : set_model_type(is_full)
      \/ dialog.kind = "pie" /\ \E slice \in dialog.slices : handleSliceClicked(slice)
  BY DEF Next, vars, Recorded, Created, apply_filter, load_from_file, set_range,
         apply_expression
<1>2. ASSUME NEW policy \in Policies, set_policy(policy) PROVE dialog.kind = "pie"
  BY <1>2 DEF set_policy, OnPie
<1>3. ASSUME NEW is_full \in BOOLEAN, set_model_type(is_full) PROVE dialog.kind = "pie"
  BY <1>3 DEF set_model_type, OnPie
<1>4. QED
  BY <1>1, <1>2, <1>3

LEMMA NextDialogInv ==
    ASSUME StateInv, DialogInv, [Next]_vars
    PROVE  DialogInv'
<1>1. CASE UNCHANGED dialog
  BY <1>1 DEF DialogInv
<1>2. CASE open_weekday_of_chart_dialog \/ open_hour_of_chart_dialog
  BY <1>2, BarsOpen DEF DialogInv
<1>3. CASE ToggleSeries
  <2>1. dialog.kind \in {"weekday", "hour"}
    BY <1>3 DEF ToggleSeries
  <2>2. BarChart(dialog)
    BY <2>1, Kinds DEF DialogInv
  <2>3. PICK x : dialog' = [dialog EXCEPT !.series = x]
    BY <1>3 DEF ToggleSeries
  <2>4. dialog = [kind |-> dialog.kind, read |-> dialog.read, bars |-> dialog.bars,
                  series |-> dialog.series, entries |-> dialog.entries]
    BY <2>2 DEF BarChart
  <2>5. dialog' = [kind |-> dialog.kind, read |-> dialog.read, bars |-> dialog.bars,
                   series |-> x, entries |-> dialog.entries]
    BY <2>3, <2>4
  <2>6. BarChart(dialog')
    BY <2>2, <2>5 DEF BarChart
  <2>7. QED
    BY <2>6 DEF DialogInv
<1>4. ASSUME NEW policy \in Policies, open_drilldown_pie_chart(policy)
      PROVE  DialogInv'
  BY <1>4, PieOpens DEF DialogInv
<1>5. ASSUME dialog.kind = "pie",
             \/ \E policy \in Policies : set_policy(policy)
             \/ \E is_full \in BOOLEAN : set_model_type(is_full)
             \/ \E slice \in dialog.slices : handleSliceClicked(slice)
      PROVE  DialogInv'
  <2>1. PieChartOf(dialog)
    BY <1>5, Kinds DEF DialogInv
  <2>2. dialog = [kind |-> "pie", read |-> dialog.read, container |-> dialog.container,
                  is_full |-> dialog.is_full, policy |-> dialog.policy,
                  name |-> dialog.name, slices |-> dialog.slices]
    BY <2>1 DEF PieChartOf, PieData
  <2>3. ASSUME NEW policy \in Policies, set_policy(policy)
        PROVE  DialogInv'
    <3> DEFINE d == [dialog EXCEPT !.policy = policy]
    <3>1. change_series(d, "")
      BY <2>3 DEF set_policy, OnPie
    <3>2. d = [kind |-> "pie", read |-> dialog.read, container |-> dialog.container,
               is_full |-> dialog.is_full, policy |-> policy,
               name |-> dialog.name, slices |-> dialog.slices]
      BY <2>2
    <3> HIDE DEF d
    <3>3. PieData(d)
      BY <2>1, <3>2 DEF PieData, PieChartOf
    <3>4. QED
      BY <3>1, <3>3, SeriesChanges DEF DialogInv
  <2>4. ASSUME NEW is_full \in BOOLEAN, set_model_type(is_full)
        PROVE  DialogInv'
    <3> DEFINE d == [dialog EXCEPT !.is_full = is_full]
    <3>1. change_series(d, "")
      BY <2>4 DEF set_model_type, OnPie
    <3>2. d = [kind |-> "pie", read |-> dialog.read, container |-> dialog.container,
               is_full |-> is_full, policy |-> dialog.policy,
               name |-> dialog.name, slices |-> dialog.slices]
      BY <2>2
    <3> HIDE DEF d
    <3>3. PieData(d)
      BY <2>1, <3>2 DEF PieData, PieChartOf
    <3>4. QED
      BY <3>1, <3>3, SeriesChanges DEF DialogInv
  <2>5. ASSUME NEW slice \in dialog.slices, handleSliceClicked(slice)
        PROVE  DialogInv'
    <3>1. dialog.is_full = FALSE /\ change_series(dialog, get_name(slice))
      BY <2>1, <2>5 DEF handleSliceClicked, OnPie, PieChartOf, PieData
    <3>2. get_name(slice) = "" \/ get_name(slice) \in DOMAIN dialog.container
      BY <2>1, <3>1, ClickIsSafe DEF PieChartOf, PieData
    <3>3. QED
      BY <2>1, <3>1, <3>2, SeriesChanges DEF DialogInv, PieChartOf
  <2>6. QED
    BY <1>5, <2>3, <2>4, <2>5
<1>6. CASE CloseDialog
  BY <1>6 DEF CloseDialog, DialogInv
<1>7. QED
  BY <1>1, <1>2, <1>3, <1>4, <1>5, <1>6, DialogActions

-----------------------------------------------------------------------------
(***************************************************************************)
(* The theorems.                                                           *)
(***************************************************************************)

Inv == StateInv /\ ViewInv /\ DialogInv

LEMMA Invariants == Spec => []Inv
<1>1. Init => Inv
  BY InitStateInv, InitViewInv DEF Inv, Init, DialogInv
<1>2. Inv /\ [Next]_vars => Inv'
  BY NextStateInv, NextViewInv, NextDialogInv DEF Inv
<1>3. QED
  BY <1>1, <1>2, PTL DEF Spec

LEMMA TotalShown ==
    ASSUME ViewInv
    PROVE  total_time = Total(Matching(shown.entries, filter_pattern))
BY RowsAddUp DEF ViewInv

\* The status bar and the row of each process add up exactly the entries that
\* were loaded and match the search (analyzercontroller.cc:131-172,
\* qtfilterproxymodel.cc), after any sequence of loads, ranges, expressions
\* and searches, for any entries and any search patterns.
THEOREM Totals == Spec => []TotalsAddUp
<1>1. ViewInv => TotalsAddUp
  <2> SUFFICES ASSUME ViewInv PROVE TotalsAddUp
    OBVIOUS
  <2> DEFINE M == Matching(shown.entries, filter_pattern)
  <2>1. M = {e \in shown.entries : match_filter(e, filter_pattern)}
    BY DEF Matching
  <2>2. /\ \A p \in DOMAIN model : parents[p] = Total(OfProcess(M, p))
        /\ total_time = Total(M)
    BY RowsAddUp DEF ViewInv
  <2>3. DOMAIN parents = DOMAIN model
    BY DEF ViewInv, RowOf
  <2> HIDE DEF M
  <2>4. QED
    BY <2>1, <2>2, <2>3 DEF TotalsAddUp, OfProcess
<1>2. QED
  BY <1>1, Invariants, PTL DEF Inv

\* Entries of a file that is not the one queried stay on the screen only when
\* that one could not be opened (analyzercontroller.cc:62-75).
THEOREM FollowsFile == Spec => []ViewFollowsFile
<1>1. Inv => ViewFollowsFile
  BY DEF Inv, ViewInv
<1>2. QED
  BY <1>1, Invariants, PTL

\* The slices come to the whole of what is charted, whatever the policy puts
\* together as "Others" and leaves out as empty (drilldownchart.cc:59-106,
\* smartpieseries.cc:10-52).
THEOREM PiesAreWhole == Spec => []PieIsWhole
<1>1. DialogInv => PieIsWhole
  <2> SUFFICES ASSUME DialogInv, dialog.kind = "pie"
               PROVE  Sum(dialog.slices) = Whole(dialog.container, dialog.name)
    BY DEF PieIsWhole, Whole
  <2>1. PieChartOf(dialog)
    BY Kinds DEF DialogInv
  <2> DEFINE c == dialog.container
             is_full == dialog.is_full
             policy == dialog.policy
             name == dialog.name
             series == dialog.slices
  <2>2. /\ Container(c) /\ is_full \in BOOLEAN /\ policy \in Policies
        /\ name = "" \/ name \in DOMAIN c
        /\ series \in get_series(c, is_full, policy, name)
    BY <2>1 DEF PieChartOf, PieData
  <2> HIDE DEF c, is_full, policy, name, series
  <2>3. Sum(series) = Whole(c, name)
    BY <2>2, SeriesIsWhole
  <2>4. QED
    BY <2>3 DEF c, name, series
<1>2. QED
  BY <1>1, Invariants, PTL DEF Inv

\* No click asks the chart for a process it does not hold, where model.at()
\* would throw (drilldownchart.cc:59-70).
THEOREM NoClickCrashes == Spec => []ClicksAreSafe
<1>1. DialogInv => ClicksAreSafe
  BY Kinds DEF DialogInv, ClicksAreSafe
<1>2. QED
  BY <1>1, Invariants, PTL DEF Inv

\* Type correctness of the window's state.
THEOREM TypeCorrect == Spec => []TypeOK
<1>1. Inv => TypeOK
  <2> SUFFICES ASSUME Inv PROVE TypeOK
    OBVIOUS
  <2>1. \A f \in Files : files[f].kind \in {"missing", "garbage", "notable", "table"}
                         /\ files[f].rows \subseteq Entries
    BY DEF Inv, StateInv
  <2>2. /\ data_access = NoFile \/ data_access.file \in Files
        /\ data_range \in Ranges /\ filter_pattern \in Filters \cup {NoFilter}
    BY DEF Inv, StateInv
  <2>3. DOMAIN parents = DOMAIN model
    BY DEF Inv, ViewInv, RowOf
  <2>4. ASSUME NEW p \in DOMAIN model, NEW d \in DOMAIN model[p]
        PROVE  {p, d} \subseteq Texts
    <3>1. shown.entries \in SUBSET Entries /\ model = ProcNameGroup(shown.entries)
      BY DEF Inv, ViewInv
    <3>2. /\ p \in {e.proc_name : e \in shown.entries}
          /\ d \in {e.description : e \in OfProcess(shown.entries, p)}
      BY <3>1, GroupedByName
    <3>3. QED
      BY <3>1, <3>2, EntryType DEF OfProcess
  <2>5. total_time \in Int
    <3>1. total_time = Total(Matching(shown.entries, filter_pattern))
      BY TotalShown DEF Inv
    <3>2. Matching(shown.entries, filter_pattern) \in SUBSET Entries
      BY DEF Matching, Inv, ViewInv
    <3>3. QED
      BY <3>1, <3>2, TotalIsSum
  <2>6. shown.entries \subseteq Entries
    BY DEF Inv, ViewInv
  <2>7. dialog.kind \in {"none", "weekday", "hour", "pie", "crashed"}
    BY Kinds DEF Inv, DialogInv
  <2>8. QED
    BY <2>1, <2>2, <2>3, <2>4, <2>5, <2>6, <2>7 DEF TypeOK
<1>2. QED
  BY <1>1, Invariants, PTL

\* The averages of the bar charts divide by the days (datacontainer.h:24-67):
\* by weekday always, by hour unless the keys of two days meet; then they
\* count too few.
THEOREM DaysAreCounted == Spec => []DaysCounted
<1>1. Inv => DaysCounted
  <2> SUFFICES ASSUME Inv, dialog.kind \in {"weekday", "hour"}, NEW k \in DOMAIN dialog.bars
               PROVE  LET days == {e.day : e \in {e \in dialog.entries :
                              k = IF dialog.kind = "hour" THEN e.hour ELSE tm_wday(e.day)}}
                          count == dialog.bars[k].second
                      IN  /\ count <= Cardinality(days)
                          /\ dialog.kind = "weekday" \/ ~KeysMeet(dialog.entries) =>
                               count = Cardinality(days)
    BY DEF DaysCounted
  <2> DEFINE entries == dialog.entries
  <2>1. BarChart(dialog)
    BY Kinds DEF Inv, DialogInv
  <2>2. IsFiniteSet(entries) /\ \A e \in entries : e.day \in CalendarDays
    BY <2>1, EntryType DEF BarChart
  <2>3. CASE dialog.kind = "weekday"
    <3> DEFINE group == {e \in entries : tm_wday(e.day) = k}
    <3>1. dialog.bars = WeekdayGroup(entries) /\ k \in 0..6
      BY <2>1, <2>3 DEF BarChart, WeekdayGroup, OfGroup
    <3>2. dialog.bars[k].second = Cardinality({e.day : e \in group})
      BY <2>2, <3>1, WeekdaysCounted
    <3>3. group = {e \in entries : k = IF dialog.kind = "hour" THEN e.hour ELSE tm_wday(e.day)}
      BY <2>3
    <3>4. Cardinality({e.day : e \in group}) \in Nat
      <4>1. IsFiniteSet(group)
        BY <2>2, FS_Subset
      <4> HIDE DEF group
      <4>2. QED
        BY <4>1, KeysCount
    <3> HIDE DEF group
    <3>5. QED
      BY <3>2, <3>3, <3>4
  <2>4. CASE dialog.kind = "hour"
    <3> DEFINE group == {e \in entries : e.hour = k}
               keys == {get_count_key(e.day) : e \in group}
    <3>1. dialog.bars = HourGroup(entries) /\ k \in 0..23
      BY <2>1, <2>4 DEF BarChart, HourGroup, OfGroup
    <3>2. dialog.bars[k].second = Cardinality(keys)
      BY <3>1 DEF HourGroup, OfGroup, process_entries
    <3>3. group = {e \in entries : k = IF dialog.kind = "hour" THEN e.hour ELSE tm_wday(e.day)}
      BY <2>4
    <3>4. IsFiniteSet(group)
      BY <2>2, FS_Subset
    <3>5. ~KeysMeet(entries) =>
            \A a, b \in {e.day : e \in group} : get_count_key(a) = get_count_key(b) => a = b
      BY DEF KeysMeet
    <3> HIDE DEF group
    <3>6. /\ Cardinality(keys) <= Cardinality({e.day : e \in group})
          /\ ~KeysMeet(entries) => Cardinality(keys) = Cardinality({e.day : e \in group})
      BY <3>4, <3>5, KeysCount
    <3> HIDE DEF keys
    <3>7. QED
      BY <2>4, <3>2, <3>3, <3>6
  <2>5. QED
    BY <2>3, <2>4
<1>2. QED
  BY <1>1, Invariants, PTL

\* Ranges that meet at a time share no entry and miss none
\* (analyzercontroller.cc:77-108), unless that time is the epoch.
THEOREM RangesMeet == Spec => []RangesPartition
<1>1. StateInv => RangesPartition
  <2> SUFFICES ASSUME StateInv
               PROVE  RangesPartition
    OBVIOUS
  <2> DEFINE of(a, b) == InRange(Rows(data_access),
                                 [data_range EXCEPT !.from_time = a, !.to_time = b])
             times == ({time_start(e) : e \in Entries} \cup {x.to_time : x \in Ranges}) \ {0}
  <2>1. times \subseteq Int
    <3>1. \A e \in Entries : time_start(e) \in Int
      BY StartIsInt
    <3>2. \A x \in Ranges : x.to_time \in Int
      BY RangesAssumption DEF RangesAssumption
    <3>3. QED
      BY <3>1, <3>2
  <2>2. Rows(data_access) \subseteq Entries
    BY RowsAreEntries DEF StateInv
  <2>3. ASSUME NEW a \in times, NEW b \in times, NEW e \in Rows(data_access)
        PROVE  e \in of(a, b) <=>
                 /\ data_range.weekdays # {} => tm_wday(e.day) \in data_range.weekdays
                 /\ e.hour >= data_range.from_hour /\ e.hour < data_range.to_hour
                 /\ time_start(e) >= a /\ time_start(e) < b
    <3> DEFINE range == [data_range EXCEPT !.from_time = a, !.to_time = b]
    <3>1. /\ range.weekdays = data_range.weekdays
          /\ range.from_hour = data_range.from_hour /\ range.to_hour = data_range.to_hour
          /\ range.from_time = a /\ range.to_time = b
      BY RangesAssumption DEF RangesAssumption, StateInv
    <3>2. a # 0 /\ b # 0
      OBVIOUS
    <3> HIDE DEF range, times
    <3>3. e \in of(a, b) <=> Selected(e, range)
      BY DEF InRange, range
    <3> HIDE DEF of
    <3>4. QED
      BY <3>1, <3>2, <3>3 DEF Selected
  <2>4. ASSUME NEW a \in times, NEW b \in times, NEW c \in times, a < b, b < c
        PROVE  of(a, b) \cap of(b, c) = {} /\ of(a, b) \cup of(b, c) = of(a, c)
    <3>1. a \in Int /\ b \in Int /\ c \in Int
      BY <2>1
    <3>2. \A e \in Rows(data_access) : time_start(e) \in Int
      BY <2>2, StartIsInt
    <3>3. \A x, y : of(x, y) \subseteq Rows(data_access)
      BY DEF InRange
    <3> HIDE DEF of, times
    <3>4. \A e \in Rows(data_access) : ~(e \in of(a, b) /\ e \in of(b, c))
      BY <2>3, <3>1, <3>2
    <3>5. \A e \in Rows(data_access) : e \in of(a, c) <=> e \in of(a, b) \/ e \in of(b, c)
      BY <2>3, <2>4, <3>1, <3>2
    <3>6. QED
      BY <3>3, <3>4, <3>5
  <2>5. QED
    BY <2>4 DEF RangesPartition
<1>2. QED
  BY <1>1, Invariants, PTL DEF Inv

LEMMA KeysAreFinite == IsFiniteSet(0..6) /\ IsFiniteSet(0..23)
<1>1. \A n \in Nat : IsFiniteSet(0..n)
  BY FS_Interval
<1>2. QED
  BY <1>1

\* All bars together have the time of the entries of the chart.
LEMMA BarsAddUp ==
    ASSUME NEW d, BarChart(d)
    PROVE  SumFunction([k \in DOMAIN d.bars |-> d.bars[k].first]) = Total(d.entries)
<1> DEFINE E == d.entries
           f == [k \in DOMAIN d.bars |-> d.bars[k].first]
<1>1. E \in SUBSET Entries
  BY DEF BarChart
<1>2. SumFunction(f) = SumFunctionOnSet(f, DOMAIN d.bars)
  BY DEF SumFunction
<1>3. CASE d.kind = "weekday"
  <2> DEFINE key == [e \in E |-> tm_wday(e.day)]
  <2>1. d.bars = WeekdayGroup(E)
    BY <1>3 DEF BarChart
  <2>2. DOMAIN d.bars = 0..6
    BY <2>1 DEF WeekdayGroup, OfGroup
  <2>3. ASSUME NEW k \in 0..6 PROVE f[k] = Total({e \in E : key[e] = k})
    <3>1. f[k] = Total({e \in E : tm_wday(e.day) = k})
      BY <2>1, <2>2 DEF WeekdayGroup, OfGroup, process_entries
    <3>2. {e \in E : tm_wday(e.day) = k} = {e \in E : key[e] = k}
      OBVIOUS
    <3>3. QED
      BY <3>1, <3>2
  <2> DEFINE K == 0..6
  <2>4. IsFiniteSet(K)
    BY KeysAreFinite
  <2>5. \A e \in E : key[e] \in K
    BY <1>1, StartIsInt
  <2>6. \A k \in K : f[k] = Total({e \in E : key[e] = k})
    BY <2>3
  <2> HIDE DEF E, f, key, K
  <2>7. Total(E) = SumFunctionOnSet(f, K)
    BY <1>1, <2>4, <2>5, <2>6, TotalGrouped
  <2>8. QED
    BY <1>2, <2>2, <2>7 DEF E, f, K
<1>4. CASE d.kind = "hour"
  <2> DEFINE key == [e \in E |-> e.hour]
  <2>1. d.bars = HourGroup(E)
    BY <1>4 DEF BarChart
  <2>2. DOMAIN d.bars = 0..23
    BY <2>1 DEF HourGroup, OfGroup
  <2>3. ASSUME NEW k \in 0..23 PROVE f[k] = Total({e \in E : key[e] = k})
    <3>1. f[k] = Total({e \in E : e.hour = k})
      BY <2>1, <2>2 DEF HourGroup, OfGroup, process_entries
    <3>2. {e \in E : e.hour = k} = {e \in E : key[e] = k}
      OBVIOUS
    <3>3. QED
      BY <3>1, <3>2
  <2> DEFINE K == 0..23
  <2>4. IsFiniteSet(K)
    BY KeysAreFinite
  <2>5. \A e \in E : key[e] \in K
    BY <1>1, EntryType
  <2>6. \A k \in K : f[k] = Total({e \in E : key[e] = k})
    BY <2>3
  <2> HIDE DEF E, f, key, K
  <2>7. Total(E) = SumFunctionOnSet(f, K)
    BY <1>1, <2>4, <2>5, <2>6, TotalGrouped
  <2>8. QED
    BY <1>2, <2>2, <2>7 DEF E, f, K
<1>5. QED
  BY <1>3, <1>4 DEF BarChart

\* A chart that is opened on entries read again shows the time of the window,
\* when nothing changed in between and the view is by range
\* (analyzercontroller.cc:174-194, datacontainer.h:97-112): though the chart
\* filters entries and the window rows, and each groups in its own way.
THEOREM ChartsAgree == Spec => ChartsShowTheView
<1>1. ASSUME Inv, [Next]_vars PROVE OpensOnTheView
  <2> DEFINE current == InRange(Rows(data_access), data_range)
             sum == IF dialog'.kind = "pie" THEN Sum(Everything(dialog'.container))
                    ELSE SumFunction([k \in DOMAIN dialog'.bars |-> dialog'.bars[k].first])
  <2>1. SUFFICES ASSUME dialog = NoDialog, dialog' # NoDialog, shown.entries = current,
                        dialog'.read = current
                 PROVE  sum = total_time
    BY DEF OpensOnTheView
  <2>2. total_time = Total(Quick(current))
    <3>1. Matching(shown.entries, filter_pattern) = Quick(current)
      BY <2>1 DEF Matching, Quick
    <3>2. total_time = Total(Matching(shown.entries, filter_pattern))
      BY <1>1, TotalShown DEF Inv
    <3>3. QED
      BY <3>1, <3>2
  <2>3. dialog.kind = "none"
    BY <2>1, Kinds
  <2>4. \/ open_weekday_of_chart_dialog \/ open_hour_of_chart_dialog
        \/ \E policy \in Policies : open_drilldown_pie_chart(policy)
    <3>1. ~ToggleSeries /\ ~CloseDialog
      BY <2>3 DEF ToggleSeries, CloseDialog
    <3> HIDE DEF current
    <3>2. QED
      BY <1>1, <2>1, <2>3, <3>1, DialogActions
  <2>5. CASE open_weekday_of_chart_dialog \/ open_hour_of_chart_dialog
    <3>1. BarChart(dialog') /\ dialog'.entries = Quick(dialog'.read)
      BY <1>1, <2>5, BarsOpen DEF Inv
    <3>2. dialog'.kind # "pie"
      BY <3>1, Kinds
    <3>3. sum = Total(dialog'.entries)
      BY <3>1, <3>2, BarsAddUp
    <3> HIDE DEF current, sum
    <3>4. QED
      BY <2>1, <2>2, <3>1, <3>3
  <2>6. ASSUME NEW policy \in Policies, open_drilldown_pie_chart(policy)
        PROVE  sum = total_time
    <3>1. /\ PieChartOf(dialog')
          /\ dialog'.container = ProcNameGroup(Quick(dialog'.read))
          /\ dialog'.read \subseteq Entries
      BY <1>1, <2>6, PieOpens DEF Inv
    <3>2. dialog'.kind = "pie"
      BY <3>1, Kinds
    <3>3. Quick(dialog'.read) \in SUBSET Entries
      BY <3>1 DEF Quick
    <3>4. Sum(Everything(dialog'.container)) = Total(Quick(dialog'.read))
      BY <3>1, <3>3, EverythingIsTotal
    <3>5. sum = Sum(Everything(dialog'.container))
      BY <3>2
    <3> HIDE DEF current, sum
    <3>6. QED
      BY <2>1, <2>2, <3>4, <3>5
  <2>7. QED
    BY <2>4, <2>5, <2>6
<1>2. QED
  BY <1>1, Invariants, PTL DEF Spec, ChartsShowTheView

=============================================================================
