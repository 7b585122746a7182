----------------------- MODULE ExpressionParserProofs -----------------------
(***************************************************************************)
(* The parser of filter expressions on every text.  Its operators are      *)
(* recursive functions, so the first section shows what recursion          *)
(* defines; the following ones what each operator computes.                *)
(***************************************************************************)
EXTENDS ExpressionParser, SequenceTheorems, WellFoundedInduction, FiniteSetTheorems, TLAPS

-----------------------------------------------------------------------------
(***************************************************************************)
(* Recursion and induction.                                                *)
(***************************************************************************)

LEMMA Least ==
    ASSUME NEW T, T \subseteq Nat, T # {}
    PROVE  \E n \in T : \A k \in T : n <= k
<1>1. PICK n \in T : \A k \in T : <<k, n>> \notin OpToRel(<, Nat)
  BY WFMin, NatLessThanWellFounded
<1>2. \A k \in T : ~(k < n)
  BY <1>1 DEF OpToRel
<1>3. QED
  BY <1>2

\* What holds of everything of which it holds whenever it holds of all that is
\* smaller.
LEMMA Descent ==
    ASSUME NEW D, NEW size \in [D -> Nat], NEW Good,
           \A d \in D : (\A e \in D : size[e] < size[d] => e \in Good) => d \in Good
    PROVE  D \subseteq Good
<1> DEFINE Sizes == {size[d] : d \in D \ Good}
<1>1. SUFFICES ASSUME D \ Good # {} PROVE FALSE
  OBVIOUS
<1>2. PICK n \in Sizes : \A k \in Sizes : n <= k
  <2>1. Sizes \subseteq Nat /\ Sizes # {}
    BY <1>1
  <2> HIDE DEF Sizes
  <2>2. QED
    BY <2>1, Least
<1>3. PICK d \in D \ Good : n = size[d]
  BY <1>2
<1>4. ASSUME NEW e \in D, size[e] < size[d] PROVE e \in Good
  <2>1. SUFFICES ASSUME e \notin Good PROVE FALSE
    OBVIOUS
  <2>2. size[e] \in Sizes
    BY <2>1
  <2> HIDE DEF Sizes
  <2>3. n <= size[e] /\ size[e] \in Nat /\ n \in Nat
    BY <1>2, <1>3, <2>2
  <2>4. QED
    BY <1>3, <1>4, <2>3
<1>5. QED
  BY <1>3, <1>4

\* The same for sequences, by their length.
LEMMA ShorterFirst ==
    ASSUME NEW S, NEW Good,
           \A s \in Seq(S) : (\A t \in Seq(S) : Len(t) < Len(s) => t \in Good) => s \in Good
    PROVE  Seq(S) \subseteq Good
<1> DEFINE D == Seq(S)
           size == [s \in D |-> Len(s)]
<1>1. size \in [D -> Nat]
  BY LenProperties
<1>2. \A s \in D : size[s] = Len(s)
  OBVIOUS
<1>3. \A s \in D : (\A t \in D : Len(t) < Len(s) => t \in Good) => s \in Good
  OBVIOUS
<1> HIDE DEF size, D
<1>4. \A s \in D : (\A t \in D : size[t] < size[s] => t \in Good) => s \in Good
  BY <1>2, <1>3
<1>5. D \subseteq Good
  BY <1>1, <1>4, Descent
<1>6. QED
  BY <1>5 DEF D

\* A recursive definition, as what it makes of a function; its value at d
\* depends only on the values at what is smaller than d.
Recursion(Phi, D, V, size) ==
    /\ V # {} /\ size \in [D -> Nat]
    /\ Phi \in [[D -> V] -> [D -> V]]
    /\ \A f, g \in [D -> V] : \A d \in D :
         (\A e \in D : size[e] < size[d] => f[e] = g[e]) => Phi[f][d] = Phi[g][d]

\* It has a solution.
Solvable(Phi, D, V) == \E f \in [D -> V] : Phi[f] = f

LEMMA FixedPoint ==
    ASSUME NEW D, NEW V, NEW size, NEW Phi, Recursion(Phi, D, V, size)
    PROVE  Solvable(Phi, D, V)
<1>0. V # {} /\ size \in [D -> Nat]
  BY DEF Recursion
<1> USE <1>0 DEF Recursion
<1> DEFINE Solves(f, n) == f \in [D -> V] /\ \A d \in D : size[d] < n => Phi[f][d] = f[d]
<1>1. \A f, n : Solves(f, n) <=> f \in [D -> V] /\ \A d \in D : size[d] < n => Phi[f][d] = f[d]
  OBVIOUS
<1> HIDE DEF Solves
<1>2. \A n \in Nat : \E f : Solves(f, n)
  <2> DEFINE Good == {n \in Nat : \E f : Solves(f, n)}
             size0 == [n \in Nat |-> n]
  <2>1. 0 \in Good
    <3>1. PICK v \in V : TRUE
      OBVIOUS
    <3>2. Solves([d \in D |-> v], 0)
      BY <1>1
    <3>3. QED
      BY <3>2
  <2>2. ASSUME NEW n \in Nat, n \in Good PROVE n + 1 \in Good
    <3>1. PICK f : Solves(f, n)
      BY <2>2
    <3>2. f \in [D -> V] /\ \A d \in D : size[d] < n => Phi[f][d] = f[d]
      BY <1>1, <3>1
    <3>3. Phi[f] \in [D -> V]
      BY <3>2
    <3>4. ASSUME NEW d \in D, size[d] < n + 1 PROVE Phi[Phi[f]][d] = Phi[f][d]
      <4>1. \A e \in D : size[e] < size[d] => Phi[f][e] = f[e]
        BY <3>2, <3>4
      <4>2. QED
        BY <3>2, <3>3, <4>1
    <3>5. Solves(Phi[f], n + 1)
      BY <1>1, <3>3, <3>4
    <3>6. QED
      BY <3>5
  <2>3. ASSUME NEW n \in Nat, \A k \in Nat : size0[k] < size0[n] => k \in Good
        PROVE  n \in Good
    <3>1. CASE n = 0
      BY <2>1, <3>1
    <3>2. CASE n # 0
      <4>1. n - 1 \in Nat /\ n - 1 \in Good /\ n - 1 + 1 = n
        BY <2>3, <3>2
      <4> HIDE DEF Good
      <4>2. QED
        BY <2>2, <4>1
    <3>3. QED
      BY <3>1, <3>2
  <2>4. Nat \subseteq Good
    <3>1. size0 \in [Nat -> Nat]
      OBVIOUS
    <3> HIDE DEF Good, size0
    <3>2. QED
      BY <2>3, <3>1, Descent
  <2>5. QED
    BY <2>4
<1>3. ASSUME NEW f, NEW g, NEW n, NEW k, Solves(f, n), Solves(g, k), n \in Nat, k \in Nat
      PROVE  \A d \in D : size[d] < n /\ size[d] < k => f[d] = g[d]
  <2> DEFINE Good == {d \in D : size[d] < n /\ size[d] < k => f[d] = g[d]}
  <2>1. ASSUME NEW d \in D, \A e \in D : size[e] < size[d] => e \in Good
        PROVE  d \in Good
    <3>1. SUFFICES ASSUME size[d] < n, size[d] < k PROVE f[d] = g[d]
      OBVIOUS
    <3>2. \A e \in D : size[e] < size[d] => f[e] = g[e]
      BY <1>3, <2>1, <3>1
    <3>3. Phi[f][d] = Phi[g][d]
      BY <1>1, <1>3, <3>2
    <3>4. QED
      BY <1>1, <1>3, <3>1, <3>3
  <2>2. D \subseteq Good
    <3> HIDE DEF Good
    <3>1. QED
      BY <2>1, Descent
  <2>3. QED
    BY <2>2
<1> DEFINE upto(d) == CHOOSE f : Solves(f, size[d] + 1)
           h == [d \in D |-> upto(d)[d]]
<1>4. \A d \in D : Solves(upto(d), size[d] + 1)
  <2>1. \A d \in D : size[d] + 1 \in Nat
    OBVIOUS
  <2>2. QED
    BY <1>2, <2>1
<1>5. \A d \in D : upto(d) \in [D -> V] /\ Phi[upto(d)][d] = upto(d)[d]
  <2> HIDE DEF upto
  <2>1. \A d \in D : size[d] \in Nat /\ size[d] < size[d] + 1
    OBVIOUS
  <2>2. QED
    BY <1>1, <1>4, <2>1
<1>6. h \in [D -> V]
  <2> HIDE DEF upto
  <2>1. QED
    BY <1>5
<1>7. ASSUME NEW d \in D PROVE Phi[h][d] = h[d]
  <2> HIDE DEF upto
  <2>1. ASSUME NEW e \in D, size[e] < size[d] PROVE h[e] = upto(d)[e]
    <3>1. /\ size[e] + 1 \in Nat /\ size[d] + 1 \in Nat
          /\ size[e] < size[e] + 1 /\ size[e] < size[d] + 1
      BY <2>1
    <3>2. upto(e)[e] = upto(d)[e]
      BY <1>3, <1>4, <3>1
    <3>3. QED
      BY <3>2
  <2>2. Phi[h][d] = Phi[upto(d)][d]
    <3> HIDE DEF h
    <3>1. QED
      BY <1>5, <1>6, <2>1
  <2>3. QED
    BY <1>5, <2>2
<1>8. Phi[h] = h
  <2> HIDE DEF h
  <2>1. Phi[h] \in [D -> V]
    BY <1>6
  <2>2. QED
    BY <1>6, <1>7, <2>1
<1>9. QED
  <2> HIDE DEF h
  <2>1. QED
    BY <1>6, <1>8 DEF Solvable

\* A recursive definition on sequences, whose value depends on its values at
\* shorter ones.
SeqRecursion(Phi, S, V) ==
    /\ V # {}
    /\ Phi \in [[Seq(S) -> V] -> [Seq(S) -> V]]
    /\ \A f, g \in [Seq(S) -> V] : \A s \in Seq(S) :
         (\A t \in Seq(S) : Len(t) < Len(s) => f[t] = g[t]) => Phi[f][s] = Phi[g][s]

LEMMA SeqFixedPoint ==
    ASSUME NEW S, NEW V, NEW Phi, SeqRecursion(Phi, S, V)
    PROVE  Solvable(Phi, Seq(S), V)
<1> DEFINE D == Seq(S)
           size == [s \in D |-> Len(s)]
<1>1. size \in [D -> Nat]
  BY LenProperties
<1>2. \A s \in D : size[s] = Len(s)
  OBVIOUS
<1>3. ASSUME NEW f \in [D -> V], NEW g \in [D -> V], NEW s \in D,
             \A t \in D : size[t] < size[s] => f[t] = g[t]
      PROVE  Phi[f][s] = Phi[g][s]
  <2>1. \A t \in D : Len(t) < Len(s) => f[t] = g[t]
    BY <1>2, <1>3
  <2>2. QED
    BY <2>1 DEF SeqRecursion
<1>4. V # {} /\ Phi \in [[D -> V] -> [D -> V]]
  BY DEF SeqRecursion
<1> HIDE DEF size, D
<1>5. Recursion(Phi, D, V, size)
  BY <1>1, <1>3, <1>4 DEF Recursion
<1>6. Solvable(Phi, D, V)
  BY <1>5, FixedPoint
<1>7. QED
  BY <1>6 DEF D

-----------------------------------------------------------------------------
(***************************************************************************)
(* The tokens of a kind.                                                   *)
(***************************************************************************)

OnlyStep(kind, f) ==
    [r \in Seq(Tokens) |->
        IF r = << >> THEN << >>
        ELSE IF Head(r) \in kind THEN <<Head(r)>> \o f[Tail(r)] ELSE f[Tail(r)]]

LEMMA TailIsShorter ==
    ASSUME NEW S, NEW s \in Seq(S), s # << >>
    PROVE  Head(s) \in S /\ Tail(s) \in Seq(S) /\ Len(Tail(s)) < Len(s) /\ Len(s) \in Nat
           /\ s = <<Head(s)>> \o Tail(s)
BY HeadTailProperties, LenProperties

LEMMA OnlyUnfolds ==
    ASSUME NEW kind
    PROVE  \A s \in Seq(Tokens) :
             /\ Only(kind, s) \in Seq(Tokens)
             /\ Only(kind, s) =
                  IF s = << >> THEN << >>
                  ELSE IF Head(s) \in kind THEN <<Head(s)>> \o Only(kind, Tail(s))
                  ELSE Only(kind, Tail(s))
<1> DEFINE D == Seq(Tokens)
           only == CHOOSE f : f = OnlyStep(kind, f)
           Phi == [f \in [D -> D] |-> OnlyStep(kind, f)]
<1>1. \A s : Only(kind, s) = only[s]
  BY DEF Only, OnlyStep
<1>2. ASSUME NEW f, NEW s \in D, s # << >> => f[Tail(s)] \in D
      PROVE  OnlyStep(kind, f)[s] \in D
  BY <1>2, TailIsShorter DEF OnlyStep
<1>3. Phi \in [[D -> D] -> [D -> D]]
  <2>1. ASSUME NEW f \in [D -> D] PROVE OnlyStep(kind, f) \in [D -> D]
    <3>1. \A s \in D : OnlyStep(kind, f)[s] \in D
      BY <1>2, TailIsShorter
    <3>2. QED
      BY <3>1 DEF OnlyStep
  <2>2. QED
    BY <2>1
<1>4. \A f, g \in [D -> D] : \A s \in D :
        (\A t \in D : Len(t) < Len(s) => f[t] = g[t]) => Phi[f][s] = Phi[g][s]
  BY TailIsShorter DEF OnlyStep
<1>5. \E f \in [D -> D] : Phi[f] = f
  <2> HIDE DEF Phi
  <2>1. Seq(Tokens) # {}
    BY EmptySeq
  <2>2. SeqRecursion(Phi, Tokens, Seq(Tokens))
    BY <1>3, <1>4, <2>1 DEF SeqRecursion
  <2>3. QED
    BY <2>2, SeqFixedPoint DEF Solvable
<1>6. only = OnlyStep(kind, only)
  <2>1. \E f : f = OnlyStep(kind, f)
    BY <1>5
  <2>2. QED
    BY <2>1
<1>7. \A s \in D : only[s] \in D
  <2> DEFINE Good == {s \in D : only[s] \in D}
  <2>1. ASSUME NEW s \in D, \A t \in D : Len(t) < Len(s) => t \in Good
        PROVE  s \in Good
    <3> HIDE DEF only
    <3>1. s # << >> => only[Tail(s)] \in D
      BY <2>1, TailIsShorter
    <3>2. QED
      BY <1>2, <1>6, <3>1
  <2>2. D \subseteq Good
    <3> HIDE DEF Good
    <3>1. QED
      BY <2>1, ShorterFirst
  <2>3. QED
    BY <2>2
<1>8. \A s \in D : only[s] = OnlyStep(kind, only)[s]
  BY <1>6
<1>9. QED
  <2> HIDE DEF only
  <2>1. QED
    BY <1>1, <1>7, <1>8 DEF OnlyStep

LEMMA OnlyCases ==
    ASSUME NEW kind, NEW s \in Seq(Tokens), s # << >>
    PROVE  /\ Head(s) \in kind => Only(kind, s) = <<Head(s)>> \o Only(kind, Tail(s))
           /\ Head(s) \notin kind => Only(kind, s) = Only(kind, Tail(s))
BY OnlyUnfolds

LEMMA OnlyOfNone ==
    ASSUME NEW kind
    PROVE  << >> \in Seq(Tokens) /\ Only(kind, << >>) = << >>
<1>1. << >> \in Seq(Tokens)
  BY EmptySeq
<1>2. QED
  BY <1>1, OnlyUnfolds

LEMMA HeadOfConcat ==
    ASSUME NEW S, NEW s \in Seq(S), NEW t \in Seq(S), s # << >>
    PROVE  /\ s \o t \in Seq(S) /\ s \o t # << >>
           /\ Head(s \o t) = Head(s)
           /\ Tail(s \o t) = Tail(s) \o t
<1>1. s = <<Head(s)>> \o Tail(s) /\ Head(s) \in S /\ Tail(s) \in Seq(S)
  BY TailIsShorter
<1> DEFINE h == Head(s)
           u == Tail(s)
<1>2. s \o t = <<h>> \o (u \o t) /\ u \o t \in Seq(S)
  BY <1>1
<1> HIDE DEF h, u
<1>3. Head(<<h>> \o (u \o t)) = h /\ Tail(<<h>> \o (u \o t)) = u \o t
  BY <1>2
<1>4. QED
  BY <1>1, <1>2, <1>3 DEF h, u

LEMMA OnlyConcat ==
    ASSUME NEW kind, NEW t \in Seq(Tokens)
    PROVE  \A s \in Seq(Tokens) : Only(kind, s \o t) = Only(kind, s) \o Only(kind, t)
<1> DEFINE Good == {s \in Seq(Tokens) : Only(kind, s \o t) = Only(kind, s) \o Only(kind, t)}
<1>1. ASSUME NEW s \in Seq(Tokens), \A u \in Seq(Tokens) : Len(u) < Len(s) => u \in Good
      PROVE  s \in Good
  <2>1. CASE s = << >>
    <3> DEFINE b == Only(kind, t)
    <3>1. s \o t = t /\ Only(kind, s) = << >> /\ b \in Seq(Tokens)
      BY <2>1, OnlyUnfolds, OnlyOfNone, ConcatEmptySeq
    <3>2. << >> \o b = b
      BY <3>1, ConcatEmptySeq
    <3>3. QED
      BY <3>1, <3>2
  <2>2. CASE s # << >>
    <3> DEFINE u == Tail(s)
               a == Only(kind, u)
               b == Only(kind, t)
    <3>1. u \in Seq(Tokens) /\ u \in Good /\ Head(s) \in Tokens
      BY <1>1, <2>2, TailIsShorter
    <3>2. Only(kind, u \o t) = a \o b
      BY <3>1
    <3>3. /\ s \o t \in Seq(Tokens) /\ s \o t # << >>
          /\ Head(s \o t) = Head(s) /\ Tail(s \o t) = u \o t
      BY <2>2, HeadOfConcat
    <3>4. a \in Seq(Tokens) /\ b \in Seq(Tokens)
      BY <3>1, OnlyUnfolds
    <3>5. /\ Head(s) \in kind => Only(kind, s) = <<Head(s)>> \o a
          /\ Head(s) \notin kind => Only(kind, s) = a
      BY <2>2, OnlyCases
    <3> DEFINE v == s \o t
    <3>6. /\ Head(s) \in kind => Only(kind, v) = <<Head(s)>> \o (a \o b)
          /\ Head(s) \notin kind => Only(kind, v) = a \o b
      <4>1. v \in Seq(Tokens) /\ v # << >> /\ Head(v) = Head(s) /\ Only(kind, Tail(v)) = a \o b
        BY <3>2, <3>3
      <4> HIDE DEF v, a, b
      <4>2. QED
        BY <4>1, OnlyCases
    <3> HIDE DEF u, a, b
    <3>7. (<<Head(s)>> \o a) \o b = <<Head(s)>> \o (a \o b)
      BY <3>1, <3>4
    <3>8. QED
      BY <3>5, <3>6, <3>7 DEF b
  <2>3. QED
    BY <2>1, <2>2
<1>2. Seq(Tokens) \subseteq Good
  <2> HIDE DEF Good
  <2>1. QED
    BY <1>1, ShorterFirst
<1>3. QED
  BY <1>2

LEMMA OnlyOne ==
    ASSUME NEW kind, NEW t \in Tokens
    PROVE  /\ Only(kind, << >>) = << >>
           /\ Only(kind, <<t>>) = IF t \in kind THEN <<t>> ELSE << >>
<1> DEFINE s == <<t>>
<1>1. s \in Seq(Tokens) /\ s # << >> /\ Head(s) = t /\ Tail(s) = << >>
  OBVIOUS
<1>2. s \o << >> = s
  BY <1>1, ConcatEmptySeq
<1> HIDE DEF s
<1>3. /\ t \in kind => Only(kind, s) = <<t>> \o << >>
      /\ t \notin kind => Only(kind, s) = << >>
  BY <1>1, OnlyOfNone, OnlyCases
<1>4. QED
  BY <1>2, <1>3, OnlyOfNone DEF s

\* Occurrences add up.
LEMMA Occur ==
    ASSUME NEW kind
    PROVE  /\ Occurrences(kind, << >>) = 0
           /\ \A t \in Tokens : Occurrences(kind, <<t>>) = IF t \in kind THEN 1 ELSE 0
           /\ \A s \in Seq(Tokens) : Occurrences(kind, s) \in Nat
           /\ \A s, t \in Seq(Tokens) :
                Occurrences(kind, s \o t) = Occurrences(kind, s) + Occurrences(kind, t)
<1>1. Only(kind, << >>) = << >>
  BY OnlyOfNone
<1>2. ASSUME NEW t \in Tokens
      PROVE  Occurrences(kind, <<t>>) = IF t \in kind THEN 1 ELSE 0
  <2>1. Only(kind, <<t>>) = IF t \in kind THEN <<t>> ELSE << >>
    BY OnlyOne
  <2>2. Len(<<t>>) = 1 /\ Len(<< >>) = 0
    OBVIOUS
  <2>3. QED
    BY <2>1, <2>2 DEF Occurrences
<1>3. \A s \in Seq(Tokens) : Only(kind, s) \in Seq(Tokens)
  BY OnlyUnfolds
<1>4. \A s \in Seq(Tokens) : Occurrences(kind, s) \in Nat
  BY <1>3, LenProperties DEF Occurrences
<1>5. ASSUME NEW s \in Seq(Tokens), NEW t \in Seq(Tokens)
      PROVE  Occurrences(kind, s \o t) = Occurrences(kind, s) + Occurrences(kind, t)
  <2> DEFINE a == Only(kind, s)
             b == Only(kind, t)
  <2>1. Only(kind, s \o t) = a \o b
    BY OnlyConcat
  <2>2. a \in Seq(Tokens) /\ b \in Seq(Tokens)
    BY <1>3
  <2> HIDE DEF a, b
  <2>3. Len(a \o b) = Len(a) + Len(b)
    BY <2>2, ConcatProperties
  <2>4. QED
    BY <2>1, <2>3 DEF a, b, Occurrences
<1>6. QED
  BY <1>1, <1>2, <1>4, <1>5 DEF Occurrences

-----------------------------------------------------------------------------
(***************************************************************************)
(* FlattenSeq.                                                             *)
(***************************************************************************)

FlattenStep(s, f) == [i \in 1..Len(s) |-> IF i = 1 THEN s[i] ELSE f[i - 1] \o s[i]]

LEMMA FlattenUnfolds ==
    ASSUME NEW T, NEW s \in Seq(Seq(T)), s # << >>
    PROVE  \E f \in [1..Len(s) -> Seq(T)] : f = FlattenStep(s, f) /\ FlattenSeq(s) = f[Len(s)]
<1> DEFINE D == 1..Len(s)
           flatten == CHOOSE f : f = FlattenStep(s, f)
           Phi == [f \in [D -> Seq(T)] |-> FlattenStep(s, f)]
           size == [i \in D |-> i]
<1>1. Len(s) \in Nat /\ Len(s) # 0 /\ \A i \in D : s[i] \in Seq(T)
  BY EmptySeq, LenProperties
<1>2. FlattenSeq(s) = flatten[Len(s)]
  BY <1>1 DEF FlattenSeq, FlattenStep
<1>3. ASSUME NEW f, \A i \in D : i # 1 => f[i - 1] \in Seq(T)
      PROVE  FlattenStep(s, f) \in [D -> Seq(T)]
  <2>1. \A i \in D : i # 1 => f[i - 1] \o s[i] \in Seq(T)
    BY <1>1, <1>3, ConcatProperties
  <2>2. QED
    BY <1>1, <2>1 DEF FlattenStep
<1>4. Phi \in [[D -> Seq(T)] -> [D -> Seq(T)]]
  <2>1. ASSUME NEW f \in [D -> Seq(T)] PROVE FlattenStep(s, f) \in [D -> Seq(T)]
    <3>1. \A i \in D : i # 1 => i - 1 \in D
      BY <1>1
    <3>2. QED
      BY <1>3, <3>1
  <2>2. QED
    BY <2>1
<1>5. ASSUME NEW f \in [D -> Seq(T)], NEW g \in [D -> Seq(T)], NEW i \in D,
             \A j \in D : size[j] < size[i] => f[j] = g[j]
      PROVE  Phi[f][i] = Phi[g][i]
  <2>1. i # 1 => f[i - 1] = g[i - 1]
    BY <1>1, <1>5
  <2>2. QED
    BY <2>1 DEF FlattenStep
<1>6. \E f \in [D -> Seq(T)] : Phi[f] = f
  <2> DEFINE V == Seq(T)
  <2>1. size \in [D -> Nat]
    OBVIOUS
  <2>2. V # {}
    BY EmptySeq
  <2>3. Phi \in [[D -> V] -> [D -> V]]
    BY <1>4
  <2> HIDE DEF Phi, size, D
  <2>4. Recursion(Phi, D, V, size)
    BY <1>5, <2>1, <2>2, <2>3 DEF Recursion
  <2> HIDE DEF V
  <2>5. Solvable(Phi, D, V)
    BY <2>4, FixedPoint
  <2>6. QED
    BY <2>5 DEF V, Solvable
<1>7. flatten = FlattenStep(s, flatten)
  <2>1. \E f : f = FlattenStep(s, f)
    BY <1>6
  <2>2. QED
    BY <2>1
<1>8. \A i \in D : flatten[i] \in Seq(T)
  <2> HIDE DEF flatten
  <2> DEFINE Good == {i \in D : flatten[i] \in Seq(T)}
  <2>1. ASSUME NEW i \in D, \A j \in D : size[j] < size[i] => j \in Good
        PROVE  i \in Good
    <3>1. CASE i = 1
      <4>1. flatten[i] = s[i]
        BY <1>7, <3>1 DEF FlattenStep
      <4>2. QED
        BY <1>1, <4>1
    <3>2. CASE i # 1
      <4>1. i - 1 \in Good
        BY <1>1, <2>1, <3>2
      <4>2. flatten[i] = flatten[i - 1] \o s[i]
        BY <1>7, <3>2 DEF FlattenStep
      <4>3. QED
        BY <1>1, <4>1, <4>2, ConcatProperties
    <3>3. QED
      BY <3>1, <3>2
  <2>2. size \in [D -> Nat]
    BY <1>1
  <2>3. D \subseteq Good
    <3> HIDE DEF Good, size, D
    <3>1. QED
      BY <2>1, <2>2, Descent
  <2>4. QED
    BY <2>3
<1>9. flatten \in [D -> Seq(T)]
  <2> HIDE DEF flatten
  <2>1. QED
    BY <1>7, <1>8 DEF FlattenStep
<1>10. QED
  <2> HIDE DEF flatten
  <2>1. QED
    BY <1>2, <1>7, <1>9

LEMMA Flatten ==
    ASSUME NEW T
    PROVE  /\ FlattenSeq(<< >>) = << >>
           /\ \A s \in Seq(Seq(T)) : FlattenSeq(s) \in Seq(T)
           /\ \A s \in Seq(Seq(T)), x \in Seq(T) :
                FlattenSeq(Append(s, x)) = FlattenSeq(s) \o x
<1>1. FlattenSeq(<< >>) = << >>
  BY DEF FlattenSeq
<1>2. ASSUME NEW s \in Seq(Seq(T)) PROVE FlattenSeq(s) \in Seq(T)
  <2>1. CASE s = << >>
    BY <1>1, <2>1, EmptySeq
  <2>2. CASE s # << >>
    <3>1. PICK f \in [1..Len(s) -> Seq(T)] : FlattenSeq(s) = f[Len(s)]
      BY <2>2, FlattenUnfolds
    <3>2. Len(s) \in 1..Len(s)
      BY <2>2, EmptySeq
    <3>3. QED
      BY <3>1, <3>2
  <2>3. QED
    BY <2>1, <2>2
<1>3. ASSUME NEW s \in Seq(Seq(T)), NEW x \in Seq(T)
      PROVE  FlattenSeq(Append(s, x)) = FlattenSeq(s) \o x
  <2> DEFINE t == Append(s, x)
             n == Len(s)
  <2>1. /\ t \in Seq(Seq(T)) /\ t # << >> /\ Len(t) = n + 1 /\ n \in Nat
        /\ t[n + 1] = x /\ \A i \in 1..n : t[i] = s[i]
    BY AppendProperties, LenProperties
  <2>0. n = Len(s)
    OBVIOUS
  <2> HIDE DEF t, n
  <2>2. PICK g \in [1..Len(t) -> Seq(T)] : g = FlattenStep(t, g) /\ FlattenSeq(t) = g[Len(t)]
    BY <2>1, FlattenUnfolds
  <2>3. \A i \in 1..n + 1 : g[i] = IF i = 1 THEN t[i] ELSE g[i - 1] \o t[i]
    BY <2>1, <2>2 DEF FlattenStep
  <2>4. CASE s = << >>
    <3>1. n = 0
      BY <2>0, <2>4
    <3>2. FlattenSeq(t) = x
      BY <2>1, <2>2, <2>3, <3>1
    <3>3. FlattenSeq(s) \o x = x
      BY <1>1, <2>4, ConcatEmptySeq
    <3>4. QED
      BY <3>2, <3>3 DEF t
  <2>5. CASE s # << >>
    <3>1. PICK f \in [1..Len(s) -> Seq(T)] : f = FlattenStep(s, f) /\ FlattenSeq(s) = f[Len(s)]
      BY <2>5, FlattenUnfolds
    <3>2. \A i \in 1..n : f[i] = IF i = 1 THEN s[i] ELSE f[i - 1] \o s[i]
      BY <2>0, <3>1 DEF FlattenStep
    <3> DEFINE size == [i \in 1..n |-> i]
               Good == {i \in 1..n : f[i] = g[i]}
    <3>3. ASSUME NEW i \in 1..n, \A j \in 1..n : size[j] < size[i] => j \in Good
          PROVE  i \in Good
      <4>1. CASE i = 1
        BY <2>1, <2>3, <3>2, <4>1
      <4>2. CASE i # 1
        <5>1. i - 1 \in 1..n /\ i - 1 < i
          BY <2>1, <4>2
        <5>2. i - 1 \in Good
          BY <3>3, <5>1
        <5>3. f[i] = f[i - 1] \o s[i]
          BY <3>2, <4>2
        <5>4. g[i] = g[i - 1] \o t[i]
          <6>1. i \in 1..n + 1
            BY <2>1
          <6>2. QED
            BY <2>3, <4>2, <6>1
        <5>5. QED
          BY <2>1, <5>2, <5>3, <5>4
      <4>3. QED
        BY <4>1, <4>2
    <3>4. 1..n \subseteq Good
      <4>1. size \in [1..n -> Nat]
        BY <2>1
      <4> DEFINE D == 1..n
      <4>2. \A i \in D : (\A j \in D : size[j] < size[i] => j \in Good) => i \in Good
        BY <3>3
      <4>3. size \in [D -> Nat]
        BY <4>1
      <4> HIDE DEF size, Good, D
      <4>5. D \subseteq Good
        BY <4>2, <4>3, Descent
      <4>4. QED
        BY <4>5 DEF D
    <3>5. n \in 1..n /\ n # 0
      BY <2>0, <2>5, EmptySeq
    <3>6. g[n] = FlattenSeq(s)
      BY <2>0, <3>1, <3>4, <3>5
    <3>7. g[n + 1] = g[n] \o x
      <4> DEFINE k == n + 1
      <4>1. k \in 1..k /\ k # 1 /\ k - 1 = n
        BY <2>1, <3>5
      <4>2. g[k] = g[k - 1] \o t[k]
        BY <2>3, <4>1
      <4> HIDE DEF k
      <4>3. g[k] = g[n] \o t[k]
        BY <4>1, <4>2
      <4>4. QED
        BY <2>1, <4>3 DEF k
    <3>8. QED
      BY <2>1, <2>2, <3>6, <3>7 DEF t
  <2>6. QED
    BY <2>4, <2>5
<1>4. QED
  BY <1>1, <1>2, <1>3

-----------------------------------------------------------------------------
(***************************************************************************)
(* The tokenizer gives tokens.                                             *)
(***************************************************************************)

DigitList == <<"0", "1", "2", "3", "4", "5", "6", "7", "8", "9">>

LEMMA DigitIn ==
    /\ \A c \in Digits : \E n \in 0..9 : DigitList[n + 1] = c
    /\ \A n \in 0..9 : DigitList[n + 1] \in Digits
<1>1. /\ DigitList[0 + 1] = "0" /\ DigitList[1 + 1] = "1" /\ DigitList[2 + 1] = "2"
      /\ DigitList[3 + 1] = "3" /\ DigitList[4 + 1] = "4" /\ DigitList[5 + 1] = "5"
      /\ DigitList[6 + 1] = "6" /\ DigitList[7 + 1] = "7" /\ DigitList[8 + 1] = "8"
      /\ DigitList[9 + 1] = "9"
  BY DEF DigitList
<1>2. 0..9 = {0, 1, 2, 3, 4, 5, 6, 7, 8, 9}
  OBVIOUS
<1>3. QED
  BY <1>1, <1>2 DEF Digits

LEMMA DigitValues ==
    /\ \A c \in Digits : DigitValue[c] \in 0..9 /\ DigitList[DigitValue[c] + 1] = c
    /\ \A n \in 0..9 : \E c \in Digits : DigitValue[c] = n
<1>1. ASSUME NEW c \in Digits
      PROVE  DigitValue[c] \in 0..9 /\ DigitList[DigitValue[c] + 1] = c
  <2>1. DigitValue[c] = CHOOSE n \in 0..9 : DigitList[n + 1] = c
    BY DEF DigitValue, DigitList
  <2>2. QED
    BY <2>1, DigitIn
<1>2. \A m, n \in 0..9 : DigitList[m + 1] = DigitList[n + 1] => m = n
  BY DEF DigitList
<1>3. QED
  BY <1>1, <1>2, DigitIn

LEMMA DecimalType == \A n \in 0..99 : Decimal(n) \in Seq(Characters)
<1> DEFINE digit(k) == CHOOSE c \in Digits : DigitValue[c] = k
<1>1. \A k \in 0..9 : digit(k) \in Characters
  <2>1. \A k \in 0..9 : digit(k) \in Digits
    BY DigitValues
  <2>2. Digits \subseteq Characters
    BY CharactersAssumption DEF Alnum
  <2> HIDE DEF digit
  <2>3. QED
    BY <2>1, <2>2
<1>0. \A x, y \in Characters : <<x>> \in Seq(Characters) /\ <<x, y>> \in Seq(Characters)
  OBVIOUS
<1>2. ASSUME NEW n \in 0..99 PROVE n \div 10 \in 0..9 /\ n % 10 \in 0..9
  OBVIOUS
<1>3. \A n : Decimal(n) = IF n < 10 THEN <<digit(n)>> ELSE <<digit(n \div 10), digit(n % 10)>>
  BY DEF Decimal
<1> HIDE DEF digit
<1>4. ASSUME NEW n \in 0..99 PROVE Decimal(n) \in Seq(Characters)
  <2>1. CASE n < 10
    <3>1. digit(n) \in Characters /\ Decimal(n) = <<digit(n)>>
      BY <1>1, <1>3, <2>1
    <3>2. QED
      BY <1>0, <3>1
  <2>2. CASE ~(n < 10)
    <3>1. digit(n \div 10) \in Characters /\ digit(n % 10) \in Characters
      BY <1>1, <1>2
    <3>2. Decimal(n) = <<digit(n \div 10), digit(n % 10)>>
      BY <1>3, <2>2
    <3>3. QED
      BY <1>0, <3>1, <3>2
  <2>3. QED
    BY <2>1, <2>2
<1>5. QED
  BY <1>4

LEMMA RunEnds ==
    ASSUME NEW chars \in Seq(Characters), NEW class, NEW i \in 1..Len(chars), chars[i] \in class
    PROVE  /\ RunEnd(chars, i, class) \in i..Len(chars)
           /\ \A k \in i..RunEnd(chars, i, class) : chars[k] \in class
           /\ RunEnd(chars, i, class) < Len(chars) =>
                chars[RunEnd(chars, i, class) + 1] \notin class
<1> DEFINE Stops == {j \in i..Len(chars) : j < Len(chars) => chars[j + 1] \notin class}
<1>0. Len(chars) \in Nat
  BY LenProperties
<1>1. Stops \subseteq Nat /\ Len(chars) \in Stops
  BY <1>0
<1>2. PICK j \in Stops : \A k \in Stops : j <= k
  <2> HIDE DEF Stops
  <2>1. QED
    BY <1>1, Least
<1>3. \A k \in i..j : chars[k] \in class
  <2> SUFFICES ASSUME NEW k \in i..j PROVE chars[k] \in class
    OBVIOUS
  <2>1. CASE k = i
    BY <2>1
  <2>2. CASE k # i
    <3>1. k - 1 \in i..Len(chars) /\ k - 1 < j
      BY <1>0, <1>2, <2>2
    <3>2. k - 1 \notin Stops
      <4>1. k - 1 \in Nat /\ j \in Nat /\ ~(j <= k - 1)
        BY <1>1, <1>2, <3>1
      <4> HIDE DEF Stops
      <4>2. QED
        BY <1>2, <4>1
    <3>3. chars[k - 1 + 1] \in class
      BY <3>1, <3>2
    <3>4. QED
      BY <3>3
  <2>3. QED
    BY <2>1, <2>2
<1>4. \E e \in i..Len(chars) :
        /\ \A k \in i..e : chars[k] \in class
        /\ e < Len(chars) => chars[e + 1] \notin class
  BY <1>2, <1>3
<1>5. QED
  BY <1>4 DEF RunEnd

ValueStep(digits, f) ==
    [i \in 0..Len(digits) |-> IF i = 0 THEN 0 ELSE 10 * f[i - 1] + DigitValue[digits[i]]]

\* The values of the first digits.
Values(digits) == CHOOSE f : f = ValueStep(digits, f)

LEMMA ValueUnfolds ==
    ASSUME NEW digits, Len(digits) \in Nat, \A i \in 1..Len(digits) : digits[i] \in Digits
    PROVE  /\ Value(digits) = Values(digits)[Len(digits)]
           /\ Values(digits) = ValueStep(digits, Values(digits))
           /\ \A i \in 0..Len(digits) : Values(digits)[i] \in Nat
<1> DEFINE n == Len(digits)
           D == 0..n
           value == Values(digits)
           Phi == [f \in [D -> Nat] |-> ValueStep(digits, f)]
           size == [i \in D |-> i]
<1>1. Value(digits) = value[n]
  BY DEF Value, Values, ValueStep
<1>2. \A i \in D : i # 0 => DigitValue[digits[i]] \in Nat /\ i - 1 \in D
  <2>1. \A i \in D : i # 0 => i \in 1..n /\ i - 1 \in D
    OBVIOUS
  <2>2. \A c \in Digits : DigitValue[c] \in Nat
    BY DigitValues
  <2>3. QED
    BY <2>1, <2>2
<1>3. ASSUME NEW f, NEW i \in D, i # 0 => f[i - 1] \in Nat
      PROVE  ValueStep(digits, f)[i] \in Nat
  BY <1>2, <1>3 DEF ValueStep
<1>4. Phi \in [[D -> Nat] -> [D -> Nat]]
  <2>1. ASSUME NEW f \in [D -> Nat] PROVE ValueStep(digits, f) \in [D -> Nat]
    <3>1. \A i \in D : ValueStep(digits, f)[i] \in Nat
      BY <1>2, <1>3
    <3>2. QED
      BY <3>1 DEF ValueStep
  <2>2. QED
    BY <2>1
<1>5. ASSUME NEW f \in [D -> Nat], NEW g \in [D -> Nat], NEW i \in D,
             \A j \in D : size[j] < size[i] => f[j] = g[j]
      PROVE  Phi[f][i] = Phi[g][i]
  <2>1. i # 0 => f[i - 1] = g[i - 1]
    BY <1>2, <1>5
  <2>2. QED
    BY <2>1 DEF ValueStep
<1>6. size \in [D -> Nat]
  OBVIOUS
<1>7. value = ValueStep(digits, value)
  <2>1. Recursion(Phi, D, Nat, size)
    <3> HIDE DEF Phi, size, D
    <3>1. QED
      BY <1>4, <1>5, <1>6 DEF Recursion
  <2>2. Solvable(Phi, D, Nat)
    <3> HIDE DEF Phi, size, D
    <3>1. QED
      BY <2>1, FixedPoint
  <2>3. \E f : f = ValueStep(digits, f)
    BY <2>2 DEF Solvable
  <2>4. QED
    BY <2>3 DEF Values
<1> DEFINE Good == {i \in D : value[i] \in Nat}
<1>8. ASSUME NEW i \in D, \A j \in D : size[j] < size[i] => j \in Good
      PROVE  i \in Good
  <2> HIDE DEF value
  <2>1. i # 0 => value[i - 1] \in Nat
    BY <1>2, <1>8
  <2>2. QED
    BY <1>3, <1>7, <2>1
<1>9. D \subseteq Good
  <2> HIDE DEF Good, size, D
  <2>1. QED
    BY <1>6, <1>8, Descent
<1>10. n \in D
  OBVIOUS
<1>11. QED
  <2> HIDE DEF value, n
  <2>1. \A i \in D : value[i] \in Nat
    BY <1>9
  <2>2. QED
    BY <1>1, <1>7, <2>1 DEF value, n

LEMMA ValueType ==
    ASSUME NEW digits, Len(digits) \in Nat, \A i \in 1..Len(digits) : digits[i] \in Digits
    PROVE  Value(digits) \in Nat
<1>1. Len(digits) \in 0..Len(digits)
  OBVIOUS
<1>2. QED
  BY <1>1, ValueUnfolds

LEMMA Prepend ==
    ASSUME NEW S, NEW x \in S, NEW s \in Seq(S)
    PROVE  <<x>> \o s \in Seq(S) /\ <<x>> \in Seq(S) /\ Len(<<x>> \o s) = Len(s) + 1
OBVIOUS

\* The characters of a string literal, as read_string reads them.
LastOf(chars, j) == IF chars[j] = Backslash THEN j + 1 ELSE j
Ends(chars, j) == j <= Len(chars) /\ chars[j] = Quote
Goes(chars, j) ==
    /\ j <= Len(chars) /\ chars[j] # Quote
    /\ LastOf(chars, j) # j =>
         LastOf(chars, j) <= Len(chars) /\ chars[LastOf(chars, j)] \in {Backslash, Quote}

ReadStep(chars, f) ==
    [j \in 1..Len(chars) + 1 |->
        IF Ends(chars, j) THEN [end |-> j, value |-> << >>]
        ELSE IF Goes(chars, j)
        THEN [end |-> f[LastOf(chars, j) + 1].end,
              value |-> <<chars[LastOf(chars, j)]>> \o f[LastOf(chars, j) + 1].value]
        ELSE NoLiteral]

\* What would be read as a literal from each place.
Literals(chars) == CHOOSE f : f = ReadStep(chars, f)

LEMMA ReadStringIs ==
    ASSUME NEW chars \in Seq(Characters)
    PROVE  \A i : read_string(chars, i) = Literals(chars)[i]
<1>1. Len(chars) \in Nat
  BY LenProperties
<1> DEFINE D == 1..Len(chars) + 1
           body(f, j) ==
             LET k == IF chars[j] = Backslash THEN j + 1 ELSE j
             IN  IF j > Len(chars) THEN NoLiteral
                 ELSE IF chars[j] = Quote THEN [end |-> j, value |-> << >>]
                 ELSE IF k # j /\ (k > Len(chars) \/ chars[k] \notin {Backslash, Quote}) THEN NoLiteral
                 ELSE [end |-> f[k + 1].end, value |-> <<chars[k]>> \o f[k + 1].value]
<1>2. ASSUME NEW f, NEW j \in D PROVE body(f, j) = ReadStep(chars, f)[j]
  <2> DEFINE k == LastOf(chars, j)
             here == [end |-> j, value |-> << >>]
             there == [end |-> f[k + 1].end, value |-> <<chars[k]>> \o f[k + 1].value]
  <2>1. body(f, j) =
          IF j > Len(chars) THEN NoLiteral
          ELSE IF chars[j] = Quote THEN here
          ELSE IF k # j /\ (k > Len(chars) \/ chars[k] \notin {Backslash, Quote}) THEN NoLiteral
          ELSE there
    BY DEF LastOf
  <2>2. ReadStep(chars, f)[j] =
          IF Ends(chars, j) THEN here ELSE IF Goes(chars, j) THEN there ELSE NoLiteral
    BY DEF ReadStep
  <2>3. j \in Nat /\ k \in Nat
    BY <1>1 DEF LastOf
  <2>4. Goes(chars, j) <=>
          /\ j <= Len(chars) /\ chars[j] # Quote
          /\ k # j => k <= Len(chars) /\ chars[k] \in {Backslash, Quote}
    BY DEF Goes
  <2> HIDE DEF body, k, here, there
  <2>5. QED
    BY <1>1, <2>1, <2>2, <2>3, <2>4 DEF Ends
<1>3. ASSUME NEW f PROVE [j \in D |-> body(f, j)] = ReadStep(chars, f)
  <2> HIDE DEF body
  <2>1. QED
    BY <1>2 DEF ReadStep
<1>4. \A i : read_string(chars, i) = (CHOOSE f : f = [j \in D |-> body(f, j)])[i]
  BY DEF read_string
<1>5. QED
  <2> HIDE DEF body, D
  <2>1. QED
    BY <1>3, <1>4 DEF Literals

LEMMA ReadStringType ==
    ASSUME NEW chars \in Seq(Characters), NEW i \in 1..Len(chars) + 1
    PROVE  /\ read_string(chars, i) \in [end : 0..Len(chars), value : Seq(Characters)]
           /\ read_string(chars, i).end # 0 => read_string(chars, i).end >= i
           /\ Literals(chars) = ReadStep(chars, Literals(chars))
<1> DEFINE n == Len(chars)
           D == 1..n + 1
           V == [end : 0..n, value : Seq(Characters)]
           last(j) == LastOf(chars, j)
           read == Literals(chars)
           Phi == [f \in [D -> V] |-> ReadStep(chars, f)]
           size == [j \in D |-> n + 1 - j]
<1>1. n \in Nat /\ << >> \in Seq(Characters) /\ \A j \in 1..n : chars[j] \in Characters
  BY LenProperties, EmptySeq
<1>2. \A j \in D : Goes(chars, j) => last(j) \in j..n /\ last(j) + 1 \in D
  <2> SUFFICES ASSUME NEW j \in D, Goes(chars, j) PROVE last(j) \in j..n /\ last(j) + 1 \in D
    OBVIOUS
  <2>1. j \in Nat /\ 1 <= j /\ j <= n
    BY <1>1 DEF Goes
  <2>2. last(j) \in Nat /\ j <= last(j) /\ last(j) <= n
    <3>1. CASE chars[j] = Backslash
      BY <2>1, <3>1 DEF Goes, LastOf
    <3>2. CASE chars[j] # Backslash
      BY <2>1, <3>2 DEF LastOf
    <3>3. QED
      BY <3>1, <3>2
  <2> HIDE DEF last
  <2>3. QED
    BY <1>1, <2>1, <2>2
<1>3. NoLiteral \in V /\ \A j \in D : Ends(chars, j) => [end |-> j, value |-> << >>] \in V
  <2>1. \A j \in 0..n : [end |-> j, value |-> << >>] \in V
    BY <1>1
  <2>2. \A j \in D : Ends(chars, j) => j \in 0..n
    BY <1>1 DEF Ends
  <2>3. 0 \in 0..n
    BY <1>1
  <2> HIDE DEF V
  <2>4. QED
    BY <2>1, <2>2, <2>3 DEF NoLiteral
<1>4. ASSUME NEW f, NEW j \in D, Goes(chars, j) => f[last(j) + 1] \in V
      PROVE  /\ ReadStep(chars, f)[j] \in V
             /\ Goes(chars, j) => ReadStep(chars, f)[j].end = f[last(j) + 1].end
             /\ ~Goes(chars, j) => ReadStep(chars, f)[j].end \in {0, j}
  <2>1. CASE Ends(chars, j)
    <3>1. ReadStep(chars, f)[j] = [end |-> j, value |-> << >>] /\ ~Goes(chars, j)
      BY <2>1 DEF ReadStep, Ends, Goes
    <3>2. QED
      BY <1>3, <2>1, <3>1
  <2>2. CASE Goes(chars, j)
    <3> DEFINE rest == f[last(j) + 1]
               first == <<chars[last(j)]>>
    <3>1. rest \in V /\ chars[last(j)] \in Characters
      BY <1>1, <1>2, <1>4, <2>2
    <3>2. first \o rest.value \in Seq(Characters) /\ rest.end \in 0..n
      BY <3>1, Prepend
    <3>3. ReadStep(chars, f)[j] = [end |-> rest.end, value |-> first \o rest.value]
      BY <2>2 DEF ReadStep, Ends, Goes
    <3> HIDE DEF rest, first
    <3>4. ReadStep(chars, f)[j] \in V /\ ReadStep(chars, f)[j].end = rest.end
      BY <3>2, <3>3
    <3>5. QED
      BY <2>2, <3>4 DEF rest
  <2>3. CASE ~Ends(chars, j) /\ ~Goes(chars, j)
    <3>1. ReadStep(chars, f)[j] = NoLiteral
      BY <2>3 DEF ReadStep
    <3>2. QED
      BY <1>3, <2>3, <3>1 DEF NoLiteral
  <2>4. QED
    BY <2>1, <2>2, <2>3
<1>5. Phi \in [[D -> V] -> [D -> V]]
  <2>1. ASSUME NEW f \in [D -> V] PROVE ReadStep(chars, f) \in [D -> V]
    <3>1. \A j \in D : ReadStep(chars, f)[j] \in V
      <4> HIDE DEF V
      <4>1. QED
        BY <1>2, <1>4
    <3>2. QED
      BY <3>1 DEF ReadStep
  <2>2. QED
    BY <2>1
<1>6. ASSUME NEW f \in [D -> V], NEW g \in [D -> V], NEW j \in D,
             \A k \in D : size[k] < size[j] => f[k] = g[k]
      PROVE  Phi[f][j] = Phi[g][j]
  <2>1. Goes(chars, j) => f[last(j) + 1] = g[last(j) + 1]
    BY <1>1, <1>2, <1>6
  <2>2. ReadStep(chars, f)[j] = ReadStep(chars, g)[j]
    BY <2>1 DEF ReadStep
  <2>3. QED
    BY <2>2
<1>7. size \in [D -> Nat]
  BY <1>1
<1>8. read = ReadStep(chars, read)
  <2>1. V # {}
    BY <1>3
  <2>2. Recursion(Phi, D, V, size)
    <3> HIDE DEF Phi, size, D, V
    <3>1. QED
      BY <1>5, <1>6, <1>7, <2>1 DEF Recursion
  <2>3. Solvable(Phi, D, V)
    <3> HIDE DEF Phi, size, D, V
    <3>1. QED
      BY <2>2, FixedPoint
  <2>4. \E f : f = ReadStep(chars, f)
    <3> HIDE DEF D, V
    <3>1. QED
      BY <2>3 DEF Solvable
  <2>5. QED
    BY <2>4 DEF Literals
<1> DEFINE Good == {j \in D : read[j] \in V /\ (read[j].end # 0 => read[j].end >= j)}
<1>9. ASSUME NEW j \in D, \A k \in D : size[k] < size[j] => k \in Good
      PROVE  j \in Good
  <2> HIDE DEF read
  <2>1. Goes(chars, j) => last(j) + 1 \in Good
    BY <1>1, <1>2, <1>9
  <2>2. /\ read[j] \in V
        /\ Goes(chars, j) => read[j].end = read[last(j) + 1].end
        /\ ~Goes(chars, j) => read[j].end \in {0, j}
    <3> HIDE DEF V, D
    <3>1. QED
      BY <1>4, <1>8, <2>1
  <2>3. QED
    BY <1>1, <1>2, <2>1, <2>2
<1>10. D \subseteq Good
  <2> HIDE DEF Good, size, D
  <2>1. QED
    BY <1>7, <1>9, Descent
<1>11. read_string(chars, i) = read[i]
  BY ReadStringIs
<1>12. QED
  <2> HIDE DEF read
  <2>1. /\ read_string(chars, i) \in V
        /\ read_string(chars, i).end # 0 => read_string(chars, i).end >= i
    BY <1>10, <1>11
  <2>2. QED
    BY <1>8, <2>1 DEF read

LEMMA OneOrTwo ==
    ASSUME NEW S, NEW s \in Seq(S)
    PROVE  /\ Len(s) = 1 => s = <<s[1]>> /\ s[1] \in S
           /\ Len(s) = 2 => s = <<s[1], s[2]>> /\ s[1] \in S /\ s[2] \in S
OBVIOUS

\* The tokens from place i on, given those from later places on.
FromStep(chars, f) ==
    [i \in 1..Len(chars) + 1 |->
        LET run(class) == RunEnd(chars, i, class)
            number == Value(SubSeq(chars, i, run(Digits)))
            string == read_string(chars, i + 1)
        IN  IF i > Len(chars) THEN << >>
            ELSE IF chars[i] \in Digits
            THEN IF number > MaxInt THEN <<Token("INTEGER", Decimal(MaxInt))>>
                 ELSE <<Token("INTEGER", Decimal(number))>> \o f[run(Digits) + 1]
            ELSE IF chars[i] \in Letters
            THEN <<Token("IDENTIFIER", SubSeq(chars, i, run(Alnum)))>> \o f[run(Alnum) + 1]
            ELSE IF chars[i] = Quote
            THEN IF string.end = 0 THEN TokenizerError
                 ELSE <<Token("STRING", string.value)>> \o f[string.end + 1]
            ELSE IF chars[i] \in Operators
            THEN <<Token("OPERATOR", SubSeq(chars, i, OperatorEnd(chars, i)))>>
                 \o f[OperatorEnd(chars, i) + 1]
            ELSE IF chars[i] = Space THEN f[i + 1] ELSE TokenizerError]

Ending(chars, i, tok) == \A f : FromStep(chars, f)[i] = <<tok>>
Going(chars, i, tok, e) == \A f : FromStep(chars, f)[i] = <<tok>> \o f[e]

\* A step ends the text, fails, skips a space or reads one token.
LEMMA OneToken ==
    ASSUME NEW chars \in Seq(Characters), NEW i \in 1..Len(chars) + 1
    PROVE  \/ \A f : FromStep(chars, f)[i] = << >>
           \/ \E tok \in Tokens : Ending(chars, i, tok)
           \/ i + 1 \in 1..Len(chars) + 1 /\ \A f : FromStep(chars, f)[i] = f[i + 1]
           \/ \E tok \in Tokens : \E e \in 1..Len(chars) + 1 :
                e > i /\ Going(chars, i, tok, e)
<1> DEFINE n == Len(chars)
           run(class) == RunEnd(chars, i, class)
           number == Value(SubSeq(chars, i, run(Digits)))
           string == read_string(chars, i + 1)
           oe == OperatorEnd(chars, i)
           P1 == chars[i] \in Digits
           P2 == chars[i] \in Letters
           P3 == chars[i] = Quote
           P4 == chars[i] \in Operators
           P5 == chars[i] = Space
<1>0. n \in Nat /\ i \in Nat /\ 1 <= i /\ (i <= n => i \in 1..n)
  BY LenProperties
<1>1. \A f : FromStep(chars, f)[i] =
        IF i > n THEN << >>
        ELSE IF P1 THEN IF number > MaxInt THEN <<Token("INTEGER", Decimal(MaxInt))>>
                        ELSE <<Token("INTEGER", Decimal(number))>> \o f[run(Digits) + 1]
        ELSE IF P2
        THEN <<Token("IDENTIFIER", SubSeq(chars, i, run(Alnum)))>> \o f[run(Alnum) + 1]
        ELSE IF P3 THEN IF string.end = 0 THEN TokenizerError
                        ELSE <<Token("STRING", string.value)>> \o f[string.end + 1]
        ELSE IF P4 THEN <<Token("OPERATOR", SubSeq(chars, i, oe))>> \o f[oe + 1]
        ELSE IF P5 THEN f[i + 1] ELSE TokenizerError
  BY DEF FromStep
<1>2. ASSUME NEW f, i <= n
      PROVE  /\ P1 /\ ~(number > MaxInt) =>
                  FromStep(chars, f)[i] =
                    <<Token("INTEGER", Decimal(number))>> \o f[run(Digits) + 1]
             /\ ~P1 /\ P2 =>
                  FromStep(chars, f)[i] =
                    <<Token("IDENTIFIER", SubSeq(chars, i, run(Alnum)))>> \o f[run(Alnum) + 1]
             /\ ~P1 /\ ~P2 /\ P3 /\ string.end # 0 =>
                  FromStep(chars, f)[i] =
                    <<Token("STRING", string.value)>> \o f[string.end + 1]
             /\ ~P1 /\ ~P2 /\ ~P3 /\ P4 =>
                  FromStep(chars, f)[i] = <<Token("OPERATOR", SubSeq(chars, i, oe))>> \o f[oe + 1]
  <2>1. ~(i > n)
    BY <1>0, <1>2
  <2> DEFINE a1 == <<Token("INTEGER", Decimal(number))>> \o f[run(Digits) + 1]
             a2 == <<Token("IDENTIFIER", SubSeq(chars, i, run(Alnum)))>> \o f[run(Alnum) + 1]
             a3 == <<Token("STRING", string.value)>> \o f[string.end + 1]
             a4 == <<Token("OPERATOR", SubSeq(chars, i, oe))>> \o f[oe + 1]
             big == number > MaxInt
  <2>2. FromStep(chars, f)[i] =
          IF i > n THEN << >>
          ELSE IF P1 THEN IF big THEN <<Token("INTEGER", Decimal(MaxInt))>> ELSE a1
          ELSE IF P2 THEN a2
          ELSE IF P3 THEN IF string.end = 0 THEN TokenizerError ELSE a3
          ELSE IF P4 THEN a4
          ELSE IF P5 THEN f[i + 1] ELSE TokenizerError
    BY <1>1
  <2> HIDE DEF P1, P2, P3, P4, P5, a1, a2, a3, a4, string, big
  <2>3. /\ P1 /\ ~big => FromStep(chars, f)[i] = a1
        /\ ~P1 /\ P2 => FromStep(chars, f)[i] = a2
        /\ ~P1 /\ ~P2 /\ P3 /\ string.end # 0 => FromStep(chars, f)[i] = a3
        /\ ~P1 /\ ~P2 /\ ~P3 /\ P4 => FromStep(chars, f)[i] = a4
    BY <2>1, <2>2
  <2>4. QED
    BY <2>3 DEF a1, a2, a3, a4, big
<1>3. \A type \in Types : \A value \in Seq(Characters) :
        (type = "OPERATOR" => value \in OperatorValues) => Token(type, value) \in Tokens
  BY DEF Token, Tokens
<1>4. \A j \in i..n : SubSeq(chars, i, j) \in Seq(Characters) /\ Len(SubSeq(chars, i, j)) = j - i + 1
        /\ \A k \in 1..j - i + 1 : SubSeq(chars, i, j)[k] = chars[i + k - 1]
  BY <1>0, SubSeqProperties
<1> HIDE DEF run, number, string, oe
<1>5. CASE i > n
  <2>1. \A f : FromStep(chars, f)[i] = << >>
    BY <1>1, <1>5
  <2>2. QED
    BY <2>1
<1>6. CASE i <= n /\ P1
  <2>1. run(Digits) \in i..n /\ \A k \in i..run(Digits) : chars[k] \in Digits
    BY <1>0, <1>6, RunEnds DEF run
  <2> DEFINE e == run(Digits)
             digits == SubSeq(chars, i, e)
  <2>2. number \in Nat
    <3> HIDE DEF e
    <3>1. Len(digits) = e - i + 1 /\ \A k \in 1..e - i + 1 : digits[k] = chars[i + k - 1]
      BY <1>4, <2>1 DEF e
    <3>2. e \in Nat /\ i <= e
      BY <1>0, <2>1 DEF e
    <3>3. \A k \in 1..e - i + 1 : i + k - 1 \in i..e
      BY <1>0, <3>2
    <3>4. \A k \in 1..Len(digits) : digits[k] \in Digits
      BY <2>1, <3>1, <3>3 DEF e
    <3>5. Len(digits) \in Nat
      BY <1>0, <3>1, <3>2
    <3> HIDE DEF digits
    <3>6. Value(digits) \in Nat
      BY <3>4, <3>5, ValueType
    <3>7. QED
      BY <3>6 DEF digits, e, number
  <2>3. CASE number > MaxInt
    <3>1. \A f : FromStep(chars, f)[i] = <<Token("INTEGER", Decimal(MaxInt))>>
      BY <1>0, <1>1, <1>6, <2>3
    <3>2. Token("INTEGER", Decimal(MaxInt)) \in Tokens
      BY <1>3, DecimalType, MaxIntAssumption DEF Types
    <3>3. QED
      BY <3>1, <3>2 DEF Ending
  <2>4. CASE ~(number > MaxInt)
    <3>1. \A f : FromStep(chars, f)[i] = <<Token("INTEGER", Decimal(number))>> \o f[e + 1]
      BY <1>2, <1>6, <2>4
    <3>2. number \in 0..99
      BY <2>2, <2>4, MaxIntAssumption
    <3>3. Token("INTEGER", Decimal(number)) \in Tokens
      BY <1>3, <3>2, DecimalType DEF Types
    <3>4. e + 1 \in 1..n + 1 /\ e + 1 > i
      BY <1>0, <2>1
    <3>5. QED
      BY <3>1, <3>3, <3>4 DEF Going
  <2>5. QED
    BY <2>3, <2>4
<1>7. CASE i <= n /\ ~P1 /\ P2
  <2>1. chars[i] \in Alnum
    BY <1>7 DEF Alnum
  <2>2. run(Alnum) \in i..n
    BY <1>0, <1>7, <2>1, RunEnds DEF run
  <2>3. \A f : FromStep(chars, f)[i] =
          <<Token("IDENTIFIER", SubSeq(chars, i, run(Alnum)))>> \o f[run(Alnum) + 1]
    BY <1>2, <1>7
  <2>4. Token("IDENTIFIER", SubSeq(chars, i, run(Alnum))) \in Tokens
    BY <1>3, <1>4, <2>2 DEF Types
  <2>5. run(Alnum) + 1 \in 1..n + 1 /\ run(Alnum) + 1 > i
    BY <1>0, <2>2
  <2>6. QED
    BY <2>3, <2>4, <2>5 DEF Going
<1>8. CASE i <= n /\ ~P1 /\ ~P2 /\ P3
  <2>1. i + 1 \in 1..n + 1
    BY <1>0, <1>8
  <2>2. /\ string \in [end : 0..n, value : Seq(Characters)]
        /\ string.end # 0 => string.end >= i + 1
    BY <2>1, ReadStringType DEF string
  <2>3. CASE string.end = 0
    <3>1. \A f : FromStep(chars, f)[i] = TokenizerError
      BY <1>0, <1>1, <1>8, <2>3
    <3>2. Token("error", << >>) \in Tokens
      BY <1>3, EmptySeq DEF Types
    <3>3. QED
      BY <3>1, <3>2 DEF Ending, TokenizerError
  <2>4. CASE string.end # 0
    <3>1. \A f : FromStep(chars, f)[i] = <<Token("STRING", string.value)>> \o f[string.end + 1]
      BY <1>2, <1>8, <2>4
    <3>2. Token("STRING", string.value) \in Tokens
      BY <1>3, <2>2 DEF Types
    <3>3. string.end + 1 \in 1..n + 1 /\ string.end + 1 > i
      BY <1>0, <2>2, <2>4
    <3>4. QED
      BY <3>1, <3>2, <3>3 DEF Going
  <2>5. QED
    BY <2>3, <2>4
<1>9. CASE i <= n /\ ~P1 /\ ~P2 /\ ~P3 /\ P4
  <2>1. oe \in i..n
    BY <1>0, <1>9 DEF oe, OperatorEnd
  <2>2. \A f : FromStep(chars, f)[i] = <<Token("OPERATOR", SubSeq(chars, i, oe))>> \o f[oe + 1]
    BY <1>2, <1>9
  <2>3. Token("OPERATOR", SubSeq(chars, i, oe)) \in Tokens
    <3> DEFINE value == SubSeq(chars, i, oe)
    <3>1. value \in Seq(Characters)
      BY <1>4, <2>1
    <3>2. CASE oe = i
      <4>1. value = <<chars[i]>>
        <5>1. Len(value) = 1 /\ value[1] = chars[i]
          <6>1. i \in i..n /\ i - i + 1 = 1 /\ 1 \in 1..1 /\ i + 1 - 1 = i
            BY <1>0, <1>9
          <6>2. QED
            BY <1>4, <3>2, <6>1
        <5> HIDE DEF value
        <5>2. QED
          BY <3>1, <5>1, OneOrTwo
      <4>2. QED
        BY <1>3, <1>9, <3>1, <4>1 DEF Types, OperatorValues
    <3>3. CASE oe # i
      <4>1. oe = i + 1 /\ chars[i] \in {"<", ">"} /\ i < n /\ chars[i + 1] = "="
        BY <3>3 DEF oe, OperatorEnd
      <4>2. value = <<chars[i], "=">>
        <5>1. Len(value) = 2 /\ value[1] = chars[i] /\ value[2] = "="
          <6>1. /\ i + 1 \in i..n /\ i + 1 - i + 1 = 2 /\ 1 \in 1..2 /\ 2 \in 1..2
                /\ i + 1 - 1 = i /\ i + 2 - 1 = i + 1
            BY <1>0, <4>1
          <6>2. QED
            BY <1>4, <4>1, <6>1
        <5> HIDE DEF value
        <5>2. QED
          BY <3>1, <4>1, <5>1, OneOrTwo
      <4>3. QED
        BY <1>3, <3>1, <4>1, <4>2 DEF Types, OperatorValues
    <3>4. QED
      BY <3>2, <3>3
  <2>4. oe + 1 \in 1..n + 1 /\ oe + 1 > i
    BY <1>0, <2>1
  <2>5. QED
    BY <2>2, <2>3, <2>4 DEF Going
<1>10. CASE i <= n /\ ~P1 /\ ~P2 /\ ~P3 /\ ~P4 /\ P5
  <2>1. \A f : FromStep(chars, f)[i] = f[i + 1]
    BY <1>0, <1>1, <1>10
  <2>2. i + 1 \in 1..n + 1
    BY <1>0, <1>10
  <2>3. QED
    BY <2>1, <2>2
<1>11. CASE i <= n /\ ~P1 /\ ~P2 /\ ~P3 /\ ~P4 /\ ~P5
  <2>1. \A f : FromStep(chars, f)[i] = TokenizerError
    BY <1>0, <1>1, <1>11
  <2>2. Token("error", << >>) \in Tokens
    BY <1>3, EmptySeq DEF Types
  <2>3. QED
    BY <2>1, <2>2 DEF Ending, TokenizerError
<1>12. QED
  BY <1>0, <1>5, <1>6, <1>7, <1>8, <1>9, <1>10, <1>11

\* The tokens from each place on.
From(chars) == CHOOSE f : f = FromStep(chars, f)

LEMMA TokensUnfold ==
    ASSUME NEW chars \in Seq(Characters)
    PROVE  /\ get_tokens(chars) = From(chars)[1]
           /\ From(chars) = FromStep(chars, From(chars))
           /\ \A i \in 1..Len(chars) + 1 : From(chars)[i] \in Seq(Tokens)
<1> DEFINE n == Len(chars)
           D == 1..n + 1
           V == Seq(Tokens)
           from == From(chars)
           Phi == [f \in [D -> V] |-> FromStep(chars, f)]
           size == [i \in D |-> n + 1 - i]
<1>1. n \in Nat /\ << >> \in V /\ \A t \in Tokens : <<t>> \in V
  BY LenProperties, EmptySeq
<1>2. get_tokens(chars) = from[1]
  BY DEF get_tokens, From, FromStep
<1>3. ASSUME NEW f, NEW i \in D, \A j \in D : j > i => f[j] \in V
      PROVE  FromStep(chars, f)[i] \in V
  <2>1. CASE \A g : FromStep(chars, g)[i] = << >>
    BY <1>1, <2>1
  <2>2. ASSUME NEW t \in Tokens, Ending(chars, i, t) PROVE FromStep(chars, f)[i] \in V
    BY <1>1, <2>2 DEF Ending
  <2>3. CASE i + 1 \in D /\ \A g : FromStep(chars, g)[i] = g[i + 1]
    <3>1. i + 1 > i
      BY <1>1
    <3>2. QED
      BY <1>3, <2>3, <3>1
  <2>4. ASSUME NEW t \in Tokens, NEW e \in D, e > i, Going(chars, i, t, e)
        PROVE  FromStep(chars, f)[i] \in V
    <3>1. FromStep(chars, f)[i] = <<t>> \o f[e] /\ f[e] \in V
      BY <1>3, <2>4 DEF Going
    <3>2. QED
      BY <3>1, Prepend
  <2>5. QED
    BY <2>1, <2>2, <2>3, <2>4, OneToken
<1>4. ASSUME NEW f, NEW g, NEW i \in D, \A j \in D : j > i => f[j] = g[j]
      PROVE  FromStep(chars, f)[i] = FromStep(chars, g)[i]
  <2>1. CASE \A h : FromStep(chars, h)[i] = << >>
    BY <2>1
  <2>2. ASSUME NEW t \in Tokens, Ending(chars, i, t)
        PROVE  FromStep(chars, f)[i] = FromStep(chars, g)[i]
    BY <2>2 DEF Ending
  <2>3. CASE i + 1 \in D /\ \A h : FromStep(chars, h)[i] = h[i + 1]
    <3>1. i + 1 > i
      BY <1>1
    <3>2. QED
      BY <1>4, <2>3, <3>1
  <2>4. ASSUME NEW t \in Tokens, NEW e \in D, e > i, Going(chars, i, t, e)
        PROVE  FromStep(chars, f)[i] = FromStep(chars, g)[i]
    BY <1>4, <2>4 DEF Going
  <2>5. QED
    BY <2>1, <2>2, <2>3, <2>4, OneToken
<1>5. /\ size \in [D -> Nat]
      /\ \A i, j \in D : j > i <=> size[j] < size[i]
  BY <1>1
<1>6. Phi \in [[D -> V] -> [D -> V]]
  <2>1. ASSUME NEW f \in [D -> V] PROVE FromStep(chars, f) \in [D -> V]
    <3>1. \A i \in D : FromStep(chars, f)[i] \in V
      BY <1>3
    <3>2. QED
      BY <3>1 DEF FromStep
  <2>2. QED
    BY <2>1
<1>7. ASSUME NEW f \in [D -> V], NEW g \in [D -> V], NEW i \in D,
             \A j \in D : size[j] < size[i] => f[j] = g[j]
      PROVE  Phi[f][i] = Phi[g][i]
  <2>1. FromStep(chars, f)[i] = FromStep(chars, g)[i]
    <3> HIDE DEF size, D
    <3>1. QED
      BY <1>4, <1>5, <1>7
  <2>2. QED
    BY <2>1
<1>8. from = FromStep(chars, from)
  <2>1. V # {}
    BY <1>1
  <2>2. Solvable(Phi, D, V)
    <3> HIDE DEF Phi, size, D, V
    <3>1. Recursion(Phi, D, V, size)
      BY <1>5, <1>6, <1>7, <2>1 DEF Recursion
    <3>2. QED
      BY <3>1, FixedPoint
  <2>3. \E f : f = FromStep(chars, f)
    <3> HIDE DEF D, V
    <3>1. QED
      BY <2>2 DEF Solvable
  <2>4. QED
    BY <2>3 DEF From
<1> DEFINE Good == {i \in D : from[i] \in V}
<1>9. ASSUME NEW i \in D, \A j \in D : size[j] < size[i] => j \in Good
      PROVE  i \in Good
  <2> HIDE DEF from, size, D
  <2>1. \A j \in D : j > i => from[j] \in V
    BY <1>5, <1>9
  <2>2. QED
    BY <1>3, <1>8, <2>1
<1>10. D \subseteq Good
  <2> HIDE DEF Good, size, D
  <2>1. QED
    BY <1>5, <1>9, Descent
<1>11. QED
  <2> HIDE DEF from
  <2>1. \A i \in D : from[i] \in V
    BY <1>10
  <2>2. QED
    BY <1>2, <1>8, <2>1 DEF from

LEMMA TokensRead ==
    ASSUME NEW chars \in Seq(Characters)
    PROVE  get_tokens(chars) \in Seq(Tokens)
<1>1. 1 \in 1..Len(chars) + 1
  BY LenProperties
<1>2. QED
  BY <1>1, TokensUnfold

-----------------------------------------------------------------------------
(***************************************************************************)
(* What is typed are characters, and the condition is tokens.              *)
(***************************************************************************)

LEMMA SpelledType == \A t \in Tokens : Spelled(t) \in Seq(Characters)
<1> SUFFICES ASSUME NEW t \in Tokens PROVE Spelled(t) \in Seq(Characters)
  OBVIOUS
<1>1. t.value \in Seq(Characters) /\ Quote \in Characters /\ Backslash \in Characters
  BY CharactersAssumption DEF Tokens
<1> DEFINE parts == [i \in 1..Len(t.value) |->
                       IF t.value[i] \in {Quote, Backslash} THEN <<Backslash, t.value[i]>>
                                                            ELSE <<t.value[i]>>]
<1>2. Spelled(t) = IF t.type = "STRING" THEN <<Quote>> \o FlattenSeq(parts) \o <<Quote>>
                   ELSE t.value
  BY DEF Spelled
<1>3. Len(t.value) \in Nat /\ \A i \in 1..Len(t.value) : t.value[i] \in Characters
  BY <1>1, LenProperties
<1>4. \A x, y \in Characters : <<x>> \in Seq(Characters) /\ <<x, y>> \in Seq(Characters)
  OBVIOUS
<1>5. \A i \in 1..Len(t.value) : parts[i] \in Seq(Characters)
  BY <1>1, <1>3, <1>4
<1>6. parts \in Seq(Seq(Characters))
  <2> DEFINE n == Len(t.value)
  <2>1. n \in Nat /\ parts \in [1..n -> Seq(Characters)]
    BY <1>3, <1>5
  <2> HIDE DEF parts, n
  <2>2. QED
    BY <2>1
<1> HIDE DEF parts
<1>7. FlattenSeq(parts) \in Seq(Characters)
  BY <1>6, Flatten
<1>8. <<Quote>> \in Seq(Characters)
  BY <1>1, <1>4
<1>9. <<Quote>> \o FlattenSeq(parts) \in Seq(Characters)
  BY <1>7, <1>8, ConcatProperties
<1>10. <<Quote>> \o FlattenSeq(parts) \o <<Quote>> \in Seq(Characters)
  BY <1>8, <1>9, ConcatProperties
<1>11. QED
  BY <1>1, <1>2, <1>10

LEMMA JoinedType == \A s, t \in Seq(Characters) : Joined(s, t) \in Seq(Characters)
<1> SUFFICES ASSUME NEW s \in Seq(Characters), NEW t \in Seq(Characters)
             PROVE  Joined(s, t) \in Seq(Characters)
  OBVIOUS
<1>1. s \o t \in Seq(Characters)
  BY ConcatProperties
<1>2. s \o <<Space>> \o t \in Seq(Characters)
  <2>1. <<Space>> \in Seq(Characters)
    BY CharactersAssumption
  <2>2. s \o <<Space>> \in Seq(Characters)
    BY <2>1, ConcatProperties
  <2>3. QED
    BY <2>2, ConcatProperties
<1>3. Joined(s, t) \in {s \o t, s \o <<Space>> \o t}
  BY DEF Joined
<1>4. QED
  BY <1>1, <1>2, <1>3

\* Where an operand ends.
LEMMA EndsInside ==
    ASSUME NEW p \in Seq(Tokens), Len(p) > 1
    PROVE  /\ EndOf(p, 2) \in 2..Len(p)
           /\ \A j \in 2..Len(p) :
                Occurrences(OperandTokens, SubSeq(p, 2, j)) >
                  Occurrences(OperatorTokens, SubSeq(p, 2, j)) => EndOf(p, 2) <= j
           /\ EndOf(p, 2) # Len(p) =>
                Occurrences(OperandTokens, SubSeq(p, 2, EndOf(p, 2))) >
                  Occurrences(OperatorTokens, SubSeq(p, 2, EndOf(p, 2)))
<1> DEFINE Complete(j) == Occurrences(OperandTokens, SubSeq(p, 2, j)) >
                            Occurrences(OperatorTokens, SubSeq(p, 2, j))
           Places == {j \in 2..Len(p) : Complete(j)} \cup {Len(p)}
<1>1. Len(p) \in Nat
  BY LenProperties
<1>2. Places \subseteq 2..Len(p) /\ Len(p) \in Places
  BY <1>1
<1>3. EndOf(p, 2) = CHOOSE n \in Places : \A k \in Places : n <= k
  BY DEF EndOf, Min
<1>4. \E n \in Places : \A k \in Places : n <= k
  <2>1. Places \subseteq Nat
    BY <1>1, <1>2
  <2> HIDE DEF Places
  <2>2. QED
    BY <1>2, <2>1, Least
<1>5. EndOf(p, 2) \in Places /\ \A k \in Places : EndOf(p, 2) <= k
  <2> HIDE DEF Places
  <2>1. QED
    BY <1>3, <1>4
<1>6. QED
  BY <1>2, <1>5

LEMMA SidesAreShorter ==
    ASSUME NEW p \in Seq(Tokens), Len(p) > 1
    PROVE  /\ Left(p) \in Seq(Tokens) /\ Len(Left(p)) < Len(p)
           /\ Right(p) \in Seq(Tokens) /\ Len(Right(p)) < Len(p)
<1> DEFINE e == EndOf(p, 2)
<1>1. e \in 2..Len(p) /\ Len(p) \in Nat
  BY EndsInside, LenProperties
<1>2. Left(p) = SubSeq(p, 2, e) /\ Right(p) = SubSeq(p, e + 1, Len(p))
  BY DEF Left, Right
<1> HIDE DEF e
<1>3. SubSeq(p, 2, e) \in Seq(Tokens) /\ Len(SubSeq(p, 2, e)) = e - 1
  BY <1>1, SubSeqProperties
<1>4. SubSeq(p, e + 1, Len(p)) \in Seq(Tokens) /\ Len(SubSeq(p, e + 1, Len(p))) = Len(p) - e
  BY <1>1, SubSeqProperties
<1>5. QED
  BY <1>1, <1>2, <1>3, <1>4

ConditionStep(f) ==
    [q \in Seq(Tokens) |->
        IF Len(q) <= 1 THEN q
        ELSE <<Open>> \o f[Left(q)] \o <<q[1]>> \o f[Right(q)] \o <<Close>>]

\* A condition between parentheses.
LEMMA Enclosed ==
    ASSUME NEW S, NEW o \in S, NEW c \in S, NEW t \in S, NEW l \in Seq(S), NEW r \in Seq(S)
    PROVE  <<o>> \o l \o <<t>> \o r \o <<c>> \in Seq(S)
<1>1. <<o>> \o l \in Seq(S)
  OBVIOUS
<1>2. <<o>> \o l \o <<t>> \in Seq(S)
  BY <1>1
<1>3. <<o>> \o l \o <<t>> \o r \in Seq(S)
  BY <1>2
<1>4. QED
  BY <1>3

LEMMA Parentheses == Open \in Tokens /\ Close \in Tokens
<1>1. \A c \in Operators : <<c>> \in Seq(Characters)
  <2>1. Operators \subseteq Characters
    BY CharactersAssumption
  <2>2. \A c \in Characters : <<c>> \in Seq(Characters)
    OBVIOUS
  <2>3. QED
    BY <2>1, <2>2
<1>2. "(" \in Operators /\ ")" \in Operators
  BY DEF Operators
<1>3. QED
  BY <1>1, <1>2 DEF Open, Close, Op, Token, Tokens, Types, OperatorValues

LEMMA ConditionUnfolds ==
    \A p \in Seq(Tokens) :
        /\ Condition(p) \in Seq(Tokens)
        /\ Len(p) <= 1 => Condition(p) = p
        /\ Len(p) > 1 => Condition(p) = <<Open>> \o Condition(Left(p)) \o <<p[1]>>
                                        \o Condition(Right(p)) \o <<Close>>
<1> DEFINE D == Seq(Tokens)
           condition == CHOOSE f : f = ConditionStep(f)
           Phi == [f \in [D -> D] |-> ConditionStep(f)]
<1>1. \A p : Condition(p) = condition[p]
  BY DEF Condition, ConditionStep
<1>2. ASSUME NEW f, NEW q \in D, \A r \in D : Len(r) < Len(q) => f[r] \in D
      PROVE  ConditionStep(f)[q] \in D
  <2>1. CASE Len(q) <= 1
    BY <2>1 DEF ConditionStep
  <2>2. CASE ~(Len(q) <= 1)
    <3>1. Len(q) > 1 /\ Len(q) \in Nat
      BY <2>2, LenProperties
    <3>2. f[Left(q)] \in D /\ f[Right(q)] \in D /\ q[1] \in Tokens
      BY <1>2, <3>1, SidesAreShorter
    <3>3. ConditionStep(f)[q] =
            <<Open>> \o f[Left(q)] \o <<q[1]>> \o f[Right(q)] \o <<Close>>
      BY <2>2 DEF ConditionStep
    <3> DEFINE l == f[Left(q)]
               r == f[Right(q)]
               t == q[1]
    <3> HIDE DEF l, r, t
    <3>4. <<Open>> \o l \o <<t>> \o r \o <<Close>> \in Seq(Tokens)
      BY <3>2, Parentheses, Enclosed DEF l, r, t
    <3>5. QED
      BY <3>3, <3>4 DEF l, r, t
  <2>3. QED
    BY <2>1, <2>2
<1>3. Phi \in [[D -> D] -> [D -> D]]
  <2>1. ASSUME NEW f \in [D -> D] PROVE ConditionStep(f) \in [D -> D]
    <3>1. \A s \in D : ConditionStep(f)[s] \in D
      BY <1>2
    <3>2. QED
      BY <3>1 DEF ConditionStep
  <2>2. QED
    BY <2>1
<1>4. ASSUME NEW f \in [D -> D], NEW g \in [D -> D], NEW q \in D,
             \A r \in D : Len(r) < Len(q) => f[r] = g[r]
      PROVE  Phi[f][q] = Phi[g][q]
  <2>1. Len(q) > 1 => f[Left(q)] = g[Left(q)] /\ f[Right(q)] = g[Right(q)]
    BY <1>4, SidesAreShorter
  <2>2. Len(q) \in Nat
    BY LenProperties
  <2>3. ConditionStep(f)[q] = ConditionStep(g)[q]
    BY <2>1, <2>2 DEF ConditionStep
  <2>4. QED
    BY <2>3
<1>5. condition = ConditionStep(condition)
  <2>1. Solvable(Phi, D, D)
    <3> HIDE DEF Phi
    <3>1. Seq(Tokens) # {}
      BY EmptySeq
    <3>2. SeqRecursion(Phi, Tokens, Seq(Tokens))
      BY <1>3, <1>4, <3>1 DEF SeqRecursion
    <3>3. QED
      BY <3>2, SeqFixedPoint
  <2>2. \E f : f = ConditionStep(f)
    BY <2>1 DEF Solvable
  <2>3. QED
    BY <2>2
<1> DEFINE Good == {q \in D : condition[q] \in D}
<1>6. ASSUME NEW q \in D, \A r \in D : Len(r) < Len(q) => r \in Good
      PROVE  q \in Good
  <2> HIDE DEF condition
  <2>1. \A r \in D : Len(r) < Len(q) => condition[r] \in D
    BY <1>6
  <2>2. QED
    BY <1>2, <1>5, <2>1
<1>7. D \subseteq Good
  <2> HIDE DEF Good
  <2>1. QED
    BY <1>6, ShorterFirst
<1>8. \A q \in D : condition[q] = ConditionStep(condition)[q] /\ Len(q) \in Nat
  BY <1>5, LenProperties
<1>9. ASSUME NEW p \in D
      PROVE  /\ condition[p] \in D
             /\ Len(p) <= 1 => condition[p] = p
             /\ Len(p) > 1 => condition[p] = <<Open>> \o condition[Left(p)] \o <<p[1]>>
                                             \o condition[Right(p)] \o <<Close>>
  <2> HIDE DEF condition
  <2>1. condition[p] \in D
    BY <1>7
  <2> DEFINE long == <<Open>> \o condition[Left(p)] \o <<p[1]>> \o condition[Right(p)] \o <<Close>>
  <2>2. ConditionStep(condition)[p] = IF Len(p) <= 1 THEN p ELSE long
    BY DEF ConditionStep
  <2>3. condition[p] = ConditionStep(condition)[p] /\ Len(p) \in Nat
    BY <1>8
  <2> HIDE DEF long
  <2>4. (Len(p) <= 1 => condition[p] = p) /\ (Len(p) > 1 => condition[p] = long)
    BY <2>2, <2>3
  <2>5. QED
    BY <2>1, <2>4 DEF long
<1>10. QED
  <2> HIDE DEF condition
  <2>1. QED
    BY <1>1, <1>9

-----------------------------------------------------------------------------
(***************************************************************************)
(* The two stacks.                                                         *)
(***************************************************************************)

LEMMA Prefix ==
    ASSUME NEW S, NEW s \in Seq(S), NEW m \in 0..Len(s)
    PROVE  /\ SubSeq(s, 1, m) \in Seq(S) /\ Len(SubSeq(s, 1, m)) = m
           /\ \A i \in 1..m : SubSeq(s, 1, m)[i] = s[i]
<1> DEFINE p == SubSeq(s, 1, m)
<1>1. Len(s) \in Nat /\ m \in Nat /\ m <= Len(s)
  BY LenProperties
<1>2. \A i \in 1..m : s[i] \in S
  BY <1>1, ElementOfSeq
<1>3. 1 \in Int /\ m \in Int
  BY <1>1
<1>4. /\ p \in Seq(S) /\ Len(p) = (IF 1 <= m THEN m - 1 + 1 ELSE 0)
      /\ \A i \in 1..m - 1 + 1 : p[i] = s[1 + i - 1]
  BY <1>2, <1>3, SubSeqProperties
<1> HIDE DEF p
<1>5. Len(p) = m
  BY <1>1, <1>4
<1>6. \A i \in 1..m : i \in 1..m - 1 + 1 /\ 1 + i - 1 = i
  BY <1>1
<1>7. p \in Seq(S) /\ Len(p) = m /\ \A i \in 1..m : p[i] = s[i]
  BY <1>4, <1>5, <1>6
<1>8. QED
  BY <1>7 DEF p

LEMMA TopOfStack ==
    ASSUME NEW S, NEW s \in Seq(S), s # << >>
    PROVE  Last(s) \in S /\ Front(s) \in Seq(S) /\ s = Append(Front(s), Last(s))
<1>1. Len(s) \in Nat /\ Len(s) # 0
  BY EmptySeq, LenProperties
<1> DEFINE f == SubSeq(s, 1, Len(s) - 1)
           a == Append(f, s[Len(s)])
<1>2. f \in Seq(S) /\ Len(f) = Len(s) - 1 /\ \A i \in 1..Len(s) - 1 : f[i] = s[i]
  <2>1. Len(s) - 1 \in 0..Len(s)
    BY <1>1
  <2>2. QED
    BY <2>1, Prefix
<1>3. Len(s) \in 1..Len(s)
  BY <1>1
<1>4. s[Len(s)] \in S
  BY <1>3, ElementOfSeq
<1> HIDE DEF f
<1>5. a \in Seq(S) /\ Len(a) = Len(s) /\ \A i \in 1..Len(s) : a[i] = s[i]
  BY <1>1, <1>2, <1>4, AppendProperties
<1> HIDE DEF a
<1>6. s = a
  BY <1>1, <1>5, SeqEqual
<1>7. QED
  BY <1>2, <1>4, <1>6 DEF Front, Last, f, a

LEMMA TopTwo ==
    ASSUME NEW S, NEW s \in Seq(S), ~(Len(s) < 2)
    PROVE  LET n == Len(s)
               rest == SubSeq(s, 1, n - 2)
           IN  /\ rest \in Seq(S) /\ s[n - 1] \in S /\ s[n] \in S
               /\ s = Append(Append(rest, s[n - 1]), s[n])
<1> DEFINE n == Len(s)
           rest == SubSeq(s, 1, n - 2)
           a == Append(rest, s[n - 1])
           b == Append(a, s[n])
<1>1. n \in Nat /\ n >= 2
  BY LenProperties
<1>2. n - 1 \in 1..n /\ n \in 1..n
  BY <1>1
<1>3. s[n - 1] \in S /\ s[n] \in S
  BY <1>2, ElementOfSeq
<1>4. rest \in Seq(S) /\ Len(rest) = n - 2 /\ \A i \in 1..n - 2 : rest[i] = s[i]
  <2>1. n - 2 \in 0..n
    BY <1>1
  <2>2. QED
    BY <2>1, Prefix
<1> HIDE DEF rest
<1>5. a \in Seq(S) /\ Len(a) = n - 1 /\ \A i \in 1..n - 1 : a[i] = s[i]
  BY <1>1, <1>3, <1>4, AppendProperties
<1> HIDE DEF a
<1>6. b \in Seq(S) /\ Len(b) = n /\ \A i \in 1..n : b[i] = s[i]
  BY <1>1, <1>3, <1>5, AppendProperties
<1> HIDE DEF b
<1>7. s = b
  BY <1>1, <1>6, SeqEqual
<1>8. QED
  BY <1>3, <1>4, <1>7 DEF n, rest, a, b

LEMMA OperatorsAndOperands ==
    /\ OperatorTokens \subseteq Tokens /\ OperandTokens \subseteq Tokens
    /\ Tokens = OperatorTokens \cup OperandTokens
    /\ OperatorTokens \cap OperandTokens = {}
    /\ Open \in OperatorTokens /\ Close \in OperatorTokens /\ Open # Close
<1>1. <<"(">> # <<")">>
  OBVIOUS
<1>2. Open # Close
  BY <1>1 DEF Open, Close, Op, Token
<1>3. QED
  BY <1>2, Parentheses DEF OperatorTokens, OperandTokens, Open, Close, Op, Token

-----------------------------------------------------------------------------
(***************************************************************************)
(* Types, and how the phases follow one another.                           *)
(***************************************************************************)

Started == phase = "typing" =>
    tokens = << >> /\ pos = 1 /\ operands = << >> /\ operators = << >> /\ sql = << >>
Done == phase \in {"accepted", "queried"} =>
    pos = Len(tokens) + 1 /\ operators = << >> /\ Len(operands) = 1
Asked == phase = "queried" =>
    Open \notin ToSet(Result) /\ sql = IF Result = << >> THEN << >> ELSE Condition(Result)

Inv == TypeOK /\ Started /\ Done /\ Asked

LEMMA InvInit == Init => Inv
<1> SUFFICES ASSUME Init PROVE Inv
  OBVIOUS
<1>1. << >> \in Seq(Characters) /\ << >> \in Seq(Tokens)
      /\ << >> \in Seq(Seq(Tokens) \ {<< >>}) /\ << >> \in Seq(OperatorTokens \ {Close})
      /\ Len(<< >>) = 0
  BY EmptySeq
<1>2. TypeOK
  BY <1>1 DEF Init, TypeOK
<1>3. QED
  BY <1>2 DEF Init, Inv, Started, Done, Asked

\* A step of the parser proper: it reads no text and asks for nothing.
LEMMA ParserStep ==
    ASSUME Inv, Parsing, UNCHANGED <<typed, text, tokens, sql>>,
           phase' \in {"parsing", "refused", "undefined"},
           pos' \in 1..Len(tokens) + 1,
           operands' \in Seq(Seq(Tokens) \ {<< >>}),
           operators' \in Seq(OperatorTokens \ {Close})
    PROVE  Inv'
<1>1. TypeOK'
  BY DEF Inv, TypeOK
<1>2. QED
  BY <1>1 DEF Inv, Started, Done, Asked

LEMMA OperandStep ==
    ASSUME Inv, Parsing, NEW t \in OperandTokens, NEW used \in Nat,
           pos + used <= Len(tokens) + 1, Operand(t, used)
    PROVE  Inv'
<1> DEFINE P == Seq(Tokens) \ {<< >>}
<1>1. <<t>> \in P
  <2>1. t \in Tokens
    BY OperatorsAndOperands
  <2>2. QED
    BY <2>1
<1>2. pos \in Nat /\ 1 <= pos /\ Len(tokens) \in Nat /\ operands \in Seq(P)
  BY LenProperties DEF Inv, TypeOK
<1> HIDE DEF P
<1>3. Append(operands, <<t>>) \in Seq(P)
  BY <1>1, <1>2, AppendProperties
<1>4. pos + used \in 1..Len(tokens) + 1
  BY <1>2
<1>5. QED
  <2>1. phase' = "parsing" /\ operators' \in Seq(OperatorTokens \ {Close})
    BY DEF Parsing, Operand, Inv, TypeOK
  <2>2. operands' \in Seq(P) /\ pos' \in 1..Len(tokens) + 1
    BY <1>3, <1>4 DEF Operand
  <2>3. QED
    BY <2>1, <2>2, ParserStep DEF P, Operand

LEMMA InvNext == Inv /\ [Next]_vars => Inv'
<1> SUFFICES ASSUME Inv, [Next]_vars PROVE Inv'
  OBVIOUS
<1> DEFINE P == Seq(Tokens) \ {<< >>}
           O == OperatorTokens \ {Close}
<1>0. /\ Len(tokens) \in Nat /\ pos \in Nat /\ 1 <= pos /\ pos <= Len(tokens) + 1
      /\ operands \in Seq(P) /\ operators \in Seq(O) /\ tokens \in Seq(Tokens)
      /\ \A i \in 1..Len(tokens) : tokens[i] \in Tokens
      /\ text \in Seq(Characters) /\ typed \in Seq(Tokens) /\ sql \in Seq(Tokens)
  BY LenProperties, ElementOfSeq DEF Inv, TypeOK
<1>1. ~AtEnd => pos \in 1..Len(tokens) /\ Current \in Tokens /\ pos + 1 <= Len(tokens) + 1
  BY <1>0 DEF AtEnd, Current
<1>2. ASSUME NEW t \in Alphabet, Type(t) PROVE Inv'
  <2>1. t \in Tokens
    BY AlphabetAssumption
  <2>2. typed' \in Seq(Tokens)
    BY <1>0, <1>2, <2>1, AppendProperties DEF Type
  <2>3. text' \in Seq(Characters)
    BY <1>0, <1>2, <2>1, SpelledType, JoinedType DEF Type
  <2>4. TypeOK'
    BY <1>2, <2>2, <2>3 DEF Type, Inv, TypeOK
  <2>5. QED
    BY <1>2, <2>4 DEF Type, Inv, Started, Done, Asked
<1>3. CASE Submit
  <2>1. get_tokens(text) \in Seq(Tokens) /\ << >> \in Seq(Tokens)
    BY <1>0, TokensRead, EmptySeq
  <2>2. tokens' \in Seq(Tokens) /\ phase' \in {"refused", "parsing"} /\ phase = "typing"
    BY <1>3, <2>1 DEF Submit
  <2>3. Len(tokens') \in Nat /\ pos' = 1
    BY <1>3, <2>2, LenProperties DEF Submit, Inv, Started
  <2>4. TypeOK'
    BY <1>3, <2>2, <2>3 DEF Submit, Inv, TypeOK
  <2>5. QED
    BY <2>2, <2>4 DEF Inv, Started, Done, Asked
<1>4. CASE Make
  <2>1. Front(operators) \in Seq(O) /\ Top \in Tokens
    <3>1. operators # << >>
      BY <1>4 DEF Make, MustMake
    <3> HIDE DEF O
    <3>2. Top \in O /\ Front(operators) \in Seq(O)
      BY <1>0, <3>1, TopOfStack DEF Top
    <3>3. QED
      BY <3>2, OperatorsAndOperands DEF O
  <2>2. CASE Len(operands) < 2
    BY <1>0, <1>4, <2>2, ParserStep DEF Make
  <2>3. CASE ~(Len(operands) < 2)
    <3> DEFINE n == Len(operands)
               rest == SubSeq(operands, 1, n - 2)
               l == operands[n - 1]
               r == operands[n]
               made == <<Top>> \o l \o r
    <3>1. rest \in Seq(P) /\ l \in P /\ r \in P
      <4> HIDE DEF P
      <4>1. QED
        BY <1>0, <2>3, TopTwo
    <3>2. made \in P
      <4> HIDE DEF l, r
      <4>1. made \in Seq(Tokens) /\ Len(made) = 1 + Len(l) + Len(r) /\ Len(l) \in Nat /\ Len(r) \in Nat
        <5>1. <<Top>> \in Seq(Tokens) /\ Len(<<Top>>) = 1
          BY <2>1
        <5>2. <<Top>> \o l \in Seq(Tokens) /\ Len(<<Top>> \o l) = 1 + Len(l)
          BY <3>1, <5>1, ConcatProperties
        <5>3. QED
          BY <3>1, <5>2, ConcatProperties, LenProperties
      <4>2. made # << >>
        BY <4>1, EmptySeq
      <4>3. QED
        BY <4>1, <4>2
    <3>3. operands' = Append(rest, made) /\ operators' = Front(operators) /\ phase' = phase
      BY <1>4, <2>3 DEF Make
    <3>4. Append(rest, made) \in Seq(P)
      <4> HIDE DEF rest, made, P
      <4>1. QED
        BY <3>1, <3>2, AppendProperties
    <3> HIDE DEF rest, made
    <3>5. QED
      BY <1>0, <1>4, <2>1, <3>3, <3>4, ParserStep DEF Make, Parsing
  <2>4. QED
    BY <2>2, <2>3
<1>5. CASE ReadInteger
  <2>1. Current \in OperandTokens
    BY <1>1, <1>5 DEF ReadInteger, OperandTokens
  <2>2. QED
    BY <1>1, <1>5, <2>1, OperandStep DEF ReadInteger
<1>6. CASE Refuse /\ Parsing
  BY <1>0, <1>6, ParserStep DEF Refuse, Inv, TypeOK
<1>7. CASE ReadIdentifier
  <2>1. Current \in OperandTokens
    BY <1>1, <1>7 DEF ReadIdentifier, OperandTokens
  <2>2. QED
    BY <1>1, <1>6, <1>7, <2>1, OperandStep DEF ReadIdentifier
<1>8. CASE ReadString
  <2>1. Current \in OperandTokens /\ Current.value \in Seq(Characters)
    BY <1>1, <1>8 DEF ReadString, OperandTokens, Tokens
  <2>2. Token("DATE", Current.value) \in OperandTokens
    BY <2>1 DEF OperandTokens, Tokens, Token, Types
  <2>3. Suffix(pos) => pos + 2 <= Len(tokens) + 1
    BY <1>0 DEF Suffix
  <2>4. QED
    BY <1>1, <1>6, <1>8, <2>1, <2>2, <2>3, OperandStep DEF ReadString
<1>9. CASE ReadClose
  <2>1. CASE operators = << >>
    BY <1>0, <1>9, <2>1, ParserStep DEF ReadClose
  <2>2. CASE operators # << >>
    <3>1. Front(operators) \in Seq(O)
      <4> HIDE DEF O
      <4>1. QED
        BY <1>0, <2>2, TopOfStack
    <3>2. QED
      BY <1>0, <1>1, <1>9, <2>2, <3>1, ParserStep DEF ReadClose, Parsing
  <2>3. QED
    BY <2>1, <2>2
<1>10. CASE ReadOpenOrBinary
  <2>1. Current \in O
    BY <1>1, <1>10 DEF ReadOpenOrBinary, OperatorTokens
  <2>2. Append(operators, Current) \in Seq(O)
    <3> HIDE DEF O
    <3>1. QED
      BY <1>0, <2>1, AppendProperties
  <2>3. QED
    BY <1>0, <1>1, <1>10, <2>2, ParserStep DEF ReadOpenOrBinary, Parsing
<1>11. CASE Finish
  <2>1. TypeOK'
    BY <1>11 DEF Finish, Inv, TypeOK
  <2>2. pos = Len(tokens) + 1
    BY <1>0, <1>11 DEF Finish, AtEnd
  <2>3. QED
    BY <1>11, <2>1, <2>2 DEF Finish, Inv, Started, Done, Asked
<1>12. CASE Query
  <2>1. Done /\ phase = "accepted"
    BY <1>12 DEF Inv, Query
  <2>2. Result \in Seq(Tokens)
    <3>1. 1 \in 1..Len(operands)
      BY <2>1 DEF Done
    <3>2. operands[1] \in P
      <4> HIDE DEF P
      <4>1. QED
        BY <1>0, <3>1, ElementOfSeq
    <3>3. QED
      BY <3>2, EmptySeq DEF Result
  <2>3. sql' \in Seq(Tokens)
    BY <1>0, <1>12, <2>2, ConditionUnfolds, EmptySeq DEF Query
  <2>4. TypeOK'
    BY <1>12, <2>3 DEF Query, Inv, TypeOK
  <2>5. Result' = Result
    BY <1>12 DEF Query, Result
  <2>6. Asked'
    BY <1>12, <2>5 DEF Query, Asked
  <2>7. QED
    BY <1>12, <2>1, <2>4, <2>6 DEF Query, Inv, Started, Done
<1>13. CASE UNCHANGED vars
  <2>1. TypeOK' /\ Started' /\ Done'
    BY <1>13 DEF vars, Inv, TypeOK, Started, Done
  <2>2. Result' = Result
    BY <1>13 DEF vars, Result
  <2>3. QED
    BY <1>13, <2>1, <2>2 DEF vars, Inv, Asked
<1>14. QED
  BY <1>2, <1>3, <1>4, <1>5, <1>7, <1>8, <1>9, <1>10, <1>11, <1>12, <1>13 DEF Next

LEMMA Invariance == Spec => []Inv
BY InvInit, InvNext, PTL DEF Spec

\* On every text the parser's stacks hold operators other than ")" and
\* operands of at least one token, and it never reads past the last token.
THEOREM TypeCorrect == Spec => []TypeOK
<1>1. Inv => TypeOK
  BY DEF Inv
<1>2. QED
  BY <1>1, Invariance, PTL

-----------------------------------------------------------------------------
(***************************************************************************)
(* Pieces of sequences.                                                    *)
(***************************************************************************)

LEMMA Piece ==
    ASSUME NEW S, NEW s \in Seq(S), NEW m \in 1..Len(s) + 1, NEW n \in m - 1..Len(s)
    PROVE  /\ SubSeq(s, m, n) \in Seq(S) /\ Len(SubSeq(s, m, n)) = n - m + 1
           /\ \A i \in 1..n - m + 1 : SubSeq(s, m, n)[i] = s[m + i - 1]
<1> DEFINE p == SubSeq(s, m, n)
<1>1. Len(s) \in Nat /\ m \in Nat /\ n \in Nat /\ 1 <= m /\ m - 1 <= n /\ n <= Len(s)
  BY LenProperties
<1>2. \A i \in m..n : s[i] \in S
  BY <1>1, ElementOfSeq
<1>3. m \in Int /\ n \in Int
  BY <1>1
<1>4. /\ p \in Seq(S) /\ Len(p) = (IF m <= n THEN n - m + 1 ELSE 0)
      /\ \A i \in 1..n - m + 1 : p[i] = s[m + i - 1]
  BY <1>2, <1>3, SubSeqProperties
<1> HIDE DEF p
<1>5. Len(p) = n - m + 1
  BY <1>1, <1>4
<1>6. QED
  BY <1>4, <1>5 DEF p

LEMMA PieceOfConcat ==
    ASSUME NEW S, NEW a \in Seq(S), NEW b \in Seq(S)
    PROVE  /\ \A j \in 0..Len(a) : SubSeq(a \o b, 1, j) = SubSeq(a, 1, j)
           /\ \A i \in 1..Len(b) + 1 : \A j \in i - 1..Len(b) :
                SubSeq(a \o b, Len(a) + i, Len(a) + j) = SubSeq(b, i, j)
           /\ SubSeq(a \o b, 1, Len(a)) = a
           /\ SubSeq(a \o b, Len(a) + 1, Len(a \o b)) = b
<1> DEFINE n == Len(a)
           m == Len(b)
           c == a \o b
<1>1. /\ n \in Nat /\ m \in Nat /\ c \in Seq(S) /\ Len(c) = n + m
      /\ \A i \in 1..n + m : c[i] = IF i <= n THEN a[i] ELSE b[i - n]
  BY ConcatProperties, LenProperties
<1> HIDE DEF n, m, c
<1>2. Len(a) = n /\ Len(b) = m
  BY DEF n, m
<1>3. ASSUME NEW j \in 0..n PROVE SubSeq(c, 1, j) = SubSeq(a, 1, j)
  <2> DEFINE x == SubSeq(c, 1, j)
             y == SubSeq(a, 1, j)
  <2>1. j \in 0..Len(c)
    BY <1>1
  <2>2. x \in Seq(S) /\ Len(x) = j /\ \A i \in 1..j : x[i] = c[i]
    BY <1>1, <2>1, Prefix
  <2>3. y \in Seq(S) /\ Len(y) = j /\ \A i \in 1..j : y[i] = a[i]
    BY <1>2, Prefix
  <2> HIDE DEF x, y
  <2>4. \A i \in 1..j : x[i] = y[i]
    BY <1>1, <2>2, <2>3
  <2>5. x = y
    BY <2>2, <2>3, <2>4, SeqEqual
  <2>6. QED
    BY <2>5 DEF x, y
<1>5. ASSUME NEW i \in 1..m + 1, NEW j \in i - 1..m
      PROVE  SubSeq(c, n + i, n + j) = SubSeq(b, i, j)
  <2> DEFINE x == SubSeq(c, n + i, n + j)
             y == SubSeq(b, i, j)
             k == j - i + 1
  <2>1. n + i \in 1..Len(c) + 1 /\ n + j \in n + i - 1..Len(c) /\ k \in Nat
        /\ n + j - (n + i) + 1 = k
    BY <1>1
  <2>2. x \in Seq(S) /\ Len(x) = k /\ \A h \in 1..k : x[h] = c[n + i + h - 1]
    BY <1>1, <2>1, Piece
  <2>3. y \in Seq(S) /\ Len(y) = k /\ \A h \in 1..k : y[h] = b[i + h - 1]
    BY <1>2, Piece
  <2> HIDE DEF x, y, k
  <2>5. \A h \in 1..k : x[h] = y[h]
    <3> SUFFICES ASSUME NEW h \in 1..k PROVE x[h] = y[h]
      OBVIOUS
    <3> DEFINE g == n + i + h - 1
    <3>1. g \in 1..n + m /\ ~(g <= n) /\ g - n = i + h - 1
      BY <1>1 DEF k
    <3>2. x[h] = c[g] /\ y[h] = b[i + h - 1]
      BY <2>2, <2>3
    <3> HIDE DEF g
    <3>3. c[g] = b[g - n]
      BY <1>1, <3>1
    <3>4. QED
      BY <3>1, <3>2, <3>3
  <2>6. x = y
    BY <2>1, <2>2, <2>3, <2>5, SeqEqual
  <2>7. QED
    BY <2>6 DEF x, y
<1>6. SubSeq(c, 1, n) = a
  <2>1. n \in 0..n
    BY <1>1
  <2>2. SubSeq(c, 1, n) = SubSeq(a, 1, n)
    BY <1>3, <2>1
  <2>3. SubSeq(a, 1, Len(a)) = a
    BY SubSeqFull
  <2>4. QED
    BY <1>2, <2>2, <2>3
<1>7. SubSeq(c, n + 1, Len(c)) = b
  <2>1. 1 \in 1..m + 1 /\ m \in 1 - 1..m
    BY <1>1
  <2>2. SubSeq(c, n + 1, n + m) = SubSeq(b, 1, m)
    BY <1>5, <2>1
  <2>3. SubSeq(b, 1, Len(b)) = b
    BY SubSeqFull
  <2>4. QED
    BY <1>1, <1>2, <2>2, <2>3
<1>8. QED
  BY <1>3, <1>5, <1>6, <1>7 DEF n, m, c

\* Citing PieceOfConcat for one pair of sequences.
PrefixesOf(a, b) ==
    \A j \in 0..Len(b) : SubSeq(a \o b, 1, Len(a) + j) = a \o SubSeq(b, 1, j)

LEMMA PrefixOfConcat ==
    ASSUME NEW S, NEW a \in Seq(S), NEW b \in Seq(S)
    PROVE  PrefixesOf(a, b)
<1> SUFFICES ASSUME NEW j \in 0..Len(b)
             PROVE  SubSeq(a \o b, 1, Len(a) + j) = a \o SubSeq(b, 1, j)
  BY DEF PrefixesOf
<1> DEFINE n == Len(a)
           m == Len(b)
           c == a \o b
<1>1. /\ n \in Nat /\ m \in Nat /\ c \in Seq(S) /\ Len(c) = n + m
      /\ \A i \in 1..n + m : c[i] = IF i <= n THEN a[i] ELSE b[i - n]
  BY ConcatProperties, LenProperties
<1>2. j \in 0..m
  OBVIOUS
<1> HIDE DEF n, m, c
<1>3. Len(a) = n /\ Len(b) = m
  BY DEF n, m
<1>4. SubSeq(c, 1, n + j) = a \o SubSeq(b, 1, j)
  <2> DEFINE x == SubSeq(c, 1, n + j)
             y == SubSeq(b, 1, j)
             z == a \o y
  <2>1. n + j \in 0..Len(c)
    BY <1>1, <1>2
  <2>2. x \in Seq(S) /\ Len(x) = n + j /\ \A i \in 1..n + j : x[i] = c[i]
    BY <1>1, <2>1, Prefix
  <2>3. y \in Seq(S) /\ Len(y) = j /\ \A i \in 1..j : y[i] = b[i]
    BY <1>2, <1>3, Prefix
  <2> HIDE DEF x, y
  <2>4. z \in Seq(S) /\ Len(z) = n + j
        /\ \A i \in 1..n + j : z[i] = IF i <= n THEN a[i] ELSE y[i - n]
    BY <1>3, <2>3, ConcatProperties
  <2> HIDE DEF z
  <2>5. \A i \in 1..n + j : x[i] = z[i]
    <3> SUFFICES ASSUME NEW i \in 1..n + j PROVE x[i] = z[i]
      OBVIOUS
    <3>1. i \in 1..n + m /\ (~(i <= n) => i - n \in 1..j)
      BY <1>1, <1>2
    <3>2. QED
      BY <1>1, <2>2, <2>3, <2>4, <3>1
  <2>6. x = z
    BY <2>2, <2>4, <2>5, SeqEqual
  <2>7. QED
    BY <2>6 DEF x, y, z
<1>5. QED
  BY <1>4 DEF n, m, c

-----------------------------------------------------------------------------
(***************************************************************************)
(* Polish notation: the smallest set that has the operands and, with two   *)
(* of its members, an operator in front of them.                           *)
(***************************************************************************)

HasOperands(C) == \A t \in OperandTokens : <<t>> \in C
HasOperations(C) == \A o \in OperatorTokens \ {Close} : \A a, b \in C : <<o>> \o a \o b \in C
Polish == {p \in Seq(Tokens) : \A C \in SUBSET Seq(Tokens) :
              HasOperands(C) /\ HasOperations(C) => p \in C}

LEMMA PolishInduction ==
    ASSUME NEW C, C \subseteq Seq(Tokens), HasOperands(C), HasOperations(C)
    PROVE  Polish \subseteq C
BY DEF Polish

\* An operation as a sequence.
LEMMA Operation ==
    ASSUME NEW S, NEW o \in S, NEW a \in Seq(S), NEW b \in Seq(S)
    PROVE  /\ <<o>> \o a \o b \in Seq(S)
           /\ <<o>> \o a \o b = <<o>> \o (a \o b)
           /\ a \o b \in Seq(S) /\ <<o>> \in Seq(S) /\ <<o>> \o a \in Seq(S)
           /\ Len(<<o>> \o a \o b) = 1 + Len(a) + Len(b)
           /\ (<<o>> \o a \o b)[1] = o
           /\ <<o>> \o a \o b # << >>
<1> DEFINE s == <<o>>
<1>1. s \in Seq(S) /\ Len(s) = 1 /\ s[1] = o
  OBVIOUS
<1> HIDE DEF s
<1>2. /\ s \o a \in Seq(S) /\ Len(s \o a) = 1 + Len(a) /\ a \o b \in Seq(S)
      /\ Len(a) \in Nat /\ Len(b) \in Nat
  BY <1>1, ConcatProperties, LenProperties
<1> DEFINE sa == s \o a
<1>3. sa[1] = o
  <2>1. 1 \in 1..Len(s) + Len(a) /\ 1 <= Len(s)
    BY <1>1, <1>2
  <2>2. QED
    BY <1>1, <2>1, ConcatProperties
<1> HIDE DEF sa
<1> DEFINE sab == sa \o b
<1>4. sab \in Seq(S) /\ Len(sab) = 1 + Len(a) + Len(b)
  <2>1. sa \in Seq(S) /\ Len(sa) = 1 + Len(a)
    BY <1>2 DEF sa
  <2>2. QED
    BY <2>1, ConcatProperties
<1>5. sab[1] = o
  <2>1. sa \in Seq(S) /\ 1 \in 1..Len(sa) + Len(b) /\ 1 <= Len(sa)
    BY <1>2 DEF sa
  <2>2. QED
    BY <1>3, <2>1, ConcatProperties
<1>6. sab = s \o (a \o b)
  BY <1>1, ConcatAssociative DEF sa
<1>7. sab # << >>
  <2> HIDE DEF sab
  <2>1. Len(sab) # 0
    BY <1>2, <1>4
  <2>2. QED
    BY <2>1, EmptySeq
<1>8. QED
  BY <1>1, <1>2, <1>4, <1>5, <1>6, <1>7 DEF s, sa

LEMMA PolishGrows == HasOperands(Polish) /\ HasOperations(Polish)
<1>1. HasOperands(Polish)
  <2> SUFFICES ASSUME NEW t \in OperandTokens PROVE <<t>> \in Polish
    BY DEF HasOperands
  <2>1. t \in Tokens
    BY OperatorsAndOperands
  <2>2. <<t>> \in Seq(Tokens)
    BY <2>1
  <2>3. \A C \in SUBSET Seq(Tokens) : HasOperands(C) => <<t>> \in C
    BY DEF HasOperands
  <2>4. QED
    BY <2>2, <2>3 DEF Polish
<1>2. HasOperations(Polish)
  <2> SUFFICES ASSUME NEW o \in OperatorTokens \ {Close}, NEW a \in Polish, NEW b \in Polish
               PROVE  <<o>> \o a \o b \in Polish
    BY DEF HasOperations
  <2>1. a \in Seq(Tokens) /\ b \in Seq(Tokens) /\ o \in Tokens
    BY OperatorsAndOperands DEF Polish
  <2>2. <<o>> \o a \o b \in Seq(Tokens)
    BY <2>1, Operation
  <2>3. ASSUME NEW C \in SUBSET Seq(Tokens), HasOperands(C), HasOperations(C)
        PROVE  <<o>> \o a \o b \in C
    <3>1. a \in C /\ b \in C
      BY <2>3 DEF Polish
    <3>2. QED
      BY <2>3, <3>1 DEF HasOperations
  <2> DEFINE p == <<o>> \o a \o b
  <2> HIDE DEF p
  <2>4. p \in Polish
    BY <2>2, <2>3 DEF Polish, p
  <2>5. QED
    BY <2>4 DEF p
<1>3. QED
  BY <1>1, <1>2

\* What a member of Polish looks like.
Single(p) == \E t \in OperandTokens : p = <<t>>
Compound(p) == \E o \in OperatorTokens \ {Close} : \E a, b \in Polish : p = <<o>> \o a \o b

LEMMA PolishCases == \A p \in Polish : p \in Seq(Tokens) /\ (Single(p) \/ Compound(p))
<1> DEFINE C == {p \in Polish : Single(p) \/ Compound(p)}
<1>1. C \subseteq Seq(Tokens)
  BY DEF Polish
<1>2. HasOperands(C)
  BY PolishGrows DEF HasOperands, Single
<1>3. HasOperations(C)
  <2> SUFFICES ASSUME NEW o \in OperatorTokens \ {Close}, NEW a \in C, NEW b \in C
               PROVE  <<o>> \o a \o b \in C
    BY DEF HasOperations
  <2>1. a \in Polish /\ b \in Polish
    OBVIOUS
  <2>2. Compound(<<o>> \o a \o b)
    BY <2>1 DEF Compound
  <2>3. <<o>> \o a \o b \in Polish
    BY <2>1, PolishGrows DEF HasOperations
  <2>4. QED
    BY <2>2, <2>3
<1>4. Polish \subseteq C
  <2> HIDE DEF C
  <2>1. QED
    BY <1>1, <1>2, <1>3, PolishInduction
<1>5. QED
  BY <1>4 DEF Polish

\* One operand more than operators, but not before its end.
Ahead(p) == Occurrences(OperandTokens, p) - Occurrences(OperatorTokens, p)
LEMMA AheadAdds ==
    /\ Ahead(<< >>) = 0
    /\ \A t \in OperandTokens : Ahead(<<t>>) = 1
    /\ \A t \in OperatorTokens : Ahead(<<t>>) = -1
    /\ \A s \in Seq(Tokens) : Ahead(s) \in Int
    /\ \A s, t \in Seq(Tokens) : Ahead(s \o t) = Ahead(s) + Ahead(t)
<1>1. ASSUME NEW s \in Seq(Tokens), NEW t \in Seq(Tokens)
      PROVE  Ahead(s \o t) = Ahead(s) + Ahead(t)
  <2> DEFINE x(k) == Occurrences(k, s)
             y(k) == Occurrences(k, t)
  <2>1. \A k : Occurrences(k, s \o t) = x(k) + y(k) /\ x(k) \in Nat /\ y(k) \in Nat
    BY Occur
  <2>2. /\ Ahead(s \o t) = (x(OperandTokens) + y(OperandTokens))
                            - (x(OperatorTokens) + y(OperatorTokens))
        /\ Ahead(s) = x(OperandTokens) - x(OperatorTokens)
        /\ Ahead(t) = y(OperandTokens) - y(OperatorTokens)
    BY <2>1 DEF Ahead
  <2> HIDE DEF x, y
  <2>3. QED
    BY <2>1, <2>2
<1>2. ASSUME NEW s \in Seq(Tokens) PROVE Ahead(s) \in Int
  <2>1. Occurrences(OperandTokens, s) \in Nat /\ Occurrences(OperatorTokens, s) \in Nat
    BY Occur
  <2>2. QED
    BY <2>1 DEF Ahead
<1>3. Ahead(<< >>) = 0
  <2>1. Occurrences(OperandTokens, << >>) = 0 /\ Occurrences(OperatorTokens, << >>) = 0
    BY Occur
  <2>2. QED
    BY <2>1 DEF Ahead
<1>4. ASSUME NEW t \in Tokens
      PROVE  /\ t \in OperandTokens => Ahead(<<t>>) = 1
             /\ t \in OperatorTokens => Ahead(<<t>>) = -1
  <2>1. \A k : Occurrences(k, <<t>>) = IF t \in k THEN 1 ELSE 0
    BY Occur
  <2>2. t \in OperandTokens <=> t \notin OperatorTokens
    BY OperatorsAndOperands
  <2>3. QED
    BY <2>1, <2>2 DEF Ahead
<1>5. QED
  BY <1>1, <1>2, <1>3, <1>4, OperatorsAndOperands

Counts(p) ==
    /\ Ahead(p) = 1 /\ Len(p) >= 1
    /\ \A j \in 0..Len(p) - 1 : Ahead(SubSeq(p, 1, j)) <= 0

LEMMA PolishCounts == \A p \in Polish : p \in Seq(Tokens) /\ Counts(p)
<1> DEFINE C == {p \in Seq(Tokens) : Counts(p)}
<1>0. \A s \in Seq(Tokens) : Ahead(SubSeq(s, 1, 0)) <= 0
  <2>1. \A s \in Seq(Tokens) : SubSeq(s, 1, 0) = << >>
    BY SubSeqEmpty
  <2>2. Ahead(<< >>) <= 0
    <3>1. Ahead(<< >>) = 0
      BY AheadAdds
    <3>2. QED
      BY <3>1
  <2>3. QED
    BY <2>1, <2>2
<1>1. HasOperands(C)
  <2> SUFFICES ASSUME NEW t \in OperandTokens PROVE <<t>> \in C
    BY DEF HasOperands
  <2> DEFINE s == <<t>>
  <2>1. t \in Tokens
    BY OperatorsAndOperands
  <2>2. s \in Seq(Tokens) /\ Len(s) = 1
    BY <2>1
  <2>3. Ahead(s) = 1
    BY AheadAdds
  <2> HIDE DEF s
  <2>4. \A j \in 0..Len(s) - 1 : j = 0
    BY <2>2
  <2>5. Ahead(SubSeq(s, 1, 0)) <= 0
    BY <1>0, <2>2
  <2>6. Counts(s)
    BY <2>2, <2>3, <2>4, <2>5 DEF Counts
  <2>7. QED
    BY <2>2, <2>6 DEF s
<1>2. HasOperations(C)
  <2> SUFFICES ASSUME NEW o \in OperatorTokens \ {Close}, NEW a \in C, NEW b \in C
               PROVE  <<o>> \o a \o b \in C
    BY DEF HasOperations
  <2> DEFINE s == <<o>>
             ab == a \o b
             p == s \o ab
             n == Len(a)
             m == Len(b)
  <2>1. o \in Tokens /\ a \in Seq(Tokens) /\ b \in Seq(Tokens)
    BY OperatorsAndOperands
  <2>2. /\ <<o>> \o a \o b = p /\ p \in Seq(Tokens) /\ Len(p) = 1 + n + m
        /\ ab \in Seq(Tokens) /\ s \in Seq(Tokens)
    BY <2>1, Operation
  <2>3. n \in Nat /\ m \in Nat /\ Len(s) = 1 /\ Ahead(s) = -1 /\ n >= 1
    BY <2>1, LenProperties, AheadAdds DEF Counts
  <2>4. Ahead(a) = 1 /\ Ahead(b) = 1
    BY DEF Counts
  <2>5. Ahead(p) = 1
    <3>1. Ahead(ab) = 2
      BY <2>1, <2>4, AheadAdds
    <3> HIDE DEF s, ab
    <3>2. QED
      BY <2>2, <2>3, <3>1, AheadAdds
  <2>6. ASSUME NEW j \in 0..Len(p) - 1 PROVE Ahead(SubSeq(p, 1, j)) <= 0
    <3>1. CASE j = 0
      <4> HIDE DEF p
      <4>1. QED
        BY <1>0, <2>2, <3>1
    <3>2. CASE j # 0
      <4> DEFINE i == j - 1
                 u == SubSeq(ab, 1, i)
      <4>1. i \in 0..n + m - 1 /\ j = 1 + i
        BY <2>2, <2>3, <3>2
      <4>2. Len(ab) = n + m
        BY <2>1, ConcatProperties
      <4>3. i \in 0..Len(ab)
        BY <2>3, <4>1, <4>2
      <4>4. u \in Seq(Tokens)
        BY <2>2, <4>3, Prefix
      <4>5. SubSeq(p, 1, 1 + i) = s \o u
        <5> HIDE DEF i, s, ab, n, m
        <5>1. PrefixesOf(s, ab)
          BY <2>2, PrefixOfConcat
        <5>2. SubSeq(s \o ab, 1, Len(s) + i) = s \o SubSeq(ab, 1, i)
          BY <4>3, <5>1 DEF PrefixesOf
        <5>3. QED
          BY <2>3, <5>2 DEF u
      <4>6. Ahead(u) <= 1
        <5>1. CASE i <= n
          <6>1. i \in 0..n
            BY <2>3, <4>1, <5>1
          <6>2. u = SubSeq(a, 1, i)
            BY <2>1, <6>1, PieceOfConcat
          <6>3. CASE i = n
            <7>1. SubSeq(a, 1, Len(a)) = a
              BY <2>1, SubSeqFull
            <7>2. u = a
              BY <6>2, <6>3, <7>1
            <7> HIDE DEF u
            <7>3. QED
              BY <2>4, <7>2
          <6>4. CASE i # n
            <7>1. i \in 0..Len(a) - 1
              BY <2>3, <6>1, <6>4
            <7> HIDE DEF i, u
            <7>2. Ahead(SubSeq(a, 1, i)) <= 0
              BY <7>1 DEF Counts
            <7>3. Ahead(u) \in Int
              BY <4>4, AheadAdds
            <7>4. QED
              BY <6>2, <7>2, <7>3
          <6>5. QED
            BY <6>3, <6>4
        <5>2. CASE ~(i <= n)
          <6> DEFINE h == i - n
                     v == SubSeq(b, 1, h)
          <6>1. h \in 0..Len(b) - 1 /\ h \in 0..Len(b) /\ i = n + h
            BY <2>3, <4>1, <5>2
          <6>2. u = a \o v
            <7> HIDE DEF h
            <7> HIDE DEF i
            <7>1. PrefixesOf(a, b)
              BY <2>1, PrefixOfConcat
            <7>2. SubSeq(a \o b, 1, Len(a) + h) = a \o SubSeq(b, 1, h)
              BY <6>1, <7>1 DEF PrefixesOf
            <7>3. QED
              BY <6>1, <7>2
          <6>3. Ahead(v) <= 0
            <7> HIDE DEF h
            <7>1. QED
              BY <6>1 DEF Counts
          <6>4. v \in Seq(Tokens)
            <7> HIDE DEF h
            <7>1. QED
              BY <2>1, <6>1, Prefix
          <6> HIDE DEF v, h, i, u
          <6>5. Ahead(u) = Ahead(a) + Ahead(v) /\ Ahead(v) \in Int
            BY <2>1, <6>2, <6>4, AheadAdds
          <6>6. QED
            BY <2>4, <6>3, <6>5
        <5>3. QED
          BY <5>1, <5>2
      <4> HIDE DEF u, i, s, p
      <4>7. Ahead(s \o u) = -1 + Ahead(u) /\ Ahead(u) \in Int
        BY <2>2, <2>3, <4>4, AheadAdds
      <4>8. SubSeq(p, 1, j) = s \o u
        BY <4>1, <4>5
      <4>9. Ahead(s \o u) <= 0
        BY <4>6, <4>7
      <4>10. QED
        BY <4>8, <4>9
    <3>3. QED
      BY <3>1, <3>2
  <2>7. Len(p) >= 1
    BY <2>2, <2>3
  <2> HIDE DEF p
  <2>8. Counts(p)
    BY <2>5, <2>6, <2>7 DEF Counts
  <2>9. QED
    BY <2>2, <2>8
<1>3. Polish \subseteq C
  <2>1. C \subseteq Seq(Tokens)
    OBVIOUS
  <2> HIDE DEF C
  <2>2. QED
    BY <1>1, <1>2, <2>1, PolishInduction
<1>4. QED
  BY <1>3

\* The operands of an operation are found where they are.
LEMMA Sides ==
    ASSUME NEW o \in OperatorTokens \ {Close}, NEW a \in Polish, NEW b \in Polish
    PROVE  /\ Left(<<o>> \o a \o b) = a
           /\ Right(<<o>> \o a \o b) = b
           /\ Len(<<o>> \o a \o b) > 1
<1> DEFINE s == <<o>>
           ab == a \o b
           p == s \o ab
           n == Len(a)
           m == Len(b)
           e == EndOf(p, 2)
<1>1. /\ o \in Tokens /\ a \in Seq(Tokens) /\ b \in Seq(Tokens) /\ Counts(a) /\ Counts(b)
  BY PolishCounts, OperatorsAndOperands
<1>2. /\ <<o>> \o a \o b = p /\ p \in Seq(Tokens) /\ Len(p) = 1 + n + m
      /\ ab \in Seq(Tokens) /\ s \in Seq(Tokens)
  BY <1>1, Operation
<1>3. n \in Nat /\ m \in Nat /\ Len(s) = 1 /\ n >= 1 /\ m >= 1 /\ Len(ab) = n + m
  BY <1>1, LenProperties, ConcatProperties DEF Counts
<1>4. Len(p) > 1
  BY <1>2, <1>3
<1>5. ASSUME NEW j \in 1..Len(p) PROVE SubSeq(p, 2, j) = SubSeq(ab, 1, j - 1)
  <2> DEFINE i == j - 1
  <2>1. 1 \in 1..Len(ab) + 1 /\ i \in 1 - 1..Len(ab) /\ j = Len(s) + i /\ Len(s) + 1 = 2
    BY <1>2, <1>3
  <2> HIDE DEF i, s, ab
  <2>2. SubSeq(s \o ab, Len(s) + 1, Len(s) + i) = SubSeq(ab, 1, i)
    <3> HIDE DEF n, m
    <3>1. QED
      BY <1>2, <2>1, PieceOfConcat
  <2>3. QED
    BY <2>1, <2>2 DEF i
<1>6. \A i \in 0..n : SubSeq(ab, 1, i) = SubSeq(a, 1, i)
  BY <1>1, PieceOfConcat
<1>7. SubSeq(a, 1, n) = a
  BY <1>1, SubSeqFull
<1>8. SubSeq(p, 2, 1 + n) = a
  <2>1. 1 + n \in 1..Len(p) /\ 1 + n - 1 = n /\ n \in 0..n
    BY <1>2, <1>3
  <2> HIDE DEF p, ab, n
  <2>2. SubSeq(p, 2, 1 + n) = SubSeq(ab, 1, n)
    BY <1>5, <2>1
  <2>3. QED
    BY <1>6, <1>7, <2>1, <2>2
<1>9. \A q \in Seq(Tokens) :
        Occurrences(OperandTokens, q) > Occurrences(OperatorTokens, q) <=> Ahead(q) > 0
  <2> SUFFICES ASSUME NEW q \in Seq(Tokens)
               PROVE  Occurrences(OperandTokens, q) > Occurrences(OperatorTokens, q)
                        <=> Ahead(q) > 0
    OBVIOUS
  <2>1. Occurrences(OperandTokens, q) \in Nat /\ Occurrences(OperatorTokens, q) \in Nat
    BY Occur
  <2>2. QED
    BY <2>1 DEF Ahead
<1>10. e \in 2..Len(p) /\ e <= 1 + n
  <2> HIDE DEF p
  <2>1. e \in 2..Len(p)
    BY <1>2, <1>4, EndsInside
  <2>2. Ahead(a) > 0
    BY <1>1 DEF Counts
  <2>3. 1 + n \in 2..Len(p)
    BY <1>2, <1>3
  <2> HIDE DEF n
  <2>4. Occurrences(OperandTokens, SubSeq(p, 2, 1 + n)) >
          Occurrences(OperatorTokens, SubSeq(p, 2, 1 + n))
    BY <1>1, <1>8, <1>9, <2>2
  <2>5. e <= 1 + n
    BY <1>2, <1>4, <2>3, <2>4, EndsInside
  <2>6. QED
    BY <2>1, <2>5
<1>11. e = 1 + n
  <2> HIDE DEF e
  <2>1. e \in Nat /\ 2 <= e /\ e <= Len(p) /\ e <= 1 + n
    BY <1>2, <1>3, <1>10
  <2>2. SUFFICES ASSUME e < 1 + n PROVE FALSE
    BY <1>3, <2>1
  <2>3. e # Len(p)
    BY <1>2, <1>3, <2>1, <2>2
  <2> DEFINE q == SubSeq(a, 1, e - 1)
  <2>4. e - 1 \in 0..Len(a) - 1 /\ e - 1 \in 0..Len(a) /\ e \in 1..Len(p)
    BY <1>2, <1>3, <2>1, <2>2
  <2>5. SubSeq(p, 2, e) = q
    <3> HIDE DEF p, ab
    <3>1. QED
      BY <1>5, <1>6, <2>4
  <2>6. Occurrences(OperandTokens, q) > Occurrences(OperatorTokens, q)
    <3> HIDE DEF p, q
    <3>1. QED
      BY <1>2, <1>4, <2>3, <2>5, EndsInside DEF e
  <2>7. q \in Seq(Tokens)
    BY <1>1, <2>4, Prefix
  <2>8. Ahead(q) <= 0
    BY <1>1, <2>4 DEF Counts
  <2>9. Ahead(q) > 0 /\ Ahead(q) \in Int
    <3> HIDE DEF q
    <3>1. QED
      BY <1>9, <2>6, <2>7, AheadAdds
  <2> HIDE DEF q
  <2>10. QED
    BY <2>8, <2>9
<1>12. Left(p) = a
  <2> HIDE DEF p, n
  <2>1. QED
    BY <1>8, <1>11 DEF Left
<1>13. Right(p) = b
  <2> DEFINE f == s \o a
  <2>1. f \in Seq(Tokens) /\ Len(f) = 1 + n /\ p = f \o b
    BY <1>1, <1>2, <1>3, Operation, ConcatProperties
  <2> HIDE DEF f, p
  <2>2. SubSeq(p, 1 + n + 1, Len(p)) = b
    BY <1>1, <2>1, PieceOfConcat
  <2>3. QED
    BY <1>11, <2>2 DEF Right
<1>14. QED
  <2> HIDE DEF p
  <2>1. QED
    BY <1>2, <1>4, <1>12, <1>13

-----------------------------------------------------------------------------
(***************************************************************************)
(* The operands are in Polish notation, and every parenthesis read is      *)
(* somewhere: an open one was closed, waits among the operators or became  *)
(* the operator of an operand.                                             *)
(***************************************************************************)

Read == SubSeq(tokens, 1, pos - 1)
Opened(s) == Occurrences({Open}, s)
Closed(s) == Occurrences({Close}, s)

InPolish == operands \in Seq(Polish)
Balanced == Opened(Read) = Closed(Read) + Opened(operators) + Opened(FlattenSeq(operands))

LEMMA ReadType == ASSUME TypeOK PROVE Read \in Seq(Tokens) /\ Len(Read) = pos - 1
<1>1. pos - 1 \in 0..Len(tokens) /\ tokens \in Seq(Tokens)
  BY LenProperties DEF TypeOK
<1>2. QED
  BY <1>1, Prefix DEF Read

\* One token more is read.
LEMMA ReadOne ==
    ASSUME NEW S, NEW s \in Seq(S), NEW i \in 1..Len(s)
    PROVE  /\ SubSeq(s, 1, i) = SubSeq(s, 1, i - 1) \o <<s[i]>>
           /\ SubSeq(s, 1, i - 1) \in Seq(S) /\ s[i] \in S
<1>1. Len(s) \in Nat /\ i \in Nat /\ 1 <= i /\ i <= Len(s)
  BY LenProperties
<1>2. 1 \in 1..Len(s) /\ i \in 1..Len(s) /\ i - 1 \in 0..Len(s)
  BY <1>1
<1>3. SubSeq(s, 1, i) = SubSeq(s, 1, i - 1) \o <<s[i]>>
  BY <1>2, SubSeqRecursiveSecond
<1>4. QED
  BY <1>2, <1>3, Prefix, ElementOfSeq

LEMMA Parenthesis ==
    /\ Opened(<< >>) = 0 /\ Closed(<< >>) = 0
    /\ \A s \in Seq(Tokens) : Opened(s) \in Nat /\ Closed(s) \in Nat
    /\ \A s, t \in Seq(Tokens) :
         Opened(s \o t) = Opened(s) + Opened(t) /\ Closed(s \o t) = Closed(s) + Closed(t)
    /\ \A t \in Tokens : Opened(<<t>>) = (IF t = Open THEN 1 ELSE 0)
                         /\ Closed(<<t>>) = (IF t = Close THEN 1 ELSE 0)
    /\ \A t \in OperandTokens : Opened(<<t>>) = 0 /\ Closed(<<t>>) = 0
<1>1. \A t \in Tokens : Opened(<<t>>) = (IF t = Open THEN 1 ELSE 0)
                        /\ Closed(<<t>>) = (IF t = Close THEN 1 ELSE 0)
  <2> SUFFICES ASSUME NEW t \in Tokens
               PROVE  Opened(<<t>>) = (IF t = Open THEN 1 ELSE 0)
                      /\ Closed(<<t>>) = (IF t = Close THEN 1 ELSE 0)
    OBVIOUS
  <2>1. /\ Occurrences({Open}, <<t>>) = IF t \in {Open} THEN 1 ELSE 0
        /\ Occurrences({Close}, <<t>>) = IF t \in {Close} THEN 1 ELSE 0
    BY Occur
  <2>2. QED
    BY <2>1 DEF Opened, Closed
<1>2. \A t \in OperandTokens : Opened(<<t>>) = 0 /\ Closed(<<t>>) = 0
  BY <1>1, OperatorsAndOperands
<1>3. \A s, t \in Seq(Tokens) :
         Opened(s \o t) = Opened(s) + Opened(t) /\ Closed(s \o t) = Closed(s) + Closed(t)
  BY Occur DEF Opened, Closed
<1>4. /\ Opened(<< >>) = 0 /\ Closed(<< >>) = 0
      /\ \A s \in Seq(Tokens) : Opened(s) \in Nat /\ Closed(s) \in Nat
  BY Occur DEF Opened, Closed
<1>5. QED
  BY <1>1, <1>2, <1>3, <1>4

\* Pushing an operand.
LEMMA PushedOperand ==
    ASSUME NEW s \in Seq(Polish), NEW p \in Polish
    PROVE  /\ Append(s, p) \in Seq(Polish)
           /\ FlattenSeq(s) \in Seq(Tokens) /\ p \in Seq(Tokens)
           /\ FlattenSeq(Append(s, p)) = FlattenSeq(s) \o p
<1>1. Polish \subseteq Seq(Tokens)
  BY DEF Polish
<1>2. s \in Seq(Seq(Tokens)) /\ p \in Seq(Tokens)
  BY <1>1, SeqMonotonic
<1>3. QED
  BY <1>2, Flatten, AppendProperties

\* Making an operation of the two operands on top.
LEMMA MadeOperation ==
    ASSUME NEW s \in Seq(Polish), NEW o \in OperatorTokens \ {Close}, ~(Len(s) < 2)
    PROVE  LET n == Len(s)
               rest == SubSeq(s, 1, n - 2)
               made == <<o>> \o s[n - 1] \o s[n]
           IN  /\ rest \in Seq(Polish) /\ s[n - 1] \in Polish /\ s[n] \in Polish
               /\ made \in Polish
               /\ Append(rest, made) \in Seq(Polish)
               /\ FlattenSeq(rest) \in Seq(Tokens)
               /\ FlattenSeq(s) = FlattenSeq(rest) \o s[n - 1] \o s[n]
               /\ FlattenSeq(Append(rest, made)) = FlattenSeq(rest) \o made
<1> DEFINE n == Len(s)
           rest == SubSeq(s, 1, n - 2)
           a == s[n - 1]
           b == s[n]
           made == <<o>> \o a \o b
<1>1. rest \in Seq(Polish) /\ a \in Polish /\ b \in Polish /\ s = Append(Append(rest, a), b)
  BY TopTwo
<1> HIDE DEF n, rest, a, b
<1>2. made \in Polish
  BY <1>1, PolishGrows DEF HasOperations
<1> HIDE DEF made
<1>3. Append(rest, a) \in Seq(Polish) /\ FlattenSeq(Append(rest, a)) = FlattenSeq(rest) \o a
  BY <1>1, PushedOperand
<1>4. FlattenSeq(s) = FlattenSeq(rest) \o a \o b
  <2> DEFINE u == Append(rest, a)
  <2>1. u \in Seq(Polish) /\ s = Append(u, b) /\ FlattenSeq(u) = FlattenSeq(rest) \o a
    BY <1>1, <1>3
  <2> HIDE DEF u
  <2>2. FlattenSeq(s) = FlattenSeq(u) \o b
    BY <1>1, <2>1, PushedOperand
  <2>3. QED
    BY <2>1, <2>2
<1>5. /\ Append(rest, made) \in Seq(Polish) /\ FlattenSeq(rest) \in Seq(Tokens)
      /\ FlattenSeq(Append(rest, made)) = FlattenSeq(rest) \o made
  BY <1>1, <1>2, PushedOperand
<1>6. QED
  BY <1>1, <1>2, <1>4, <1>5 DEF n, rest, a, b, made

LEMMA BalanceOperand ==
    ASSUME Inv, InPolish, Balanced, ~AtEnd, Current \in OperandTokens,
           NEW t \in OperandTokens, NEW used \in {1, 2}, Operand(t, used),
           used = 2 => Suffix(pos)
    PROVE  InPolish' /\ Balanced'
<1>0. /\ tokens \in Seq(Tokens) /\ Len(tokens) \in Nat /\ pos \in Nat /\ pos \in 1..Len(tokens)
      /\ Read \in Seq(Tokens) /\ tokens' = tokens /\ pos' = pos + used /\ operators' = operators
  BY LenProperties, ReadType DEF Inv, TypeOK, AtEnd, Operand
<1>1. OperandTokens \subseteq Tokens
  BY OperatorsAndOperands
<1>2. \A x \in OperandTokens : <<x>> \in Seq(Tokens)
  BY <1>1
<1> DEFINE r1 == SubSeq(tokens, 1, pos)
           r2 == SubSeq(tokens, 1, pos + 1)
<1>3. r1 \in Seq(Tokens) /\ Opened(r1) = Opened(Read) /\ Closed(r1) = Closed(Read)
  <2>1. r1 = Read \o <<Current>>
    BY <1>0, ReadOne DEF Read, Current
  <2>2. Opened(<<Current>>) = 0 /\ Closed(<<Current>>) = 0 /\ <<Current>> \in Seq(Tokens)
    BY <1>2, Parenthesis
  <2>3. Opened(Read) \in Nat /\ Closed(Read) \in Nat
    BY <1>0, Parenthesis
  <2> HIDE DEF r1
  <2>4. Opened(r1) = Opened(Read) + 0 /\ Closed(r1) = Closed(Read) + 0
    BY <1>0, <2>1, <2>2, Parenthesis
  <2>5. r1 \in Seq(Tokens)
    BY <1>0, <2>1, <2>2, ConcatProperties
  <2>6. QED
    BY <2>3, <2>4, <2>5
<1>4. used = 2 => Opened(r2) = Opened(Read) /\ Closed(r2) = Closed(Read)
  <2> SUFFICES ASSUME used = 2 PROVE Opened(r2) = Opened(Read) /\ Closed(r2) = Closed(Read)
    OBVIOUS
  <2> DEFINE i == pos + 1
             d == tokens[i]
  <2>1. i \in 1..Len(tokens) /\ i - 1 = pos /\ d = Token("IDENTIFIER", <<"d">>)
    BY <1>0 DEF Suffix
  <2>2. SubSeq(tokens, 1, i) = SubSeq(tokens, 1, i - 1) \o <<d>> /\ d \in Tokens
    <3> HIDE DEF i
    <3>1. QED
      BY <1>0, <2>1, ReadOne
  <2>3. r2 = r1 \o <<d>>
    BY <2>1, <2>2
  <2>4. d \in OperandTokens
    BY <2>1, <2>2 DEF OperandTokens, Token
  <2> HIDE DEF d
  <2>5. Opened(<<d>>) = 0 /\ Closed(<<d>>) = 0 /\ <<d>> \in Seq(Tokens)
    BY <1>2, <2>4, Parenthesis
  <2>6. Opened(Read) \in Nat /\ Closed(Read) \in Nat
    BY <1>0, Parenthesis
  <2> HIDE DEF r1, r2
  <2>7. Opened(r2) = Opened(r1) + 0 /\ Closed(r2) = Closed(r1) + 0
    BY <1>3, <2>3, <2>5, Parenthesis
  <2>8. QED
    BY <1>3, <2>6, <2>7
<1>5. Opened(Read') = Opened(Read) /\ Closed(Read') = Closed(Read)
  <2>1. CASE used = 1
    <3>1. Read' = r1
      BY <1>0, <2>1 DEF Read
    <3>2. QED
      BY <1>3, <3>1
  <2>2. CASE used = 2
    <3>1. Read' = r2
      BY <1>0, <2>2 DEF Read
    <3>2. QED
      BY <1>4, <2>2, <3>1
  <2>3. QED
    BY <2>1, <2>2
<1>6. <<t>> \in Polish
  BY PolishGrows DEF HasOperands
<1>7. operands' = Append(operands, <<t>>) /\ operands \in Seq(Polish)
  BY DEF Operand, InPolish
<1> DEFINE p == <<t>>
           f == FlattenSeq(operands)
<1>8. Opened(p) = 0 /\ p \in Polish
  BY <1>6, Parenthesis
<1> HIDE DEF p
<1>9. /\ operands' \in Seq(Polish) /\ f \in Seq(Tokens) /\ p \in Seq(Tokens)
      /\ FlattenSeq(operands') = f \o p
  <2>1. operands' = Append(operands, p)
    BY <1>7 DEF p
  <2>2. QED
    BY <1>7, <1>8, <2>1, PushedOperand
<1>10. Opened(FlattenSeq(operands')) = Opened(f)
  <2> HIDE DEF f
  <2>1. Opened(f \o p) = Opened(f) + 0 /\ Opened(f) \in Nat
    BY <1>8, <1>9, Parenthesis
  <2>2. QED
    BY <1>9, <2>1
<1>11. Balanced'
  BY <1>0, <1>5, <1>10 DEF Balanced
<1>12. QED
  BY <1>9, <1>11 DEF InPolish

LEMMA BalanceNext == Inv /\ InPolish /\ Balanced /\ [Next]_vars => InPolish' /\ Balanced'
<1> SUFFICES ASSUME Inv, InPolish, Balanced, [Next]_vars PROVE InPolish' /\ Balanced'
  OBVIOUS
<1> DEFINE O == OperatorTokens \ {Close}
<1>0. /\ Len(tokens) \in Nat /\ pos \in Nat /\ 1 <= pos /\ pos <= Len(tokens) + 1
      /\ operators \in Seq(O) /\ operators \in Seq(Tokens) /\ tokens \in Seq(Tokens)
      /\ Read \in Seq(Tokens) /\ operands \in Seq(Polish) /\ FlattenSeq(operands) \in Seq(Tokens)
  <2>1. Polish \subseteq Seq(Tokens) /\ O \subseteq Tokens
    BY OperatorsAndOperands DEF Polish
  <2>2. operators \in Seq(Tokens) /\ operands \in Seq(Seq(Tokens))
    BY <2>1, SeqMonotonic DEF Inv, TypeOK, InPolish
  <2>3. FlattenSeq(operands) \in Seq(Tokens)
    BY <2>2, Flatten
  <2>4. QED
    BY <2>2, <2>3, LenProperties, ReadType DEF Inv, TypeOK, InPolish
<1>1. ~AtEnd => pos \in 1..Len(tokens) /\ Current \in Tokens
  BY <1>0, ElementOfSeq DEF AtEnd, Current
<1>2. /\ Opened(Read) \in Nat /\ Closed(Read) \in Nat /\ Opened(operators) \in Nat
       /\ Opened(FlattenSeq(operands)) \in Nat
  BY <1>0, Parenthesis
<1>3. ASSUME pos' = pos, operands' = operands, operators' = operators, tokens' = tokens
      PROVE  InPolish' /\ Balanced'
  BY <1>3 DEF InPolish, Balanced, Read
<1>4. ASSUME NEW t \in Alphabet, Type(t) PROVE InPolish' /\ Balanced'
  BY <1>3, <1>4 DEF Type
<1>5. CASE Submit
  <2>1. pos = 1 /\ pos' = 1 /\ operands' = operands /\ operators' = operators
    BY <1>5 DEF Submit, Inv, Started
  <2>2. Read' = Read
    <3>1. SubSeq(tokens, 1, 0) = << >> /\ SubSeq(tokens', 1, 0) = << >>
      BY SubSeqEmpty
    <3>2. pos - 1 = 0 /\ pos' - 1 = 0
      BY <2>1
    <3>3. QED
      BY <3>1, <3>2 DEF Read
  <2>3. QED
    BY <2>1, <2>2 DEF InPolish, Balanced
<1>6. CASE Make
  <2>1. operators # << >>
    BY <1>6 DEF Make, MustMake
  <2>2. Top \in O /\ Front(operators) \in Seq(O) /\ operators = Append(Front(operators), Top)
    <3> HIDE DEF O
    <3>1. QED
      BY <1>0, <2>1, TopOfStack DEF Top
  <2>3. CASE Len(operands) < 2
    BY <1>3, <1>6, <2>3 DEF Make
  <2>4. CASE ~(Len(operands) < 2)
    <3> DEFINE n == Len(operands)
               rest == SubSeq(operands, 1, n - 2)
               a == operands[n - 1]
               b == operands[n]
               made == <<Top>> \o a \o b
               f == FlattenSeq(rest)
               front == Front(operators)
               ot == <<Top>>
    <3>1. /\ operands' = Append(rest, made) /\ operators' = front
          /\ UNCHANGED <<tokens, pos>>
      BY <1>6, <2>4 DEF Make
    <3>2. /\ a \in Polish /\ b \in Polish
          /\ Append(rest, made) \in Seq(Polish) /\ f \in Seq(Tokens)
          /\ FlattenSeq(operands) = f \o a \o b
          /\ FlattenSeq(Append(rest, made)) = f \o made
      <4>1. Top \in OperatorTokens \ {Close}
        BY <2>2
      <4>2. QED
        BY <1>0, <2>4, <4>1, MadeOperation
    <3>3. Top \in Tokens /\ a \in Seq(Tokens) /\ b \in Seq(Tokens) /\ front \in Seq(Tokens)
      <4>1. O \subseteq Tokens
        BY OperatorsAndOperands
      <4>2. front \in Seq(Tokens)
        BY <2>2, <4>1, SeqMonotonic
      <4>3. QED
        BY <2>2, <3>2, <4>1, <4>2 DEF Polish
    <3>4. ot \in Seq(Tokens)
      BY <3>3
    <3>5. operators = front \o ot
      BY <2>2, <3>3, AppendIsConcat
    <3> HIDE DEF rest, a, b, f, front, ot
    <3>6. /\ Opened(f \o a) = Opened(f) + Opened(a) /\ f \o a \in Seq(Tokens)
          /\ Opened(ot \o a) = Opened(ot) + Opened(a) /\ ot \o a \in Seq(Tokens)
      BY <3>2, <3>3, <3>4, Parenthesis, ConcatProperties
    <3>7. /\ Opened(f \o a \o b) = Opened(f) + Opened(a) + Opened(b)
          /\ Opened(ot \o a \o b) = Opened(ot) + Opened(a) + Opened(b)
          /\ ot \o a \o b \in Seq(Tokens)
      BY <3>3, <3>6, Parenthesis, ConcatProperties
    <3>8. made = ot \o a \o b
      BY DEF ot
    <3> HIDE DEF made
    <3>9. Opened(f \o made) = Opened(f) + Opened(made)
      BY <3>2, <3>7, <3>8, Parenthesis
    <3>10. Opened(operators) = Opened(front) + Opened(ot)
      BY <3>3, <3>4, <3>5, Parenthesis
    <3>11. /\ Opened(f) \in Nat /\ Opened(a) \in Nat /\ Opened(b) \in Nat /\ Opened(ot) \in Nat
           /\ Opened(front) \in Nat
      BY <3>2, <3>3, <3>4, Parenthesis
    <3>12. Opened(front) + Opened(f \o made) = Opened(operators) + Opened(f \o a \o b)
      BY <3>7, <3>8, <3>9, <3>10, <3>11
    <3>13. Read' = Read
      BY <3>1 DEF Read
    <3>14. Opened(operators') + Opened(FlattenSeq(operands'))
             = Opened(operators) + Opened(FlattenSeq(operands))
      BY <3>1, <3>2, <3>12
    <3>15. /\ Opened(operators') \in Nat /\ Opened(FlattenSeq(operands')) \in Nat
      <4>1. f \o made \in Seq(Tokens)
        BY <3>2, <3>7, <3>8, ConcatProperties
      <4>2. QED
        BY <3>1, <3>2, <3>3, <4>1, Parenthesis
    <3>16. Balanced'
      BY <1>2, <3>13, <3>14, <3>15 DEF Balanced
    <3>17. QED
      BY <3>1, <3>2, <3>16 DEF InPolish
  <2>5. QED
    BY <2>3, <2>4
<1>7. CASE ReadInteger
  <2>1. Current \in OperandTokens /\ ~AtEnd
    BY <1>1, <1>7 DEF ReadInteger, OperandTokens
  <2>2. QED
    BY <1>7, <2>1, BalanceOperand DEF ReadInteger
<1>8. CASE Refuse
  BY <1>3, <1>8 DEF Refuse
<1>9. CASE ReadIdentifier
  <2>1. Current \in OperandTokens /\ ~AtEnd
    BY <1>1, <1>9 DEF ReadIdentifier, OperandTokens
  <2>2. QED
    BY <1>8, <1>9, <2>1, BalanceOperand DEF ReadIdentifier
<1>10. CASE ReadString
  <2>1. Current \in OperandTokens /\ Current.value \in Seq(Characters) /\ ~AtEnd
    BY <1>1, <1>10 DEF ReadString, OperandTokens, Tokens
  <2>2. Token("DATE", Current.value) \in OperandTokens
    BY <2>1 DEF OperandTokens, Tokens, Token, Types
  <2>3. QED
    BY <1>8, <1>10, <2>1, <2>2, BalanceOperand DEF ReadString
<1>11. ASSUME ~AtEnd, pos' = pos + 1, tokens' = tokens, operands' = operands,
             operators' \in Seq(Tokens),
             Opened(<<Current>>) + Opened(operators) =
               Closed(<<Current>>) + Opened(operators')
      PROVE  InPolish' /\ Balanced'
  <2>1. Read' = Read \o <<Current>> /\ <<Current>> \in Seq(Tokens)
    <3>1. SubSeq(tokens, 1, pos) = Read \o <<Current>>
      BY <1>0, <1>1, <1>11, ReadOne DEF Read, Current
    <3>2. pos' - 1 = pos
      BY <1>0, <1>11
    <3>3. Read' = SubSeq(tokens, 1, pos)
      BY <1>11, <3>2 DEF Read
    <3>4. <<Current>> \in Seq(Tokens)
      BY <1>1, <1>11
    <3>5. QED
      BY <3>1, <3>3, <3>4
  <2> DEFINE c == <<Current>>
  <2>2. c \in Seq(Tokens)
    BY <2>1
  <2> HIDE DEF c
  <2>3. /\ Opened(Read \o c) = Opened(Read) + Opened(c)
        /\ Closed(Read \o c) = Closed(Read) + Closed(c)
        /\ Opened(c) \in Nat /\ Closed(c) \in Nat /\ Opened(operators') \in Nat
    BY <1>0, <1>11, <2>2, Parenthesis
  <2>4. Opened(c) + Opened(operators) = Closed(c) + Opened(operators')
    BY <1>11 DEF c
  <2>5. Read' = Read \o c
    BY <2>1 DEF c
  <2>6. Opened(Read') = Closed(Read') + Opened(operators') + Opened(FlattenSeq(operands))
    <3> DEFINE f == Opened(FlattenSeq(operands))
    <3>1. Opened(Read) = Closed(Read) + Opened(operators) + f /\ f \in Nat
      BY <1>2 DEF Balanced
    <3>2. /\ Opened(Read') = Opened(Read) + Opened(c)
          /\ Closed(Read') = Closed(Read) + Closed(c)
      BY <2>3, <2>5
    <3> HIDE DEF f
    <3>3. Opened(Read') = Closed(Read') + Opened(operators') + f
      BY <1>2, <2>3, <2>4, <3>1, <3>2
    <3>4. QED
      BY <3>3 DEF f
  <2>7. QED
    BY <1>11, <2>6 DEF Balanced, InPolish
<1>12. CASE ReadClose
  <2>1. CASE operators = << >>
    BY <1>3, <1>12, <2>1 DEF ReadClose
  <2>2. CASE operators # << >>
    <3>1. Top \in O /\ Front(operators) \in Seq(O) /\ operators = Append(Front(operators), Top)
      <4> HIDE DEF O
      <4>1. QED
        BY <1>0, <2>2, TopOfStack DEF Top
    <3>2. Current = Close /\ Top = Open /\ ~AtEnd
      BY <1>12, <2>2 DEF ReadClose, MustMake
    <3>3. Front(operators) \in Seq(Tokens) /\ <<Open>> \in Seq(Tokens)
      <4>1. O \subseteq Tokens
        BY OperatorsAndOperands
      <4>2. QED
        BY <3>1, <4>1, SeqMonotonic, Parentheses
    <3> DEFINE front == Front(operators)
               open == <<Open>>
    <3>4. operators = front \o open
      BY <3>1, <3>2, <3>3, AppendIsConcat
    <3>5. Opened(open) = 1 /\ Opened(<<Close>>) = 0 /\ Closed(<<Close>>) = 1
      BY Parenthesis, OperatorsAndOperands
    <3> HIDE DEF front, open
    <3>6. Opened(operators) = Opened(front) + 1 /\ Opened(front) \in Nat
      <4>1. front \in Seq(Tokens) /\ open \in Seq(Tokens)
        BY <3>3 DEF front, open
      <4>2. QED
        BY <3>4, <3>5, <4>1, Parenthesis
    <3>7. /\ pos' = pos + 1 /\ tokens' = tokens /\ operands' = operands /\ operators' = front
      BY <1>12, <2>2 DEF ReadClose, front
    <3>8. Opened(<<Current>>) + Opened(operators) = Closed(<<Current>>) + Opened(operators')
      BY <3>2, <3>5, <3>6, <3>7
    <3>9. QED
      BY <1>11, <3>2, <3>3, <3>7, <3>8 DEF front
  <2>3. QED
    BY <2>1, <2>2
<1>13. CASE ReadOpenOrBinary
  <2>1. Current \in Tokens /\ Current # Close /\ ~AtEnd
    BY <1>1, <1>13 DEF ReadOpenOrBinary
  <2>2. /\ pos' = pos + 1 /\ tokens' = tokens /\ operands' = operands
        /\ operators' = Append(operators, Current)
    BY <1>13 DEF ReadOpenOrBinary
  <2>3. operators' = operators \o <<Current>> /\ <<Current>> \in Seq(Tokens)
    BY <1>0, <2>1, <2>2, AppendIsConcat
  <2>4. Closed(<<Current>>) = 0
    BY <2>1, Parenthesis
  <2> DEFINE c == <<Current>>
  <2> HIDE DEF c
  <2>5. c \in Seq(Tokens) /\ operators' = operators \o c
    BY <2>3 DEF c
  <2>6. Opened(operators') = Opened(operators) + Opened(c) /\ Opened(c) \in Nat
        /\ operators' \in Seq(Tokens)
    BY <1>0, <2>5, Parenthesis, ConcatProperties
  <2>7. Opened(c) + Opened(operators) = 0 + Opened(operators')
    BY <1>2, <2>6
  <2>8. QED
    BY <1>11, <2>1, <2>2, <2>4, <2>6, <2>7 DEF c
<1>14. CASE Finish
  BY <1>3, <1>14 DEF Finish
<1>15. CASE Query
  BY <1>3, <1>15 DEF Query
<1>16. CASE UNCHANGED vars
  BY <1>3, <1>16 DEF vars
<1>17. QED
  BY <1>4, <1>5, <1>6, <1>7, <1>9, <1>10, <1>12, <1>13, <1>14, <1>15, <1>16 DEF Next

\* What does not stand in a sequence does not occur in it.
LEMMA Absent ==
    ASSUME NEW kind, NEW s \in Seq(Tokens), kind \cap ToSet(s) = {}
    PROVE  Occurrences(kind, s) = 0
<1> DEFINE Good == {t \in Seq(Tokens) : kind \cap ToSet(t) = {} => Occurrences(kind, t) = 0}
<1>1. ASSUME NEW t \in Seq(Tokens), \A u \in Seq(Tokens) : Len(u) < Len(t) => u \in Good
      PROVE  t \in Good
  <2>1. CASE t = << >>
    BY <2>1, Occur
  <2>2. CASE t # << >>
    <3>1. /\ Head(t) \in Tokens /\ Tail(t) \in Seq(Tokens) /\ Tail(t) \in Good
      BY <1>1, <2>2, TailIsShorter
    <3>2. SUFFICES ASSUME kind \cap ToSet(t) = {} PROVE Occurrences(kind, t) = 0
      OBVIOUS
    <3>3. /\ Len(t) \in Nat /\ Len(t) # 0 /\ Len(Tail(t)) = Len(t) - 1
          /\ \A i \in 1..Len(Tail(t)) : Tail(t)[i] = t[i + 1]
          /\ Head(t) = t[1] /\ DOMAIN t = 1..Len(t) /\ DOMAIN Tail(t) = 1..Len(Tail(t))
      <4>1. Head(t) = t[1]
        OBVIOUS
      <4>2. Tail(t) \in Seq(Tokens)
        BY <3>1
      <4>3. QED
        BY <2>2, <4>1, <4>2, EmptySeq, LenProperties, HeadTailProperties
    <3>4. Head(t) \in ToSet(t)
      BY <3>3 DEF ToSet
    <3>5. ToSet(Tail(t)) \subseteq ToSet(t)
      <4> SUFFICES ASSUME NEW i \in 1..Len(Tail(t)) PROVE Tail(t)[i] \in ToSet(t)
        BY <3>3 DEF ToSet
      <4>1. i + 1 \in DOMAIN t
        BY <3>3
      <4>2. QED
        BY <3>3, <4>1 DEF ToSet
    <3>6. Occurrences(kind, Tail(t)) = 0 /\ Head(t) \notin kind
      BY <3>1, <3>2, <3>4, <3>5
    <3>7. Only(kind, t) = Only(kind, Tail(t))
      BY <2>2, <3>6, OnlyCases
    <3>8. QED
      BY <3>6, <3>7 DEF Occurrences
  <2>3. QED
    BY <2>1, <2>2
<1>2. Seq(Tokens) \subseteq Good
  <2> HIDE DEF Good
  <2>1. QED
    BY <1>1, ShorterFirst
<1>3. QED
  BY <1>2

\* The expression of a finished parse.
LEMMA TheResult ==
    ASSUME Inv, InPolish, phase \in {"accepted", "queried"}
    PROVE  /\ operands[1] \in Polish /\ operators = << >>
           /\ FlattenSeq(operands) = operands[1]
           /\ Read = tokens
           /\ \/ Single(operands[1]) /\ Result = << >>
              \/ Compound(operands[1]) /\ Result = operands[1]
<1>1. Len(operands) = 1 /\ operators = << >> /\ pos = Len(tokens) + 1
  BY DEF Inv, Done
<1>2. operands \in Seq(Polish)
  BY DEF InPolish
<1> DEFINE p == operands[1]
<1>3. p \in Polish
  BY <1>1, <1>2, ElementOfSeq
<1>4. FlattenSeq(operands) = p
  <2>1. << >> \in Seq(Polish) /\ << >> \in Seq(Seq(Tokens)) /\ FlattenSeq(<< >>) = << >>
    BY EmptySeq, Flatten
  <2>2. operands = <<p>>
    BY <1>1, <1>2
  <2>3. Append(<< >>, p) = <<p>>
    BY <1>3
  <2> HIDE DEF p
  <2>4. FlattenSeq(operands) = << >> \o p
    BY <1>3, <2>1, <2>2, <2>3, PushedOperand
  <2>5. p \in Seq(Tokens)
    BY <1>3, PolishCases
  <2>6. QED
    BY <2>4, <2>5, ConcatEmptySeq
<1>5. Read = tokens
  <2>1. pos - 1 = Len(tokens) /\ tokens \in Seq(Tokens)
    BY <1>1, LenProperties DEF Inv, TypeOK
  <2>2. QED
    BY <2>1, SubSeqFull DEF Read
<1>6. CASE Single(p)
  <2>1. PICK t \in OperandTokens : p = <<t>>
    BY <1>6 DEF Single
  <2>2. p[1] = t
    BY <2>1
  <2>3. ~IsBinary(t) /\ t # Open
    BY DEF IsBinary, OperandTokens, Open, Op, Token
  <2>4. Result = << >>
    BY <2>2, <2>3 DEF Result
  <2>5. QED
    BY <1>1, <1>3, <1>4, <1>5, <1>6, <2>4
<1>7. CASE Compound(p)
  <2>1. PICK o \in OperatorTokens \ {Close} : \E a, b \in Polish : p = <<o>> \o a \o b
    BY <1>7 DEF Compound
  <2>2. PICK a \in Polish : \E b \in Polish : p = <<o>> \o a \o b
    BY <2>1
  <2>3. PICK b \in Polish : p = <<o>> \o a \o b
    BY <2>2
  <2>4. a \in Seq(Tokens) /\ b \in Seq(Tokens) /\ o \in Tokens
    BY PolishCases, OperatorsAndOperands
  <2>5. p[1] = o
    BY <2>3, <2>4, Operation
  <2>6. IsBinary(o) \/ o = Open
    BY DEF IsBinary, OperatorTokens
  <2>7. Result = p
    BY <2>5, <2>6 DEF Result
  <2>8. QED
    BY <1>1, <1>3, <1>4, <1>5, <1>7, <2>7
<1>8. QED
  BY <1>3, <1>6, <1>7, PolishCases

LEMMA BalanceInvariance == Spec => [](Inv /\ InPolish /\ Balanced)
<1>1. Init => InPolish /\ Balanced
  <2> SUFFICES ASSUME Init PROVE InPolish /\ Balanced
    OBVIOUS
  <2>1. operands = << >> /\ operators = << >> /\ tokens = << >> /\ pos = 1
    BY DEF Init
  <2>2. InPolish
    BY <2>1, EmptySeq DEF InPolish
  <2>3. Read = << >>
    <3>1. SubSeq(tokens, 1, 0) = << >> /\ pos - 1 = 0
      BY <2>1, SubSeqEmpty
    <3>2. QED
      BY <3>1 DEF Read
  <2>4. FlattenSeq(operands) = << >>
    BY <2>1, Flatten
  <2>5. Opened(<< >>) = 0 /\ Closed(<< >>) = 0
    BY Parenthesis
  <2>6. Balanced
    BY <2>1, <2>3, <2>4, <2>5 DEF Balanced
  <2>7. QED
    BY <2>2, <2>6
<1>2. QED
  BY <1>1, InvInit, InvNext, BalanceNext, PTL DEF Spec

\* parse() accepts "5 ( 6", an operator "(" with two operands, but no operand of a
\* query has such an operator.
LEMMA QueriedCounts ==
    Inv /\ InPolish /\ Balanced /\ phase = "queried" => Opened(tokens) = Closed(tokens)
<1>1. ASSUME Inv, InPolish, Balanced, phase = "queried" PROVE Opened(tokens) = Closed(tokens)
  <2> DEFINE p == operands[1]
  <2>1. /\ p \in Polish /\ operators = << >> /\ FlattenSeq(operands) = p /\ Read = tokens
        /\ (Single(p) /\ Result = << >>) \/ (Compound(p) /\ Result = p)
    BY <1>1, TheResult
  <2>2. p \in Seq(Tokens) /\ tokens \in Seq(Tokens)
    BY <1>1, <2>1, PolishCases DEF Inv, TypeOK
  <2>3. Opened(p) = 0
    <3>1. CASE Single(p)
      <4>1. PICK t \in OperandTokens : p = <<t>>
        BY <3>1 DEF Single
      <4>2. QED
        BY <4>1, Parenthesis
    <3>2. CASE Result = p
      <4>1. {Open} \cap ToSet(p) = {}
        BY <1>1, <3>2 DEF Inv, Asked
      <4> HIDE DEF p
      <4>2. QED
        BY <2>2, <4>1, Absent DEF Opened
    <3>3. QED
      BY <2>1, <3>1, <3>2
  <2>4. Opened(tokens) = Closed(tokens) + 0 + 0
    BY <1>1, <2>1, <2>3, Parenthesis DEF Balanced
  <2>5. Closed(tokens) \in Nat
    BY <2>2, Parenthesis
  <2>6. QED
    BY <2>4, <2>5
<1>2. QED
  BY <1>1

-----------------------------------------------------------------------------
(***************************************************************************)
(* What was meant: dates put together.                                     *)
(***************************************************************************)

DateMark == Token("IDENTIFIER", <<"d">>)
DateString(t) == t.type = "STRING" /\ t.value \in Dates
StartsDate(r) == Len(r) > 1 /\ DateString(r[1]) /\ r[2] = DateMark
Date(t) == Token("DATE", t.value)

MeantStep(f) ==
    [r \in Seq(Tokens) |->
        IF r = << >> THEN << >>
        ELSE IF Len(r) > 1 /\ r[1].type = "STRING" /\ r[1].value \in Dates
                           /\ r[2] = Token("IDENTIFIER", <<"d">>)
        THEN <<Token("DATE", r[1].value)>> \o f[Tail(Tail(r))]
        ELSE <<r[1]>> \o f[Tail(r)]]

LEMMA TailsAreShorter ==
    ASSUME NEW S, NEW s \in Seq(S), s # << >>
    PROVE  /\ s[1] \in S /\ Tail(s) \in Seq(S) /\ Len(Tail(s)) = Len(s) - 1
           /\ Len(s) \in Nat /\ Len(s) >= 1
           /\ \A i \in 1..Len(s) - 1 : Tail(s)[i] = s[i + 1]
           /\ Len(s) > 1 => /\ Tail(s) # << >> /\ s[2] \in S
                            /\ Tail(Tail(s)) \in Seq(S) /\ Len(Tail(Tail(s))) = Len(s) - 2
                            /\ Last(Tail(s)) = Last(s)
                            /\ Head(Tail(s)) = s[2]
           /\ Head(s) = s[1]
<1>1. Len(s) \in Nat /\ Len(s) # 0
  BY EmptySeq, LenProperties
<1>2. 1 \in 1..Len(s)
  BY <1>1
<1> DEFINE t == Tail(s)
<1>3. t \in Seq(S) /\ Len(t) = Len(s) - 1 /\ \A i \in 1..Len(t) : t[i] = s[i + 1]
  BY HeadTailProperties
<1> HIDE DEF t
<1>4. ASSUME Len(s) > 1
      PROVE  /\ t # << >> /\ s[2] \in S
             /\ Tail(t) \in Seq(S) /\ Len(Tail(t)) = Len(s) - 2
             /\ Last(t) = Last(s) /\ Head(t) = s[2]
  <2>1. t # << >>
    BY <1>1, <1>3, <1>4, EmptySeq
  <2>2. Tail(t) \in Seq(S) /\ Len(Tail(t)) = Len(s) - 2
    BY <1>1, <1>3, <2>1, HeadTailProperties
  <2>3. 1 \in 1..Len(t) /\ Len(t) \in 1..Len(t) /\ 2 \in 1..Len(s) /\ Len(t) + 1 = Len(s)
    BY <1>1, <1>3, <1>4
  <2>4. Last(t) = Last(s)
    BY <1>3, <2>3 DEF Last
  <2>5. Head(t) = s[2]
    BY <1>3, <2>3
  <2>6. s[2] \in S
    BY <2>3, ElementOfSeq
  <2>7. QED
    BY <2>1, <2>2, <2>4, <2>5, <2>6
<1>5. s[1] \in S /\ Head(s) = s[1]
  BY <1>2, ElementOfSeq
<1>6. QED
  BY <1>1, <1>3, <1>4, <1>5 DEF t

LEMMA DateType == \A t \in Tokens : t.type = "STRING" => Date(t) \in OperandTokens
BY DEF Tokens, Types, Date, Token, OperandTokens

LEMMA MeantUnfolds ==
    /\ Meant(<< >>) = << >>
    /\ \A r \in Seq(Tokens) :
         /\ Meant(r) \in Seq(Tokens)
         /\ r # << >> /\ StartsDate(r) => Meant(r) = <<Date(r[1])>> \o Meant(Tail(Tail(r)))
         /\ r # << >> /\ ~StartsDate(r) => Meant(r) = <<r[1]>> \o Meant(Tail(r))
<1> DEFINE D == Seq(Tokens)
           meant == CHOOSE f : f = MeantStep(f)
           Phi == [f \in [D -> D] |-> MeantStep(f)]
<1>1. \A r : Meant(r) = meant[r]
  BY DEF Meant, MeantStep
<1>2. \A f : \A r \in D :
        MeantStep(f)[r] = IF r = << >> THEN << >>
                          ELSE IF StartsDate(r) THEN <<Date(r[1])>> \o f[Tail(Tail(r))]
                          ELSE <<r[1]>> \o f[Tail(r)]
  BY DEF MeantStep, StartsDate, DateString, DateMark, Date
<1>3. ASSUME NEW f, NEW r \in D, \A q \in D : Len(q) < Len(r) => f[q] \in D
      PROVE  MeantStep(f)[r] \in D
  <2>1. CASE r = << >>
    BY <1>2, <2>1
  <2>2. CASE r # << >> /\ StartsDate(r)
    <3>1. /\ r[1] \in Tokens /\ r[1].type = "STRING"
          /\ Tail(Tail(r)) \in D /\ Len(Tail(Tail(r))) < Len(r)
      BY <2>2, TailsAreShorter DEF StartsDate, DateString
    <3>2. Date(r[1]) \in Tokens
      BY <3>1, DateType, OperatorsAndOperands
    <3>3. f[Tail(Tail(r))] \in D
      BY <1>3, <3>1
    <3>4. <<Date(r[1])>> \o f[Tail(Tail(r))] \in D
      BY <3>2, <3>3, Prepend
    <3>5. QED
      BY <1>2, <2>2, <3>4
  <2>3. CASE r # << >> /\ ~StartsDate(r)
    <3>1. r[1] \in Tokens /\ Tail(r) \in D /\ Len(Tail(r)) < Len(r)
      BY <2>3, TailsAreShorter
    <3>2. f[Tail(r)] \in D
      BY <1>3, <3>1
    <3>3. <<r[1]>> \o f[Tail(r)] \in D
      BY <3>1, <3>2, Prepend
    <3>4. QED
      BY <1>2, <2>3, <3>3
  <2>4. QED
    BY <2>1, <2>2, <2>3
<1>4. Phi \in [[D -> D] -> [D -> D]]
  <2>1. ASSUME NEW f \in [D -> D] PROVE MeantStep(f) \in [D -> D]
    <3>1. \A s \in D : MeantStep(f)[s] \in D
      BY <1>3
    <3>2. QED
      BY <3>1 DEF MeantStep
  <2>2. QED
    BY <2>1
<1>5. ASSUME NEW f \in [D -> D], NEW g \in [D -> D], NEW r \in D,
             \A q \in D : Len(q) < Len(r) => f[q] = g[q]
      PROVE  Phi[f][r] = Phi[g][r]
  <2>1. r # << >> => f[Tail(r)] = g[Tail(r)]
    BY <1>5, TailIsShorter
  <2>2. r # << >> /\ StartsDate(r) => f[Tail(Tail(r))] = g[Tail(Tail(r))]
    <3>1. r # << >> /\ StartsDate(r) => Tail(Tail(r)) \in D /\ Len(Tail(Tail(r))) < Len(r)
      BY TailsAreShorter DEF StartsDate
    <3>2. QED
      BY <1>5, <3>1
  <2>3. MeantStep(f)[r] = MeantStep(g)[r]
    BY <1>2, <2>1, <2>2
  <2>4. QED
    BY <2>3
<1>6. meant = MeantStep(meant)
  <2>1. Solvable(Phi, D, D)
    <3> HIDE DEF Phi
    <3>1. Seq(Tokens) # {}
      BY EmptySeq
    <3>2. SeqRecursion(Phi, Tokens, Seq(Tokens))
      BY <1>4, <1>5, <3>1 DEF SeqRecursion
    <3>3. QED
      BY <3>2, SeqFixedPoint
  <2>2. \E f : f = MeantStep(f)
    BY <2>1 DEF Solvable
  <2>3. QED
    BY <2>2
<1> DEFINE Good == {r \in D : meant[r] \in D}
<1>7. ASSUME NEW r \in D, \A q \in D : Len(q) < Len(r) => q \in Good
      PROVE  r \in Good
  <2> HIDE DEF meant
  <2>1. \A q \in D : Len(q) < Len(r) => meant[q] \in D
    BY <1>7
  <2>2. QED
    BY <1>3, <1>6, <2>1
<1>8. D \subseteq Good
  <2> HIDE DEF Good
  <2>1. QED
    BY <1>7, ShorterFirst
<1>9. \A r \in D : meant[r] = MeantStep(meant)[r]
  BY <1>6
<1>10. ASSUME NEW r \in D, r # << >>
       PROVE  /\ StartsDate(r) => meant[r] = <<Date(r[1])>> \o meant[Tail(Tail(r))]
              /\ ~StartsDate(r) => meant[r] = <<r[1]>> \o meant[Tail(r)]
  <2> HIDE DEF meant
  <2>1. QED
    BY <1>2, <1>9, <1>10
<1>11. << >> \in D /\ meant[<< >>] = << >>
  <2> HIDE DEF meant
  <2>1. << >> \in D
    BY EmptySeq
  <2>2. QED
    BY <1>2, <1>9, <2>1
<1>12. QED
  <2> HIDE DEF meant
  <2>1. QED
    BY <1>1, <1>8, <1>10, <1>11

\* Two texts are read one after the other unless a date spans them.
LEMMA MeantConcat ==
    ASSUME NEW u \in Seq(Tokens), u # << >>
    PROVE  \A s \in Seq(Tokens) :
             (s # << >> => ~(DateString(Last(s)) /\ u[1] = DateMark)) =>
               Meant(s \o u) = Meant(s) \o Meant(u)
<1> DEFINE Apart(s) == s # << >> => ~(DateString(Last(s)) /\ u[1] = DateMark)
           Good == {s \in Seq(Tokens) : Apart(s) => Meant(s \o u) = Meant(s) \o Meant(u)}
           m == Meant(u)
<1>0. /\ \A s \in Seq(Tokens) : Meant(s) \in Seq(Tokens)
      /\ m \in Seq(Tokens) /\ Len(u) \in Nat /\ Len(u) >= 1
  BY MeantUnfolds, TailsAreShorter
<1>1. ASSUME NEW s \in Seq(Tokens), \A t \in Seq(Tokens) : Len(t) < Len(s) => t \in Good
      PROVE  s \in Good
  <2> SUFFICES ASSUME Apart(s) PROVE Meant(s \o u) = Meant(s) \o Meant(u)
    OBVIOUS
  <2>1. CASE s = << >>
    <3>1. s \o u = u /\ Meant(s) = << >>
      BY <2>1, MeantUnfolds, ConcatEmptySeq
    <3> HIDE DEF m
    <3>2. << >> \o m = m
      BY <1>0, ConcatEmptySeq
    <3>3. QED
      BY <3>1, <3>2 DEF m
  <2>2. CASE s # << >>
    <3> DEFINE c == s \o u
               t == Tail(s)
    <3>1. /\ c \in Seq(Tokens) /\ c # << >> /\ Tail(c) = t \o u /\ Head(c) = Head(s)
          /\ Len(c) = Len(s) + Len(u)
      BY <2>2, HeadOfConcat, ConcatProperties
    <3>2. /\ t \in Seq(Tokens) /\ Len(t) = Len(s) - 1 /\ Len(s) \in Nat /\ Len(s) >= 1
          /\ s[1] \in Tokens /\ Head(s) = s[1]
      BY <2>2, TailsAreShorter
    <3>3. Head(c) = c[1]
      BY <3>1, TailsAreShorter
    <3>4. c[1] = s[1]
      BY <3>1, <3>2, <3>3
    <3>5. Len(s) > 1 => c[2] = s[2]
      <4>1. Len(s) > 1 => 2 \in 1..Len(s) + Len(u) /\ 2 <= Len(s)
        BY <1>0, <3>2
      <4>2. QED
        BY <4>1, ConcatProperties
    <3>6. Len(s) = 1 => c[2] = u[1] /\ Last(s) = s[1]
      <4> SUFFICES ASSUME Len(s) = 1 PROVE c[2] = u[1] /\ Last(s) = s[1]
        OBVIOUS
      <4>1. 2 \in 1..Len(s) + Len(u) /\ ~(2 <= Len(s)) /\ 2 - Len(s) = 1
        BY <1>0
      <4>2. \A i \in 1..Len(s) + Len(u) : c[i] = IF i <= Len(s) THEN s[i] ELSE u[i - Len(s)]
        BY ConcatProperties
      <4> HIDE DEF c
      <4>3. c[2] = u[2 - Len(s)]
        BY <4>1, <4>2
      <4>4. QED
        BY <4>1, <4>3 DEF Last
    <3>7. StartsDate(c) <=> StartsDate(s)
      <4>1. CASE Len(s) > 1
        <5>1. Len(c) > 1
          BY <1>0, <3>1, <3>2
        <5>2. QED
          BY <3>4, <3>5, <4>1, <5>1 DEF StartsDate
      <4>2. CASE Len(s) = 1
        <5>1. ~StartsDate(s)
          BY <4>2 DEF StartsDate
        <5>2. ~(DateString(s[1]) /\ c[2] = DateMark)
          BY <2>2, <3>6, <4>2
        <5>3. QED
          BY <3>4, <5>1, <5>2 DEF StartsDate
      <4>3. QED
        BY <3>2, <4>1, <4>2
    <3>8. CASE StartsDate(s)
      <4> DEFINE tt == Tail(t)
                 d == Date(s[1])
      <4>1. /\ Len(s) > 1 /\ t # << >> /\ tt \in Seq(Tokens) /\ Len(tt) = Len(s) - 2
            /\ Last(t) = Last(s)
        BY <2>2, <3>8, TailsAreShorter DEF StartsDate
      <4>2. tt # << >> => Last(tt) = Last(t)
        <5>1. tt # << >> => Len(t) > 1
          BY <3>2, <4>1, EmptySeq
        <5>2. QED
          BY <3>2, <4>1, <5>1, TailsAreShorter
      <4>3. Apart(tt)
        BY <2>2, <4>1, <4>2
      <4>4. Meant(tt \o u) = Meant(tt) \o m
        <5>1. Len(tt) < Len(s)
          BY <3>2, <4>1
        <5>2. QED
          BY <1>1, <4>1, <4>3, <5>1
      <4>5. Tail(Tail(c)) = tt \o u
        <5> HIDE DEF t
        <5>1. QED
          BY <3>1, <3>2, <4>1, HeadOfConcat
      <4>6. Meant(s) = <<d>> \o Meant(tt) /\ Meant(c) = <<d>> \o Meant(tt \o u)
        <5> HIDE DEF c
        <5>1. QED
          BY <2>2, <3>1, <3>4, <3>7, <3>8, <4>5, MeantUnfolds
      <4>7. d \in Tokens
        BY <3>2, <3>8, DateType, OperatorsAndOperands DEF StartsDate, DateString
      <4> DEFINE a == Meant(tt)
      <4>8. a \in Seq(Tokens)
        BY <1>0, <4>1
      <4> HIDE DEF d, a, m
      <4>9. <<d>> \o (a \o m) = (<<d>> \o a) \o m
        BY <1>0, <4>7, <4>8
      <4>10. QED
        BY <4>4, <4>6, <4>9 DEF a, m
    <3>9. CASE ~StartsDate(s)
      <4> DEFINE x == s[1]
      <4>1. t # << >> => Last(t) = Last(s)
        <5>1. t # << >> => Len(s) > 1
          BY <3>2, EmptySeq
        <5>2. QED
          BY <2>2, <5>1, TailsAreShorter
      <4>2. Apart(t)
        BY <2>2, <4>1
      <4>3. Meant(t \o u) = Meant(t) \o m
        <5>1. Len(t) < Len(s)
          BY <3>2
        <5>2. QED
          BY <1>1, <3>2, <4>2, <5>1
      <4>4. Meant(s) = <<x>> \o Meant(t) /\ Meant(c) = <<x>> \o Meant(t \o u)
        <5> HIDE DEF c
        <5>1. QED
          BY <2>2, <3>1, <3>4, <3>7, <3>9, MeantUnfolds
      <4> DEFINE a == Meant(t)
      <4>5. a \in Seq(Tokens) /\ x \in Tokens
        BY <1>0, <3>2
      <4> HIDE DEF x, a, m
      <4>6. <<x>> \o (a \o m) = (<<x>> \o a) \o m
        BY <1>0, <4>5
      <4>7. QED
        BY <4>3, <4>4, <4>6 DEF a, m
    <3>10. QED
      BY <3>8, <3>9
  <2>3. QED
    BY <2>1, <2>2
<1>2. Seq(Tokens) \subseteq Good
  <2> HIDE DEF Good
  <2>1. QED
    BY <1>1, ShorterFirst
<1>3. QED
  BY <1>2

LEMMA MeantOne == \A t \in Tokens : Meant(<<t>>) = <<t>>
<1> SUFFICES ASSUME NEW t \in Tokens PROVE Meant(<<t>>) = <<t>>
  OBVIOUS
<1> DEFINE s == <<t>>
<1>1. s \in Seq(Tokens) /\ s # << >> /\ Len(s) = 1 /\ s[1] = t /\ Tail(s) = << >>
  OBVIOUS
<1>2. s \o << >> = s
  BY <1>1, ConcatEmptySeq
<1> HIDE DEF s
<1>3. ~StartsDate(s)
  BY <1>1 DEF StartsDate
<1>4. Meant(s) = <<t>> \o << >>
  BY <1>1, <1>3, MeantUnfolds
<1>5. QED
  BY <1>2, <1>4 DEF s

LEMMA MeantDate ==
    \A t \in Tokens : DateString(t) => Meant(<<t, DateMark>>) = <<Date(t)>>
<1> SUFFICES ASSUME NEW t \in Tokens, DateString(t)
             PROVE  Meant(<<t, DateMark>>) = <<Date(t)>>
  OBVIOUS
<1> DEFINE s == <<t, DateMark>>
           e == <<Date(t)>>
<1>0. DateMark \in Tokens
  <2>1. "d" \in Characters
    BY CharactersAssumption DEF Alnum, Letters
  <2>2. <<"d">> \in Seq(Characters)
    BY <2>1
  <2>3. QED
    BY <2>2 DEF DateMark, Token, Tokens, Types
<1>1. /\ s \in Seq(Tokens) /\ s # << >> /\ Len(s) = 2 /\ s[1] = t /\ s[2] = DateMark
      /\ Tail(Tail(s)) = << >>
  BY <1>0
<1>2. e \in Seq(Tokens)
  <2>1. Date(t) \in Tokens
    BY DateType, OperatorsAndOperands DEF DateString
  <2>2. QED
    BY <2>1
<1>3. e \o << >> = e
  BY <1>2, ConcatEmptySeq
<1> HIDE DEF s
<1>4. StartsDate(s)
  BY <1>1 DEF StartsDate
<1>5. Meant(s) = e \o << >>
  BY <1>1, <1>4, MeantUnfolds
<1>6. QED
  BY <1>3, <1>5 DEF s

-----------------------------------------------------------------------------
(***************************************************************************)
(* The operands keep the order in which they were written.                 *)
(***************************************************************************)

Named(s) == Only(OperandTokens, s)

InOrder == Named(FlattenSeq(operands)) = Named(Meant(Read))

\* The reader never stands inside a date.
Unsplit == Parsing /\ pos > 1 /\ pos <= Len(tokens) =>
    ~(DateString(tokens[pos - 1]) /\ tokens[pos] = DateMark)

LEMMA NamedAdds ==
    /\ Named(<< >>) = << >>
    /\ \A s \in Seq(Tokens) : Named(s) \in Seq(Tokens)
    /\ \A s, t \in Seq(Tokens) : Named(s \o t) = Named(s) \o Named(t)
    /\ \A t \in OperandTokens : Named(<<t>>) = <<t>>
    /\ \A t \in OperatorTokens : Named(<<t>>) = << >>
<1>1. \A t \in Tokens : Named(<<t>>) = IF t \in OperandTokens THEN <<t>> ELSE << >>
  BY OnlyOne DEF Named
<1>2. \A s, t \in Seq(Tokens) : Named(s \o t) = Named(s) \o Named(t)
  BY OnlyConcat DEF Named
<1>3. Named(<< >>) = << >> /\ \A s \in Seq(Tokens) : Named(s) \in Seq(Tokens)
  BY OnlyOfNone, OnlyUnfolds DEF Named
<1>4. QED
  BY <1>1, <1>2, <1>3, OperatorsAndOperands

LEMMA ReadMeant ==
    ASSUME Inv, Parsing, Unsplit, ~AtEnd
    PROVE  /\ pos \in 1..Len(tokens) /\ Current \in Tokens
           /\ Read \in Seq(Tokens) /\ Meant(Read) \in Seq(Tokens)
           /\ Meant(SubSeq(tokens, 1, pos)) = Meant(Read) \o <<Current>>
           /\ DateString(Current) /\ Suffix(pos) =>
                Meant(SubSeq(tokens, 1, pos + 1)) = Meant(Read) \o <<Date(Current)>>
<1>1. /\ tokens \in Seq(Tokens) /\ Len(tokens) \in Nat /\ pos \in 1..Len(tokens) /\ pos \in Nat
      /\ Read \in Seq(Tokens) /\ Len(Read) = pos - 1
  BY LenProperties, ReadType DEF Inv, TypeOK, AtEnd
<1>2. Current \in Tokens /\ SubSeq(tokens, 1, pos) = Read \o <<Current>>
  BY <1>1, ReadOne DEF Read, Current
<1>3. Read # << >> => pos > 1 /\ Last(Read) = tokens[pos - 1]
  <2> SUFFICES ASSUME Read # << >> PROVE pos > 1 /\ Last(Read) = tokens[pos - 1]
    OBVIOUS
  <2>1. pos > 1
    BY <1>1, EmptySeq
  <2>2. pos - 1 \in 0..Len(tokens) /\ pos - 1 \in 1..pos - 1
    BY <1>1, <2>1
  <2>3. Read[pos - 1] = tokens[pos - 1]
    BY <1>1, <2>2, Prefix DEF Read
  <2>4. QED
    BY <1>1, <2>1, <2>3 DEF Last
<1>4. Meant(SubSeq(tokens, 1, pos)) = Meant(Read) \o <<Current>>
  <2> DEFINE u == <<Current>>
  <2>1. u \in Seq(Tokens) /\ u # << >> /\ u[1] = Current /\ Meant(u) = u
    BY <1>2, MeantOne
  <2>2. Read # << >> => ~(DateString(Last(Read)) /\ Current = DateMark)
    BY <1>1, <1>3 DEF Unsplit, Current
  <2> HIDE DEF u
  <2>3. Meant(Read \o u) = Meant(Read) \o u
    BY <1>1, <2>1, <2>2, MeantConcat
  <2>4. QED
    BY <1>2, <2>3 DEF u
<1>5. ASSUME DateString(Current), Suffix(pos)
      PROVE  Meant(SubSeq(tokens, 1, pos + 1)) = Meant(Read) \o <<Date(Current)>>
  <2> DEFINE i == pos + 1
             u == <<Current, DateMark>>
             c == <<Current>>
             d == <<DateMark>>
  <2>1. i \in 1..Len(tokens) /\ i - 1 = pos /\ tokens[i] = DateMark
    BY <1>1, <1>5 DEF Suffix, DateMark
  <2>2. SubSeq(tokens, 1, i) = SubSeq(tokens, 1, pos) \o d /\ DateMark \in Tokens
    <3> HIDE DEF i
    <3>1. SubSeq(tokens, 1, i) = SubSeq(tokens, 1, i - 1) \o <<tokens[i]>> /\ tokens[i] \in Tokens
      BY <1>1, <2>1, ReadOne
    <3>2. QED
      BY <2>1, <3>1
  <2>3. c \in Seq(Tokens) /\ d \in Seq(Tokens) /\ u = c \o d
    BY <1>2, <2>2
  <2>4. u \in Seq(Tokens) /\ u # << >> /\ u[1] = Current
    BY <1>2, <2>2
  <2>5. Meant(u) = <<Date(Current)>>
    BY <1>2, <1>5, MeantDate
  <2>6. u[1] # DateMark
    BY <1>5, <2>4 DEF DateMark, DateString, Token
  <2> HIDE DEF u, c, d
  <2>7. (Read \o c) \o d = Read \o u
    <3>1. \A r \in Seq(Tokens) : (r \o c) \o d = r \o (c \o d)
      BY <2>3
    <3>2. QED
      BY <1>1, <2>3, <3>1
  <2>8. Meant(Read \o u) = Meant(Read) \o Meant(u)
    BY <1>1, <2>4, <2>6, MeantConcat
  <2>9. SubSeq(tokens, 1, pos) = Read \o c
    BY <1>2 DEF c
  <2>10. QED
    BY <2>2, <2>5, <2>7, <2>8, <2>9
<1>6. QED
  BY <1>1, <1>2, <1>4, <1>5, MeantUnfolds

LEMMA OrderOperand ==
    ASSUME Inv, InPolish, InOrder, Unsplit, Parsing, ~AtEnd, Current \in OperandTokens,
           NEW t \in OperandTokens, NEW used \in {1, 2}, Operand(t, used),
           used = 1 => t = Current /\ ~(DateString(Current) /\ Suffix(pos)),
           used = 2 => t = Date(Current) /\ DateString(Current) /\ Suffix(pos)
    PROVE  InOrder' /\ Unsplit'
<1>0. /\ pos \in Nat /\ Len(tokens) \in Nat /\ tokens' = tokens /\ pos' = pos + used
      /\ phase' = phase /\ operands' = Append(operands, <<t>>)
  BY LenProperties DEF Inv, TypeOK, Operand
<1> DEFINE m == Meant(Read)
           f == FlattenSeq(operands)
           p == <<t>>
<1>1. Meant(Read') = m \o p
  <2>1. CASE used = 1
    <3>1. Read' = SubSeq(tokens, 1, pos)
      BY <1>0, <2>1 DEF Read
    <3>2. QED
      BY <2>1, <3>1, ReadMeant
  <2>2. CASE used = 2
    <3>1. Read' = SubSeq(tokens, 1, pos + 1)
      BY <1>0, <2>2 DEF Read
    <3>2. QED
      BY <2>2, <3>1, ReadMeant
  <2>3. QED
    BY <2>1, <2>2
<1>2. m \in Seq(Tokens)
  BY ReadMeant
<1>3. p \in Polish
  BY PolishGrows DEF HasOperands
<1>4. p \in Seq(Tokens) /\ f \in Seq(Tokens) /\ FlattenSeq(operands') = f \o p
  <2> HIDE DEF p
  <2>1. operands' = Append(operands, p)
    BY <1>0 DEF p
  <2>2. QED
    BY <1>3, <2>1, PushedOperand DEF InPolish
<1>5. Named(m \o p) = Named(f \o p)
  <2> HIDE DEF p
  <2>1. Named(f) = Named(m)
    BY DEF InOrder
  <2> HIDE DEF f, m
  <2>2. Named(m \o p) = Named(m) \o Named(p)
    BY <1>2, <1>4, NamedAdds
  <2>3. Named(f \o p) = Named(f) \o Named(p)
    BY <1>4, NamedAdds
  <2>4. QED
    BY <2>1, <2>2, <2>3
<1>6. InOrder'
  BY <1>1, <1>4, <1>5 DEF InOrder
<1>7. Unsplit'
  <2>1. CASE used = 1
    <3>1. pos' - 1 = pos /\ pos' = pos + 1
      BY <1>0, <2>1
    <3>2. pos + 1 <= Len(tokens) => pos < Len(tokens)
      BY <1>0
    <3>3. ~(DateString(tokens[pos]) /\ pos < Len(tokens) /\ tokens[pos + 1] = DateMark)
      BY <2>1 DEF Current, Suffix, DateMark
    <3>4. QED
      BY <1>0, <3>1, <3>2, <3>3 DEF Unsplit
  <2>2. CASE used = 2
    <3>1. pos' - 1 = pos + 1
      BY <1>0, <2>2
    <3>2. tokens[pos + 1] = DateMark
      BY <2>2 DEF Suffix, DateMark
    <3>3. ~DateString(DateMark)
      BY DEF DateMark, DateString, Token
    <3>4. QED
      BY <1>0, <3>1, <3>2, <3>3 DEF Unsplit
  <2>3. QED
    BY <2>1, <2>2
<1>8. QED
  BY <1>6, <1>7

LEMMA OrderNext ==
    Inv /\ InPolish /\ InOrder /\ Unsplit /\ [Next]_vars => InOrder' /\ Unsplit'
<1> SUFFICES ASSUME Inv, InPolish, InOrder, Unsplit, [Next]_vars PROVE InOrder' /\ Unsplit'
  OBVIOUS
<1>0. /\ Len(tokens) \in Nat /\ pos \in Nat /\ tokens \in Seq(Tokens)
      /\ operators \in Seq(OperatorTokens \ {Close}) /\ operands \in Seq(Polish)
      /\ ~AtEnd => Current \in Tokens
  BY LenProperties, ElementOfSeq DEF Inv, TypeOK, InPolish, AtEnd, Current
<1>1. ASSUME pos' = pos, tokens' = tokens, operands' = operands, Parsing' => Parsing
      PROVE  InOrder' /\ Unsplit'
  BY <1>1 DEF InOrder, Unsplit, Read
<1>2. ASSUME NEW t \in Alphabet, Type(t) PROVE InOrder' /\ Unsplit'
  BY <1>1, <1>2 DEF Type, Parsing
<1>3. CASE Submit
  <2>1. pos = 1 /\ pos' = 1 /\ operands' = operands
    BY <1>3 DEF Submit, Inv, Started
  <2>2. Read' = Read
    <3>1. SubSeq(tokens, 1, 0) = << >> /\ SubSeq(tokens', 1, 0) = << >>
      BY SubSeqEmpty
    <3>2. pos - 1 = 0 /\ pos' - 1 = 0
      BY <2>1
    <3>3. QED
      BY <3>1, <3>2 DEF Read
  <2>3. InOrder'
    BY <2>1, <2>2 DEF InOrder
  <2>4. Unsplit'
    BY <2>1 DEF Unsplit
  <2>5. QED
    BY <2>3, <2>4
<1>4. CASE Make
  <2>1. Top \in OperatorTokens \ {Close}
    <3>1. operators # << >>
      BY <1>4 DEF Make, MustMake
    <3> DEFINE O == OperatorTokens \ {Close}
    <3> HIDE DEF O
    <3>2. operators \in Seq(O)
      BY <1>0 DEF O
    <3>3. Top \in O
      BY <3>1, <3>2, TopOfStack DEF Top
    <3>4. QED
      BY <3>3 DEF O
  <2>2. CASE Len(operands) < 2
    BY <1>1, <1>4, <2>2 DEF Make, Parsing
  <2>3. CASE ~(Len(operands) < 2)
    <3> DEFINE n == Len(operands)
               rest == SubSeq(operands, 1, n - 2)
               a == operands[n - 1]
               b == operands[n]
               made == <<Top>> \o a \o b
               f == FlattenSeq(rest)
               o == <<Top>>
    <3>1. /\ operands' = Append(rest, made)
          /\ pos' = pos /\ tokens' = tokens /\ phase' = phase
      BY <1>4, <2>3 DEF Make
    <3>2. /\ a \in Polish /\ b \in Polish
          /\ f \in Seq(Tokens)
          /\ FlattenSeq(operands) = f \o a \o b
          /\ FlattenSeq(Append(rest, made)) = f \o made
      BY <1>0, <2>1, <2>3, MadeOperation
    <3>3. a \in Seq(Tokens) /\ b \in Seq(Tokens) /\ o \in Seq(Tokens) /\ Named(o) = << >>
      <4>1. Top \in Tokens
        BY <2>1, OperatorsAndOperands
      <4>2. Polish \subseteq Seq(Tokens)
        BY DEF Polish
      <4>3. Named(o) = << >>
        BY <2>1, NamedAdds
      <4>4. QED
        BY <3>2, <4>1, <4>2, <4>3
    <3>4. made = o \o a \o b
      OBVIOUS
    <3>5. FlattenSeq(operands') = f \o made
      BY <3>1, <3>2
    <3> HIDE DEF a, b, f, o, made
    <3>6. FlattenSeq(operands') = f \o (o \o a \o b)
      BY <3>4, <3>5
    <3>7. /\ Named(f) \in Seq(Tokens) /\ Named(a) \in Seq(Tokens) /\ Named(b) \in Seq(Tokens)
      BY <3>2, <3>3, NamedAdds
    <3>8. o \o a \in Seq(Tokens) /\ f \o a \in Seq(Tokens) /\ o \o a \o b \in Seq(Tokens)
      BY <3>2, <3>3, ConcatProperties
    <3>9. Named(o \o a) = Named(a)
      <4>1. Named(o \o a) = Named(o) \o Named(a)
        BY <3>3, NamedAdds
      <4>2. QED
        BY <3>3, <3>7, <4>1, ConcatEmptySeq
    <3>10. Named(o \o a \o b) = Named(a) \o Named(b)
      BY <3>3, <3>8, <3>9, NamedAdds
    <3>11. Named(f \o (o \o a \o b)) = Named(f) \o (Named(a) \o Named(b))
      BY <3>2, <3>8, <3>10, NamedAdds
    <3>12. Named(f \o a \o b) = (Named(f) \o Named(a)) \o Named(b)
      <4>1. Named(f \o a \o b) = Named(f \o a) \o Named(b)
        BY <3>3, <3>8, NamedAdds
      <4>2. Named(f \o a) = Named(f) \o Named(a)
        BY <3>2, <3>3, NamedAdds
      <4>3. QED
        BY <4>1, <4>2
    <3>13. Named(FlattenSeq(operands')) = Named(FlattenSeq(operands))
      <4> DEFINE nf == Named(f)
                 na == Named(a)
                 nb == Named(b)
      <4>1. nf \in Seq(Tokens) /\ na \in Seq(Tokens) /\ nb \in Seq(Tokens)
        BY <3>7
      <4> HIDE DEF nf, na, nb
      <4>2. nf \o (na \o nb) = (nf \o na) \o nb
        BY <4>1
      <4>3. QED
        BY <3>2, <3>6, <3>11, <3>12, <4>2 DEF nf, na, nb
    <3>14. InOrder'
      BY <3>1, <3>13 DEF InOrder, Read
    <3>15. Unsplit'
      BY <3>1 DEF Unsplit, Parsing
    <3>16. QED
      BY <3>14, <3>15
  <2>4. QED
    BY <2>2, <2>3
<1>5. CASE ReadInteger
  <2>1. Current \in OperandTokens /\ ~AtEnd /\ ~DateString(Current) /\ Parsing
    BY <1>0, <1>5 DEF ReadInteger, OperandTokens, DateString
  <2>2. QED
    BY <1>5, <2>1, OrderOperand DEF ReadInteger
<1>6. CASE Refuse
  BY <1>1, <1>6 DEF Refuse, Parsing
<1>7. CASE ReadIdentifier
  <2>1. Current \in OperandTokens /\ ~AtEnd /\ ~DateString(Current) /\ Parsing
    BY <1>0, <1>7 DEF ReadIdentifier, OperandTokens, DateString
  <2>2. QED
    BY <1>6, <1>7, <2>1, OrderOperand DEF ReadIdentifier
<1>8. CASE ReadString
  <2>1. Current \in OperandTokens /\ ~AtEnd /\ Parsing /\ Current.type = "STRING"
    BY <1>0, <1>8 DEF ReadString, OperandTokens
  <2>2. Date(Current) \in OperandTokens
    BY <1>0, <2>1, DateType
  <2>3. CASE Refuse
    BY <1>6, <2>3
  <2>4. CASE ~Suffix(pos) /\ Operand(Current, 1)
    BY <2>1, <2>4, OrderOperand
  <2>5. CASE Suffix(pos) /\ Current.value \in Dates /\ Operand(Date(Current), 2)
    <3>1. DateString(Current)
      BY <2>1, <2>5 DEF DateString
    <3>2. QED
      BY <2>1, <2>2, <2>5, <3>1, OrderOperand
  <2>6. QED
    BY <1>8, <2>3, <2>4, <2>5 DEF ReadString, Date
<1>9. ASSUME ~AtEnd, Parsing, Current.type = "OPERATOR",
             pos' = pos + 1, tokens' = tokens, operands' = operands
      PROVE  InOrder' /\ Unsplit'
  <2>1. Current \in OperatorTokens
    BY <1>0, <1>9 DEF OperatorTokens
  <2> DEFINE m == Meant(Read)
             c == <<Current>>
  <2>2. m \in Seq(Tokens) /\ c \in Seq(Tokens) /\ Meant(SubSeq(tokens, 1, pos)) = m \o c
    BY <1>9, ReadMeant
  <2>3. pos' - 1 = pos
    BY <1>0, <1>9
  <2>4. Read' = SubSeq(tokens, 1, pos)
    BY <1>9, <2>3 DEF Read
  <2>5. Named(c) = << >>
    BY <2>1, NamedAdds
  <2>6. Named(m) = Named(FlattenSeq(operands))
    BY DEF InOrder
  <2> HIDE DEF m, c
  <2>7. Named(m \o c) = Named(m)
    <3>1. Named(m \o c) = Named(m) \o Named(c) /\ Named(m) \in Seq(Tokens)
      BY <2>2, NamedAdds
    <3>2. QED
      BY <2>5, <3>1, ConcatEmptySeq
  <2>8. InOrder'
    BY <1>9, <2>2, <2>4, <2>6, <2>7 DEF InOrder
  <2>9. Unsplit'
    <3>1. ~DateString(tokens[pos])
      BY <1>9 DEF DateString, Current
    <3>2. QED
      BY <1>9, <2>3, <3>1 DEF Unsplit
  <2>10. QED
    BY <2>8, <2>9
<1>10. CASE ReadClose
  <2>1. Parsing /\ ~AtEnd /\ Current.type = "OPERATOR"
    BY <1>10 DEF ReadClose, Close, Op, Token
  <2>2. CASE operators = << >>
    BY <1>1, <1>10, <2>1, <2>2 DEF ReadClose
  <2>3. CASE operators # << >>
    BY <1>9, <1>10, <2>1, <2>3 DEF ReadClose
  <2>4. QED
    BY <2>2, <2>3
<1>11. CASE ReadOpenOrBinary
  BY <1>9, <1>11 DEF ReadOpenOrBinary
<1>12. CASE Finish
  BY <1>1, <1>12 DEF Finish, Parsing
<1>13. CASE Query
  BY <1>1, <1>13 DEF Query, Parsing
<1>14. CASE UNCHANGED vars
  BY <1>1, <1>14 DEF vars, Parsing
<1>15. QED
  BY <1>2, <1>3, <1>4, <1>5, <1>7, <1>8, <1>10, <1>11, <1>12, <1>13, <1>14 DEF Next

\* The stacks build the expression in an order of their own, but on any text the
\* operands read so far stand in it in the order they were written.
THEOREM OrderKept == Spec => []OperandsInOrder
<1>1. Init => InOrder /\ Unsplit
  <2> SUFFICES ASSUME Init PROVE InOrder /\ Unsplit
    OBVIOUS
  <2>1. operands = << >> /\ tokens = << >> /\ pos = 1
    BY DEF Init
  <2>2. Read = << >>
    <3>1. SubSeq(tokens, 1, 0) = << >> /\ pos - 1 = 0
      BY <2>1, SubSeqEmpty
    <3>2. QED
      BY <3>1 DEF Read
  <2>3. FlattenSeq(operands) = << >> /\ Meant(Read) = << >>
    BY <2>1, <2>2, Flatten, MeantUnfolds
  <2>4. QED
    BY <2>1, <2>3 DEF InOrder, Unsplit
<1>2. InOrder => OperandsInOrder
  BY DEF InOrder, OperandsInOrder, Named, Read
<1>3. QED
  BY <1>1, <1>2, OrderNext, BalanceInvariance, PTL DEF Spec

-----------------------------------------------------------------------------
(***************************************************************************)
(* What the grammar makes of a text.                                       *)
(***************************************************************************)

Root(r, prec) == LastApplied(r, prec)
Before(r, prec) == SubSeq(r, 1, Root(r, prec) - 1)
After(r, prec) == SubSeq(r, Root(r, prec) + 1, Len(r))
Inside(r) == SubSeq(r, 2, Len(r) - 1)
InParentheses(r) == Head(r) = Open /\ Last(r) = Close

\* j is applied before i, or is i.
AppliedBefore(r, prec, j, i) ==
    \/ prec[r[i].value] < prec[r[j].value]
    \/ prec[r[i].value] = prec[r[j].value] /\ j <= i

LEMMA BinaryTokens ==
    \A t \in Tokens : IsBinary(t) => t.value \in BinaryValues /\ t \in OperatorTokens \ {Close}
<1> SUFFICES ASSUME NEW t \in Tokens, IsBinary(t)
             PROVE  t.value \in BinaryValues /\ t \in OperatorTokens \ {Close}
  OBVIOUS
<1>1. t.type = "OPERATOR" /\ t # Open /\ t # Close
  BY DEF IsBinary
<1>2. t.value \in OperatorValues /\ t = [type |-> t.type, value |-> t.value]
  BY <1>1 DEF Tokens
<1>3. t.value # <<"(">> /\ t.value # <<")">>
  BY <1>1, <1>2 DEF Open, Close, Op, Token
<1>4. QED
  BY <1>1, <1>2, <1>3 DEF BinaryValues, OperatorTokens

\* There is an operator that is applied last: of the weakest, the rightmost.
LEMMA RootIsOutside ==
    ASSUME NEW prec \in [BinaryValues -> Nat], NEW r \in Seq(Tokens), Outside(r) # {}
    PROVE  /\ Root(r, prec) \in Outside(r)
           /\ \A j \in Outside(r) : AppliedBefore(r, prec, j, Root(r, prec))
<1> DEFINE O == Outside(r)
           P(i) == prec[r[i].value]
           n == Len(r)
<1>1. \A i \in O : i \in Nat /\ i <= n /\ n - i \in Nat /\ P(i) \in Nat
  <2> SUFFICES ASSUME NEW i \in O PROVE i \in Nat /\ i <= n /\ n - i \in Nat /\ P(i) \in Nat
    OBVIOUS
  <2>1. i \in 1..n /\ IsBinary(r[i]) /\ n \in Nat
    BY LenProperties DEF Outside
  <2>2. r[i].value \in BinaryValues
    BY <2>1, ElementOfSeq, BinaryTokens
  <2>3. QED
    BY <2>1, <2>2
<1> DEFINE Strengths == {P(i) : i \in O}
<1>2. PICK w \in Strengths : \A k \in Strengths : w <= k
  <2>1. Strengths \subseteq Nat /\ Strengths # {}
    BY <1>1
  <2> HIDE DEF Strengths
  <2>2. QED
    BY <2>1, Least
<1> DEFINE Distances == {n - i : i \in {j \in O : P(j) = w}}
<1>3. PICK d \in Distances : \A k \in Distances : d <= k
  <2>1. Distances \subseteq Nat /\ Distances # {}
    BY <1>1, <1>2
  <2> HIDE DEF Distances
  <2>2. QED
    BY <2>1, Least
<1>4. PICK i \in O : P(i) = w /\ d = n - i
  BY <1>3
<1>5. ASSUME NEW j \in O PROVE AppliedBefore(r, prec, j, i)
  <2>1. w <= P(j) /\ P(j) \in Nat /\ w \in Nat
    BY <1>1, <1>2, <1>5
  <2>2. ASSUME P(j) = w PROVE j <= i
    <3>1. n - j \in Distances
      BY <2>2
    <3> HIDE DEF Distances
    <3>2. d <= n - j
      BY <1>3, <3>1
    <3>3. i \in Nat /\ j \in Nat /\ n - i \in Nat /\ i <= n
      BY <1>1
    <3>4. n \in Nat
      BY LenProperties
    <3> HIDE DEF n
    <3>5. QED
      BY <1>4, <3>2, <3>3, <3>4
  <2>3. QED
    BY <1>4, <2>1, <2>2 DEF AppliedBefore
<1>6. \E x \in Outside(r) : \A j \in Outside(r) :
        \/ prec[r[x].value] < prec[r[j].value]
        \/ prec[r[x].value] = prec[r[j].value] /\ j <= x
  BY <1>5 DEF AppliedBefore
<1>7. QED
  BY <1>6 DEF Root, LastApplied, AppliedBefore

LEMMA PartsAreShorter ==
    ASSUME NEW prec \in [BinaryValues -> Nat], NEW r \in Seq(Tokens), Len(r) > 1
    PROVE  /\ Outside(r) # {} =>
                /\ Before(r, prec) \in Seq(Tokens) /\ Len(Before(r, prec)) < Len(r)
                /\ After(r, prec) \in Seq(Tokens) /\ Len(After(r, prec)) < Len(r)
                /\ r[Root(r, prec)] \in Tokens
           /\ Inside(r) \in Seq(Tokens) /\ Len(Inside(r)) < Len(r)
<1> DEFINE n == Len(r)
           i == Root(r, prec)
<1>1. n \in Nat /\ n > 1
  BY LenProperties
<1>2. Inside(r) \in Seq(Tokens) /\ Len(Inside(r)) = n - 2
  <2> DEFINE m == n - 1
  <2>1. 2 \in 1..n + 1 /\ m \in 2 - 1..n /\ m - 2 + 1 = n - 2
    BY <1>1
  <2> HIDE DEF m
  <2>2. SubSeq(r, 2, m) \in Seq(Tokens) /\ Len(SubSeq(r, 2, m)) = m - 2 + 1
    BY <2>1, Piece
  <2>3. QED
    BY <2>1, <2>2 DEF Inside, m
<1>3. ASSUME Outside(r) # {}
      PROVE  /\ Before(r, prec) \in Seq(Tokens) /\ Len(Before(r, prec)) = i - 1
             /\ After(r, prec) \in Seq(Tokens) /\ Len(After(r, prec)) = n - i
             /\ i \in 1..n
  <2>1. i \in 1..n
    BY <1>3, RootIsOutside DEF Outside
  <2> HIDE DEF i
  <2> DEFINE k == i - 1
             l == i + 1
  <2>2. k \in 0..n /\ l \in 1..n + 1 /\ n \in l - 1..n /\ n - l + 1 = n - i
    BY <1>1, <2>1
  <2> HIDE DEF k, l
  <2>3. SubSeq(r, 1, k) \in Seq(Tokens) /\ Len(SubSeq(r, 1, k)) = k
    BY <2>2, Prefix
  <2>4. SubSeq(r, l, n) \in Seq(Tokens) /\ Len(SubSeq(r, l, n)) = n - l + 1
    BY <2>2, Piece
  <2>5. QED
    BY <2>1, <2>2, <2>3, <2>4 DEF k, l, Before, After, i
<1>4. QED
  BY <1>1, <1>2, <1>3, ElementOfSeq

GrammarStep(prec, f) ==
    [r \in Seq(Tokens) |->
        LET i == LastApplied(r, prec)
            left == f[SubSeq(r, 1, i - 1)]
            right == f[SubSeq(r, i + 1, Len(r))]
        IN  IF Len(r) <= 1 THEN Only(OperandTokens, r)
            ELSE IF Outside(r) # {}
            THEN IF left = << >> \/ right = << >> THEN << >>
                 ELSE <<r[i]>> \o left \o right
            ELSE IF Head(r) = Open /\ Last(r) = Close THEN f[SubSeq(r, 2, Len(r) - 1)]
            ELSE << >>]

Joint(t, left, right) ==
    IF left = << >> \/ right = << >> THEN << >> ELSE <<t>> \o left \o right

LEMMA JointType ==
    \A t \in Tokens : \A a, b \in Seq(Tokens) :
        /\ Joint(t, a, b) \in Seq(Tokens)
        /\ a # << >> /\ b # << >> => Joint(t, a, b) = <<t>> \o a \o b
<1> SUFFICES ASSUME NEW t \in Tokens, NEW a \in Seq(Tokens), NEW b \in Seq(Tokens)
             PROVE  /\ Joint(t, a, b) \in Seq(Tokens)
                    /\ a # << >> /\ b # << >> => Joint(t, a, b) = <<t>> \o a \o b
  OBVIOUS
<1> DEFINE p == <<t>> \o a \o b
<1>1. p \in Seq(Tokens) /\ << >> \in Seq(Tokens)
  BY Operation, EmptySeq
<1>2. Joint(t, a, b) = IF a = << >> \/ b = << >> THEN << >> ELSE p
  BY DEF Joint
<1> HIDE DEF p
<1>3. Joint(t, a, b) \in Seq(Tokens) /\ (a # << >> /\ b # << >> => Joint(t, a, b) = p)
  BY <1>1, <1>2
<1>4. QED
  BY <1>3 DEF p

LEMMA GrammarUnfolds ==
    ASSUME NEW prec \in [BinaryValues -> Nat]
    PROVE  \A r \in Seq(Tokens) :
             /\ Grammar(r, prec) \in Seq(Tokens)
             /\ Len(r) <= 1 => Grammar(r, prec) = Only(OperandTokens, r)
             /\ Len(r) > 1 /\ Outside(r) # {} =>
                  Grammar(r, prec) = Joint(r[Root(r, prec)], Grammar(Before(r, prec), prec),
                                           Grammar(After(r, prec), prec))
             /\ Len(r) > 1 /\ Outside(r) = {} /\ InParentheses(r) =>
                  Grammar(r, prec) = Grammar(Inside(r), prec)
             /\ Len(r) > 1 /\ Outside(r) = {} /\ ~InParentheses(r) => Grammar(r, prec) = << >>
<1> DEFINE D == Seq(Tokens)
           tree == CHOOSE f : f = GrammarStep(prec, f)
           Phi == [f \in [D -> D] |-> GrammarStep(prec, f)]
<1>1. \A r : Grammar(r, prec) = tree[r]
  BY DEF Grammar, GrammarStep
<1>2. \A f : \A r \in D :
        GrammarStep(prec, f)[r] =
            IF Len(r) <= 1 THEN Only(OperandTokens, r)
            ELSE IF Outside(r) # {}
            THEN Joint(r[Root(r, prec)], f[Before(r, prec)], f[After(r, prec)])
            ELSE IF InParentheses(r) THEN f[Inside(r)]
            ELSE << >>
  BY DEF GrammarStep, Joint, Root, Before, After, InParentheses, Inside
<1>3. ASSUME NEW f, NEW r \in D, \A q \in D : Len(q) < Len(r) => f[q] \in D
      PROVE  GrammarStep(prec, f)[r] \in D
  <2>1. CASE Len(r) <= 1
    <3>1. Only(OperandTokens, r) \in D
      BY OnlyUnfolds
    <3>2. QED
      BY <1>2, <2>1, <3>1
  <2>2. CASE Len(r) > 1
    <3>0. ~(Len(r) <= 1)
      BY <2>2, LenProperties
    <3>1. Outside(r) # {} => f[Before(r, prec)] \in D /\ f[After(r, prec)] \in D
                             /\ r[Root(r, prec)] \in Tokens
      BY <1>3, <2>2, PartsAreShorter
    <3>2. f[Inside(r)] \in D
      BY <1>3, <2>2, PartsAreShorter
    <3>3. Outside(r) # {} => Joint(r[Root(r, prec)], f[Before(r, prec)], f[After(r, prec)]) \in D
      BY <3>1, JointType
    <3>4. << >> \in D
      BY EmptySeq
    <3>5. QED
      BY <1>2, <3>0, <3>2, <3>3, <3>4
  <2>3. QED
    BY <2>1, <2>2, LenProperties
<1>4. Phi \in [[D -> D] -> [D -> D]]
  <2>1. ASSUME NEW f \in [D -> D] PROVE GrammarStep(prec, f) \in [D -> D]
    <3>1. \A s \in D : GrammarStep(prec, f)[s] \in D
      BY <1>3
    <3>2. QED
      BY <3>1 DEF GrammarStep
  <2>2. QED
    BY <2>1
<1>5. ASSUME NEW f \in [D -> D], NEW g \in [D -> D], NEW r \in D,
             \A q \in D : Len(q) < Len(r) => f[q] = g[q]
      PROVE  Phi[f][r] = Phi[g][r]
  <2>1. Len(r) > 1 =>
          /\ Outside(r) # {} => f[Before(r, prec)] = g[Before(r, prec)]
                                /\ f[After(r, prec)] = g[After(r, prec)]
          /\ f[Inside(r)] = g[Inside(r)]
    BY <1>5, PartsAreShorter
  <2>2. Len(r) \in Nat
    BY LenProperties
  <2> DEFINE Whole(h) == Joint(r[Root(r, prec)], h[Before(r, prec)], h[After(r, prec)])
  <2>3. Len(r) > 1 /\ Outside(r) # {} => Whole(f) = Whole(g)
    BY <2>1
  <2> HIDE DEF Whole
  <2>4. \A h : GrammarStep(prec, h)[r] =
            IF Len(r) <= 1 THEN Only(OperandTokens, r)
            ELSE IF Outside(r) # {} THEN Whole(h)
            ELSE IF InParentheses(r) THEN h[Inside(r)] ELSE << >>
    BY <1>2 DEF Whole
  <2>5. GrammarStep(prec, f)[r] = GrammarStep(prec, g)[r]
    BY <2>1, <2>2, <2>3, <2>4
  <2>6. QED
    BY <2>5
<1>6. tree = GrammarStep(prec, tree)
  <2>1. Solvable(Phi, D, D)
    <3> HIDE DEF Phi
    <3>1. Seq(Tokens) # {}
      BY EmptySeq
    <3>2. SeqRecursion(Phi, Tokens, Seq(Tokens))
      BY <1>4, <1>5, <3>1 DEF SeqRecursion
    <3>3. QED
      BY <3>2, SeqFixedPoint
  <2>2. \E f : f = GrammarStep(prec, f)
    BY <2>1 DEF Solvable
  <2>3. QED
    BY <2>2
<1> DEFINE Good == {r \in D : tree[r] \in D}
<1>7. ASSUME NEW r \in D, \A q \in D : Len(q) < Len(r) => q \in Good
      PROVE  r \in Good
  <2> HIDE DEF tree
  <2>1. \A q \in D : Len(q) < Len(r) => tree[q] \in D
    BY <1>7
  <2>2. QED
    BY <1>3, <1>6, <2>1
<1>8. D \subseteq Good
  <2> HIDE DEF Good
  <2>1. QED
    BY <1>7, ShorterFirst
<1>9. \A r \in D : tree[r] = GrammarStep(prec, tree)[r] /\ Len(r) \in Nat
  BY <1>6, LenProperties
<1>10. ASSUME NEW r \in D
       PROVE  /\ tree[r] \in D
              /\ Len(r) <= 1 => tree[r] = Only(OperandTokens, r)
              /\ Len(r) > 1 /\ Outside(r) # {} =>
                   tree[r] = Joint(r[Root(r, prec)], tree[Before(r, prec)], tree[After(r, prec)])
              /\ Len(r) > 1 /\ Outside(r) = {} /\ InParentheses(r) => tree[r] = tree[Inside(r)]
              /\ Len(r) > 1 /\ Outside(r) = {} /\ ~InParentheses(r) => tree[r] = << >>
  <2> HIDE DEF tree
  <2>1. tree[r] \in D
    BY <1>8
  <2>2. QED
    BY <1>2, <1>9, <2>1
<1>11. QED
  <2> HIDE DEF tree
  <2>1. QED
    BY <1>1, <1>10

-----------------------------------------------------------------------------
(***************************************************************************)
(* SQL reads the condition as the expression it was made from.             *)
(***************************************************************************)

Rise(s) == Opened(s) - Closed(s)

\* Citing DepthOfConcat for one pair of sequences.
DepthsOf(a, b) ==
    /\ \A i \in 1..Len(a) : Depth(a \o b, i) = Depth(a, i) /\ (a \o b)[i] = a[i]
    /\ \A j \in 1..Len(b) : Depth(a \o b, Len(a) + j) = Rise(a) + Depth(b, j)
                            /\ (a \o b)[Len(a) + j] = b[j]
    /\ Rise(a \o b) = Rise(a) + Rise(b)

LEMMA DepthOfConcat ==
    ASSUME NEW a \in Seq(Tokens), NEW b \in Seq(Tokens)
    PROVE  DepthsOf(a, b)
<1> DEFINE n == Len(a)
           m == Len(b)
           c == a \o b
<1>1. /\ n \in Nat /\ m \in Nat /\ c \in Seq(Tokens) /\ Len(c) = n + m
      /\ \A i \in 1..n + m : c[i] = IF i <= n THEN a[i] ELSE b[i - n]
  BY ConcatProperties, LenProperties
<1>2. \A i \in 1..n : Depth(c, i) = Depth(a, i)
  <2> SUFFICES ASSUME NEW i \in 1..n PROVE Depth(c, i) = Depth(a, i)
    OBVIOUS
  <2>1. i \in 0..Len(a)
    BY <1>1
  <2>2. SubSeq(a \o b, 1, i) = SubSeq(a, 1, i)
    BY <2>1, PieceOfConcat
  <2>3. QED
    BY <2>2 DEF Depth
<1>3. \A j \in 1..m : Depth(c, n + j) = Rise(a) + Depth(b, j)
  <2> SUFFICES ASSUME NEW j \in 1..m PROVE Depth(c, n + j) = Rise(a) + Depth(b, j)
    OBVIOUS
  <2> DEFINE u == SubSeq(b, 1, j)
  <2>1. j \in 0..Len(b)
    BY <1>1
  <2>2. SubSeq(a \o b, 1, n + j) = a \o u
    BY <2>1, PrefixOfConcat DEF PrefixesOf
  <2>3. u \in Seq(Tokens)
    BY <2>1, Prefix
  <2>4. Depth(b, j) = Opened(u) - Closed(u)
    BY DEF Depth, Opened, Closed
  <2>5. Depth(c, n + j) = Opened(a \o u) - Closed(a \o u)
    BY <2>2 DEF Depth, Opened, Closed
  <2> HIDE DEF u, c
  <2>6. /\ Opened(a \o u) = Opened(a) + Opened(u) /\ Closed(a \o u) = Closed(a) + Closed(u)
        /\ Opened(a) \in Nat /\ Opened(u) \in Nat /\ Closed(a) \in Nat /\ Closed(u) \in Nat
    BY <2>3, Parenthesis
  <2>7. QED
    BY <2>4, <2>5, <2>6 DEF Rise
<1>4. Rise(c) = Rise(a) + Rise(b)
  <2>1. /\ Opened(c) = Opened(a) + Opened(b) /\ Closed(c) = Closed(a) + Closed(b)
        /\ Opened(a) \in Nat /\ Opened(b) \in Nat /\ Closed(a) \in Nat /\ Closed(b) \in Nat
    BY Parenthesis
  <2> HIDE DEF c
  <2>2. QED
    BY <2>1 DEF Rise
<1>5. /\ \A i \in 1..n : c[i] = a[i]
      /\ \A j \in 1..m : c[n + j] = b[j]
  <2> HIDE DEF c, n, m
  <2>1. ASSUME NEW i \in 1..n PROVE c[i] = a[i]
    <3>1. i \in 1..n + m /\ i <= n
      BY <1>1
    <3>2. QED
      BY <1>1, <3>1
  <2>2. ASSUME NEW j \in 1..m PROVE c[n + j] = b[j]
    <3> DEFINE i == n + j
    <3>1. i \in 1..n + m /\ ~(i <= n) /\ i - n = j
      BY <1>1
    <3> HIDE DEF i
    <3>2. c[i] = b[i - n]
      BY <1>1, <3>1
    <3>3. QED
      BY <3>1, <3>2 DEF i
  <2>3. QED
    BY <2>1, <2>2
<1>6. QED
  BY <1>2, <1>3, <1>4, <1>5 DEF DepthsOf

\* With k parentheses open before it, s closes none that it did not find, and has
\* no binary operator outside of all.
Sheltered(s, k) ==
    \A i \in 1..Len(s) : Depth(s, i) \in Int /\ k + Depth(s, i) >= 0
                         /\ (IsBinary(s[i]) => k + Depth(s, i) >= 1)

LEMMA DepthType ==
    \A s \in Seq(Tokens) :
        Rise(s) \in Int /\ \A i \in 1..Len(s) : Depth(s, i) \in Int
<1> SUFFICES ASSUME NEW s \in Seq(Tokens)
             PROVE  Rise(s) \in Int /\ \A i \in 1..Len(s) : Depth(s, i) \in Int
  OBVIOUS
<1>1. ASSUME NEW i \in 1..Len(s) PROVE Depth(s, i) \in Int
  <2> DEFINE u == SubSeq(s, 1, i)
  <2>1. i \in 0..Len(s)
    BY LenProperties
  <2>2. u \in Seq(Tokens)
    BY <2>1, Prefix
  <2>3. Depth(s, i) = Opened(u) - Closed(u)
    BY DEF Depth, Opened, Closed
  <2> HIDE DEF u
  <2>4. QED
    BY <2>2, <2>3, Parenthesis
<1>2. Rise(s) \in Int
  BY Parenthesis DEF Rise
<1>3. QED
  BY <1>1, <1>2

\* A place in a concatenation is a place in one of its parts.
LEMMA PlaceInConcat ==
    ASSUME NEW n \in Nat, NEW m \in Nat, NEW i \in 1..n + m, ~(i \in 1..n)
    PROVE  i - n \in 1..m /\ i = n + (i - n)
OBVIOUS

LEMMA ShelterOfConcat ==
    ASSUME NEW a \in Seq(Tokens), NEW b \in Seq(Tokens), NEW k \in Int, NEW h \in Int,
           Sheltered(a, k), Sheltered(b, h), h = k + Rise(a)
    PROVE  Sheltered(a \o b, k)
<1> DEFINE n == Len(a)
           m == Len(b)
           c == a \o b
<1>1. n \in Nat /\ m \in Nat /\ Len(c) = n + m /\ Rise(a) \in Int
  BY ConcatProperties, LenProperties, DepthType
<1>2. DepthsOf(a, b)
  BY DepthOfConcat
<1> DEFINE Fine(i) == Depth(c, i) \in Int /\ k + Depth(c, i) >= 0
                      /\ (IsBinary(c[i]) => k + Depth(c, i) >= 1)
<1>3. ASSUME NEW i \in 1..n PROVE Fine(i)
  <2>1. Depth(c, i) = Depth(a, i) /\ c[i] = a[i]
    BY <1>2 DEF DepthsOf
  <2> HIDE DEF c
  <2>2. QED
    BY <2>1 DEF Sheltered
<1>4. ASSUME NEW j \in 1..m PROVE Fine(n + j)
  <2> DEFINE i == n + j
  <2>1. Depth(c, i) = Rise(a) + Depth(b, j) /\ c[i] = b[j]
    BY <1>2 DEF DepthsOf
  <2>2. /\ Depth(b, j) \in Int /\ h + Depth(b, j) >= 0
        /\ (IsBinary(b[j]) => h + Depth(b, j) >= 1)
    BY DEF Sheltered
  <2> HIDE DEF c, i
  <2>3. k + Depth(c, i) = h + Depth(b, j) /\ Depth(c, i) \in Int
    BY <1>1, <2>1, <2>2
  <2>4. Fine(i)
    BY <2>1, <2>2, <2>3
  <2>5. QED
    BY <2>4 DEF i
<1>5. ASSUME NEW i \in 1..n + m PROVE Fine(i)
  <2> HIDE DEF Fine
  <2>1. CASE i \in 1..n
    BY <1>3, <2>1
  <2>2. CASE ~(i \in 1..n)
    <3> DEFINE j == i - n
    <3>1. j \in 1..m /\ i = n + j
      BY <1>1, <2>2, PlaceInConcat
    <3> HIDE DEF j
    <3>2. Fine(n + j)
      BY <1>4, <3>1
    <3>3. QED
      BY <3>1, <3>2
  <2>3. QED
    BY <2>1, <2>2
<1>6. QED
  BY <1>1, <1>5 DEF Sheltered

LEMMA ShelterOfOne ==
    ASSUME NEW t \in Tokens, NEW k \in Nat, IsBinary(t) \/ t = Close => k >= 1
    PROVE  /\ Sheltered(<<t>>, k)
           /\ Rise(<<t>>) = (IF t = Open THEN 1 ELSE IF t = Close THEN 0 - 1 ELSE 0)
<1> DEFINE s == <<t>>
<1>1. s \in Seq(Tokens) /\ Len(s) = 1 /\ s[1] = t
  OBVIOUS
<1>2. SubSeq(s, 1, 1) = s
  BY <1>1, SubSeqFull
<1>3. Opened(s) = (IF t = Open THEN 1 ELSE 0) /\ Closed(s) = (IF t = Close THEN 1 ELSE 0)
  BY Parenthesis
<1> HIDE DEF s
<1>4. Rise(s) = (IF t = Open THEN 1 ELSE IF t = Close THEN 0 - 1 ELSE 0)
  BY <1>3, OperatorsAndOperands DEF Rise
<1>5. Depth(s, 1) = Rise(s)
  BY <1>2 DEF Depth, Rise, Opened, Closed
<1>6. ~IsBinary(Open) /\ ~IsBinary(Close)
  BY DEF IsBinary
<1>7. /\ Depth(s, 1) \in Int /\ k + Depth(s, 1) >= 0
      /\ IsBinary(t) => k + Depth(s, 1) >= 1
  BY <1>4, <1>5, <1>6
<1>8. Sheltered(s, k)
  BY <1>1, <1>7 DEF Sheltered
<1>9. QED
  BY <1>4, <1>8 DEF s

\* No operator outside of all parentheses binds less than k.
Strong(s, prec, k) == \A i \in Outside(s) : prec[s[i].value] >= k

\* An operator is applied last between a text of operators as strong as it, or
\* stronger, and one of stronger ones.
LastBetween(l, o, r, prec) ==
    /\ Strong(l, prec, prec[o.value]) /\ Strong(r, prec, prec[o.value] + 1)
    /\ Rise(l) = 0

AppliedLast(l, o, r, prec) ==
    LET s == (l \o <<o>>) \o r
    IN  /\ s \in Seq(Tokens) /\ Len(s) = Len(l) + 1 + Len(r)
        /\ Outside(s) # {} /\ s[Root(s, prec)] = o
        /\ Before(s, prec) = l /\ After(s, prec) = r
        /\ Strong(s, prec, prec[o.value])

LEMMA RootBetween ==
    ASSUME NEW prec \in [BinaryValues -> Nat], NEW o \in Tokens, IsBinary(o),
           NEW l \in Seq(Tokens), NEW r \in Seq(Tokens),
           LastBetween(l, o, r, prec)
    PROVE  AppliedLast(l, o, r, prec)
<1> DEFINE u == <<o>>
           lo == l \o u
           s == lo \o r
           n == Len(l)
           m == Len(r)
           h == n + 1
           k == prec[o.value]
           g == k + 1
<1>0. /\ k \in Nat /\ g \in Nat /\ g = k + 1 /\ k = prec[o.value]
      /\ Strong(l, prec, k) /\ Strong(r, prec, g) /\ Rise(l) = 0
  <2>1. k \in Nat
    BY BinaryTokens
  <2>2. QED
    BY <2>1 DEF LastBetween
<1> HIDE DEF k, g
<1>1. /\ u \in Seq(Tokens) /\ Len(u) = 1 /\ u[1] = o /\ Rise(u) = 0 /\ Depth(u, 1) = 0
  <2>1. u \in Seq(Tokens) /\ Len(u) = 1 /\ u[1] = o
    OBVIOUS
  <2>2. o # Open /\ o # Close
    BY DEF IsBinary
  <2>3. Rise(u) = 0
    BY <2>2, ShelterOfOne
  <2>4. SubSeq(u, 1, 1) = u
    BY <2>1, SubSeqFull
  <2>5. Depth(u, 1) = Rise(u)
    BY <2>4 DEF Depth, Rise, Opened, Closed
  <2>6. QED
    BY <2>1, <2>3, <2>5
<1> HIDE DEF u
<1>2. /\ n \in Nat /\ m \in Nat /\ lo \in Seq(Tokens) /\ Len(lo) = h
      /\ s \in Seq(Tokens) /\ Len(s) = h + m
  <2>0. lo \in Seq(Tokens) /\ Len(lo) = Len(l) + Len(u)
    BY <1>1, ConcatProperties
  <2>1. n \in Nat /\ m \in Nat /\ lo \in Seq(Tokens) /\ Len(lo) = h
    BY <1>1, <2>0, LenProperties
  <2> HIDE DEF lo, h
  <2>2. s \in Seq(Tokens) /\ Len(s) = h + m
    BY <2>1, ConcatProperties
  <2>3. QED
    BY <2>1, <2>2
<1>3. DepthsOf(l, u)
  BY <1>1, DepthOfConcat
<1>4. DepthsOf(lo, r)
  <2> HIDE DEF lo
  <2>1. QED
    BY <1>2, DepthOfConcat
<1>5. Rise(lo) = 0
  BY <1>0, <1>1, <1>3 DEF DepthsOf
<1>6. lo[h] = o /\ Depth(lo, h) = 0
  <2>1. 1 \in 1..Len(u)
    BY <1>1
  <2>2. Depth(lo, Len(l) + 1) = Rise(l) + Depth(u, 1) /\ lo[Len(l) + 1] = u[1]
    BY <1>3, <2>1 DEF DepthsOf
  <2> HIDE DEF lo
  <2>3. QED
    BY <1>0, <1>1, <2>2
<1>7. ASSUME NEW i \in 1..n, i \in Outside(s) PROVE prec[s[i].value] >= k
  <2>1. i \in 1..Len(lo)
    BY <1>2
  <2>2. Depth(lo, i) = Depth(l, i) /\ lo[i] = l[i]
    BY <1>3 DEF DepthsOf
  <2> HIDE DEF lo
  <2>3. Depth(s, i) = Depth(lo, i) /\ s[i] = lo[i]
    BY <1>4, <2>1 DEF DepthsOf
  <2> HIDE DEF s
  <2>4. i \in Outside(l)
    BY <1>7, <2>2, <2>3 DEF Outside
  <2>5. prec[l[i].value] >= k
    BY <1>0, <2>4 DEF Strong
  <2>6. QED
    BY <1>0, <2>2, <2>3, <2>5
<1>8. h \in Outside(s) /\ s[h] = o
  <2> HIDE DEF lo
  <2>1. h \in 1..Len(lo) /\ h \in 1..Len(s)
    BY <1>2
  <2>2. Depth(s, h) = Depth(lo, h) /\ s[h] = lo[h]
    BY <1>4, <2>1 DEF DepthsOf
  <2> HIDE DEF s, h
  <2>3. QED
    BY <1>6, <2>1, <2>2 DEF Outside
<1>9. ASSUME NEW j \in 1..m, h + j \in Outside(s) PROVE prec[s[h + j].value] >= g
  <2> HIDE DEF lo
  <2>1. Depth(s, Len(lo) + j) = Rise(lo) + Depth(r, j) /\ s[Len(lo) + j] = r[j]
    BY <1>4 DEF DepthsOf
  <2>2. Depth(r, j) \in Int
    BY DepthType
  <2> HIDE DEF s, h
  <2>3. Depth(s, h + j) = Depth(r, j) /\ s[h + j] = r[j]
    BY <1>2, <1>5, <2>1, <2>2
  <2>4. j \in Outside(r)
    BY <1>9, <2>3 DEF Outside
  <2>5. prec[r[j].value] >= g
    BY <1>0, <2>4 DEF Strong
  <2>6. QED
    BY <2>3, <2>5
<1>10. ASSUME NEW i \in Outside(s)
       PROVE  /\ prec[s[i].value] \in Nat /\ prec[s[i].value] >= k /\ i \in Nat
              /\ i > h => prec[s[i].value] > k
  <2> DEFINE v == prec[s[i].value]
  <2>1. i \in 1..h + m /\ i \in 1..Len(s) /\ IsBinary(s[i])
    BY <1>2 DEF Outside
  <2>2. v \in Nat /\ h \in Nat
    <3> HIDE DEF s
    <3>1. s[i] \in Tokens
      BY <1>2, <2>1, ElementOfSeq
    <3>2. s[i].value \in BinaryValues
      BY <2>1, <3>1, BinaryTokens
    <3>3. QED
      BY <1>2, <3>2
  <2>3. CASE i \in 1..n
    <3>1. v >= k
      BY <1>7, <2>3
    <3>2. ~(i > h) /\ i \in Nat
      BY <1>2, <2>3
    <3> HIDE DEF v, h
    <3>3. QED
      BY <1>0, <2>2, <3>1, <3>2 DEF v
  <2>4. CASE i = h
    <3>1. v = k
      BY <1>0, <1>8, <2>4
    <3>2. ~(i > h) /\ i \in Nat
      BY <2>2, <2>4
    <3> HIDE DEF v, h
    <3>3. QED
      BY <1>0, <2>2, <3>1, <3>2 DEF v
  <2>5. CASE ~(i \in 1..h)
    <3> DEFINE j == i - h
    <3> HIDE DEF h
    <3>1. j \in 1..m /\ i = h + j
      BY <1>2, <2>1, <2>2, <2>5, PlaceInConcat
    <3>2. j \in Int /\ 1 <= j
      BY <1>2, <3>1
    <3> HIDE DEF j
    <3>3. prec[s[h + j].value] >= g
      BY <1>9, <1>10, <3>1 DEF h
    <3>4. v >= g
      BY <3>1, <3>3
    <3>5. i \in Nat
      BY <1>2, <3>1, <3>2
    <3> HIDE DEF v
    <3>6. v > k /\ v >= k
      BY <1>0, <2>2, <3>4
    <3>7. QED
      BY <2>2, <3>5, <3>6 DEF v
  <2>6. QED
    BY <1>2, <2>1, <2>3, <2>4, <2>5
<1>11. Root(s, prec) = h
  <2> HIDE DEF s
  <2>1. Root(s, prec) \in Outside(s) /\ AppliedBefore(s, prec, h, Root(s, prec))
    BY <1>2, <1>8, RootIsOutside
  <2> DEFINE v == prec[s[Root(s, prec)].value]
             q == Root(s, prec)
  <2>2. v < k \/ (v = k /\ h <= q)
    BY <1>0, <1>8, <2>1 DEF AppliedBefore
  <2>3. v \in Nat /\ v >= k /\ q \in Nat /\ (q > h => v > k)
    BY <1>10, <2>1
  <2>4. h \in Nat
    BY <1>2
  <2> HIDE DEF v, q, h
  <2>5. q = h
    BY <1>0, <2>2, <2>3, <2>4
  <2>6. QED
    BY <2>5 DEF q
<1>12. SubSeq(s, 1, n) = l
  <2>1. s = l \o (u \o r)
    BY <1>1, ConcatAssociative
  <2>2. u \o r \in Seq(Tokens)
    BY <1>1, ConcatProperties
  <2> DEFINE ur == u \o r
  <2> HIDE DEF ur, s
  <2>3. SubSeq(l \o ur, 1, Len(l)) = l
    BY <2>2, PieceOfConcat DEF ur
  <2>4. QED
    BY <2>1, <2>3 DEF ur
<1>13. SubSeq(s, h + 1, Len(s)) = r
  <2> HIDE DEF lo, h
  <2>1. SubSeq(lo \o r, Len(lo) + 1, Len(lo \o r)) = r
    BY <1>2, PieceOfConcat
  <2>2. QED
    BY <1>2, <2>1
<1>14. h - 1 = n
  BY <1>2
<1>15. Before(s, prec) = l /\ After(s, prec) = r
  <2> HIDE DEF s, h
  <2>1. QED
    BY <1>11, <1>12, <1>13, <1>14 DEF Before, After
<1>16. Len(s) = n + 1 + m
  BY <1>2
<1>17. QED
  <2> HIDE DEF s, h
  <2>1. Outside(s) # {} /\ s[Root(s, prec)] = o
    BY <1>8, <1>11
  <2>2. Strong(s, prec, prec[o.value])
    BY <1>10, <1>0 DEF Strong
  <2>3. QED
    BY <1>2, <1>15, <1>16, <2>1, <2>2 DEF s, lo, u, AppliedLast

LEMMA ShelteredIsStrong ==
    ASSUME NEW prec, NEW s \in Seq(Tokens), Sheltered(s, 0)
    PROVE  \A k : Strong(s, prec, k)
<1>1. \A i \in 1..Len(s) : Depth(s, i) \in Int /\ (IsBinary(s[i]) => 0 + Depth(s, i) >= 1)
  BY DEF Sheltered
<1>2. \A i \in 1..Len(s) : ~(IsBinary(s[i]) /\ Depth(s, i) = 0)
  BY <1>1
<1>3. QED
  BY <1>2 DEF Strong, Outside

\* An operator between two sheltered texts is applied last.
LEMMA OnlyRoot ==
    ASSUME NEW prec \in [BinaryValues -> Nat], NEW o \in Tokens, IsBinary(o),
           NEW l \in Seq(Tokens), NEW r \in Seq(Tokens),
           Sheltered(l, 0), Sheltered(r, 0), Rise(l) = 0
    PROVE  LET s == (l \o <<o>>) \o r
           IN  /\ s \in Seq(Tokens) /\ Len(s) = Len(l) + 1 + Len(r)
               /\ Outside(s) # {} /\ s[Root(s, prec)] = o
               /\ Before(s, prec) = l /\ After(s, prec) = r
<1>1. LastBetween(l, o, r, prec)
  BY ShelteredIsStrong DEF LastBetween
<1>2. AppliedLast(l, o, r, prec)
  BY <1>1, RootBetween
<1>3. QED
  BY <1>2 DEF AppliedLast

LEMMA BetweenParentheses ==
    ASSUME NEW s \in Seq(Tokens)
    PROVE  LET c == <<Open>> \o (s \o <<Close>>)
           IN  c \in Seq(Tokens) /\ Len(c) = Len(s) + 2 /\ InParentheses(c) /\ Inside(c) = s
<1> DEFINE open == <<Open>>
           close == <<Close>>
           x == s \o close
           c == open \o x
           n == Len(s)
<1>1. /\ open \in Seq(Tokens) /\ Len(open) = 1 /\ open # << >> /\ Head(open) = Open
      /\ close \in Seq(Tokens) /\ Len(close) = 1 /\ close[1] = Close
  BY Parentheses
<1> HIDE DEF open, close
<1>2. n \in Nat /\ x \in Seq(Tokens) /\ Len(x) = Len(s) + Len(close)
  BY <1>1, ConcatProperties, LenProperties
<1> HIDE DEF x
<1>3. c \in Seq(Tokens) /\ Len(c) = Len(open) + Len(x) /\ Head(c) = Open
  BY <1>1, <1>2, ConcatProperties, HeadOfConcat
<1>4. Len(c) = n + 2 /\ Len(x) = n + 1
  BY <1>1, <1>2, <1>3
<1>5. x[n + 1] = Close
  <2>1. n + 1 \in 1..Len(s) + Len(close) /\ ~(n + 1 <= Len(s)) /\ n + 1 - Len(s) = 1
    BY <1>1, <1>2
  <2>2. x[n + 1] = close[n + 1 - Len(s)]
    BY <1>1, <2>1, ConcatProperties DEF x
  <2>3. QED
    BY <1>1, <2>1, <2>2
<1>6. c[n + 2] = Close
  <2> DEFINE i == n + 2
  <2>1. i \in 1..Len(open) + Len(x) /\ ~(i <= Len(open)) /\ i - Len(open) = n + 1
    BY <1>1, <1>2, <1>4
  <2>2. c[i] = x[i - Len(open)]
    <3>1. \A j \in 1..Len(open) + Len(x) :
            c[j] = IF j <= Len(open) THEN open[j] ELSE x[j - Len(open)]
      BY <1>1, <1>2, ConcatProperties
    <3> HIDE DEF c, i
    <3>2. QED
      BY <2>1, <3>1
  <2>3. QED
    BY <1>5, <2>1, <2>2 DEF i
<1>7. InParentheses(c)
  <2> HIDE DEF c
  <2>1. QED
    BY <1>3, <1>4, <1>6 DEF InParentheses, Last
<1>8. Inside(c) = s
  <2>1. 1 \in 1..Len(x) + 1 /\ n \in 1 - 1..Len(x)
    BY <1>2, <1>4
  <2>2. SubSeq(c, Len(open) + 1, Len(open) + n) = SubSeq(x, 1, n)
    <3>1. open \in Seq(Tokens) /\ x \in Seq(Tokens)
      BY <1>1, <1>2
    <3> HIDE DEF n, c
    <3>2. SubSeq(open \o x, Len(open) + 1, Len(open) + n) = SubSeq(x, 1, n)
      BY <2>1, <3>1, PieceOfConcat
    <3>3. QED
      BY <3>2 DEF c
  <2>3. SubSeq(x, 1, n) = s
    BY <1>1, PieceOfConcat DEF x
  <2> HIDE DEF c
  <2>4. Len(open) + 1 = 2 /\ Len(open) + n = Len(c) - 1
    BY <1>1, <1>2, <1>4
  <2>5. QED
    BY <2>2, <2>3, <2>4 DEF Inside
<1>9. QED
  BY <1>3, <1>4, <1>7, <1>8 DEF open, close, x

\* Nothing in the condition reads as an operator outside of its parentheses, and
\* the grammar with SQL's precedences makes of it what it was made from.
Sound(p) ==
    /\ Condition(p) # << >>
    /\ Sheltered(Condition(p), 0) /\ Rise(Condition(p)) = 0
    /\ Grammar(Condition(p), SqlPrecedence) = p

LEMMA SqlStrengths == SqlPrecedence \in [BinaryValues -> Nat]
BY DEF SqlPrecedence

LEMMA SoundOperand == \A t \in OperandTokens : Sound(<<t>>)
<1> SUFFICES ASSUME NEW t \in OperandTokens PROVE Sound(<<t>>)
  OBVIOUS
<1> DEFINE s == <<t>>
<1>1. t \in Tokens /\ t # Open /\ t # Close /\ ~IsBinary(t)
  BY OperatorsAndOperands DEF IsBinary, OperandTokens
<1>2. s \in Seq(Tokens) /\ Len(s) <= 1 /\ s # << >>
  BY <1>1
<1>3. Sheltered(s, 0) /\ Rise(s) = 0
  BY <1>1, ShelterOfOne
<1>4. Only(OperandTokens, s) = s
  BY <1>1, OnlyOne
<1> HIDE DEF s
<1>5. Condition(s) = s
  <2>1. \A q \in Seq(Tokens) : Len(q) <= 1 => Condition(q) = q
    BY ConditionUnfolds
  <2>2. QED
    BY <1>2, <2>1
<1>6. Grammar(s, SqlPrecedence) = Only(OperandTokens, s)
  <2>1. \A q \in Seq(Tokens) :
          Len(q) <= 1 => Grammar(q, SqlPrecedence) = Only(OperandTokens, q)
    BY SqlStrengths, GrammarUnfolds
  <2>2. QED
    BY <1>2, <2>1
<1>7. Sound(s)
  BY <1>2, <1>3, <1>4, <1>5, <1>6 DEF Sound
<1>8. QED
  BY <1>7 DEF s

LEMMA SoundOperation ==
    ASSUME NEW o \in OperatorTokens \ {Close}, o # Open, NEW a \in Polish, NEW b \in Polish,
           Sound(a), Sound(b)
    PROVE  Sound(<<o>> \o a \o b)
<1> DEFINE p == <<o>> \o a \o b
           l == Condition(a)
           r == Condition(b)
           open == <<Open>>
           close == <<Close>>
           u == <<o>>
           s == (l \o u) \o r
           c == open \o (s \o close)
<1>1. /\ o \in Tokens /\ IsBinary(o) /\ a \in Seq(Tokens) /\ b \in Seq(Tokens)
      /\ a # << >> /\ b # << >>
  <2>1. o \in Tokens /\ IsBinary(o) /\ a \in Seq(Tokens) /\ b \in Seq(Tokens)
    BY PolishCases, OperatorsAndOperands DEF IsBinary, OperatorTokens
  <2>2. Len(a) >= 1 /\ Len(b) >= 1 
    BY PolishCounts DEF Counts
  <2>3. QED
    BY <2>1, <2>2, EmptySeq
<1>2. p \in Seq(Tokens) /\ Len(p) > 1 /\ p[1] = o /\ Left(p) = a /\ Right(p) = b
  <2>1. Len(p) > 1 /\ Left(p) = a /\ Right(p) = b
    BY Sides
  <2>2. p \in Seq(Tokens) /\ p[1] = o
    BY <1>1, Operation
  <2>3. QED
    BY <2>1, <2>2
<1>3. /\ l \in Seq(Tokens) /\ r \in Seq(Tokens) /\ u \in Seq(Tokens)
      /\ open \in Seq(Tokens) /\ close \in Seq(Tokens)
  <2>1. l \in Seq(Tokens) /\ r \in Seq(Tokens)
    BY <1>1, ConditionUnfolds
  <2>2. u \in Seq(Tokens) /\ open \in Seq(Tokens) /\ close \in Seq(Tokens)
    BY <1>1, Parentheses
  <2> HIDE DEF l, r, u, open, close
  <2>3. QED
    BY <2>1, <2>2
<1>4. Condition(p) = open \o l \o u \o r \o close
  <2> HIDE DEF p
  <2>1. QED
    BY <1>2, ConditionUnfolds
<1>5. /\ Sheltered(l, 0) /\ Rise(l) = 0 /\ Grammar(l, SqlPrecedence) = a
      /\ Sheltered(r, 0) /\ Rise(r) = 0 /\ Grammar(r, SqlPrecedence) = b
  BY DEF Sound
<1>6. /\ s \in Seq(Tokens) /\ Len(s) = Len(l) + 1 + Len(r)
      /\ Outside(s) # {} /\ s[Root(s, SqlPrecedence)] = o
      /\ Before(s, SqlPrecedence) = l /\ After(s, SqlPrecedence) = r
  <2> HIDE DEF l, r
  <2>1. QED
    BY <1>1, <1>3, <1>5, SqlStrengths, OnlyRoot
<1>7. /\ Sheltered(open, 0) /\ Rise(open) = 1
      /\ Sheltered(u, 1) /\ Rise(u) = 0
      /\ Sheltered(close, 1) /\ Rise(close) = 0 - 1
  <2>1. ~IsBinary(Open) /\ ~IsBinary(Close) /\ o # Open /\ o # Close /\ Open # Close
    BY OperatorsAndOperands DEF IsBinary
  <2>2. Open \in Tokens /\ Close \in Tokens
    BY Parentheses
  <2>3. QED
    BY <1>1, <2>1, <2>2, ShelterOfOne
<1> HIDE DEF l, r, u, open, close
<1>8. c = open \o l \o u \o r \o close
  <2> DEFINE lu == l \o u
             lur == lu \o r
  <2>1. lu \in Seq(Tokens) /\ open \o lu = (open \o l) \o u
    BY <1>3, ConcatProperties, ConcatAssociative
  <2> HIDE DEF lu
  <2>2. lur \in Seq(Tokens) /\ open \o (lu \o r) = (open \o lu) \o r
    <3>1. \A q, t \in Seq(Tokens) : open \o (q \o t) = (open \o q) \o t
      BY <1>3
    <3>2. lur \in Seq(Tokens)
      BY <1>3, <2>1, ConcatProperties
    <3>3. QED
      BY <1>3, <2>1, <3>1, <3>2
  <2>3. open \o (lur \o close) = (open \o lur) \o close
    <3> HIDE DEF lur
    <3>1. \A q \in Seq(Tokens) : open \o (q \o close) = (open \o q) \o close
      BY <1>3
    <3>2. QED
      BY <2>2, <3>1
  <2>4. QED
    BY <2>1, <2>2, <2>3 DEF lu, lur
<1>9. c \in Seq(Tokens) /\ Len(c) = Len(s) + 2 /\ InParentheses(c) /\ Inside(c) = s
  <2> HIDE DEF s
  <2>1. QED
    BY <1>6, BetweenParentheses DEF open, close
<1>10. Sheltered(l, 1) /\ Sheltered(r, 1)
  BY <1>5 DEF Sheltered
<1>11. Sheltered(s, 1) /\ Rise(s) = 0
  <2> DEFINE lu == l \o u
  <2>1. lu \in Seq(Tokens) /\ Sheltered(lu, 1) /\ Rise(lu) = 0
    <3>1. Sheltered(lu, 1)
      BY <1>3, <1>5, <1>7, <1>10, ShelterOfConcat
    <3>2. Rise(lu) = Rise(l) + Rise(u)
      BY <1>3, DepthOfConcat DEF DepthsOf
    <3>3. QED
      BY <1>3, <1>5, <1>7, <3>1, <3>2, ConcatProperties
  <2> HIDE DEF lu
  <2>2. Sheltered(lu \o r, 1)
    BY <1>3, <1>10, <2>1, ShelterOfConcat
  <2>3. Rise(lu \o r) = Rise(lu) + Rise(r)
    BY <1>3, <2>1, DepthOfConcat DEF DepthsOf
  <2>4. QED
    BY <1>5, <2>1, <2>2, <2>3 DEF lu
<1> DEFINE x == s \o close
<1>12. x \in Seq(Tokens) /\ Sheltered(x, 1) /\ Rise(x) = 0 - 1
  <2> HIDE DEF s
  <2>1. Sheltered(x, 1)
    BY <1>3, <1>6, <1>7, <1>11, ShelterOfConcat
  <2>2. Rise(x) = Rise(s) + Rise(close)
    BY <1>3, <1>6, DepthOfConcat DEF DepthsOf
  <2>3. QED
    BY <1>3, <1>6, <1>7, <1>11, <2>1, <2>2, ConcatProperties
<1>13. Sheltered(c, 0) /\ Rise(c) = 0
  <2> HIDE DEF x
  <2>1. Sheltered(open \o x, 0)
    BY <1>3, <1>7, <1>12, ShelterOfConcat
  <2>2. Rise(open \o x) = Rise(open) + Rise(x)
    BY <1>3, <1>12, DepthOfConcat DEF DepthsOf
  <2>3. QED
    BY <1>7, <1>12, <2>1, <2>2 DEF x
<1>14. /\ Len(l) \in Nat /\ Len(r) \in Nat /\ Len(l) >= 1 /\ Len(r) >= 1
       /\ Len(s) > 1 /\ Len(c) > 1 /\ c # << >>
  <2>1. Len(l) \in Nat /\ Len(r) \in Nat /\ Len(l) # 0 /\ Len(r) # 0
    BY <1>3, LenProperties, EmptySeq DEF Sound, l, r
  <2> HIDE DEF s, c
  <2>2. Len(s) > 1 /\ Len(c) > 1
    BY <1>6, <1>9, <2>1
  <2>3. QED
    BY <1>9, <2>1, <2>2, EmptySeq
<1>15. Grammar(s, SqlPrecedence) = p
  <2> HIDE DEF s, p
  <2>1. Grammar(s, SqlPrecedence) = Joint(o, a, b)
    BY <1>5, <1>6, <1>14, SqlStrengths, GrammarUnfolds
  <2>2. Joint(o, a, b) = p
    BY <1>1, JointType DEF p
  <2>3. QED
    BY <2>1, <2>2
<1>16. Outside(c) = {}
  <2> HIDE DEF c
  <2>1. ASSUME NEW i \in Outside(c) PROVE FALSE
    <3>1. i \in 1..Len(c) /\ IsBinary(c[i]) /\ Depth(c, i) = 0
      BY DEF Outside
    <3>2. 0 + Depth(c, i) >= 1
      BY <1>13, <3>1 DEF Sheltered
    <3>3. QED
      BY <3>1, <3>2
  <2>2. QED
    BY <2>1
<1>17. Grammar(c, SqlPrecedence) = p
  <2> HIDE DEF c, s, p
  <2>1. Grammar(c, SqlPrecedence) = Grammar(Inside(c), SqlPrecedence)
    BY <1>9, <1>14, <1>16, SqlStrengths, GrammarUnfolds
  <2>2. QED
    BY <1>9, <1>15, <2>1
<1>18. Condition(p) = c
  BY <1>4, <1>8
<1>19. QED
  <2> HIDE DEF c, p
  <2>1. Sound(p)
    BY <1>13, <1>14, <1>17, <1>18 DEF Sound
  <2>2. QED
    BY <2>1 DEF p

\* An expression without parentheses among its operators.
LEMMA ConditionIsSound == \A p \in Polish : Opened(p) = 0 => Sound(p)
<1> DEFINE C == {p \in Polish : Opened(p) = 0 => Sound(p)}
<1>1. HasOperands(C)
  BY PolishGrows, SoundOperand DEF HasOperands
<1>2. HasOperations(C)
  <2> SUFFICES ASSUME NEW o \in OperatorTokens \ {Close}, NEW a \in C, NEW b \in C
               PROVE  <<o>> \o a \o b \in C
    BY DEF HasOperations
  <2> DEFINE p == <<o>> \o a \o b
             u == <<o>>
             ua == u \o a
  <2>1. a \in Polish /\ b \in Polish /\ p \in Polish
    BY PolishGrows DEF HasOperations
  <2>2. SUFFICES ASSUME Opened(p) = 0 PROVE Sound(p)
    BY <2>1
  <2>3. o \in Tokens /\ a \in Seq(Tokens) /\ b \in Seq(Tokens) /\ u \in Seq(Tokens)
        /\ ua \in Seq(Tokens)
    BY <2>1, PolishCases, OperatorsAndOperands, Operation
  <2>4. Opened(u) = IF o = Open THEN 1 ELSE 0
    BY <2>3, Parenthesis
  <2> HIDE DEF u
  <2>5. Opened(ua) = Opened(u) + Opened(a)
    BY <2>3, Parenthesis
  <2>6. Opened(ua \o b) = Opened(ua) + Opened(b)
    <3> HIDE DEF ua
    <3>1. QED
      BY <2>3, Parenthesis
  <2>7. Opened(a) \in Nat /\ Opened(b) \in Nat /\ Opened(ua \o b) = 0
    BY <2>2, <2>3, Parenthesis DEF u
  <2>8. o # Open /\ Opened(a) = 0 /\ Opened(b) = 0
    <3> HIDE DEF ua
    <3>1. QED
      BY <2>4, <2>5, <2>6, <2>7
  <2>9. QED
    BY <2>1, <2>8, SoundOperation
<1>3. Polish \subseteq C
  <2>1. C \subseteq Seq(Tokens)
    BY DEF Polish
  <2> HIDE DEF C
  <2>2. QED
    BY <1>1, <1>2, <2>1, PolishInduction
<1>4. QED
  BY <1>3

\* AND binds tighter than OR in SQL and not in the language, yet SQL reads the
\* condition as the expression that was parsed.
THEOREM SqlReadsTheExpression == Spec => []SqlMeansTheSame
<1>1. ASSUME Inv, InPolish PROVE SqlMeansTheSame
  <2> SUFFICES ASSUME phase = "queried" PROVE Grammar(sql, SqlPrecedence) = Result
    BY DEF SqlMeansTheSame
  <2>1. /\ Open \notin ToSet(Result)
        /\ sql = IF Result = << >> THEN << >> ELSE Condition(Result)
    BY <1>1 DEF Inv, Asked
  <2>2. CASE Result = << >>
    <3>1. << >> \in Seq(Tokens) /\ Len(<< >>) <= 1 /\ Only(OperandTokens, << >>) = << >>
      BY OnlyOfNone
    <3>2. Grammar(<< >>, SqlPrecedence) = << >>
      BY <3>1, SqlStrengths, GrammarUnfolds
    <3>3. QED
      BY <2>1, <2>2, <3>2
  <2>3. CASE Result # << >>
    <3> DEFINE p == Result
    <3> HIDE DEF p
    <3>1. p \in Polish /\ p \in Seq(Tokens)
      BY <1>1, <2>3, TheResult, PolishCases DEF p
    <3>2. {Open} \cap ToSet(p) = {}
      BY <2>1 DEF p
    <3>3. Opened(p) = 0
      BY <3>1, <3>2, Absent DEF Opened
    <3>4. Sound(p)
      BY <3>1, <3>3, ConditionIsSound
    <3>5. QED
      BY <2>1, <2>3, <3>4 DEF Sound, p
  <2>4. QED
    BY <2>2, <2>3
<1>2. QED
  BY <1>1, BalanceInvariance, PTL

-----------------------------------------------------------------------------
(***************************************************************************)
(* What the grammar accepts has balanced parentheses, and operands and     *)
(* operators take turns.                                                   *)
(***************************************************************************)

Starts(t) == t \in OperandTokens \/ t = Open
Completes(t) == t \in OperandTokens \/ t = Close
Follows(a, b) == Completes(a) <=> ~Starts(b)

\* With k parentheses open before it, s closes none that it did not find.
Above(s, k) == \A i \in 1..Len(s) : k + Depth(s, i) >= 0

Chain(s) == \A i \in 1..Len(s) : i + 1 <= Len(s) => Follows(s[i], s[i + 1])

Lawful(s) ==
    /\ s # << >> /\ Starts(s[1]) /\ Completes(s[Len(s)])
    /\ Chain(s) /\ Above(s, 0) /\ Rise(s) = 0

LEMMA AboveOfConcat ==
    ASSUME NEW a \in Seq(Tokens), NEW b \in Seq(Tokens), NEW k \in Int, NEW h \in Int,
           h = k + Rise(a)
    PROVE  Above(a \o b, k) <=> Above(a, k) /\ Above(b, h)
<1> DEFINE n == Len(a)
           m == Len(b)
           c == a \o b
           Fine(i) == k + Depth(c, i) >= 0
<1>1. n \in Nat /\ m \in Nat /\ Len(c) = n + m /\ Rise(a) \in Int
  BY ConcatProperties, LenProperties, DepthType
<1>2. DepthsOf(a, b)
  BY DepthOfConcat
<1>3. ASSUME NEW i \in 1..n PROVE Fine(i) <=> k + Depth(a, i) >= 0
  BY <1>2 DEF DepthsOf
<1>4. ASSUME NEW j \in 1..m PROVE Fine(n + j) <=> h + Depth(b, j) >= 0
  <2>1. Depth(c, n + j) = Rise(a) + Depth(b, j) /\ Depth(b, j) \in Int
    BY <1>2, DepthType DEF DepthsOf
  <2> HIDE DEF c
  <2>2. k + (Rise(a) + Depth(b, j)) = h + Depth(b, j)
    BY <1>1, <2>1
  <2>3. QED
    BY <2>1, <2>2
<1> HIDE DEF Fine, c
<1>5. (\A i \in 1..n + m : Fine(i)) <=> (\A i \in 1..n : Fine(i)) /\ (\A j \in 1..m : Fine(n + j))
  <2>1. ASSUME \A i \in 1..n + m : Fine(i)
        PROVE  (\A i \in 1..n : Fine(i)) /\ (\A j \in 1..m : Fine(n + j))
    <3>1. \A i \in 1..n : i \in 1..n + m
      BY <1>1
    <3>2. \A j \in 1..m : n + j \in 1..n + m
      BY <1>1
    <3>3. QED
      BY <2>1, <3>1, <3>2
  <2>2. ASSUME \A i \in 1..n : Fine(i), \A j \in 1..m : Fine(n + j), NEW i \in 1..n + m
        PROVE  Fine(i)
    <3>1. CASE i \in 1..n
      BY <2>2, <3>1
    <3>2. CASE ~(i \in 1..n)
      <4> DEFINE j == i - n
      <4>1. j \in 1..m /\ i = n + j
        BY <1>1, <3>2, PlaceInConcat
      <4> HIDE DEF j
      <4>2. QED
        BY <2>2, <4>1
    <3>3. QED
      BY <3>1, <3>2
  <2>3. QED
    BY <2>1, <2>2
<1>6. Above(c, k) <=> \A i \in 1..n + m : Fine(i)
  BY <1>1 DEF Above, Fine
<1>7. Above(a, k) <=> \A i \in 1..n : Fine(i)
  BY <1>3 DEF Above
<1>8. Above(b, h) <=> \A j \in 1..m : Fine(n + j)
  BY <1>4 DEF Above
<1>9. QED
  BY <1>5, <1>6, <1>7, <1>8 DEF c

LEMMA AboveOne ==
    ASSUME NEW t \in Tokens, NEW k \in Int
    PROVE  /\ Above(<<t>>, k) <=> k + Rise(<<t>>) >= 0
           /\ Rise(<<t>>) = (IF t = Open THEN 1 ELSE IF t = Close THEN 0 - 1 ELSE 0)
<1> DEFINE s == <<t>>
<1>1. s \in Seq(Tokens) /\ Len(s) = 1
  OBVIOUS
<1>2. SubSeq(s, 1, 1) = s
  BY <1>1, SubSeqFull
<1>3. Opened(s) = (IF t = Open THEN 1 ELSE 0) /\ Closed(s) = (IF t = Close THEN 1 ELSE 0)
  BY Parenthesis
<1> HIDE DEF s
<1>4. Rise(s) = (IF t = Open THEN 1 ELSE IF t = Close THEN 0 - 1 ELSE 0)
  BY <1>3, OperatorsAndOperands DEF Rise
<1>5. Depth(s, 1) = Rise(s)
  BY <1>2 DEF Depth, Rise, Opened, Closed
<1>6. Above(s, k) <=> k + Rise(s) >= 0
  <2>1. 1..Len(s) = {1}
    BY <1>1
  <2>2. QED
    BY <1>5, <2>1 DEF Above
<1>7. QED
  BY <1>4, <1>6 DEF s

\* Citing the places of a concatenation for one pair of sequences.
PlacesOf(a, b) ==
    /\ \A i \in 1..Len(a) : (a \o b)[i] = a[i]
    /\ \A j \in 1..Len(b) : (a \o b)[Len(a) + j] = b[j]
    /\ Len(a \o b) = Len(a) + Len(b) /\ a \o b \in Seq(Tokens)
    /\ Len(a) \in Nat /\ Len(b) \in Nat

LEMMA PlacesOfConcat ==
    ASSUME NEW a \in Seq(Tokens), NEW b \in Seq(Tokens)
    PROVE  PlacesOf(a, b)
<1>1. DepthsOf(a, b)
  BY DepthOfConcat
<1>2. Len(a \o b) = Len(a) + Len(b) /\ a \o b \in Seq(Tokens) /\ Len(a) \in Nat /\ Len(b) \in Nat
  BY ConcatProperties, LenProperties
<1>3. QED
  BY <1>1, <1>2 DEF DepthsOf, PlacesOf

LEMMA ChainOfConcat ==
    ASSUME NEW a \in Seq(Tokens), NEW b \in Seq(Tokens), a # << >>, b # << >>
    PROVE  /\ Chain(a \o b) <=> Chain(a) /\ Chain(b) /\ Follows(a[Len(a)], b[1])
           /\ (a \o b)[1] = a[1] /\ (a \o b)[Len(a \o b)] = b[Len(b)]
           /\ a \o b # << >>
<1> DEFINE n == Len(a)
           m == Len(b)
           c == a \o b
<1>1. /\ n \in Nat /\ m \in Nat /\ Len(c) = n + m /\ n >= 1 /\ m >= 1 /\ c \in Seq(Tokens)
      /\ \A i \in 1..n : c[i] = a[i]
      /\ \A j \in 1..m : c[n + j] = b[j]
  BY PlacesOfConcat, EmptySeq DEF PlacesOf
<1> HIDE DEF c, n, m
<1>2. c[1] = a[1] /\ c[n + m] = b[m] /\ c[n] = a[n] /\ c[n + 1] = b[1]
  <2>1. 1 \in 1..n /\ n \in 1..n /\ m \in 1..m /\ 1 \in 1..m
    BY <1>1
  <2>2. QED
    BY <1>1, <2>1
<1>3. c # << >>
  <2>1. Len(c) # 0
    BY <1>1
  <2>2. QED
    BY <1>1, <2>1, EmptySeq
<1>4. ASSUME Chain(c) PROVE Chain(a) /\ Chain(b) /\ Follows(a[n], b[1])
  <2>1. \A i \in 1..n + m : i + 1 <= n + m => Follows(c[i], c[i + 1])
    BY <1>1, <1>4 DEF Chain
  <2>2. ASSUME NEW i \in 1..n, i + 1 <= n PROVE Follows(a[i], a[i + 1])
    <3> DEFINE j == i + 1
    <3>1. i \in 1..n + m /\ j <= n + m /\ j \in 1..n
      BY <1>1, <2>2
    <3>2. Follows(c[i], c[j])
      BY <2>1, <3>1
    <3> HIDE DEF j
    <3>3. Follows(a[i], a[j])
      BY <1>1, <3>1, <3>2
    <3>4. QED
      BY <3>3 DEF j
  <2>3. ASSUME NEW i \in 1..m, i + 1 <= m PROVE Follows(b[i], b[i + 1])
    <3> DEFINE j == i + 1
               h == n + i
    <3>1. h \in 1..n + m /\ h + 1 <= n + m /\ j \in 1..m /\ h + 1 = n + j
      BY <1>1, <2>3
    <3> HIDE DEF j
    <3>2. c[h] = b[i] /\ c[n + j] = b[j]
      BY <1>1, <3>1
    <3> HIDE DEF h
    <3>3. Follows(c[h], c[h + 1])
      BY <2>1, <3>1
    <3>4. Follows(b[i], b[j])
      BY <3>1, <3>2, <3>3
    <3>5. QED
      BY <3>4 DEF j
  <2>4. Follows(a[n], b[1])
    <3>1. n \in 1..n + m /\ n + 1 <= n + m
      BY <1>1
    <3>2. Follows(c[n], c[n + 1])
      BY <2>1, <3>1
    <3>3. QED
      BY <1>2, <3>2
  <2>5. QED
    BY <2>2, <2>3, <2>4 DEF Chain, n, m
<1>5. ASSUME Chain(a), Chain(b), Follows(a[n], b[1]) PROVE Chain(c)
  <2> SUFFICES ASSUME NEW i \in 1..n + m, i + 1 <= n + m PROVE Follows(c[i], c[i + 1])
    BY <1>1 DEF Chain
  <2>1. CASE i + 1 <= n
    <3> DEFINE j == i + 1
    <3>1. i \in 1..n /\ j \in 1..n
      BY <1>1, <2>1
    <3>2. Follows(a[i], a[j])
      BY <1>5, <2>1, <3>1 DEF Chain, n
    <3> HIDE DEF j
    <3>3. Follows(c[i], c[j])
      BY <1>1, <3>1, <3>2
    <3>4. QED
      BY <3>3 DEF j
  <2>2. CASE i = n
    BY <1>2, <1>5, <2>2
  <2>3. CASE ~(i <= n)
    <3> DEFINE h == i - n
               j == h + 1
    <3>1. h \in 1..m /\ i = n + h /\ i + 1 = n + j /\ j \in 1..m /\ j <= m
      BY <1>1, <2>3
    <3> HIDE DEF h
    <3>2. Follows(b[h], b[j])
      BY <1>5, <3>1 DEF Chain, m
    <3> HIDE DEF j
    <3>3. c[n + h] = b[h] /\ c[n + j] = b[j]
      BY <1>1, <3>1
    <3>4. QED
      BY <3>1, <3>2, <3>3
  <2>4. QED
    BY <1>1, <2>1, <2>2, <2>3
<1>6. QED
  BY <1>1, <1>2, <1>3, <1>4, <1>5 DEF c, n, m

LEMMA ChainOne == \A t \in Tokens : Chain(<<t>>)
BY DEF Chain

\* A text around one of its places.
LEMMA SplitAt ==
    ASSUME NEW s \in Seq(Tokens), NEW i \in 1..Len(s)
    PROVE  /\ SubSeq(s, 1, i - 1) \in Seq(Tokens) /\ SubSeq(s, i + 1, Len(s)) \in Seq(Tokens)
           /\ s[i] \in Tokens
           /\ s = (SubSeq(s, 1, i - 1) \o <<s[i]>>) \o SubSeq(s, i + 1, Len(s))
<1>1. Len(s) \in Nat /\ i \in Nat /\ 1 <= i /\ i <= Len(s)
  BY LenProperties
<1>2. /\ SubSeq(s, 1, i) = SubSeq(s, 1, i - 1) \o <<s[i]>>
      /\ SubSeq(s, 1, i - 1) \in Seq(Tokens) /\ s[i] \in Tokens
  BY ReadOne
<1>3. SubSeq(s, i + 1, Len(s)) \in Seq(Tokens)
  <2>1. \A j \in i + 1..Len(s) : s[j] \in Tokens
    BY <1>1, ElementOfSeq
  <2>2. i + 1 \in Int /\ Len(s) \in Int
    BY <1>1
  <2>3. QED
    BY <2>1, <2>2, SubSeqProperties
<1>4. SubSeq(s, 1, i) \o SubSeq(s, i + 1, Len(s)) = SubSeq(s, 1, Len(s))
  <2>1. 1 \in 1..Len(s) + 1 /\ i \in 1 - 1..Len(s) /\ Len(s) \in i..Len(s)
    BY <1>1
  <2>2. QED
    BY <2>1, ConcatAdjacentSubSeq
<1>5. SubSeq(s, 1, Len(s)) = s
  BY SubSeqFull
<1>6. QED
  BY <1>2, <1>3, <1>4, <1>5

\* A text between parentheses.
LEMMA Unwrapped ==
    ASSUME NEW s \in Seq(Tokens), Len(s) > 1, InParentheses(s)
    PROVE  Inside(s) \in Seq(Tokens) /\ s = <<Open>> \o (Inside(s) \o <<Close>>)
<1> DEFINE n == Len(s)
<1>1. n \in Nat /\ n > 1 /\ s # << >> /\ s[n] = Close /\ s[1] = Open
  BY LenProperties, EmptySeq, HeadTailProperties DEF InParentheses, Last
<1>2. SubSeq(s, 1, n) = <<s[1]>> \o SubSeq(s, 2, n)
  <2>1. 1 \in 1..Len(s) /\ n \in 1..Len(s)
    BY <1>1
  <2>2. SubSeq(s, 1, n) = <<s[1]>> \o SubSeq(s, 1 + 1, n)
    BY <2>1, SubSeqRecursiveFirst
  <2>3. QED
    BY <2>2
<1>3. SubSeq(s, 2, n) = SubSeq(s, 2, n - 1) \o <<s[n]>>
  <2>1. 2 \in 1..Len(s) /\ n \in 2..Len(s)
    BY <1>1
  <2>2. QED
    BY <2>1, SubSeqRecursiveSecond
<1>4. SubSeq(s, 2, n - 1) \in Seq(Tokens)
  <2>1. \A j \in 2..n - 1 : s[j] \in Tokens
    BY <1>1, ElementOfSeq
  <2>2. n - 1 \in Int /\ 2 \in Int
    BY <1>1
  <2>3. QED
    BY <2>1, <2>2, SubSeqProperties
<1>5. SubSeq(s, 1, n) = s
  BY SubSeqFull
<1>6. QED
  BY <1>1, <1>2, <1>3, <1>4, <1>5 DEF Inside, n

LEMMA LawfulOperand == \A t \in OperandTokens : Lawful(<<t>>)
<1> SUFFICES ASSUME NEW t \in OperandTokens PROVE Lawful(<<t>>)
  OBVIOUS
<1>1. t \in Tokens /\ t # Open /\ t # Close
  BY OperatorsAndOperands
<1>2. Rise(<<t>>) = 0 /\ Above(<<t>>, 0)
  BY <1>1, AboveOne
<1>3. Chain(<<t>>)
  BY <1>1, ChainOne
<1> DEFINE s == <<t>>
<1>4. s # << >> /\ s[1] = t /\ s[Len(s)] = t
  OBVIOUS
<1>5. QED
  BY <1>2, <1>3, <1>4 DEF Lawful, Starts, Completes

LEMMA LawfulOperation ==
    ASSUME NEW o \in Tokens, IsBinary(o),
           NEW l \in Seq(Tokens), NEW r \in Seq(Tokens), Lawful(l), Lawful(r)
    PROVE  Lawful((l \o <<o>>) \o r)
<1> DEFINE m == <<o>>
           a == l \o m
           s == a \o r
<1>1. m \in Seq(Tokens) /\ m # << >> /\ m[1] = o /\ m[Len(m)] = o /\ Chain(m)
  BY ChainOne
<1>2. ~Starts(o) /\ ~Completes(o) /\ o # Open /\ o # Close
  BY OperatorsAndOperands, BinaryTokens DEF IsBinary, Starts, Completes
<1>3. Rise(m) = 0 /\ Above(m, 0)
  BY <1>2, AboveOne
<1> HIDE DEF m
<1>4. a \in Seq(Tokens) /\ s \in Seq(Tokens)
  BY <1>1, ConcatProperties
<1>5. Follows(l[Len(l)], m[1]) /\ Follows(m[Len(m)], r[1])
  BY <1>1, <1>2 DEF Lawful, Follows
<1>6. Chain(a) /\ a[1] = l[1] /\ a[Len(a)] = o /\ a # << >>
  BY <1>1, <1>5, ChainOfConcat DEF Lawful
<1>7. Rise(a) = 0 /\ Above(a, 0)
  <2>1. Rise(a) = Rise(l) + Rise(m)
    BY <1>1, DepthOfConcat DEF DepthsOf
  <2>2. 0 = 0 + Rise(l)
    BY DEF Lawful
  <2>3. Above(a, 0)
    BY <1>1, <1>3, <2>2, AboveOfConcat DEF Lawful
  <2>4. QED
    BY <1>3, <2>1, <2>3 DEF Lawful
<1> HIDE DEF a
<1>8. Chain(s) /\ s[1] = a[1] /\ s[Len(s)] = r[Len(r)] /\ s # << >>
  <2>1. Follows(a[Len(a)], r[1])
    BY <1>1, <1>5, <1>6
  <2>2. QED
    BY <1>4, <1>6, <2>1, ChainOfConcat DEF Lawful
<1>9. Rise(s) = 0 /\ Above(s, 0)
  <2>1. Rise(s) = Rise(a) + Rise(r)
    BY <1>4, DepthOfConcat DEF DepthsOf
  <2>2. 0 = 0 + Rise(a)
    BY <1>7
  <2>3. Above(s, 0)
    BY <1>4, <1>7, <2>2, AboveOfConcat DEF Lawful
  <2>4. QED
    BY <1>7, <2>1, <2>3 DEF Lawful
<1> HIDE DEF s
<1>10. Lawful(s)
  BY <1>6, <1>8, <1>9 DEF Lawful
<1>11. QED
  BY <1>10 DEF s, a, m

LEMMA LawfulParentheses ==
    ASSUME NEW m \in Seq(Tokens), Lawful(m)
    PROVE  Lawful(<<Open>> \o (m \o <<Close>>))
<1> DEFINE open == <<Open>>
           close == <<Close>>
           a == m \o close
           s == open \o a
<1>1. /\ open \in Seq(Tokens) /\ open # << >> /\ open[1] = Open /\ open[Len(open)] = Open
      /\ close \in Seq(Tokens) /\ close # << >> /\ close[1] = Close /\ close[Len(close)] = Close
      /\ Chain(open) /\ Chain(close)
  BY ChainOne, Parentheses
<1>2. ~Starts(Close) /\ ~Completes(Open) /\ Starts(Open) /\ Completes(Close)
  BY OperatorsAndOperands DEF Starts, Completes
<1>3. Rise(open) = 1 /\ Above(open, 0) /\ Rise(close) = 0 - 1 /\ Above(close, 1)
  <2>1. Rise(open) = 1 /\ Rise(close) = 0 - 1
    BY Parentheses, AboveOne, OperatorsAndOperands
  <2>2. 0 + Rise(open) >= 0 /\ 1 + Rise(close) >= 0
    BY <2>1
  <2>3. QED
    BY <2>1, <2>2, Parentheses, AboveOne
<1> HIDE DEF open, close
<1>4. a \in Seq(Tokens) /\ s \in Seq(Tokens)
  BY <1>1, ConcatProperties
<1>5. Follows(m[Len(m)], close[1]) /\ Follows(open[Len(open)], m[1])
  BY <1>1, <1>2 DEF Lawful, Follows
<1>6. Chain(a) /\ a[1] = m[1] /\ a[Len(a)] = Close /\ a # << >>
  BY <1>1, <1>5, ChainOfConcat DEF Lawful
<1>7. Rise(a) = 0 - 1 /\ Above(a, 1)
  <2>1. Rise(a) = Rise(m) + Rise(close)
    BY <1>1, DepthOfConcat DEF DepthsOf
  <2>2. 1 = 1 + Rise(m) /\ Rise(m) = 0
    BY DEF Lawful
  <2>3. Above(m, 1)
    <3>1. \A i \in 1..Len(m) : Depth(m, i) \in Int /\ 0 + Depth(m, i) >= 0
      BY DepthType DEF Lawful, Above
    <3>2. \A i \in 1..Len(m) : 1 + Depth(m, i) >= 0
      BY <3>1
    <3>3. QED
      BY <3>2 DEF Above
  <2>4. Above(a, 1)
    BY <1>1, <1>3, <2>2, <2>3, AboveOfConcat
  <2>5. QED
    BY <1>3, <2>1, <2>2, <2>4
<1> HIDE DEF a
<1>8. Chain(s) /\ s[1] = Open /\ s[Len(s)] = Close /\ s # << >>
  <2>1. Follows(open[Len(open)], a[1])
    BY <1>5, <1>6
  <2>2. QED
    BY <1>1, <1>4, <1>6, <2>1, ChainOfConcat
<1>9. Rise(s) = 0 /\ Above(s, 0)
  <2>1. Rise(s) = Rise(open) + Rise(a)
    BY <1>1, <1>4, DepthOfConcat DEF DepthsOf
  <2>2. 1 = 0 + Rise(open)
    BY <1>3
  <2>3. Above(s, 0)
    BY <1>1, <1>3, <1>4, <1>7, <2>2, AboveOfConcat
  <2>4. QED
    BY <1>3, <1>7, <2>1, <2>3
<1> HIDE DEF s
<1>10. Lawful(s)
  BY <1>2, <1>8, <1>9 DEF Lawful
<1>11. QED
  BY <1>10 DEF s, a, open, close

\* The operator applied last, and what stands on its sides.
LEMMA RootSplits ==
    ASSUME NEW prec \in [BinaryValues -> Nat], NEW r \in Seq(Tokens), Outside(r) # {}
    PROVE  /\ Before(r, prec) \in Seq(Tokens) /\ After(r, prec) \in Seq(Tokens)
           /\ r[Root(r, prec)] \in Tokens /\ IsBinary(r[Root(r, prec)])
           /\ r = (Before(r, prec) \o <<r[Root(r, prec)]>>) \o After(r, prec)
<1>1. Root(r, prec) \in 1..Len(r) /\ IsBinary(r[Root(r, prec)])
  BY RootIsOutside DEF Outside
<1>2. QED
  BY <1>1, SplitAt DEF Before, After

\* A text the grammar accepts is lawful, and no parenthesis is part of the
\* expression it stands for.
Accepted(s, prec) ==
    Grammar(s, prec) # << >> => Lawful(s) /\ Opened(Grammar(s, prec)) = 0

LEMMA GrammarIsLawful ==
    ASSUME NEW prec \in [BinaryValues -> Nat]
    PROVE  \A s \in Seq(Tokens) : Accepted(s, prec)
<1> DEFINE Good == {s \in Seq(Tokens) : Accepted(s, prec)}
<1>1. ASSUME NEW r \in Seq(Tokens), \A q \in Seq(Tokens) : Len(q) < Len(r) => q \in Good
      PROVE  r \in Good
  <2>0. Len(r) \in Nat
    BY LenProperties
  <2> SUFFICES ASSUME Grammar(r, prec) # << >>
               PROVE  Lawful(r) /\ Opened(Grammar(r, prec)) = 0
    BY DEF Accepted
  <2>1. CASE Len(r) <= 1
    <3>1. Grammar(r, prec) = Only(OperandTokens, r)
      BY <2>1, GrammarUnfolds
    <3>2. r # << >>
      BY <3>1, OnlyOfNone
    <3>3. Len(r) = 1
      <4>1. Len(r) # 0
        BY <3>2, EmptySeq
      <4>2. \A n \in Nat : n # 0 /\ n <= 1 => n = 1
        OBVIOUS
      <4>3. QED
        BY <2>0, <2>1, <4>1, <4>2
    <3>4. r = <<r[1]>> /\ r[1] \in Tokens
      BY <3>3, OneOrTwo
    <3>5. r[1] \in OperandTokens /\ Grammar(r, prec) = <<r[1]>>
      <4> DEFINE t == r[1]
      <4>1. r = <<t>> /\ t \in Tokens
        BY <3>4
      <4> HIDE DEF t
      <4>2. Only(OperandTokens, r) = IF t \in OperandTokens THEN <<t>> ELSE << >>
        BY <4>1, OnlyOne
      <4>3. QED
        BY <3>1, <4>2 DEF t
    <3>6. QED
      BY <3>4, <3>5, LawfulOperand, Parenthesis
  <2>2. CASE Len(r) > 1 /\ Outside(r) # {}
    <3> DEFINE a == Before(r, prec)
               b == After(r, prec)
               t == r[Root(r, prec)]
               x == Grammar(a, prec)
               y == Grammar(b, prec)
    <3>1. /\ a \in Seq(Tokens) /\ b \in Seq(Tokens) /\ t \in Tokens /\ IsBinary(t)
          /\ r = (a \o <<t>>) \o b
      BY <2>2, RootSplits
    <3>2. Len(a) < Len(r) /\ Len(b) < Len(r)
      BY <2>2, PartsAreShorter
    <3>3. Grammar(r, prec) = Joint(t, x, y)
      BY <2>2, GrammarUnfolds
    <3>4. x # << >> /\ y # << >>
      BY <3>3 DEF Joint
    <3>5. x \in Seq(Tokens) /\ y \in Seq(Tokens)
      BY <3>1, GrammarUnfolds
    <3>6. Grammar(r, prec) = <<t>> \o x \o y
      BY <3>1, <3>3, <3>4, <3>5, JointType
    <3>7. Accepted(a, prec) /\ Accepted(b, prec)
      BY <1>1, <3>1, <3>2
    <3>8. Lawful(a) /\ Lawful(b) /\ Opened(x) = 0 /\ Opened(y) = 0
      BY <3>4, <3>7 DEF Accepted
    <3>9. Opened(Grammar(r, prec)) = 0
      <4> HIDE DEF x, y, t
      <4> DEFINE o == <<t>>
      <4>1. o \in Seq(Tokens) /\ Opened(o) = 0
        BY <3>1, Parenthesis DEF IsBinary
      <4> HIDE DEF o
      <4>2. o \o x \in Seq(Tokens) /\ Opened(o \o x) = 0
        BY <3>5, <3>8, <4>1, Parenthesis, ConcatProperties
      <4> DEFINE c == o \o x
      <4>3. Opened(c) = 0 /\ c \in Seq(Tokens) /\ Grammar(r, prec) = c \o y
        BY <3>6, <4>2 DEF o
      <4> HIDE DEF c
      <4>4. Opened(c \o y) = Opened(c) + Opened(y)
        BY <3>5, <4>3, Parenthesis
      <4>5. QED
        BY <3>8, <4>3, <4>4
    <3>10. Lawful(r)
      <4> HIDE DEF a, b, t, x, y
      <4>1. Lawful((a \o <<t>>) \o b)
        BY <3>1, <3>8, LawfulOperation
      <4>2. QED
        BY <3>1, <4>1
    <3>11. QED
      BY <3>9, <3>10
  <2>3. CASE Len(r) > 1 /\ Outside(r) = {}
    <3>1. InParentheses(r)
      BY <2>3, GrammarUnfolds
    <3>2. Grammar(r, prec) = Grammar(Inside(r), prec)
      BY <2>3, <3>1, GrammarUnfolds
    <3>3. Inside(r) \in Seq(Tokens) /\ r = <<Open>> \o (Inside(r) \o <<Close>>)
      BY <2>3, <3>1, Unwrapped
    <3>4. Len(Inside(r)) < Len(r)
      BY <2>3, PartsAreShorter
    <3>5. Accepted(Inside(r), prec)
      BY <1>1, <3>3, <3>4
    <3>6. Lawful(Inside(r)) /\ Opened(Grammar(r, prec)) = 0
      BY <3>2, <3>5 DEF Accepted
    <3>7. Lawful(r)
      BY <3>3, <3>6, LawfulParentheses
    <3>8. QED
      BY <3>6, <3>7
  <2>4. QED
    BY <2>0, <2>1, <2>2, <2>3
<1>2. Seq(Tokens) \subseteq Good
  <2> HIDE DEF Good
  <2>1. QED
    BY <1>1, ShorterFirst
<1>3. QED
  BY <1>2

\* What stands in a sequence occurs in it.
LEMMA Present ==
    ASSUME NEW kind, NEW s \in Seq(Tokens), NEW i \in 1..Len(s), s[i] \in kind
    PROVE  Occurrences(kind, s) # 0
<1> DEFINE a == SubSeq(s, 1, i - 1)
           b == SubSeq(s, i + 1, Len(s))
           x == s[i]
           m == <<x>>
           c == a \o m
<1>1. a \in Seq(Tokens) /\ b \in Seq(Tokens) /\ x \in Tokens /\ x \in kind /\ s = c \o b
  BY SplitAt
<1>2. /\ \A t \in Tokens : t \in kind => Occurrences(kind, <<t>>) = 1
      /\ \A q \in Seq(Tokens) : Occurrences(kind, q) \in Nat
      /\ \A q, t \in Seq(Tokens) :
           Occurrences(kind, q \o t) = Occurrences(kind, q) + Occurrences(kind, t)
  BY Occur
<1> HIDE DEF a, b, x
<1>3. m \in Seq(Tokens) /\ Occurrences(kind, m) = 1
  BY <1>1, <1>2
<1> HIDE DEF m
<1>4. c \in Seq(Tokens) /\ Occurrences(kind, c) = Occurrences(kind, a) + 1
  BY <1>1, <1>2, <1>3, ConcatProperties
<1>5. Occurrences(kind, a) \in Nat /\ Occurrences(kind, b) \in Nat
  BY <1>1, <1>2
<1> HIDE DEF c
<1>6. Occurrences(kind, s) = Occurrences(kind, c) + Occurrences(kind, b)
  BY <1>1, <1>2, <1>4
<1>7. QED
  BY <1>4, <1>5, <1>6

-----------------------------------------------------------------------------
(***************************************************************************)
(* Texts that stand for one operand.                                       *)
(***************************************************************************)

Phrase(t, p) == t \in Seq(Tokens) /\ p # << >> /\ Grammar(t, Precedence) = p

Binds(o) == Precedence[o.value]

LEMMA Strengths ==
    /\ Precedence \in [BinaryValues -> Nat]
    /\ \A o \in Tokens : IsBinary(o) => Binds(o) \in Nat /\ precedence(o) = Binds(o)
<1>1. Precedence \in [BinaryValues -> Nat]
  BY DEF Precedence
<1>2. ASSUME NEW o \in Tokens, IsBinary(o)
      PROVE  Binds(o) \in Nat /\ precedence(o) = Binds(o)
  <2>1. o.value \in BinaryValues /\ o.value \notin {<<"(">>, <<")">>}
    BY <1>2, BinaryTokens DEF BinaryValues
  <2>2. Binds(o) = IF o.value \in {<<"|">>, <<"&">>} THEN 1 ELSE 2
    BY <2>1 DEF Binds, Precedence
  <2>3. precedence(o) = IF o.value \in {<<"|">>, <<"&">>} THEN 1 ELSE 2
    <3>1. CASE o.value \in {<<"|">>, <<"&">>}
      BY <2>1, <3>1 DEF precedence
    <3>2. CASE o.value \notin {<<"|">>, <<"&">>}
      BY <2>1, <3>2 DEF precedence
    <3>3. QED
      BY <3>1, <3>2
  <2>4. QED
    BY <2>2, <2>3
<1>3. QED
  BY <1>1, <1>2

LEMMA PhraseFacts ==
    ASSUME NEW t, NEW p, Phrase(t, p)
    PROVE  /\ t \in Seq(Tokens) /\ p \in Seq(Tokens) /\ p # << >>
           /\ Lawful(t) /\ Opened(p) = 0 /\ Grammar(t, Precedence) = p
<1>1. t \in Seq(Tokens) /\ p # << >> /\ Grammar(t, Precedence) = p
  BY DEF Phrase
<1>2. Accepted(t, Precedence) /\ Grammar(t, Precedence) \in Seq(Tokens)
  BY <1>1, Strengths, GrammarIsLawful, GrammarUnfolds
<1>3. QED
  BY <1>1, <1>2 DEF Accepted

\* Weaker than required is all the more strong enough.
LEMMA StrongEnough ==
    ASSUME NEW t \in Seq(Tokens), NEW k \in Nat, NEW h \in Nat, h <= k, Strong(t, Precedence, k)
    PROVE  Strong(t, Precedence, h)
<1> SUFFICES ASSUME NEW i \in Outside(t) PROVE Precedence[t[i].value] >= h
  BY DEF Strong
<1>1. t[i] \in Tokens /\ IsBinary(t[i])
  BY ElementOfSeq DEF Outside
<1>2. Binds(t[i]) \in Nat /\ Binds(t[i]) >= k
  BY <1>1, Strengths DEF Binds, Strong
<1>3. Binds(t[i]) >= h
  BY <1>2
<1>4. QED
  BY <1>3 DEF Binds

LEMMA PhraseOperand ==
    ASSUME NEW t \in OperandTokens
    PROVE  Phrase(<<t>>, <<t>>) /\ \A k : Strong(<<t>>, Precedence, k)
<1> DEFINE s == <<t>>
<1>1. t \in Tokens /\ t # Open /\ t # Close /\ ~IsBinary(t)
  BY OperatorsAndOperands DEF IsBinary, OperandTokens
<1>2. s \in Seq(Tokens) /\ Len(s) <= 1 /\ s # << >>
  BY <1>1
<1>3. Sheltered(s, 0)
  BY <1>1, ShelterOfOne
<1>4. Only(OperandTokens, s) = s
  BY <1>1, OnlyOne
<1> HIDE DEF s
<1>5. Grammar(s, Precedence) = Only(OperandTokens, s)
  <2>1. \A q \in Seq(Tokens) :
          Len(q) <= 1 => Grammar(q, Precedence) = Only(OperandTokens, q)
    BY Strengths, GrammarUnfolds
  <2>2. QED
    BY <1>2, <2>1
<1>6. Phrase(s, s)
  BY <1>2, <1>4, <1>5 DEF Phrase
<1>7. \A k : Strong(s, Precedence, k)
  BY <1>2, <1>3, ShelteredIsStrong
<1>8. QED
  BY <1>6, <1>7 DEF s

LEMMA PhraseParentheses ==
    ASSUME NEW t, NEW p, Phrase(t, p)
    PROVE  LET c == <<Open>> \o (t \o <<Close>>)
           IN  Phrase(c, p) /\ \A k : Strong(c, Precedence, k)
<1> DEFINE open == <<Open>>
           close == <<Close>>
           a == t \o close
           c == open \o a
<1>1. /\ t \in Seq(Tokens) /\ p # << >> /\ Grammar(t, Precedence) = p
      /\ \A i \in 1..Len(t) : 0 + Depth(t, i) >= 0
      /\ Rise(t) = 0 /\ t # << >>
  BY PhraseFacts DEF Lawful, Above
<1>2. open \in Seq(Tokens) /\ close \in Seq(Tokens)
  BY Parentheses
<1>3. Sheltered(open, 0) /\ Rise(open) = 1 /\ Sheltered(close, 1)
  <2>1. ~(IsBinary(Open) \/ Open = Close)
    BY OperatorsAndOperands DEF IsBinary
  <2>2. QED
    BY <2>1, Parentheses, ShelterOfOne
<1> HIDE DEF open, close
<1>4. Sheltered(t, 1)
  <2>1. \A i \in 1..Len(t) : Depth(t, i) \in Int
    BY <1>1, DepthType
  <2>2. \A i \in 1..Len(t) : 1 + Depth(t, i) >= 0 /\ 1 + Depth(t, i) >= 1
    BY <1>1, <2>1
  <2>3. QED
    BY <2>1, <2>2 DEF Sheltered
<1>5. a \in Seq(Tokens) /\ Sheltered(a, 1)
  <2>1. 1 = 1 + Rise(t)
    BY <1>1
  <2>2. QED
    BY <1>1, <1>2, <1>3, <1>4, <2>1, ShelterOfConcat, ConcatProperties
<1> HIDE DEF a
<1>6. c \in Seq(Tokens) /\ Sheltered(c, 0)
  <2>1. 1 = 0 + Rise(open)
    BY <1>3
  <2>2. QED
    BY <1>2, <1>3, <1>5, <2>1, ShelterOfConcat, ConcatProperties
<1>7. Len(c) = Len(t) + 2 /\ InParentheses(c) /\ Inside(c) = t
  BY <1>1, BetweenParentheses DEF c, a, open, close
<1> HIDE DEF c
<1>8. Outside(c) = {}
  <2>1. \A i \in 1..Len(c) : Depth(c, i) \in Int /\ (IsBinary(c[i]) => 0 + Depth(c, i) >= 1)
    BY <1>6 DEF Sheltered
  <2>2. \A i \in 1..Len(c) : ~(IsBinary(c[i]) /\ Depth(c, i) = 0)
    BY <2>1
  <2>3. QED
    BY <2>2 DEF Outside
<1>9. Len(c) > 1
  BY <1>1, <1>7, LenProperties
<1>10. Grammar(c, Precedence) = p
  BY <1>1, <1>6, <1>7, <1>8, <1>9, Strengths, GrammarUnfolds
<1>11. Phrase(c, p) /\ \A k : Strong(c, Precedence, k)
  BY <1>1, <1>6, <1>10, ShelteredIsStrong DEF Phrase
<1>12. QED
  BY <1>11 DEF c, a, open, close

LEMMA PhraseOperation ==
    ASSUME NEW t, NEW p, NEW u, NEW q, Phrase(t, p), Phrase(u, q), NEW o \in Tokens, IsBinary(o),
           Strong(t, Precedence, Binds(o)), Strong(u, Precedence, Binds(o) + 1)
    PROVE  LET s == (t \o <<o>>) \o u
           IN  Phrase(s, <<o>> \o p \o q) /\ Strong(s, Precedence, Binds(o))
<1> DEFINE s == (t \o <<o>>) \o u
           e == <<o>> \o p \o q
<1>1. /\ t \in Seq(Tokens) /\ p \in Seq(Tokens) /\ p # << >> /\ Grammar(t, Precedence) = p
      /\ u \in Seq(Tokens) /\ q \in Seq(Tokens) /\ q # << >> /\ Grammar(u, Precedence) = q
      /\ Lawful(t) /\ Lawful(u)
  BY PhraseFacts
<1>2. AppliedLast(t, o, u, Precedence)
  <2>1. LastBetween(t, o, u, Precedence)
    BY <1>1 DEF LastBetween, Lawful, Binds
  <2>2. QED
    BY <1>1, <2>1, Strengths, RootBetween
<1>3. /\ s \in Seq(Tokens) /\ Len(s) = Len(t) + 1 + Len(u)
      /\ Outside(s) # {} /\ s[Root(s, Precedence)] = o
      /\ Before(s, Precedence) = t /\ After(s, Precedence) = u
      /\ Strong(s, Precedence, Binds(o))
  BY <1>2 DEF AppliedLast, Binds
<1>4. Len(s) > 1
  <2>1. Len(t) \in Nat /\ Len(t) # 0 /\ Len(u) \in Nat
    BY <1>1, LenProperties, EmptySeq DEF Lawful
  <2> HIDE DEF s
  <2>2. QED
    BY <1>3, <2>1
<1> HIDE DEF s
<1>5. Grammar(s, Precedence) = Joint(o, p, q)
  <2>1. Grammar(s, Precedence) =
          Joint(s[Root(s, Precedence)], Grammar(Before(s, Precedence), Precedence),
                Grammar(After(s, Precedence), Precedence))
    BY <1>3, <1>4, Strengths, GrammarUnfolds
  <2>2. QED
    BY <1>1, <1>3, <2>1
<1>6. Joint(o, p, q) = e /\ e # << >>
  <2>1. Joint(o, p, q) = e
    BY <1>1, JointType
  <2>2. e # << >>
    BY <1>1, Operation
  <2>3. QED
    BY <2>1, <2>2
<1>7. Phrase(s, e)
  BY <1>3, <1>5, <1>6 DEF Phrase
<1>8. QED
  BY <1>3, <1>7 DEF s, e

-----------------------------------------------------------------------------
(***************************************************************************)
(* The stacks halfway.  The parser waits for an operand after a text w     *)
(* with stacks A and B if every parenthesis that w leaves open is in B and *)
(* every operator of B has its left operand in A and w, made of operators  *)
(* as strong as it; an operator stands only on weaker ones.  When the      *)
(* operand has come, text and operands have one phrase more.               *)
(***************************************************************************)

\* The strength from which an operator may stand on B.
Bound(B) == IF B = << >> THEN 0 ELSE IF Last(B) = Open THEN 0 ELSE Binds(Last(B)) + 1

Situations == Seq(Tokens) \X Seq(Seq(Tokens)) \X Seq(Tokens)

Operates(B, t, p, o) ==
    /\ Phrase(t, p) /\ o \in Tokens /\ IsBinary(o)
    /\ Strong(t, Precedence, Binds(o)) /\ Binds(o) >= Bound(B)

HasBegin(W) == <<<< >>, << >>, << >>>> \in W
HasOpen(W) ==
    \A w, A, B : <<w, A, B>> \in W => <<w \o <<Open>>, A, Append(B, Open)>> \in W
HasOperation(W) ==
    \A w, A, B, t, p, o : <<w, A, B>> \in W /\ Operates(B, t, p, o) =>
        <<(w \o t) \o <<o>>, Append(A, p), Append(B, o)>> \in W
Closes(W) == W \subseteq Situations /\ HasBegin(W) /\ HasOpen(W) /\ HasOperation(W)

\* The least set of situations that has all of them.
Waits(w, A, B) == \A W : Closes(W) => <<w, A, B>> \in W

LEMMA WaitInduction ==
    ASSUME NEW W, Closes(W), NEW w, NEW A, NEW B, Waits(w, A, B)
    PROVE  <<w, A, B>> \in W
BY DEF Waits

LEMMA WaitGrows ==
    /\ Waits(<< >>, << >>, << >>)
    /\ \A w, A, B : Waits(w, A, B) => Waits(w \o <<Open>>, A, Append(B, Open))
    /\ \A w, A, B, t, p, o : Waits(w, A, B) /\ Operates(B, t, p, o) =>
         Waits((w \o t) \o <<o>>, Append(A, p), Append(B, o))
<1>1. Waits(<< >>, << >>, << >>)
  BY DEF Waits, Closes, HasBegin
<1>2. ASSUME NEW w, NEW A, NEW B, Waits(w, A, B)
      PROVE  Waits(w \o <<Open>>, A, Append(B, Open))
  <2> SUFFICES ASSUME NEW W, Closes(W) PROVE <<w \o <<Open>>, A, Append(B, Open)>> \in W
    BY DEF Waits
  <2>1. <<w, A, B>> \in W
    BY <1>2 DEF Waits
  <2>2. QED
    BY <2>1 DEF Closes, HasOpen
<1>3. ASSUME NEW w, NEW A, NEW B, NEW t, NEW p, NEW o, Waits(w, A, B), Operates(B, t, p, o)
      PROVE  Waits((w \o t) \o <<o>>, Append(A, p), Append(B, o))
  <2> SUFFICES ASSUME NEW W, Closes(W)
               PROVE  <<(w \o t) \o <<o>>, Append(A, p), Append(B, o)>> \in W
    BY DEF Waits
  <2>1. <<w, A, B>> \in W
    BY <1>3 DEF Waits
  <2>2. QED
    BY <1>3, <2>1 DEF Closes, HasOperation
<1>4. QED
  BY <1>1, <1>2, <1>3

\* What a situation came from.
AfterOpen(w, A, B) ==
    \E u \in Seq(Tokens), C \in Seq(Tokens) :
        Waits(u, A, C) /\ w = u \o <<Open>> /\ B = Append(C, Open)
AfterOperator(w, A, B) ==
    \E u \in Seq(Tokens), E \in Seq(Seq(Tokens)), C \in Seq(Tokens) : \E t, p, o :
        /\ Waits(u, E, C) /\ Operates(C, t, p, o)
        /\ w = (u \o t) \o <<o>> /\ A = Append(E, p) /\ B = Append(C, o)
ComesFrom(w, A, B) ==
    \/ w = << >> /\ A = << >> /\ B = << >>
    \/ AfterOpen(w, A, B) \/ AfterOperator(w, A, B)

LEMMA WaitComes ==
    ASSUME NEW w, NEW A, NEW B, Waits(w, A, B)
    PROVE  /\ w \in Seq(Tokens) /\ A \in Seq(Seq(Tokens)) /\ B \in Seq(Tokens)
           /\ ComesFrom(w, A, B)
<1> DEFINE W == {v \in Situations : Waits(v[1], v[2], v[3]) /\ ComesFrom(v[1], v[2], v[3])}
<1>1. \A x, y, z : <<x, y, z>> \in W <=>
        /\ x \in Seq(Tokens) /\ y \in Seq(Seq(Tokens)) /\ z \in Seq(Tokens)
        /\ Waits(x, y, z) /\ ComesFrom(x, y, z)
  BY DEF Situations
<1>2. W \subseteq Situations
  OBVIOUS
<1> HIDE DEF W
<1>3. HasBegin(W)
  <2>1. << >> \in Seq(Tokens) /\ << >> \in Seq(Seq(Tokens))
    BY EmptySeq
  <2>2. QED
    BY <1>1, <2>1, WaitGrows DEF HasBegin, ComesFrom
<1>4. HasOpen(W)
  <2> SUFFICES ASSUME NEW x, NEW y, NEW z, <<x, y, z>> \in W
               PROVE  <<x \o <<Open>>, y, Append(z, Open)>> \in W
    BY DEF HasOpen
  <2>1. x \in Seq(Tokens) /\ y \in Seq(Seq(Tokens)) /\ z \in Seq(Tokens) /\ Waits(x, y, z)
    BY <1>1
  <2> DEFINE open == <<Open>>
             a == x \o open
             c == Append(z, Open)
  <2>2. open \in Seq(Tokens)
    BY Parentheses
  <2>3. c \in Seq(Tokens)
    BY <2>1, Parentheses, AppendProperties
  <2>4. Waits(a, y, c)
    BY <2>1, WaitGrows
  <2>5. AfterOpen(a, y, c)
    BY <2>1 DEF AfterOpen
  <2>6. a \in Seq(Tokens)
    <3> HIDE DEF open
    <3>1. QED
      BY <2>1, <2>2, ConcatProperties
  <2> HIDE DEF a, c
  <2>7. <<a, y, c>> \in W
    BY <1>1, <2>1, <2>3, <2>4, <2>5, <2>6 DEF ComesFrom
  <2>8. QED
    BY <2>7 DEF a, c
<1>5. HasOperation(W)
  <2> SUFFICES ASSUME NEW x, NEW y, NEW z, NEW t, NEW p, NEW o,
                      <<x, y, z>> \in W, Operates(z, t, p, o)
               PROVE  <<(x \o t) \o <<o>>, Append(y, p), Append(z, o)>> \in W
    BY DEF HasOperation
  <2>1. x \in Seq(Tokens) /\ y \in Seq(Seq(Tokens)) /\ z \in Seq(Tokens) /\ Waits(x, y, z)
    BY <1>1
  <2>2. t \in Seq(Tokens) /\ p \in Seq(Tokens) /\ o \in Tokens
    BY PhraseFacts DEF Operates
  <2> DEFINE m == <<o>>
             a == (x \o t) \o m
             b == Append(y, p)
             c == Append(z, o)
  <2>3. m \in Seq(Tokens)
    BY <2>2
  <2>4. b \in Seq(Seq(Tokens)) /\ c \in Seq(Tokens)
    BY <2>1, <2>2, AppendProperties
  <2>5. Waits(a, b, c)
    BY <2>1, WaitGrows
  <2>6. AfterOperator(a, b, c)
    BY <2>1 DEF AfterOperator
  <2>7. a \in Seq(Tokens)
    <3> HIDE DEF m
    <3>1. x \o t \in Seq(Tokens)
      BY <2>1, <2>2, ConcatProperties
    <3>2. QED
      BY <2>3, <3>1, ConcatProperties
  <2> HIDE DEF a, b, c
  <2>8. <<a, b, c>> \in W
    BY <1>1, <2>4, <2>5, <2>6, <2>7 DEF ComesFrom
  <2>9. QED
    BY <2>8 DEF a, b, c
<1>6. <<w, A, B>> \in W
  BY <1>2, <1>3, <1>4, <1>5, WaitInduction DEF Closes
<1>7. QED
  BY <1>1, <1>6

\* The text a token ends.
LEMMA EndOfText ==
    ASSUME NEW a \in Seq(Tokens), NEW t \in Tokens
    PROVE  a \o <<t>> \in Seq(Tokens) /\ (a \o <<t>>)[Len(a \o <<t>>)] = t
           /\ a \o <<t>> # << >> /\ Rise(a \o <<t>>) = Rise(a) + Rise(<<t>>)
<1> DEFINE b == <<t>>
           c == a \o b
<1>1. b \in Seq(Tokens) /\ Len(b) = 1 /\ b[1] = t
  OBVIOUS
<1> HIDE DEF b
<1>2. PlacesOf(a, b) /\ DepthsOf(a, b)
  BY <1>1, PlacesOfConcat, DepthOfConcat
<1>3. c \in Seq(Tokens) /\ Len(c) = Len(a) + 1 /\ Len(a) \in Nat /\ Rise(c) = Rise(a) + Rise(b)
  BY <1>1, <1>2 DEF PlacesOf, DepthsOf
<1>4. c[Len(a) + 1] = t
  BY <1>1, <1>2 DEF PlacesOf
<1>5. c # << >>
  <2> HIDE DEF c
  <2>1. Len(c) # 0
    BY <1>3
  <2>2. QED
    BY <2>1, EmptySeq
<1>6. QED
  BY <1>3, <1>4, <1>5 DEF b

LEMMA EndOfWait ==
    ASSUME NEW w, NEW A, NEW B, Waits(w, A, B)
    PROVE  w = << >> \/ ~Completes(w[Len(w)])
<1>1. CASE AfterOpen(w, A, B)
  <2>1. PICK u \in Seq(Tokens) : w = u \o <<Open>>
    BY <1>1 DEF AfterOpen
  <2>2. w[Len(w)] = Open
    BY <2>1, Parentheses, EndOfText
  <2>3. QED
    BY <2>2, OperatorsAndOperands DEF Completes
<1>2. CASE AfterOperator(w, A, B)
  <2>1a. PICK u \in Seq(Tokens), E \in Seq(Seq(Tokens)), C \in Seq(Tokens) : \E t, p, o :
          Operates(C, t, p, o) /\ w = (u \o t) \o <<o>>
    BY <1>2 DEF AfterOperator
  <2>1. PICK t, p, o :
          Operates(C, t, p, o) /\ w = (u \o t) \o <<o>>
    BY <2>1a
  <2>2. t \in Seq(Tokens) /\ o \in Tokens /\ IsBinary(o)
    BY <2>1, PhraseFacts DEF Operates
  <2>3. u \o t \in Seq(Tokens)
    BY <2>1, <2>2, ConcatProperties
  <2> DEFINE a == u \o t
  <2>4. a \in Seq(Tokens) /\ w = a \o <<o>>
    BY <2>1, <2>3
  <2> HIDE DEF a
  <2>5. w[Len(w)] = o
    BY <2>2, <2>4, EndOfText
  <2>6. o # Close /\ o \notin OperandTokens
    BY <2>2, BinaryTokens, OperatorsAndOperands DEF IsBinary
  <2>7. QED
    BY <2>5, <2>6 DEF Completes
<1>3. QED
  BY <1>1, <1>2, WaitComes DEF ComesFrom

\* A waiting text leaves parentheses open, and closes none that it did not open.
LEMMA RiseOfWait ==
    ASSUME NEW w, NEW A, NEW B, Waits(w, A, B)
    PROVE  Rise(w) \in Int /\ Rise(w) >= 0
<1> DEFINE W == {v \in Situations : Waits(v[1], v[2], v[3]) /\ Rise(v[1]) >= 0}
<1>1. \A x, y, z : <<x, y, z>> \in W <=> Waits(x, y, z) /\ Rise(x) >= 0
  <2>1. \A x, y, z : Waits(x, y, z) => <<x, y, z>> \in Situations
    BY WaitComes DEF Situations
  <2>2. QED
    BY <2>1
<1>2. W \subseteq Situations
  OBVIOUS
<1> HIDE DEF W
<1>3. HasBegin(W)
  <2>1. Rise(<< >>) = 0
    BY Parenthesis DEF Rise
  <2>2. QED
    BY <1>1, <2>1, WaitGrows DEF HasBegin
<1>4. HasOpen(W)
  <2> SUFFICES ASSUME NEW x, NEW y, NEW z, <<x, y, z>> \in W
               PROVE  <<x \o <<Open>>, y, Append(z, Open)>> \in W
    BY DEF HasOpen
  <2>1. Waits(x, y, z) /\ Rise(x) >= 0 /\ Rise(x) \in Int /\ x \in Seq(Tokens)
    BY <1>1, WaitComes, DepthType
  <2> DEFINE a == x \o <<Open>>
             c == Append(z, Open)
  <2>2. Waits(a, y, c)
    BY <2>1, WaitGrows
  <2>3. Rise(a) = Rise(x) + 1
    <3>1. Rise(<<Open>>) = 1
      BY Parentheses, AboveOne
    <3>2. Rise(a) = Rise(x) + Rise(<<Open>>)
      BY <2>1, Parentheses, EndOfText
    <3>3. QED
      BY <3>1, <3>2
  <2> HIDE DEF a, c
  <2>4. Rise(a) >= 0
    BY <2>1, <2>3
  <2>5. QED
    BY <1>1, <2>2, <2>4 DEF a, c
<1>5. HasOperation(W)
  <2> SUFFICES ASSUME NEW x, NEW y, NEW z, NEW t, NEW p, NEW o,
                      <<x, y, z>> \in W, Operates(z, t, p, o)
               PROVE  <<(x \o t) \o <<o>>, Append(y, p), Append(z, o)>> \in W
    BY DEF HasOperation
  <2>1. Waits(x, y, z) /\ Rise(x) >= 0 /\ Rise(x) \in Int /\ x \in Seq(Tokens)
    BY <1>1, WaitComes, DepthType
  <2>2. t \in Seq(Tokens) /\ o \in Tokens /\ Rise(t) = 0 /\ IsBinary(o)
    BY PhraseFacts DEF Operates, Lawful
  <2> DEFINE h == x \o t
             a == h \o <<o>>
             b == Append(y, p)
             c == Append(z, o)
  <2>3. Waits(a, b, c)
    BY <2>1, WaitGrows
  <2>4. h \in Seq(Tokens) /\ Rise(h) = Rise(x)
    <3>1. Rise(h) = Rise(x) + Rise(t)
      BY <2>1, <2>2, DepthOfConcat DEF DepthsOf
    <3>2. h \in Seq(Tokens)
      BY <2>1, <2>2, ConcatProperties
    <3> HIDE DEF h
    <3>3. QED
      BY <2>1, <2>2, <3>1, <3>2
  <2> HIDE DEF h
  <2>5. Rise(a) = Rise(h)
    <3>1. Rise(<<o>>) = 0
      BY <2>2, AboveOne DEF IsBinary
    <3>2. Rise(a) = Rise(h) + Rise(<<o>>)
      BY <2>2, <2>4, EndOfText
    <3>3. QED
      BY <2>1, <2>4, <3>1, <3>2
  <2> HIDE DEF a, b, c
  <2>6. Rise(a) >= 0
    BY <2>1, <2>4, <2>5
  <2>7. QED
    BY <1>1, <2>3, <2>6 DEF h, a, b, c
<1>6. <<w, A, B>> \in W
  BY <1>2, <1>3, <1>4, <1>5, WaitInduction DEF Closes
<1>7. QED
  BY <1>1, <1>6, WaitComes, DepthType

-----------------------------------------------------------------------------
(***************************************************************************)
(* The steps of the stacks.                                                *)
(***************************************************************************)

\* After the text m the operand came for which B waited; the operators of its
\* phrase are as strong as k.
Came(m, A, B, k) ==
    \E w \in Seq(Tokens), E \in Seq(Seq(Tokens)) : \E t, p :
        /\ Waits(w, E, B) /\ Phrase(t, p)
        /\ Strong(t, Precedence, Bound(B)) /\ Strong(t, Precedence, k)
        /\ m = w \o t /\ A = Append(E, p)

LEMMA OperandComes ==
    ASSUME NEW w, NEW A, NEW B, Waits(w, A, B), NEW t \in OperandTokens, NEW k
    PROVE  Came(w \o <<t>>, Append(A, <<t>>), B, k)
<1> DEFINE s == <<t>>
<1>1. Phrase(s, s) /\ Strong(s, Precedence, Bound(B)) /\ Strong(s, Precedence, k)
  BY PhraseOperand
<1> HIDE DEF s
<1>2. w \in Seq(Tokens) /\ A \in Seq(Seq(Tokens))
  BY WaitComes
<1>3. Came(w \o s, Append(A, s), B, k)
  BY <1>1, <1>2 DEF Came
<1>4. QED
  BY <1>3 DEF s

\* What came is a text that some text may follow.
LEMMA CameText ==
    ASSUME NEW m, NEW A, NEW B, NEW k, Came(m, A, B, k)
    PROVE  /\ m \in Seq(Tokens) /\ m # << >> /\ Completes(m[Len(m)])
           /\ A \in Seq(Seq(Tokens)) /\ A # << >>
           /\ B \in Seq(Tokens)
<1>1a. PICK w \in Seq(Tokens), E \in Seq(Seq(Tokens)) : \E t, p :
        /\ Waits(w, E, B) /\ Phrase(t, p) /\ m = w \o t /\ A = Append(E, p)
  BY DEF Came
<1>1. PICK t, p :
        /\ Waits(w, E, B) /\ Phrase(t, p) /\ m = w \o t /\ A = Append(E, p)
  BY <1>1a
<1>2. t \in Seq(Tokens) /\ p \in Seq(Tokens) /\ t # << >> /\ Completes(t[Len(t)])
  BY <1>1, PhraseFacts DEF Lawful
<1>3. B \in Seq(Tokens)
  BY <1>1, WaitComes
<1>4. A \in Seq(Seq(Tokens)) /\ A # << >>
  BY <1>1, <1>2, AppendProperties
<1>5. m \in Seq(Tokens) /\ m # << >> /\ m[Len(m)] = t[Len(t)]
  <2>1. CASE w = << >>
    <3>1. m = t
      BY <1>1, <1>2, <2>1, ConcatEmptySeq
    <3>2. QED
      BY <1>2, <3>1
  <2>2. CASE w # << >>
    <3>1. w \o t \in Seq(Tokens)
      BY <1>2, ConcatProperties
    <3>2. QED
      BY <1>1, <1>2, <2>2, <3>1, ChainOfConcat
  <2>3. QED
    BY <2>1, <2>2
<1>6. QED
  BY <1>2, <1>3, <1>4, <1>5

\* The last of a stack.
LEMMA TopOfAppend ==
    ASSUME NEW S, NEW C \in Seq(S), NEW x \in S
    PROVE  /\ Append(C, x) # << >> /\ Last(Append(C, x)) = x /\ Front(Append(C, x)) = C
           /\ Append(C, x) \in Seq(S)
<1> DEFINE B == Append(C, x)
<1>1. B \in Seq(S) /\ Len(B) = Len(C) + 1 /\ B[Len(C) + 1] = x /\ Len(C) \in Nat
  BY AppendProperties, LenProperties
<1>2. B # << >>
  <2> HIDE DEF B
  <2>1. Len(B) # 0
    BY <1>1
  <2>2. QED
    BY <2>1, EmptySeq
<1>3. Last(B) = x
  BY <1>1 DEF Last
<1>4. Front(B) = C
  <2> DEFINE y == <<x>>
  <2>1. y \in Seq(S) /\ B = C \o y
    BY AppendIsConcat
  <2>2. Len(B) - 1 = Len(C)
    BY <1>1
  <2> HIDE DEF y, B
  <2>3. SubSeq(C \o y, 1, Len(C)) = C
    BY <2>1, PieceOfConcat
  <2>4. QED
    BY <2>1, <2>2, <2>3 DEF Front
<1>5. QED
  BY <1>1, <1>2, <1>3, <1>4

\* The stack tells what a situation came from.
LEMMA WaitTop ==
    ASSUME NEW w, NEW A, NEW B, Waits(w, A, B)
    PROVE  /\ B = << >> => w = << >> /\ A = << >>
           /\ B # << >> /\ Last(B) = Open => AfterOpen(w, A, B)
           /\ B # << >> /\ Last(B) # Open =>
                AfterOperator(w, A, B) /\ Last(B) \in Tokens /\ IsBinary(Last(B))
           /\ Bound(B) \in Nat
<1>1. ASSUME AfterOpen(w, A, B) PROVE B # << >> /\ Last(B) = Open
  <2>1. PICK C \in Seq(Tokens) : B = Append(C, Open)
    BY <1>1 DEF AfterOpen
  <2>2. QED
    BY <2>1, Parentheses, TopOfAppend
<1>2. ASSUME AfterOperator(w, A, B)
      PROVE  B # << >> /\ Last(B) \in Tokens /\ IsBinary(Last(B)) /\ Last(B) # Open
  <2>1. PICK C \in Seq(Tokens), o \in Tokens : B = Append(C, o) /\ IsBinary(o)
    BY <1>2 DEF AfterOperator, Operates
  <2>2. B # << >> /\ Last(B) = o
    BY <2>1, TopOfAppend
  <2>3. QED
    BY <2>1, <2>2 DEF IsBinary
<1>3. ComesFrom(w, A, B)
  BY WaitComes
<1>4. Bound(B) \in Nat
  <2>1. CASE B = << >> \/ Last(B) = Open
    BY <2>1 DEF Bound
  <2>2. CASE B # << >> /\ Last(B) # Open
    <3>1. Binds(Last(B)) \in Nat
      BY <1>1, <1>2, <1>3, <2>2, Strengths DEF ComesFrom
    <3>2. QED
      BY <2>2, <3>1 DEF Bound
  <2>3. QED
    BY <2>1, <2>2
<1>5. QED
  BY <1>1, <1>2, <1>3, <1>4 DEF ComesFrom

\* With no operator left the text is a phrase, and its operand the only one.
LEMMA CameAlone ==
    ASSUME NEW m, NEW A, NEW k, Came(m, A, << >>, k)
    PROVE  A = <<Grammar(m, Precedence)>>
<1>1a. PICK w \in Seq(Tokens), E \in Seq(Seq(Tokens)) : \E t, p :
        /\ Waits(w, E, << >>) /\ Phrase(t, p) /\ m = w \o t /\ A = Append(E, p)
  BY DEF Came
<1>1. PICK t, p :
        /\ Waits(w, E, << >>) /\ Phrase(t, p) /\ m = w \o t /\ A = Append(E, p)
  BY <1>1a
<1>2. w = << >> /\ E = << >>
  BY <1>1, WaitTop
<1>3. t \in Seq(Tokens) /\ p = Grammar(t, Precedence)
  BY <1>1, PhraseFacts
<1>4. m = t
  BY <1>1, <1>2, <1>3, ConcatEmptySeq
<1>5. QED
  BY <1>1, <1>2, <1>3, <1>4

\* The operator x has taken its two operands.
Made(m, A, C, x, k) ==
    \E E \in Seq(Seq(Tokens)), a \in Seq(Tokens), b \in Seq(Tokens) :
      /\ A = Append(Append(E, a), b)
      /\ Came(m, Append(E, <<x>> \o a \o b), C, k)

\* Concatenation, where the solver is to see only sequences of tokens.
LEMMA TokensConcat ==
    ASSUME NEW f \in Seq(Tokens), NEW g \in Seq(Tokens), NEW h \in Seq(Tokens)
    PROVE  (f \o g) \o h = f \o (g \o h)
BY SMTT(30)

\* An operator on the stack goes with the operand on its right.
LEMMA CameMakes ==
    ASSUME NEW m, NEW A, NEW C \in Seq(Tokens), NEW x \in Tokens, NEW k \in Nat,
           Came(m, A, Append(C, x), k), IsBinary(x), k <= Binds(x)
    PROVE  Made(m, A, C, x, k)
<1> DEFINE B == Append(C, x)
<1>1a. PICK w \in Seq(Tokens), D \in Seq(Seq(Tokens)) : \E t, b :
        /\ Waits(w, D, B) /\ Phrase(t, b)
        /\ Strong(t, Precedence, Bound(B)) /\ Strong(t, Precedence, k)
        /\ m = w \o t /\ A = Append(D, b)
  BY DEF Came
<1>1. PICK t, b :
        /\ Waits(w, D, B) /\ Phrase(t, b)
        /\ Strong(t, Precedence, Bound(B)) /\ Strong(t, Precedence, k)
        /\ m = w \o t /\ A = Append(D, b)
  BY <1>1a
<1>2. B # << >> /\ Last(B) = x
  BY TopOfAppend
<1>3. Bound(B) = Binds(x) + 1 /\ x # Open
  BY <1>2 DEF Bound, IsBinary
<1>4. AfterOperator(w, D, B)
  BY <1>1, <1>2, <1>3, WaitTop
<1>5a. PICK u \in Seq(Tokens), E \in Seq(Seq(Tokens)), F \in Seq(Tokens) : \E s, a, o :
        /\ Waits(u, E, F) /\ Operates(F, s, a, o)
        /\ w = (u \o s) \o <<o>> /\ D = Append(E, a) /\ B = Append(F, o)
  BY <1>4 DEF AfterOperator
<1>5. PICK s, a, o :
        /\ Waits(u, E, F) /\ Operates(F, s, a, o)
        /\ w = (u \o s) \o <<o>> /\ D = Append(E, a) /\ B = Append(F, o)
  BY <1>5a
<1>6. o = x /\ F = C
  <2>1. o \in Tokens
    BY <1>5 DEF Operates
  <2>2. Last(B) = o /\ Front(B) = F /\ Front(B) = C
    BY <1>5, <2>1, TopOfAppend
  <2>3. QED
    BY <1>2, <2>2
<1>7. /\ Phrase(s, a) /\ Strong(s, Precedence, Binds(x)) /\ Binds(x) >= Bound(C)
      /\ Waits(u, E, C)
  BY <1>5, <1>6 DEF Operates
<1> DEFINE n == (s \o <<x>>) \o t
           e == <<x>> \o a \o b
<1>8. Phrase(n, e) /\ Strong(n, Precedence, Binds(x))
  <2>1. Strong(t, Precedence, Binds(x) + 1)
    BY <1>1, <1>3
  <2>2. QED
    BY <1>1, <1>7, <2>1, PhraseOperation
<1>9. s \in Seq(Tokens) /\ a \in Seq(Tokens) /\ t \in Seq(Tokens) /\ b \in Seq(Tokens)
  BY <1>1, <1>7, PhraseFacts
<1>10. m = u \o n
  <2> DEFINE y == <<x>>
  <2>1. y \in Seq(Tokens)
    OBVIOUS
  <2> HIDE DEF y
  <2>2. \A g, h \in Seq(Tokens) :
          ((u \o g) \o y) \o h = u \o ((g \o y) \o h)
    <3> SUFFICES ASSUME NEW g \in Seq(Tokens), NEW h \in Seq(Tokens)
                 PROVE  ((u \o g) \o y) \o h = u \o ((g \o y) \o h)
      OBVIOUS
    <3>1. (u \o g) \o y = u \o (g \o y)
      BY <2>1, TokensConcat, Zenon
    <3> DEFINE gy == g \o y
    <3>2. gy \in Seq(Tokens)
      BY <2>1, ConcatProperties
    <3> HIDE DEF gy
    <3>3. (u \o gy) \o h = u \o (gy \o h)
      BY <3>2, TokensConcat, Zenon
    <3>4. QED
      BY <3>1, <3>3 DEF gy
  <2>3. m = ((u \o s) \o y) \o t
    BY <1>1, <1>5, <1>6 DEF y
  <2>4. QED
    BY <1>9, <2>2, <2>3 DEF y
<1> HIDE DEF n, e
<1>11. Strong(n, Precedence, Bound(C)) /\ Strong(n, Precedence, k)
  <2>1. n \in Seq(Tokens) /\ Binds(x) \in Nat
    BY <1>8, PhraseFacts, Strengths
  <2>2. Bound(C) \in Nat
    BY <1>7, WaitTop
  <2>3. QED
    BY <1>7, <1>8, <2>1, <2>2, StrongEnough
<1>12. Came(m, Append(E, e), C, k)
  BY <1>7, <1>8, <1>10, <1>11 DEF Came
<1>13. A = Append(Append(E, a), b)
  BY <1>1, <1>5
<1>14. QED
  BY <1>9, <1>12, <1>13 DEF e, Made

\* A closing parenthesis meets the one that was opened.
LEMMA CameCloses ==
    ASSUME NEW m, NEW A, NEW B, NEW k, NEW j, Came(m, A, B, k), B # << >>, Last(B) = Open
    PROVE  Came(m \o <<Close>>, A, Front(B), j)
<1>1a. PICK w \in Seq(Tokens), D \in Seq(Seq(Tokens)) : \E t, p :
        Waits(w, D, B) /\ Phrase(t, p) /\ m = w \o t /\ A = Append(D, p)
  BY DEF Came
<1>1. PICK t, p :
        Waits(w, D, B) /\ Phrase(t, p) /\ m = w \o t /\ A = Append(D, p)
  BY <1>1a
<1>2. AfterOpen(w, D, B)
  BY <1>1, WaitTop
<1>3. PICK u \in Seq(Tokens), C \in Seq(Tokens) :
        Waits(u, D, C) /\ w = u \o <<Open>> /\ B = Append(C, Open)
  BY <1>2 DEF AfterOpen
<1>4. Front(B) = C
  BY <1>3, Parentheses, TopOfAppend
<1> DEFINE n == <<Open>> \o (t \o <<Close>>)
<1>5. Phrase(n, p) /\ Strong(n, Precedence, Bound(C)) /\ Strong(n, Precedence, j)
  BY <1>1, PhraseParentheses
<1>6. m \o <<Close>> = u \o n
  <2> DEFINE y == <<Open>>
             z == <<Close>>
             tz == t \o z
  <2>1. y \in Seq(Tokens) /\ z \in Seq(Tokens) /\ t \in Seq(Tokens)
    BY <1>1, Parentheses, PhraseFacts
  <2>2. m = (u \o y) \o t
    BY <1>1, <1>3
  <2> HIDE DEF y, z
  <2>3. tz \in Seq(Tokens) /\ u \o y \in Seq(Tokens)
    BY <2>1, ConcatProperties
  <2>4. m \o z = (u \o y) \o tz
    <3> DEFINE uy == u \o y
    <3>1. uy \in Seq(Tokens) /\ m = uy \o t
      BY <2>2, <2>3
    <3> HIDE DEF uy
    <3>2. (uy \o t) \o z = uy \o (t \o z)
      BY <2>1, <3>1
    <3>3. QED
      BY <3>1, <3>2 DEF uy
  <2> HIDE DEF tz
  <2>5. (u \o y) \o tz = u \o (y \o tz)
    BY <2>1, <2>3
  <2>6. QED
    BY <2>4, <2>5 DEF y, z, tz
<1> HIDE DEF n
<1>7. QED
  BY <1>1, <1>3, <1>4, <1>5, <1>6 DEF Came

\* An operator stronger than those on the stack waits for its right operand.
LEMMA CameApplies ==
    ASSUME NEW m, NEW A, NEW B, NEW o \in Tokens, IsBinary(o), Came(m, A, B, Binds(o)),
           B # << >> /\ Last(B) # Open => ~(Binds(o) <= Binds(Last(B)))
    PROVE  Waits(m \o <<o>>, A, Append(B, o))
<1>1a. PICK w \in Seq(Tokens), D \in Seq(Seq(Tokens)) : \E t, p :
        /\ Waits(w, D, B) /\ Phrase(t, p) /\ Strong(t, Precedence, Binds(o))
        /\ m = w \o t /\ A = Append(D, p)
  BY DEF Came
<1>1. PICK t, p :
        /\ Waits(w, D, B) /\ Phrase(t, p) /\ Strong(t, Precedence, Binds(o))
        /\ m = w \o t /\ A = Append(D, p)
  BY <1>1a
<1>2. Binds(o) >= Bound(B)
  <2>1. Binds(o) \in Nat
    BY Strengths
  <2>2. CASE B = << >> \/ Last(B) = Open
    BY <2>1, <2>2 DEF Bound
  <2>3. CASE B # << >> /\ Last(B) # Open
    <3>1. Binds(Last(B)) \in Nat
      BY <1>1, <2>3, WaitTop, Strengths
    <3> DEFINE h == Binds(Last(B))
               g == Binds(o)
    <3>2. Bound(B) = h + 1 /\ h \in Nat /\ g \in Nat /\ ~(g <= h)
      BY <2>1, <2>3, <3>1 DEF Bound
    <3> HIDE DEF h, g
    <3>3. g >= Bound(B)
      BY <3>2
    <3>4. QED
      BY <3>3 DEF g
  <2>4. QED
    BY <2>2, <2>3
<1>3. Operates(B, t, p, o)
  BY <1>1, <1>2 DEF Operates
<1>4. QED
  BY <1>1, <1>3, WaitGrows

\* What the parentheses on the stack say of the text.
LEMMA RiseOfCame ==
    ASSUME NEW m, NEW A, NEW B, NEW k, Came(m, A, B, k)
    PROVE  /\ Rise(m) \in Int /\ Rise(m) >= 0
           /\ B = << >> => Rise(m) = 0
           /\ B # << >> /\ Last(B) = Open => Rise(m) >= 1
<1>1a. PICK w \in Seq(Tokens), D \in Seq(Seq(Tokens)) : \E t, p :
        Waits(w, D, B) /\ Phrase(t, p) /\ m = w \o t
  BY DEF Came
<1>1. PICK t, p :
        Waits(w, D, B) /\ Phrase(t, p) /\ m = w \o t
  BY <1>1a
<1>2. t \in Seq(Tokens) /\ Rise(t) = 0
  BY <1>1, PhraseFacts DEF Lawful
<1>3. Rise(m) = Rise(w)
  <2>1. Rise(m) = Rise(w) + Rise(t) /\ Rise(w) \in Int
    BY <1>1, <1>2, DepthOfConcat, DepthType DEF DepthsOf
  <2>2. QED
    BY <1>2, <2>1
<1>4. Rise(w) \in Int /\ Rise(w) >= 0
  BY <1>1, RiseOfWait
<1>5. B = << >> => Rise(w) = 0
  <2>1. Rise(<< >>) = 0
    BY Parenthesis DEF Rise
  <2>2. QED
    BY <1>1, <2>1, WaitTop
<1>6. B # << >> /\ Last(B) = Open => Rise(w) >= 1
  <2> SUFFICES ASSUME B # << >>, Last(B) = Open PROVE Rise(w) >= 1
    OBVIOUS
  <2>0. AfterOpen(w, D, B)
    BY <1>1, WaitTop
  <2>1. PICK u \in Seq(Tokens), C \in Seq(Tokens) : Waits(u, D, C) /\ w = u \o <<Open>>
    BY <2>0 DEF AfterOpen
  <2>2. Rise(u) \in Int /\ Rise(u) >= 0
    BY <2>1, RiseOfWait
  <2>3. Rise(w) = Rise(u) + 1
    <3>1. Rise(<<Open>>) = 1
      BY Parentheses, AboveOne
    <3>2. Rise(w) = Rise(u) + Rise(<<Open>>)
      BY <2>1, Parentheses, EndOfText
    <3>3. QED
      BY <3>1, <3>2
  <2>4. QED
    BY <2>2, <2>3
<1>7. QED
  BY <1>3, <1>4, <1>5, <1>6

\* The two on top, as make_binary_expression takes them.
LEMMA TwoOnTop ==
    ASSUME NEW S, NEW E \in Seq(S), NEW a \in S, NEW b \in S
    PROVE  LET A == Append(Append(E, a), b)
               n == Len(A)
           IN  ~(n < 2) /\ SubSeq(A, 1, n - 2) = E /\ A[n - 1] = a /\ A[n] = b
<1> DEFINE y == <<a, b>>
           A == Append(Append(E, a), b)
<1>1. y \in Seq(S) /\ Len(y) = 2 /\ y[1] = a /\ y[2] = b
  OBVIOUS
<1>2. A = E \o y
  OBVIOUS
<1> HIDE DEF y, A
<1>3. Len(A) = Len(E) + 2 /\ Len(E) \in Nat
  <2>1. Len(A) = Len(E) + Len(y)
    BY <1>1, <1>2, ConcatProperties
  <2>2. Len(E) \in Nat
    BY LenProperties
  <2>3. QED
    BY <1>1, <2>1, <2>2
<1>4. SubSeq(A, 1, Len(E)) = E
  BY <1>1, <1>2, PieceOfConcat
<1>5. A[Len(E) + 1] = a /\ A[Len(E) + 2] = b
  <2> DEFINE i == Len(E) + 1
             j == Len(E) + 2
  <2>1. /\ i \in 1..Len(E) + Len(y) /\ ~(i <= Len(E)) /\ i - Len(E) = 1
        /\ j \in 1..Len(E) + Len(y) /\ ~(j <= Len(E)) /\ j - Len(E) = 2
    BY <1>1, <1>3
  <2>2. \A h \in 1..Len(E) + Len(y) : A[h] = IF h <= Len(E) THEN E[h] ELSE y[h - Len(E)]
    BY <1>1, <1>2, ConcatProperties
  <2> HIDE DEF i, j
  <2>3. A[i] = y[1] /\ A[j] = y[2]
    BY <2>1, <2>2
  <2>4. QED
    BY <1>1, <2>3 DEF i, j
<1>6. Len(A) - 2 = Len(E) /\ Len(A) - 1 = Len(E) + 1 /\ ~(Len(A) < 2)
  BY <1>3
<1>7. QED
  BY <1>3, <1>4, <1>5, <1>6 DEF A

-----------------------------------------------------------------------------
(***************************************************************************)
(* Texts of the grammar are parsed.                                        *)
(***************************************************************************)

\* What a lawful text asks of each of its tokens.
LEMMA LawfulToken ==
    ASSUME NEW a \in Seq(Tokens), NEW t \in Tokens, NEW r \in Seq(Tokens),
           Lawful((a \o <<t>>) \o r)
    PROVE  /\ a = << >> => Starts(t)
           /\ a # << >> => Follows(a[Len(a)], t)
           /\ Rise(a) + Rise(<<t>>) >= 0
           /\ r # << >> => Follows(t, r[1])
<1> DEFINE y == <<t>>
           at == a \o y
           s == at \o r
<1>1. y \in Seq(Tokens) /\ y # << >> /\ y[1] = t /\ y[Len(y)] = t
  OBVIOUS
<1>2. Lawful(s)
  OBVIOUS
<1>3. at \in Seq(Tokens) /\ at[Len(at)] = t /\ at # << >>
  BY EndOfText
<1>4. Rise(a) \in Int
  BY DepthType
<1>5. Above(at, 0) => Rise(a) + Rise(y) >= 0
  <2> DEFINE h == Rise(a)
  <2>1. h = 0 + Rise(a) /\ h \in Int
    BY <1>4
  <2> HIDE DEF y, h
  <2>2. Above(at, 0) => Above(y, h)
    BY <1>1, <2>1, AboveOfConcat
  <2>3. Above(y, h) <=> h + Rise(y) >= 0
    BY <2>1, AboveOne DEF y
  <2>4. QED
    BY <2>2, <2>3 DEF h
<1> HIDE DEF y
<1>6. a = << >> => at[1] = t
  BY <1>1, ConcatEmptySeq
<1>7. a # << >> => at[1] = a[1] /\ (Chain(at) => Follows(a[Len(a)], t))
  BY <1>1, ChainOfConcat
<1> HIDE DEF at
<1>8. CASE r = << >>
  <2>1. s = at
    BY <1>3, <1>8, ConcatEmptySeq
  <2>2. QED
    BY <1>2, <1>5, <1>6, <1>7, <1>8, <2>1 DEF Lawful, y
<1>9. CASE r # << >>
  <2>1. Chain(at) /\ Follows(at[Len(at)], r[1]) /\ s[1] = at[1]
    BY <1>2, <1>3, <1>9, ChainOfConcat DEF Lawful
  <2>2. Above(at, 0)
    <3> DEFINE h == 0 + Rise(at)
    <3>1. h \in Int
      BY <1>3, DepthType
    <3> HIDE DEF h
    <3>2. h = 0 + Rise(at)
      BY DEF h
    <3>3. QED
      BY <1>2, <1>3, <3>1, <3>2, AboveOfConcat DEF Lawful
  <2>3. QED
    BY <1>2, <1>3, <1>5, <1>6, <1>7, <2>1, <2>2 DEF Lawful, y
<1>10. QED
  BY <1>8, <1>9

Valid == Goal # << >> /\ Known(Meant(tokens))

\* The token meant next, and the text with it.
IsDate == DateString(Current) /\ Suffix(pos)
Meaning == IF IsDate THEN Date(Current) ELSE Current

LEMMA MeantNext ==
    ASSUME Inv, Parsing, Unsplit, ~AtEnd
    PROVE  /\ Meaning \in Tokens /\ Current \in Tokens
           /\ Read \in Seq(Tokens) /\ Meant(Read) \in Seq(Tokens)
           /\ \E r \in Seq(Tokens) :
                /\ Meant(tokens) = (Meant(Read) \o <<Meaning>>) \o r
                /\ Current.type = "STRING" /\ Suffix(pos) /\ ~IsDate =>
                     r # << >> /\ r[1] = DateMark
<1> DEFINE n == Len(tokens)
           u == SubSeq(tokens, pos, n)
<1>1. /\ pos \in 1..n /\ Current \in Tokens /\ Read \in Seq(Tokens) /\ Meant(Read) \in Seq(Tokens)
      /\ n \in Nat /\ tokens \in Seq(Tokens) /\ pos \in Nat
  BY ReadMeant, LenProperties DEF Inv, TypeOK
<1>2. Meaning \in Tokens
  <2>1. DateString(Current) => Date(Current) \in Tokens
    BY <1>1, DateType, OperatorsAndOperands DEF DateString
  <2>2. QED
    BY <1>1, <2>1 DEF Meaning, IsDate
<1>3. /\ u \in Seq(Tokens) /\ Len(u) = n - pos + 1 /\ u # << >> /\ u[1] = Current
      /\ pos < n => u[2] = tokens[pos + 1]
  <2>1. \A i \in pos..n : tokens[i] \in Tokens
    BY <1>1, ElementOfSeq
  <2>2. /\ u \in Seq(Tokens)
        /\ Len(u) = IF pos <= n THEN n - pos + 1 ELSE 0
        /\ \A i \in 1..n - pos + 1 : u[i] = tokens[pos + i - 1]
    <3>1. pos \in Int /\ n \in Int
      BY <1>1
    <3> HIDE DEF n
    <3>2. QED
      BY <2>1, <3>1, SubSeqProperties
  <2>3. 1 \in 1..n - pos + 1 /\ pos + 1 - 1 = pos /\ Len(u) = n - pos + 1 /\ Len(u) # 0
    BY <1>1, <2>2
  <2>4. pos < n => 2 \in 1..n - pos + 1 /\ pos + 2 - 1 = pos + 1
    BY <1>1
  <2> HIDE DEF u, n
  <2>5. u # << >>
    BY <2>2, <2>3, EmptySeq
  <2>6. QED
    BY <2>2, <2>3, <2>4, <2>5 DEF Current
<1>4. tokens = Read \o u
  <2>1. 1 \in 1..n + 1 /\ pos - 1 \in 1 - 1..n /\ n \in pos - 1..n
    BY <1>1
  <2>2. SubSeq(tokens, 1, pos - 1) \o SubSeq(tokens, pos - 1 + 1, n) = SubSeq(tokens, 1, n)
    BY <1>1, <2>1, ConcatAdjacentSubSeq
  <2>3. SubSeq(tokens, 1, n) = tokens
    BY <1>1, SubSeqFull
  <2>4. pos - 1 + 1 = pos
    BY <1>1
  <2>5. QED
    BY <2>2, <2>3, <2>4 DEF Read
<1>5. Read # << >> => ~(DateString(Last(Read)) /\ u[1] = DateMark)
  <2> SUFFICES ASSUME Read # << >> PROVE ~(DateString(Last(Read)) /\ Current = DateMark)
    BY <1>3
  <2>1. Len(Read) = pos - 1
    BY ReadType DEF Inv
  <2>2. Len(Read) # 0
    BY <1>1, EmptySeq
  <2>3. pos > 1 /\ pos - 1 \in 0..n /\ pos - 1 \in 1..pos - 1
    BY <1>1, <2>1, <2>2
  <2>4. Read[pos - 1] = tokens[pos - 1]
    BY <1>1, <2>3, Prefix DEF Read
  <2>5. QED
    BY <1>1, <2>1, <2>3, <2>4 DEF Last, Unsplit, Current
<1>6. StartsDate(u) <=> IsDate
  <2>1. Len(u) > 1 <=> pos < n
    BY <1>1, <1>3
  <2> HIDE DEF u
  <2>2. QED
    BY <1>3, <2>1 DEF StartsDate, IsDate, Suffix, DateMark
<1> HIDE DEF u, n
<1>7. Meant(tokens) = Meant(Read) \o Meant(u)
  BY <1>1, <1>3, <1>4, <1>5, MeantConcat
<1>8. ASSUME NEW r \in Seq(Tokens), Meant(u) = <<Meaning>> \o r
      PROVE  Meant(tokens) = (Meant(Read) \o <<Meaning>>) \o r
  <2> DEFINE y == <<Meaning>>
             m == Meant(Read)
  <2>1. y \in Seq(Tokens) /\ m \in Seq(Tokens)
    BY <1>1, <1>2
  <2> HIDE DEF y, m
  <2>2. m \o (y \o r) = (m \o y) \o r
    BY <2>1
  <2>3. QED
    BY <1>7, <1>8, <2>2 DEF y, m
<1>9. CASE IsDate
  <2> DEFINE r == Meant(Tail(Tail(u)))
  <2>1. Meant(u) = <<Date(u[1])>> \o r
    BY <1>3, <1>6, <1>9, MeantUnfolds
  <2>2. Meaning = Date(u[1])
    BY <1>3, <1>9 DEF Meaning
  <2>3. r \in Seq(Tokens)
    <3>1. Tail(Tail(u)) \in Seq(Tokens)
      BY <1>3, <1>6, <1>9, TailsAreShorter DEF StartsDate
    <3>2. QED
      BY <3>1, MeantUnfolds
  <2> HIDE DEF r
  <2>4. Meant(tokens) = (Meant(Read) \o <<Meaning>>) \o r
    BY <1>8, <2>1, <2>2, <2>3
  <2>5. QED
    BY <1>1, <1>2, <1>9, <2>3, <2>4
<1>10. CASE ~IsDate
  <2> DEFINE v == Tail(u)
             r == Meant(v)
  <2>1. Meant(u) = <<u[1]>> \o r
    BY <1>3, <1>6, <1>10, MeantUnfolds
  <2>2. Meaning = u[1]
    BY <1>3, <1>10 DEF Meaning
  <2>3. v \in Seq(Tokens) /\ r \in Seq(Tokens)
    BY <1>3, TailsAreShorter, MeantUnfolds
  <2>4. ASSUME Suffix(pos) PROVE r # << >> /\ r[1] = DateMark
    <3>1. Len(u) > 1 /\ u[2] = DateMark
      BY <1>1, <1>3, <2>4 DEF Suffix, DateMark, n
    <3>2. v # << >> /\ v[1] = DateMark
      <4>1. v # << >> /\ Head(v) = u[2] /\ Head(v) = v[1]
        BY <1>3, <2>3, <3>1, TailsAreShorter
      <4>2. QED
        BY <3>1, <4>1
    <3>3. ~StartsDate(v)
      BY <3>2 DEF StartsDate, DateString, DateMark, Token
    <3> DEFINE x == Meant(Tail(v))
               d == v[1]
               y == <<d>>
    <3>4. r = y \o x
      BY <2>3, <3>2, <3>3, MeantUnfolds
    <3>5. x \in Seq(Tokens) /\ d \in Tokens /\ d = v[1]
      BY <2>3, <3>2, TailsAreShorter, MeantUnfolds
    <3> HIDE DEF d
    <3>6. y \in Seq(Tokens) /\ y # << >> /\ Head(y) = d
      <4>1. d \in Tokens
        BY <3>5
      <4>2. y # << >> /\ Head(y) = d
        OBVIOUS
      <4>3. QED
        BY <4>1, <4>2
    <3> HIDE DEF x, y
    <3>7. y \o x \in Seq(Tokens) /\ y \o x # << >> /\ Head(y \o x) = d
      BY <3>5, <3>6, HeadOfConcat
    <3> DEFINE z == y \o x
    <3>8. z \in Seq(Tokens) /\ z # << >> /\ z[1] = d /\ r = z
      <4>1. z \in Seq(Tokens) /\ z # << >> /\ Head(z) = d /\ r = z
        BY <3>4, <3>7
      <4> HIDE DEF z
      <4>2. Head(z) = z[1]
        BY <4>1, TailsAreShorter
      <4>3. QED
        BY <4>1, <4>2
    <3> HIDE DEF z, r, v
    <3>9. QED
      BY <3>2, <3>5, <3>8
  <2> HIDE DEF r, v
  <2>5. Meant(tokens) = (Meant(Read) \o <<Meaning>>) \o r
    BY <1>8, <2>1, <2>2, <2>3
  <2>6. QED
    BY <1>1, <1>2, <2>3, <2>4, <2>5
<1>11. QED
  BY <1>9, <1>10

\* How strong the operators of what came must be for the token read next.
Strength == IF ~AtEnd /\ IsBinary(Current) THEN Binds(Current) ELSE 0

Halfway ==
    \/ Waits(Meant(Read), operands, operators)
    \/ Came(Meant(Read), operands, operators, Strength)

LEMMA ValidText ==
    ASSUME Inv, Valid
    PROVE  Lawful(Meant(tokens)) /\ Opened(Goal) = 0 /\ Meant(tokens) \in Seq(Tokens)
           /\ Goal \in Seq(Tokens)
<1>1. Meant(tokens) \in Seq(Tokens)
  BY MeantUnfolds DEF Inv, TypeOK
<1>2. Accepted(Meant(tokens), Precedence) /\ Goal \in Seq(Tokens)
  BY <1>1, Strengths, GrammarIsLawful, GrammarUnfolds DEF Goal
<1>3. QED
  BY <1>1, <1>2 DEF Valid, Accepted, Goal

\* The text tells whether the stacks wait for an operand or one came.
LEMMA Turns ==
    ASSUME Inv, Parsing, Unsplit, Valid, Halfway
    PROVE  /\ AtEnd => Came(Meant(Read), operands, operators, Strength)
                       /\ Meant(tokens) = Meant(Read) /\ Rise(Meant(Read)) = 0
           /\ ~AtEnd /\ Starts(Meaning) => Waits(Meant(Read), operands, operators)
           /\ ~AtEnd /\ ~Starts(Meaning) => Came(Meant(Read), operands, operators, Strength)
           /\ ~AtEnd => Rise(Meant(Read)) + Rise(<<Meaning>>) >= 0
           /\ ~AtEnd /\ Meaning.type = "IDENTIFIER" => Meaning.value \in Variables
           /\ ~AtEnd /\ Current.type = "STRING" /\ Suffix(pos) => Current.value \in Dates
<1> DEFINE m == Meant(Read)
           M == Meant(tokens)
           Waiting == Waits(m, operands, operators)
           Come == Came(m, operands, operators, Strength)
<1>1. Waiting => m = << >> \/ ~Completes(m[Len(m)])
  BY EndOfWait
<1>2. Come => m # << >> /\ Completes(m[Len(m)])
  BY CameText
<1>3. Waiting \/ Come
  BY DEF Halfway
<1>4. Lawful(M) /\ M \in Seq(Tokens) /\ Known(M)
  BY ValidText DEF Valid
<1> HIDE DEF m, M, Waiting, Come
<1>5. CASE AtEnd
  <2>1. Read = tokens
    <3>1. tokens \in Seq(Tokens) /\ pos - 1 = Len(tokens)
      BY <1>5, LenProperties DEF Inv, TypeOK, AtEnd
    <3>2. QED
      BY <3>1, SubSeqFull DEF Read
  <2>2. M = m
    BY <2>1 DEF M, m
  <2>3. Come /\ Rise(m) = 0
    BY <1>1, <1>3, <1>4, <2>2 DEF Lawful
  <2>4. QED
    BY <1>5, <2>2, <2>3 DEF M, m, Come
<1>6. CASE ~AtEnd
  <2>1. /\ Meaning \in Tokens /\ Current \in Tokens /\ m \in Seq(Tokens)
        /\ \E r \in Seq(Tokens) :
             /\ M = (m \o <<Meaning>>) \o r
             /\ Current.type = "STRING" /\ Suffix(pos) /\ ~IsDate =>
                  r # << >> /\ r[1] = DateMark
    BY <1>6, MeantNext DEF m, M
  <2>2. PICK r \in Seq(Tokens) :
          /\ M = (m \o <<Meaning>>) \o r
          /\ Current.type = "STRING" /\ Suffix(pos) /\ ~IsDate => r # << >> /\ r[1] = DateMark
    BY <2>1
  <2> DEFINE t == Meaning
  <2>3. t \in Tokens /\ M = (m \o <<t>>) \o r
    BY <2>1, <2>2
  <2> HIDE DEF t
  <2>4. /\ m = << >> => Starts(t)
        /\ m # << >> => Follows(m[Len(m)], t)
        /\ Rise(m) + Rise(<<t>>) >= 0
        /\ r # << >> => Follows(t, r[1])
    BY <1>4, <2>1, <2>3, LawfulToken
  <2>5. Starts(t) => Waiting
    BY <1>2, <1>3, <2>4 DEF Follows
  <2>6. ~Starts(t) => Come
    BY <1>1, <1>3, <2>4 DEF Follows
  <2>7. t.type = "IDENTIFIER" => t.value \in Variables
    <3> DEFINE a == m \o <<t>>
    <3>1. a \in Seq(Tokens) /\ a[Len(a)] = t /\ a # << >>
      BY <2>1, <2>3, EndOfText
    <3> HIDE DEF a
    <3>2. PlacesOf(a, r) /\ Len(a) # 0
      BY <3>1, PlacesOfConcat, EmptySeq
    <3>3. M = a \o r
      BY <2>3 DEF a
    <3> DEFINE i == Len(a)
    <3>4. i \in 1..Len(a) /\ i \in 1..Len(M)
      BY <3>2, <3>3 DEF PlacesOf
    <3>5. M[i] = t
      BY <3>1, <3>2, <3>3, <3>4 DEF PlacesOf
    <3> HIDE DEF i
    <3>6. QED
      BY <1>4, <3>4, <3>5 DEF Known
  <2>8. Current.type = "STRING" /\ Suffix(pos) => Current.value \in Dates
    <3> SUFFICES ASSUME Current.type = "STRING", Suffix(pos), Current.value \notin Dates
                 PROVE  FALSE
      OBVIOUS
    <3>1. ~IsDate
      BY DEF IsDate, DateString
    <3>2. r # << >> /\ r[1] = DateMark /\ t = Current
      BY <2>2, <3>1 DEF t, Meaning
    <3>3. t \in OperandTokens
      BY <2>3, <3>2 DEF OperandTokens
    <3>4. DateMark \in OperandTokens
      <4>1. r[1] \in Tokens
        BY <3>2, TailsAreShorter
      <4>2. QED
        BY <3>2, <4>1 DEF DateMark, OperandTokens, Token
    <3>5. QED
      BY <2>4, <3>2, <3>3, <3>4 DEF Follows, Starts, Completes
  <2>9. QED
    BY <1>6, <2>4, <2>5, <2>6, <2>7, <2>8 DEF t, m, M, Waiting, Come
<1>7. QED
  BY <1>5, <1>6

\* On a text of the grammar nothing goes wrong, and its expression comes out.
Tracks ==
    Valid /\ phase # "typing" =>
        /\ phase \in {"parsing", "accepted", "queried"}
        /\ Parsing => Halfway
        /\ ~Parsing => operands = <<Goal>>

LEMMA TracksOperand ==
    ASSUME Inv, Unsplit, Parsing, ~AtEnd, Tracks, Valid, Meaning \in OperandTokens,
           NEW used \in {1, 2}, Operand(Meaning, used), used = 2 <=> IsDate
    PROVE  Tracks'
<1>1. Halfway
  BY DEF Tracks, Parsing
<1> DEFINE m == Meant(Read)
           t == Meaning
<1>2. Waits(m, operands, operators)
  BY <1>1, Turns DEF Starts
<1>3. Came(m \o <<t>>, Append(operands, <<t>>), operators, Strength')
  BY <1>2, OperandComes
<1>4. /\ operands' = Append(operands, <<t>>) /\ pos' = pos + used
      /\ operators' = operators /\ tokens' = tokens /\ phase' = phase
  BY DEF Operand
<1>5. Meant(Read') = m \o <<t>>
  <2>0. pos \in Nat
    BY DEF Inv, TypeOK
  <2>1. CASE used = 1
    <3>1. Read' = SubSeq(tokens, 1, pos)
      BY <1>4, <2>0, <2>1 DEF Read
    <3>2. QED
      BY <2>1, <3>1, ReadMeant DEF Meaning
  <2>2. CASE used = 2
    <3>1. Read' = SubSeq(tokens, 1, pos + 1)
      BY <1>4, <2>0, <2>2 DEF Read
    <3>2. QED
      BY <2>2, <3>1, ReadMeant DEF Meaning, IsDate
  <2>3. QED
    BY <2>1, <2>2
<1> HIDE DEF m, t
<1>6. Halfway'
  BY <1>3, <1>4, <1>5 DEF Halfway
<1>7. QED
  BY <1>4, <1>6 DEF Tracks, Parsing

\* make_binary_expression finds its operands.
LEMMA TracksMake ==
    ASSUME Inv, Unsplit, Tracks, Valid, Make
    PROVE  Tracks'
<1> DEFINE m == Meant(Read)
           C == Front(operators)
           x == Top
           k == Strength
<1>1. Halfway /\ Parsing /\ MustMake
  BY DEF Tracks, Make, Parsing
<1>2. /\ operators # << >> /\ C \in Seq(Tokens) /\ x \in Tokens /\ operators = Append(C, x)
      /\ x # Open => IsBinary(x)
  <2> DEFINE O == OperatorTokens \ {Close}
  <2>1. O \subseteq Tokens /\ \A t \in O : t.type = "OPERATOR" /\ t # Close
    BY OperatorsAndOperands DEF OperatorTokens
  <2>2. operators # << >> /\ operators \in Seq(O)
    BY <1>1 DEF MustMake, Inv, TypeOK
  <2> HIDE DEF O
  <2>3. x \in O /\ C \in Seq(O) /\ operators = Append(C, x)
    BY <2>2, TopOfStack DEF Top
  <2>4. C \in Seq(Tokens)
    BY <2>1, <2>3, SeqMonotonic
  <2>5. QED
    BY <2>1, <2>2, <2>3, <2>4 DEF IsBinary
<1>3. Came(m, operands, operators, k) /\ IsBinary(x) /\ k \in Nat /\ k <= Binds(x)
  <2>1. CASE AtEnd
    <3>1. Came(m, operands, operators, k) /\ Rise(m) = 0
      BY <1>1, <2>1, Turns
    <3>2. x # Open
      <4> SUFFICES ASSUME x = Open PROVE FALSE
        OBVIOUS
      <4>1. Rise(m) >= 1
        BY <1>2, <3>1, RiseOfCame DEF Top
      <4>2. QED
        BY <3>1, <4>1
    <3>3. k = 0
      BY <2>1 DEF Strength
    <3>4. Binds(x) \in Nat
      BY <1>2, <3>2, Strengths
    <3>5. QED
      BY <1>2, <3>1, <3>2, <3>3, <3>4
  <2>2. CASE ~AtEnd /\ Current = Close /\ x # Open
    <3>1. Meaning = Close /\ ~Starts(Close) /\ ~IsBinary(Current)
      BY <2>2, OperatorsAndOperands
         DEF Meaning, IsDate, DateString, Starts, IsBinary, Close, Op, Token
    <3>2. Came(m, operands, operators, k)
      BY <1>1, <2>2, <3>1, Turns
    <3>3. k = 0
      BY <3>1 DEF Strength
    <3>4. Binds(x) \in Nat
      BY <1>2, <2>2, Strengths
    <3>5. QED
      BY <1>2, <2>2, <3>2, <3>3, <3>4
  <2>3. CASE ~AtEnd /\ IsBinary(Current) /\ precedence(Current) <= precedence(x)
    <3>1. Current \in Tokens /\ Meaning = Current
      BY <1>1, <2>3, MeantNext DEF Meaning, IsDate, DateString, IsBinary
    <3>2. ~Starts(Current)
      BY <2>3, <3>1, BinaryTokens, OperatorsAndOperands DEF Starts, IsBinary
    <3>3. Came(m, operands, operators, k)
      BY <1>1, <2>3, <3>1, <3>2, Turns
    <3>4. k = Binds(Current) /\ k \in Nat /\ precedence(Current) = k
      BY <2>3, <3>1, Strengths DEF Strength
    <3>5. x # Open
      <4>1. precedence(Open) = 0
        BY DEF precedence, Open, Op, Token
      <4>2. precedence(Current) >= 1
        <5>1. Current.value \notin {<<"(">>, <<")">>}
          BY <2>3, <3>1, BinaryTokens DEF BinaryValues
        <5>2. CASE Current.value \in {<<"|">>, <<"&">>}
          <6>1. precedence(Current) = 1
            BY <5>1, <5>2 DEF precedence
          <6>2. QED
            BY <6>1
        <5>3. CASE Current.value \notin {<<"|">>, <<"&">>}
          <6>1. precedence(Current) = 2
            BY <5>1, <5>3 DEF precedence
          <6>2. QED
            BY <6>1
        <5>4. QED
          BY <5>2, <5>3
      <4> SUFFICES ASSUME x = Open PROVE FALSE
        OBVIOUS
      <4>3. k <= 0 /\ k >= 1
        BY <2>3, <3>4, <4>1, <4>2
      <4>4. QED
        BY <3>4, <4>3
    <3>6. precedence(x) = Binds(x)
      BY <1>2, <3>5, Strengths
    <3>7. k <= Binds(x)
      BY <2>3, <3>4, <3>6
    <3>8. QED
      BY <1>2, <3>3, <3>4, <3>5, <3>7
  <2>4. QED
    BY <1>1, <2>1, <2>2, <2>3 DEF MustMake
<1>4. PICK E \in Seq(Seq(Tokens)), a \in Seq(Tokens), b \in Seq(Tokens) :
        /\ operands = Append(Append(E, a), b)
        /\ Came(m, Append(E, <<x>> \o a \o b), C, k)
  <2> HIDE DEF m, x, C, k
  <2>1. Came(m, operands, Append(C, x), k)
    BY <1>2, <1>3
  <2>2. Made(m, operands, C, x, k)
    BY <1>2, <1>3, <2>1, CameMakes
  <2>3. QED
    BY <2>2 DEF Made
<1> DEFINE n == Len(operands)
<1>5. ~(n < 2) /\ SubSeq(operands, 1, n - 2) = E /\ operands[n - 1] = a /\ operands[n] = b
  BY <1>4, TwoOnTop
<1>6. /\ operands' = Append(E, <<x>> \o a \o b) /\ operators' = C
      /\ phase' = phase /\ tokens' = tokens /\ pos' = pos
  BY <1>5 DEF Make
<1>7. Read' = Read /\ Strength' = Strength
  BY <1>6 DEF Read, Strength, AtEnd, Current
<1>8. Came(Meant(Read'), operands', operators', Strength')
  BY <1>4, <1>6, <1>7
<1>9. Halfway'
  BY <1>8 DEF Halfway
<1>10. QED
  BY <1>1, <1>6, <1>9 DEF Tracks, Parsing

\* A closing parenthesis finds the one it closes.
LEMMA TracksClose ==
    ASSUME Inv, Unsplit, Tracks, Valid, ReadClose
    PROVE  Tracks'
<1> DEFINE m == Meant(Read)
<1>1. Halfway /\ Parsing /\ ~AtEnd /\ Current = Close /\ ~MustMake
  BY DEF Tracks, ReadClose, Parsing
<1>2. Meaning = Close /\ ~Starts(Close)
  BY <1>1, OperatorsAndOperands DEF Meaning, IsDate, DateString, Starts, Close, Op, Token
<1>3. Came(m, operands, operators, Strength) /\ Rise(m) + Rise(<<Close>>) >= 0
  BY <1>1, <1>2, Turns
<1>4. operators # << >>
  <2> SUFFICES ASSUME operators = << >> PROVE FALSE
    OBVIOUS
  <2>1. Rise(m) = 0
    BY <1>3, RiseOfCame
  <2>2. Rise(<<Close>>) = 0 - 1
    BY AboveOne, OperatorsAndOperands
  <2> HIDE DEF m
  <2>3. QED
    BY <1>3, <2>1, <2>2
<1>5. Last(operators) = Open
  BY <1>1, <1>4 DEF MustMake, Top
<1>6. /\ operators' = Front(operators) /\ pos' = pos + 1 /\ phase' = phase
      /\ tokens' = tokens /\ operands' = operands
  BY <1>4 DEF ReadClose
<1>7. Meant(Read') = m \o <<Close>>
  <2>1. Read' = SubSeq(tokens, 1, pos)
    <3>1. pos \in Nat
      BY DEF Inv, TypeOK
    <3>2. QED
      BY <1>6, <3>1 DEF Read
  <2>2. QED
    BY <1>1, <2>1, ReadMeant
<1>8. Came(m \o <<Close>>, operands, Front(operators), Strength')
  BY <1>3, <1>4, <1>5, CameCloses
<1> HIDE DEF m
<1>9. Halfway'
  BY <1>6, <1>7, <1>8 DEF Halfway
<1>10. QED
  BY <1>1, <1>6, <1>9 DEF Tracks, Parsing

\* An operator finds its left operand made.
LEMMA TracksOperator ==
    ASSUME Inv, Unsplit, Tracks, Valid, ReadOpenOrBinary
    PROVE  Tracks'
<1> DEFINE m == Meant(Read)
<1>1. /\ Halfway /\ Parsing /\ ~AtEnd /\ Current.type = "OPERATOR" /\ Current # Close /\ ~MustMake
  BY DEF Tracks, ReadOpenOrBinary, Parsing
<1>2. Meaning = Current /\ Current \in Tokens
  BY <1>1, MeantNext DEF Meaning, IsDate, DateString
<1>3. /\ operators' = Append(operators, Current) /\ pos' = pos + 1 /\ phase' = phase
      /\ tokens' = tokens /\ operands' = operands
  BY DEF ReadOpenOrBinary
<1>4. Meant(Read') = m \o <<Current>>
  <2>1. Read' = SubSeq(tokens, 1, pos)
    <3>1. pos \in Nat
      BY DEF Inv, TypeOK
    <3>2. QED
      BY <1>3, <3>1 DEF Read
  <2>2. QED
    BY <1>1, <2>1, ReadMeant
<1>5. Waits(m \o <<Current>>, operands, Append(operators, Current))
  <2>1. CASE Current = Open
    <3>1. Waits(m, operands, operators)
      BY <1>1, <1>2, <2>1, Turns DEF Starts
    <3>2. QED
      BY <2>1, <3>1, WaitGrows
  <2>2. CASE Current # Open
    <3>1. IsBinary(Current) /\ Strength = Binds(Current)
      BY <1>1, <2>2 DEF IsBinary, Strength
    <3>2. ~Starts(Current)
      BY <1>2, <2>2, <3>1, BinaryTokens, OperatorsAndOperands DEF Starts
    <3>3. Came(m, operands, operators, Binds(Current))
      BY <1>1, <1>2, <3>1, <3>2, Turns
    <3>4. ASSUME operators # << >>, Last(operators) # Open
          PROVE  ~(Binds(Current) <= Binds(Last(operators)))
      <4>1. ~(precedence(Current) <= precedence(Last(operators)))
        BY <1>1, <3>1, <3>4 DEF MustMake, Top
      <4>2. IsBinary(Last(operators)) /\ Last(operators) \in Tokens
        <5> DEFINE O == OperatorTokens \ {Close}
        <5>1. O \subseteq Tokens /\ \A t \in O : t.type = "OPERATOR" /\ t # Close
          BY OperatorsAndOperands DEF OperatorTokens
        <5>2. operators \in Seq(O)
          BY DEF Inv, TypeOK
        <5> HIDE DEF O
        <5>3. Last(operators) \in O
          BY <3>4, <5>2, TopOfStack
        <5>4. QED
          BY <3>4, <5>1, <5>3 DEF IsBinary
      <4>3. QED
        BY <1>2, <3>1, <4>1, <4>2, Strengths
    <3>5. QED
      BY <1>2, <3>1, <3>3, <3>4, CameApplies
  <2>3. QED
    BY <2>1, <2>2
<1> HIDE DEF m
<1>6. Halfway'
  BY <1>3, <1>4, <1>5 DEF Halfway
<1>7. QED
  BY <1>1, <1>3, <1>6 DEF Tracks, Parsing

LEMMA TracksNext == Inv /\ Unsplit /\ Tracks /\ Inv' /\ [Next]_vars => Tracks'
<1> SUFFICES ASSUME Inv, Unsplit, Tracks, Inv', [Next]_vars, Valid', phase' # "typing"
             PROVE  Tracks'
  BY DEF Tracks
<1>1. ASSUME NEW t \in Alphabet, Type(t) PROVE FALSE
  BY <1>1 DEF Type
<1>2. CASE Submit
  <2>1. Read' = << >> /\ operands' = << >> /\ operators' = << >>
    <3>1. pos' = 1 /\ operands' = << >> /\ operators' = << >>
      BY <1>2 DEF Submit, Inv, Started
    <3>2. pos' - 1 = 0 /\ SubSeq(tokens', 1, 0) = << >>
      BY <3>1, SubSeqEmpty
    <3>3. QED
      BY <3>1, <3>2 DEF Read
  <2>2. Halfway'
    BY <2>1, MeantUnfolds, WaitGrows DEF Halfway
  <2>3. phase' = "parsing"
    <3>1. CASE Failed(get_tokens(text))
      <4>1. tokens' = << >>
        BY <1>2, <3>1 DEF Submit
      <4>2. Goal' = << >>
        <5>1. << >> \in Seq(Tokens) /\ Len(<< >>) <= 1 /\ Only(OperandTokens, << >>) = << >>
          BY OnlyOfNone
        <5> DEFINE s == << >>
        <5> HIDE DEF s
        <5>2. \A q \in Seq(Tokens) :
                Len(q) <= 1 => Grammar(q, Precedence) = Only(OperandTokens, q)
          BY Strengths, GrammarUnfolds
        <5>3. s \in Seq(Tokens) /\ Len(s) <= 1 /\ Only(OperandTokens, s) = s
          BY <5>1 DEF s
        <5>4. Grammar(s, Precedence) = s
          BY <5>2, <5>3
        <5>5. Meant(tokens') = s
          BY <4>1, MeantUnfolds DEF s
        <5>6. QED
          BY <5>4, <5>5 DEF Goal, s
      <4>3. QED
        BY <4>2 DEF Valid
    <3>2. CASE ~Failed(get_tokens(text))
      BY <1>2, <3>2 DEF Submit
    <3>3. QED
      BY <3>1, <3>2
  <2>4. QED
    BY <2>2, <2>3 DEF Tracks, Parsing
<1>3. ASSUME tokens' = tokens PROVE Valid
  BY <1>3 DEF Valid, Goal
<1>4. CASE Make
  BY <1>3, <1>4, TracksMake DEF Make
<1>5. CASE ReadInteger
  <2>1. Parsing /\ ~AtEnd /\ Current.type = "INTEGER" /\ Operand(Current, 1) /\ Valid
    BY <1>3, <1>5 DEF ReadInteger, Operand
  <2>2. Meaning = Current /\ ~IsDate
    BY <2>1 DEF Meaning, IsDate, DateString
  <2>3. Meaning \in OperandTokens
    BY <2>1, <2>2, MeantNext DEF OperandTokens
  <2>4. QED
    BY <2>1, <2>2, <2>3, TracksOperand
<1>6. CASE ReadIdentifier
  <2>1. Parsing /\ ~AtEnd /\ Current.type = "IDENTIFIER" /\ Valid
    BY <1>3, <1>6 DEF ReadIdentifier, Operand, Refuse
  <2>2. Meaning = Current /\ ~IsDate /\ Halfway
    BY <2>1 DEF Meaning, IsDate, DateString, Tracks, Parsing
  <2>3. Meaning \in OperandTokens /\ Current.value \in Variables
    BY <2>1, <2>2, MeantNext, Turns DEF OperandTokens
  <2>4. Operand(Current, 1)
    BY <1>6, <2>3 DEF ReadIdentifier
  <2>5. QED
    BY <2>1, <2>2, <2>3, <2>4, TracksOperand
<1>7. CASE ReadString
  <2>1. Parsing /\ ~AtEnd /\ Current.type = "STRING" /\ Valid
    BY <1>3, <1>7 DEF ReadString, Operand, Refuse
  <2>2. Current \in Tokens /\ Halfway
    BY <2>1, MeantNext DEF Tracks, Parsing
  <2>3. CASE ~Suffix(pos)
    <3>1. Meaning = Current /\ ~IsDate /\ Operand(Current, 1)
      BY <1>7, <2>3 DEF Meaning, IsDate, ReadString
    <3>2. Meaning \in OperandTokens
      BY <2>1, <2>2, <3>1 DEF OperandTokens
    <3>3. QED
      BY <2>1, <3>1, <3>2, TracksOperand
  <2>4. CASE Suffix(pos)
    <3>1. Current.value \in Dates
      BY <2>1, <2>2, <2>4, Turns
    <3>2. IsDate /\ Meaning = Date(Current) /\ Operand(Date(Current), 2)
      BY <1>7, <2>1, <2>4, <3>1 DEF Meaning, IsDate, DateString, ReadString, Date
    <3>3. Meaning \in OperandTokens
      BY <2>1, <2>2, <3>2, DateType
    <3>4. QED
      BY <2>1, <3>2, <3>3, TracksOperand
  <2>5. QED
    BY <2>3, <2>4
<1>8. CASE ReadClose
  BY <1>3, <1>8, TracksClose DEF ReadClose
<1>9. CASE ReadOpenOrBinary
  BY <1>3, <1>9, TracksOperator DEF ReadOpenOrBinary
<1>10. CASE Finish
  <2>1. Parsing /\ AtEnd /\ operators = << >> /\ Valid /\ Halfway
    BY <1>3, <1>10 DEF Finish, Tracks, Parsing
  <2>2. Came(Meant(Read), operands, << >>, Strength) /\ Meant(tokens) = Meant(Read)
    BY <2>1, Turns
  <2>3. operands = <<Goal>>
    BY <2>2, CameAlone DEF Goal
  <2>4. Len(operands) = 1
    BY <2>3
  <2>5. phase' = "accepted" /\ operands' = operands /\ tokens' = tokens
    BY <1>10, <2>4 DEF Finish
  <2>6. QED
    BY <2>3, <2>5 DEF Tracks, Parsing, Goal
<1>11. CASE Query
  <2>1. phase = "accepted" /\ tokens' = tokens /\ operands' = operands /\ Valid
    BY <1>3, <1>11 DEF Query
  <2>2. operands = <<Goal>> /\ Goal \in Seq(Tokens) /\ Opened(Goal) = 0
    BY <2>1, ValidText DEF Tracks, Parsing
  <2>3. Open \notin ToSet(Result)
    <3> SUFFICES ASSUME Open \in ToSet(Result) PROVE FALSE
      OBVIOUS
    <3> DEFINE g == Goal
    <3>1. operands[1] = g /\ g \in Seq(Tokens) /\ Opened(g) = 0
      BY <2>2
    <3> HIDE DEF g
    <3>2. Result = g \/ Result = << >>
      BY <3>1 DEF Result
    <3>3. ToSet(<< >>) = {}
      BY DEF ToSet
    <3>4. Open \in ToSet(g)
      BY <3>2, <3>3
    <3>5. DOMAIN g = 1..Len(g)
      BY <3>1, LenProperties
    <3>6. PICK i \in 1..Len(g) : g[i] = Open
      BY <3>4, <3>5 DEF ToSet
    <3> DEFINE K == {Open}
    <3>7. g[i] \in K /\ Opened(g) = Occurrences(K, g)
      BY <3>6 DEF Opened
    <3> HIDE DEF K
    <3>8. Occurrences(K, g) # 0
      BY <3>1, <3>7, Present
    <3>9. QED
      BY <3>1, <3>7, <3>8
  <2>4. phase' = "queried"
    BY <1>11, <2>3 DEF Query
  <2>5. QED
    BY <2>1, <2>2, <2>4 DEF Tracks, Parsing, Goal
<1>12. CASE UNCHANGED vars
  BY <1>12 DEF vars, Tracks, Valid, Goal, Parsing, Halfway, Read, Strength, AtEnd, Current
<1>13. QED
  BY <1>1, <1>2, <1>4, <1>5, <1>6, <1>7, <1>8, <1>9, <1>10, <1>11, <1>12 DEF Next

\* Whatever expression of the grammar is typed, with known names, the two stacks
\* make the one that the grammar says, and it is accepted and queried.
THEOREM GrammarParsed == Spec => []GrammarIsParsed
<1>1. Init => Tracks
  BY DEF Init, Tracks
<1>2. Tracks => GrammarIsParsed
  BY DEF Tracks, GrammarIsParsed, Valid, Parsing
<1>3. Init => Unsplit
  BY DEF Init, Unsplit
<1>4. Init => InOrder
  <2> SUFFICES ASSUME Init PROVE InOrder
    OBVIOUS
  <2>1. operands = << >> /\ tokens = << >> /\ pos = 1
    BY DEF Init
  <2>2. Read = << >>
    <3>1. SubSeq(tokens, 1, 0) = << >> /\ pos - 1 = 0
      BY <2>1, SubSeqEmpty
    <3>2. QED
      BY <3>1 DEF Read
  <2>3. FlattenSeq(operands) = << >> /\ Meant(Read) = << >>
    BY <2>1, <2>2, Flatten, MeantUnfolds
  <2>4. QED
    BY <2>3 DEF InOrder
<1>5. QED
  BY <1>1, <1>2, <1>3, <1>4, OrderNext, TracksNext, BalanceInvariance, PTL DEF Spec

-----------------------------------------------------------------------------
(***************************************************************************)
(* What is typed is read.                                                  *)
(***************************************************************************)

\* The kinds of characters that begin tokens are apart.
LEMMA Kinds ==
    /\ Digits \cap Letters = {} /\ Operators \cap Alnum = {}
    /\ Quote \notin Alnum /\ Quote \notin Operators /\ Quote # Backslash
    /\ Space \notin Alnum /\ Space \notin Operators /\ Space # Quote
<1>1. Digits \cap Letters = {} /\ Operators \cap Alnum = {}
  BY DEF Digits, Letters, Operators, Alnum
<1>2. Quote \notin Alnum /\ Quote \notin Operators
  BY Zenon DEF Quote, Digits, Letters, Operators, Alnum
<1>3. Quote # Backslash
  BY Zenon DEF Quote, Backslash
<1>4. Space \notin Alnum /\ Space \notin Operators
  BY Zenon DEF Space, Digits, Letters, Operators, Alnum
<1>5. Space # Quote
  BY Zenon DEF Space, Quote
<1>6. QED
  BY <1>1, <1>2, <1>3, <1>4, <1>5

\* A run is where it seems to be.
LEMMA RunIs ==
    ASSUME NEW chars \in Seq(Characters), NEW class, NEW i \in 1..Len(chars), NEW j \in i..Len(chars),
           \A k \in i..j : chars[k] \in class, j < Len(chars) => chars[j + 1] \notin class
    PROVE  RunEnd(chars, i, class) = j
<1> DEFINE r == RunEnd(chars, i, class)
<1>1. chars[i] \in class /\ Len(chars) \in Nat
  BY LenProperties
<1>2. /\ r \in i..Len(chars) /\ \A k \in i..r : chars[k] \in class
      /\ r < Len(chars) => chars[r + 1] \notin class
  BY <1>1, RunEnds
<1> HIDE DEF r
<1>3. ~(r < j)
  <2> SUFFICES ASSUME r < j PROVE FALSE
    OBVIOUS
  <2>1. r + 1 \in i..j /\ r < Len(chars)
    BY <1>1, <1>2
  <2>2. QED
    BY <1>2, <2>1
<1>4. ~(j < r)
  <2> SUFFICES ASSUME j < r PROVE FALSE
    OBVIOUS
  <2>1. j + 1 \in i..r /\ j < Len(chars)
    BY <1>1, <1>2
  <2>2. QED
    BY <1>2, <2>1
<1>5. QED
  BY <1>1, <1>2, <1>3, <1>4 DEF r

\* A number without leading zeros is written as it was read.
LEMMA DecimalOfValue ==
    ASSUME NEW v \in Seq(Digits), v # << >>, Len(v) > 1 => v[1] # "0", Value(v) <= MaxInt
    PROVE  Decimal(Value(v)) = v
<1> DEFINE n == Len(v)
           val == Values(v)
           digit(k) == CHOOSE c \in Digits : DigitValue[c] = k
<1>1. n \in Nat /\ n >= 1 /\ \A i \in 1..n : v[i] \in Digits
  BY LenProperties, EmptySeq
<1>2. Value(v) = val[n] /\ val = ValueStep(v, val) /\ \A i \in 0..n : val[i] \in Nat
  BY <1>1, ValueUnfolds
<1>3. val[0] = 0 /\ \A i \in 1..n : val[i] = 10 * val[i - 1] + DigitValue[v[i]]
  <2> HIDE DEF val, n
  <2>1. \A i \in 0..n : ValueStep(v, val)[i] = IF i = 0 THEN 0 ELSE 10 * val[i - 1] + DigitValue[v[i]]
    BY DEF ValueStep, n
  <2>2. 0 \in 0..n /\ \A i \in 1..n : i \in 0..n /\ i # 0
    BY <1>1
  <2>3. QED
    BY <1>2, <2>1, <2>2
<1>4. \A i \in 1..n : DigitValue[v[i]] \in 0..9 /\ digit(DigitValue[v[i]]) = v[i]
  <2>1. \A c \in Digits : DigitValue[c] \in 0..9 /\ DigitList[DigitValue[c] + 1] = c
    BY DigitValues
  <2>2. \A c \in Digits : digit(DigitValue[c]) \in Digits /\ DigitValue[digit(DigitValue[c])] = DigitValue[c]
    OBVIOUS
  <2>3. \A c \in Digits : digit(DigitValue[c]) = c
    <3> HIDE DEF digit
    <3>1. QED
      BY <2>1, <2>2
  <2> HIDE DEF digit, n
  <2>4. QED
    BY <1>1, <2>1, <2>3
<1>5. n > 1 => DigitValue[v[1]] >= 1
  <2> SUFFICES ASSUME n > 1, ~(DigitValue[v[1]] >= 1) PROVE FALSE
    OBVIOUS
  <2>1. v[1] \in Digits /\ DigitValue[v[1]] \in 0..9
    BY <1>1, <1>4
  <2>2. DigitValue[v[1]] = 0
    BY <2>1
  <2>3. DigitList[0 + 1] = v[1]
    BY <2>1, <2>2, DigitValues
  <2>4. QED
    BY <2>3 DEF DigitList
<1>6. MaxInt \in 0..99 /\ val[n] <= MaxInt
  BY <1>2, MaxIntAssumption
<1>7. \A m : Decimal(m) = IF m < 10 THEN <<digit(m)>> ELSE <<digit(m \div 10), digit(m % 10)>>
  BY DEF Decimal
<1> HIDE DEF digit, val
<1>8. CASE n = 1
  <2>1. 1 \in 1..n
    BY <1>8
  <2>2. val[1] = 10 * val[1 - 1] + DigitValue[v[1]] /\ 1 - 1 = 0
    BY <1>3, <2>1
  <2>3. val[n] = DigitValue[v[1]]
    BY <1>3, <1>4, <1>8, <2>1, <2>2
  <2>4. Decimal(val[n]) = <<v[1]>>
    BY <1>4, <1>7, <2>1, <2>3
  <2>5. v = <<v[1]>>
    BY <1>8, OneOrTwo
  <2>6. QED
    BY <1>2, <2>4, <2>5
<1>9. CASE n = 2
  <2> DEFINE a == DigitValue[v[1]]
             b == DigitValue[v[2]]
  <2>1. 1 \in 1..n /\ 2 \in 1..n
    BY <1>9
  <2>2. a \in 0..9 /\ b \in 0..9 /\ a >= 1 /\ digit(a) = v[1] /\ digit(b) = v[2]
    BY <1>4, <1>5, <1>9, <2>1
  <2>3. val[1] = 10 * val[0] + a /\ val[2] = 10 * val[1] + b
    <3>1. val[1] = 10 * val[1 - 1] + a /\ val[2] = 10 * val[2 - 1] + b
      BY <1>3, <2>1
    <3>2. 1 - 1 = 0 /\ 2 - 1 = 1
      OBVIOUS
    <3>3. QED
      BY <3>1, <3>2
  <2> HIDE DEF a, b
  <2>4. val[n] = 10 * a + b
    BY <1>3, <1>9, <2>2, <2>3
  <2>5. ~(val[n] < 10) /\ val[n] \div 10 = a /\ val[n] % 10 = b
    BY <2>2, <2>4
  <2>6. Decimal(val[n]) = <<v[1], v[2]>>
    BY <1>7, <2>2, <2>5
  <2>7. v = <<v[1], v[2]>>
    BY <1>9, OneOrTwo
  <2>8. QED
    BY <1>2, <2>6, <2>7
<1>10. CASE n > 2
  <2>1. val[n] >= 10 * val[n - 1] /\ val[n - 1] >= 10 * val[n - 2] /\ n - 1 \in 1..n /\ n - 2 \in 1..n
    <3>1. n \in 1..n /\ n - 1 \in 1..n /\ n - 2 \in 1..n /\ n - 1 - 1 = n - 2
      BY <1>1, <1>10
    <3>2. \A i \in 1..n : val[i] >= 10 * val[i - 1]
      <4> SUFFICES ASSUME NEW i \in 1..n PROVE val[i] >= 10 * val[i - 1]
        OBVIOUS
      <4>1. i - 1 \in 0..n
        BY <1>1
      <4>2. val[i - 1] \in Nat /\ DigitValue[v[i]] \in 0..9
        BY <1>2, <1>4, <4>1
      <4>3. val[i] = 10 * val[i - 1] + DigitValue[v[i]]
        BY <1>3
      <4>4. \A x, y \in Nat : 10 * x + y >= 10 * x
        OBVIOUS
      <4>5. QED
        BY <4>2, <4>3, <4>4
    <3>3. QED
      BY <3>1, <3>2
  <2>2. \A i \in 1..n : val[i] >= 1
    <3> DEFINE Bad == {i \in 1..n : ~(val[i] >= 1)}
    <3> SUFFICES ASSUME Bad # {} PROVE FALSE
      OBVIOUS
    <3>1. PICK i \in Bad : \A j \in Bad : i <= j
      <4>1. Bad \subseteq Nat
        OBVIOUS
      <4> HIDE DEF Bad
      <4>2. QED
        BY <4>1, Least
    <3>2. i \in 1..n /\ val[i] = 10 * val[i - 1] + DigitValue[v[i]] /\ DigitValue[v[i]] \in 0..9
      BY <1>3, <1>4
    <3>3. i # 1
      <4> SUFFICES ASSUME i = 1 PROVE FALSE
        OBVIOUS
      <4>1. val[1] = 10 * val[0] + DigitValue[v[1]] /\ DigitValue[v[1]] >= 1
        <5>1. 1 - 1 = 0
          OBVIOUS
        <5>2. QED
          BY <1>5, <1>10, <3>2, <5>1
      <4>2. QED
        BY <1>3, <3>2, <4>1
    <3>4. i - 1 \in 1..n /\ i - 1 < i
      BY <1>1, <3>2, <3>3
    <3>5. val[i - 1] >= 1
      BY <1>1, <3>1, <3>4
    <3>6. val[i - 1] \in Nat
      <4>1. i - 1 \in 0..n
        BY <1>1, <3>4
      <4>2. QED
        BY <1>2, <4>1
    <3>7. QED
      BY <3>2, <3>5, <3>6
  <2>3. val[n - 2] >= 1 /\ val[n - 1] \in Nat /\ val[n - 2] \in Nat /\ val[n] \in Nat
    <3>1. n \in 0..n /\ n - 1 \in 0..n /\ n - 2 \in 0..n
      BY <1>1, <1>10
    <3>2. QED
      BY <1>2, <2>1, <2>2, <3>1
  <2>4. val[n] >= 100
    BY <2>1, <2>3
  <2>5. QED
    BY <1>6, <2>3, <2>4
<1>11. QED
  <2> HIDE DEF n
  <2>1. n = 1 \/ n = 2 \/ n > 2
    BY <1>1
  <2>2. QED
    BY <1>8, <1>9, <1>10, <2>1

\* A string as it is typed.
Escape(c) == IF c \in {Quote, Backslash} THEN <<Backslash, c>> ELSE <<c>>
Escapes(v) == [i \in 1..Len(v) |-> Escape(v[i])]
Escaped(v) == FlattenSeq(Escapes(v))

LEMMA EscapedGrows ==
    /\ Escaped(<< >>) = << >>
    /\ \A v \in Seq(Characters) : Escaped(v) \in Seq(Characters)
    /\ \A v \in Seq(Characters), c \in Characters : Escaped(Append(v, c)) = Escaped(v) \o Escape(c)
<1>1. \A c \in Characters : Escape(c) \in Seq(Characters)
  <2>1. \A x, y \in Characters : <<x>> \in Seq(Characters) /\ <<x, y>> \in Seq(Characters)
    OBVIOUS
  <2>2. Backslash \in Characters
    BY CharactersAssumption
  <2>3. QED
    BY <2>1, <2>2 DEF Escape
<1>2. ASSUME NEW v \in Seq(Characters) PROVE Escapes(v) \in Seq(Seq(Characters))
  <2> DEFINE n == Len(v)
  <2>1. n \in Nat /\ \A i \in 1..n : v[i] \in Characters
    BY LenProperties
  <2>2. \A i \in 1..n : Escape(v[i]) \in Seq(Characters)
    BY <1>1, <2>1
  <2>3. Escapes(v) \in [1..n -> Seq(Characters)]
    BY <2>2 DEF Escapes
  <2> HIDE DEF n
  <2>4. QED
    BY <2>1, <2>3
<1>3. Escapes(<< >>) = << >>
  BY DEF Escapes
<1>4. ASSUME NEW v \in Seq(Characters), NEW c \in Characters
      PROVE  Escapes(Append(v, c)) = Append(Escapes(v), Escape(c))
  <2> DEFINE n == Len(v)
             w == Append(v, c)
  <2>1. n \in Nat /\ Len(w) = n + 1 /\ w[n + 1] = c /\ \A i \in 1..n : w[i] = v[i]
    BY LenProperties
  <2>2. Escapes(v) \in Seq(Seq(Characters)) /\ Len(Escapes(v)) = n
    <3>1. Escapes(v) \in Seq(Seq(Characters)) /\ n \in Nat
      BY <1>2, <2>1
    <3>2. DOMAIN Escapes(v) = 1..n
      BY DEF Escapes
    <3> HIDE DEF n
    <3>3. QED
      BY <3>1, <3>2
  <2> DEFINE p == Escapes(v)
             q == Append(p, Escape(c))
  <2>3. Escape(c) \in Seq(Characters) /\ p \in Seq(Seq(Characters)) /\ Len(p) = n
    BY <1>1, <2>2
  <2>4. \A i \in 1..n : p[i] = Escape(v[i])
    BY DEF Escapes
  <2> HIDE DEF p
  <2>5. /\ q \in Seq(Seq(Characters)) /\ Len(q) = n + 1 /\ q[n + 1] = Escape(c)
        /\ \A i \in 1..n : q[i] = p[i]
    <3> HIDE DEF n
    <3>1. QED
      BY <2>3, AppendProperties
  <2>6. Escapes(w) = [i \in 1..n + 1 |-> Escape(w[i])] /\ Escapes(w) \in Seq(Seq(Characters))
    <3>1. w \in Seq(Characters)
      BY AppendProperties
    <3> HIDE DEF n, w
    <3>2. Escapes(w) = [i \in 1..n + 1 |-> Escape(w[i])]
      BY <2>1 DEF Escapes
    <3>3. QED
      BY <1>2, <3>1, <3>2
  <2>7. Len(Escapes(w)) = n + 1
    <3> HIDE DEF n, w
    <3>1. n + 1 \in Nat /\ DOMAIN Escapes(w) = 1..n + 1
      BY <2>1, <2>6
    <3>2. QED
      BY <2>6, <3>1
  <2>8. \A i \in 1..n + 1 : Escapes(w)[i] = q[i]
    <3>1. \A i \in 1..n + 1 : i \in 1..n \/ i = n + 1
      BY <2>1
    <3> HIDE DEF n, w, q
    <3>2. QED
      BY <2>1, <2>4, <2>5, <2>6, <3>1
  <2> HIDE DEF n, w, q
  <2>9. Escapes(w) = q
    BY <2>5, <2>6, <2>7, <2>8, SeqEqual
  <2>10. QED
    BY <2>9 DEF w, q, p
<1>5. QED
  BY <1>1, <1>2, <1>3, <1>4, Flatten DEF Escaped

\* u stands in the text x from place b on.
Stands(x, b, u) == b + Len(u) <= Len(x) + 1 /\ \A k \in 1..Len(u) : x[b + k - 1] = u[k]

LEMMA StandsParts ==
    ASSUME NEW x \in Seq(Characters), NEW b \in Nat, NEW u \in Seq(Characters),
           NEW v \in Seq(Characters), Stands(x, b, u \o v)
    PROVE  Stands(x, b, u) /\ Stands(x, b + Len(u), v)
<1> DEFINE m == Len(u)
           n == Len(v)
           w == u \o v
<1>1. m \in Nat /\ n \in Nat /\ Len(w) = m + n /\ Len(x) \in Nat
  BY LenProperties
<1>2. /\ \A k \in 1..m : w[k] = u[k]
      /\ \A k \in 1..n : w[m + k] = v[k]
  OBVIOUS
<1>3. b + (m + n) <= Len(x) + 1 /\ \A k \in 1..m + n : x[b + k - 1] = w[k]
  BY <1>1 DEF Stands
<1> HIDE DEF w, m, n
<1>4. b + m <= Len(x) + 1 /\ \A k \in 1..m : x[b + k - 1] = u[k]
  <2>1. \A k \in 1..m : k \in 1..m + n
    BY <1>1
  <2>2. QED
    BY <1>1, <1>2, <1>3, <2>1
<1>5. b + m + n <= Len(x) + 1 /\ \A k \in 1..n : x[b + m + k - 1] = v[k]
  <2>1. \A k \in 1..n : m + k \in 1..m + n /\ b + (m + k) - 1 = b + m + k - 1
    BY <1>1
  <2>2. QED
    BY <1>1, <1>2, <1>3, <2>1
<1>6. QED
  BY <1>4, <1>5 DEF Stands, m, n

\* What the rest of a literal adds to one that goes on there.
Prefixed(v, r) == [end |-> r.end, value |-> v \o r.value]

LEMMA EscapeRead ==
    ASSUME NEW x \in Seq(Characters), NEW b \in 1..Len(x) + 1, NEW c \in Characters,
           Stands(x, b, Escape(c))
    PROVE  Literals(x)[b] = Prefixed(<<c>>, Literals(x)[b + Len(Escape(c))])
<1> DEFINE n == Len(x)
           L == Literals(x)
<1>1. n \in Nat /\ b \in Nat
  BY LenProperties
<1>2. L = ReadStep(x, L)
  BY ReadStringType
<1>3. Goes(x, b) => L[b] = [end |-> L[LastOf(x, b) + 1].end,
                            value |-> <<x[LastOf(x, b)]>> \o L[LastOf(x, b) + 1].value]
  <2>1. Goes(x, b) => ~Ends(x, b)
    BY DEF Goes, Ends
  <2> HIDE DEF L
  <2>2. QED
    BY <1>2, <2>1 DEF ReadStep
<1> HIDE DEF L
<1>4. CASE c \in {Quote, Backslash}
  <2>1. Len(<<Backslash, c>>) = 2 /\ <<Backslash, c>>[1] = Backslash /\ <<Backslash, c>>[2] = c
        /\ 1 \in 1..2 /\ 2 \in 1..2
    OBVIOUS
  <2>2. Escape(c) = <<Backslash, c>>
    BY <1>4 DEF Escape
  <2>3. b + 2 <= n + 1 /\ x[b + 1 - 1] = Backslash /\ x[b + 2 - 1] = c
    BY <2>1, <2>2 DEF Stands
  <2>4. b + 1 - 1 = b /\ b + 2 - 1 = b + 1 /\ b + 1 + 1 = b + 2
    BY <1>1
  <2>5. x[b] = Backslash /\ x[b + 1] = c
    BY <2>3, <2>4
  <2>6. LastOf(x, b) = b + 1
    BY <2>5 DEF LastOf
  <2>7. Goes(x, b)
    BY <1>1, <1>4, <2>3, <2>5, <2>6, Kinds DEF Goes
  <2>8. QED
    BY <1>3, <2>1, <2>2, <2>4, <2>5, <2>6, <2>7 DEF Prefixed, L
<1>5. CASE c \notin {Quote, Backslash}
  <2>1. Len(<<c>>) = 1 /\ <<c>>[1] = c /\ 1 \in 1..1
    OBVIOUS
  <2>2. Escape(c) = <<c>>
    BY <1>5 DEF Escape
  <2>3. b + 1 <= n + 1 /\ x[b + 1 - 1] = c
    BY <2>1, <2>2 DEF Stands
  <2>4. b + 1 - 1 = b
    BY <1>1
  <2>5. x[b] = c /\ LastOf(x, b) = b
    BY <1>5, <2>3, <2>4 DEF LastOf
  <2>6. Goes(x, b)
    BY <1>1, <1>5, <2>3, <2>5 DEF Goes
  <2>7. QED
    BY <1>3, <2>1, <2>2, <2>5, <2>6 DEF Prefixed, L
<1>6. QED
  BY <1>4, <1>5

LEMMA LiteralPart ==
    ASSUME NEW x \in Seq(Characters)
    PROVE  \A v \in Seq(Characters) : \A b \in 1..Len(x) + 1 :
             Stands(x, b, Escaped(v)) =>
               Literals(x)[b] = Prefixed(v, Literals(x)[b + Len(Escaped(v))])
<1> DEFINE L == Literals(x)
           Good == {v \in Seq(Characters) : \A b \in 1..Len(x) + 1 :
                      Stands(x, b, Escaped(v)) => L[b] = Prefixed(v, L[b + Len(Escaped(v))])}
<1>0. Len(x) \in Nat /\ << >> \in Seq(Characters)
  BY LenProperties, EmptySeq
<1>1. \A b \in 1..Len(x) + 1 : L[b] \in [end : 0..Len(x), value : Seq(Characters)]
  BY ReadStringIs, ReadStringType
<1>2. << >> \in Good
  <2> SUFFICES ASSUME NEW b \in 1..Len(x) + 1
               PROVE  L[b] = Prefixed(<< >>, L[b + Len(Escaped(<< >>))])
    BY <1>0
  <2>1. Escaped(<< >>) = << >> /\ Len(<< >>) = 0 /\ b + 0 = b
    BY <1>0, EscapedGrows
  <2> HIDE DEF L
  <2>2. \A r \in [end : 0..Len(x), value : Seq(Characters)] : Prefixed(<< >>, r) = r
    <3> SUFFICES ASSUME NEW r \in [end : 0..Len(x), value : Seq(Characters)]
                 PROVE  Prefixed(<< >>, r) = r
      OBVIOUS
    <3>1. << >> \o r.value = r.value
      OBVIOUS
    <3>2. QED
      BY <3>1 DEF Prefixed
  <2>3. QED
    BY <1>1, <2>1, <2>2
<1>3. ASSUME NEW w \in Good, NEW c \in Characters PROVE Append(w, c) \in Good
  <2> SUFFICES ASSUME NEW b \in 1..Len(x) + 1, Stands(x, b, Escaped(Append(w, c)))
               PROVE  L[b] = Prefixed(Append(w, c), L[b + Len(Escaped(Append(w, c)))])
    OBVIOUS
  <2> DEFINE e == Escaped(w)
             d == Escape(c)
  <2>1. w \in Seq(Characters) /\ e \in Seq(Characters) /\ Escaped(Append(w, c)) = e \o d
    BY EscapedGrows
  <2>2. d \in Seq(Characters)
    <3>1. \A y, z \in Characters : <<y>> \in Seq(Characters) /\ <<y, z>> \in Seq(Characters)
      OBVIOUS
    <3>2. Backslash \in Characters
      BY CharactersAssumption
    <3>3. QED
      BY <3>1, <3>2 DEF Escape
  <2>3. Len(e) \in Nat /\ Len(d) \in Nat /\ Len(e \o d) = Len(e) + Len(d)
    BY <2>1, <2>2, LenProperties
  <2>4. Stands(x, b, e) /\ Stands(x, b + Len(e), d)
    BY <2>1, <2>2, StandsParts
  <2>5. b + Len(e) \in 1..Len(x) + 1 /\ b + Len(e) + Len(d) \in 1..Len(x) + 1
    BY <1>0, <2>3, <2>4 DEF Stands
  <2> DEFINE r == L[b + Len(e) + Len(d)]
  <2>6. L[b] = Prefixed(w, L[b + Len(e)])
    BY <2>4
  <2>7. L[b + Len(e)] = Prefixed(<<c>>, r)
    <3> HIDE DEF L, d, e
    <3>1. QED
      BY <2>4, <2>5, EscapeRead DEF L, d
  <2>8. r.value \in Seq(Characters)
    <3> HIDE DEF L
    <3>1. QED
      BY <1>1, <2>5
  <2>9. b + (Len(e) + Len(d)) = b + Len(e) + Len(d)
    BY <2>3
  <2>10. Prefixed(w, Prefixed(<<c>>, r)) = Prefixed(Append(w, c), r)
    <3> DEFINE one == <<c>>
    <3> HIDE DEF r, Good, L, e, d
    <3>0. \A f, g, h \in Seq(Characters) : (f \o g) \o h = f \o (g \o h)
      OBVIOUS
    <3>0a. one \in Seq(Characters) /\ Append(w, c) = w \o one
      BY <2>1, AppendIsConcat
    <3> HIDE DEF one
    <3>0b. w \o (one \o r.value) = (w \o one) \o r.value
      BY <2>1, <2>8, <3>0, <3>0a
    <3>1. w \o (<<c>> \o r.value) = Append(w, c) \o r.value
      BY <3>0a, <3>0b DEF one
    <3>2. QED
      BY <3>1 DEF Prefixed
  <2>11. QED
    <3>1. L[b + Len(Escaped(Append(w, c)))] = r
      BY <2>1, <2>3, <2>9
    <3> HIDE DEF r, L, e, d
    <3>2. QED
      BY <2>6, <2>7, <2>10, <3>1
<1>4. Seq(Characters) \subseteq Good
  <2>1. ASSUME NEW s \in Seq(Characters),
               \A t \in Seq(Characters) : Len(t) < Len(s) => t \in Good
        PROVE  s \in Good
    <3>1. CASE s = << >>
      BY <1>2, <3>1
    <3>2. CASE s # << >>
      <4> DEFINE w == Front(s)
                 c == Last(s)
      <4>1. w \in Seq(Characters) /\ c \in Characters /\ s = Append(w, c)
        <5> HIDE DEF Good
        <5>1. QED
          BY <3>2, TopOfStack
      <4>1a. Len(w) < Len(s)
        <5> HIDE DEF w, c, Good
        <5>1. Len(s) = Len(w) + 1 /\ Len(w) \in Nat
          BY <4>1, LenProperties
        <5>2. QED
          BY <5>1
      <4> HIDE DEF w, c, Good
      <4>2. QED
        BY <1>3, <2>1, <4>1, <4>1a
    <3>3. QED
      BY <3>1, <3>2
  <2> HIDE DEF Good
  <2>2. QED
    BY <2>1, ShorterFirst
<1>5. QED
  BY <1>4

LEMMA StandingIs ==
    ASSUME NEW x \in Seq(Characters), NEW b \in 1..Len(x) + 1, NEW u \in Seq(Characters),
           Stands(x, b, u)
    PROVE  SubSeq(x, b, b + Len(u) - 1) = u
<1> DEFINE m == Len(u)
           e == b + m - 1
           p == SubSeq(x, b, e)
<1>1. m \in Nat /\ Len(x) \in Nat /\ b + m <= Len(x) + 1
  BY LenProperties DEF Stands
<1>2. e \in b - 1..Len(x) /\ e - b + 1 = m
  BY <1>1
<1>3. p \in Seq(Characters) /\ Len(p) = e - b + 1 /\ \A k \in 1..e - b + 1 : p[k] = x[b + k - 1]
  <2> HIDE DEF e
  <2>1. QED
    BY <1>2, Piece
<1>4. \A k \in 1..m : x[b + k - 1] = u[k]
  BY DEF Stands
<1> HIDE DEF p, e
<1>5. Len(p) = Len(u) /\ \A k \in 1..Len(p) : p[k] = u[k]
  BY <1>2, <1>3, <1>4
<1>6. p = u
  BY <1>3, <1>5, SeqEqual
<1>7. QED
  BY <1>6 DEF p, e

LEMMA SpelledString ==
    ASSUME NEW t \in Tokens, t.type = "STRING"
    PROVE  Spelled(t) = (<<Quote>> \o Escaped(t.value)) \o <<Quote>>
BY DEF Spelled, Escaped, Escapes, Escape

\* A literal ends where its last quote stands.
LEMMA LiteralRead ==
    ASSUME NEW x \in Seq(Characters), NEW b \in 1..Len(x) + 1, NEW v \in Seq(Characters),
           Stands(x, b, (<<Quote>> \o Escaped(v)) \o <<Quote>>)
    PROVE  /\ Len((<<Quote>> \o Escaped(v)) \o <<Quote>>) = Len(Escaped(v)) + 2
           /\ Len(Escaped(v)) \in Nat /\ b <= Len(x) /\ x[b] = Quote
           /\ read_string(x, b + 1) = [end |-> b + Len(Escaped(v)) + 1, value |-> v]
<1> DEFINE q == <<Quote>>
           E == Escaped(v)
           n == Len(E)
           j == b + 1 + n
           L == Literals(x)
<1>1. q \in Seq(Characters) /\ Len(q) = 1 /\ q[1] = Quote
  BY CharactersAssumption
<1>2. E \in Seq(Characters) /\ n \in Nat /\ Len(x) \in Nat /\ b \in Nat
  BY EscapedGrows, LenProperties
<1> HIDE DEF q, E
<1>3. q \o E \in Seq(Characters) /\ Len(q \o E) = 1 + n
  BY <1>1, <1>2, ConcatProperties
<1>4. Len((q \o E) \o q) = n + 2
  BY <1>1, <1>2, <1>3, ConcatProperties
<1>5. Stands(x, b, q \o E) /\ Stands(x, b + (1 + n), q)
  <2>1. Stands(x, b, (q \o E) \o q)
    BY DEF q, E
  <2>2. QED
    BY <1>1, <1>2, <1>3, <2>1, StandsParts
<1>6. Stands(x, b, q) /\ Stands(x, b + 1, E)
  BY <1>1, <1>2, <1>5, StandsParts
<1>7. b <= Len(x) /\ x[b] = Quote
  <2>1. b + 1 <= Len(x) + 1 /\ x[b + 1 - 1] = q[1]
    BY <1>1, <1>6 DEF Stands
  <2>2. QED
    BY <1>1, <1>2, <2>1
<1>8. j <= Len(x) /\ x[j] = Quote /\ j \in 1..Len(x) + 1
  <2>1. b + (1 + n) + 1 <= Len(x) + 1 /\ x[b + (1 + n) + 1 - 1] = q[1]
    BY <1>1, <1>5 DEF Stands
  <2>2. b + (1 + n) + 1 - 1 = j
    BY <1>2
  <2>3. QED
    BY <1>1, <1>2, <2>1, <2>2
<1>9. L = ReadStep(x, L) /\ \A i : read_string(x, i) = L[i]
  BY ReadStringType, ReadStringIs
<1>10. L[j] = [end |-> j, value |-> << >>]
  <2> HIDE DEF L, j
  <2>1. Ends(x, j)
    BY <1>8 DEF Ends
  <2>2. QED
    BY <1>8, <1>9, <2>1 DEF ReadStep
<1>11. b + 1 \in 1..Len(x) + 1
  BY <1>2, <1>7
<1>12. L[b + 1] = Prefixed(v, L[j])
  BY <1>6, <1>11, LiteralPart DEF E
<1>13. L[b + 1] = [end |-> j, value |-> v]
  <2> HIDE DEF L, j
  <2>1. v \o << >> = v
    OBVIOUS
  <2>2. QED
    BY <1>10, <1>12, <2>1 DEF Prefixed
<1>14. j = b + n + 1
  BY <1>2
<1>15. QED
  <2> HIDE DEF L, j
  <2>1. QED
    BY <1>2, <1>4, <1>7, <1>9, <1>13, <1>14 DEF q, E

\* The five ways to go on.
LEMMA StepIs ==
    ASSUME NEW x \in Seq(Characters), NEW i \in 1..Len(x)
    PROVE  LET f == From(x)
               n == Value(SubSeq(x, i, RunEnd(x, i, Digits)))
               s == read_string(x, i + 1)
           IN  /\ x[i] \in Digits /\ n > MaxInt => f[i] = <<Token("INTEGER", Decimal(MaxInt))>>
               /\ x[i] \in Digits /\ ~(n > MaxInt) =>
                    f[i] = <<Token("INTEGER", Decimal(n))>> \o f[RunEnd(x, i, Digits) + 1]
               /\ x[i] \notin Digits /\ x[i] \in Letters =>
                    f[i] = <<Token("IDENTIFIER", SubSeq(x, i, RunEnd(x, i, Alnum)))>> \o
                             f[RunEnd(x, i, Alnum) + 1]
               /\ x[i] \notin Alnum /\ x[i] = Quote /\ s.end # 0 =>
                    f[i] = <<Token("STRING", s.value)>> \o f[s.end + 1]
               /\ x[i] \notin Alnum \cup {Quote} /\ x[i] \in Operators =>
                    f[i] = <<Token("OPERATOR", SubSeq(x, i, OperatorEnd(x, i)))>> \o
                             f[OperatorEnd(x, i) + 1]
               /\ x[i] \notin Alnum \cup {Quote} \cup Operators /\ x[i] = Space => f[i] = f[i + 1]
               /\ x[i] \notin Alnum \cup {Quote} \cup Operators \cup {Space} =>
                    f[i] = TokenizerError
<1> DEFINE f == From(x)
           run(class) == RunEnd(x, i, class)
           number == Value(SubSeq(x, i, run(Digits)))
           string == read_string(x, i + 1)
           oe == OperatorEnd(x, i)
           P1 == x[i] \in Digits
           P2 == x[i] \in Letters
           P3 == x[i] = Quote
           P4 == x[i] \in Operators
           P5 == x[i] = Space
           big == number > MaxInt
           a0 == <<Token("INTEGER", Decimal(MaxInt))>>
           a1 == <<Token("INTEGER", Decimal(number))>> \o f[run(Digits) + 1]
           a2 == <<Token("IDENTIFIER", SubSeq(x, i, run(Alnum)))>> \o f[run(Alnum) + 1]
           a3 == <<Token("STRING", string.value)>> \o f[string.end + 1]
           a4 == <<Token("OPERATOR", SubSeq(x, i, oe))>> \o f[oe + 1]
<1>1. Len(x) \in Nat /\ i \in 1..Len(x) + 1 /\ ~(i > Len(x))
  BY LenProperties
<1>2. f = FromStep(x, f)
  BY TokensUnfold
<1>3. \A g : FromStep(x, g)[i] =
        IF i > Len(x) THEN << >>
        ELSE IF P1 THEN IF big THEN a0
                        ELSE <<Token("INTEGER", Decimal(number))>> \o g[run(Digits) + 1]
        ELSE IF P2
        THEN <<Token("IDENTIFIER", SubSeq(x, i, run(Alnum)))>> \o g[run(Alnum) + 1]
        ELSE IF P3 THEN IF string.end = 0 THEN TokenizerError
                        ELSE <<Token("STRING", string.value)>> \o g[string.end + 1]
        ELSE IF P4 THEN <<Token("OPERATOR", SubSeq(x, i, oe))>> \o g[oe + 1]
        ELSE IF P5 THEN g[i + 1] ELSE TokenizerError
  BY <1>1 DEF FromStep
<1> HIDE DEF f
<1>4. f[i] = IF i > Len(x) THEN << >>
        ELSE IF P1 THEN IF big THEN a0 ELSE a1
        ELSE IF P2 THEN a2
        ELSE IF P3 THEN IF string.end = 0 THEN TokenizerError ELSE a3
        ELSE IF P4 THEN a4
        ELSE IF P5 THEN f[i + 1] ELSE TokenizerError
  <2>1. f[i] = FromStep(x, f)[i]
    BY <1>2
  <2>2. QED
    BY <1>3, <2>1
<1>5. x[i] \in Alnum <=> P1 \/ P2
  BY DEF Alnum
<1> HIDE DEF P1, P2, P3, P4, P5, big, a0, a1, a2, a3, a4, string
<1>6. /\ P1 /\ big => f[i] = a0
      /\ P1 /\ ~big => f[i] = a1
      /\ ~P1 /\ P2 => f[i] = a2
      /\ ~P1 /\ ~P2 /\ P3 /\ string.end # 0 => f[i] = a3
      /\ ~P1 /\ ~P2 /\ ~P3 /\ P4 => f[i] = a4
      /\ ~P1 /\ ~P2 /\ ~P3 /\ ~P4 /\ P5 => f[i] = f[i + 1]
      /\ ~P1 /\ ~P2 /\ ~P3 /\ ~P4 /\ ~P5 => f[i] = TokenizerError
  BY <1>1, <1>4
<1>7. /\ x[i] \notin Alnum <=> ~P1 /\ ~P2
      /\ x[i] \notin Alnum \cup {Quote} <=> ~P1 /\ ~P2 /\ ~P3
      /\ x[i] \notin Alnum \cup {Quote} \cup Operators <=> ~P1 /\ ~P2 /\ ~P3 /\ ~P4
      /\ x[i] \notin Alnum \cup {Quote} \cup Operators \cup {Space} <=>
           ~P1 /\ ~P2 /\ ~P3 /\ ~P4 /\ ~P5
  BY <1>5 DEF P3, P4, P5
<1>8. /\ x[i] \in Digits <=> P1
      /\ x[i] \in Letters <=> P2
      /\ x[i] = Quote <=> P3
      /\ x[i] \in Operators <=> P4
      /\ x[i] = Space <=> P5
  BY DEF P1, P2, P3, P4, P5
<1>9. QED
  BY <1>6, <1>7, <1>8 DEF f, big, a0, a1, a2, a3, a4, string

\* At the place e no run of characters and no operator goes on.
Parted(x, e) ==
    e <= Len(x) => /\ ~(x[e - 1] \in Alnum /\ x[e] \in Alnum)
                   /\ ~(x[e - 1] \in {"<", ">"} /\ x[e] = "=")
Behind(b, t) == b + Len(Spelled(t))
Placed(x, b, t) == Stands(x, b, Spelled(t)) /\ Parted(x, Behind(b, t))

\* The token is read from b, and what follows it from there.
IsRead(x, b, t) == From(x)[b] = <<t>> \o From(x)[Behind(b, t)]

\* Runs of one class.
LEMMA RunRead ==
    ASSUME NEW x \in Seq(Characters), NEW b \in 1..Len(x) + 1, NEW v \in Seq(Characters), v # << >>,
           Stands(x, b, v), Parted(x, b + Len(v)), NEW class, class \subseteq Alnum,
           \A i \in 1..Len(v) : v[i] \in class
    PROVE  /\ b \in 1..Len(x) /\ x[b] = v[1] /\ RunEnd(x, b, class) = b + Len(v) - 1
           /\ SubSeq(x, b, RunEnd(x, b, class)) = v
<1> DEFINE n == Len(v)
           e == b + n
<1>1. n \in Nat /\ n >= 1 /\ Len(x) \in Nat /\ b \in Nat /\ b >= 1
  BY LenProperties, EmptySeq
<1>2. e <= Len(x) + 1 /\ \A k \in 1..n : x[b + k - 1] = v[k]
  BY DEF Stands
<1> HIDE DEF n
<1>3. b \in 1..Len(x) /\ e - 1 \in b..Len(x) /\ e - 1 + 1 = e
  BY <1>1, <1>2
<1>4. \A k \in b..e - 1 : x[k] \in class
  <2> SUFFICES ASSUME NEW k \in b..e - 1 PROVE x[k] \in class
    OBVIOUS
  <2>1. k - b + 1 \in 1..n /\ b + (k - b + 1) - 1 = k
    BY <1>1
  <2>2. QED
    BY <1>2, <2>1 DEF n
<1>5. e - 1 < Len(x) => x[e - 1 + 1] \notin class
  <2> SUFFICES ASSUME e - 1 < Len(x) PROVE x[e] \notin class
    BY <1>3
  <2>1. e <= Len(x) /\ e - 1 \in b..e - 1
    BY <1>1, <1>3
  <2>2. x[e - 1] \in Alnum
    BY <1>4, <2>1
  <2>3. ~(x[e - 1] \in Alnum /\ x[e] \in Alnum)
    BY <2>1 DEF Parted, n
  <2>4. QED
    BY <2>2, <2>3
<1>6. RunEnd(x, b, class) = e - 1
  <2> HIDE DEF e
  <2>1. QED
    BY <1>3, <1>4, <1>5, RunIs
<1>7. x[b] = v[1]
  <2>1. 1 \in 1..n /\ b + 1 - 1 = b
    BY <1>1
  <2>2. QED
    BY <1>2, <2>1
<1>8. SubSeq(x, b, e - 1) = v
  BY StandingIs DEF n
<1>9. QED
  BY <1>3, <1>6, <1>7, <1>8 DEF n

LEMMA NumberRead ==
    ASSUME NEW x \in Seq(Characters), NEW b \in 1..Len(x) + 1, NEW t \in Tokens,
           Placed(x, b, t), Legible(t), t.type = "INTEGER"
    PROVE  /\ TooBig(t) => From(x)[b] = <<Token("INTEGER", Decimal(MaxInt))>>
           /\ ~TooBig(t) => IsRead(x, b, t)
<1> DEFINE v == t.value
<1>1. v \in Seq(Characters) /\ t = Token("INTEGER", v) /\ Spelled(t) = v
  BY DEF Tokens, Token, Spelled
<1>2. /\ v # << >> /\ \A i \in 1..Len(v) : v[i] \in Digits
      /\ Len(v) > 1 => v[1] # "0"
  BY DEF Legible
<1>3. Digits \subseteq Alnum /\ Stands(x, b, v) /\ Parted(x, b + Len(v)) /\ Behind(b, t) = b + Len(v)
  BY <1>1 DEF Alnum, Placed, Behind
<1> HIDE DEF v
<1>4. /\ b \in 1..Len(x) /\ x[b] = v[1] /\ RunEnd(x, b, Digits) = b + Len(v) - 1
      /\ SubSeq(x, b, RunEnd(x, b, Digits)) = v
  BY <1>1, <1>2, <1>3, RunRead
<1>5. Len(v) \in Nat /\ Len(v) >= 1 /\ x[b] \in Digits
  <2>1. Len(v) \in Nat /\ Len(v) >= 1
    BY <1>1, <1>2, LenProperties, EmptySeq
  <2>2. 1 \in 1..Len(v)
    BY <2>1
  <2>3. QED
    BY <1>2, <1>4, <2>1, <2>2
<1>6. TooBig(t) <=> Value(v) > MaxInt
  BY DEF TooBig, v
<1>7. /\ Value(v) > MaxInt => From(x)[b] = <<Token("INTEGER", Decimal(MaxInt))>>
      /\ ~(Value(v) > MaxInt) =>
           From(x)[b] = <<Token("INTEGER", Decimal(Value(v)))>> \o From(x)[b + Len(v) - 1 + 1]
  BY <1>4, <1>5, StepIs
<1>8. ~(Value(v) > MaxInt) => Decimal(Value(v)) = v
  <2>1. v \in Seq(Digits)
    <3>1. v \in [1..Len(v) -> Digits]
      <4>1. DOMAIN v = 1..Len(v) /\ v = [i \in DOMAIN v |-> v[i]]
        BY <1>1
      <4>2. QED
        BY <1>2, <4>1
    <3>2. QED
      BY <1>5, <3>1
  <2>2. Value(v) \in Nat /\ MaxInt \in Nat
    BY <1>2, <1>5, ValueType, MaxIntAssumption
  <2>3. QED
    BY <1>2, <2>1, <2>2, DecimalOfValue
<1>9. b + Len(v) - 1 + 1 = b + Len(v)
  BY <1>5
<1>10. QED
  BY <1>1, <1>3, <1>6, <1>7, <1>8, <1>9 DEF IsRead

LEMMA NameRead ==
    ASSUME NEW x \in Seq(Characters), NEW b \in 1..Len(x) + 1, NEW t \in Tokens,
           Placed(x, b, t), Legible(t), t.type = "IDENTIFIER"
    PROVE  IsRead(x, b, t)
<1> DEFINE v == t.value
<1>1. v \in Seq(Characters) /\ t = Token("IDENTIFIER", v) /\ Spelled(t) = v
  BY DEF Tokens, Token, Spelled
<1>2. v # << >> /\ v[1] \in Letters /\ \A i \in 1..Len(v) : v[i] \in Alnum
  BY DEF Legible
<1>3. Stands(x, b, v) /\ Parted(x, b + Len(v)) /\ Behind(b, t) = b + Len(v)
  BY <1>1 DEF Placed, Behind
<1> HIDE DEF v
<1>4. /\ b \in 1..Len(x) /\ x[b] = v[1] /\ RunEnd(x, b, Alnum) = b + Len(v) - 1
      /\ SubSeq(x, b, RunEnd(x, b, Alnum)) = v
  BY <1>1, <1>2, <1>3, RunRead
<1>5. x[b] \in Letters /\ x[b] \notin Digits
  BY <1>2, <1>4, Kinds
<1>6. From(x)[b] = <<Token("IDENTIFIER", v)>> \o From(x)[b + Len(v) - 1 + 1]
  BY <1>4, <1>5, StepIs
<1>7. b + Len(v) - 1 + 1 = b + Len(v)
  BY <1>1, LenProperties
<1>8. QED
  BY <1>1, <1>3, <1>6, <1>7 DEF IsRead

LEMMA StringRead ==
    ASSUME NEW x \in Seq(Characters), NEW b \in 1..Len(x) + 1, NEW t \in Tokens,
           Placed(x, b, t), t.type = "STRING"
    PROVE  IsRead(x, b, t)
<1> DEFINE v == t.value
           u == (<<Quote>> \o Escaped(v)) \o <<Quote>>
           n == Len(Escaped(v))
           s == read_string(x, b + 1)
<1>1. v \in Seq(Characters) /\ t = Token("STRING", v)
  BY DEF Tokens, Token
<1>2. Spelled(t) = u
  BY SpelledString
<1>3. Stands(x, b, u) /\ Behind(b, t) = b + Len(u)
  BY <1>2 DEF Placed, Behind
<1> HIDE DEF v
<1>4. /\ Len(u) = n + 2 /\ n \in Nat /\ b <= Len(x) /\ x[b] = Quote
      /\ s = [end |-> b + n + 1, value |-> v]
  BY <1>1, <1>3, LiteralRead
<1> HIDE DEF n, u, s
<1>5. s.end # 0 /\ s.end + 1 = Behind(b, t) /\ s.value = v /\ b \in 1..Len(x)
  <2>1. s.end = b + n + 1 /\ s.value = v
    BY <1>4
  <2>2. QED
    BY <1>3, <1>4, <2>1, LenProperties
<1>6. x[b] \notin Alnum
  BY <1>4, Kinds
<1>7. From(x)[b] = <<Token("STRING", s.value)>> \o From(x)[s.end + 1]
  BY <1>4, <1>5, <1>6, StepIs DEF s
<1>8. QED
  BY <1>1, <1>5, <1>7 DEF IsRead

LEMMA OperatorRead ==
    ASSUME NEW x \in Seq(Characters), NEW b \in 1..Len(x) + 1, NEW t \in Tokens,
           Placed(x, b, t), t.type = "OPERATOR"
    PROVE  IsRead(x, b, t)
<1> DEFINE v == t.value
<1>1. /\ v \in Seq(Characters) /\ t = Token("OPERATOR", v) /\ Spelled(t) = v
      /\ v \in OperatorValues
  BY DEF Tokens, Token, Spelled
<1>2. Stands(x, b, v) /\ Parted(x, b + Len(v)) /\ Behind(b, t) = b + Len(v)
  BY <1>1 DEF Placed, Behind
<1> HIDE DEF v
<1>3. /\ Len(v) \in {1, 2} /\ v[1] \in Operators
      /\ Len(v) = 2 => v[1] \in {"<", ">"} /\ v[2] = "="
  <2>1. \A c : Len(<<c>>) = 1 /\ <<c>>[1] = c
    OBVIOUS
  <2>2. \A c, d : Len(<<c, d>>) = 2 /\ <<c, d>>[1] = c /\ <<c, d>>[2] = d
    OBVIOUS
  <2>3. "<" \in Operators /\ ">" \in Operators
    BY DEF Operators
  <2>4. CASE \E c \in Operators : v = <<c>>
    BY <2>1, <2>4
  <2>5. CASE v \in {<<"<", "=">>, <<">", "=">>}
    BY <2>2, <2>3, <2>5
  <2>6. QED
    BY <1>1, <2>4, <2>5 DEF OperatorValues
<1>4. /\ b + Len(v) <= Len(x) + 1 /\ x[b] = v[1] /\ b \in 1..Len(x)
      /\ Len(v) = 2 => x[b + 1] = v[2]
  <2>1. b + Len(v) <= Len(x) + 1 /\ \A k \in 1..Len(v) : x[b + k - 1] = v[k]
    BY <1>2 DEF Stands
  <2>2. 1 \in 1..Len(v) /\ (Len(v) = 2 => 2 \in 1..Len(v)) /\ b + 1 - 1 = b /\ b + 2 - 1 = b + 1
    BY <1>3
  <2>3. QED
    BY <1>3, <2>1, <2>2, LenProperties
<1>5. OperatorEnd(x, b) = b + Len(v) - 1
  <2>1. CASE Len(v) = 2
    <3>1. b < Len(x) /\ x[b] \in {"<", ">"} /\ x[b + 1] = "="
      BY <1>3, <1>4, <2>1, LenProperties
    <3>2. OperatorEnd(x, b) = b + 1
      BY <3>1 DEF OperatorEnd
    <3>3. QED
      BY <2>1, <3>2
  <2>2. CASE Len(v) = 1
    <3>1. b + 1 <= Len(x) => ~(x[b + 1 - 1] \in {"<", ">"} /\ x[b + 1] = "=")
      BY <1>2, <2>2 DEF Parted
    <3>2. ~(x[b] \in {"<", ">"} /\ b < Len(x) /\ x[b + 1] = "=")
      <4>1. b + 1 - 1 = b /\ (b < Len(x) => b + 1 <= Len(x))
        BY LenProperties
      <4>2. QED
        BY <3>1, <4>1
    <3>3. OperatorEnd(x, b) = b
      BY <3>2 DEF OperatorEnd
    <3>4. QED
      BY <2>2, <3>3
  <2>3. QED
    BY <1>3, <2>1, <2>2
<1>6. SubSeq(x, b, OperatorEnd(x, b)) = v
  BY <1>1, <1>2, <1>5, StandingIs
<1>7. x[b] \notin Alnum \cup {Quote} /\ x[b] \in Operators
  BY <1>3, <1>4, Kinds
<1>8. From(x)[b] = <<Token("OPERATOR", v)>> \o From(x)[OperatorEnd(x, b) + 1]
  BY <1>4, <1>6, <1>7, StepIs
<1>9. OperatorEnd(x, b) + 1 = b + Len(v)
  BY <1>3, <1>5
<1>10. QED
  BY <1>1, <1>2, <1>8, <1>9 DEF IsRead

LEMMA StrayRead ==
    ASSUME NEW x \in Seq(Characters), NEW b \in 1..Len(x) + 1, NEW t \in Tokens,
           Placed(x, b, t), Legible(t), t.type = "STRAY", t # Token("STRAY", <<Quote>>)
    PROVE  From(x)[b] = TokenizerError
<1> DEFINE v == t.value
<1>1. v \in Seq(Characters) /\ t = Token("STRAY", v) /\ Spelled(t) = v
  BY DEF Tokens, Token, Spelled
<1>2. Len(v) = 1 /\ v[1] \notin Alnum \cup Operators \cup {Space}
  BY DEF Legible
<1>3. Stands(x, b, v)
  BY <1>1 DEF Placed
<1> HIDE DEF v
<1>4. v = <<v[1]>>
  BY <1>1, <1>2, OneOrTwo
<1>5. v[1] # Quote
  BY <1>1, <1>4
<1>6. b \in 1..Len(x) /\ x[b] = v[1]
  <2>1. b + 1 <= Len(x) + 1 /\ x[b + 1 - 1] = v[1]
    BY <1>2, <1>3 DEF Stands
  <2>2. b + 1 - 1 = b
    OBVIOUS
  <2>3. QED
    BY <2>1, <2>2, LenProperties
<1>7. QED
  BY <1>2, <1>5, <1>6, StepIs

\* The tokens that can be typed, and where one reaches: a space may precede it.
Words == {t \in Tokens : Legible(t)}
Spans(x, i, t, e) ==
    \E b \in {i, i + 1} :
        /\ b # i => i <= Len(x) /\ x[i] = Space
        /\ Placed(x, b, t) /\ e = Behind(b, t)

\* The words ts cover the text x, the k-th from at[k] on.
Laid(x, ts, at) ==
    /\ at \in [1..Len(ts) + 1 -> 1..Len(x) + 1]
    /\ at[1] = 1 /\ at[Len(ts) + 1] = Len(x) + 1
    /\ \A k \in 1..Len(ts) : Spans(x, at[k], ts[k], at[k + 1])

LEMMA WordsAreWritten ==
    ASSUME NEW t \in Words
    PROVE  Spelled(t) \in Seq(Characters) /\ Spelled(t) # << >>
<1>1. t \in Tokens /\ Legible(t) /\ Spelled(t) \in Seq(Characters)
  BY SpelledType DEF Words
<1>2. t.value \in Seq(Characters) /\ (t.type = "OPERATOR" => t.value \in OperatorValues)
  BY <1>1 DEF Tokens
<1>3. CASE t.type = "STRING"
  <2> DEFINE E == Escaped(t.value)
             q == <<Quote>>
  <2>1. Spelled(t) = (q \o E) \o q
    BY <1>1, <1>3, SpelledString
  <2>2. E \in Seq(Characters) /\ q \in Seq(Characters) /\ Len(q) = 1
    BY <1>2, EscapedGrows, CharactersAssumption
  <2> HIDE DEF E, q
  <2>3. q \o E \in Seq(Characters) /\ Len((q \o E) \o q) = Len(q \o E) + Len(q)
    BY <2>2, ConcatProperties
  <2>4. Len(q \o E) \in Nat
    BY <2>3, LenProperties
  <2>5. Len(Spelled(t)) >= 1
    BY <2>1, <2>2, <2>3, <2>4
  <2>6. QED
    BY <1>1, <2>5, EmptySeq
<1>4. CASE t.type # "STRING"
  <2>1. Spelled(t) = t.value
    BY <1>4 DEF Spelled
  <2>2. \A c, d : <<c>> # << >> /\ <<c, d>> # << >>
    OBVIOUS
  <2>3. t.type = "OPERATOR" => t.value # << >>
    BY <1>2, <2>2 DEF OperatorValues
  <2>4. Len(t.value) = 1 => t.value # << >>
    BY <1>2, EmptySeq
  <2>5. QED
    BY <1>1, <1>4, <2>1, <2>3, <2>4 DEF Legible
<1>5. QED
  BY <1>3, <1>4

\* What Joined puts where.
Glued(x, u) ==
    \/ x[Len(x)] \in Alnum /\ u[1] \in Alnum
    \/ x[Len(x)] \in {"<", ">"} /\ u[1] = "="
Extends(x, u, y, d) ==
    /\ Len(y) = Len(x) + d + Len(u)
    /\ \A i \in 1..Len(x) : y[i] = x[i]
    /\ \A k \in 1..Len(u) : y[Len(x) + d + k] = u[k]
    /\ d = 1 => y[Len(x) + 1] = Space
    /\ d = 0 => x = << >> \/ ~Glued(x, u)

LEMMA JoinedIs ==
    ASSUME NEW x \in Seq(Characters), NEW u \in Seq(Characters), u # << >>
    PROVE  \E d \in {0, 1} : Extends(x, u, Joined(x, u), d)
<1> DEFINE m == Len(x)
           n == Len(u)
           sp == <<Space>>
<1>1. m \in Nat /\ n \in Nat /\ n >= 1
  BY LenProperties, EmptySeq
<1>2. sp \in Seq(Characters) /\ Len(sp) = 1 /\ sp[1] = Space
  BY CharactersAssumption
<1>3. Last(x) = x[Len(x)] /\ Head(u) = u[1]
  BY DEF Last
<1>4. Joined(x, u) = IF x # << >> /\ Glued(x, u) THEN (x \o sp) \o u ELSE x \o u
  BY <1>3 DEF Joined, Glued
<1>5. CASE ~(x # << >> /\ Glued(x, u))
  <2> DEFINE y == x \o u
  <2>1. Len(y) = m + n /\ (\A i \in 1..m : y[i] = x[i]) /\ (\A k \in 1..n : y[m + k] = u[k])
    OBVIOUS
  <2>2. m + 0 = m /\ \A k : m + 0 + k = m + k
    BY <1>1
  <2> HIDE DEF y
  <2>3. Extends(x, u, y, 0)
    BY <1>1, <1>5, <2>1, <2>2 DEF Extends
  <2>4. QED
    BY <1>4, <1>5, <2>3 DEF y
<1>6. CASE x # << >> /\ Glued(x, u)
  <2> DEFINE w == x \o sp
             y == w \o u
  <2> HIDE DEF sp
  <2>0. /\ w \in Seq(Characters) /\ Len(w) = m + Len(sp)
        /\ \A i \in 1..m : w[i] = x[i]
        /\ \A k \in 1..Len(sp) : w[m + k] = sp[k]
    <3>1. \A v \in Seq(Characters) :
            /\ x \o v \in Seq(Characters) /\ Len(x \o v) = Len(x) + Len(v)
            /\ \A i \in 1..Len(x) : (x \o v)[i] = x[i]
            /\ \A k \in 1..Len(v) : (x \o v)[Len(x) + k] = v[k]
      OBVIOUS
    <3>2. QED
      BY <1>2, <3>1
  <2>1. w \in Seq(Characters) /\ Len(w) = m + 1 /\ \A i \in 1..m : w[i] = x[i]
    BY <1>2, <2>0
  <2>2. w[m + 1] = Space
    <3>1. 1 \in 1..Len(sp)
      BY <1>2
    <3>2. QED
      BY <1>2, <2>0, <3>1
  <2> HIDE DEF w
  <2>3. Len(y) = Len(w) + n /\ (\A i \in 1..Len(w) : y[i] = w[i])
        /\ \A k \in 1..n : y[Len(w) + k] = u[k]
    BY <2>1
  <2> HIDE DEF y, m, n
  <2>4. /\ Len(y) = m + 1 + n
        /\ \A i \in 1..m : y[i] = x[i]
        /\ y[m + 1] = Space
        /\ \A k \in 1..n : y[m + 1 + k] = u[k]
    <3>1. m + 1 \in 1..Len(w) /\ \A i \in 1..m : i \in 1..Len(w)
      BY <1>1, <2>1
    <3>2. QED
      BY <2>1, <2>2, <2>3, <3>1
  <2>5. Extends(x, u, y, 1)
    BY <2>4 DEF Extends, m, n
  <2>6. QED
    BY <1>4, <1>6, <2>5 DEF y, w
<1>7. QED
  BY <1>5, <1>6

\* What was laid stays, because what is typed next is parted from it.
LEMMA SpansKept ==
    ASSUME NEW x \in Seq(Characters), NEW u \in Seq(Characters), NEW y \in Seq(Characters),
           u # << >>, NEW d \in {0, 1}, Extends(x, u, y, d),
           NEW i \in 1..Len(x) + 1, NEW t \in Words, NEW e, Spans(x, i, t, e)
    PROVE  Spans(y, i, t, e)
<1> DEFINE m == Len(x)
           s == Spelled(t)
           l == Len(s)
<1>1. m \in Nat /\ Len(u) \in Nat /\ Len(u) >= 1
  BY LenProperties, EmptySeq
<1>2. s \in Seq(Characters) /\ l \in Nat /\ l >= 1
  <2>1. s \in Seq(Characters) /\ s # << >>
    BY WordsAreWritten
  <2> HIDE DEF s
  <2>2. QED
    BY <2>1, LenProperties, EmptySeq
<1>3. PICK b \in {i, i + 1} :
        /\ b # i => i <= Len(x) /\ x[i] = Space
        /\ Placed(x, b, t) /\ e = Behind(b, t)
  BY DEF Spans
<1>4. Stands(x, b, s) /\ Parted(x, e) /\ e = b + l /\ b \in Nat /\ b >= 1
  BY <1>1, <1>3 DEF Placed, Behind
<1>5. e <= m + 1 /\ \A k \in 1..l : x[b + k - 1] = s[k]
  BY <1>4 DEF Stands
<1>6. Len(y) = m + d + Len(u) /\ \A j \in 1..m : y[j] = x[j]
  BY DEF Extends
<1> HIDE DEF s, l, m
<1>7. Stands(y, b, s)
  <2>1. b + l <= Len(y) + 1
    BY <1>1, <1>4, <1>5, <1>6
  <2>2. \A k \in 1..l : b + k - 1 \in 1..m
    BY <1>1, <1>2, <1>4, <1>5
  <2>3. \A k \in 1..l : y[b + k - 1] = s[k]
    BY <1>5, <1>6, <2>2
  <2>4. QED
    BY <2>1, <2>3 DEF Stands, l
<1>8. Parted(y, e)
  <2>1. e - 1 \in 1..m /\ y[e - 1] = x[e - 1]
    <3>1. e - 1 \in 1..m
      BY <1>1, <1>2, <1>4, <1>5
    <3>2. QED
      BY <1>6, <3>1
  <2>2. CASE e <= m
    <3>1. e \in 1..m
      BY <1>1, <1>2, <1>4, <2>2
    <3>2. y[e] = x[e]
      BY <1>6, <3>1
    <3>3. QED
      BY <1>4, <2>1, <2>2, <3>2 DEF Parted, m
  <2>3. CASE e = m + 1 /\ d = 1
    <3>1. y[e] = Space
      BY <2>3 DEF Extends, m
    <3>2. y[e] \notin Alnum /\ y[e] # "="
      BY <3>1, Kinds DEF Operators
    <3>3. QED
      BY <3>2 DEF Parted
  <2>4. CASE e = m + 1 /\ d = 0
    <3>1. y[e] = u[1] /\ e - 1 = m
      <4>1. 1 \in 1..Len(u) /\ m + d + 1 = e
        BY <1>1, <2>4
      <4>2. y[m + d + 1] = u[1]
        BY <4>1 DEF Extends, m
      <4>3. QED
        BY <1>1, <2>4, <4>1, <4>2
    <3>2. x # << >> /\ y[e - 1] = x[m]
      <4>1. m >= 1
        BY <1>1, <2>1
      <4>2. QED
        BY <2>1, <3>1, <4>1, EmptySeq DEF m
    <3>3. ~Glued(x, u)
      BY <2>4, <3>2 DEF Extends
    <3>4. QED
      BY <3>1, <3>2, <3>3 DEF Parted, Glued, m
  <2>5. QED
    BY <1>1, <1>4, <1>5, <2>2, <2>3, <2>4
<1>9. b # i => i <= Len(y) /\ y[i] = Space
  <2> SUFFICES ASSUME b # i PROVE i <= Len(y) /\ y[i] = Space
    OBVIOUS
  <2>1. i \in 1..m /\ x[i] = Space
    BY <1>1, <1>3 DEF m
  <2>2. QED
    BY <1>1, <1>6, <2>1
<1>10. Placed(y, b, t)
  BY <1>3, <1>7, <1>8 DEF Placed, s
<1>11. QED
  BY <1>3, <1>9, <1>10 DEF Spans

\* And what is typed reaches from there to the end.
LEMMA SpansNext ==
    ASSUME NEW x \in Seq(Characters), NEW t \in Words, NEW y \in Seq(Characters),
           NEW d \in {0, 1}, Extends(x, Spelled(t), y, d)
    PROVE  Spans(y, Len(x) + 1, t, Len(y) + 1)
<1> DEFINE m == Len(x)
           s == Spelled(t)
           l == Len(s)
           b == m + 1 + d
<1>1. m \in Nat /\ l \in Nat
  BY WordsAreWritten, LenProperties
<1>2. /\ Len(y) = m + d + l
      /\ \A k \in 1..l : y[m + d + k] = s[k]
      /\ d = 1 => y[m + 1] = Space
  BY DEF Extends
<1> HIDE DEF s, l, m
<1>3. b + l = Len(y) + 1 /\ b \in {m + 1, m + 1 + 1} /\ (b # m + 1 => d = 1 /\ m + 1 <= Len(y))
  BY <1>1, <1>2
<1>4. \A k \in 1..l : y[b + k - 1] = s[k]
  <2>1. \A k \in 1..l : b + k - 1 = m + d + k
    BY <1>1
  <2>2. QED
    BY <1>2, <2>1
<1>5. Stands(y, b, s)
  BY <1>3, <1>4, LenProperties DEF Stands, l
<1>6. Parted(y, b + l)
  BY <1>3, LenProperties DEF Parted
<1>7. Placed(y, b, t) /\ Behind(b, t) = Len(y) + 1
  BY <1>3, <1>5, <1>6 DEF Placed, Behind, s, l
<1> HIDE DEF b
<1>8. QED
  BY <1>2, <1>3, <1>7 DEF Spans, m

LEMMA LaidGrows ==
    ASSUME NEW x \in Seq(Characters), NEW ts \in Seq(Words), NEW t \in Words,
           \E at : Laid(x, ts, at)
    PROVE  \E at : Laid(Joined(x, Spelled(t)), Append(ts, t), at)
<1> DEFINE n == Len(ts)
           y == Joined(x, Spelled(t))
           us == Append(ts, t)
<1>1. PICK at : Laid(x, ts, at)
  OBVIOUS
<1>2. Spelled(t) \in Seq(Characters) /\ Spelled(t) # << >>
  BY WordsAreWritten
<1>3. y \in Seq(Characters)
  BY <1>2, JoinedType
<1>4. PICK d \in {0, 1} : Extends(x, Spelled(t), y, d)
  BY <1>2, JoinedIs
<1>5. n \in Nat /\ Len(x) \in Nat /\ Len(y) \in Nat /\ Len(x) <= Len(y)
  <2>1. Len(Spelled(t)) \in Nat /\ n \in Nat /\ Len(x) \in Nat /\ Len(y) \in Nat
    BY <1>2, <1>3, LenProperties
  <2>2. Len(y) = Len(x) + d + Len(Spelled(t))
    BY <1>4 DEF Extends
  <2> HIDE DEF y
  <2>3. QED
    BY <2>1, <2>2
<1>6. Len(us) = n + 1 /\ us[n + 1] = t /\ \A k \in 1..n : us[k] = ts[k] /\ ts[k] \in Words
  BY AppendProperties, ElementOfSeq
<1> DEFINE new == [k \in 1..n + 2 |-> IF k <= n + 1 THEN at[k] ELSE Len(y) + 1]
<1>7. /\ at \in [1..n + 1 -> 1..Len(x) + 1] /\ at[1] = 1 /\ at[n + 1] = Len(x) + 1
      /\ \A k \in 1..n : Spans(x, at[k], ts[k], at[k + 1])
  BY <1>1 DEF Laid
<1> HIDE DEF n, y, us
<1>8. new \in [1..n + 2 -> 1..Len(y) + 1]
  <2>1. \A k \in 1..n + 2 : k <= n + 1 => k \in 1..n + 1
    BY <1>5
  <2>2. \A k \in 1..n + 1 : at[k] \in 1..Len(y) + 1
    BY <1>5, <1>7
  <2>3. Len(y) + 1 \in 1..Len(y) + 1
    BY <1>5
  <2>4. QED
    BY <2>1, <2>2, <2>3
<1>9. (\A k \in 1..n + 1 : new[k] = at[k]) /\ new[n + 2] = Len(y) + 1
  <2>1. \A k \in 1..n + 1 : k \in 1..n + 2 /\ k <= n + 1
    BY <1>5
  <2>2. n + 2 \in 1..n + 2 /\ ~(n + 2 <= n + 1)
    BY <1>5
  <2>3. QED
    BY <2>1, <2>2
<1> HIDE DEF new
<1>10. ASSUME NEW k \in 1..n PROVE Spans(y, new[k], us[k], new[k + 1])
  <2>1. k \in 1..n + 1 /\ k + 1 \in 1..n + 1
    BY <1>5
  <2>2. Spans(x, at[k], ts[k], at[k + 1]) /\ at[k] \in 1..Len(x) + 1 /\ ts[k] \in Words
    BY <1>6, <1>7, <2>1
  <2>3. Spans(y, at[k], ts[k], at[k + 1])
    BY <1>2, <1>3, <1>4, <2>2, SpansKept
  <2>4. QED
    BY <1>6, <1>9, <2>1, <2>3
<1>11. Spans(y, new[n + 1], us[n + 1], new[n + 1 + 1])
  <2>1. n + 1 \in 1..n + 1 /\ n + 1 + 1 = n + 2
    BY <1>5
  <2>2. Spans(y, Len(x) + 1, t, Len(y) + 1)
    BY <1>3, <1>4, SpansNext
  <2>3. QED
    BY <1>6, <1>7, <1>9, <2>1, <2>2
<1>12. \A k \in 1..n + 1 : Spans(y, new[k], us[k], new[k + 1])
  <2>1. \A k \in 1..n + 1 : k \in 1..n \/ k = n + 1
    BY <1>5
  <2>2. QED
    BY <1>10, <1>11, <2>1
<1>13. new[1] = 1
  <2>1. 1 \in 1..n + 1
    BY <1>5
  <2>2. QED
    BY <1>7, <1>9, <2>1
<1>14. Laid(y, us, new)
  <2>1. Len(us) + 1 = n + 2 /\ Len(us) = n + 1
    BY <1>5, <1>6
  <2>2. QED
    BY <1>8, <1>9, <1>12, <1>13, <2>1 DEF Laid
<1>15. QED
  BY <1>14 DEF y, us

\* A word is read where it is laid.
StrayQuote == Token("STRAY", <<Quote>>)
Stops(t) == TooBig(t) \/ t.type = "STRAY"

LEMMA SpanRead ==
    ASSUME NEW x \in Seq(Characters), NEW i \in 1..Len(x) + 1, NEW t \in Words, t # StrayQuote,
           NEW e, Spans(x, i, t, e)
    PROVE  /\ t.type = "STRAY" => From(x)[i] = TokenizerError
           /\ TooBig(t) => From(x)[i] = <<Token("INTEGER", Decimal(MaxInt))>>
           /\ ~Stops(t) => From(x)[i] = <<t>> \o From(x)[e]
<1>1. PICK b \in {i, i + 1} :
        /\ b # i => i <= Len(x) /\ x[i] = Space
        /\ Placed(x, b, t) /\ e = Behind(b, t)
  BY DEF Spans
<1>2. t \in Tokens /\ Legible(t) /\ Len(x) \in Nat
  BY LenProperties DEF Words
<1>3. b \in 1..Len(x) + 1
  BY <1>1, <1>2
<1>4. From(x)[i] = From(x)[b]
  <2>1. CASE b = i
    BY <2>1
  <2>2. CASE b # i
    <3>1. i \in 1..Len(x) /\ x[i] = Space /\ b = i + 1
      BY <1>1, <1>2, <2>2
    <3>2. x[i] \notin Alnum \cup {Quote} \cup Operators
      BY <3>1, Kinds
    <3>3. QED
      BY <3>1, <3>2, StepIs
  <2>3. QED
    BY <2>1, <2>2
<1>5. t.type \in {"INTEGER", "IDENTIFIER", "STRING", "OPERATOR", "STRAY"}
  BY <1>2 DEF Legible
<1>6. TooBig(t) => t.type = "INTEGER"
  BY DEF TooBig
<1>7. CASE t.type = "INTEGER"
  BY <1>1, <1>2, <1>3, <1>4, <1>7, NumberRead DEF IsRead, Stops
<1>8. CASE t.type = "IDENTIFIER"
  BY <1>1, <1>2, <1>3, <1>4, <1>6, <1>8, NameRead DEF IsRead
<1>9. CASE t.type = "STRING"
  BY <1>1, <1>2, <1>3, <1>4, <1>6, <1>9, StringRead DEF IsRead
<1>10. CASE t.type = "OPERATOR"
  BY <1>1, <1>2, <1>3, <1>4, <1>6, <1>10, OperatorRead DEF IsRead
<1>11. CASE t.type = "STRAY"
  BY <1>1, <1>2, <1>3, <1>4, <1>6, <1>11, StrayRead DEF Stops, StrayQuote
<1>12. QED
  BY <1>5, <1>7, <1>8, <1>9, <1>10, <1>11

\* The words before the first that stops the reader are read one after another.
LEMMA ReadUpTo ==
    ASSUME NEW x \in Seq(Characters), NEW ts \in Seq(Words), NEW at, Laid(x, ts, at),
           StrayQuote \notin ToSet(ts), NEW m \in 1..Len(ts) + 1,
           \A k \in 1..m - 1 : ~Stops(ts[k])
    PROVE  get_tokens(x) = SubSeq(ts, 1, m - 1) \o From(x)[at[m]]
<1> DEFINE n == Len(ts)
           F == From(x)
           Bad == {k \in 1..m : get_tokens(x) # SubSeq(ts, 1, k - 1) \o F[at[k]]}
<1>1. n \in Nat /\ m \in Nat /\ m <= n + 1 /\ Len(x) \in Nat
  BY LenProperties
<1>2. /\ at \in [1..n + 1 -> 1..Len(x) + 1] /\ at[1] = 1
      /\ \A k \in 1..n : Spans(x, at[k], ts[k], at[k + 1])
  BY DEF Laid
<1>3. get_tokens(x) = F[1] /\ \A i \in 1..Len(x) + 1 : F[i] \in Seq(Tokens)
  BY TokensUnfold
<1>4. \A k \in 1..n : ts[k] \in Words /\ ts[k] # StrayQuote
  <2>1. \A k \in 1..n : ts[k] \in Words
    BY ElementOfSeq
  <2>2. \A k \in 1..n : ts[k] \in ToSet(ts)
    BY DEF ToSet
  <2>3. QED
    BY <2>1, <2>2
<1>5. ts \in Seq(Tokens)
  BY SeqMonotonic DEF Words
<1> HIDE DEF n, F
<1>6. SUFFICES ASSUME Bad # {} PROVE FALSE
  <2>1. m \in 1..m
    BY <1>1
  <2>2. QED
    BY <2>1 DEF F
<1>7. PICK k \in Bad : \A j \in Bad : k <= j
  <2>1. Bad \subseteq Nat
    OBVIOUS
  <2> HIDE DEF Bad
  <2>2. QED
    BY <1>6, <2>1, Least
<1>8. k \in 1..m /\ k \in 1..n + 1 /\ get_tokens(x) # SubSeq(ts, 1, k - 1) \o F[at[k]]
  <2>1. k \in 1..m /\ get_tokens(x) # SubSeq(ts, 1, k - 1) \o F[at[k]]
    OBVIOUS
  <2> HIDE DEF Bad
  <2>2. k \in 1..n + 1
    BY <1>1, <2>1
  <2>3. QED
    BY <2>1, <2>2
<1>9. k # 1
  <2> SUFFICES ASSUME k = 1 PROVE FALSE
    OBVIOUS
  <2>1. SubSeq(ts, 1, 0) = << >>
    BY <1>5, SubSeqEmpty
  <2>2. F[1] \in Seq(Tokens) /\ k - 1 = 0
    <3>1. 1 \in 1..Len(x) + 1
      BY <1>1
    <3>2. QED
      BY <1>3, <3>1
  <2>3. << >> \o F[1] = F[1]
    BY <2>2
  <2>4. QED
    BY <1>2, <1>3, <1>8, <2>1, <2>2, <2>3
<1> DEFINE j == k - 1
<1>10. j \in 1..m /\ j \in 1..n /\ j < k /\ j + 1 = k /\ j \in 1..m - 1
  BY <1>1, <1>8, <1>9
<1> HIDE DEF j
<1>11. get_tokens(x) = SubSeq(ts, 1, j - 1) \o F[at[j]]
  <2>1. j \notin Bad
    <3>1. k \in Nat /\ j \in Nat
      BY <1>8, <1>10
    <3> HIDE DEF Bad
    <3>2. QED
      BY <1>7, <1>10, <3>1
  <2>2. QED
    BY <1>10, <2>1
<1>12. F[at[j]] = <<ts[j]>> \o F[at[k]]
  <2>1. Spans(x, at[j], ts[j], at[k]) /\ at[j] \in 1..Len(x) + 1
    <3>1. j \in 1..n + 1
      BY <1>1, <1>10
    <3>2. QED
      BY <1>2, <1>10, <3>1
  <2>2. ~Stops(ts[j]) /\ ts[j] \in Words /\ ts[j] # StrayQuote
    BY <1>4, <1>10
  <2>3. QED
    BY <2>1, <2>2, SpanRead DEF F
<1>13. SubSeq(ts, 1, j) = SubSeq(ts, 1, j - 1) \o <<ts[j]>> /\ SubSeq(ts, 1, j - 1) \in Seq(Tokens)
  <2>1. j \in 1..Len(ts)
    BY <1>10 DEF n
  <2>2. QED
    BY <1>5, <2>1, ReadOne
<1>14. F[at[k]] \in Seq(Tokens)
  BY <1>2, <1>3, <1>8
<1> DEFINE p == SubSeq(ts, 1, j - 1)
           one == <<ts[j]>>
           r == F[at[k]]
<1>15. one \in Seq(Tokens)
  BY <1>4, <1>10 DEF Words
<1> HIDE DEF p, one, r
<1>16. p \o (one \o r) = (p \o one) \o r
  <2>1. \A f, g, h \in Seq(Tokens) : f \o (g \o h) = (f \o g) \o h
    OBVIOUS
  <2>2. QED
    BY <1>13, <1>14, <1>15, <2>1 DEF p, r
<1>17. get_tokens(x) = SubSeq(ts, 1, j) \o F[at[k]]
  BY <1>11, <1>12, <1>13, <1>16 DEF p, one, r
<1>18. QED
  BY <1>8, <1>17 DEF j

\* All of them, or those before the first that stops the reader.
LEMMA WordsRead ==
    ASSUME NEW x \in Seq(Characters), NEW ts \in Seq(Words), \E at : Laid(x, ts, at),
           StrayQuote \notin ToSet(ts)
    PROVE  /\ (\A k \in 1..Len(ts) : ~Stops(ts[k])) => get_tokens(x) = ts
           /\ \A m \in 1..Len(ts) :
                Stops(ts[m]) /\ (\A k \in 1..m - 1 : ~Stops(ts[k])) =>
                  /\ ts[m].type = "STRAY" =>
                       get_tokens(x) = SubSeq(ts, 1, m - 1) \o TokenizerError
                  /\ ts[m].type # "STRAY" =>
                       get_tokens(x) = SubSeq(ts, 1, m - 1) \o
                                         <<Token("INTEGER", Decimal(MaxInt))>>
<1> DEFINE n == Len(ts)
<1>1. PICK at : Laid(x, ts, at)
  OBVIOUS
<1>2. n \in Nat /\ Len(x) \in Nat
  BY LenProperties
<1>3. /\ at \in [1..n + 1 -> 1..Len(x) + 1] /\ at[n + 1] = Len(x) + 1
      /\ \A k \in 1..n : Spans(x, at[k], ts[k], at[k + 1])
  BY <1>1 DEF Laid
<1>4. ASSUME \A k \in 1..n : ~Stops(ts[k]) PROVE get_tokens(x) = ts
  <2>1. n + 1 \in 1..Len(ts) + 1 /\ n + 1 - 1 = n
    BY <1>2
  <2>2. get_tokens(x) = SubSeq(ts, 1, n) \o From(x)[at[n + 1]]
    <3> DEFINE m == n + 1
    <3>1. \A k \in 1..m - 1 : ~Stops(ts[k])
      BY <1>4, <2>1
    <3>2. m \in 1..Len(ts) + 1 /\ m - 1 = n
      BY <2>1
    <3> HIDE DEF m, n
    <3>3. get_tokens(x) = SubSeq(ts, 1, m - 1) \o From(x)[at[m]]
      BY <1>1, <3>1, <3>2, ReadUpTo
    <3>4. QED
      BY <3>2, <3>3 DEF m
  <2>3. From(x)[Len(x) + 1] = << >>
    <3> DEFINE f == From(x)
    <3>1. f = FromStep(x, f)
      BY TokensUnfold
    <3>2. Len(x) + 1 \in 1..Len(x) + 1 /\ Len(x) + 1 > Len(x)
      BY <1>2
    <3> HIDE DEF f
    <3>3. FromStep(x, f)[Len(x) + 1] = << >>
      BY <3>2 DEF FromStep
    <3>4. QED
      BY <3>1, <3>3 DEF f
  <2>4. SubSeq(ts, 1, n) = ts /\ ts \o << >> = ts
    <3>1. ts \o << >> = ts
      BY ConcatEmptySeq
    <3>2. SubSeq(ts, 1, n) = ts
      BY SubSeqFull
    <3>3. QED
      BY <3>1, <3>2
  <2>5. QED
    BY <1>3, <2>2, <2>3, <2>4
<1>5. ASSUME NEW m \in 1..n, Stops(ts[m]), \A k \in 1..m - 1 : ~Stops(ts[k])
      PROVE  /\ ts[m].type = "STRAY" => get_tokens(x) = SubSeq(ts, 1, m - 1) \o TokenizerError
             /\ ts[m].type # "STRAY" =>
                  get_tokens(x) = SubSeq(ts, 1, m - 1) \o <<Token("INTEGER", Decimal(MaxInt))>>
  <2>1. m \in 1..Len(ts) + 1
    BY <1>2
  <2>2. get_tokens(x) = SubSeq(ts, 1, m - 1) \o From(x)[at[m]]
    BY <1>1, <1>5, <2>1, ReadUpTo
  <2>3. ts[m] \in Words /\ ts[m] # StrayQuote
    <3>1. ts[m] \in Words
      BY ElementOfSeq
    <3>2. ts[m] \in ToSet(ts)
      BY DEF ToSet
    <3>3. QED
      BY <3>1, <3>2
  <2>4. at[m] \in 1..Len(x) + 1 /\ Spans(x, at[m], ts[m], at[m + 1])
    BY <1>3, <2>1
  <2>5. /\ ts[m].type = "STRAY" => From(x)[at[m]] = TokenizerError
        /\ TooBig(ts[m]) => From(x)[at[m]] = <<Token("INTEGER", Decimal(MaxInt))>>
    <3> HIDE DEF n
    <3>1. QED
      BY <2>3, <2>4, SpanRead
  <2>6. QED
    BY <1>5, <2>2, <2>5 DEF Stops
<1>6. QED
  BY <1>4, <1>5

\* While it is typed, the text is made of the words meant.
Written == typed \in Seq(Alphabet) /\ \E at : Laid(text, typed, at)
WrittenOrRead == (phase = "typing" => Written) /\ ReadsBack

LEMMA AlphabetOfWords == Alphabet \subseteq Words
BY AlphabetAssumption, LegibleAssumption DEF Words

LEMMA ReadsSubmit ==
    ASSUME Inv, phase = "typing", Written, Submit
    PROVE  ReadsBack'
<1> DEFINE ts == typed
           stop == {i \in 1..Len(ts) : TooBig(ts[i]) \/ ts[i].type = "STRAY"}
           i == CHOOSE i \in stop : \A j \in stop : i <= j
           got == get_tokens(text)
           max == <<Token("INTEGER", Decimal(MaxInt))>>
<1>1. text \in Seq(Characters) /\ ts \in Seq(Words) /\ Len(ts) \in Nat
  <2>1. ts \in Seq(Words)
    BY AlphabetOfWords, SeqMonotonic DEF Written
  <2>2. QED
    BY <2>1, LenProperties DEF Inv, TypeOK
<1>2. /\ typed' = typed
      /\ Failed(got) => phase' = "refused" /\ tokens' = << >>
      /\ ~Failed(got) => phase' = "parsing" /\ tokens' = got
  BY DEF Submit
<1> HIDE DEF got
<1>3. SUFFICES ASSUME StrayQuote \notin ToSet(ts)
      PROVE  IF stop = {} THEN tokens' = ts
             ELSE IF ts[i].type = "STRAY" THEN phase' = "refused"
             ELSE tokens' = SubSeq(ts, 1, i - 1) \o max
  BY <1>2 DEF ReadsBack, StrayQuote
<1>4. Written
  OBVIOUS
<1>5. /\ (\A k \in 1..Len(ts) : ~Stops(ts[k])) => got = ts
      /\ \A m \in 1..Len(ts) :
           Stops(ts[m]) /\ (\A k \in 1..m - 1 : ~Stops(ts[k])) =>
             /\ ts[m].type = "STRAY" => got = SubSeq(ts, 1, m - 1) \o TokenizerError
             /\ ts[m].type # "STRAY" => got = SubSeq(ts, 1, m - 1) \o max
  BY <1>1, <1>3, <1>4, WordsRead DEF Written, got
<1>6. \A k \in 1..Len(ts) : k \in stop <=> Stops(ts[k])
  BY DEF Stops
<1>7. \A m \in 1..Len(ts) : SubSeq(ts, 1, m - 1) \in Seq(Words)
  BY <1>1, ReadOne
<1>8. \A s \in Seq(Words) : \A t : s \o <<t>> # << >> /\ Last(s \o <<t>>) = t
  <2> SUFFICES ASSUME NEW s \in Seq(Words), NEW t PROVE s \o <<t>> # << >> /\ Last(s \o <<t>>) = t
    OBVIOUS
  <2> DEFINE S == Words \cup {t}
             w == Append(s, t)
  <2>1. s \in Seq(S) /\ t \in S
    BY SeqMonotonic
  <2>2. w = s \o <<t>>
    <3> HIDE DEF S
    <3>1. QED
      BY <2>1, AppendIsConcat
  <2>3. w # << >> /\ Len(w) = Len(s) + 1 /\ w[Len(s) + 1] = t
    <3> HIDE DEF S
    <3>1. QED
      BY <2>1, AppendProperties
  <2> HIDE DEF w
  <2>4. QED
    BY <2>2, <2>3 DEF Last
<1>9. CASE stop = {}
  <2>1. got = ts
    BY <1>5, <1>6, <1>9
  <2>2. ~Failed(got)
    <3> SUFFICES ASSUME ts # << >> PROVE Last(ts) # Last(TokenizerError)
      BY <2>1 DEF Failed
    <3>1. Last(ts) \in Words
      BY <1>1, TopOfStack
    <3>2. Last(ts).type # "error"
      BY <3>1 DEF Words, Legible
    <3>3. Last(TokenizerError).type = "error"
      BY DEF Last, TokenizerError, Token
    <3>4. QED
      BY <3>2, <3>3
  <2>3. QED
    BY <1>2, <1>9, <2>1, <2>2
<1>10. CASE stop # {}
  <2>1. i \in stop /\ \A j \in stop : i <= j
    <3>1. \E l \in stop : \A j \in stop : l <= j
      <4>1. stop \subseteq Nat
        BY <1>1
      <4> HIDE DEF stop
      <4>2. QED
        BY <1>10, <4>1, Least
    <3> HIDE DEF stop
    <3>2. QED
      BY <3>1
  <2> HIDE DEF i
  <2>2. i \in 1..Len(ts) /\ Stops(ts[i])
    BY <1>6, <2>1
  <2>3. \A k \in 1..i - 1 : ~Stops(ts[k])
    <3> SUFFICES ASSUME NEW k \in 1..i - 1, Stops(ts[k]) PROVE FALSE
      OBVIOUS
    <3>1. k \in 1..Len(ts) /\ i \in Nat /\ k \in Nat /\ k < i
      BY <1>1, <2>2
    <3>2. i <= k
      <4> HIDE DEF stop
      <4>1. QED
        BY <1>6, <2>1, <3>1
    <3>3. QED
      BY <3>1, <3>2
  <2>4. /\ ts[i].type = "STRAY" => got = SubSeq(ts, 1, i - 1) \o TokenizerError
        /\ ts[i].type # "STRAY" => got = SubSeq(ts, 1, i - 1) \o max
    BY <1>5, <2>2, <2>3
  <2> DEFINE p == SubSeq(ts, 1, i - 1)
  <2>5. p \in Seq(Words)
    BY <1>7, <2>2
  <2> HIDE DEF p
  <2>6. CASE ts[i].type = "STRAY"
    <3>1. got = p \o TokenizerError
      BY <2>4, <2>6 DEF p
    <3>2. got # << >> /\ Last(got) = Token("error", << >>)
      BY <1>8, <2>5, <3>1 DEF TokenizerError
    <3>3. Last(TokenizerError) = Token("error", << >>)
      BY DEF Last, TokenizerError
    <3>4. Failed(got)
      BY <3>2, <3>3 DEF Failed
    <3> HIDE DEF stop
    <3>5. QED
      BY <1>2, <1>10, <2>6, <3>4
  <2>7. CASE ts[i].type # "STRAY"
    <3>1. got = p \o max
      BY <2>4, <2>7 DEF p
    <3>2. Last(got) = Token("INTEGER", Decimal(MaxInt))
      BY <1>8, <2>5, <3>1
    <3>3. Last(TokenizerError) = Token("error", << >>)
      BY DEF Last, TokenizerError
    <3>4. Token("INTEGER", Decimal(MaxInt)) # Token("error", << >>)
      BY DEF Token
    <3>5. ~Failed(got)
      BY <3>2, <3>3, <3>4 DEF Failed
    <3> HIDE DEF stop, max
    <3>6. QED
      BY <1>2, <1>10, <2>7, <3>1, <3>5 DEF p
  <2>8. QED
    BY <2>6, <2>7
<1>11. QED
  <2> HIDE DEF stop, i, max
  <2>1. QED
    BY <1>9, <1>10

LEMMA ReadsNext == Inv /\ WrittenOrRead /\ [Next]_vars => WrittenOrRead'
<1> SUFFICES ASSUME Inv, WrittenOrRead, [Next]_vars PROVE WrittenOrRead'
  OBVIOUS
<1>1. ASSUME NEW t \in Alphabet, Type(t) PROVE WrittenOrRead'
  <2>1. /\ phase = "typing" /\ phase' = "typing"
        /\ typed' = Append(typed, t) /\ text' = Joined(text, Spelled(t))
    BY <1>1 DEF Type
  <2>2. typed \in Seq(Alphabet) /\ \E at : Laid(text, typed, at)
    BY <2>1 DEF WrittenOrRead, Written
  <2>3. typed' \in Seq(Alphabet)
    BY <2>1, <2>2, AppendProperties
  <2>4. typed \in Seq(Words) /\ t \in Words /\ text \in Seq(Characters)
    BY <2>2, AlphabetOfWords, SeqMonotonic DEF Inv, TypeOK
  <2>5. \E at : Laid(Joined(text, Spelled(t)), Append(typed, t), at)
    BY <2>2, <2>4, LaidGrows
  <2>6. QED
    BY <2>1, <2>3, <2>5 DEF WrittenOrRead, Written, ReadsBack
<1>2. ASSUME Submit PROVE WrittenOrRead'
  <2>1. phase = "typing" /\ phase' # "typing"
    BY <1>2 DEF Submit
  <2>2. Written
    BY <2>1 DEF WrittenOrRead
  <2>3. ReadsBack'
    BY <1>2, <2>1, <2>2, ReadsSubmit
  <2>4. QED
    BY <2>1, <2>3 DEF WrittenOrRead
<1>3. ASSUME phase # "typing", phase' # "typing", typed' = typed, tokens' = tokens,
             phase = "refused" => phase' = "refused"
      PROVE  WrittenOrRead'
  BY <1>3 DEF WrittenOrRead, ReadsBack
<1>4. CASE Make \/ ReadInteger \/ ReadIdentifier \/ ReadString \/ ReadClose \/ ReadOpenOrBinary
           \/ Finish
  <2>1. /\ phase = "parsing" /\ phase' # "typing" /\ typed' = typed /\ tokens' = tokens
    BY <1>4 DEF Make, ReadInteger, ReadIdentifier, ReadString, ReadClose, ReadOpenOrBinary, Finish,
         Operand, Refuse, Parsing
  <2>2. QED
    BY <1>3, <2>1
<1>5. CASE Query
  <2>1. phase = "accepted" /\ phase' # "typing" /\ typed' = typed /\ tokens' = tokens
    BY <1>5 DEF Query
  <2>2. QED
    BY <1>3, <2>1
<1>6. CASE UNCHANGED vars
  BY <1>6 DEF vars, WrittenOrRead, Written, ReadsBack
<1>7. QED
  BY <1>1, <1>2, <1>4, <1>5, <1>6 DEF Next

\* Whatever is typed, with any strings, numbers and names, is what is read, up to the
\* first stray character or number above INT_MAX.
THEOREM TypedIsRead == Spec => []ReadsBack
<1>1. Init => WrittenOrRead
  <2> SUFFICES ASSUME Init PROVE WrittenOrRead
    OBVIOUS
  <2>1. phase = "typing" /\ typed = << >> /\ text = << >>
    BY DEF Init
  <2> DEFINE at == [k \in 1..1 |-> 1]
  <2>2. at[1] = 1 /\ at \in [1..1 -> 1..1] /\ Len(<< >>) = 0 /\ 0 + 1 = 1
    OBVIOUS
  <2>3. Laid(<< >>, << >>, at)
    <3> HIDE DEF at
    <3>1. QED
      BY <2>2 DEF Laid
  <2>4. QED
    BY <2>1, <2>3 DEF WrittenOrRead, Written, ReadsBack
<1>2. WrittenOrRead => ReadsBack
  BY DEF WrittenOrRead
<1>3. QED
  BY <1>1, <1>2, Invariance, ReadsNext, PTL DEF Spec

-----------------------------------------------------------------------------
(***************************************************************************)
(* Parentheses and their partners.  The parser never has read more closing *)
(* than opening ones; while there is more to read, the open ones are all   *)
(* among the operators, so a stack found empty at a closing one means that *)
(* every one read before has its partner.                                  *)
(***************************************************************************)

Covers == \A i \in 1..pos - 1 : Depth(tokens, i) >= 0
Unopened == ~AtEnd => Opened(FlattenSeq(operands)) = 0
Emptied == phase = "undefined" => ~AtEnd /\ Current = Close /\ operators = << >>

PairInv == Covers /\ Unopened /\ Emptied

\* How deep the reader is.
LEMMA ReadDepth ==
    Inv /\ InPolish /\ Balanced =>
        /\ Depth(tokens, pos - 1) = Rise(Read)
        /\ Rise(Read) = Opened(operators) + Opened(FlattenSeq(operands))
        /\ Opened(operators) \in Nat /\ Opened(FlattenSeq(operands)) \in Nat
<1> SUFFICES ASSUME Inv, InPolish, Balanced
             PROVE  /\ Depth(tokens, pos - 1) = Rise(Read)
                    /\ Rise(Read) = Opened(operators) + Opened(FlattenSeq(operands))
                    /\ Opened(operators) \in Nat /\ Opened(FlattenSeq(operands)) \in Nat
  OBVIOUS
<1>1. operators \in Seq(Tokens) /\ FlattenSeq(operands) \in Seq(Tokens) /\ Read \in Seq(Tokens)
  <2>1. Polish \subseteq Seq(Tokens) /\ OperatorTokens \ {Close} \subseteq Tokens
    BY OperatorsAndOperands DEF Polish
  <2>2. operators \in Seq(Tokens) /\ operands \in Seq(Seq(Tokens))
    BY <2>1, SeqMonotonic DEF Inv, TypeOK, InPolish
  <2>3. QED
    BY <2>2, Flatten, ReadType DEF Inv
<1>2. /\ Opened(operators) \in Nat /\ Opened(FlattenSeq(operands)) \in Nat
      /\ Opened(Read) \in Nat /\ Closed(Read) \in Nat
  BY <1>1, Parenthesis
<1>3. Depth(tokens, pos - 1) = Rise(Read)
  BY DEF Depth, Read, Rise, Opened, Closed
<1>4. QED
  BY <1>2, <1>3 DEF Balanced, Rise

\* An operand read, of one token or of a string and its d.
LEMMA PairOperand ==
    ASSUME Inv, InPolish, Balanced, PairInv, (Inv /\ InPolish /\ Balanced)', ~AtEnd,
           Current \in OperandTokens, NEW t \in OperandTokens, NEW used \in {1, 2},
           Operand(t, used), phase # "undefined"
    PROVE  PairInv'
<1>1. /\ tokens \in Seq(Tokens) /\ Len(tokens) \in Nat /\ pos \in Nat /\ pos \in 1..Len(tokens)
      /\ Read \in Seq(Tokens) /\ tokens' = tokens /\ pos' = pos + used /\ phase' = phase
      /\ operands' = Append(operands, <<t>>)
  BY LenProperties, ReadType DEF Inv, TypeOK, AtEnd, Operand
<1>2. Depth(tokens, pos' - 1) >= 0
  <2>1. (Depth(tokens, pos - 1) = Rise(Read)
         /\ Rise(Read) = Opened(operators) + Opened(FlattenSeq(operands))
         /\ Opened(operators) \in Nat /\ Opened(FlattenSeq(operands)) \in Nat)'
    BY ReadDepth, PTL
  <2>2. Depth(tokens, pos' - 1) = Depth(tokens, pos - 1)'
    BY <1>1 DEF Depth
  <2>3. QED
    BY <2>1, <2>2
<1>3. Depth(tokens, pos) >= 0
  <2>1. SubSeq(tokens, 1, pos) = Read \o <<Current>>
    BY <1>1, ReadOne DEF Read, Current
  <2>2. Opened(<<Current>>) = 0 /\ Closed(<<Current>>) = 0 /\ <<Current>> \in Seq(Tokens)
    <3>1. Current \in Tokens
      BY OperatorsAndOperands
    <3>2. QED
      BY <3>1, Parenthesis
  <2> DEFINE c == <<Current>>
  <2> HIDE DEF c
  <2>3. Opened(Read \o c) = Opened(Read) + Opened(c) /\ Closed(Read \o c) = Closed(Read) + Closed(c)
        /\ Opened(Read) \in Nat /\ Closed(Read) \in Nat
    <3>1. c \in Seq(Tokens)
      BY <2>2 DEF c
    <3>2. QED
      BY <1>1, <3>1, Parenthesis
  <2>4. Depth(tokens, pos) = Opened(Read \o c) - Closed(Read \o c)
    BY <2>1 DEF Depth, Opened, Closed, c
  <2>5. Opened(c) = 0 /\ Closed(c) = 0
    BY <2>2 DEF c
  <2>6. QED
    BY <2>3, <2>4, <2>5, ReadDepth DEF Rise
<1>4. Covers'
  <2> SUFFICES ASSUME NEW i \in 1..pos' - 1 PROVE Depth(tokens, i) >= 0
    BY <1>1 DEF Covers, Depth
  <2>1. i \in 1..pos - 1 \/ i = pos \/ i = pos' - 1
    BY <1>1
  <2>2. QED
    BY <1>2, <1>3, <2>1 DEF PairInv, Covers
<1>5. Opened(FlattenSeq(operands')) = Opened(FlattenSeq(operands))
  <2>1. <<t>> \in Polish /\ Opened(<<t>>) = 0
    BY PolishGrows, Parenthesis DEF HasOperands
  <2> DEFINE p == <<t>>
             f == FlattenSeq(operands)
  <2>2. p \in Polish /\ Opened(p) = 0 /\ operands' = Append(operands, p)
    BY <1>1, <2>1
  <2> HIDE DEF p
  <2>3. f \in Seq(Tokens) /\ p \in Seq(Tokens) /\ FlattenSeq(operands') = f \o p
    BY <2>2, PushedOperand DEF InPolish
  <2> HIDE DEF f
  <2>4. Opened(f \o p) = Opened(f) + 0 /\ Opened(f) \in Nat
    BY <2>2, <2>3, Parenthesis
  <2>5. QED
    BY <2>3, <2>4 DEF f
<1>6. QED
  BY <1>1, <1>4, <1>5 DEF PairInv, Unopened, Emptied

LEMMA PrecedenceOfBinary == \A o \in Tokens : IsBinary(o) => precedence(o) \in {1, 2}
<1> SUFFICES ASSUME NEW o \in Tokens, IsBinary(o) PROVE precedence(o) \in {1, 2}
  OBVIOUS
<1>1. o.value \notin {<<"(">>, <<")">>}
  BY BinaryTokens DEF BinaryValues
<1>2. CASE o.value \in {<<"|">>, <<"&">>}
  BY <1>1, <1>2 DEF precedence
<1>3. CASE o.value \notin {<<"|">>, <<"&">>}
  BY <1>1, <1>3 DEF precedence
<1>4. QED
  BY <1>2, <1>3

LEMMA PairNext ==
    Inv /\ InPolish /\ Balanced /\ PairInv /\ [Next]_vars => PairInv'
<1> SUFFICES ASSUME Inv, InPolish, Balanced, PairInv, [Next]_vars PROVE PairInv'
  OBVIOUS
<1>1. (Inv /\ InPolish /\ Balanced)'
  BY InvNext, BalanceNext
<1>2. /\ tokens \in Seq(Tokens) /\ Len(tokens) \in Nat /\ pos \in Nat /\ 1 <= pos
  BY LenProperties DEF Inv, TypeOK
<1>3. ~AtEnd => Current \in Tokens
  BY <1>2, ElementOfSeq DEF AtEnd, Current
<1>4. ASSUME phase' # "undefined", pos' = pos, tokens' = tokens, operands' = operands
      PROVE  PairInv'
  BY <1>4 DEF PairInv, Covers, Unopened, Emptied, AtEnd, Depth
<1>5. ASSUME phase' # "undefined", pos' = pos + 1, tokens' = tokens, operands' = operands
      PROVE  PairInv'
  <2>1. (Depth(tokens, pos - 1) = Rise(Read)
         /\ Rise(Read) = Opened(operators) + Opened(FlattenSeq(operands))
         /\ Opened(operators) \in Nat /\ Opened(FlattenSeq(operands)) \in Nat)'
    BY <1>1, ReadDepth, PTL
  <2>2. Depth(tokens, pos) = Depth(tokens, pos - 1)'
    BY <1>2, <1>5 DEF Depth
  <2>3. Depth(tokens, pos) >= 0
    BY <2>1, <2>2
  <2>4. \A i \in 1..pos' - 1 : i \in 1..pos - 1 \/ i = pos
    BY <1>2, <1>5
  <2>5. Covers'
    BY <1>5, <2>3, <2>4 DEF PairInv, Covers, Depth
  <2>6. Unopened'
    BY <1>2, <1>5 DEF PairInv, Unopened, AtEnd
  <2>7. QED
    BY <1>5, <2>5, <2>6 DEF PairInv, Emptied
<1>6. ASSUME NEW t \in Alphabet, Type(t) PROVE PairInv'
  BY <1>4, <1>6 DEF Type
<1>7. CASE Submit
  <2>1. pos' = 1 /\ operands' = << >> /\ phase' # "undefined"
    BY <1>7 DEF Submit, Inv, Started
  <2>2. Opened(FlattenSeq(operands')) = 0
    BY <2>1, Flatten, Parenthesis
  <2>3. QED
    BY <2>1, <2>2 DEF PairInv, Covers, Unopened, Emptied
<1>8. CASE Make
  <2>1. phase' # "undefined" /\ tokens' = tokens /\ pos' = pos
    BY <1>8 DEF Make, Parsing
  <2>2. CASE Len(operands) < 2 \/ AtEnd
    BY <1>4, <1>8, <2>1, <2>2 DEF Make, PairInv, Covers, Unopened, Emptied, AtEnd, Depth
  <2>3. CASE ~(Len(operands) < 2) /\ ~AtEnd
    <3>1. operators # << >> /\ operators' = Front(operators)
      BY <1>8, <2>3 DEF Make, MustMake
    <3>2. Top # Open
      <4>1. CASE Current = Close /\ Top # Open
        BY <4>1
      <4>2. CASE IsBinary(Current) /\ precedence(Current) <= precedence(Top)
        <5>1. precedence(Open) = 0
          BY DEF precedence, Open, Op, Token
        <5>2. precedence(Current) \in {1, 2}
          BY <1>3, <2>3, <4>2, PrecedenceOfBinary
        <5>3. QED
          BY <4>2, <5>1, <5>2
      <4>3. QED
        BY <1>8, <2>3, <4>1, <4>2 DEF Make, MustMake
    <3> DEFINE O == OperatorTokens \ {Close}
               front == Front(operators)
               top == <<Top>>
    <3>3. O \subseteq Tokens
      BY OperatorsAndOperands
    <3>4. operators \in Seq(O)
      BY DEF Inv, TypeOK
    <3> HIDE DEF O
    <3>5. Top \in Tokens /\ front \in Seq(Tokens) /\ operators = front \o top
      <4>1. Top \in O /\ front \in Seq(O) /\ operators = Append(front, Top)
        BY <3>1, <3>4, TopOfStack DEF Top
      <4>2. front \in Seq(Tokens)
        BY <3>3, <4>1, SeqMonotonic
      <4>3. QED
        BY <3>3, <4>1, <4>2, AppendIsConcat
    <3>6. Opened(top) = 0 /\ top \in Seq(Tokens)
      BY <3>2, <3>5, Parenthesis
    <3> HIDE DEF front, top
    <3>7. Opened(operators) = Opened(front) /\ Opened(front) \in Nat
      BY <3>5, <3>6, Parenthesis
    <3>8. (Depth(tokens, pos - 1) = Rise(Read)
           /\ Rise(Read) = Opened(operators) + Opened(FlattenSeq(operands))
           /\ Opened(operators) \in Nat /\ Opened(FlattenSeq(operands)) \in Nat)'
      BY <1>1, ReadDepth, PTL
    <3>9. Rise(Read)' = Rise(Read)
      BY <2>1 DEF Rise, Read, Opened, Closed
    <3>10. Opened(operators)' = Opened(operators)
      BY <3>1, <3>7 DEF front, Opened
    <3>11. Opened(FlattenSeq(operands)') = Opened(FlattenSeq(operands))
      BY <3>8, <3>9, <3>10, ReadDepth DEF Opened
    <3>12. QED
      BY <2>1, <3>11 DEF PairInv, Covers, Unopened, Emptied, AtEnd, Depth
  <2>4. QED
    BY <2>2, <2>3
<1>9. CASE ReadInteger
  <2>1. Current \in OperandTokens /\ ~AtEnd /\ phase # "undefined"
    BY <1>3, <1>9 DEF ReadInteger, OperandTokens, Parsing
  <2>2. QED
    BY <1>1, <1>9, <2>1, PairOperand DEF ReadInteger
<1>10. CASE Refuse
  BY <1>4, <1>10 DEF Refuse
<1>11. CASE ReadIdentifier
  <2>1. Current \in OperandTokens /\ ~AtEnd /\ phase # "undefined"
    BY <1>3, <1>11 DEF ReadIdentifier, OperandTokens, Parsing
  <2>2. QED
    BY <1>1, <1>10, <1>11, <2>1, PairOperand DEF ReadIdentifier
<1>12. CASE ReadString
  <2>1. Current \in OperandTokens /\ Current.value \in Seq(Characters) /\ ~AtEnd
        /\ phase # "undefined"
    BY <1>3, <1>12 DEF ReadString, OperandTokens, Tokens, Parsing
  <2>2. Token("DATE", Current.value) \in OperandTokens
    BY <2>1 DEF OperandTokens, Tokens, Token, Types
  <2>3. QED
    BY <1>1, <1>10, <1>12, <2>1, <2>2, PairOperand DEF ReadString
<1>13. CASE ReadClose
  <2>1. CASE operators = << >>
    BY <1>13, <2>1 DEF ReadClose, PairInv, Covers, Unopened, Emptied, AtEnd, Current, Depth
  <2>2. CASE operators # << >>
    BY <1>5, <1>13, <2>2 DEF ReadClose, Parsing
  <2>3. QED
    BY <2>1, <2>2
<1>14. CASE ReadOpenOrBinary
  BY <1>5, <1>14 DEF ReadOpenOrBinary, Parsing
<1>15. CASE Finish \/ Query
  BY <1>4, <1>15 DEF Finish, Query
<1>16. CASE UNCHANGED vars
  BY <1>16 DEF vars, PairInv, Covers, Unopened, Emptied, AtEnd, Current, Depth
<1>17. QED
  BY <1>6, <1>7, <1>8, <1>9, <1>11, <1>12, <1>13, <1>14, <1>15, <1>16 DEF Next

\* What the tokens say of a text queried, and of one that emptied the stack.
LEMMA PairedTokens ==
    ASSUME Inv, InPolish, Balanced, PairInv
    PROVE  /\ phase = "queried" => Paired(tokens)
           /\ phase = "undefined" => ~Paired(tokens)
<1>1. tokens \in Seq(Tokens) /\ Len(tokens) \in Nat /\ pos \in Nat /\ 1 <= pos
  BY LenProperties DEF Inv, TypeOK
<1>2. ASSUME phase = "queried" PROVE Paired(tokens)
  <2>1. pos - 1 = Len(tokens) /\ Read = tokens
    BY <1>1, <1>2, TheResult DEF Inv, Done
  <2>2. Rise(tokens) = 0
    BY <1>1, <1>2, QueriedCounts, Parenthesis DEF Rise
  <2>3. Depth(tokens, Len(tokens)) = 0
    BY <2>1, <2>2, ReadDepth
  <2>4. QED
    BY <2>1, <2>3 DEF Paired, PairInv, Covers
<1>3. ASSUME phase = "undefined" PROVE ~Paired(tokens)
  <2>1. pos \in 1..Len(tokens) /\ tokens[pos] = Close /\ Rise(Read) = 0
    <3>1. ~AtEnd /\ Current = Close /\ operators = << >>
      BY <1>3 DEF PairInv, Emptied
    <3>2. Opened(FlattenSeq(operands)) = 0 /\ Opened(operators) = 0
      BY <3>1, Parenthesis DEF PairInv, Unopened
    <3>3. QED
      BY <1>1, <3>1, <3>2, ReadDepth DEF AtEnd, Current
  <2>2. SubSeq(tokens, 1, pos) = Read \o <<Close>> /\ Read \in Seq(Tokens)
    BY <1>1, <2>1, ReadOne DEF Read
  <2> DEFINE c == <<Close>>
  <2>3. c \in Seq(Tokens) /\ Opened(c) = 0 /\ Closed(c) = 1
    BY Parenthesis, OperatorsAndOperands
  <2> HIDE DEF c
  <2>4. /\ Opened(Read \o c) = Opened(Read) + Opened(c)
        /\ Closed(Read \o c) = Closed(Read) + Closed(c)
        /\ Opened(Read) \in Nat /\ Closed(Read) \in Nat
    BY <2>2, <2>3, Parenthesis
  <2>5. Depth(tokens, pos) = Opened(Read \o c) - Closed(Read \o c)
    BY <2>2 DEF Depth, Opened, Closed, c
  <2>6. Depth(tokens, pos) = -1
    BY <2>1, <2>3, <2>4, <2>5 DEF Rise
  <2>7. QED
    BY <2>1, <2>6 DEF Paired
<1>4. QED
  BY <1>2, <1>3

\* An operand at the end changes no pairing.
LEMMA PairedWithOperand ==
    ASSUME NEW s \in Seq(Tokens), NEW t \in OperandTokens
    PROVE  Paired(s \o <<t>>) <=> Paired(s)
<1> DEFINE u == <<t>>
           n == Len(s)
           c == s \o u
<1>1. t \in Tokens /\ u \in Seq(Tokens) /\ Len(u) = 1 /\ n \in Nat
  BY OperatorsAndOperands, LenProperties
<1>2. DepthsOf(s, u)
  BY <1>1, DepthOfConcat
<1>3. Depth(u, 1) = 0
  <2>1. SubSeq(u, 1, 1) = u
    BY <1>1, SubSeqFull
  <2>2. Opened(u) = 0 /\ Closed(u) = 0
    BY Parenthesis
  <2> DEFINE v == SubSeq(u, 1, 1)
  <2>3. Depth(u, 1) = Opened(v) - Closed(v)
    BY DEF Depth, Opened, Closed
  <2>4. v = u
    BY <2>1
  <2> HIDE DEF u, v
  <2>5. Opened(v) = 0 /\ Closed(v) = 0
    BY <2>2, <2>4
  <2>6. QED
    BY <2>3, <2>5
<1>4. Depth(s, n) = Rise(s)
  <2>1. SubSeq(s, 1, n) = s
    BY SubSeqFull
  <2>2. QED
    BY <2>1 DEF Depth, Rise, Opened, Closed
<1> HIDE DEF u
<1>5. Len(c) = n + 1 /\ c \in Seq(Tokens)
  <2>1. Len(s \o u) = Len(s) + Len(u) /\ s \o u \in Seq(Tokens)
    BY <1>1, ConcatProperties
  <2>2. QED
    BY <1>1, <2>1
<1>6. /\ \A i \in 1..n : Depth(c, i) = Depth(s, i)
      /\ Depth(c, n + 1) = Depth(s, n)
  <2>1. Depth(c, n + 1) = Rise(s) + Depth(u, 1)
    BY <1>1, <1>2 DEF DepthsOf
  <2>2. Rise(s) \in Int
    BY DepthType
  <2>3. QED
    BY <1>2, <1>3, <1>4, <2>1, <2>2 DEF DepthsOf
<1>7. Paired(c) <=> Paired(s)
  <2> HIDE DEF c
  <2>1. \A i \in 1..Len(c) : i \in 1..n \/ i = n + 1
    BY <1>1, <1>5
  <2>2. \A i \in 1..n : i \in 1..Len(c)
    BY <1>1, <1>5
  <2>3. QED
    BY <1>5, <1>6, <2>1, <2>2 DEF Paired
<1>8. QED
  BY <1>7 DEF u

\* What is heard of the text is paired if what is read of it is.
LEMMA PairedAsRead ==
    ASSUME TypeOK, ReadsBack, phase \in {"queried", "undefined"}
    PROVE  Paired(Heard) <=> Paired(tokens)
<1> DEFINE stop == {k \in 1..Len(typed) : TooBig(typed[k]) \/ typed[k].type = "STRAY"}
           i == CHOOSE k \in stop : \A j \in stop : k <= j
           lost == {k \in 1..Len(typed) : TooBig(typed[k])}
           places == lost \cup {Len(typed) + 1}
           max == Token("INTEGER", Decimal(MaxInt))
<1>1. typed \in Seq(Tokens) /\ Len(typed) \in Nat /\ tokens \in Seq(Tokens)
  BY LenProperties DEF TypeOK
<1>2. CASE Token("STRAY", <<Quote>>) \in ToSet(typed)
  BY <1>2 DEF Heard
<1>3. CASE Token("STRAY", <<Quote>>) \notin ToSet(typed)
  <2>1. IF stop = {} THEN tokens = typed
        ELSE IF typed[i].type = "STRAY" THEN FALSE
        ELSE tokens = SubSeq(typed, 1, i - 1) \o <<max>>
    BY <1>3 DEF ReadsBack
  <2>2. Heard = SubSeq(typed, 1, Min(places) - 1)
    BY <1>3 DEF Heard
  <2>3. CASE stop = {}
    <3>1. lost = {}
      BY <2>3
    <3>2. Min(places) = Len(typed) + 1
      BY <1>1, <3>1 DEF Min
    <3>3. Min(places) - 1 = Len(typed)
      BY <1>1, <3>2
    <3> DEFINE m == Min(places) - 1
    <3>4. m = Len(typed) /\ Heard = SubSeq(typed, 1, m)
      BY <2>2, <3>3
    <3> HIDE DEF m, stop, lost, places
    <3>5. Heard = typed
      <4>1. SubSeq(typed, 1, Len(typed)) = typed
        BY <1>1, SubSeqFull
      <4>2. QED
        BY <3>4, <4>1
    <3>6. QED
      BY <2>1, <2>3, <3>5
  <2>4. CASE stop # {}
    <3>1. stop \subseteq Nat /\ stop \subseteq 1..Len(typed)
      BY <1>1
    <3>2. i \in stop /\ \A j \in stop : i <= j
      <4> HIDE DEF stop
      <4>1. QED
        BY <2>4, <3>1, Least
    <3>3. typed[i].type # "STRAY" /\ tokens = SubSeq(typed, 1, i - 1) \o <<max>>
      BY <2>1, <2>4
    <3> HIDE DEF i
    <3>4. i \in 1..Len(typed) /\ TooBig(typed[i])
      BY <3>2, <3>3
    <3>5. i \in lost /\ \A j \in places : i <= j
      BY <1>1, <3>2, <3>4
    <3>6. i \in places /\ places \subseteq Nat
      BY <1>1, <3>5
    <3>7. Min(places) = i
      <4> HIDE DEF places
      <4>1. Min(places) \in places /\ \A j \in places : Min(places) <= j
        <5>1. \E k \in places : \A j \in places : k <= j
          BY <3>5, <3>6
        <5>2. Min(places) = CHOOSE k \in places : \A j \in places : k <= j
          BY DEF Min
        <5>3. QED
          BY <5>1, <5>2
      <4> DEFINE m == Min(places)
      <4>2. m \in Nat /\ i \in Nat /\ i <= m /\ m <= i
        BY <3>5, <3>6, <4>1
      <4> HIDE DEF m
      <4>3. m = i
        BY <4>2
      <4>4. QED
        BY <4>3 DEF m
    <3>8. Heard = SubSeq(typed, 1, i - 1) /\ Heard \in Seq(Tokens)
      <4>1. i - 1 \in 0..Len(typed)
        BY <1>1, <3>4
      <4>2. QED
        BY <1>1, <2>2, <3>7, <4>1, Prefix
    <3>9. max \in OperandTokens
      <4>1. max.type = "INTEGER"
        BY DEF Token
      <4>2. max \in Tokens
        BY DecimalType, MaxIntAssumption DEF Token, Tokens, Types
      <4>3. QED
        BY <4>1, <4>2 DEF OperandTokens
    <3> HIDE DEF max
    <3>10. QED
      BY <3>3, <3>8, <3>9, PairedWithOperand
  <2>5. QED
    BY <2>3, <2>4
<1>4. QED
  BY <1>2, <1>3

\* Of a text without partners for its parentheses, as far as it is read, nothing
\* is queried, and only such a text makes the parser pop an empty stack
\* (binaryexpressionparser.cc:62-103, sqlitedataaccess.cc:310-330).
THEOREM UnbalancedRefused == Spec => []UnbalancedNeverQueried
<1>1. Init => PairInv
  <2> SUFFICES ASSUME Init PROVE PairInv
    OBVIOUS
  <2>1. phase = "typing" /\ pos = 1 /\ tokens = << >> /\ Len(<< >>) = 0
    BY DEF Init
  <2>2. QED
    BY <2>1 DEF PairInv, Covers, Unopened, Emptied, AtEnd
<1>2. Inv /\ InPolish /\ Balanced /\ PairInv /\ ReadsBack => UnbalancedNeverQueried
  BY PairedTokens, PairedAsRead DEF UnbalancedNeverQueried, Inv
<1>3. QED
  BY <1>1, <1>2, BalanceInvariance, PairNext, TypedIsRead, PTL DEF Spec
=============================================================================
