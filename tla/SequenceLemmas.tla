--------------------------- MODULE SequenceLemmas ---------------------------
(***************************************************************************)
(* What the proofs need to know about sequences of sequences.              *)
(*                                                                         *)
(* The induction theorems of the library are about an operator; here       *)
(* induction is about a set of numbers, and follows from the theorem that  *)
(* < is well founded.  FlattenSeq is a recursive function, so the choice   *)
(* of a function that satisfies its equation: that there is one, and only  *)
(* one, is shown by induction.                                             *)
(***************************************************************************)
EXTENDS
    Naturals, SequencesExt, SequenceTheorems, FiniteSetTheorems, WellFoundedInduction, TLAPS

LEMMA Induction ==
    ASSUME NEW T \in SUBSET Nat, 0 \in T, \A n \in T : n + 1 \in T
    PROVE  T = Nat
<1>1. SUFFICES ASSUME Nat \ T # {} PROVE FALSE
  OBVIOUS
<1> DEFINE R == OpToRel(<, Nat)
<1>2. IsWellFoundedOn(R, Nat)
  BY NatLessThanWellFounded
<1> HIDE DEF R
<1>3. PICK x \in Nat \ T : \A y \in Nat \ T : ~ (<<y, x>> \in R)
  BY <1>1, <1>2, WFMin
<1>4. x # 0 /\ x \in Nat /\ x - 1 \in Nat /\ x - 1 < x
  BY <1>3
<1>5. <<x - 1, x>> \in R
  BY <1>4 DEF R, OpToRel
<1>6. x - 1 \in T
  BY <1>3, <1>4, <1>5
<1>7. (x - 1) + 1 \in T
  BY <1>6
<1> QED BY <1>3, <1>4, <1>7

\* A set of numbers has a least one.
LEMMA Least ==
    ASSUME NEW T \in SUBSET Nat, NEW x \in T
    PROVE  \E y \in T : \A z \in T : y <= z
<1> DEFINE R == OpToRel(<, Nat)
<1>1. IsWellFoundedOn(R, Nat)
  BY NatLessThanWellFounded
<1> HIDE DEF R
<1>2. PICK y \in T : \A z \in T : ~ (<<z, y>> \in R)
  BY <1>1, WFMin
<1>3. \A z \in T : ~ (z < y)
  BY <1>2 DEF R, OpToRel
<1> QED BY <1>3

\* A property of places that holds at each if it holds at all later ones.
Climbs(T, M) ==
    M \in Nat /\ \A j \in 1..M : (\A k \in 1..M : k > j => k \in T) => j \in T

LEMMA Backwards ==
    ASSUME NEW M, NEW T, Climbs(T, M)
    PROVE  \A j \in 1..M : j \in T
<1>0. M \in Nat /\ \A j \in 1..M : (\A k \in 1..M : k > j => k \in T) => j \in T
  BY DEF Climbs
<1> DEFINE N == {n \in Nat : \A j \in 1..M : M < j + n => j \in T}
<1>1. 0 \in N
  BY <1>0
<1>2. ASSUME NEW n \in N PROVE n + 1 \in N
  <2>1. n \in Nat
    OBVIOUS
  <2> SUFFICES ASSUME NEW j \in 1..M, M < j + (n + 1) PROVE j \in T
    BY <2>1
  <2>2. ASSUME NEW k \in 1..M, k > j PROVE k \in T
    <3>1. M < k + n
      BY <1>0, <2>1, <2>2
    <3> QED BY <3>1
  <2> QED BY <1>0, <2>2
<1>3. N = Nat
  <2>1. N \in SUBSET Nat
    OBVIOUS
  <2> HIDE DEF N
  <2> QED BY <1>1, <1>2, <2>1, Induction
<1>4. M \in N
  BY <1>0, <1>3
<1>5. \A j \in 1..M : M < j + M
  BY <1>0
<1>6. \A j \in 1..M : M < j + M => j \in T
  BY <1>4
<1> QED BY <1>5, <1>6

\* rule[f] is what one step of a recursive definition makes of f; at d it
\* looks at places of a lower rank only.
LooksBelow(rule, rank, D, V) ==
    \A g \in [D -> V], h \in [D -> V], d \in D :
        (\A k \in D : rank[k] < rank[d] => g[k] = h[k]) => rule[g][d] = rule[h][d]

Ranks(rank, D, N) == rank \in [D -> Nat] /\ N \in Nat /\ \A d \in D : rank[d] < N

Recursive(rule, rank, N, D, V) ==
    /\ V # {} /\ rule \in [[D -> V] -> [D -> V]]
    /\ Ranks(rank, D, N) /\ LooksBelow(rule, rank, D, V)

\* Such a definition defines a function.
LEMMA Recursion ==
    ASSUME NEW D, NEW V, NEW rule, NEW rank, NEW N, Recursive(rule, rank, N, D, V)
    PROVE  \E f \in [D -> V] : rule[f] = f
<1>0. /\ rule \in [[D -> V] -> [D -> V]] /\ LooksBelow(rule, rank, D, V)
      /\ rank \in [D -> Nat] /\ N \in Nat /\ \A d \in D : rank[d] < N
  BY DEF Recursive, Ranks
<1> PICK v : v \in V
  BY DEF Recursive
<1> DEFINE Right(f, n) == \A d \in D : rank[d] < n => rule[f][d] = f[d]
<1> DEFINE T == {n \in Nat : \E f \in [D -> V] : Right(f, n)}
<1>1. 0 \in T
  <2> DEFINE e == [d \in D |-> v]
  <2>1. e \in [D -> V]
    OBVIOUS
  <2> HIDE DEF e
  <2>2. \A d \in D : ~ (rank[d] < 0)
    BY <1>0
  <2>3. Right(e, 0)
    BY <2>2
  <2> QED BY <2>1, <2>3
<1>2. ASSUME NEW n \in T PROVE n + 1 \in T
  <2>1. n \in Nat
    OBVIOUS
  <2>2. PICK f \in [D -> V] : Right(f, n)
    OBVIOUS
  <2> DEFINE g == rule[f]
  <2>3. g \in [D -> V]
    BY <1>0
  <2> HIDE DEF g
  <2>4. ASSUME NEW d \in D, rank[d] < n + 1 PROVE rule[g][d] = g[d]
    <3>1. ASSUME NEW k \in D, rank[k] < rank[d] PROVE g[k] = f[k]
      <4>1. rank[k] < n
        BY <1>0, <2>1, <2>4, <3>1
      <4> QED BY <2>2, <4>1 DEF g
    <3>2. rule[g][d] = rule[f][d]
      BY <1>0, <2>3, <3>1 DEF LooksBelow
    <3> QED BY <3>2 DEF g
  <2>5. Right(g, n + 1)
    BY <2>4
  <2> HIDE DEF Right
  <2> QED BY <2>1, <2>3, <2>5
<1>3. T = Nat
  <2>1. T \in SUBSET Nat
    OBVIOUS
  <2> HIDE DEF T
  <2> QED BY <1>1, <1>2, <2>1, Induction
<1>4. PICK f \in [D -> V] : Right(f, N)
  BY <1>0, <1>3
<1>5. \A d \in D : rule[f][d] = f[d]
  BY <1>0, <1>4
<1>6. rule[f] \in [D -> V]
  BY <1>0
<1>7. rule[f] = f
  BY <1>5, <1>6
<1> QED BY <1>7

-----------------------------------------------------------------------------
(* FlattenSeq *)

\* f is what FlattenSeq computes for the first n sequences of ss.
Flattens(f, ss, n) == f = [i \in 1..n |-> IF i = 1 THEN ss[i] ELSE f[i - 1] \o ss[i]]

SameUpTo(f, g, n) == \A i \in 1..n : f[i] = g[i]

LEMMA FlattensAt ==
    ASSUME NEW f, NEW ss, NEW n \in Nat, NEW i \in 1..n, Flattens(f, ss, n)
    PROVE  f[i] = IF i = 1 THEN ss[i] ELSE f[i - 1] \o ss[i]
<1> DEFINE e(j) == IF j = 1 THEN ss[j] ELSE f[j - 1] \o ss[j]
<1>1. f = [j \in 1..n |-> e(j)]
  BY DEF Flattens
<1> HIDE DEF e
<1>2. f[i] = e(i)
  BY <1>1, Zenon
<1> QED BY <1>2 DEF e

LEMMA FlattensExists ==
    ASSUME NEW S, NEW ss \in Seq(Seq(S))
    PROVE  \E f \in [1..Len(ss) -> Seq(S)] : Flattens(f, ss, Len(ss))
<1> DEFINE T == {n \in Nat : n <= Len(ss) => \E f \in [1..n -> Seq(S)] : Flattens(f, ss, n)}
<1>1. Len(ss) \in Nat /\ \A i \in 1..Len(ss) : ss[i] \in Seq(S)
  OBVIOUS
<1>2. 0 \in T
  <2> DEFINE e == [i \in 1..0 |-> <<>>]
  <2>1. e \in [1..0 -> Seq(S)] /\ Flattens(e, ss, 0)
    BY DEF Flattens
  <2> QED BY <2>1
<1>3. ASSUME NEW n \in T PROVE n + 1 \in T
  <2>1. SUFFICES ASSUME n + 1 <= Len(ss)
                 PROVE  \E f \in [1..n + 1 -> Seq(S)] : Flattens(f, ss, n + 1)
    OBVIOUS
  <2>2. n \in Nat /\ n <= Len(ss)
    BY <1>1, <2>1
  <2>3. PICK f \in [1..n -> Seq(S)] : Flattens(f, ss, n)
    BY <2>2
  <2> DEFINE g == [i \in 1..n + 1 |->
                     IF i = n + 1 THEN IF n = 0 THEN ss[i] ELSE f[n] \o ss[i] ELSE f[i]]
  <2>4. \A i \in 1..n + 1 : i = n + 1 \/ i \in 1..n
    BY <2>2
  <2>5. g \in [1..n + 1 -> Seq(S)]
    <3>1. ss[n + 1] \in Seq(S)
      BY <1>1, <2>1, <2>2
    <3>2. n # 0 => f[n] \in Seq(S)
      BY <2>2
    <3>3. n # 0 => f[n] \o ss[n + 1] \in Seq(S)
      BY <3>1, <3>2
    <3> QED BY <2>4, <3>1, <3>3
  <2>6. ASSUME NEW i \in 1..n + 1
        PROVE  g[i] = IF i = 1 THEN ss[i] ELSE g[i - 1] \o ss[i]
    <3>1. CASE i = n + 1
      <4>1. n # 0 => g[n] = f[n]
        BY <2>2
      <4> QED BY <2>2, <3>1, <4>1
    <3>2. CASE i # n + 1
      <4>1. i \in 1..n /\ g[i] = f[i]
        BY <2>4, <3>2
      <4>2. f[i] = IF i = 1 THEN ss[i] ELSE f[i - 1] \o ss[i]
        BY <2>3, <4>1 DEF Flattens
      <4>3. i # 1 => i - 1 \in 1..n + 1 /\ i - 1 # n + 1
        BY <2>2, <4>1
      <4>4. i # 1 => g[i - 1] = f[i - 1]
        BY <4>3
      <4> QED BY <4>1, <4>2, <4>4
    <3> QED BY <3>1, <3>2
  <2> HIDE DEF g
  <2>7. Flattens(g, ss, n + 1)
    BY <2>5, <2>6 DEF Flattens
  <2> QED BY <2>5, <2>7
<1> HIDE DEF T
<1>4. T = Nat
  <2>1. T \in SUBSET Nat
    BY DEF T
  <2> QED BY <1>2, <1>3, <2>1, Induction
<1> QED BY <1>1, <1>4 DEF T

LEMMA FlattensAgree ==
    ASSUME NEW f, NEW g, NEW ss, NEW tt, NEW m \in Nat, NEW n \in Nat, m <= n,
           Flattens(f, ss, m), Flattens(g, tt, n),
           SameUpTo(ss, tt, m)
    PROVE  SameUpTo(f, g, m)
<1> DEFINE T == {k \in Nat : k \in 1..m => f[k] = g[k]}
<1>1. 0 \in T
  OBVIOUS
<1>2. ASSUME NEW k \in T PROVE k + 1 \in T
  <2>1. SUFFICES ASSUME k + 1 \in 1..m PROVE f[k + 1] = g[k + 1]
    OBVIOUS
  <2>2. /\ f[k + 1] = IF k + 1 = 1 THEN ss[k + 1] ELSE f[(k + 1) - 1] \o ss[k + 1]
        /\ g[k + 1] = IF k + 1 = 1 THEN tt[k + 1] ELSE g[(k + 1) - 1] \o tt[k + 1]
    <3>1. k + 1 \in 1..n
      BY <2>1
    <3>2. k + 1 \in 1..m /\ m \in Nat /\ n \in Nat
      BY <2>1
    <3>3. f[k + 1] = IF k + 1 = 1 THEN ss[k + 1] ELSE f[(k + 1) - 1] \o ss[k + 1]
      BY <3>2, FlattensAt
    <3>4. g[k + 1] = IF k + 1 = 1 THEN tt[k + 1] ELSE g[(k + 1) - 1] \o tt[k + 1]
      BY <3>1, <3>2, FlattensAt
    <3> QED BY <3>3, <3>4
  <2>3. ss[k + 1] = tt[k + 1] /\ (k + 1) - 1 = k
    BY <2>1 DEF SameUpTo
  <2>4. k + 1 # 1 => f[k] = g[k]
    BY <2>1
  <2> QED BY <2>2, <2>3, <2>4
<1> HIDE DEF T
<1>3. T = Nat
  <2>1. T \in SUBSET Nat
    BY DEF T
  <2> QED BY <1>1, <1>2, <2>1, Induction
<1> QED BY <1>3 DEF T, SameUpTo

LEMMA FlattenDefined ==
    ASSUME NEW S, NEW ss \in Seq(Seq(S)), ss # <<>>
    PROVE  \E f \in [1..Len(ss) -> Seq(S)] : Flattens(f, ss, Len(ss)) /\ FlattenSeq(ss) = f[Len(ss)]
<1>1. Len(ss) \in Nat \ {0}
  OBVIOUS
<1> DEFINE f == CHOOSE f : Flattens(f, ss, Len(ss))
<1>2. FlattenSeq(ss) = f[Len(ss)]
  BY <1>1 DEF FlattenSeq, Flattens
<1>3. PICK g \in [1..Len(ss) -> Seq(S)] : Flattens(g, ss, Len(ss))
  BY FlattensExists
<1>4. Flattens(f, ss, Len(ss))
  BY <1>3
<1> HIDE DEF f
<1>5. f = [i \in 1..Len(ss) |-> f[i]] /\ g = [i \in 1..Len(ss) |-> g[i]]
  BY <1>3, <1>4 DEF Flattens
<1>6. SameUpTo(f, g, Len(ss))
  <2>1. SameUpTo(ss, ss, Len(ss))
    BY DEF SameUpTo
  <2> QED BY <1>1, <1>3, <1>4, <2>1, FlattensAgree
<1>7. f = g
  BY <1>5, <1>6 DEF SameUpTo
<1> QED BY <1>2, <1>3, <1>7

LEMMA FlattenNothing == FlattenSeq(<<>>) = <<>>
BY DEF FlattenSeq

LEMMA FlattenType ==
    ASSUME NEW S, NEW ss \in Seq(Seq(S))
    PROVE  FlattenSeq(ss) \in Seq(S)
<1>1. CASE ss = <<>>
  <2>1. <<>> \in Seq(S)
    OBVIOUS
  <2> QED BY <1>1, <2>1, FlattenNothing
<1>2. CASE ss # <<>>
  <2>1. PICK f \in [1..Len(ss) -> Seq(S)] : FlattenSeq(ss) = f[Len(ss)]
    BY <1>2, FlattenDefined
  <2>2. Len(ss) \in 1..Len(ss)
    BY <1>2
  <2> QED BY <2>1, <2>2
<1> QED BY <1>1, <1>2

LEMMA FlattenAppend ==
    ASSUME NEW S, NEW ss \in Seq(Seq(S)), NEW s \in Seq(S)
    PROVE  FlattenSeq(Append(ss, s)) = FlattenSeq(ss) \o s
<1> DEFINE tt == Append(ss, s)
<1>1. /\ tt \in Seq(Seq(S)) /\ Len(tt) = Len(ss) + 1 /\ Len(ss) \in Nat /\ tt # <<>>
      /\ tt[Len(ss) + 1] = s /\ \A i \in 1..Len(ss) : ss[i] = tt[i]
  <2>1. /\ tt \in Seq(Seq(S)) /\ Len(tt) = Len(ss) + 1 /\ Len(ss) \in Nat
        /\ tt[Len(ss) + 1] = s
    OBVIOUS
  <2>2. \A i \in 1..Len(ss) : ss[i] = tt[i]
    OBVIOUS
  <2> HIDE DEF tt
  <2>3. tt # <<>>
    BY <2>1
  <2> QED BY <2>1, <2>2, <2>3
<1> HIDE DEF tt
<1>2. PICK g \in [1..Len(tt) -> Seq(S)] : Flattens(g, tt, Len(tt)) /\ FlattenSeq(tt) = g[Len(tt)]
  BY <1>1, FlattenDefined
<1>3. g[Len(tt)] = IF Len(tt) = 1 THEN tt[Len(tt)] ELSE g[Len(tt) - 1] \o tt[Len(tt)]
  <2>1. Len(tt) \in 1..Len(tt) /\ Len(tt) \in Nat
    BY <1>1
  <2> QED BY <1>2, <2>1, FlattensAt
<1>4. CASE ss = <<>>
  <2>1. FlattenSeq(ss) \o s = s
    BY <1>4, FlattenNothing
  <2> QED BY <1>1, <1>2, <1>3, <1>4, <2>1 DEF tt
<1>5. CASE ss # <<>>
  <2>1. PICK f \in [1..Len(ss) -> Seq(S)] : Flattens(f, ss, Len(ss)) /\ FlattenSeq(ss) = f[Len(ss)]
    BY <1>5, FlattenDefined
  <2>2. SameUpTo(f, g, Len(ss))
    <3>1. Len(ss) \in Nat /\ Len(tt) \in Nat /\ Len(ss) <= Len(tt)
      BY <1>1
    <3>2. Flattens(f, ss, Len(ss)) /\ Flattens(g, tt, Len(tt))
      BY <1>2, <2>1
    <3>3. SameUpTo(ss, tt, Len(ss))
      BY <1>1 DEF SameUpTo
    <3> QED BY <3>1, <3>2, <3>3, FlattensAgree
  <2>3. Len(ss) \in 1..Len(ss) /\ Len(tt) # 1 /\ Len(tt) - 1 = Len(ss)
    BY <1>1, <1>5
  <2> QED BY <1>1, <1>2, <1>3, <2>1, <2>2, <2>3 DEF tt, SameUpTo
<1> QED BY <1>4, <1>5
LEMMA FlattenAppendOne ==
    ASSUME NEW S, NEW ss \in Seq(Seq(S)), NEW x \in S
    PROVE  FlattenSeq(Append(ss, <<x>>)) = Append(FlattenSeq(ss), x)
<1>1. <<x>> \in Seq(S) /\ FlattenSeq(ss) \in Seq(S)
  BY FlattenType
<1>2. FlattenSeq(Append(ss, <<x>>)) = FlattenSeq(ss) \o <<x>>
  BY <1>1, FlattenAppend
<1>3. \A t \in Seq(S) : t \o <<x>> = Append(t, x)
  OBVIOUS
<1> QED BY <1>1, <1>2, <1>3

-----------------------------------------------------------------------------
(* SetToSeq and concatenation *)

\* SetToSeq lists a finite set.
LEMMA SetToSeqDefined ==
    ASSUME NEW S, IsFiniteSet(S)
    PROVE  /\ SetToSeq(S) \in Seq(S) /\ Len(SetToSeq(S)) = Cardinality(S)
           /\ Cardinality(S) \in Nat
           /\ \A x \in S : \E i \in 1..Len(SetToSeq(S)) : SetToSeq(S)[i] = x
<1>1. Cardinality(S) \in Nat /\ ExistsBijection(1..Cardinality(S), S)
  BY FS_CardinalityType
<1> DEFINE n == Cardinality(S)
<1> HIDE DEF n
<1>2. n \in Nat /\ \E f : f \in Bijection(1..n, S)
  BY <1>1 DEF ExistsBijection, n
<1>3. \E f \in [1..n -> S] : IsInjective(f)
  BY <1>2 DEF Bijection, Injection
<1> DEFINE s == SetToSeq(S)
<1>4. s \in [1..n -> S] /\ IsInjective(s)
  BY <1>3 DEF SetToSeq, n
<1> HIDE DEF s
<1>5. s \in Injection(1..n, S)
  BY <1>4 DEF Injection
<1>6. IsFiniteSet(1..n) /\ Cardinality(1..n) = n
  BY <1>2, FS_Interval
<1>7. s \in Surjection(1..n, S)
  BY <1>5, <1>6, FS_Injection DEF n
<1>8. s \in Seq(S) /\ Len(s) = n
  BY <1>2, <1>4
<1>9. \A x \in S : \E i \in 1..n : s[i] = x
  BY <1>7 DEF Surjection
<1> QED BY <1>2, <1>8, <1>9 DEF s, n

\* What is at the places of a concatenation.
LEMMA ConcatAt ==
    ASSUME NEW S, NEW s \in Seq(S), NEW t \in Seq(S)
    PROVE  /\ s \o t \in Seq(S) /\ Len(s \o t) = Len(s) + Len(t)
           /\ \A i \in 1..Len(s) : (s \o t)[i] = s[i]
           /\ \A i \in 1..Len(t) : Len(s) + i \in 1..Len(s \o t) /\ (s \o t)[Len(s) + i] = t[i]
           /\ \A i \in 1..Len(s \o t) : i \in 1..Len(s) \/ i - Len(s) \in 1..Len(t)
           /\ \A i \in 1..Len(s \o t) : i - Len(s) \in 1..Len(t) => (s \o t)[i] = t[i - Len(s)]
<1>1. /\ s \o t \in Seq(S) /\ Len(s \o t) = Len(s) + Len(t)
      /\ \A i \in 1..Len(s) + Len(t) : (s \o t)[i] = IF i <= Len(s) THEN s[i] ELSE t[i - Len(s)]
  BY ConcatProperties
<1>2. Len(s) \in Nat /\ Len(t) \in Nat
  BY LenProperties
<1> DEFINE u == s \o t
<1> HIDE DEF u
<1>3. Len(u) = Len(s) + Len(t)
  BY <1>1 DEF u
<1>4. \A i \in 1..Len(s) + Len(t) : u[i] = IF i <= Len(s) THEN s[i] ELSE t[i - Len(s)]
  BY <1>1 DEF u
<1>5. \A i \in 1..Len(s) : u[i] = s[i]
  BY <1>2, <1>4
<1>6. ASSUME NEW i \in 1..Len(t) PROVE Len(s) + i \in 1..Len(u) /\ u[Len(s) + i] = t[i]
  <2>1. Len(s) + i \in 1..Len(s) + Len(t) /\ ~ (Len(s) + i <= Len(s)) /\ (Len(s) + i) - Len(s) = i
    BY <1>2
  <2> QED BY <1>3, <1>4, <2>1
<1>7. ASSUME NEW i \in 1..Len(u)
      PROVE  /\ i \in 1..Len(s) \/ i - Len(s) \in 1..Len(t)
             /\ i - Len(s) \in 1..Len(t) => u[i] = t[i - Len(s)]
  <2>1. i \in 1..Len(s) + Len(t)
    BY <1>3
  <2>2. i \in 1..Len(s) \/ i - Len(s) \in 1..Len(t)
    BY <1>2, <2>1
  <2>3. i - Len(s) \in 1..Len(t) => ~ (i <= Len(s))
    BY <1>2, <2>1
  <2> QED BY <1>4, <2>1, <2>2, <2>3
<1> QED BY <1>1, <1>5, <1>6, <1>7 DEF u

\* Where the sequences lie in the one they are flattened to: the kth ends at
\* at[k].
Places(at, t, ss) ==
    /\ at[0] = 0 /\ at[Len(ss)] = Len(t)
    /\ \A k \in 1..Len(ss) : /\ at[k] = at[k - 1] + Len(ss[k])
                            /\ \A i \in 1..Len(ss[k]) : /\ at[k - 1] + i \in 1..Len(t)
                                                       /\ t[at[k - 1] + i] = ss[k][i]

Begins(s, t) == Len(s) <= Len(t) /\ \A j \in 1..Len(s) : t[j] = s[j]

LEMMA FlattenPlaces ==
    ASSUME NEW S, NEW ss \in Seq(Seq(S))
    PROVE  \E at \in [0..Len(ss) -> Nat] : Places(at, FlattenSeq(ss), ss)
<1>1. CASE ss = <<>>
  <2> DEFINE at == [k \in 0..0 |-> 0]
  <2>1. at \in [0..0 -> Nat] /\ at[0] = 0
    OBVIOUS
  <2>2. Len(ss) = 0 /\ FlattenSeq(ss) = <<>> /\ Len(<<>>) = 0 /\ 1..0 = {}
    BY <1>1, FlattenNothing
  <2> HIDE DEF at
  <2> QED BY <1>1, <2>1, <2>2 DEF Places
<1>2. CASE ss # <<>>
  <2> DEFINE n == Len(ss)
  <2>1. n \in Nat /\ n >= 1 /\ \A k \in 1..n : ss[k] \in Seq(S)
    BY <1>2, LenProperties, ElementOfSeq, EmptySeq
  <2>2. PICK f \in [1..n -> Seq(S)] : Flattens(f, ss, n) /\ FlattenSeq(ss) = f[n]
    BY <1>2, FlattenDefined
  <2> HIDE DEF n
  <2> DEFINE at == [k \in 0..n |-> IF k = 0 THEN 0 ELSE Len(f[k])]
  <2>3. \A k \in 1..n : f[k] \in Seq(S) /\ Len(f[k]) \in Nat /\ at[k] = Len(f[k])
    <3>1. \A k \in 1..n : f[k] \in Seq(S)
      OBVIOUS
    <3>2. \A k \in 1..n : Len(f[k]) \in Nat
      BY <3>1, LenProperties
    <3>3. \A k \in 1..n : k \in 0..n /\ k # 0
      BY <2>1
    <3> QED BY <3>1, <3>2, <3>3
  <2>4. at \in [0..n -> Nat] /\ at[0] = 0
    <3>1. \A k \in 0..n : k # 0 => k \in 1..n
      BY <2>1
    <3>2. 0 \in 0..n
      BY <2>1
    <3> QED BY <2>3, <3>1, <3>2
  <2> HIDE DEF at
  <2>5. ASSUME NEW k \in 1..n
        PROVE  /\ at[k] = at[k - 1] + Len(ss[k])
               /\ \A i \in 1..Len(ss[k]) : /\ f[k][at[k - 1] + i] = ss[k][i]
                                          /\ at[k - 1] + i \in 1..Len(f[k])
    <3>1. f[k] = IF k = 1 THEN ss[k] ELSE f[k - 1] \o ss[k]
      BY <2>1, <2>2, FlattensAt
    <3>2. ss[k] \in Seq(S) /\ Len(ss[k]) \in Nat
      BY <2>1, LenProperties
    <3>3. CASE k = 1
      <4>1. at[k - 1] = 0
        BY <2>4, <3>3
      <4>2. f[k] = ss[k] /\ at[k] = Len(ss[k])
        BY <2>3, <3>1, <3>3
      <4>3. \A i \in 1..Len(ss[k]) : 0 + i = i
        OBVIOUS
      <4> QED BY <3>2, <4>1, <4>2, <4>3
    <3>4. CASE k # 1
      <4>1. k - 1 \in 1..n
        BY <2>1, <3>4
      <4>2. f[k - 1] \in Seq(S) /\ at[k - 1] = Len(f[k - 1]) /\ at[k] = Len(f[k])
        BY <2>3, <4>1
      <4>3. f[k] = f[k - 1] \o ss[k]
        BY <3>1, <3>4
      <4>4. /\ Len(f[k - 1] \o ss[k]) = Len(f[k - 1]) + Len(ss[k])
            /\ \A i \in 1..Len(ss[k]) :
                 /\ Len(f[k - 1]) + i \in 1..Len(f[k - 1] \o ss[k])
                 /\ (f[k - 1] \o ss[k])[Len(f[k - 1]) + i] = ss[k][i]
        <5> DEFINE a == f[k - 1]
        <5> DEFINE b == ss[k]
        <5>1. a \in Seq(S) /\ b \in Seq(S)
          BY <3>2, <4>2
        <5> HIDE DEF a, b
        <5>2. /\ Len(a \o b) = Len(a) + Len(b)
              /\ \A i \in 1..Len(b) : /\ Len(a) + i \in 1..Len(a \o b)
                                     /\ (a \o b)[Len(a) + i] = b[i]
          BY <5>1, ConcatAt
        <5> QED BY <5>2 DEF a, b
      <4> QED BY <4>2, <4>3, <4>4
    <3> QED BY <3>3, <3>4
  <2>6. ASSUME NEW k \in 1..n PROVE Begins(f[k], f[n])
    <3> DEFINE T == {m \in Nat : k + m <= n => Begins(f[k], f[k + m])}
    <3>1. 0 \in T
      <4>1. k + 0 = k /\ Len(f[k]) <= Len(f[k])
        BY <2>3
      <4> QED BY <4>1 DEF Begins
    <3>2. ASSUME NEW m \in T PROVE m + 1 \in T
      <4> SUFFICES ASSUME k + (m + 1) <= n PROVE Begins(f[k], f[k + (m + 1)])
        BY <3>2
      <4>1. m \in Nat /\ k + m \in 1..n /\ k + (m + 1) \in 1..n /\ (k + (m + 1)) - 1 = k + m
            /\ k + (m + 1) # 1 /\ k + m <= n
        BY <2>1
      <4>2. Begins(f[k], f[k + m])
        BY <3>2, <4>1
      <4>3. f[k + (m + 1)] = f[k + m] \o ss[k + (m + 1)]
        <5> DEFINE i == k + (m + 1)
        <5>1. i \in 1..n /\ i # 1 /\ i - 1 = k + m
          BY <4>1
        <5> HIDE DEF i
        <5>2. f[i] = IF i = 1 THEN ss[i] ELSE f[i - 1] \o ss[i]
          BY <2>1, <2>2, <5>1, FlattensAt
        <5>3. f[i] = f[k + m] \o ss[i]
          BY <5>1, <5>2
        <5> QED BY <5>3 DEF i
      <4>4. f[k + m] \in Seq(S) /\ ss[k + (m + 1)] \in Seq(S)
        BY <2>1, <2>3, <4>1
      <4>5. /\ Len(f[k + m] \o ss[k + (m + 1)]) = Len(f[k + m]) + Len(ss[k + (m + 1)])
            /\ \A i \in 1..Len(f[k + m]) : (f[k + m] \o ss[k + (m + 1)])[i] = f[k + m][i]
        <5> DEFINE a == f[k + m]
        <5> DEFINE b == ss[k + (m + 1)]
        <5>1. a \in Seq(S) /\ b \in Seq(S)
          BY <4>4
        <5> HIDE DEF a, b
        <5>2. Len(a \o b) = Len(a) + Len(b) /\ \A i \in 1..Len(a) : (a \o b)[i] = a[i]
          BY <5>1, ConcatAt
        <5> QED BY <5>2 DEF a, b
      <4>6. Len(f[k + m]) \in Nat /\ Len(ss[k + (m + 1)]) \in Nat /\ Len(f[k]) \in Nat
        BY <2>3, <4>4, LenProperties
      <4> DEFINE g == f[k + (m + 1)]
      <4>7. Len(g) = Len(f[k + m]) + Len(ss[k + (m + 1)])
            /\ \A i \in 1..Len(f[k + m]) : g[i] = f[k + m][i]
        BY <4>3, <4>5
      <4> HIDE DEF g
      <4>8. Len(f[k]) <= Len(f[k + m]) /\ \A j \in 1..Len(f[k]) : f[k + m][j] = f[k][j]
        BY <4>2 DEF Begins
      <4>9. Len(f[k]) <= Len(g) /\ \A j \in 1..Len(f[k]) : j \in 1..Len(f[k + m])
        <5> DEFINE a == Len(f[k])
        <5> DEFINE b == Len(f[k + m])
        <5> DEFINE c == Len(ss[k + (m + 1)])
        <5>1. a \in Nat /\ b \in Nat /\ c \in Nat /\ a <= b /\ Len(g) = b + c
          BY <4>6, <4>7, <4>8
        <5> HIDE DEF a, b, c
        <5>2. a <= b + c /\ \A j \in 1..a : j \in 1..b
          BY <5>1
        <5> QED BY <5>1, <5>2 DEF a, b
      <4>10. \A j \in 1..Len(f[k]) : g[j] = f[k][j]
        BY <4>7, <4>8, <4>9
      <4> QED BY <4>9, <4>10 DEF Begins, g
    <3>3. T = Nat
      <4>1. T \in SUBSET Nat
        OBVIOUS
      <4> HIDE DEF T
      <4> QED BY <3>1, <3>2, <4>1, Induction
    <3>4. n - k \in Nat /\ k + (n - k) = n /\ k + (n - k) <= n
      BY <2>1
    <3>5. n - k \in T
      BY <3>3, <3>4
    <3> QED BY <3>4, <3>5
  <2>7. at[n] = Len(f[n])
    BY <2>1, <2>3
  <2>8. ASSUME NEW k \in 1..n, NEW i \in 1..Len(ss[k])
        PROVE  at[k - 1] + i \in 1..Len(f[n]) /\ f[n][at[k - 1] + i] = ss[k][i]
    <3>1. f[k][at[k - 1] + i] = ss[k][i] /\ at[k - 1] + i \in 1..Len(f[k])
      BY <2>5
    <3>2. Len(f[k]) <= Len(f[n]) /\ \A j \in 1..Len(f[k]) : f[n][j] = f[k][j]
      BY <2>6 DEF Begins
    <3>3. n \in 1..n
      BY <2>1
    <3>4. Len(f[k]) \in Nat /\ Len(f[n]) \in Nat
      BY <2>3, <3>3
    <3> QED BY <3>1, <3>2, <3>4
  <2>9. Places(at, FlattenSeq(ss), ss)
    BY <2>2, <2>4, <2>5, <2>7, <2>8 DEF Places, n
  <2> QED BY <2>4, <2>9 DEF n
<1> QED BY <1>1, <1>2

-----------------------------------------------------------------------------
(* Parts of sequences *)

LEMMA Part ==
    ASSUME NEW S, NEW t \in Seq(S), NEW a \in Nat, a >= 1, NEW b \in Nat,
           a <= b + 1, b <= Len(t)
    PROVE  /\ SubSeq(t, a, b) \in Seq(S) /\ Len(SubSeq(t, a, b)) = (b - a) + 1
           /\ \A k \in 1..(b - a) + 1 : SubSeq(t, a, b)[k] = t[(a + k) - 1]
<1>1. Len(t) \in Nat
  BY LenProperties
<1>2. a \in Int /\ b \in Int
  OBVIOUS
<1>3. \A k \in a..b : k \in 1..Len(t)
  BY <1>1
<1>4. \A k \in a..b : t[k] \in S
  BY <1>3, ElementOfSeq
<1>5. /\ SubSeq(t, a, b) \in Seq(S)
      /\ Len(SubSeq(t, a, b)) = IF a <= b THEN (b - a) + 1 ELSE 0
      /\ \A k \in 1..(b - a) + 1 : SubSeq(t, a, b)[k] = t[(a + k) - 1]
  BY <1>2, <1>4, SubSeqProperties
<1>6. (IF a <= b THEN (b - a) + 1 ELSE 0) = (b - a) + 1
  OBVIOUS
<1> QED BY <1>5, <1>6

LEMMA PartOfPart ==
    ASSUME NEW S, NEW t \in Seq(S), NEW a \in Nat, a >= 1, NEW b \in Nat,
           a <= b + 1, b <= Len(t), NEW c \in Nat, c >= 1, NEW d \in Nat,
           c <= d + 1, d <= (b - a) + 1
    PROVE  SubSeq(SubSeq(t, a, b), c, d) = SubSeq(t, (a + c) - 1, (a + d) - 1)
<1> DEFINE u == SubSeq(t, a, b)
<1>1. /\ u \in Seq(S) /\ Len(u) = (b - a) + 1
      /\ \A k \in 1..(b - a) + 1 : u[k] = t[(a + k) - 1]
  BY Part
<1> HIDE DEF u
<1> DEFINE x == SubSeq(u, c, d)
<1>2. /\ x \in Seq(S) /\ Len(x) = (d - c) + 1
      /\ \A k \in 1..(d - c) + 1 : x[k] = u[(c + k) - 1]
  BY <1>1, Part
<1> HIDE DEF x
<1> DEFINE y == SubSeq(t, (a + c) - 1, (a + d) - 1)
<1>3. /\ y \in Seq(S) /\ Len(y) = (d - c) + 1
      /\ \A k \in 1..(d - c) + 1 : y[k] = t[(((a + c) - 1) + k) - 1]
  <2> DEFINE e == (a + c) - 1
  <2> DEFINE g == (a + d) - 1
  <2>1. e \in Nat /\ g \in Nat /\ e >= 1 /\ e <= g + 1 /\ g <= b /\ (g - e) + 1 = (d - c) + 1
    OBVIOUS
  <2>2. Len(t) \in Nat
    BY LenProperties
  <2>3. g <= Len(t)
    BY <2>1, <2>2
  <2> HIDE DEF e, g
  <2>4. /\ SubSeq(t, e, g) \in Seq(S) /\ Len(SubSeq(t, e, g)) = (g - e) + 1
        /\ \A k \in 1..(g - e) + 1 : SubSeq(t, e, g)[k] = t[(e + k) - 1]
    BY <2>1, <2>3, Part
  <2>5. y = SubSeq(t, e, g)
    BY DEF e, g
  <2> HIDE DEF y
  <2> QED BY <2>1, <2>4, <2>5 DEF e
<1> HIDE DEF y
<1>4. ASSUME NEW k \in 1..Len(x) PROVE x[k] = y[k]
  <2>1. k \in 1..(d - c) + 1
    BY <1>2
  <2>2. (c + k) - 1 \in 1..(b - a) + 1 /\ (a + ((c + k) - 1)) - 1 = (((a + c) - 1) + k) - 1
    BY <2>1
  <2> QED BY <1>1, <1>2, <1>3, <2>1, <2>2
<1>5. x = y
  BY <1>2, <1>3, <1>4, SeqEqual
<1> QED BY <1>5 DEF x, y, u

\* What is at the places behind a first element.
LEMMA Prepended ==
    ASSUME NEW S, NEW a \in S, NEW s \in Seq(S)
    PROVE  /\ <<a>> \o s \in Seq(S) /\ Len(<<a>> \o s) = Len(s) + 1 /\ (<<a>> \o s)[1] = a
           /\ \A n \in 1..Len(s) : (<<a>> \o s)[n + 1] = s[n]
           /\ \A n \in 1..Len(s) + 1 : n = 1 \/ n - 1 \in 1..Len(s)
<1> DEFINE b == <<a>>
<1>1. b \in Seq(S) /\ Len(b) = 1 /\ b[1] = a
  OBVIOUS
<1> HIDE DEF b
<1>2. /\ b \o s \in Seq(S) /\ Len(b \o s) = Len(b) + Len(s)
      /\ \A i \in 1..Len(b) : (b \o s)[i] = b[i]
      /\ \A i \in 1..Len(s) : (b \o s)[Len(b) + i] = s[i]
  <2>1. b \in Seq(S) /\ s \in Seq(S)
    BY <1>1
  <2> QED BY <2>1, ConcatAt
<1>3. Len(s) \in Nat
  BY LenProperties
<1> DEFINE u == b \o s
<1>4. u \in Seq(S) /\ Len(u) = Len(s) + 1 /\ u[1] = a
  BY <1>1, <1>2, <1>3
<1>5. ASSUME NEW n \in 1..Len(s) PROVE u[n + 1] = s[n]
  <2>1. Len(b) + n = n + 1
    BY <1>1
  <2> QED BY <1>2, <2>1
<1>6. \A n \in 1..Len(s) + 1 : n = 1 \/ n - 1 \in 1..Len(s)
  BY <1>3
<1>7. u = <<a>> \o s
  BY DEF b
<1> HIDE DEF u
<1> QED BY <1>4, <1>5, <1>6, <1>7

\* The parts of a part before and behind its place c, which is m in t.
LEMMA PartsAround ==
    ASSUME NEW S, NEW t \in Seq(S), NEW i \in Nat, i >= 1, NEW q \in Nat, q <= Len(t) + 1,
           NEW m \in Nat, i <= m, m < q, NEW c \in Nat, c = (m - i) + 1
    PROVE  /\ SubSeq(t, i, q - 1) \in Seq(S) /\ Len(SubSeq(t, i, q - 1)) = q - i
           /\ c \in 1..Len(SubSeq(t, i, q - 1)) /\ SubSeq(t, i, q - 1)[c] = t[m]
           /\ SubSeq(SubSeq(t, i, q - 1), 1, c - 1) = SubSeq(t, i, m - 1)
           /\ SubSeq(SubSeq(t, i, q - 1), c + 1, Len(SubSeq(t, i, q - 1))) = SubSeq(t, m + 1, q - 1)
<1> DEFINE b == q - 1
<1> DEFINE u == SubSeq(t, i, b)
<1> DEFINE n == (b - i) + 1
<1>0. Len(t) \in Nat
  BY LenProperties
<1>1. b \in Nat /\ i <= b + 1 /\ b <= Len(t) /\ n = q - i /\ n \in Nat /\ m <= b
  BY <1>0
<1> HIDE DEF b
<1>2. u \in Seq(S) /\ Len(u) = n /\ \A k \in 1..n : u[k] = t[(i + k) - 1]
  BY <1>1, Part
<1>3. c \in 1..n /\ (i + c) - 1 = m
  BY <1>1
<1>4. u[c] = t[m]
  BY <1>2, <1>3
<1>5. SubSeq(u, 1, c - 1) = SubSeq(t, i, m - 1)
  <2> DEFINE d == c - 1
  <2>1. d \in Nat /\ d <= (b - i) + 1 /\ 1 <= d + 1 /\ (i + 1) - 1 = i /\ (i + d) - 1 = m - 1
    BY <1>1, <1>3
  <2> HIDE DEF d, u
  <2>2. SubSeq(SubSeq(t, i, b), 1, d) = SubSeq(t, (i + 1) - 1, (i + d) - 1)
    BY <1>1, <2>1, PartOfPart
  <2> QED BY <2>1, <2>2 DEF d, u
<1>6. SubSeq(u, c + 1, n) = SubSeq(t, m + 1, b)
  <2> DEFINE e == c + 1
  <2>1. e \in Nat /\ e >= 1 /\ e <= n + 1 /\ (i + e) - 1 = m + 1 /\ (i + n) - 1 = b /\ n <= (b - i) + 1
    BY <1>1, <1>3
  <2> HIDE DEF e, u, n
  <2>2. SubSeq(SubSeq(t, i, b), e, n) = SubSeq(t, (i + e) - 1, (i + n) - 1)
    BY <1>1, <2>1, PartOfPart
  <2> QED BY <2>1, <2>2 DEF e, u
<1> HIDE DEF u, n
<1>7. /\ u \in Seq(S) /\ Len(u) = q - i /\ c \in 1..Len(u) /\ u[c] = t[m]
      /\ SubSeq(u, 1, c - 1) = SubSeq(t, i, m - 1)
      /\ SubSeq(u, c + 1, Len(u)) = SubSeq(t, m + 1, b)
  BY <1>1, <1>2, <1>3, <1>4, <1>5, <1>6
<1> QED BY <1>7 DEF u, b

\* u is written in t from its place a on.
Holds(t, a, u) == \A k \in 1..Len(u) : t[(a + k) - 1] = u[k]

LEMMA PartIs ==
    ASSUME NEW S, NEW t \in Seq(S), NEW u \in Seq(S), NEW a \in Nat, a >= 1,
           (a + Len(u)) - 1 <= Len(t), Holds(t, a, u)
    PROVE  SubSeq(t, a, (a + Len(u)) - 1) = u
<1>1. Len(u) \in Nat /\ Len(t) \in Nat
  BY LenProperties
<1> DEFINE b == (a + Len(u)) - 1
<1> DEFINE w == SubSeq(t, a, b)
<1>2. b \in Nat /\ a <= b + 1 /\ b <= Len(t) /\ (b - a) + 1 = Len(u)
  BY <1>1
<1> HIDE DEF b
<1>3. /\ w \in Seq(S) /\ Len(w) = (b - a) + 1
      /\ \A k \in 1..(b - a) + 1 : w[k] = t[(a + k) - 1]
  BY <1>2, Part
<1> HIDE DEF w
<1>4. Len(w) = Len(u) /\ \A k \in 1..Len(u) : w[k] = u[k]
  BY <1>2, <1>3 DEF Holds
<1>5. w = u
  BY <1>3, <1>4, SeqEqual
<1> QED BY <1>5 DEF w, b

\* Two sequences with x between them.
Joined(s, x, t) == (s \o <<x>>) \o t

IsJoined(w, s, x, t, S) ==
    /\ w \in Seq(S) /\ Len(s) + 1 \in 1..Len(w) /\ w[Len(s) + 1] = x
    /\ SubSeq(w, 1, Len(s)) = s /\ SubSeq(w, Len(s) + 2, Len(w)) = t

LEMMA JoinedParts ==
    ASSUME NEW S, NEW s \in Seq(S), NEW x \in S, NEW t \in Seq(S)
    PROVE  IsJoined(Joined(s, x, t), s, x, t, S)
<1> DEFINE m == <<x>>
<1> DEFINE b == s \o m
<1> DEFINE w == b \o t
<1>1. m \in Seq(S) /\ Len(m) = 1 /\ m[1] = x
  OBVIOUS
<1> HIDE DEF m
<1>2. /\ b \in Seq(S) /\ Len(b) = Len(s) + Len(m)
      /\ \A i \in 1..Len(s) : b[i] = s[i]
      /\ \A i \in 1..Len(m) : b[Len(s) + i] = m[i]
  <2>1. s \in Seq(S) /\ m \in Seq(S)
    BY <1>1
  <2> QED BY <2>1, ConcatAt
<1> HIDE DEF b
<1>3. /\ w \in Seq(S) /\ Len(w) = Len(b) + Len(t)
      /\ \A i \in 1..Len(b) : w[i] = b[i]
      /\ \A i \in 1..Len(t) : w[Len(b) + i] = t[i]
  <2>1. b \in Seq(S) /\ t \in Seq(S)
    BY <1>2
  <2> QED BY <2>1, ConcatAt
<1> HIDE DEF w
<1>4. Len(s) \in Nat /\ Len(t) \in Nat /\ Len(b) = Len(s) + 1 /\ Len(w) = (Len(s) + 1) + Len(t)
  BY <1>1, <1>2, <1>3, LenProperties
<1>5. Len(s) + 1 \in 1..Len(w) /\ Len(s) + 1 \in 1..Len(b) /\ 1 \in 1..Len(m)
  BY <1>1, <1>4
<1>6. w[Len(s) + 1] = x
  <2>1. b[Len(s) + 1] = m[1] /\ w[Len(s) + 1] = b[Len(s) + 1]
    BY <1>2, <1>3, <1>5
  <2> QED BY <1>1, <2>1
<1>7. SubSeq(w, 1, Len(s)) = s
  <2> DEFINE a == 1
  <2>1. \A k \in 1..Len(s) : (a + k) - 1 = k /\ k \in 1..Len(b)
    BY <1>4
  <2>2. a \in Nat /\ a >= 1 /\ (a + Len(s)) - 1 = Len(s) /\ (a + Len(s)) - 1 <= Len(w)
    BY <1>4
  <2> HIDE DEF a
  <2>3. Holds(w, a, s)
    BY <1>2, <1>3, <2>1 DEF Holds
  <2>4. SubSeq(w, a, (a + Len(s)) - 1) = s
    BY <1>3, <2>2, <2>3, PartIs
  <2> QED BY <2>2, <2>4 DEF a
<1>8. SubSeq(w, Len(s) + 2, Len(w)) = t
  <2> DEFINE a == Len(s) + 2
  <2>1. a \in Nat /\ a >= 1 /\ (a + Len(t)) - 1 = Len(w) /\ (a + Len(t)) - 1 <= Len(w)
    BY <1>4
  <2>2. \A k \in 1..Len(t) : (a + k) - 1 = Len(b) + k
    BY <1>4
  <2> HIDE DEF a
  <2>3. Holds(w, a, t)
    BY <1>3, <2>2 DEF Holds
  <2>4. SubSeq(w, a, (a + Len(t)) - 1) = t
    BY <1>3, <2>1, <2>3, PartIs
  <2> QED BY <2>1, <2>4 DEF a
<1>9. IsJoined(w, s, x, t, S)
  BY <1>3, <1>5, <1>6, <1>7, <1>8 DEF IsJoined
<1> QED BY <1>9 DEF Joined, m, b, w

\* What is left from n on begins with what is at n.
LEMMA RestOfSequence ==
    ASSUME NEW S, NEW v \in Seq(S), NEW n \in 1..Len(v)
    PROVE  /\ SubSeq(v, n, Len(v)) = <<v[n]>> \o SubSeq(v, n + 1, Len(v))
           /\ n = Len(v) => SubSeq(v, n, Len(v)) = <<v[n]>>
<1> DEFINE N == Len(v)
<1>1. N \in Nat /\ n \in Nat /\ n >= 1 /\ n <= N /\ n + 1 <= N + 1 /\ v[n] \in S /\ n <= N + 1
  BY LenProperties, ElementOfSeq
<1> HIDE DEF N
<1> DEFINE x == v[n]
<1> DEFINE r == SubSeq(v, n + 1, N)
<1>2. /\ r \in Seq(S) /\ Len(r) = (N - (n + 1)) + 1
      /\ \A k \in 1..(N - (n + 1)) + 1 : r[k] = v[((n + 1) + k) - 1]
  <2> DEFINE a == n + 1
  <2>1. a \in Nat /\ a >= 1 /\ a <= N + 1 /\ N <= Len(v)
    BY <1>1 DEF N
  <2> HIDE DEF a, r
  <2>2. /\ SubSeq(v, a, N) \in Seq(S) /\ Len(SubSeq(v, a, N)) = (N - a) + 1
        /\ \A k \in 1..(N - a) + 1 : SubSeq(v, a, N)[k] = v[(a + k) - 1]
    BY <1>1, <2>1, Part
  <2> QED BY <2>2 DEF a, r
<1> HIDE DEF r
<1> DEFINE w == <<x>> \o r
<1>3. /\ w \in Seq(S) /\ Len(w) = Len(r) + 1 /\ w[1] = x
      /\ \A k \in 1..Len(r) : w[k + 1] = r[k]
      /\ \A k \in 1..Len(r) + 1 : k = 1 \/ k - 1 \in 1..Len(r)
  <2>1. x \in S /\ r \in Seq(S)
    BY <1>1, <1>2
  <2> HIDE DEF x
  <2> QED BY <2>1, Prepended
<1> HIDE DEF w
<1>4. Len(w) = (N - n) + 1 /\ Len(r) = N - n
  BY <1>1, <1>2, <1>3
<1>5. Holds(v, n, w)
  <2> SUFFICES ASSUME NEW k \in 1..Len(w) PROVE v[(n + k) - 1] = w[k]
    BY DEF Holds
  <2>1. CASE k = 1
    BY <1>1, <1>3, <2>1
  <2>2. CASE k # 1
    <3>1. k - 1 \in 1..Len(r) /\ (k - 1) + 1 = k /\ ((n + 1) + (k - 1)) - 1 = (n + k) - 1
          /\ k - 1 \in 1..(N - (n + 1)) + 1
      BY <1>1, <1>2, <1>4, <2>2
    <3>2. w[(k - 1) + 1] = r[k - 1] /\ r[k - 1] = v[((n + 1) + (k - 1)) - 1]
      BY <1>2, <1>3, <3>1
    <3> QED BY <3>1, <3>2
  <2> QED BY <2>1, <2>2
<1>6. (n + Len(w)) - 1 = N /\ (n + Len(w)) - 1 <= Len(v)
  <2>1. (n + Len(w)) - 1 = N
    BY <1>1, <1>4
  <2> QED BY <1>1, <2>1 DEF N
<1>7. SubSeq(v, n, (n + Len(w)) - 1) = w
  BY <1>1, <1>3, <1>5, <1>6, PartIs
<1>8. n = N => w = <<x>>
  <2> SUFFICES ASSUME n = N PROVE w = <<x>>
    OBVIOUS
  <2>1. Len(w) = 1
    BY <1>1, <1>4
  <2>2. w \in Seq(S) /\ w[1] = x
    BY <1>3
  <2> HIDE DEF x
  <2> QED BY <2>1, <2>2
<1>9. SubSeq(v, n, N) = w
  BY <1>6, <1>7
<1> QED BY <1>8, <1>9 DEF w, r, x, N
=============================================================================
