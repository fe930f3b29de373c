------------------------ MODULE ImapGrammar_proofs ------------------------
(***************************************************************************)
(* What holds of the arguments of IMAP commands, for texts of any length,  *)
(* any tokens and any largest number: that FETCH is read whole or not at   *)
(* all, and that sequence sets and strings are read back.                  *)
(***************************************************************************)
EXTENDS FetchGrammar, StringGrammar, SequenceLemmas

-----------------------------------------------------------------------------
(* Runs *)

LEMMA RunEndIs ==
    ASSUME NEW text, NEW S, NEW i \in Nat, Len(text) \in Nat, NEW j \in i..Len(text) + 1,
           \A k \in i..j - 1 : text[k] \notin S, j \in DOMAIN text => text[j] \in S,
           DOMAIN text = 1..Len(text), i >= 1
    PROVE  RunEnd(text, i, S) = j
<1> DEFINE End(l) == /\ \A k \in i..l - 1 : text[k] \notin S
                     /\ l \in DOMAIN text => text[l] \in S
<1>1. End(j)
  OBVIOUS
<1>2. ASSUME NEW l \in i..Len(text) + 1, End(l) PROVE l = j
  <2>1. ~ (l < j)
    <3> SUFFICES ASSUME l < j PROVE FALSE
      OBVIOUS
    <3>1. l \in DOMAIN text /\ l \in i..j - 1
      OBVIOUS
    <3> QED BY <1>2, <3>1
  <2>2. ~ (j < l)
    <3> SUFFICES ASSUME j < l PROVE FALSE
      OBVIOUS
    <3>1. j \in DOMAIN text /\ j \in i..l - 1
      OBVIOUS
    <3> QED BY <1>1, <1>2, <3>1
  <2> QED BY <2>1, <2>2
<1>3. RunEnd(text, i, S) = CHOOSE l \in i..Len(text) + 1 : End(l)
  BY DEF RunEnd
<1> HIDE DEF End
<1> QED BY <1>1, <1>2, <1>3

\* What RunEnd(text, i, S) is if i is a place of the text or behind it.
EndsRun(text, i, S, e) ==
    /\ e \in i..Len(text) + 1
    /\ \A k \in i..e - 1 : text[k] \notin S
    /\ e \in DOMAIN text => text[e] \in S

LEMMA RunEndEnds ==
    ASSUME NEW T, NEW text \in Seq(T), NEW S, NEW i \in 1..Len(text) + 1
    PROVE  EndsRun(text, i, S, RunEnd(text, i, S))
<1>1. Len(text) \in Nat /\ DOMAIN text = 1..Len(text)
  BY LenProperties
<1> DEFINE A == {j \in i..Len(text) + 1 : j \in DOMAIN text => text[j] \in S}
<1>2. A \in SUBSET Nat /\ Len(text) + 1 \in A
  BY <1>1
<1>3. PICK e \in A : \A j \in A : e <= j
  <2> HIDE DEF A
  <2> QED BY <1>2, Least
<1>4. ASSUME NEW k \in i..e - 1 PROVE text[k] \notin S
  <2>1. k \in i..Len(text) + 1 /\ ~ (e <= k) /\ k \in DOMAIN text
    BY <1>1, <1>3
  <2>2. k \notin A
    BY <1>3, <2>1
  <2> QED BY <2>1, <2>2
<1>5. EndsRun(text, i, S, e)
  BY <1>3, <1>4 DEF EndsRun
<1>6. RunEnd(text, i, S) = e
  BY <1>1, <1>5, RunEndIs DEF EndsRun
<1> QED BY <1>5, <1>6

\* Two runs to the same place.
LEMMA RunEndOne ==
    ASSUME NEW T, NEW text \in Seq(T), NEW S, NEW i \in 1..Len(text) + 1, NEW e,
           EndsRun(text, i, S, e)
    PROVE  RunEnd(text, i, S) = e
<1>1. Len(text) \in Nat /\ DOMAIN text = 1..Len(text) /\ i \in Nat /\ i >= 1
  BY LenProperties
<1> QED BY <1>1, RunEndIs DEF EndsRun

-----------------------------------------------------------------------------
(* Lists *)

Items(W) == [to : Nat, value : W]

\* Elements are not empty, and within the text.
Elements(text, elements, W) ==
    /\ elements \in [1..Len(text) + 1 -> SUBSET Items(W)]
    /\ \A j \in 1..Len(text) + 1 : \A e \in elements[j] : e.to \in j + 1..Len(text) + 1

\* What is read behind an element, if f[j] is what is read at j.
More(f, text, separator, e) ==
    {Result(m.to, <<e.value>> \o m.value) :
        m \in IF At(text, e.to, separator) THEN f[e.to + 1] ELSE {}}

ListFrom(f, text, separator, elements, j) ==
    UNION {Else(More(f, text, separator, e), {Result(e.to, <<e.value>>)}) : e \in elements[j]}

Lists(f, text, separator, elements) ==
    \A j \in 1..Len(text) + 1 : f[j] = ListFrom(f, text, separator, elements, j)

LEMMA MoreType ==
    ASSUME NEW text, NEW separator, NEW W, NEW e \in Items(W),
           NEW f \in [1..Len(text) + 1 -> SUBSET Items(Seq(W))], Len(text) \in Nat,
           DOMAIN text = 1..Len(text)
    PROVE  More(f, text, separator, e) \in SUBSET Items(Seq(W))
<1> SUFFICES ASSUME At(text, e.to, separator), NEW m \in f[e.to + 1]
             PROVE  Result(m.to, <<e.value>> \o m.value) \in Items(Seq(W))
  BY DEF More
<1>1. e.to + 1 \in 1..Len(text) + 1
  BY DEF At
<1>2. f[e.to + 1] \in SUBSET Items(Seq(W))
  BY <1>1
<1>3. m.to \in Nat /\ m.value \in Seq(W)
  BY <1>2 DEF Items
<1>4. <<e.value>> \in Seq(W)
  BY DEF Items
<1>5. <<e.value>> \o m.value \in Seq(W)
  BY <1>3, <1>4
<1> QED BY <1>3, <1>5 DEF Result, Items

LEMMA ListFromType ==
    ASSUME NEW text, NEW separator, NEW W, NEW elements, Elements(text, elements, W),
           NEW f \in [1..Len(text) + 1 -> SUBSET Items(Seq(W))], Len(text) \in Nat,
           DOMAIN text = 1..Len(text), NEW j \in 1..Len(text) + 1
    PROVE  ListFrom(f, text, separator, elements, j) \in SUBSET Items(Seq(W))
<1> SUFFICES ASSUME NEW e \in elements[j], NEW r \in Else(More(f, text, separator, e),
                                                         {Result(e.to, <<e.value>>)})
             PROVE  r \in Items(Seq(W))
  BY DEF ListFrom
<1>1. e \in Items(W)
  BY DEF Elements
<1>2. More(f, text, separator, e) \in SUBSET Items(Seq(W))
  BY <1>1, MoreType
<1>3. e.to \in Nat /\ <<e.value>> \in Seq(W)
  BY <1>1 DEF Items
<1>4. Result(e.to, <<e.value>>) \in Items(Seq(W))
  BY <1>3 DEF Items, Result
<1> QED BY <1>2, <1>4 DEF Else

LEMMA ListLooksAhead ==
    ASSUME NEW text, NEW separator, NEW W, NEW elements, Elements(text, elements, W),
           Len(text) \in Nat, DOMAIN text = 1..Len(text), NEW f, NEW g, NEW j \in 1..Len(text) + 1,
           \A k \in 1..Len(text) + 1 : k > j => f[k] = g[k]
    PROVE  ListFrom(f, text, separator, elements, j) = ListFrom(g, text, separator, elements, j)
<1>1. ASSUME NEW e \in elements[j] PROVE More(f, text, separator, e) = More(g, text, separator, e)
  <2>1. e.to \in j + 1..Len(text) + 1
    BY DEF Elements
  <2>2. At(text, e.to, separator) => e.to + 1 \in 1..Len(text) + 1 /\ e.to + 1 > j
    BY <2>1 DEF At
  <2> QED BY <2>2 DEF More
<1> QED BY <1>1 DEF ListFrom

\* SeparatedList is defined.
LEMMA SeparatedListIs ==
    ASSUME NEW text, NEW separator, NEW W, NEW elements, Elements(text, elements, W),
           Len(text) \in Nat, DOMAIN text = 1..Len(text), NEW i
    PROVE  \E f : /\ Lists(f, text, separator, elements)
                  /\ SeparatedList(text, i, separator, elements) = f[i]
<1> DEFINE D == 1..Len(text) + 1
<1> DEFINE V == SUBSET Items(Seq(W))
<1> DEFINE R(f, j) == ListFrom(f, text, separator, elements, j)
<1> DEFINE Eq(f) == f = [j \in D |-> R(f, j)]
<1>1. SeparatedList(text, i, separator, elements) = (CHOOSE f : Eq(f))[i]
  BY DEF SeparatedList, ListFrom, More
<1>2. \E f : Eq(f)
  <2> DEFINE rule == [f \in [D -> V] |-> [j \in D |-> R(f, j)]]
  <2> DEFINE rank == [j \in D |-> Len(text) + 1 - j]
  <2> DEFINE N == Len(text) + 2
  <2>1. Ranks(rank, D, N)
    BY DEF Ranks
  <2>2. \A f \in [D -> V], j \in D : R(f, j) \in V
    BY ListFromType
  <2>3. ASSUME NEW f \in [D -> V], NEW g \in [D -> V], NEW j \in D,
               \A k \in D : rank[k] < rank[j] => f[k] = g[k]
        PROVE  R(f, j) = R(g, j)
    <3>1. \A k \in D : k > j => f[k] = g[k]
      BY <2>3
    <3> QED BY <3>1, ListLooksAhead
  <2> HIDE DEF R, V, D, rank
  <2>4. rule \in [[D -> V] -> [D -> V]]
    BY <2>2
  <2>5. LooksBelow(rule, rank, D, V)
    BY <2>3 DEF LooksBelow
  <2>6. Recursive(rule, rank, N, D, V)
    <3>1. V # {}
      BY DEF V
    <3> HIDE DEF rule, N
    <3> QED BY <2>1, <2>4, <2>5, <3>1 DEF Recursive
  <2>7. PICK f \in [D -> V] : rule[f] = f
    <3> HIDE DEF rule, N
    <3> QED BY <2>6, Recursion
  <2> QED BY <2>7
<1> DEFINE F == CHOOSE f : Eq(f)
<1>3. Eq(F)
  BY <1>2
<1> HIDE DEF F, R
<1>4. \A j \in D : F[j] = R(F, j)
  <2>1. F = [j \in D |-> R(F, j)]
    BY <1>3
  <2> QED BY <2>1, Zenon
<1> HIDE DEF Eq
<1>5. SeparatedList(text, i, separator, elements) = F[i]
  BY <1>1 DEF F
<1>6. Lists(F, text, separator, elements)
  BY <1>4 DEF R, Lists
<1> QED BY <1>5, <1>6

\* How what is read comes about: e is its last element or its first.
LastElement(f, text, separator, e, r) ==
    /\ r = Result(e.to, <<e.value>>)
    /\ At(text, e.to, separator) => f[e.to + 1] = {}

FirstElement(f, text, separator, e, r) ==
    /\ At(text, e.to, separator)
    /\ \E m \in f[e.to + 1] : r = Result(m.to, <<e.value>> \o m.value)

LEMMA ListMember ==
    ASSUME NEW f, NEW text, NEW separator, NEW elements, Lists(f, text, separator, elements),
           NEW j \in 1..Len(text) + 1, NEW r \in f[j]
    PROVE  \E e \in elements[j] :
              LastElement(f, text, separator, e, r) \/ FirstElement(f, text, separator, e, r)
<1>1. r \in ListFrom(f, text, separator, elements, j)
  BY DEF Lists
<1>2. PICK e \in elements[j] : r \in Else(More(f, text, separator, e), {Result(e.to, <<e.value>>)})
  BY <1>1 DEF ListFrom
<1>3. CASE r \in More(f, text, separator, e)
  BY <1>3 DEF More, FirstElement
<1>4. CASE r \notin More(f, text, separator, e)
  <2>1. More(f, text, separator, e) = {} /\ r = Result(e.to, <<e.value>>)
    BY <1>2, <1>4 DEF Else
  <2>2. At(text, e.to, separator) => f[e.to + 1] = {}
    BY <2>1 DEF More
  <2> QED BY <2>1, <2>2 DEF LastElement
<1> QED BY <1>3, <1>4

LEMMA ListNotEmpty ==
    ASSUME NEW f, NEW text, NEW separator, NEW elements, Lists(f, text, separator, elements),
           NEW j \in 1..Len(text) + 1
    PROVE  f[j] # {} <=> elements[j] # {}
<1>1. f[j] = ListFrom(f, text, separator, elements, j)
  BY DEF Lists
<1>2. \A e \in elements[j] : Else(More(f, text, separator, e), {Result(e.to, <<e.value>>)}) # {}
  BY DEF Else
<1> QED BY <1>1, <1>2 DEF ListFrom

Stays(f, text, W, j) ==
    \A r \in f[j] : r.to \in j + 1..Len(text) + 1 /\ r.value \in Seq(W) /\ r.value # <<>>

LEMMA ListStays ==
    ASSUME NEW f, NEW text, NEW separator, NEW elements, Lists(f, text, separator, elements),
           NEW W, Elements(text, elements, W), Len(text) \in Nat, DOMAIN text = 1..Len(text),
           NEW i \in 1..Len(text) + 1
    PROVE  Stays(f, text, W, i)
<1> DEFINE Good == {j \in 1..Len(text) + 1 : Stays(f, text, W, j)}
<1>1. ASSUME NEW j \in 1..Len(text) + 1, \A k \in 1..Len(text) + 1 : k > j => k \in Good
      PROVE  j \in Good
  <2> SUFFICES ASSUME NEW r \in f[j]
               PROVE  r.to \in j + 1..Len(text) + 1 /\ r.value \in Seq(W) /\ r.value # <<>>
    BY DEF Stays
  <2>1. PICK e \in elements[j] :
              LastElement(f, text, separator, e, r) \/ FirstElement(f, text, separator, e, r)
    BY ListMember
  <2>2. e.to \in j + 1..Len(text) + 1 /\ e.value \in W
    <3>1. e \in Items(W)
      BY DEF Elements
    <3> QED BY <3>1 DEF Elements, Items
  <2>3. CASE LastElement(f, text, separator, e, r)
    <3>1. r.to = e.to /\ r.value = <<e.value>>
      BY <2>3 DEF LastElement, Result
    <3>2. <<e.value>> \in Seq(W) /\ <<e.value>> # <<>>
      BY <2>2
    <3> QED BY <2>2, <3>1, <3>2
  <2>4. CASE FirstElement(f, text, separator, e, r)
    <3>1. PICK m \in f[e.to + 1] : /\ e.to \in DOMAIN text /\ r.to = m.to
                                  /\ r.value = <<e.value>> \o m.value
      BY <2>4 DEF FirstElement, At, Result
    <3>2. e.to + 1 \in 1..Len(text) + 1 /\ e.to + 1 > j
      BY <2>2, <3>1
    <3>3. m.to \in (e.to + 1) + 1..Len(text) + 1 /\ m.value \in Seq(W)
      BY <1>1, <3>2 DEF Stays
    <3>4. r.to \in j + 1..Len(text) + 1
      BY <2>2, <3>1, <3>3
    <3>5. r.value \in Seq(W) /\ Len(r.value) = Len(m.value) + 1 /\ Len(m.value) \in Nat
      BY <2>2, <3>1, <3>3, Prepended, LenProperties
    <3>6. r.value # <<>>
      BY <3>5, EmptySeq
    <3> QED BY <3>4, <3>5, <3>6
  <2> QED BY <2>1, <2>3, <2>4
<1> HIDE DEF Good
<1>2. Climbs(Good, Len(text) + 1)
  BY <1>1 DEF Climbs
<1>3. i \in Good
  BY <1>2, Backwards
<1> QED BY <1>3 DEF Good

\* The element at j is e, which is all that can be read there.
Only(elements, j, e) == elements[j] = {e}

LEMMA ListEnds ==
    ASSUME NEW f, NEW text, NEW separator, NEW elements, Lists(f, text, separator, elements),
           NEW j \in 1..Len(text) + 1, NEW e, Only(elements, j, e), ~ At(text, e.to, separator)
    PROVE  Only(f, j, Result(e.to, <<e.value>>))
<1>1. f[j] = ListFrom(f, text, separator, elements, j)
  BY DEF Lists
<1>2. More(f, text, separator, e) = {}
  BY DEF More
<1>3. f[j] = Else(More(f, text, separator, e), {Result(e.to, <<e.value>>)})
  BY <1>1 DEF ListFrom, Only
<1> QED BY <1>2, <1>3 DEF Only, Else

LEMMA ListGoesOn ==
    ASSUME NEW f, NEW text, NEW separator, NEW elements, Lists(f, text, separator, elements),
           NEW j \in 1..Len(text) + 1, NEW e, Only(elements, j, e), At(text, e.to, separator),
           NEW m, Only(f, e.to + 1, m)
    PROVE  Only(f, j, Result(m.to, <<e.value>> \o m.value))
<1>1. f[j] = ListFrom(f, text, separator, elements, j)
  BY DEF Lists
<1>2. More(f, text, separator, e) = {Result(m.to, <<e.value>> \o m.value)}
  BY DEF More, Only
<1>3. f[j] = Else(More(f, text, separator, e), {Result(e.to, <<e.value>>)})
  BY <1>1 DEF ListFrom, Only
<1> QED BY <1>2, <1>3 DEF Only, Else

-----------------------------------------------------------------------------
(* Pieces *)

\* The pieces from j on, if g[k] are those from k on.
PiecesFrom(g, text, separator, end, j) ==
    <<SubSeq(text, j, RunEnd(text, j, {separator, end}) - 1)>>
    \o (IF At(text, RunEnd(text, j, {separator, end}), separator)
        THEN g[RunEnd(text, j, {separator, end}) + 1] ELSE <<>>)

Cuts(g, text, separator, end) ==
    \A j \in 1..Len(text) + 1 : g[j] = PiecesFrom(g, text, separator, end, j)

LEMMA PiecesFromType ==
    ASSUME NEW T, NEW text \in Seq(T), NEW separator, NEW end, NEW j \in 1..Len(text) + 1,
           NEW g, \A k \in 1..Len(text) + 1 : k > j => g[k] \in Seq(Seq(T))
    PROVE  PiecesFrom(g, text, separator, end, j) \in Seq(Seq(T))
<1> DEFINE S == {separator, end}
<1> DEFINE to == RunEnd(text, j, S)
<1>1. Len(text) \in Nat /\ DOMAIN text = 1..Len(text)
  BY LenProperties
<1>2. to \in j..Len(text) + 1 /\ to \in Nat /\ to - 1 \in Nat /\ j \in Nat /\ to - 1 <= Len(text)
  <2> HIDE DEF S
  <2>1. to \in j..Len(text) + 1
    BY RunEndEnds DEF EndsRun
  <2> QED BY <1>1, <2>1
<1> HIDE DEF S, to
<1>3. SubSeq(text, j, to - 1) \in Seq(T)
  BY <1>1, <1>2, Part
<1>4. (IF At(text, to, separator) THEN g[to + 1] ELSE <<>>) \in Seq(Seq(T))
  <2>1. CASE At(text, to, separator)
    <3>1. to + 1 \in 1..Len(text) + 1 /\ to + 1 > j
      BY <1>1, <1>2, <2>1 DEF At
    <3> QED BY <2>1, <3>1
  <2>2. CASE ~ At(text, to, separator)
    <3>1. <<>> \in Seq(Seq(T))
      OBVIOUS
    <3> QED BY <2>2, <3>1
  <2> QED BY <2>1, <2>2
<1> DEFINE u == SubSeq(text, j, to - 1)
<1> DEFINE w == IF At(text, to, separator) THEN g[to + 1] ELSE <<>>
<1>5. PiecesFrom(g, text, separator, end, j) = <<u>> \o w
  BY DEF PiecesFrom, S, to
<1>6. u \in Seq(T) /\ w \in Seq(Seq(T))
  BY <1>3, <1>4
<1> HIDE DEF u, w
<1>7. <<u>> \in Seq(Seq(T))
  BY <1>6
<1>8. <<u>> \o w \in Seq(Seq(T))
  BY <1>6, <1>7
<1> QED BY <1>5, <1>8

LEMMA PiecesLookAhead ==
    ASSUME NEW T, NEW text \in Seq(T), NEW separator, NEW end, NEW j \in 1..Len(text) + 1,
           NEW f, NEW g, \A k \in 1..Len(text) + 1 : k > j => f[k] = g[k]
    PROVE  PiecesFrom(f, text, separator, end, j) = PiecesFrom(g, text, separator, end, j)
<1> DEFINE S == {separator, end}
<1> DEFINE to == RunEnd(text, j, S)
<1>1. Len(text) \in Nat /\ DOMAIN text = 1..Len(text)
  BY LenProperties
<1>2. to \in j..Len(text) + 1
  <2> HIDE DEF S
  <2> QED BY RunEndEnds DEF EndsRun
<1> HIDE DEF S, to
<1>3. At(text, to, separator) => f[to + 1] = g[to + 1]
  <2> SUFFICES ASSUME At(text, to, separator) PROVE f[to + 1] = g[to + 1]
    OBVIOUS
  <2>1. to + 1 \in 1..Len(text) + 1 /\ to + 1 > j
    BY <1>1, <1>2 DEF At
  <2> QED BY <2>1
<1> QED BY <1>3 DEF PiecesFrom, S, to

\* g[j] are the pieces from j on, for a text of tokens of T.
Cutting(g, text, separator, end, T, i) ==
    /\ Cuts(g, text, separator, end)
    /\ \A j \in 1..Len(text) + 1 : g[j] \in Seq(Seq(T))
    /\ Pieces(text, i, separator, end) = g[i]

LEMMA PiecesIs ==
    ASSUME NEW T, NEW text \in Seq(T), NEW separator, NEW end, NEW i
    PROVE  \E g : Cutting(g, text, separator, end, T, i)
<1> DEFINE D == 1..Len(text) + 1
<1> DEFINE V == Seq(Seq(T))
<1> DEFINE R(f, j) == PiecesFrom(f, text, separator, end, j)
<1> DEFINE Eq(f) == f = [j \in D |-> R(f, j)]
<1>0. Len(text) \in Nat
  BY LenProperties
<1>1. Pieces(text, i, separator, end) = (CHOOSE f : Eq(f))[i]
  BY DEF Pieces, PiecesFrom
<1>2. \E f : Eq(f)
  <2> DEFINE rule == [f \in [D -> V] |-> [j \in D |-> R(f, j)]]
  <2> DEFINE rank == [j \in D |-> Len(text) + 1 - j]
  <2> DEFINE N == Len(text) + 2
  <2>1. Ranks(rank, D, N)
    BY <1>0 DEF Ranks
  <2>2. ASSUME NEW f \in [D -> V], NEW j \in D PROVE R(f, j) \in V
    BY PiecesFromType
  <2>3. ASSUME NEW f \in [D -> V], NEW g \in [D -> V], NEW j \in D,
               \A k \in D : rank[k] < rank[j] => f[k] = g[k]
        PROVE  R(f, j) = R(g, j)
    <3>1. \A k \in D : k > j => f[k] = g[k]
      BY <1>0, <2>3
    <3> QED BY <3>1, PiecesLookAhead
  <2>4. <<>> \in V
    OBVIOUS
  <2> HIDE DEF R, V, D, rank
  <2>5. rule \in [[D -> V] -> [D -> V]]
    BY <2>2
  <2>6. LooksBelow(rule, rank, D, V)
    BY <2>3 DEF LooksBelow
  <2>7. Recursive(rule, rank, N, D, V)
    <3> HIDE DEF rule, N
    <3> QED BY <2>1, <2>4, <2>5, <2>6 DEF Recursive
  <2>8. PICK f \in [D -> V] : rule[f] = f
    <3> HIDE DEF rule, N
    <3> QED BY <2>7, Recursion
  <2> QED BY <2>8
<1> DEFINE F == CHOOSE f : Eq(f)
<1>3. Eq(F)
  BY <1>2
<1> HIDE DEF F, R
<1>4. \A j \in D : F[j] = R(F, j)
  <2>1. F = [j \in D |-> R(F, j)]
    BY <1>3
  <2> QED BY <2>1, Zenon
<1> HIDE DEF Eq
<1>5. Pieces(text, i, separator, end) = F[i]
  BY <1>1 DEF F
<1>6. Cuts(F, text, separator, end)
  BY <1>4 DEF R, Cuts
<1>7. \A j \in D : F[j] \in V
  <2> DEFINE Good == {j \in D : F[j] \in V}
  <2>1. ASSUME NEW j \in D, \A k \in D : k > j => k \in Good PROVE j \in Good
    <3>1. \A k \in D : k > j => F[k] \in V
      BY <2>1
    <3>2. R(F, j) \in V
      BY <3>1, PiecesFromType DEF R
    <3> QED BY <1>4, <3>2
  <2> HIDE DEF Good
  <2>2. Climbs(Good, Len(text) + 1)
    BY <1>0, <2>1 DEF Climbs
  <2>3. \A j \in D : j \in Good
    BY <2>2, Backwards
  <2> QED BY <2>3 DEF Good
<1> QED BY <1>5, <1>6, <1>7 DEF Cutting

-----------------------------------------------------------------------------
(* What a list reads, and what it does not *)

\* A piece that was read as an element of this value.
Piece(text, elements, piece, value) ==
    \E p \in 1..Len(text) + 1 : \E e \in elements[p] :
        piece = SubSeq(text, p, e.to - 1) /\ value = e.value

ReadAs(text, elements, pieces, values) ==
    /\ Len(pieces) = Len(values)
    /\ \A n \in 1..Len(values) : Piece(text, elements, pieces[n], values[n])

\* No element holds a token of S.
Free(text, elements, S) ==
    \A j \in 1..Len(text) + 1 : \A e \in elements[j] : \A k \in j..e.to - 1 : text[k] \notin S

LEMMA ReadAsMore ==
    ASSUME NEW T, NEW W, NEW text, NEW elements, NEW u \in Seq(T), NEW x \in W,
           NEW pieces \in Seq(Seq(T)), NEW values \in Seq(W),
           Piece(text, elements, u, x), ReadAs(text, elements, pieces, values)
    PROVE  ReadAs(text, elements, <<u>> \o pieces, <<x>> \o values)
<1> DEFINE ps == <<u>> \o pieces
<1> DEFINE vs == <<x>> \o values
<1>1. /\ Len(ps) = Len(pieces) + 1 /\ ps[1] = u
      /\ \A n \in 1..Len(pieces) : ps[n + 1] = pieces[n]
  BY Prepended
<1>2. /\ Len(vs) = Len(values) + 1 /\ vs[1] = x
      /\ \A n \in 1..Len(values) : vs[n + 1] = values[n]
      /\ \A n \in 1..Len(values) + 1 : n = 1 \/ n - 1 \in 1..Len(values)
  BY Prepended
<1>3. Len(pieces) = Len(values) /\ Len(values) \in Nat
  BY LenProperties DEF ReadAs
<1> HIDE DEF ps, vs
<1>4. ASSUME NEW n \in 1..Len(vs) PROVE Piece(text, elements, ps[n], vs[n])
  <2>1. CASE n = 1
    BY <1>1, <1>2, <2>1
  <2>2. CASE n # 1
    <3>1. n - 1 \in 1..Len(values) /\ (n - 1) + 1 = n
      BY <1>2, <1>3, <2>2
    <3>2. Piece(text, elements, pieces[n - 1], values[n - 1])
      BY <3>1 DEF ReadAs
    <3>3. ps[(n - 1) + 1] = pieces[n - 1] /\ vs[(n - 1) + 1] = values[n - 1]
      BY <1>1, <1>2, <1>3, <3>1
    <3> QED BY <3>1, <3>2, <3>3
  <2> QED BY <2>1, <2>2
<1>5. Len(ps) = Len(vs)
  BY <1>1, <1>2, <1>3
<1> QED BY <1>4, <1>5 DEF ReadAs, ps, vs

LEMMA ReadAsOne ==
    ASSUME NEW text, NEW elements, NEW u, NEW x, Piece(text, elements, u, x)
    PROVE  ReadAs(text, elements, <<u>>, <<x>>)
<1>1. Len(<<u>>) = 1 /\ Len(<<x>>) = 1 /\ <<u>>[1] = u /\ <<x>>[1] = x
  OBVIOUS
<1>2. \A n \in 1..1 : n = 1
  OBVIOUS
<1> QED BY <1>1, <1>2 DEF ReadAs

EndsPiece(text, separator, end, elements, T, W, j, e) ==
    /\ RunEnd(text, j, {separator, end}) = e.to
    /\ Piece(text, elements, SubSeq(text, j, e.to - 1), e.value)
    /\ SubSeq(text, j, e.to - 1) \in Seq(T)
    /\ e.to \in Nat /\ e.to > j /\ e.value \in W

\* A piece is an element if the element that is read there ends where the
\* piece does.
LEMMA PieceEnds ==
    ASSUME NEW T, NEW text \in Seq(T), NEW separator, NEW end, NEW W, NEW elements,
           Elements(text, elements, W), Free(text, elements, {separator, end}),
           NEW j \in 1..Len(text) + 1, NEW e \in elements[j],
           At(text, e.to, separator) \/ At(text, e.to, end)
    PROVE  EndsPiece(text, separator, end, elements, T, W, j, e)
<1>1. Len(text) \in Nat
  BY LenProperties
<1>2. e.to \in j + 1..Len(text) + 1 /\ e \in Items(W)
  BY DEF Elements
<1>3. e.to \in j..Len(text) + 1 /\ e.to \in Nat /\ e.to - 1 \in Nat /\ e.to - 1 <= Len(text)
      /\ j \in Nat /\ j >= 1 /\ j <= (e.to - 1) + 1 /\ e.to > j
  BY <1>1, <1>2
<1>4. EndsRun(text, j, {separator, end}, e.to)
  <2>1. \A k \in j..e.to - 1 : text[k] \notin {separator, end}
    BY DEF Free
  <2> QED BY <1>3, <2>1 DEF EndsRun, At
<1>5. RunEnd(text, j, {separator, end}) = e.to
  <2> DEFINE S == {separator, end}
  <2> HIDE DEF S
  <2>1. EndsRun(text, j, S, e.to)
    BY <1>4 DEF S
  <2>2. RunEnd(text, j, S) = e.to
    BY <2>1, RunEndOne
  <2> QED BY <2>2 DEF S
<1>6. SubSeq(text, j, e.to - 1) \in Seq(T)
  BY <1>3, Part
<1>7. Piece(text, elements, SubSeq(text, j, e.to - 1), e.value)
  BY DEF Piece
<1> QED BY <1>2, <1>3, <1>5, <1>6, <1>7 DEF Items, EndsPiece

\* What is read from j up to the end.
ReadWhole(f, g, text, end, elements, W, j) ==
    \A r \in f[j] : At(text, r.to, end) =>
        /\ r.to \in j..Len(text) + 1 /\ \A k \in j..r.to - 1 : text[k] # end
        /\ r.value \in Seq(W) /\ ReadAs(text, elements, g[j], r.value)

LEMMA ListReadsPieces ==
    ASSUME NEW T, NEW text \in Seq(T), NEW separator, NEW end, separator # end, NEW W, NEW elements,
           Elements(text, elements, W), Free(text, elements, {separator, end}),
           NEW f, Lists(f, text, separator, elements),
           NEW g, Cuts(g, text, separator, end), \A j \in 1..Len(text) + 1 : g[j] \in Seq(Seq(T)),
           NEW i \in 1..Len(text) + 1
    PROVE  ReadWhole(f, g, text, end, elements, W, i)
<1> DEFINE Good == {j \in 1..Len(text) + 1 : ReadWhole(f, g, text, end, elements, W, j)}
<1>0. Len(text) \in Nat /\ DOMAIN text = 1..Len(text)
  BY LenProperties
<1>1. ASSUME NEW j \in 1..Len(text) + 1, \A k \in 1..Len(text) + 1 : k > j => k \in Good
      PROVE  j \in Good
  <2> SUFFICES ASSUME NEW r \in f[j], At(text, r.to, end)
               PROVE  /\ r.to \in j..Len(text) + 1 /\ \A k \in j..r.to - 1 : text[k] # end
                      /\ r.value \in Seq(W) /\ ReadAs(text, elements, g[j], r.value)
    BY DEF ReadWhole
  <2>1. PICK e \in elements[j] :
              LastElement(f, text, separator, e, r) \/ FirstElement(f, text, separator, e, r)
    BY ListMember
  <2> DEFINE u == SubSeq(text, j, e.to - 1)
  <2>2. ASSUME At(text, e.to, separator) \/ At(text, e.to, end)
        PROVE  /\ RunEnd(text, j, {separator, end}) = e.to
               /\ Piece(text, elements, u, e.value) /\ u \in Seq(T)
               /\ e.to \in Nat /\ e.to > j /\ e.value \in W
    <3>1. EndsPiece(text, separator, end, elements, T, W, j, e)
      BY <2>2, PieceEnds
    <3> QED BY <3>1 DEF EndsPiece
  <2>3. \A k \in j..e.to - 1 : text[k] # end
    BY DEF Free
  <2>4. g[j] = PiecesFrom(g, text, separator, end, j)
    BY DEF Cuts
  <2> HIDE DEF u
  <2>5. CASE LastElement(f, text, separator, e, r)
    <3>1. r.to = e.to /\ r.value = <<e.value>> /\ At(text, e.to, end) /\ ~ At(text, e.to, separator)
      BY <2>5 DEF Result, At, LastElement
    <3>2. /\ RunEnd(text, j, {separator, end}) = e.to
          /\ Piece(text, elements, u, e.value) /\ u \in Seq(T)
          /\ e.to \in Nat /\ e.to > j /\ e.value \in W
      BY <2>2, <3>1
    <3>3. g[j] = <<u>> \o <<>>
      BY <2>4, <3>1, <3>2 DEF PiecesFrom, u
    <3>4. <<u>> \in Seq(Seq(T)) /\ <<e.value>> \in Seq(W)
      BY <3>2
    <3>5. g[j] = <<u>>
      BY <3>3, <3>4
    <3>6. r.to \in j..Len(text) + 1
      BY <1>0, <3>1, <3>2 DEF At
    <3>7. ReadAs(text, elements, <<u>>, <<e.value>>)
      BY <3>2, ReadAsOne
    <3> QED BY <2>3, <3>1, <3>4, <3>5, <3>6, <3>7
  <2>6. ASSUME At(text, e.to, separator), NEW m \in f[e.to + 1], r = Result(m.to, <<e.value>> \o m.value)
        PROVE  /\ r.to \in j..Len(text) + 1 /\ \A k \in j..r.to - 1 : text[k] # end
               /\ r.value \in Seq(W) /\ ReadAs(text, elements, g[j], r.value)
    <3>1. r.to = m.to /\ r.value = <<e.value>> \o m.value
      BY <2>6 DEF Result
    <3>2. /\ RunEnd(text, j, {separator, end}) = e.to
          /\ Piece(text, elements, u, e.value) /\ u \in Seq(T)
          /\ e.to \in Nat /\ e.to > j /\ e.value \in W
      BY <2>2, <2>6
    <3>3. e.to + 1 \in 1..Len(text) + 1 /\ e.to + 1 > j /\ e.to \in DOMAIN text /\ text[e.to] # end
      BY <1>0, <2>6, <3>2 DEF At
    <3>4. ReadWhole(f, g, text, end, elements, W, e.to + 1)
      BY <1>1, <3>3
    <3>5. /\ m.to \in e.to + 1..Len(text) + 1 /\ \A k \in e.to + 1..m.to - 1 : text[k] # end
          /\ m.value \in Seq(W) /\ ReadAs(text, elements, g[e.to + 1], m.value)
      BY <2>6, <3>1, <3>4 DEF ReadWhole
    <3>6. g[j] = <<u>> \o g[e.to + 1]
      BY <2>4, <2>6, <3>2 DEF PiecesFrom, u
    <3>7. g[e.to + 1] \in Seq(Seq(T))
      BY <3>3
    <3>8. ReadAs(text, elements, <<u>> \o g[e.to + 1], <<e.value>> \o m.value)
      BY <3>2, <3>5, <3>7, ReadAsMore
    <3>9. <<e.value>> \o m.value \in Seq(W)
      BY <3>2, <3>5, Prepended
    <3>10. r.to \in j..Len(text) + 1
      BY <1>0, <3>1, <3>2, <3>5
    <3>11. ASSUME NEW k \in j..r.to - 1 PROVE text[k] # end
      <4>1. k \in j..e.to - 1 \/ k = e.to \/ k \in e.to + 1..m.to - 1
        BY <1>0, <3>1, <3>2, <3>5
      <4> QED BY <2>3, <3>3, <3>5, <4>1
    <3> QED BY <3>1, <3>6, <3>8, <3>9, <3>10, <3>11
  <2> QED BY <2>1, <2>5, <2>6 DEF FirstElement
<1> HIDE DEF Good
<1>2. Climbs(Good, Len(text) + 1)
  BY <1>0, <1>1 DEF Climbs
<1>3. i \in Good
  BY <1>2, Backwards
<1> QED BY <1>3 DEF Good

\* Pieces of G are read as elements, whole.
Takes(text, separator, end, elements, G) ==
    \A p \in 1..Len(text) + 1 :
        LET q == RunEnd(text, p, {separator, end})
        IN  SubSeq(text, p, q - 1) \in G =>
                elements[p] # {} /\ \A e \in elements[p] : e.to = q

ReadToEnd(f, text, end, j) == f[j] # {} /\ \A r \in f[j] : EndsRun(text, j, {end}, r.to)

AllIn(pieces, G) == \A n \in 1..Len(pieces) : pieces[n] \in G

LEMMA ListTakesPieces ==
    ASSUME NEW T, NEW text \in Seq(T), NEW separator, NEW end, separator # end, NEW elements,
           NEW f, Lists(f, text, separator, elements),
           NEW g, Cuts(g, text, separator, end), \A j \in 1..Len(text) + 1 : g[j] \in Seq(Seq(T)),
           NEW G, Takes(text, separator, end, elements, G),
           NEW i \in 1..Len(text) + 1, AllIn(g[i], G)
    PROVE  ReadToEnd(f, text, end, i)
<1> DEFINE Good == {j \in 1..Len(text) + 1 : AllIn(g[j], G) => ReadToEnd(f, text, end, j)}
<1>0. Len(text) \in Nat /\ DOMAIN text = 1..Len(text)
  BY LenProperties
<1>1. ASSUME NEW j \in 1..Len(text) + 1, \A k \in 1..Len(text) + 1 : k > j => k \in Good
      PROVE  j \in Good
  <2> SUFFICES ASSUME AllIn(g[j], G) PROVE ReadToEnd(f, text, end, j)
    OBVIOUS
  <2> DEFINE S == {separator, end}
  <2> DEFINE to == RunEnd(text, j, S)
  <2> DEFINE u == SubSeq(text, j, to - 1)
  <2> DEFINE w == IF At(text, to, separator) THEN g[to + 1] ELSE <<>>
  <2>1. g[j] = <<u>> \o w
    BY DEF Cuts, PiecesFrom
  <2> HIDE DEF S
  <2>2. EndsRun(text, j, S, to)
    BY RunEndEnds
  <2> HIDE DEF to
  <2>3. to \in j..Len(text) + 1 /\ to \in Nat /\ to - 1 \in Nat /\ j \in Nat /\ to - 1 <= Len(text)
        /\ j >= 1 /\ j <= (to - 1) + 1
    <3>1. to \in j..Len(text) + 1
      BY <2>2 DEF EndsRun
    <3> QED BY <1>0, <3>1
  <2>4. u \in Seq(T)
    BY <2>3, Part
  <2>5. At(text, to, separator) => to + 1 \in 1..Len(text) + 1 /\ to + 1 > j
    BY <1>0, <2>3 DEF At
  <2>6. w \in Seq(Seq(T))
    <3>1. <<>> \in Seq(Seq(T))
      OBVIOUS
    <3> QED BY <2>5, <3>1
  <2> HIDE DEF u, w
  <2>7. /\ Len(g[j]) = Len(w) + 1 /\ g[j][1] = u
        /\ \A n \in 1..Len(w) : g[j][n + 1] = w[n]
    BY <2>1, <2>4, <2>6, Prepended
  <2>8. Len(w) \in Nat
    BY <2>6, LenProperties
  <2>9. u \in G
    <3>1. 1 \in 1..Len(g[j])
      BY <2>7, <2>8
    <3> QED BY <2>7, <3>1 DEF AllIn
  <2>10. AllIn(w, G)
    <3>1. \A n \in 1..Len(w) : n + 1 \in 1..Len(g[j])
      BY <2>7, <2>8
    <3> QED BY <2>7, <3>1 DEF AllIn
  <2>11. elements[j] # {} /\ \A e \in elements[j] : e.to = to
    BY <2>9 DEF Takes, u, to, S
  <2>12. f[j] # {}
    BY <2>11, ListNotEmpty
  <2>13. At(text, to, separator) => ReadToEnd(f, text, end, to + 1)
    <3> SUFFICES ASSUME At(text, to, separator) PROVE ReadToEnd(f, text, end, to + 1)
      OBVIOUS
    <3>1. to + 1 \in Good
      BY <1>1, <2>5
    <3>2. w = g[to + 1]
      BY DEF w
    <3> QED BY <2>10, <3>1, <3>2
  <2>14. /\ \A k \in j..to - 1 : text[k] # end
         /\ to \in DOMAIN text => text[to] \in {separator, end}
    BY <2>2 DEF EndsRun, S
  <2>15. ASSUME NEW r \in f[j] PROVE EndsRun(text, j, {end}, r.to)
    <3>1. PICK e \in elements[j] :
                LastElement(f, text, separator, e, r) \/ FirstElement(f, text, separator, e, r)
      BY ListMember
    <3>2. e.to = to
      BY <2>11
    <3>3. CASE LastElement(f, text, separator, e, r)
      <4>1. r.to = to
        BY <3>2, <3>3 DEF LastElement, Result
      <4>2. ~ At(text, to, separator)
        BY <2>13, <3>2, <3>3 DEF LastElement, ReadToEnd
      <4>3. to \in DOMAIN text => text[to] = end
        BY <2>14, <4>2 DEF At
      <4> QED BY <2>3, <2>14, <4>1, <4>3 DEF EndsRun
    <3>4. CASE FirstElement(f, text, separator, e, r)
      <4>1. PICK m \in f[to + 1] : At(text, to, separator) /\ r.to = m.to
        BY <3>2, <3>4 DEF FirstElement, Result
      <4>2. EndsRun(text, to + 1, {end}, m.to)
        BY <2>13, <4>1 DEF ReadToEnd
      <4>3. m.to \in to + 1..Len(text) + 1 /\ (m.to \in DOMAIN text => text[m.to] = end)
            /\ \A k \in to + 1..m.to - 1 : text[k] # end
        BY <4>2 DEF EndsRun
      <4>4. text[to] # end
        BY <4>1 DEF At
      <4>5. ASSUME NEW k \in j..m.to - 1 PROVE text[k] # end
        <5>1. k \in j..to - 1 \/ k = to \/ k \in to + 1..m.to - 1
          BY <1>0, <2>3, <4>3
        <5> QED BY <2>14, <4>3, <4>4, <5>1
      <4>6. m.to \in j..Len(text) + 1
        BY <1>0, <2>3, <4>3
      <4> QED BY <4>1, <4>3, <4>5, <4>6 DEF EndsRun
    <3> QED BY <3>1, <3>3, <3>4
  <2> QED BY <2>12, <2>15 DEF ReadToEnd
<1> HIDE DEF Good
<1>2. Climbs(Good, Len(text) + 1)
  BY <1>0, <1>1 DEF Climbs
<1>3. i \in Good
  BY <1>2, Backwards
<1> QED BY <1>3 DEF Good

-----------------------------------------------------------------------------
(* Numbers *)

Digit(d) == IF d = "0" THEN 0 ELSE 1

\* f[n] is the number that the first n digits are.
Counts(f, digits) ==
    \A n \in 0..Len(digits) : /\ f[n] \in Nat
                              /\ f[n] = IF n = 0 THEN 0 ELSE f[n - 1] * 10 + Digit(digits[n])

LEMMA DecimalIs ==
    ASSUME NEW digits, Len(digits) \in Nat
    PROVE  \E f : Counts(f, digits) /\ Decimal(digits) = f[Len(digits)]
<1> DEFINE D == 0..Len(digits)
<1> DEFINE V == Nat
<1> DEFINE R(f, n) == IF n = 0 THEN 0 ELSE f[n - 1] * 10 + Digit(digits[n])
<1> DEFINE Eq(f) == f = [n \in D |-> R(f, n)]
<1>1. Decimal(digits) = (CHOOSE f : Eq(f))[Len(digits)]
  BY DEF Decimal, Digit
<1>2. \E f : Eq(f)
  <2> DEFINE rule == [f \in [D -> V] |-> [n \in D |-> R(f, n)]]
  <2> DEFINE rank == [n \in D |-> n]
  <2> DEFINE N == Len(digits) + 1
  <2>1. Ranks(rank, D, N)
    BY DEF Ranks
  <2>2. ASSUME NEW f \in [D -> V], NEW n \in D PROVE R(f, n) \in V
    <3>1. Digit(digits[n]) \in Nat
      BY DEF Digit
    <3>2. n # 0 => n - 1 \in D
      OBVIOUS
    <3>3. n # 0 => f[n - 1] \in Nat
      BY <3>2
    <3> QED BY <3>1, <3>3
  <2>3. ASSUME NEW f \in [D -> V], NEW g \in [D -> V], NEW n \in D,
               \A k \in D : rank[k] < rank[n] => f[k] = g[k]
        PROVE  R(f, n) = R(g, n)
    <3>1. n # 0 => n - 1 \in D /\ rank[n - 1] < rank[n]
      OBVIOUS
    <3>2. n # 0 => f[n - 1] = g[n - 1]
      BY <2>3, <3>1
    <3> QED BY <3>2
  <2>4. 0 \in V
    OBVIOUS
  <2> HIDE DEF R, V, D, rank
  <2>5. rule \in [[D -> V] -> [D -> V]]
    BY <2>2
  <2>6. LooksBelow(rule, rank, D, V)
    BY <2>3 DEF LooksBelow
  <2>7. Recursive(rule, rank, N, D, V)
    <3> HIDE DEF rule, N
    <3> QED BY <2>1, <2>4, <2>5, <2>6 DEF Recursive
  <2>8. PICK f \in [D -> V] : rule[f] = f
    <3> HIDE DEF rule, N
    <3> QED BY <2>7, Recursion
  <2> QED BY <2>8
<1> DEFINE F == CHOOSE f : Eq(f)
<1>3. Eq(F)
  BY <1>2
<1> HIDE DEF F, R
<1>4. \A n \in D : F[n] = R(F, n)
  <2>1. F = [n \in D |-> R(F, n)]
    BY <1>3
  <2> QED BY <2>1, Zenon
<1> HIDE DEF Eq
<1>5. Decimal(digits) = F[Len(digits)]
  BY <1>1 DEF F
<1>6. ASSUME NEW n \in D PROVE F[n] \in Nat
  <2> DEFINE X == {m \in Nat : m \in D => F[m] \in Nat}
  <2>1. 0 \in X
    BY <1>4 DEF R
  <2>2. ASSUME NEW m \in X PROVE m + 1 \in X
    <3> SUFFICES ASSUME m + 1 \in D PROVE F[m + 1] \in Nat
      OBVIOUS
    <3>1. m \in D /\ m + 1 # 0 /\ (m + 1) - 1 = m
      OBVIOUS
    <3>2. F[m] \in Nat
      BY <3>1
    <3>3. F[m + 1] = F[m] * 10 + Digit(digits[m + 1])
      BY <1>4, <3>1 DEF R
    <3>4. Digit(digits[m + 1]) \in Nat
      BY DEF Digit
    <3> QED BY <3>2, <3>3, <3>4
  <2>3. X \in SUBSET Nat
    OBVIOUS
  <2> HIDE DEF X
  <2>4. X = Nat
    BY <2>1, <2>2, <2>3, Induction
  <2>5. n \in X
    BY <2>4
  <2> QED BY <2>5 DEF X
<1>7. Counts(F, digits)
  BY <1>4, <1>6 DEF R, Counts
<1> QED BY <1>5, <1>7

LEMMA DecimalNothing == Decimal(<<>>) = 0
<1>1. Len(<<>>) = 0
  OBVIOUS
<1>2. PICK f : Counts(f, <<>>) /\ Decimal(<<>>) = f[0]
  BY <1>1, DecimalIs
<1> QED BY <1>1, <1>2 DEF Counts

LEMMA DecimalTail ==
    ASSUME NEW t \in Seq(Digits), t # <<>>, t[1] = "0"
    PROVE  Decimal(Tail(t)) = Decimal(t)
<1> DEFINE u == Tail(t)
<1>1. /\ u \in Seq(Digits) /\ Len(u) = Len(t) - 1 /\ Len(t) \in Nat /\ Len(u) \in Nat
      /\ \A n \in 1..Len(u) : u[n] = t[n + 1]
  <2>1. /\ Tail(t) \in Seq(Digits) /\ Len(Tail(t)) = Len(t) - 1
        /\ \A n \in 1..Len(Tail(t)) : Tail(t)[n] = t[n + 1]
    BY HeadTailProperties
  <2>2. Len(t) \in Nat /\ Len(Tail(t)) \in Nat
    BY <2>1, LenProperties
  <2> QED BY <2>1, <2>2
<1> HIDE DEF u
<1>2. PICK f : Counts(f, t) /\ Decimal(t) = f[Len(t)]
  BY <1>1, DecimalIs
<1>3. PICK g : Counts(g, u) /\ Decimal(u) = g[Len(u)]
  BY <1>1, DecimalIs
<1> DEFINE X == {n \in Nat : n \in 0..Len(u) => f[n + 1] = g[n]}
<1>4. 0 \in X
  <2>1. 0 \in 0..Len(t) /\ 1 \in 0..Len(t) /\ 0 \in 0..Len(u)
    BY <1>1
  <2>2. f[0] = 0 /\ g[0] = 0
    BY <1>2, <1>3, <2>1 DEF Counts
  <2>3. f[1] = f[1 - 1] * 10 + Digit(t[1])
    BY <1>2, <2>1 DEF Counts
  <2>4. Digit(t[1]) = 0
    BY DEF Digit
  <2> QED BY <2>2, <2>3, <2>4
<1>5. ASSUME NEW n \in X PROVE n + 1 \in X
  <2> SUFFICES ASSUME n + 1 \in 0..Len(u) PROVE f[(n + 1) + 1] = g[n + 1]
    OBVIOUS
  <2>1. /\ n \in 0..Len(u) /\ n + 1 \in 1..Len(u) /\ (n + 1) + 1 \in 0..Len(t)
        /\ (n + 1) + 1 # 0 /\ n + 1 # 0 /\ ((n + 1) + 1) - 1 = n + 1 /\ (n + 1) - 1 = n
    BY <1>1
  <2>2. f[n + 1] = g[n]
    BY <2>1
  <2>3. f[(n + 1) + 1] = f[n + 1] * 10 + Digit(t[(n + 1) + 1])
    BY <1>2, <2>1 DEF Counts
  <2>4. g[n + 1] = g[n] * 10 + Digit(u[n + 1])
    BY <1>3, <2>1 DEF Counts
  <2>5. u[n + 1] = t[(n + 1) + 1]
    BY <1>1, <2>1
  <2> QED BY <2>2, <2>3, <2>4, <2>5
<1>6. X = Nat
  <2>1. X \in SUBSET Nat
    OBVIOUS
  <2> HIDE DEF X
  <2> QED BY <1>4, <1>5, <2>1, Induction
<1>7. Len(u) \in X /\ Len(u) + 1 = Len(t) /\ Len(u) \in 0..Len(u)
  BY <1>1, <1>6
<1>8. f[Len(u) + 1] = g[Len(u)]
  BY <1>7
<1> QED BY <1>2, <1>3, <1>7, <1>8 DEF u

\* The digits of a number without leading zeros.
Shortest(t, u) ==
    /\ u \in Seq(Digits) /\ Len(u) >= 1 /\ Len(u) <= Len(t) /\ u[1] # "0"
    /\ Decimal(u) = Decimal(t)

LEMMA NoLeadingZeros ==
    ASSUME NEW t \in Seq(Digits), Decimal(t) # 0
    PROVE  \E u : Shortest(t, u)
<1> DEFINE X == {n \in Nat : \A s \in Seq(Digits) :
                    Len(s) = n /\ Decimal(s) # 0 => \E u : Shortest(s, u)}
<1>1. 0 \in X
  <2> SUFFICES ASSUME NEW s \in Seq(Digits), Len(s) = 0, Decimal(s) # 0 PROVE FALSE
    OBVIOUS
  <2>1. s = <<>>
    BY EmptySeq
  <2> QED BY <2>1, DecimalNothing
<1>2. ASSUME NEW n \in X PROVE n + 1 \in X
  <2> SUFFICES ASSUME NEW s \in Seq(Digits), Len(s) = n + 1, Decimal(s) # 0
               PROVE  \E u : Shortest(s, u)
    OBVIOUS
  <2>0. n \in Nat
    OBVIOUS
  <2>1. CASE s[1] # "0"
    <3>1. Shortest(s, s)
      BY <2>0, <2>1 DEF Shortest
    <3> QED BY <3>1
  <2>2. CASE s[1] = "0"
    <3>1. s # <<>>
      BY <2>0, EmptySeq
    <3>2. Tail(s) \in Seq(Digits) /\ Len(Tail(s)) = n
      <4>1. Tail(s) \in Seq(Digits) /\ Len(Tail(s)) = Len(s) - 1
        BY <3>1, HeadTailProperties
      <4> QED BY <2>0, <4>1
    <3>3. Decimal(Tail(s)) = Decimal(s)
      BY <2>2, <3>1, DecimalTail
    <3>4. PICK u : Shortest(Tail(s), u)
      BY <3>2, <3>3
    <3>5. Shortest(s, u)
      <4>1. Len(u) \in Nat
        BY <3>4, LenProperties DEF Shortest
      <4> QED BY <2>0, <3>2, <3>3, <3>4, <4>1 DEF Shortest
    <3> QED BY <3>5
  <2> QED BY <2>1, <2>2
<1>3. X = Nat
  <2>1. X \in SUBSET Nat
    OBVIOUS
  <2> HIDE DEF X
  <2> QED BY <1>1, <1>2, <2>1, Induction
<1>4. Len(t) \in X
  BY <1>3, LenProperties
<1> QED BY <1>4

-----------------------------------------------------------------------------
(* Bounds and ranges *)

\* The numbers that PrintBound can print.
Printable(b) == b = Unbounded \/ \E t \in Seq(Digits) : Len(t) <= MaxTokens /\ Decimal(t) = b

\* Where the digits from i on end.
Tokens(text) == {text[k] : k \in DOMAIN text}

LEMMA DigitsEnd ==
    ASSUME NEW T, NEW text \in Seq(T), NEW i \in 1..Len(text) + 1, NEW to,
           EndsRun(text, i, Tokens(text) \ Digits, to)
    PROVE  /\ to \in i..Len(text) + 1 /\ to \in Nat /\ to - 1 \in Nat /\ to - 1 <= Len(text)
           /\ i \in Nat /\ i >= 1 /\ i <= (to - 1) + 1
           /\ \A k \in i..to - 1 : k \in DOMAIN text /\ text[k] \in Digits
           /\ to \in DOMAIN text => text[to] \notin Digits
           /\ SubSeq(text, i, to - 1) \in Seq(Digits) /\ Len(SubSeq(text, i, to - 1)) <= Len(text)
<1>1. Len(text) \in Nat /\ DOMAIN text = 1..Len(text)
  BY LenProperties
<1>2. /\ to \in i..Len(text) + 1
      /\ \A k \in i..to - 1 : text[k] \notin Tokens(text) \ Digits
      /\ to \in DOMAIN text => text[to] \in Tokens(text) \ Digits
  BY DEF EndsRun
<1>3. /\ to \in Nat /\ to - 1 \in Nat /\ to - 1 <= Len(text) /\ i \in Nat /\ i >= 1
      /\ i <= (to - 1) + 1
  BY <1>1, <1>2
<1>4. ASSUME NEW k \in i..to - 1 PROVE k \in DOMAIN text /\ text[k] \in Digits
  <2>1. k \in DOMAIN text
    BY <1>1, <1>3
  <2>2. text[k] \in Tokens(text)
    BY <2>1 DEF Tokens
  <2> QED BY <1>2, <2>1, <2>2
<1> DEFINE u == SubSeq(text, i, to - 1)
<1>5. /\ u \in Seq(T) /\ Len(u) = ((to - 1) - i) + 1
      /\ \A k \in 1..((to - 1) - i) + 1 : u[k] = text[(i + k) - 1]
  BY <1>3, Part
<1> HIDE DEF u
<1>6. ASSUME NEW k \in 1..Len(u) PROVE u[k] \in Digits
  <2>1. k \in 1..((to - 1) - i) + 1
    BY <1>5
  <2>2. (i + k) - 1 \in i..to - 1
    BY <1>3, <2>1
  <2> QED BY <1>4, <1>5, <2>1, <2>2
<1>7. u \in Seq(Digits)
  BY <1>5, <1>6
<1>8. Len(u) <= Len(text)
  BY <1>1, <1>3, <1>5
<1> QED BY <1>2, <1>3, <1>4, <1>7, <1>8 DEF u

LEMMA NonzeroIs ==
    ASSUME NEW T, NEW text \in Seq(T), NEW i \in 1..Len(text) + 1, NEW to,
           EndsRun(text, i, Tokens(text) \ Digits, to)
    PROVE  ParseNonzero(text, i)
             = IF Decimal(SubSeq(text, i, to - 1)) \in 1..MaxNumber
               THEN {Result(to, Decimal(SubSeq(text, i, to - 1)))} ELSE {}
<1> DEFINE S == Tokens(text) \ Digits
<1>1. EndsRun(text, i, S, to)
  OBVIOUS
<1> HIDE DEF S
<1>2. RunEnd(text, i, S) = to
  BY <1>1, RunEndOne
<1>3. RunEnd(text, i, {text[k] : k \in DOMAIN text} \ Digits) = to
  BY <1>2 DEF S, Tokens
<1> QED BY <1>3 DEF ParseNonzero

LEMMA DigitsRun ==
    ASSUME NEW T, NEW text \in Seq(T), NEW i \in 1..Len(text) + 1
    PROVE  \E to : EndsRun(text, i, Tokens(text) \ Digits, to)
<1> DEFINE S == Tokens(text) \ Digits
<1> HIDE DEF S
<1>1. EndsRun(text, i, S, RunEnd(text, i, S))
  BY RunEndEnds
<1> QED BY <1>1 DEF S

\* r was read at i, a number or a star that is written there.
BoundAt(text, i, r, S) ==
    /\ r.to \in i + 1..Len(text) + 1 /\ r.value \in 0..MaxNumber
    /\ \A k \in i..r.to - 1 : k \in DOMAIN text /\ text[k] \in S
    /\ Writes(SubSeq(text, i, r.to - 1), r.value)
    /\ Len(text) <= MaxTokens => Printable(r.value)

LEMMA NonzeroReads ==
    ASSUME NEW T, NEW text \in Seq(T), NEW i \in 1..Len(text) + 1, NEW r \in ParseNonzero(text, i)
    PROVE  BoundAt(text, i, r, Digits) /\ r.value # Unbounded
<1>1. PICK to : EndsRun(text, i, Tokens(text) \ Digits, to)
  BY DigitsRun
<1> DEFINE u == SubSeq(text, i, to - 1)
<1>2. /\ to \in i..Len(text) + 1 /\ to \in Nat /\ i \in Nat
      /\ \A k \in i..to - 1 : k \in DOMAIN text /\ text[k] \in Digits
      /\ u \in Seq(Digits) /\ Len(u) <= Len(text)
  BY <1>1, DigitsEnd
<1>3. r = Result(to, Decimal(u)) /\ Decimal(u) \in 1..MaxNumber
  BY <1>1, NonzeroIs
<1>4. r.to = to /\ r.value = Decimal(u)
  BY <1>3 DEF Result
<1>5. to # i
  <2> SUFFICES ASSUME to = i PROVE FALSE
    OBVIOUS
  <2>1. u = <<>>
    BY <1>2
  <2> HIDE DEF u
  <2>2. Decimal(u) = 0 /\ Decimal(u) \in 1..MaxNumber
    BY <1>3, <2>1, DecimalNothing
  <2> QED BY <2>2, NumberAssumption
<1> HIDE DEF u
<1>6. r.value # 0 /\ r.value \in 0..MaxNumber
  BY <1>3, <1>4, NumberAssumption
<1>7. Writes(u, r.value)
  BY <1>2, <1>3, <1>4 DEF Writes
<1>8. Len(text) <= MaxTokens => Printable(r.value)
  <2>1. Len(u) \in Nat /\ Len(text) \in Nat
    BY <1>2, LenProperties
  <2> QED BY <1>2, <1>4, <2>1, TokensAssumption DEF Printable
<1>9. r.to \in i + 1..Len(text) + 1
  BY <1>2, <1>4, <1>5
<1> QED BY <1>2, <1>4, <1>6, <1>7, <1>8, <1>9 DEF BoundAt, Unbounded, u

LEMMA BoundReads ==
    ASSUME NEW T, NEW text \in Seq(T), NEW i \in 1..Len(text) + 1, NEW r \in ParseBound(text, i)
    PROVE  BoundAt(text, i, r, Digits \cup {"*"})
<1>1. CASE r \in ParseNonzero(text, i)
  BY <1>1, NonzeroReads DEF BoundAt
<1>2. CASE r \notin ParseNonzero(text, i)
  <2>1. r = Result(i + 1, Unbounded) /\ At(text, i, "*")
    BY <1>2 DEF ParseBound, Else
  <2>2. r.to = i + 1 /\ r.value = 0 /\ i \in DOMAIN text /\ text[i] = "*"
    BY <2>1 DEF Result, Unbounded, At
  <2>3. Len(text) \in Nat /\ DOMAIN text = 1..Len(text)
    BY LenProperties
  <2>4. r.to \in i + 1..Len(text) + 1 /\ r.to - 1 = i /\ i \in Nat /\ i >= 1 /\ i <= Len(text)
    BY <2>2, <2>3
  <2> DEFINE u == SubSeq(text, i, i)
  <2>5. u \in Seq(T) /\ Len(u) = 1 /\ u[1] = "*"
    <3>1. /\ u \in Seq(T) /\ Len(u) = (i - i) + 1
          /\ \A k \in 1..(i - i) + 1 : u[k] = text[(i + k) - 1]
      BY <2>4, Part
    <3>2. (i - i) + 1 = 1 /\ 1 \in 1..1 /\ (i + 1) - 1 = i
      BY <2>4
    <3> HIDE DEF u
    <3> QED BY <2>2, <3>1, <3>2
  <2> HIDE DEF u
  <2>6. u = <<"*">>
    BY <2>5
  <2>7. Writes(SubSeq(text, i, r.to - 1), r.value)
    BY <2>2, <2>4, <2>6 DEF Writes, Unbounded, u
  <2>8. \A k \in i..r.to - 1 : k \in DOMAIN text /\ text[k] \in Digits \cup {"*"}
    <3>1. \A k \in i..r.to - 1 : k = i
      BY <2>4
    <3> QED BY <2>2, <3>1
  <2>9. r.value \in 0..MaxNumber /\ Printable(r.value)
    BY <2>2, NumberAssumption DEF Printable, Unbounded
  <2> QED BY <2>4, <2>7, <2>8, <2>9 DEF BoundAt
<1> QED BY <1>1, <1>2

\* r was read at i, a range that is denoted there.
RangeAt(text, i, r) ==
    /\ r.to \in i + 1..Len(text) + 1 /\ r.value \in Ranges
    /\ \A k \in i..r.to - 1 : k \in DOMAIN text /\ text[k] \in Digits \cup {"*", ":"}
    /\ Denotes(SubSeq(text, i, r.to - 1), r.value)
    /\ Len(text) <= MaxTokens => Printable(r.value.lower) /\ Printable(r.value.upper)

LEMMA PairReads ==
    ASSUME NEW T, NEW text \in Seq(T), NEW i \in 1..Len(text) + 1, NEW r \in ParsePair(text, i)
    PROVE  RangeAt(text, i, r)
<1>0. Len(text) \in Nat /\ DOMAIN text = 1..Len(text)
  BY LenProperties
<1>1. PICK l \in ParseBound(text, i) :
         /\ At(text, l.to, ":")
         /\ \E u \in ParseBound(text, l.to + 1) :
               r = Result(u.to, [lower |-> l.value, upper |-> u.value])
  BY DEF ParsePair
<1>2. PICK u \in ParseBound(text, l.to + 1) :
               r = Result(u.to, [lower |-> l.value, upper |-> u.value])
  BY <1>1
<1>3. r.to = u.to /\ r.value = [lower |-> l.value, upper |-> u.value]
  BY <1>2 DEF Result
<1>4. BoundAt(text, i, l, Digits \cup {"*"})
  BY BoundReads
<1>5. l.to \in i + 1..Len(text) /\ text[l.to] = ":" /\ l.to \in Nat /\ i \in Nat /\ l.to + 1 \in 1..Len(text) + 1
  BY <1>0, <1>1, <1>4 DEF BoundAt, At
<1>6. BoundAt(text, l.to + 1, u, Digits \cup {"*"})
  BY <1>5, BoundReads
<1>7. u.to \in (l.to + 1) + 1..Len(text) + 1 /\ u.to \in Nat
  BY <1>5, <1>6 DEF BoundAt
<1> DEFINE m == l.to
<1> DEFINE q == u.to
<1> DEFINE w == SubSeq(text, i, q - 1)
<1> DEFINE c == (m - i) + 1
<1>8. c \in Nat /\ i >= 1 /\ i <= m /\ m < q /\ q <= Len(text) + 1
  BY <1>0, <1>5, <1>7
<1> HIDE DEF q, m
<1>9. m \in Nat /\ q \in Nat /\ text[m] = ":" /\ i \in Nat
  BY <1>5, <1>7 DEF m, q
<1>10. /\ w \in Seq(T) /\ c \in 1..Len(w) /\ w[c] = text[m]
       /\ SubSeq(w, 1, c - 1) = SubSeq(text, i, m - 1)
       /\ SubSeq(w, c + 1, Len(w)) = SubSeq(text, m + 1, q - 1)
  BY <1>8, <1>9, PartsAround
<1> HIDE DEF c, w
<1>11. w[c] = ":" /\ c \in DOMAIN w
  BY <1>9, <1>10, LenProperties
<1>13. Denotes(w, r.value)
  <2>1. r.value.lower = l.value /\ r.value.upper = u.value
    BY <1>3
  <2>2. Writes(SubSeq(w, 1, c - 1), l.value)
    BY <1>4, <1>10 DEF BoundAt, m
  <2>3. Writes(SubSeq(w, c + 1, Len(w)), u.value)
    BY <1>6, <1>10 DEF BoundAt, m, q
  <2> QED BY <1>11, <2>1, <2>2, <2>3 DEF Denotes
<1>14. ASSUME NEW k \in i..q - 1 PROVE k \in DOMAIN text /\ text[k] \in Digits \cup {"*", ":"}
  <2>1. k \in i..l.to - 1 \/ k = l.to \/ k \in l.to + 1..u.to - 1
    BY <1>5, <1>7 DEF q
  <2>2. CASE k \in i..l.to - 1
    BY <1>4, <2>2 DEF BoundAt
  <2>3. CASE k = l.to
    BY <1>0, <1>5, <2>3
  <2>4. CASE k \in l.to + 1..u.to - 1
    BY <1>6, <2>4 DEF BoundAt
  <2> QED BY <2>1, <2>2, <2>3, <2>4
<1>15. r.to \in i + 1..Len(text) + 1 /\ r.to = q
  BY <1>3, <1>5, <1>7 DEF q
<1>16. r.value \in Ranges /\ r.value.lower = l.value /\ r.value.upper = u.value
  BY <1>3, <1>4, <1>6 DEF BoundAt, Ranges
<1>17. Len(text) <= MaxTokens => Printable(r.value.lower) /\ Printable(r.value.upper)
  BY <1>4, <1>6, <1>16 DEF BoundAt
<1> QED BY <1>13, <1>14, <1>15, <1>16, <1>17 DEF RangeAt, w

LEMMA RangeReads ==
    ASSUME NEW T, NEW text \in Seq(T), NEW i \in 1..Len(text) + 1, NEW r \in ParseRange(text, i)
    PROVE  RangeAt(text, i, r)
<1>1. CASE r \in ParsePair(text, i)
  BY <1>1, PairReads
<1>2. CASE r \notin ParsePair(text, i)
  <2>1. PICK n \in ParseNonzero(text, i) :
               r = Result(n.to, [lower |-> n.value, upper |-> n.value])
    BY <1>2 DEF ParseRange, Else
  <2>2. BoundAt(text, i, n, Digits) /\ n.value # Unbounded
    BY NonzeroReads
  <2>3. r.to = n.to /\ r.value = [lower |-> n.value, upper |-> n.value]
    BY <2>1 DEF Result
  <2>4. r.value \in Ranges /\ r.value.lower = n.value /\ r.value.upper = n.value
    BY <2>2, <2>3 DEF BoundAt, Ranges
  <2>5. Denotes(SubSeq(text, i, r.to - 1), r.value)
    BY <2>2, <2>3, <2>4 DEF BoundAt, Denotes
  <2>6. \A k \in i..r.to - 1 : k \in DOMAIN text /\ text[k] \in Digits \cup {"*", ":"}
    BY <2>2, <2>3 DEF BoundAt
  <2>7. /\ r.to \in i + 1..Len(text) + 1
        /\ Len(text) <= MaxTokens => Printable(r.value.lower) /\ Printable(r.value.upper)
    BY <2>2, <2>3, <2>4 DEF BoundAt
  <2> QED BY <2>4, <2>5, <2>6, <2>7 DEF RangeAt
<1> QED BY <1>1, <1>2

StopsAt(text, q) == q \in DOMAIN text => text[q] \notin Digits

BoundOnly(text, p, q, b) ==
    /\ ParseBound(text, p) = {Result(q, b)}
    /\ b # Unbounded => ParseNonzero(text, p) = {Result(q, b)}

\* What is written up to something that is no digit is read.
LEMMA BoundIs ==
    ASSUME NEW T, NEW text \in Seq(T), NEW p \in 1..Len(text) + 1, NEW q \in p..Len(text) + 1,
           NEW b, Writes(SubSeq(text, p, q - 1), b), StopsAt(text, q)
    PROVE  BoundOnly(text, p, q, b)
<1>0. Len(text) \in Nat /\ DOMAIN text = 1..Len(text)
  BY LenProperties
<1>1. /\ p \in Nat /\ p >= 1 /\ q \in Nat /\ q - 1 \in Nat /\ p <= (q - 1) + 1 /\ q - 1 <= Len(text)
      /\ p - 1 \in Nat /\ p <= (p - 1) + 1 /\ p - 1 <= Len(text)
  BY <1>0
<1> DEFINE u == SubSeq(text, p, q - 1)
<1>2. /\ u \in Seq(T) /\ Len(u) = ((q - 1) - p) + 1
      /\ \A k \in 1..((q - 1) - p) + 1 : u[k] = text[(p + k) - 1]
  BY <1>1, Part
<1>3. Writes(u, b)
  OBVIOUS
<1> HIDE DEF u
<1>4. CASE b = Unbounded
  <2>1. u = <<"*">>
    BY <1>3, <1>4, NumberAssumption DEF Writes, Unbounded
  <2>2. Len(u) = 1 /\ u[1] = "*"
    BY <2>1
  <2>3. q = p + 1 /\ 1 \in 1..((q - 1) - p) + 1 /\ (p + 1) - 1 = p /\ p \in DOMAIN text
    <3>1. ((q - 1) - p) + 1 = 1
      BY <1>2, <2>2
    <3>2. q = p + 1
      BY <1>1, <3>1
    <3>3. 1 \in 1..((q - 1) - p) + 1
      BY <3>1
    <3>4. p <= Len(text) /\ (p + 1) - 1 = p
      BY <1>0, <1>1, <3>2
    <3> QED BY <1>0, <1>1, <3>2, <3>3, <3>4
  <2>4. text[p] = "*"
    BY <1>2, <2>2, <2>3
  <2>5. EndsRun(text, p, Tokens(text) \ Digits, p)
    <3>1. text[p] \in Tokens(text) \ Digits
      BY <2>3, <2>4 DEF Tokens, Digits
    <3>2. p \in p..Len(text) + 1 /\ p..p - 1 = {}
      BY <1>0, <1>1
    <3> QED BY <3>1, <3>2 DEF EndsRun
  <2>6. Decimal(SubSeq(text, p, p - 1)) = 0
    <3> DEFINE e == SubSeq(text, p, p - 1)
    <3>1. e \in Seq(T) /\ Len(e) = ((p - 1) - p) + 1
      BY <1>1, Part
    <3> HIDE DEF e
    <3>2. Len(e) = 0
      BY <1>1, <3>1
    <3>3. e = <<>>
      BY <3>1, <3>2, EmptySeq
    <3> QED BY <3>3, DecimalNothing DEF e
  <2>7. ParseNonzero(text, p) = {}
    <3>1. 0 \notin 1..MaxNumber
      BY NumberAssumption
    <3> QED BY <2>5, <2>6, <3>1, NonzeroIs
  <2>8. ParseBound(text, p) = {Result(p + 1, Unbounded)}
    BY <2>3, <2>4, <2>7 DEF ParseBound, Else, At
  <2> QED BY <1>4, <2>3, <2>8 DEF BoundOnly
<1>5. CASE b # Unbounded
  <2>1. b \in 1..MaxNumber /\ u \in Seq(Digits) /\ Decimal(u) = b
    BY <1>3, <1>5 DEF Writes
  <2>2. ASSUME NEW k \in p..q - 1 PROVE text[k] \in Digits
    <3>1. (k - p) + 1 \in 1..((q - 1) - p) + 1 /\ (p + ((k - p) + 1)) - 1 = k
      BY <1>1
    <3>2. u[(k - p) + 1] \in Digits
      BY <1>2, <2>1, <3>1, ElementOfSeq
    <3> QED BY <1>2, <3>1, <3>2
  <2>3. EndsRun(text, p, Tokens(text) \ Digits, q)
    <3>1. q \in DOMAIN text => text[q] \in Tokens(text) \ Digits
      BY DEF StopsAt, Tokens
    <3> QED BY <2>2, <3>1 DEF EndsRun
  <2>4. ParseNonzero(text, p) = IF Decimal(u) \in 1..MaxNumber THEN {Result(q, Decimal(u))} ELSE {}
    BY <2>3, NonzeroIs DEF u
  <2>5. ParseNonzero(text, p) = {Result(q, b)}
    BY <2>1, <2>4
  <2> QED BY <2>5 DEF BoundOnly, ParseBound, Else
<1> QED BY <1>4, <1>5

RangeStops(text, q) == q \in DOMAIN text => text[q] \in {",", " "}

RangeOnly(text, p, q, r) == ParseRange(text, p) = {Result(q, r)}

\* The part of a text from p up to q, cut at m: its cth element.
Cut(text, p, q, m, c) ==
    /\ p \in Nat /\ p >= 1 /\ q \in Nat /\ q <= Len(text) + 1
    /\ m \in Nat /\ p <= m /\ m < q /\ c \in Nat /\ c = (m - p) + 1

PartsOfCut(text, p, q, m, c) ==
    LET w == SubSeq(text, p, q - 1) IN
        /\ w[c] = text[m]
        /\ SubSeq(w, 1, c - 1) = SubSeq(text, p, m - 1)
        /\ SubSeq(w, c + 1, Len(w)) = SubSeq(text, m + 1, q - 1)

LEMMA CutParts ==
    ASSUME NEW T, NEW text \in Seq(T), NEW p, NEW q, NEW m, NEW c, Cut(text, p, q, m, c)
    PROVE  PartsOfCut(text, p, q, m, c)
<1> DEFINE w == SubSeq(text, p, q - 1)
<1> DEFINE d == (m - p) + 1
<1>1. p \in Nat /\ p >= 1 /\ q \in Nat /\ q <= Len(text) + 1
  BY DEF Cut
<1>2. m \in Nat /\ p <= m /\ m < q /\ d \in Nat /\ c = d
  BY DEF Cut
<1>3. /\ w \in Seq(T) /\ d \in 1..Len(w) /\ w[d] = text[m]
      /\ SubSeq(w, 1, d - 1) = SubSeq(text, p, m - 1)
      /\ SubSeq(w, d + 1, Len(w)) = SubSeq(text, m + 1, q - 1)
  BY ONLY <1>1, <1>2, PartsAround, text \in Seq(T)
<1> HIDE DEF d
<1> QED BY <1>2, <1>3 DEF PartsOfCut

LEMMA RangeIs ==
    ASSUME NEW T, NEW text \in Seq(T), NEW p \in 1..Len(text) + 1, NEW q \in p..Len(text) + 1,
           NEW r \in Ranges, Denotes(SubSeq(text, p, q - 1), r), RangeStops(text, q)
    PROVE  RangeOnly(text, p, q, r)
<1>0. Len(text) \in Nat /\ DOMAIN text = 1..Len(text)
  BY LenProperties
<1>1. StopsAt(text, q) /\ ~ At(text, q, ":")
  BY DEF RangeStops, StopsAt, Digits, At
<1>2. r = [lower |-> r.lower, upper |-> r.upper]
  BY DEF Ranges
<1> DEFINE u == SubSeq(text, p, q - 1)
<1>3. CASE r.lower = r.upper /\ r.lower # Unbounded /\ Writes(u, r.lower)
  <2>1. BoundOnly(text, p, q, r.lower)
    BY <1>1, <1>3, BoundIs
  <2>2. ParseBound(text, p) = {Result(q, r.lower)} /\ ParseNonzero(text, p) = {Result(q, r.lower)}
    BY <1>3, <2>1 DEF BoundOnly
  <2>3. Result(q, r.lower).to = q /\ Result(q, r.lower).value = r.lower
    BY DEF Result
  <2>4. ParsePair(text, p) = {}
    BY <1>1, <2>2, <2>3 DEF ParsePair
  <2>5. ParseRange(text, p) = {Result(q, [lower |-> r.lower, upper |-> r.lower])}
    BY <2>2, <2>3, <2>4 DEF ParseRange, Else
  <2>6. [lower |-> r.lower, upper |-> r.lower] = r
    BY <1>2, <1>3
  <2> QED BY <2>5, <2>6 DEF RangeOnly
<1>4. ASSUME NEW c \in DOMAIN u, u[c] = ":",
             Writes(SubSeq(u, 1, c - 1), r.lower), Writes(SubSeq(u, c + 1, Len(u)), r.upper)
      PROVE  RangeOnly(text, p, q, r)
  <2>1. p \in Nat /\ p >= 1 /\ q \in Nat /\ q - 1 \in Nat /\ p <= (q - 1) + 1 /\ q - 1 <= Len(text)
        /\ q <= Len(text) + 1
    BY <1>0
  <2>2. u \in Seq(T) /\ Len(u) = ((q - 1) - p) + 1
    BY <2>1, Part
  <2>3. c \in 1..Len(u)
    BY <2>2, LenProperties
  <2> DEFINE m == (p + c) - 1
  <2>4. m \in Nat /\ p <= m /\ m < q /\ c \in Nat /\ c = (m - p) + 1
    BY <2>1, <2>2, <2>3
  <2> HIDE DEF m
  <2>5. /\ u[c] = text[m]
        /\ SubSeq(u, 1, c - 1) = SubSeq(text, p, m - 1)
        /\ SubSeq(u, c + 1, Len(u)) = SubSeq(text, m + 1, q - 1)
    <3>1. Cut(text, p, q, m, c)
      BY <2>1, <2>4 DEF Cut
    <3>2. PartsOfCut(text, p, q, m, c)
      BY <3>1, CutParts
    <3> QED BY <3>2 DEF PartsOfCut
  <2> HIDE DEF u
  <2>6. m \in p..Len(text) + 1 /\ m + 1 \in 1..Len(text) + 1 /\ q \in m + 1..Len(text) + 1
        /\ m \in DOMAIN text
    BY <1>0, <2>1, <2>4
  <2>7. text[m] = ":"
    BY <1>4, <2>5
  <2>8. StopsAt(text, m) /\ At(text, m, ":")
    BY <2>6, <2>7 DEF StopsAt, Digits, At
  <2>9. Writes(SubSeq(text, p, m - 1), r.lower) /\ Writes(SubSeq(text, m + 1, q - 1), r.upper)
    BY <1>4, <2>5
  <2>10. BoundOnly(text, p, m, r.lower)
    BY <2>6, <2>8, <2>9, BoundIs
  <2>11. BoundOnly(text, m + 1, q, r.upper)
    BY <1>1, <2>6, <2>9, BoundIs
  <2>12. ParseBound(text, p) = {Result(m, r.lower)} /\ ParseBound(text, m + 1) = {Result(q, r.upper)}
    BY <2>10, <2>11 DEF BoundOnly
  <2>13. /\ Result(m, r.lower).to = m /\ Result(m, r.lower).value = r.lower
         /\ Result(q, r.upper).to = q /\ Result(q, r.upper).value = r.upper
    BY DEF Result
  <2>14. {l \in ParseBound(text, p) : At(text, l.to, ":")} = {Result(m, r.lower)}
    BY <2>8, <2>12, <2>13
  <2>15. ParsePair(text, p) = {Result(q, [lower |-> r.lower, upper |-> r.upper])}
    <3> DEFINE F(l) == {Result(v.to, [lower |-> l.value, upper |-> v.value]) :
                          v \in ParseBound(text, l.to + 1)}
    <3> DEFINE L == {l \in ParseBound(text, p) : At(text, l.to, ":")}
    <3>1. ParsePair(text, p) = UNION {F(l) : l \in L}
      BY DEF ParsePair
    <3>2. F(Result(m, r.lower)) = {Result(q, [lower |-> r.lower, upper |-> r.upper])}
      BY <2>12, <2>13
    <3>3. L = {Result(m, r.lower)}
      BY <2>14
    <3> HIDE DEF F, L
    <3>4. UNION {F(l) : l \in L} = F(Result(m, r.lower))
      BY <3>3
    <3> QED BY <3>1, <3>2, <3>4
  <2> QED BY <1>2, <2>15 DEF RangeOnly, ParseRange, Else
<1> QED BY <1>3, <1>4 DEF Denotes

-----------------------------------------------------------------------------
(* Sequence sets *)

RangesAt(text) == [j \in 1..Len(text) + 1 |-> ParseRange(text, j)]

LEMMA RangeElements ==
    ASSUME NEW T, NEW text \in Seq(T)
    PROVE  Elements(text, RangesAt(text), Ranges) /\ Free(text, RangesAt(text), {",", " "})
<1>1. Len(text) \in Nat
  BY LenProperties
<1>2. ASSUME NEW j \in 1..Len(text) + 1, NEW r \in ParseRange(text, j)
      PROVE  /\ r \in Items(Ranges) /\ r.to \in j + 1..Len(text) + 1
             /\ \A k \in j..r.to - 1 : text[k] \notin {",", " "}
  <2>1. RangeAt(text, j, r)
    BY <1>2, RangeReads
  <2>2. r = [to |-> r.to, value |-> r.value]
    BY <1>2 DEF ParseRange, ParsePair, Else, Result
  <2>3. r.to \in j + 1..Len(text) + 1 /\ r.to \in Nat /\ r.value \in Ranges
    BY <1>1, <2>1 DEF RangeAt
  <2>4. \A k \in j..r.to - 1 : text[k] \notin {",", " "}
    BY <2>1 DEF RangeAt, Digits
  <2> QED BY <2>2, <2>3, <2>4 DEF Items
<1>3. \A j \in 1..Len(text) + 1 : RangesAt(text)[j] = ParseRange(text, j)
  BY DEF RangesAt
<1>4. RangesAt(text) \in [1..Len(text) + 1 -> SUBSET Items(Ranges)]
  <2>1. \A j \in 1..Len(text) + 1 : ParseRange(text, j) \in SUBSET Items(Ranges)
    BY <1>2
  <2> QED BY <2>1 DEF RangesAt
<1> QED BY <1>2, <1>3, <1>4 DEF Elements, Free

\* What denotes a range.
Denoting(T) == {u \in Seq(T) : \E r \in Ranges : Denotes(u, r)}

LEMMA RangesTaken ==
    ASSUME NEW T, NEW text \in Seq(T)
    PROVE  Takes(text, ",", " ", RangesAt(text), Denoting(T))
<1> SUFFICES ASSUME NEW p \in 1..Len(text) + 1,
                    SubSeq(text, p, RunEnd(text, p, {",", " "}) - 1) \in Denoting(T)
             PROVE  /\ RangesAt(text)[p] # {}
                    /\ \A e \in RangesAt(text)[p] : e.to = RunEnd(text, p, {",", " "})
  BY DEF Takes
<1> DEFINE S == {",", " "}
<1> DEFINE q == RunEnd(text, p, S)
<1>1. PICK r \in Ranges : Denotes(SubSeq(text, p, q - 1), r)
  BY DEF Denoting
<1>2. EndsRun(text, p, S, q)
  <2> HIDE DEF S
  <2> QED BY RunEndEnds
<1> HIDE DEF q
<1>3. q \in p..Len(text) + 1 /\ RangeStops(text, q)
  BY <1>2 DEF EndsRun, RangeStops
<1>4. RangeOnly(text, p, q, r)
  BY <1>1, <1>3, RangeIs
<1>5. RangesAt(text)[p] = {Result(q, r)}
  BY <1>4 DEF RangeOnly, RangesAt
<1>6. Result(q, r).to = q
  BY DEF Result
<1> QED BY <1>5, <1>6 DEF q

LEMMA SetIsList ==
    ASSUME NEW T, NEW text \in Seq(T)
    PROVE  \E f : /\ Lists(f, text, ",", RangesAt(text))
                  /\ ParseSet(text, 1) = Else(f[1], {Result(1, <<>>)})
<1>1. Len(text) \in Nat /\ DOMAIN text = 1..Len(text)
  BY LenProperties
<1>2. Elements(text, RangesAt(text), Ranges)
  BY RangeElements
<1>3. PICK f : /\ Lists(f, text, ",", RangesAt(text))
               /\ SeparatedList(text, 1, ",", RangesAt(text)) = f[1]
  <2> DEFINE elements == RangesAt(text)
  <2> DEFINE comma == ","
  <2>1. Elements(text, elements, Ranges)
    BY <1>2
  <2> HIDE DEF elements, comma
  <2>2. \E f : /\ Lists(f, text, comma, elements)
               /\ SeparatedList(text, 1, comma, elements) = f[1]
    BY <1>1, <2>1, SeparatedListIs
  <2> QED BY <2>2 DEF elements, comma
<1>4. SeparatedBy(text, 1, ",", ParseRange) = SeparatedList(text, 1, ",", RangesAt(text))
  BY DEF SeparatedBy, RangesAt
<1> QED BY <1>3, <1>4 DEF ParseSet

AtSpace(text, j) == At(text, j, " ")

\* No range begins with a space.
LEMMA NoRangeAtSpace ==
    ASSUME NEW T, NEW text \in Seq(T), NEW j \in 1..Len(text) + 1, AtSpace(text, j)
    PROVE  RangesAt(text)[j] = {}
<1> SUFFICES ASSUME NEW e \in RangesAt(text)[j] PROVE FALSE
  OBVIOUS
<1>1. Elements(text, RangesAt(text), Ranges) /\ Free(text, RangesAt(text), {",", " "})
  BY RangeElements
<1>2. e.to \in j + 1..Len(text) + 1
  BY <1>1 DEF Elements
<1>3. j \in j..e.to - 1
  <2>1. Len(text) \in Nat
    BY LenProperties
  <2> DEFINE to == e.to
  <2>2. to \in j + 1..Len(text) + 1
    BY <1>2
  <2> HIDE DEF to
  <2>3. j \in Nat /\ j \in j..to - 1
    BY <2>1, <2>2
  <2> QED BY <2>3 DEF to
<1>4. text[j] \notin {",", " "}
  BY <1>1, <1>3 DEF Free
<1> QED BY <1>4 DEF AtSpace, At

\* The set s was read up to a space: those are the ranges between the commas.
SetIsWhole(text, s) ==
    /\ s.to \in 1..Len(text) /\ RunEnd(text, 1, {" "}) = s.to
    /\ s.to = 1 => Len(s.value) = 0
    /\ s.to # 1 => /\ Len(s.value) = Len(Pieces(text, 1, ",", " "))
                   /\ \A n \in 1..Len(s.value) :
                         Denotes(Pieces(text, 1, ",", " ")[n], s.value[n])

LEMMA SetReads ==
    ASSUME NEW T, NEW text \in Seq(T), NEW s \in ParseSet(text, 1), AtSpace(text, s.to)
    PROVE  SetIsWhole(text, s)
<1> DEFINE elements == RangesAt(text)
<1> DEFINE comma == ","
<1> DEFINE space == " "
<1>0. Len(text) \in Nat /\ DOMAIN text = 1..Len(text)
  BY LenProperties
<1>1. Len(text) \in Nat /\ DOMAIN text = 1..Len(text) /\ 1 \in 1..Len(text) + 1
  BY <1>0
<1>2. PICK f : Lists(f, text, comma, elements) /\ ParseSet(text, 1) = Else(f[1], {Result(1, <<>>)})
  BY SetIsList
<1>3. Elements(text, elements, Ranges) /\ Free(text, elements, {comma, space})
  BY RangeElements
<1>4. PICK g : /\ Cuts(g, text, comma, space)
               /\ \A j \in 1..Len(text) + 1 : g[j] \in Seq(Seq(T))
               /\ Pieces(text, 1, comma, space) = g[1]
  <2> HIDE DEF comma, space
  <2>1. PICK g : Cutting(g, text, comma, space, T, 1)
    BY PiecesIs
  <2> QED BY <2>1 DEF Cutting
<1>5. comma # space
  OBVIOUS
<1>6. CASE s \in f[1]
  <2>1. ReadWhole(f, g, text, space, elements, Ranges, 1)
    <3> HIDE DEF elements, comma, space
    <3> QED BY <1>1, <1>2, <1>3, <1>4, <1>5, ListReadsPieces
  <2>2. /\ s.to \in 1..Len(text) + 1 /\ \A k \in 1..s.to - 1 : text[k] # " "
        /\ ReadAs(text, elements, g[1], s.value)
    BY <1>6, <2>1 DEF ReadWhole, AtSpace
  <2>3. EndsRun(text, 1, {" "}, s.to)
    BY <2>2 DEF EndsRun, AtSpace, At
  <2>4. RunEnd(text, 1, {" "}) = s.to
    <3> DEFINE S == {" "}
    <3>1. EndsRun(text, 1, S, s.to)
      BY <2>3
    <3> HIDE DEF S
    <3>2. RunEnd(text, 1, S) = s.to
      BY <1>1, <3>1, RunEndOne
    <3> QED BY <3>2 DEF S
  <2>5. s.to # 1
    <3>1. elements[1] # {}
      <4> HIDE DEF elements, comma
      <4> QED BY <1>1, <1>2, <1>6, ListNotEmpty
    <3> QED BY <1>1, <3>1, NoRangeAtSpace
  <2>6. ASSUME NEW n \in 1..Len(s.value) PROVE Denotes(g[1][n], s.value[n])
    <3>1. Piece(text, elements, g[1][n], s.value[n])
      BY <2>2 DEF ReadAs
    <3>2. PICK p \in 1..Len(text) + 1 : \E e \in elements[p] :
             g[1][n] = SubSeq(text, p, e.to - 1) /\ s.value[n] = e.value
      BY <3>1 DEF Piece
    <3>3. PICK e \in elements[p] : g[1][n] = SubSeq(text, p, e.to - 1) /\ s.value[n] = e.value
      BY <3>2
    <3>4. e \in ParseRange(text, p)
      BY DEF RangesAt
    <3>5. RangeAt(text, p, e)
      BY <3>4, RangeReads
    <3> QED BY <3>3, <3>5 DEF RangeAt
  <2>7. Len(s.value) = Len(g[1])
    BY <2>2 DEF ReadAs
  <2>8. s.to \in 1..Len(text)
    BY <1>1 DEF AtSpace, At
  <2> QED BY <1>4, <2>4, <2>5, <2>6, <2>7, <2>8 DEF SetIsWhole
<1>7. CASE s \notin f[1]
  <2>1. s = Result(1, <<>>)
    BY <1>2, <1>7 DEF Else
  <2>2. s.to = 1 /\ s.value = <<>> /\ AtSpace(text, 1)
    BY <2>1 DEF Result
  <2>3. 1 \in 1..Len(text) /\ Len(s.value) = 0
    BY <1>1, <2>2 DEF AtSpace, At
  <2>4. EndsRun(text, 1, {" "}, 1)
    <3>1. 1..1 - 1 = {}
      OBVIOUS
    <3> QED BY <1>1, <2>2, <3>1 DEF EndsRun, AtSpace, At
  <2>5. RunEnd(text, 1, {" "}) = 1
    <3> DEFINE S == {" "}
    <3>1. EndsRun(text, 1, S, 1)
      BY <2>4
    <3> HIDE DEF S
    <3>2. RunEnd(text, 1, S) = 1
      BY <1>1, <3>1, RunEndOne
    <3> QED BY <3>2 DEF S
  <2> QED BY <2>2, <2>3, <2>5 DEF SetIsWhole
<1> QED BY <1>6, <1>7

\* All up to the first space, if there is anything, denotes ranges.
SetDenotes(text, to) ==
    /\ to \in 1..Len(text) /\ text[to] = " " /\ \A k \in 1..to - 1 : text[k] # " "
    /\ to = 1 \/ \A n \in DOMAIN Pieces(text, 1, ",", " ") :
                    \E r \in Ranges : Denotes(Pieces(text, 1, ",", " ")[n], r)

LEMMA SetTaken ==
    ASSUME NEW T, NEW text \in Seq(T), NEW to, SetDenotes(text, to)
    PROVE  \E s \in ParseSet(text, 1) : s.to = to
<1> DEFINE elements == RangesAt(text)
<1> DEFINE comma == ","
<1> DEFINE space == " "
<1> DEFINE G == Denoting(T)
<1>0. Len(text) \in Nat /\ DOMAIN text = 1..Len(text)
  BY LenProperties
<1>1. to \in 1..Len(text) /\ to \in Nat /\ 1 \in 1..Len(text) + 1 /\ to \in 1..Len(text) + 1
  <2>1. to \in 1..Len(text)
    BY DEF SetDenotes
  <2> QED BY <1>0, <2>1
<1>2. PICK f : Lists(f, text, comma, elements) /\ ParseSet(text, 1) = Else(f[1], {Result(1, <<>>)})
  BY SetIsList
<1>3. Takes(text, comma, space, elements, G)
  BY RangesTaken
<1>4. EndsRun(text, 1, {space}, to)
  BY <1>1 DEF SetDenotes, EndsRun
<1>5. CASE to = 1
  <2>1. AtSpace(text, 1)
    BY <1>0, <1>1, <1>5 DEF SetDenotes, AtSpace, At
  <2>2. elements[1] = {}
    BY <1>1, <2>1, NoRangeAtSpace
  <2>3. f[1] = {}
    <3> HIDE DEF elements, comma
    <3> QED BY <1>1, <1>2, <2>2, ListNotEmpty
  <2>4. Result(1, <<>>) \in ParseSet(text, 1)
    BY <1>2, <2>3 DEF Else
  <2>5. Result(1, <<>>).to = to
    BY <1>5 DEF Result
  <2> QED BY <2>4, <2>5
<1>6. CASE to # 1
  <2>1. PICK g : Cutting(g, text, comma, space, T, 1)
    <3> HIDE DEF comma, space
    <3> QED BY PiecesIs
  <2>2. /\ Cuts(g, text, comma, space)
        /\ \A j \in 1..Len(text) + 1 : g[j] \in Seq(Seq(T))
        /\ Pieces(text, 1, comma, space) = g[1]
    BY <2>1 DEF Cutting
  <2>3. g[1] \in Seq(Seq(T))
    BY <1>1, <2>2
  <2>4. DOMAIN g[1] = 1..Len(g[1]) /\ \A n \in 1..Len(g[1]) : g[1][n] \in Seq(T)
    BY <2>3, LenProperties, ElementOfSeq
  <2>5. \A n \in DOMAIN g[1] : \E r \in Ranges : Denotes(g[1][n], r)
    BY <1>6, <2>2 DEF SetDenotes
  <2>6. AllIn(g[1], G)
    BY <2>4, <2>5 DEF AllIn, Denoting
  <2>7. ReadToEnd(f, text, space, 1)
    <3>1. comma # space
      OBVIOUS
    <3> HIDE DEF elements, comma, space, G
    <3> QED BY <1>1, <1>2, <1>3, <2>2, <2>6, <3>1, ListTakesPieces
  <2>8. PICK s \in f[1] : EndsRun(text, 1, {space}, s.to)
    BY <2>7 DEF ReadToEnd
  <2>9. s.to = to
    <3> DEFINE S == {space}
    <3>1. EndsRun(text, 1, S, s.to) /\ EndsRun(text, 1, S, to)
      BY <1>4, <2>8
    <3> HIDE DEF S
    <3>2. RunEnd(text, 1, S) = s.to /\ RunEnd(text, 1, S) = to
      BY <1>1, <3>1, RunEndOne
    <3> QED BY <3>2
  <2>10. s \in ParseSet(text, 1)
    BY <1>2, <2>8 DEF Else
  <2> QED BY <2>9, <2>10
<1> QED BY <1>5, <1>6

LEMMA SetStays ==
    ASSUME NEW T, NEW text \in Seq(T), NEW s \in ParseSet(text, 1)
    PROVE  s.to \in 1..Len(text) + 1
<1> DEFINE elements == RangesAt(text)
<1> DEFINE comma == ","
<1>0. Len(text) \in Nat /\ DOMAIN text = 1..Len(text)
  BY LenProperties
<1>1. 1 \in 1..Len(text) + 1
  BY <1>0
<1>2. PICK f : Lists(f, text, comma, elements) /\ ParseSet(text, 1) = Else(f[1], {Result(1, <<>>)})
  BY SetIsList
<1>3. Elements(text, elements, Ranges)
  BY RangeElements
<1>4. Stays(f, text, Ranges, 1)
  <2> HIDE DEF elements, comma
  <2> QED BY <1>0, <1>1, <1>2, <1>3, ListStays
<1>5. s \in f[1] \/ s = Result(1, <<>>)
  BY <1>2 DEF Else
<1>6. s = Result(1, <<>>) => s.to = 1
  BY DEF Result
<1>7. s \in f[1] => s.to \in 1 + 1..Len(text) + 1
  BY <1>4 DEF Stays
<1> QED BY <1>0, <1>1, <1>5, <1>6, <1>7

-----------------------------------------------------------------------------
(* FETCH *)

LEMMA FetchReads ==
    ASSUME NEW T, NEW text \in Seq(T), NEW a \in ParseFetch(text)
    PROVE  \E s \in ParseSet(text, 1) :
              /\ AtSpace(text, s.to) /\ SetIsWhole(text, s)
              /\ a.set = s.value /\ a.from \in s.to..Len(text) + 1
              /\ \E items \in ParseItems(text, a.from) : a.items = items.value
<1> DEFINE S == {t \in {text[k] : k \in DOMAIN text} : t # " "}
<1> DEFINE R(s) == RunEnd(text, s.to, S)
<1>1. PICK s \in ParseSet(text, 1) :
         \E items \in IF R(s) > s.to THEN ParseItems(text, R(s)) ELSE {} :
             a = [set |-> s.value, from |-> R(s), items |-> items.value]
  BY DEF ParseFetch
<1>2. PICK items \in ParseItems(text, R(s)) :
          R(s) > s.to /\ a = [set |-> s.value, from |-> R(s), items |-> items.value]
  BY <1>1
<1> DEFINE from == R(s)
<1>3. a.set = s.value /\ a.from = from /\ a.items = items.value
  BY <1>2
<1>4. Len(text) \in Nat /\ DOMAIN text = 1..Len(text)
  BY LenProperties
<1>5. s.to \in 1..Len(text) + 1
  BY SetStays
<1>6. EndsRun(text, s.to, S, from)
  <2> DEFINE to == s.to
  <2> DEFINE Q == S
  <2>1. to \in 1..Len(text) + 1
    BY <1>5
  <2> HIDE DEF to, Q
  <2>2. EndsRun(text, to, Q, RunEnd(text, to, Q))
    BY <2>1, RunEndEnds
  <2> QED BY <2>2 DEF to, Q
<1> HIDE DEF R, from
<1>7. from \in s.to..Len(text) + 1 /\ from > s.to /\ \A k \in s.to..from - 1 : text[k] \notin S
  BY <1>2, <1>6 DEF EndsRun, from
<1>8. s.to \in DOMAIN text /\ s.to \in s.to..from - 1
  <2> DEFINE to == s.to
  <2>1. to \in 1..Len(text) + 1 /\ from \in to..Len(text) + 1 /\ from > to
    BY <1>5, <1>7
  <2> HIDE DEF to
  <2>2. to \in 1..Len(text) /\ to \in to..from - 1
    BY <1>4, <2>1
  <2> QED BY <1>4, <2>2 DEF to
<1>9. AtSpace(text, s.to)
  BY <1>7, <1>8 DEF AtSpace, At
<1>10. SetIsWhole(text, s)
  BY <1>9, SetReads
<1> QED BY <1>2, <1>3, <1>7, <1>9, <1>10 DEF from

LEMMA FetchAccepts ==
    ASSUME NEW T, NEW text \in Seq(T), NEW to, SetDenotes(text, to),
           to + 1 \in DOMAIN text, text[to + 1] = "ALL"
    PROVE  ParseFetch(text) # {}
<1> DEFINE S == {t \in {text[k] : k \in DOMAIN text} : t # " "}
<1> DEFINE from == to + 1
<1>1. Len(text) \in Nat /\ DOMAIN text = 1..Len(text)
  BY LenProperties
<1>2. to \in 1..Len(text) /\ text[to] = " "
  BY DEF SetDenotes
<1>10. /\ to \in Nat /\ from \in to..Len(text) + 1 /\ to \in 1..Len(text) + 1 /\ from > to
      /\ \A k \in to..from - 1 : k = to
  <2>1. to \in 1..Len(text)
    BY <1>2
  <2> HIDE DEF S
  <2> QED BY <1>1, <2>1
<1>3. PICK s \in ParseSet(text, 1) : s.to = to
  BY SetTaken
<1>4. RunEnd(text, to, S) = from
  <2>2. "ALL" \in S
    BY <1>1
  <2>3. text[to] \notin S
    BY <1>2
  <2>4. EndsRun(text, to, S, from)
    <3> HIDE DEF S
    <3> QED BY <1>10, <2>2, <2>3 DEF EndsRun
  <2> HIDE DEF S, from
  <2> QED BY <1>10, <2>4, RunEndOne
<1>6. ParseItems(text, from) # {}
  <2>1. "ALL" \in DOMAIN Expansion
    BY DEF Expansion
  <2>2. from \in {k \in {from} \cap DOMAIN text : text[k] \in DOMAIN Expansion}
    BY <2>1
  <2> DEFINE M == {Result(from + 1, Expansion[text[k]]) :
             k \in {k \in {from} \cap DOMAIN text : text[k] \in DOMAIN Expansion}}
  <2>3. M # {}
    BY <2>2
  <2>4. ParseItems(text, from) = M
    <3>1. ParseItems(text, from) = Else(M,
               Else(ParseList(text, from), {Result(a.to, <<a.value>>) : a \in ParseAttribute(text, from)}))
      BY DEF ParseItems
    <3> HIDE DEF M
    <3> QED BY <2>3, <3>1 DEF Else
  <2> QED BY <2>3, <2>4
<1>7. PICK items : items \in ParseItems(text, from)
  BY <1>6
<1> DEFINE a == [set |-> s.value, from |-> from, items |-> items.value]
<1> HIDE DEF from
<1>8. a \in {[set |-> s.value, from |-> RunEnd(text, s.to, S), items |-> i.value] :
                i \in IF RunEnd(text, s.to, S) > s.to
                      THEN ParseItems(text, RunEnd(text, s.to, S)) ELSE {}}
  BY <1>3, <1>4, <1>10, <1>7
<1>9. a \in ParseFetch(text)
  BY <1>8 DEF ParseFetch
<1> QED BY <1>9

-----------------------------------------------------------------------------
(* The clients' texts *)

FetchTokens == SetTokens \cup ItemTokens \cup {"1", "ALL", " "}

\* The set is as long as a client may type it, and stands before a macro.
FetchInv ==
    /\ typing \in {"set", "items"}
    /\ setText \in Seq(FetchTokens) /\ itemText \in Seq(FetchTokens)
    /\ Len(setText) <= MaxTokens
    /\ typing = "set" => itemText = <<"ALL">>

LEMMA FetchInvariant == FetchSpec => []FetchInv
<1>1. GrammarInit => FetchInv
  <2> SUFFICES ASSUME GrammarInit PROVE FetchInv
    OBVIOUS
  <2>1. <<>> \in Seq(FetchTokens) /\ <<"1">> \in Seq(FetchTokens) /\ <<"ALL">> \in Seq(FetchTokens)
    BY DEF FetchTokens
  <2>2. Len(<<>>) <= MaxTokens /\ Len(<<"1">>) <= MaxTokens
    BY TokensAssumption
  <2> QED BY <2>1, <2>2 DEF GrammarInit, FetchInv
<1>2. FetchInv /\ [FetchNext]_grammarVars => FetchInv'
  <2> SUFFICES ASSUME FetchInv, [FetchNext]_grammarVars PROVE FetchInv'
    OBVIOUS
  <2>1. CASE TypeSet
    <3>1. PICK t \in SetTokens : setText' = Append(setText, t)
      BY <2>1 DEF TypeSet
    <3>2. setText' \in Seq(FetchTokens) /\ Len(setText') = Len(setText) + 1 /\ Len(setText) \in Nat
      <4>1. t \in FetchTokens /\ setText \in Seq(FetchTokens)
        BY DEF FetchTokens, FetchInv
      <4> QED BY <3>1, <4>1
    <3>3. Len(setText') <= MaxTokens
      BY <2>1, <3>2, TokensAssumption DEF TypeSet
    <3> QED BY <2>1, <3>2, <3>3 DEF TypeSet, FetchInv
  <2>2. CASE TypeItems
    <3>1. PICK t \in ItemTokens : itemText' = Append(itemText, t)
      BY <2>2 DEF TypeItems
    <3>2. itemText' \in Seq(FetchTokens)
      <4>1. t \in FetchTokens /\ itemText \in Seq(FetchTokens)
        BY DEF FetchTokens, FetchInv
      <4> QED BY <3>1, <4>1
    <3>3. typing = "items" /\ typing' = typing /\ setText' = setText
      BY <2>2 DEF TypeItems
    <3> QED BY <3>2, <3>3 DEF FetchInv
  <2>3. CASE UNCHANGED grammarVars
    BY <2>3 DEF grammarVars, FetchInv
  <2> QED BY <2>1, <2>2, <2>3 DEF FetchNext
<1> QED BY <1>1, <1>2, PTL DEF FetchSpec

LEMMA FetchType == FetchInv => Fetch \in Seq(FetchTokens)
<1> SUFFICES ASSUME FetchInv PROVE Fetch \in Seq(FetchTokens)
  OBVIOUS
<1> DEFINE T == FetchTokens
<1> DEFINE space == <<" ">>
<1>1. setText \in Seq(T) /\ itemText \in Seq(T)
  BY DEF FetchInv
<1>2. space \in Seq(T)
  BY DEF FetchTokens
<1> HIDE DEF T, space
<1>3. setText \o space \in Seq(T)
  BY <1>1, <1>2
<1>4. (setText \o space) \o itemText \in Seq(T)
  BY <1>1, <1>3
<1> QED BY <1>4 DEF Fetch, T, space

\* A FETCH is accepted for the whole sequence set or not at all, and for
\* every set of one or more ranges: sequence_set, its separated_list0 and the
\* space that Fetch::parse wants behind it.
THEOREM SetsReadWhole == FetchSpec => []SetWhole
<1>1. FetchInv => SetWhole
  <2> SUFFICES ASSUME FetchInv PROVE SetWhole
    OBVIOUS
  <2> DEFINE T == FetchTokens
  <2> DEFINE text == Fetch
  <2>1. setText \in Seq(T)
    BY DEF FetchInv
  <2>3. text \in Seq(T)
    BY FetchType
  <2> DEFINE end == RunEnd(text, 1, {" "})
  <2> DEFINE P == Pieces(text, 1, ",", " ")
  <2> DEFINE pieces == IF end - 1 = 0 THEN <<>> ELSE P
  <2> DEFINE answer == ParseFetch(text)
  <2>4. ASSUME NEW a \in answer
        PROVE  Len(a.set) = Len(pieces) /\ \A n \in DOMAIN pieces : Denotes(pieces[n], a.set[n])
    <3> HIDE DEF T, text
    <3>1. PICK s \in ParseSet(text, 1) : SetIsWhole(text, s) /\ a.set = s.value
      BY <2>3, FetchReads
    <3>2. /\ end = s.to /\ end \in 1..Len(text)
          /\ end = 1 => Len(a.set) = 0
          /\ end # 1 => Len(a.set) = Len(P) /\ \A n \in 1..Len(a.set) : Denotes(P[n], a.set[n])
      BY <3>1 DEF SetIsWhole
    <3>3. P \in Seq(Seq(T))
      <4> DEFINE comma == ","
      <4> DEFINE space == " "
      <4> HIDE DEF comma, space
      <4>1. PICK g : Cutting(g, text, comma, space, T, 1)
        BY <2>3, PiecesIs
      <4>2. 1 \in 1..Len(text) + 1
        BY <2>3, LenProperties
      <4>3. Pieces(text, 1, comma, space) \in Seq(Seq(T))
        BY <4>1, <4>2 DEF Cutting
      <4> QED BY <4>3 DEF comma, space
    <3> HIDE DEF P, end
    <3>4. DOMAIN P = 1..Len(P)
      BY <3>3, LenProperties
    <3>5. end \in Nat
      BY <3>2
    <3>6. CASE end = 1
      <4>1. pieces = <<>>
        BY <3>6
      <4>2. DOMAIN pieces = {} /\ Len(pieces) = 0
        BY <4>1
      <4> QED BY <3>2, <3>6, <4>2
    <3>7. CASE end # 1
      <4>1. pieces = P
        BY <3>5, <3>7
      <4> QED BY <3>2, <3>4, <3>7, <4>1
    <3> QED BY <3>6, <3>7
  <2>5. ASSUME typing = "set", end - 1 = Len(setText),
               \A n \in DOMAIN pieces : \E r \in Ranges : Denotes(pieces[n], r)
        PROVE  answer # {}
    <3> DEFINE space == <<" ">>
    <3> DEFINE all == <<"ALL">>
    <3> DEFINE begin == setText \o space
    <3> DEFINE to == Len(setText) + 1
    <3>1. text = begin \o all
      BY <2>5 DEF FetchInv, Fetch
    <3>2. space \in Seq(T) /\ Len(space) = 1 /\ all \in Seq(T) /\ Len(all) = 1
      BY DEF FetchTokens
    <3>3. space[1] = " " /\ all[1] = "ALL"
      OBVIOUS
    <3> HIDE DEF space, all, T, text, P
    <3>4. /\ begin \in Seq(T) /\ Len(begin) = Len(setText) + Len(space)
          /\ \A i \in 1..Len(space) : begin[Len(setText) + i] = space[i]
      <4>1. setText \in Seq(T) /\ space \in Seq(T)
        BY <2>1, <3>2
      <4> QED BY <4>1, ConcatAt
    <3> HIDE DEF begin
    <3>5. /\ text \in Seq(T) /\ Len(text) = Len(begin) + Len(all)
          /\ \A i \in 1..Len(begin) : text[i] = begin[i]
          /\ \A i \in 1..Len(all) : text[Len(begin) + i] = all[i]
      <4>1. begin \in Seq(T) /\ all \in Seq(T)
        BY <3>2, <3>4
      <4>2. /\ begin \o all \in Seq(T) /\ Len(begin \o all) = Len(begin) + Len(all)
            /\ \A i \in 1..Len(begin) : (begin \o all)[i] = begin[i]
            /\ \A i \in 1..Len(all) : (begin \o all)[Len(begin) + i] = all[i]
        BY <4>1, ConcatAt
      <4> QED BY <3>1, <4>2
    <3>6. Len(setText) \in Nat /\ DOMAIN text = 1..Len(text)
      BY <2>1, <3>5, LenProperties
    <3>7. Len(begin) = to /\ Len(text) = to + 1 /\ to \in Nat /\ to \in 1..Len(begin) /\ 1 \in 1..Len(space)
          /\ 1 \in 1..Len(all) /\ to \in 1..Len(text) /\ to + 1 \in DOMAIN text
      BY <3>2, <3>4, <3>5, <3>6
    <3>8. begin[to] = space[1] /\ text[to] = begin[to] /\ text[to + 1] = all[1]
      BY <3>4, <3>5, <3>7
    <3>9. text[to] = " " /\ text[to + 1] = "ALL"
      BY <3>3, <3>8
    <3>10. end \in Nat /\ end = to /\ EndsRun(text, 1, {" "}, end)
      <4> DEFINE S == {" "}
      <4>1. 1 \in 1..Len(text) + 1
        BY <3>6, <3>7
      <4> HIDE DEF S
      <4>2. EndsRun(text, 1, S, RunEnd(text, 1, S))
        BY <2>3, <4>1, RunEndEnds
      <4>3. EndsRun(text, 1, {" "}, end)
        BY <4>2 DEF S
      <4> HIDE DEF end
      <4>4. end \in 1..Len(text) + 1
        BY <4>3 DEF EndsRun
      <4>5. end \in Nat
        BY <3>6, <4>4
      <4>6. end = to
        BY <2>5, <3>6, <4>5
      <4> QED BY <4>3, <4>5, <4>6
    <3> HIDE DEF end
    <3>11. \A k \in 1..to - 1 : text[k] # " "
      BY <3>10 DEF EndsRun
    <3>12. to = 1 \/ \A n \in DOMAIN P : \E r \in Ranges : Denotes(P[n], r)
      <4> SUFFICES ASSUME to # 1 PROVE \A n \in DOMAIN P : \E r \in Ranges : Denotes(P[n], r)
        OBVIOUS
      <4>1. end \in Nat /\ end = to
        BY <3>10
      <4>2. pieces = P
        BY <4>1
      <4> QED BY <2>5, <4>2
    <3> HIDE DEF to
    <3>13. SetDenotes(text, to)
      BY <3>7, <3>9, <3>11, <3>12 DEF SetDenotes, P
    <3> QED BY <3>5, <3>7, <3>9, <3>13, FetchAccepts
  <2> HIDE DEF text, end, P, pieces, answer, T
  <2> QED BY <2>4, <2>5 DEF SetWhole, SetEnd, SetPieces, text, end, P, pieces, answer
<1> QED BY <1>1, FetchInvariant, PTL

-----------------------------------------------------------------------------
(* Lists of attributes *)

AttributesAt(text) == [j \in 1..Len(text) + 1 |-> ParseAttribute(text, j)]

\* The attribute that is read at j is the token there.
AttributeAt(text, j, e) ==
    /\ j \in 1..Len(text) /\ e = Result(j + 1, text[j]) /\ text[j] \in Attributes
    /\ e.to = j + 1 /\ e.value = text[j]
    /\ SubSeq(text, j, e.to - 1) = <<e.value>>

LEMMA AttributeReads ==
    ASSUME NEW T, NEW text \in Seq(T), NEW j \in 1..Len(text) + 1, NEW e \in ParseAttribute(text, j)
    PROVE  AttributeAt(text, j, e)
<1>1. Len(text) \in Nat /\ DOMAIN text = 1..Len(text)
  BY LenProperties
<1>2. j \in DOMAIN text /\ text[j] \in Attributes /\ e = Result(j + 1, text[j])
  BY DEF ParseAttribute
<1>3. e.to = j + 1 /\ e.value = text[j]
  BY <1>2 DEF Result
<1>4. j \in Nat /\ j >= 1 /\ j <= Len(text) /\ j <= j + 1 /\ (j - j) + 1 = 1 /\ (j + 1) - 1 = j
  BY <1>1, <1>2
<1> DEFINE u == SubSeq(text, j, j)
<1>5. /\ u \in Seq(T) /\ Len(u) = (j - j) + 1
      /\ \A k \in 1..(j - j) + 1 : u[k] = text[(j + k) - 1]
  BY <1>4, Part
<1> HIDE DEF u
<1>6. Len(u) = 1 /\ u[1] = text[j]
  <2>1. 1 \in 1..(j - j) + 1
    BY <1>4
  <2>2. u[1] = text[(j + 1) - 1]
    BY <1>5, <2>1
  <2> QED BY <1>4, <1>5, <2>2
<1>7. u = <<text[j]>>
  BY <1>5, <1>6
<1>8. j \in 1..Len(text)
  BY <1>1, <1>2
<1>9. SubSeq(text, j, e.to - 1) = u
  BY <1>3, <1>4 DEF u
<1>10. SubSeq(text, j, e.to - 1) = <<e.value>>
  BY <1>3, <1>7, <1>9
<1> QED BY <1>2, <1>3, <1>8, <1>10 DEF AttributeAt

LEMMA AttributeElements ==
    ASSUME NEW T, NEW text \in Seq(T)
    PROVE  Elements(text, AttributesAt(text), Attributes) /\ Free(text, AttributesAt(text), {" ", ")"})
<1>1. Len(text) \in Nat
  BY LenProperties
<1>2. ASSUME NEW j \in 1..Len(text) + 1, NEW e \in ParseAttribute(text, j)
      PROVE  /\ e \in Items(Attributes) /\ e.to \in j + 1..Len(text) + 1
             /\ \A k \in j..e.to - 1 : text[k] \notin {" ", ")"}
  <2>1. AttributeAt(text, j, e)
    BY <1>2, AttributeReads
  <2>2. e = [to |-> e.to, value |-> e.value]
    BY <2>1 DEF AttributeAt, Result
  <2>3. j \in 1..Len(text) /\ e.to = j + 1 /\ e.value \in Attributes
    BY <2>1 DEF AttributeAt
  <2>4. e.to \in j + 1..Len(text) + 1 /\ e.to \in Nat /\ \A k \in j..e.to - 1 : k = j
    BY <1>1, <2>3
  <2>5. text[j] \notin {" ", ")"}
    BY <2>1 DEF AttributeAt, Attributes
  <2> QED BY <2>2, <2>3, <2>4, <2>5 DEF Items
<1>3. \A j \in 1..Len(text) + 1 : AttributesAt(text)[j] = ParseAttribute(text, j)
  BY DEF AttributesAt
<1>4. AttributesAt(text) \in [1..Len(text) + 1 -> SUBSET Items(Attributes)]
  <2>1. \A j \in 1..Len(text) + 1 : ParseAttribute(text, j) \in SUBSET Items(Attributes)
    BY <1>2
  <2> QED BY <2>1 DEF AttributesAt
<1> QED BY <1>2, <1>3, <1>4 DEF Elements, Free

AtList(text, i) == At(text, i, "(")

ListIsWhole(text, i, values) ==
    Pieces(text, i + 1, " ", ")") = [n \in DOMAIN values |-> <<values[n]>>]

LEMMA ListReads ==
    ASSUME NEW T, NEW text \in Seq(T), NEW i \in 1..Len(text) + 1, AtList(text, i),
           NEW items \in ParseItems(text, i)
    PROVE  ListIsWhole(text, i, items.value)
<1> DEFINE elements == AttributesAt(text)
<1> DEFINE space == " "
<1> DEFINE end == ")"
<1>0. Len(text) \in Nat /\ DOMAIN text = 1..Len(text)
  BY LenProperties
<1>1. i \in DOMAIN text /\ text[i] = "("
  BY DEF AtList, At
<1>2. i + 1 \in 1..Len(text) + 1
  BY <1>0, <1>1
<1>3. items \in ParseList(text, i)
  <2>1. text[i] \notin DOMAIN Expansion
    BY <1>1 DEF Expansion
  <2>2. text[i] \notin Attributes
    BY <1>1 DEF Attributes
  <2>3. ParseAttribute(text, i) = {}
    BY <2>2 DEF ParseAttribute
  <2> QED BY <2>1, <2>3 DEF ParseItems, Else
<1>4. PICK l \in SeparatedBy(text, i + 1, space, ParseAttribute) :
          At(text, l.to, end) /\ items.value = l.value
  <2> DEFINE L == SeparatedBy(text, i + 1, space, ParseAttribute)
  <2>1. ParseList(text, i) = {Result(l.to + 1, l.value) : l \in {k \in L : At(text, k.to, end)}}
    BY DEF ParseList, AtList
  <2> HIDE DEF L, end
  <2>2. PICK l \in L : At(text, l.to, end) /\ items = Result(l.to + 1, l.value)
    BY <1>3, <2>1
  <2>3. items.value = l.value
    BY <2>2 DEF Result
  <2> QED BY <2>2, <2>3 DEF L
<1>5. SeparatedBy(text, i + 1, space, ParseAttribute) = SeparatedList(text, i + 1, space, elements)
  BY DEF SeparatedBy, AttributesAt
<1>6. Elements(text, elements, Attributes) /\ Free(text, elements, {space, end})
  BY AttributeElements
<1>7. space # end
  OBVIOUS
<1> DEFINE v == items.value
<1> HIDE DEF elements, space, end
<1>8. PICK f : /\ Lists(f, text, space, elements)
               /\ SeparatedList(text, i + 1, space, elements) = f[i + 1]
  BY <1>0, <1>6, SeparatedListIs
<1>9. PICK g : Cutting(g, text, space, end, T, i + 1)
  BY PiecesIs
<1>10. /\ Cuts(g, text, space, end)
       /\ \A j \in 1..Len(text) + 1 : g[j] \in Seq(Seq(T))
       /\ Pieces(text, i + 1, space, end) = g[i + 1]
  BY <1>9 DEF Cutting
<1>11. ReadWhole(f, g, text, end, elements, Attributes, i + 1)
  BY <1>2, <1>6, <1>7, <1>8, <1>10, ListReadsPieces
<1>12. v \in Seq(Attributes) /\ ReadAs(text, elements, g[i + 1], v)
  BY <1>4, <1>5, <1>8, <1>11 DEF ReadWhole
<1>13. ASSUME NEW n \in 1..Len(v) PROVE g[i + 1][n] = <<v[n]>>
  <2>1. Piece(text, elements, g[i + 1][n], v[n])
    BY <1>12 DEF ReadAs
  <2>2. PICK p \in 1..Len(text) + 1 : \E e \in elements[p] :
           g[i + 1][n] = SubSeq(text, p, e.to - 1) /\ v[n] = e.value
    BY <2>1 DEF Piece
  <2>3. PICK e \in elements[p] : g[i + 1][n] = SubSeq(text, p, e.to - 1) /\ v[n] = e.value
    BY <2>2
  <2>4. e \in ParseAttribute(text, p)
    BY DEF AttributesAt, elements
  <2>5. AttributeAt(text, p, e)
    BY <2>4, AttributeReads
  <2> QED BY <2>3, <2>5 DEF AttributeAt
<1> DEFINE w == g[i + 1]
<1>14. w \in Seq(Seq(T)) /\ Len(w) = Len(v)
  BY <1>2, <1>10, <1>12 DEF ReadAs
<1>15. \A n \in 1..Len(v) : w[n] = <<v[n]>>
  BY <1>13
<1> HIDE DEF v, w
<1>16. w = [n \in DOMAIN v |-> <<v[n]>>]
  <2>1. DOMAIN w = 1..Len(v) /\ DOMAIN v = 1..Len(v) /\ w = [n \in DOMAIN w |-> w[n]]
    BY <1>12, <1>14, LenProperties
  <2> QED BY <1>15, <2>1
<1> QED BY <1>10, <1>16 DEF ListIsWhole, v, w, space, end

\* A parenthesised list is accepted with all of its attributes, in order, or
\* not at all: Items::parse, its separated_list1 and the ")" behind it.
THEOREM ListsReadWhole == FetchSpec => []ListWhole
<1>1. FetchInv => ListWhole
  <2> SUFFICES ASSUME FetchInv, NEW a \in ParseFetch(Fetch), At(Fetch, a.from, "(")
               PROVE  Pieces(Fetch, a.from + 1, " ", ")") = [n \in DOMAIN a.items |-> <<a.items[n]>>]
    BY DEF ListWhole
  <2> DEFINE text == Fetch
  <2>1. text \in Seq(FetchTokens)
    BY FetchType
  <2>2. AtList(text, a.from)
    BY DEF AtList
  <2> HIDE DEF text
  <2>3. PICK s \in ParseSet(text, 1) :
           /\ s.to \in 1..Len(text) /\ a.from \in s.to..Len(text) + 1
           /\ \E items \in ParseItems(text, a.from) : a.items = items.value
    BY <2>1, FetchReads DEF SetIsWhole, text
  <2>4. a.from \in 1..Len(text) + 1
    BY <2>3
  <2>5. PICK items \in ParseItems(text, a.from) : a.items = items.value
    BY <2>3
  <2>6. ListIsWhole(text, a.from, a.items)
    BY <2>1, <2>2, <2>4, <2>5, ListReads
  <2> QED BY <2>6 DEF ListIsWhole, text
<1> QED BY <1>1, FetchInvariant, PTL

-----------------------------------------------------------------------------
(* Printing *)

SetMarks == Digits \cup {"*", ":", ","}

\* What is read from a text that is short enough can be printed.
Printed == {r \in Ranges : Printable(r.lower) /\ Printable(r.upper)}

LEMMA PrintedElements ==
    ASSUME NEW T, NEW text \in Seq(T), Len(text) <= MaxTokens
    PROVE  Elements(text, RangesAt(text), Printed)
<1>1. Elements(text, RangesAt(text), Ranges)
  BY RangeElements
<1>2. ASSUME NEW j \in 1..Len(text) + 1, NEW e \in RangesAt(text)[j] PROVE e \in Items(Printed)
  <2>1. e \in ParseRange(text, j)
    BY DEF RangesAt
  <2>2. RangeAt(text, j, e)
    BY <2>1, RangeReads
  <2>3. e.value \in Printed
    BY <2>2 DEF RangeAt, Printed
  <2>4. e \in Items(Ranges)
    BY <1>1 DEF Elements
  <2> QED BY <2>3, <2>4 DEF Items
<1>3. RangesAt(text) \in [1..Len(text) + 1 -> SUBSET Items(Printed)]
  BY <1>1, <1>2 DEF Elements
<1> QED BY <1>1, <1>3 DEF Elements

LEMMA BoundPrints ==
    ASSUME NEW b \in 0..MaxNumber, Printable(b)
    PROVE  Writes(PrintBound(b), b) /\ PrintBound(b) \in Seq(SetMarks)
<1>1. CASE b = Unbounded
  <2>1. PrintBound(b) = <<"*">>
    BY <1>1 DEF PrintBound
  <2>2. <<"*">> \in Seq(SetMarks)
    BY DEF SetMarks
  <2> QED BY <1>1, <2>1, <2>2 DEF Writes
<1>2. CASE b # Unbounded
  <2> DEFINE D == UNION {[1..n -> Digits] : n \in 1..MaxTokens}
  <2> DEFINE Is(t) == t[1] # "0" /\ Decimal(t) = b
  <2>1. PrintBound(b) = CHOOSE t \in D : Is(t)
    BY <1>2 DEF PrintBound
  <2>2. PICK t \in Seq(Digits) : Len(t) <= MaxTokens /\ Decimal(t) = b
    BY <1>2 DEF Printable
  <2>3. b # 0 /\ b \in 1..MaxNumber
    BY <1>2, NumberAssumption DEF Unbounded
  <2>4. PICK u : Shortest(t, u)
    BY <2>2, <2>3, NoLeadingZeros
  <2>5. Len(u) \in 1..MaxTokens /\ u \in [1..Len(u) -> Digits]
    <3>1. u \in Seq(Digits) /\ Len(u) >= 1 /\ Len(u) <= Len(t)
      BY <2>4 DEF Shortest
    <3>2. Len(u) \in Nat /\ Len(t) \in Nat /\ u \in [1..Len(u) -> Digits]
      BY <3>1, LenProperties
    <3> QED BY <2>2, <3>1, <3>2, TokensAssumption
  <2>6. u \in D /\ Is(u)
    BY <2>2, <2>4, <2>5 DEF Shortest
  <2> HIDE DEF D, Is
  <2>7. PrintBound(b) \in D /\ Is(PrintBound(b))
    BY <2>1, <2>6
  <2>8. PICK n \in 1..MaxTokens : PrintBound(b) \in [1..n -> Digits]
    BY <2>7 DEF D
  <2>9. PrintBound(b) \in Seq(Digits)
    <3>1. n \in Nat
      BY TokensAssumption
    <3> QED BY <2>8, <3>1, IsASeq
  <2>10. PrintBound(b) \in Seq(SetMarks)
    <3>1. Digits \subseteq SetMarks
      BY DEF SetMarks
    <3> QED BY <2>9, <3>1
  <2> QED BY <2>3, <2>7, <2>9, <2>10 DEF Writes, Is
<1> QED BY <1>1, <1>2

LEMMA RangePrints ==
    ASSUME NEW r \in Printed, r.lower + r.upper > 0
    PROVE  PrintRange(r) \in Seq(SetMarks) /\ Denotes(PrintRange(r), r)
<1>1. /\ r.lower \in 0..MaxNumber /\ r.upper \in 0..MaxNumber
      /\ Printable(r.lower) /\ Printable(r.upper)
  BY DEF Printed, Ranges
<1> DEFINE s == PrintBound(r.lower)
<1> DEFINE t == PrintBound(r.upper)
<1>2. Writes(s, r.lower) /\ s \in Seq(SetMarks)
  BY <1>1, BoundPrints
<1>3. Writes(t, r.upper) /\ t \in Seq(SetMarks)
  BY <1>1, BoundPrints
<1>4. CASE r.lower = r.upper
  <2>1. PrintRange(r) = s
    BY <1>4 DEF PrintRange
  <2>2. r.lower # Unbounded
    BY <1>1, <1>4, NumberAssumption DEF Unbounded
  <2> QED BY <1>2, <1>4, <2>1, <2>2 DEF Denotes
<1>5. CASE r.lower # r.upper
  <2> DEFINE x == ":"
  <2>1. PrintRange(r) = Joined(s, x, t)
    BY <1>5 DEF PrintRange, Joined
  <2>2. x \in SetMarks
    BY DEF SetMarks
  <2> DEFINE w == Joined(s, x, t)
  <2> HIDE DEF s, t, x
  <2>3. /\ w \in Seq(SetMarks) /\ Len(s) + 1 \in 1..Len(w)
        /\ w[Len(s) + 1] = x
        /\ SubSeq(w, 1, Len(s)) = s
        /\ SubSeq(w, Len(s) + 2, Len(w)) = t
    <3>1. s \in Seq(SetMarks) /\ t \in Seq(SetMarks) /\ x \in SetMarks
      BY <1>2, <1>3, <2>2
    <3>2. IsJoined(Joined(s, x, t), s, x, t, SetMarks)
      BY <3>1, JoinedParts
    <3> HIDE DEF w
    <3>3. IsJoined(w, s, x, t, SetMarks)
      BY <3>2 DEF w
    <3> QED BY <3>3 DEF IsJoined
  <2> HIDE DEF w
  <2> DEFINE i == Len(s) + 1
  <2>4. i \in DOMAIN w /\ i - 1 = Len(s) /\ i + 1 = Len(s) + 2
    <3>1. Len(s) \in Nat /\ DOMAIN w = 1..Len(w)
      BY <1>2, <2>3, LenProperties
    <3> QED BY <2>3, <3>1
  <2>5. w[i] = x /\ SubSeq(w, 1, i - 1) = s /\ SubSeq(w, i + 1, Len(w)) = t
    BY <2>3, <2>4
  <2> HIDE DEF i
  <2>6. Denotes(w, r)
    BY <1>2, <1>3, <2>4, <2>5 DEF Denotes, x
  <2> QED BY <2>1, <2>3, <2>6 DEF w
<1> QED BY <1>4, <1>5

\* The nth range of v is written in the text from b[n] up to q[n].
Layout(b, q, text, v) ==
    /\ b[1] = 1 /\ q[Len(v)] = Len(text) + 1
    /\ \A n \in 1..Len(v) : /\ b[n] \in 1..Len(text) + 1 /\ q[n] \in b[n]..Len(text) + 1
                           /\ Denotes(SubSeq(text, b[n], q[n] - 1), v[n])
    /\ \A n \in 1..Len(v) : n # Len(v) => At(text, q[n], ",") /\ b[n + 1] = q[n] + 1

\* No range is the one from star to star.
NoLoneStars(v) == \A n \in DOMAIN v : v[n].lower + v[n].upper > 0

Comma(n) == IF n = 1 THEN <<>> ELSE <<",">>

LEMMA SetPrints ==
    ASSUME NEW v \in Seq(Printed), v # <<>>, NoLoneStars(v)
    PROVE  /\ PrintSet(v) \in Seq(SetMarks)
           /\ \E b, q : Layout(b, q, PrintSet(v), v)
<1> DEFINE N == Len(v)
<1> DEFINE W(n) == PrintRange(v[n])
<1> DEFINE ss == [n \in DOMAIN v |-> Comma(n) \o W(n)]
<1> DEFINE text == PrintSet(v)
<1>1. N \in Nat /\ DOMAIN v = 1..N /\ N >= 1
  BY LenProperties, EmptySeq
<1>2. ASSUME NEW n \in 1..N
      PROVE  /\ W(n) \in Seq(SetMarks) /\ Denotes(W(n), v[n])
             /\ Comma(n) \in Seq(SetMarks) /\ Len(Comma(n)) = IF n = 1 THEN 0 ELSE 1
             /\ n # 1 => Comma(n)[1] = ","
  <2>1. v[n] \in Printed /\ v[n].lower + v[n].upper > 0
    BY <1>1, ElementOfSeq DEF NoLoneStars
  <2>2. W(n) \in Seq(SetMarks) /\ Denotes(W(n), v[n])
    BY <2>1, RangePrints
  <2>3. Comma(n) \in Seq(SetMarks) /\ Len(Comma(n)) = IF n = 1 THEN 0 ELSE 1
    <3>1. <<>> \in Seq(SetMarks) /\ <<",">> \in Seq(SetMarks)
      BY DEF SetMarks
    <3> QED BY <3>1 DEF Comma
  <2>4. n # 1 => Comma(n)[1] = ","
    BY DEF Comma
  <2> QED BY <2>2, <2>3, <2>4
<1> HIDE DEF W
<1>3. ASSUME NEW n \in 1..N
      PROVE  /\ ss[n] \in Seq(SetMarks) /\ Len(ss[n]) = Len(Comma(n)) + Len(W(n))
             /\ \A i \in 1..Len(Comma(n)) : ss[n][i] = Comma(n)[i]
             /\ \A i \in 1..Len(W(n)) : ss[n][Len(Comma(n)) + i] = W(n)[i]
  <2>1. Comma(n) \in Seq(SetMarks) /\ W(n) \in Seq(SetMarks)
    BY <1>2
  <2>2. ss[n] = Comma(n) \o W(n)
    BY <1>1
  <2> DEFINE c == Comma(n)
  <2> DEFINE w == W(n)
  <2> HIDE DEF c, w, ss
  <2>3. c \in Seq(SetMarks) /\ w \in Seq(SetMarks) /\ ss[n] = c \o w
    BY <2>1, <2>2 DEF c, w
  <2>4. /\ c \o w \in Seq(SetMarks) /\ Len(c \o w) = Len(c) + Len(w)
        /\ \A i \in 1..Len(c) : (c \o w)[i] = c[i]
        /\ \A i \in 1..Len(w) : (c \o w)[Len(c) + i] = w[i]
    <3>1. c \in Seq(SetMarks) /\ w \in Seq(SetMarks)
      BY <2>3
    <3> QED BY <3>1, ConcatAt
  <2> QED BY <2>3, <2>4 DEF c, w
<1>4. ss \in Seq(Seq(SetMarks)) /\ Len(ss) = N
  <2>1. \A n \in 1..N : Comma(n) \o W(n) \in Seq(SetMarks)
    <3> SUFFICES ASSUME NEW n \in 1..N PROVE Comma(n) \o W(n) \in Seq(SetMarks)
      OBVIOUS
    <3>1. ss[n] = Comma(n) \o W(n)
      BY <1>1
    <3>2. ss[n] \in Seq(SetMarks)
      BY <1>3
    <3> QED BY <3>1, <3>2
  <2>2. ss \in [1..N -> Seq(SetMarks)]
    BY <1>1, <2>1
  <2> HIDE DEF ss
  <2>3. ss \in Seq(Seq(SetMarks))
    BY <1>1, <2>2, IsASeq
  <2>4. DOMAIN ss = 1..N /\ Len(ss) \in Nat /\ DOMAIN ss = 1..Len(ss)
    BY <2>2, <2>3, LenProperties
  <2> QED BY <1>1, <2>3, <2>4
<1>5. text = FlattenSeq(ss)
  BY DEF PrintSet, Comma, W
<1> HIDE DEF ss, text, N
<1>6. text \in Seq(SetMarks)
  BY <1>4, <1>5, FlattenType
<1>7. Len(text) \in Nat
  BY <1>6, LenProperties
<1>8. PICK at \in [0..N -> Nat] : Places(at, text, ss)
  BY <1>4, <1>5, FlattenPlaces
<1>9. /\ at[0] = 0 /\ at[N] = Len(text)
      /\ \A n \in 1..N : /\ at[n] = at[n - 1] + Len(ss[n])
                         /\ \A i \in 1..Len(ss[n]) : /\ at[n - 1] + i \in 1..Len(text)
                                                     /\ text[at[n - 1] + i] = ss[n][i]
  BY <1>4, <1>8 DEF Places
<1> DEFINE b == [n \in 1..N |-> at[n - 1] + Len(Comma(n)) + 1]
<1> DEFINE q == [n \in 1..N |-> at[n] + 1]
<1>10. b[1] = 1 /\ q[N] = Len(text) + 1
  <2>1. 1 \in 1..N /\ N \in 1..N /\ 1 - 1 = 0
    BY <1>1
  <2>2. Len(Comma(1)) = 0
    BY <1>2, <2>1
  <2> QED BY <1>9, <2>1, <2>2
<1>11. ASSUME NEW n \in 1..N
       PROVE  /\ b[n] \in 1..Len(text) + 1 /\ q[n] \in b[n]..Len(text) + 1
              /\ Denotes(SubSeq(text, b[n], q[n] - 1), v[n])
  <2> DEFINE w == W(n)
  <2> DEFINE l == Len(Comma(n))
  <2> DEFINE p == at[n - 1]
  <2> DEFINE e == at[n]
  <2> DEFINE a == (p + l) + 1
  <2>1. b[n] = a /\ q[n] = e + 1
    OBVIOUS
  <2>2. n - 1 \in 0..N /\ n \in 0..N
    BY <1>1
  <2>3. p \in Nat /\ e \in Nat /\ l \in {0, 1} /\ (n # 1 => l = 1)
    BY <1>2, <1>8, <2>2
  <2>4. w \in Seq(SetMarks) /\ Denotes(w, v[n]) /\ Len(w) \in Nat
    BY <1>2, LenProperties
  <2>5. e = p + (l + Len(w))
    BY <1>3, <1>9
  <2> DEFINE k == Len(ss[n])
  <2> DEFINE m == Len(w)
  <2>6a. k = l + m
    BY <1>3
  <2>6b. m \in Nat
    BY <2>4
  <2>6. \A i \in 1..Len(w) : (a + i) - 1 = p + (l + i) /\ l + i \in 1..Len(ss[n])
    <3> HIDE DEF k, m, l, p
    <3>1. \A i \in 1..m : (a + i) - 1 = p + (l + i) /\ l + i \in 1..k
      BY <2>3, <2>6a, <2>6b
    <3> QED BY <3>1 DEF k, m
  <2>7. Holds(text, a, w)
    <3> SUFFICES ASSUME NEW i \in 1..Len(w) PROVE text[(a + i) - 1] = w[i]
      BY DEF Holds
    <3>1. text[p + (l + i)] = ss[n][l + i]
      BY <1>9, <2>6
    <3>2. ss[n][l + i] = w[i]
      BY <1>3
    <3> QED BY <2>6, <3>1, <3>2
  <2>8. e <= Len(text)
    <3>1. CASE l + Len(w) = 0
      <4>1. n = 1
        <5> HIDE DEF l, m
        <5>1. l + m = 0
          BY <3>1 DEF m
        <5> QED BY <2>3, <2>6b, <5>1
      <4>2. p = 0
        BY <1>9, <4>1
      <4> QED BY <1>7, <2>3, <2>5, <3>1, <4>2
    <3>2. CASE l + Len(w) # 0
      <4>1. l + Len(w) \in 1..Len(ss[n])
        BY <1>3, <2>3, <2>4, <3>2
      <4>2. p + (l + Len(w)) \in 1..Len(text)
        BY <1>9, <4>1
      <4> QED BY <1>7, <2>5, <4>2
    <3> QED BY <3>1, <3>2
  <2> HIDE DEF p, e, l
  <2>9. /\ a \in Nat /\ a >= 1 /\ (a + Len(w)) - 1 = e /\ (a + Len(w)) - 1 <= Len(text)
        /\ a \in 1..Len(text) + 1 /\ e + 1 \in a..Len(text) + 1 /\ (e + 1) - 1 = e
    <3> HIDE DEF m
    <3>1. /\ a \in Nat /\ a >= 1 /\ (a + m) - 1 = e /\ (a + m) - 1 <= Len(text)
          /\ a \in 1..Len(text) + 1 /\ e + 1 \in a..Len(text) + 1 /\ (e + 1) - 1 = e
      <4>1. e = p + (l + m)
        BY <2>5 DEF m
      <4> QED BY <1>7, <2>3, <2>6b, <2>8, <4>1
    <3> QED BY <3>1 DEF m
  <2> HIDE DEF w, a, b, q
  <2>10. SubSeq(text, a, (a + Len(w)) - 1) = w
    BY <1>6, <2>4, <2>7, <2>9, PartIs
  <2>11. SubSeq(text, b[n], q[n] - 1) = w
    BY <2>1, <2>9, <2>10
  <2> QED BY <2>1, <2>4, <2>9, <2>11
<1>12. ASSUME NEW n \in 1..N, n # N PROVE At(text, q[n], ",") /\ b[n + 1] = q[n] + 1
  <2> DEFINE m == n + 1
  <2>1. m \in 1..N /\ m # 1 /\ m - 1 = n /\ n \in 0..N
    BY <1>1, <1>12
  <2>2. Len(Comma(m)) = 1 /\ Comma(m)[1] = "," /\ Len(W(m)) \in Nat
    BY <1>2, <2>1, LenProperties
  <2>3. at[n] \in Nat
    BY <1>8, <2>1
  <2>4. 1 \in 1..Len(Comma(m)) /\ 1 \in 1..Len(ss[m])
    <3> DEFINE k == Len(ss[m])
    <3> DEFINE c == Len(Comma(m))
    <3>1. k = c + Len(W(m))
      BY <1>3, <2>1
    <3>2. c = 1 /\ Len(W(m)) \in Nat
      BY <2>2
    <3> HIDE DEF k, c, m
    <3>3. 1 \in 1..c /\ 1 \in 1..k
      BY <3>1, <3>2
    <3> QED BY <3>3 DEF k, c
  <2> HIDE DEF m
  <2>5. ss[m][1] = Comma(m)[1]
    BY <1>3, <2>1, <2>4
  <2>6. at[m - 1] + 1 \in 1..Len(text) /\ text[at[m - 1] + 1] = ss[m][1]
    BY <1>9, <2>1, <2>4
  <2>7. q[n] = at[n] + 1 /\ b[m] = at[n] + 1 + 1
    BY <2>1, <2>2, <2>3
  <2>8. q[n] \in 1..Len(text) /\ text[q[n]] = ","
    BY <2>1, <2>2, <2>5, <2>6, <2>7
  <2>9. DOMAIN text = 1..Len(text)
    BY <1>6, LenProperties
  <2>10. b[n + 1] = q[n] + 1
    BY <2>7 DEF m
  <2> QED BY <2>8, <2>9, <2>10 DEF At
<1>13. Layout(b, q, text, v)
  <2> HIDE DEF b, q
  <2> QED BY <1>10, <1>11, <1>12 DEF Layout, N
<1> QED BY <1>6, <1>13 DEF text

LEMMA SetValues ==
    ASSUME NEW T, NEW text \in Seq(T), Len(text) <= MaxTokens, NEW s \in ParseSet(text, 1)
    PROVE  s.value \in Seq(Printed)
<1> DEFINE elements == RangesAt(text)
<1> DEFINE comma == ","
<1>0. Len(text) \in Nat /\ DOMAIN text = 1..Len(text)
  BY LenProperties
<1>1. 1 \in 1..Len(text) + 1
  BY <1>0
<1>2. PICK f : Lists(f, text, comma, elements) /\ ParseSet(text, 1) = Else(f[1], {Result(1, <<>>)})
  BY SetIsList
<1>3. Elements(text, elements, Printed)
  BY PrintedElements
<1>4. Stays(f, text, Printed, 1)
  <2> HIDE DEF elements, comma
  <2> QED BY <1>0, <1>1, <1>2, <1>3, ListStays
<1>5. s \in f[1] \/ s = Result(1, <<>>)
  BY <1>2 DEF Else
<1>6. s = Result(1, <<>>) => s.value = <<>>
  BY DEF Result
<1>7. <<>> \in Seq(Printed)
  OBVIOUS
<1>8. s \in f[1] => s.value \in Seq(Printed)
  BY <1>4 DEF Stays
<1> QED BY <1>5, <1>6, <1>7, <1>8

\* What is laid out is read from the nth range on.
LEMMA LayoutReads ==
    ASSUME NEW T, NEW text \in Seq(T), NEW v \in Seq(Ranges), v # <<>>,
           NEW b, NEW q, Layout(b, q, text, v)
    PROVE  ParseSet(text, 1) = {Result(Len(text) + 1, v)}
<1> DEFINE elements == RangesAt(text)
<1> DEFINE comma == ","
<1> DEFINE N == Len(v)
<1> DEFINE rest(n) == Result(Len(text) + 1, SubSeq(v, n, N))
<1>1. Len(text) \in Nat /\ DOMAIN text = 1..Len(text) /\ N \in Nat /\ N >= 1
  BY LenProperties, EmptySeq
<1>2. PICK f : Lists(f, text, comma, elements) /\ ParseSet(text, 1) = Else(f[1], {Result(1, <<>>)})
  BY SetIsList
<1>3. ASSUME NEW n \in 1..N
      PROVE  /\ b[n] \in 1..Len(text) + 1 /\ q[n] \in b[n]..Len(text) + 1
             /\ n = N => ~ At(text, q[n], comma) /\ q[n] = Len(text) + 1
             /\ n # N => At(text, q[n], comma) /\ b[n + 1] = q[n] + 1
             /\ Only(elements, b[n], Result(q[n], v[n]))
  <2>1. b[n] \in 1..Len(text) + 1 /\ q[n] \in b[n]..Len(text) + 1
    BY DEF Layout
  <2>2. Denotes(SubSeq(text, b[n], q[n] - 1), v[n])
    BY DEF Layout
  <2>3. n = N => q[n] = Len(text) + 1
    BY DEF Layout
  <2>4. n # N => At(text, q[n], comma) /\ b[n + 1] = q[n] + 1
    BY DEF Layout
  <2>5. n = N => ~ At(text, q[n], comma)
    <3>1. Len(text) + 1 \notin DOMAIN text
      BY <1>1
    <3> QED BY <2>3, <3>1 DEF At
  <2>6. RangeStops(text, q[n])
    <3>1. CASE n = N
      <4>1. Len(text) + 1 \notin DOMAIN text
        BY <1>1
      <4> QED BY <2>3, <3>1, <4>1 DEF RangeStops
    <3>2. CASE n # N
      BY <2>4, <3>2 DEF RangeStops, At
    <3> QED BY <3>1, <3>2
  <2>7. v[n] \in Ranges
    BY ElementOfSeq
  <2> DEFINE from == b[n]
  <2> DEFINE to == q[n]
  <2> DEFINE r == v[n]
  <2>8. RangeOnly(text, from, to, r)
    <3>1. /\ from \in 1..Len(text) + 1 /\ to \in from..Len(text) + 1 /\ r \in Ranges
          /\ Denotes(SubSeq(text, from, to - 1), r) /\ RangeStops(text, to)
      BY <2>1, <2>2, <2>6, <2>7
    <3> HIDE DEF from, to, r
    <3> QED BY <3>1, RangeIs
  <2>9. Only(elements, b[n], Result(q[n], v[n]))
    BY <2>1, <2>8 DEF RangeOnly, Only, RangesAt
  <2> QED BY <2>1, <2>3, <2>4, <2>5, <2>9
<1> DEFINE Good == {n \in 1..N : Only(f, b[n], rest(n))}
<1>4. ASSUME NEW n \in 1..N, \A k \in 1..N : k > n => k \in Good PROVE n \in Good
  <2> DEFINE e == Result(q[n], v[n])
  <2> DEFINE from == b[n]
  <2>1. from \in 1..Len(text) + 1 /\ Only(elements, from, e)
    BY <1>3
  <2>2. e.to = q[n] /\ e.value = v[n]
    BY DEF Result
  <2> HIDE DEF e, elements, comma
  <2>3. CASE n = N
    <3>1. ~ At(text, e.to, comma) /\ q[n] = Len(text) + 1
      BY <1>3, <2>2, <2>3
    <3> HIDE DEF from
    <3>2. Only(f, from, Result(e.to, <<e.value>>))
      BY <1>2, <2>1, <3>1, ListEnds
    <3>3. SubSeq(v, n, N) = <<v[n]>>
      BY <2>3, RestOfSequence
    <3>4. Result(e.to, <<e.value>>) = rest(n)
      BY <2>2, <3>1, <3>3
    <3> QED BY <3>2, <3>4 DEF from
  <2>4. CASE n # N
    <3> DEFINE m == rest(n + 1)
    <3>1. At(text, e.to, comma) /\ b[n + 1] = e.to + 1
      BY <1>3, <2>2, <2>4
    <3>2. n + 1 \in Good
      BY <1>1, <1>4, <2>4
    <3>3. Only(f, e.to + 1, m)
      BY <3>1, <3>2
    <3>4. m.to = Len(text) + 1 /\ m.value = SubSeq(v, n + 1, N)
      BY DEF Result
    <3> HIDE DEF from, m
    <3>5. Only(f, from, Result(m.to, <<e.value>> \o m.value))
      BY <1>2, <2>1, <3>1, <3>3, ListGoesOn
    <3>6. SubSeq(v, n, N) = <<v[n]>> \o SubSeq(v, n + 1, N)
      BY RestOfSequence
    <3>7. Result(m.to, <<e.value>> \o m.value) = rest(n)
      BY <2>2, <3>4, <3>6
    <3> QED BY <3>5, <3>7 DEF from
  <2> QED BY <2>3, <2>4
<1>5. Climbs(Good, N)
  <2> HIDE DEF Good
  <2> QED BY <1>1, <1>4 DEF Climbs
<1>6. 1 \in Good
  <2>1. 1 \in 1..N
    BY <1>1
  <2> HIDE DEF Good, N
  <2> QED BY <1>5, <2>1, Backwards
<1>7. f[1] = {rest(1)}
  <2>1. b[1] = 1
    BY DEF Layout
  <2> QED BY <1>6, <2>1 DEF Only
<1>8. SubSeq(v, 1, N) = v
  <2> DEFINE a == 1
  <2>1. \A k \in 1..Len(v) : (a + k) - 1 = k
    BY <1>1
  <2>2. a \in Nat /\ a >= 1 /\ (a + Len(v)) - 1 = Len(v) /\ (a + Len(v)) - 1 <= Len(v)
    BY <1>1
  <2> HIDE DEF a
  <2>3. Holds(v, a, v)
    BY <2>1 DEF Holds
  <2>4. SubSeq(v, a, (a + Len(v)) - 1) = v
    BY <2>2, <2>3, PartIs
  <2> QED BY <2>2, <2>4 DEF a
<1> QED BY <1>2, <1>7, <1>8 DEF Else

\* A printed sequence set is read back, if it holds no range from star to
\* star: Display of SequenceSet, Range and Bound, and the parse of each.
THEOREM SetsAreReadBack == FetchSpec => []SetReadsBack
<1>1. FetchInv => SetReadsBack
  <2> SUFFICES ASSUME FetchInv, NEW read \in ParseSet(setText, 1), NoLoneStars(read.value)
               PROVE  ParseSet(PrintSet(read.value), 1)
                        = {Result(Len(PrintSet(read.value)) + 1, read.value)}
    BY DEF SetReadsBack, NoLoneStars
  <2> DEFINE v == read.value
  <2>1. setText \in Seq(FetchTokens) /\ Len(setText) <= MaxTokens
    BY DEF FetchInv
  <2>2. v \in Seq(Printed)
    BY <2>1, SetValues
  <2>3. v \in Seq(Ranges)
    <3>1. Printed \subseteq Ranges
      BY DEF Printed
    <3> QED BY <2>2, <3>1
  <2> HIDE DEF v
  <2>4. CASE v # <<>>
    <3>1. NoLoneStars(v)
      BY DEF v
    <3>2. PrintSet(v) \in Seq(SetMarks) /\ \E b, q : Layout(b, q, PrintSet(v), v)
      BY <2>2, <2>4, <3>1, SetPrints
    <3>3. PICK b, q : Layout(b, q, PrintSet(v), v)
      BY <3>2
    <3>4. ParseSet(PrintSet(v), 1) = {Result(Len(PrintSet(v)) + 1, v)}
      BY <2>3, <2>4, <3>2, <3>3, LayoutReads
    <3> QED BY <3>4 DEF v
  <2>5. CASE v = <<>>
    <3> DEFINE none == <<>>
    <3>1. PrintSet(v) = none
      <4>1. [n \in DOMAIN v |-> Comma(n) \o PrintRange(v[n])] = <<>>
        BY <2>5
      <4> QED BY <4>1, FlattenNothing DEF PrintSet, Comma
    <3>2. none \in Seq(SetMarks) /\ Len(none) = 0 /\ DOMAIN none = {}
      OBVIOUS
    <3> HIDE DEF none
    <3>3. ParseSet(none, 1) = {Result(1, <<>>)}
      <4> DEFINE comma == ","
      <4> DEFINE elements == RangesAt(none)
      <4>1. PICK f : Lists(f, none, comma, elements) /\ ParseSet(none, 1) = Else(f[1], {Result(1, <<>>)})
        BY <3>2, SetIsList
      <4>2. elements[1] = {}
        <5>1. 1 \in 1..Len(none) + 1 /\ 1 + 1..Len(none) + 1 = {}
          BY <3>2
        <5>2. Elements(none, elements, Ranges)
          BY <3>2, RangeElements
        <5>3. \A e \in elements[1] : e.to \in 1 + 1..Len(none) + 1
          BY <5>1, <5>2 DEF Elements
        <5> QED BY <5>1, <5>3
      <4>3. f[1] = {}
        <5>1. 1 \in 1..Len(none) + 1
          BY <3>2
        <5> HIDE DEF elements, comma
        <5> QED BY <4>1, <4>2, <5>1, ListNotEmpty
      <4> QED BY <4>1, <4>3 DEF Else
    <3>4. Len(none) + 1 = 1
      BY <3>2
    <3>5. ParseSet(PrintSet(v), 1) = {Result(Len(PrintSet(v)) + 1, v)}
      BY <2>5, <3>1, <3>3, <3>4
    <3> QED BY <3>5 DEF v
  <2> QED BY <2>4, <2>5
<1> QED BY <1>1, FetchInvariant, PTL

-----------------------------------------------------------------------------
(* What is escaped *)

\* What escaped_transform reads from j, when f[k] is what it reads from k.
ReadsFrom(f, text, escape, escaped, ends, j) ==
    IF j \notin DOMAIN text \/ text[j] \in ends THEN {Result(j, <<>>)}
    ELSE LET at == IF text[j] = escape THEN j + 1 ELSE j
         IN  IF at \in DOMAIN text /\ (at = j \/ text[at] \in escaped)
             THEN {Result(s.to, <<text[at]>> \o s.value) : s \in f[at + 1]}
             ELSE {}

LEMMA ReadsAhead ==
    ASSUME NEW f, NEW g, NEW text, NEW escape, NEW escaped, NEW ends, NEW N \in Nat,
           DOMAIN text = 1..N, NEW j \in 1..N + 2,
           \A k \in 1..N + 2 : k > j => f[k] = g[k]
    PROVE  ReadsFrom(f, text, escape, escaped, ends, j) = ReadsFrom(g, text, escape, escaped, ends, j)
<1> DEFINE at == IF text[j] = escape THEN j + 1 ELSE j
<1>1. at \in DOMAIN text => f[at + 1] = g[at + 1]
  <2> SUFFICES ASSUME at \in DOMAIN text PROVE f[at + 1] = g[at + 1]
    OBVIOUS
  <2>1. at \in 1..N /\ at >= j
    OBVIOUS
  <2> HIDE DEF at
  <2>2. at + 1 \in 1..N + 2 /\ at + 1 > j
    BY <2>1
  <2> QED BY <2>2
<1> QED BY <1>1 DEF ReadsFrom

LEMMA UnescapedIs ==
    ASSUME NEW text, NEW escape, NEW escaped, NEW ends, NEW i, Len(text) \in Nat,
           DOMAIN text = 1..Len(text)
    PROVE  \E f : /\ \A j \in 1..Len(text) + 2 : f[j] = ReadsFrom(f, text, escape, escaped, ends, j)
                 /\ Unescaped(text, i, escape, escaped, ends)
                      = IF i \in DOMAIN text /\ text[i] \in ends THEN {} ELSE f[i]
<1> DEFINE N == Len(text)
<1> DEFINE D == 1..N + 2
<1> DEFINE R(f, j) == ReadsFrom(f, text, escape, escaped, ends, j)
<1> DEFINE Eq(f) == f = [j \in D |-> R(f, j)]
<1>1. Unescaped(text, i, escape, escaped, ends)
        = LET From == CHOOSE From : Eq(From)
          IN  IF i \in DOMAIN text /\ text[i] \in ends THEN {} ELSE From[i]
  BY DEF Unescaped, ReadsFrom
<1>2. \E f : Eq(f)
  <2> DEFINE Good(f, n) == /\ f = [j \in D |-> f[j]]
                           /\ \A j \in D : N + 2 < j + n => f[j] = R(f, j)
  <2> DEFINE T == {n \in Nat : \E f : Good(f, n)}
  <2>1. 0 \in T
    <3> DEFINE e == [j \in D |-> {}]
    <3>1. e = [j \in D |-> e[j]] /\ \A j \in D : ~ (N + 2 < j + 0)
      OBVIOUS
    <3>2. Good(e, 0)
      BY <3>1
    <3> QED BY <3>2
  <2>2. ASSUME NEW n \in T PROVE n + 1 \in T
    <3>1. n \in Nat
      OBVIOUS
    <3>2. PICK f : Good(f, n)
      OBVIOUS
    <3> DEFINE p == N + 2 - n
    <3> DEFINE g == [j \in D |-> IF j = p THEN R(f, j) ELSE f[j]]
    <3> HIDE DEF R
    <3>3. g = [j \in D |-> g[j]] /\ \A j \in D : g[j] = IF j = p THEN R(f, j) ELSE f[j]
      OBVIOUS
    <3> HIDE DEF g
    <3>4. ASSUME NEW j \in D, N + 2 < j + (n + 1) PROVE g[j] = R(g, j)
      <4>1. j >= p /\ (j # p => N + 2 < j + n)
        BY <3>1, <3>4
      <4>2. \A k \in D : k > j => g[k] = f[k]
        BY <3>1, <3>3, <4>1
      <4>3. R(g, j) = R(f, j)
        BY <4>2, ReadsAhead DEF R
      <4>4. j # p => f[j] = R(f, j)
        BY <3>2, <4>1
      <4> QED BY <3>3, <4>3, <4>4
    <3>5. Good(g, n + 1)
      BY <3>3, <3>4
    <3> HIDE DEF Good
    <3> QED BY <3>1, <3>5
  <2>3. T = Nat
    <3>1. T \in SUBSET Nat
      OBVIOUS
    <3> HIDE DEF T
    <3> QED BY <2>1, <2>2, <3>1, Induction
  <2>4. N + 2 \in T
    BY <2>3
  <2>5. PICK f : Good(f, N + 2)
    BY <2>4
  <2>6. \A j \in D : N + 2 < j + (N + 2)
    OBVIOUS
  <2> HIDE DEF R
  <2>7. f = [j \in D |-> f[j]] /\ \A j \in D : f[j] = R(f, j)
    BY <2>5, <2>6
  <2> QED BY <2>7
<1> DEFINE F == CHOOSE From : Eq(From)
<1>3. Eq(F)
  BY <1>2
<1> HIDE DEF F, R
<1>4. \A j \in D : F[j] = R(F, j)
  <2>1. F = [j \in D |-> R(F, j)]
    BY <1>3
  <2> QED BY <2>1, Zenon
<1> HIDE DEF Eq
<1>5. Unescaped(text, i, escape, escaped, ends)
        = IF i \in DOMAIN text /\ text[i] \in ends THEN {} ELSE F[i]
  BY <1>1 DEF F
<1> QED BY <1>4, <1>5 DEF R

-----------------------------------------------------------------------------
(* Strings *)

Marks == {"quote", "backslash"}
Ends  == {"quote"}

Escaped(c) == IF c \in Marks THEN <<"backslash", c>> ELSE <<c>>

Escapes(s) == [i \in DOMAIN s |-> Escaped(s[i])]

Body(s) == FlattenSeq(Escapes(s))

\* w stands in the text from i on.
Stands(w, text, i) == \A j \in 1..Len(w) : i - 1 + j \in DOMAIN text /\ text[i - 1 + j] = w[j]

LEMMA EscapesType ==
    ASSUME NEW s \in Seq(Characters)
    PROVE  /\ Escapes(s) \in Seq(Seq(Characters)) /\ Len(Escapes(s)) = Len(s)
           /\ \A i \in 1..Len(s) : Escapes(s)[i] = Escaped(s[i])
<1>1. Len(s) \in Nat /\ DOMAIN s = 1..Len(s) /\ \A i \in 1..Len(s) : s[i] \in Characters
  BY LenProperties, ElementOfSeq
<1>2. ASSUME NEW c \in Characters PROVE Escaped(c) \in Seq(Characters)
  <2>1. "backslash" \in Characters
    BY DEF Characters
  <2>2. <<"backslash", c>> \in Seq(Characters) /\ <<c>> \in Seq(Characters)
    BY <2>1
  <2> QED BY <2>2 DEF Escaped
<1>3. Escapes(s) \in [1..Len(s) -> Seq(Characters)]
  BY <1>1, <1>2 DEF Escapes
<1> QED BY <1>1, <1>3 DEF Escapes

LEMMA EscapedIs ==
    ASSUME NEW c \in Characters
    PROVE  /\ c \in Marks => /\ Len(Escaped(c)) = 2
                             /\ Escaped(c)[1] = "backslash" /\ Escaped(c)[2] = c
           /\ c \notin Marks => Len(Escaped(c)) = 1 /\ Escaped(c)[1] = c
BY DEF Escaped

\* What f says is read from j is what is.
ReadsAt(f, text, j)   == f[j] = ReadsFrom(f, text, "backslash", Marks, Ends, j)
Reads(f, j, to, s)    == f[j] = {Result(to, s)}
ReadsAll(f, text)    == \A j \in 1..Len(text) + 2 : ReadsAt(f, text, j)
FromOrNone(f, text, i) == IF i \in DOMAIN text /\ text[i] \in Ends THEN {} ELSE f[i]

LEMMA QuotedIs ==
    ASSUME NEW text, Len(text) \in Nat, DOMAIN text = 1..Len(text), NEW i
    PROVE  \E f : /\ ReadsAll(f, text)
                 /\ Unescaped(text, i, "backslash", Marks, Ends) = FromOrNone(f, text, i)
<1>1. \E f : /\ \A j \in 1..Len(text) + 2 : f[j] = ReadsFrom(f, text, "backslash", Marks, Ends, j)
            /\ Unescaped(text, i, "backslash", Marks, Ends)
                 = IF i \in DOMAIN text /\ text[i] \in Ends THEN {} ELSE f[i]
  BY UnescapedIs
<1> QED BY <1>1, Zenon DEF ReadsAll, ReadsAt, FromOrNone

\* How one character, with a backslash or without, is read.
LEMMA ReadsOne ==
    ASSUME NEW text, NEW f, NEW c \in Characters, NEW j \in Nat, NEW to, NEW value,
           ReadsAt(f, text, j), Stands(Escaped(c), text, j),
           Reads(f, j + Len(Escaped(c)), to, value)
    PROVE  Reads(f, j, to, <<c>> \o value)
<1> DEFINE at == IF text[j] = "backslash" THEN j + 1 ELSE j
<1>1. /\ j \in DOMAIN text /\ text[j] # "quote"
      /\ at \in DOMAIN text /\ (at = j \/ text[at] \in Marks)
      /\ text[at] = c /\ at + 1 = j + Len(Escaped(c))
  <2>1. CASE c \in Marks
    <3>1. Len(Escaped(c)) = 2 /\ Escaped(c)[1] = "backslash" /\ Escaped(c)[2] = c
      BY <2>1, EscapedIs
    <3>2. 1 \in 1..2 /\ 2 \in 1..2 /\ j - 1 + 1 = j /\ j - 1 + 2 = j + 1
      OBVIOUS
    <3>3. /\ j \in DOMAIN text /\ text[j] = "backslash"
          /\ j + 1 \in DOMAIN text /\ text[j + 1] = c
      BY <3>1, <3>2 DEF Stands
    <3> QED BY <2>1, <3>1, <3>3
  <2>2. CASE c \notin Marks
    <3>1. Len(Escaped(c)) = 1 /\ Escaped(c)[1] = c
      BY <2>2, EscapedIs
    <3>2. 1 \in 1..1 /\ j - 1 + 1 = j
      OBVIOUS
    <3>3. j \in DOMAIN text /\ text[j] = c
      BY <3>1, <3>2 DEF Stands
    <3> QED BY <2>2, <3>1, <3>3 DEF Marks
  <2> QED BY <2>1, <2>2
<1>2. f[j] = {Result(s.to, <<text[at]>> \o s.value) : s \in f[at + 1]}
  BY <1>1 DEF ReadsFrom, ReadsAt, Ends
<1> HIDE DEF at
<1>3. f[at + 1] = {Result(to, value)}
  BY <1>1 DEF Reads
<1>4. Result(to, value).to = to /\ Result(to, value).value = value
  BY DEF Result
<1> QED BY <1>1, <1>2, <1>3, <1>4 DEF Reads

LEMMA Prepend ==
    ASSUME NEW S, NEW s \in Seq(S), NEW k \in 1..Len(s)
    PROVE  <<s[k]>> \o SubSeq(s, k + 1, Len(s)) = SubSeq(s, k, Len(s))
<1>1. Len(s) \in Nat /\ k \in Nat /\ s[k] \in S
  BY LenProperties, ElementOfSeq
<1> DEFINE a == SubSeq(s, k, Len(s))
<1> DEFINE b == SubSeq(s, k + 1, Len(s))
<1> DEFINE c == <<s[k]>>
<1>2. a \in Seq(S) /\ Len(a) = Len(s) - k + 1 /\ \A i \in 1..Len(s) - k + 1 : a[i] = s[k + i - 1]
  <2>1. \A i \in k..Len(s) : s[i] \in S
    BY <1>1, ElementOfSeq
  <2>2. k \in Int /\ Len(s) \in Int /\ k <= Len(s)
    BY <1>1
  <2> QED BY <2>1, <2>2, SubSeqProperties
<1>3. b \in Seq(S) /\ Len(b) = Len(s) - k /\ \A i \in 1..Len(s) - k : b[i] = s[k + i]
  <2>1. \A i \in k + 1..Len(s) : s[i] \in S
    BY <1>1, ElementOfSeq
  <2>2. k + 1 \in Int /\ Len(s) \in Int
    BY <1>1
  <2>3. /\ b \in Seq(S) /\ Len(b) = IF k + 1 <= Len(s) THEN Len(s) - (k + 1) + 1 ELSE 0
        /\ \A i \in 1..Len(s) - (k + 1) + 1 : b[i] = s[k + 1 + i - 1]
    BY <2>1, <2>2, SubSeqProperties
  <2> HIDE DEF b
  <2>4. Len(s) - (k + 1) + 1 = Len(s) - k /\ \A i \in 1..Len(s) - k : k + 1 + i - 1 = k + i
    BY <1>1
  <2>5. Len(b) = Len(s) - k
    BY <1>1, <2>3
  <2> QED BY <2>3, <2>4, <2>5
<1>4. c \in Seq(S) /\ Len(c) = 1 /\ c[1] = s[k]
  BY <1>1
<1> HIDE DEF a, b, c
<1>5. /\ c \o b \in Seq(S) /\ Len(c \o b) = 1 + Len(b)
      /\ \A i \in 1..Len(c \o b) : i \in 1..1 \/ i - 1 \in 1..Len(b)
      /\ \A i \in 1..1 : (c \o b)[i] = c[i]
      /\ \A i \in 1..Len(c \o b) : i - 1 \in 1..Len(b) => (c \o b)[i] = b[i - 1]
  <2>1. b \in Seq(S) /\ c \in Seq(S)
    BY <1>3, <1>4
  <2>2. /\ c \o b \in Seq(S) /\ Len(c \o b) = Len(c) + Len(b)
        /\ \A i \in 1..Len(c) : (c \o b)[i] = c[i]
        /\ \A i \in 1..Len(c \o b) : i \in 1..Len(c) \/ i - Len(c) \in 1..Len(b)
        /\ \A i \in 1..Len(c \o b) : i - Len(c) \in 1..Len(b) => (c \o b)[i] = b[i - Len(c)]
    BY <2>1, ConcatAt
  <2>3. Len(c) = 1
    BY <1>4
  <2> DEFINE d == c \o b
  <2> HIDE DEF d
  <2>4. /\ d \in Seq(S) /\ Len(d) = Len(c) + Len(b)
        /\ \A i \in 1..Len(c) : d[i] = c[i]
        /\ \A i \in 1..Len(d) : i \in 1..Len(c) \/ i - Len(c) \in 1..Len(b)
        /\ \A i \in 1..Len(d) : i - Len(c) \in 1..Len(b) => d[i] = b[i - Len(c)]
    BY <2>2 DEF d
  <2>5. /\ d \in Seq(S) /\ Len(d) = 1 + Len(b)
        /\ \A i \in 1..Len(d) : i \in 1..1 \/ i - 1 \in 1..Len(b)
        /\ \A i \in 1..1 : d[i] = c[i]
        /\ \A i \in 1..Len(d) : i - 1 \in 1..Len(b) => d[i] = b[i - 1]
    BY <2>3, <2>4
  <2> QED BY <2>5 DEF d
<1> DEFINE d == c \o b
<1> HIDE DEF d
<1>6. ASSUME NEW i \in 1..Len(d) PROVE d[i] = a[i]
  <2>1. Len(d) = 1 + Len(b)
    BY <1>5 DEF d
  <2>2. CASE i = 1
    <3>1. d[1] = s[k]
      BY <1>4, <1>5 DEF d
    <3>2. 1 \in 1..Len(s) - k + 1 /\ k + 1 - 1 = k
      BY <1>1
    <3>3. a[1] = s[k]
      BY <1>2, <3>2
    <3> QED BY <2>2, <3>1, <3>3
  <2>3. CASE i # 1
    <3>1. i - 1 \in 1..Len(b)
      BY <1>5, <2>3 DEF d
    <3>2. d[i] = b[i - 1]
      BY <1>5, <3>1 DEF d
    <3>3. i \in 1..Len(s) - k + 1 /\ i - 1 \in 1..Len(s) - k /\ k + i - 1 = k + (i - 1)
      BY <1>1, <1>3, <3>1
    <3>4. a[i] = s[k + i - 1] /\ b[i - 1] = s[k + (i - 1)]
      BY <1>2, <1>3, <3>3
    <3> QED BY <3>2, <3>3, <3>4
  <2> QED BY <2>2, <2>3
<1>7. d \in Seq(S) /\ Len(d) = Len(a)
  <2>1. d \in Seq(S) /\ Len(d) = 1 + Len(b)
    BY <1>5 DEF d
  <2> QED BY <1>1, <1>2, <1>3, <2>1
<1>8. d = a
  BY <1>2, <1>6, <1>7, SeqEqual
<1> QED BY <1>8 DEF a, b, c, d

LEMMA UnescapedReads ==
    ASSUME NEW text, Len(text) \in Nat, DOMAIN text = 1..Len(text),
           NEW s \in Seq(Characters), s # <<>>, NEW i \in Nat, i >= 1,
           Stands(Body(s), text, i), At(text, i + Len(Body(s)), "quote")
    PROVE  Unescaped(text, i, "backslash", Marks, Ends) = {Result(i + Len(Body(s)), s)}
<1> DEFINE n == Len(s)
<1> DEFINE es == Escapes(s)
<1> DEFINE body == Body(s)
<1>1. n \in Nat /\ n >= 1 /\ \A k \in 1..n : s[k] \in Characters
  BY LenProperties, EmptySeq, ElementOfSeq
<1>2. es \in Seq(Seq(Characters)) /\ Len(es) = n /\ \A k \in 1..n : es[k] = Escaped(s[k])
  BY EscapesType
<1>3. body = FlattenSeq(es)
  BY DEF Body
<1> HIDE DEF n, es, body
<1>4. PICK at \in [0..n -> Nat] : Places(at, body, es)
  BY <1>2, <1>3, FlattenPlaces
<1>5. /\ at[0] = 0 /\ at[n] = Len(body)
      /\ \A k \in 1..n : /\ at[k] = at[k - 1] + Len(es[k])
                        /\ \A q \in 1..Len(es[k]) : /\ at[k - 1] + q \in 1..Len(body)
                                                   /\ body[at[k - 1] + q] = es[k][q]
  BY <1>2, <1>4 DEF Places
<1>6. \A q \in 1..Len(body) : i - 1 + q \in DOMAIN text /\ text[i - 1 + q] = body[q]
  BY DEF Stands, body
<1>7. i + Len(body) \in DOMAIN text /\ text[i + Len(body)] = "quote"
  BY DEF At, body
<1>8. PICK f : /\ ReadsAll(f, text)
               /\ Unescaped(text, i, "backslash", Marks, Ends) = FromOrNone(f, text, i)
  BY QuotedIs
<1> DEFINE to == i + at[n]
<1>9. \A k \in 0..n : at[k] \in Nat
  BY <1>4
<1>10. ASSUME NEW k \in 1..n
       PROVE  /\ k - 1 \in 0..n /\ k \in 0..n /\ Stands(Escaped(s[k]), text, i + at[k - 1])
              /\ i + at[k - 1] \in DOMAIN text /\ text[i + at[k - 1]] # "quote"
  <2>1. k - 1 \in 0..n /\ k \in 0..n
    BY <1>1
  <2>2. at[k - 1] \in Nat
    BY <1>9, <2>1
  <2>3. ASSUME NEW q \in 1..Len(Escaped(s[k]))
        PROVE  /\ (i + at[k - 1]) - 1 + q \in DOMAIN text
               /\ text[(i + at[k - 1]) - 1 + q] = Escaped(s[k])[q]
    <3>1. at[k - 1] + q \in 1..Len(body) /\ body[at[k - 1] + q] = Escaped(s[k])[q]
      BY <1>2, <1>5
    <3>2. i - 1 + (at[k - 1] + q) = (i + at[k - 1]) - 1 + q
      BY <2>2
    <3>3. /\ i - 1 + (at[k - 1] + q) \in DOMAIN text
          /\ text[i - 1 + (at[k - 1] + q)] = body[at[k - 1] + q]
      BY <1>6, <3>1
    <3> QED BY <3>1, <3>2, <3>3
  <2>4. /\ 1 \in 1..Len(Escaped(s[k])) /\ Escaped(s[k])[1] # "quote"
        /\ (i + at[k - 1]) - 1 + 1 = i + at[k - 1]
    <3>1. s[k] \in Characters
      BY <1>1
    <3>2. Len(Escaped(s[k])) \in {1, 2} /\ Escaped(s[k])[1] # "quote"
      BY <3>1, EscapedIs DEF Marks
    <3> QED BY <2>2, <3>2
  <2>5. i + at[k - 1] \in DOMAIN text /\ text[i + at[k - 1]] # "quote"
    BY <2>3, <2>4
  <2> QED BY <2>1, <2>3, <2>5 DEF Stands
<1> DEFINE T == {m \in Nat : m <= n => Reads(f, i + at[n - m], to, SubSeq(s, n - m + 1, n))}
<1>11. 0 \in T
  <2>1. n - 0 = n /\ n \in 0..n
    BY <1>1
  <2>2. to \in DOMAIN text /\ text[to] = "quote" /\ to \in 1..Len(text) + 2
    BY <1>5, <1>7
  <2>3. Reads(f, to, to, <<>>)
    <3>1. ReadsAt(f, text, to)
      BY <1>8, <2>2 DEF ReadsAll
    <3> QED BY <2>2, <3>1 DEF ReadsFrom, ReadsAt, Reads, Ends
  <2>4. SubSeq(s, n - 0 + 1, n) = <<>>
    <3>1. n - 0 + 1 \in Int /\ n \in Int /\ n < n - 0 + 1
      BY <1>1
    <3> QED BY <3>1, SubSeqEmpty
  <2> QED BY <2>1, <2>3, <2>4
<1>12. ASSUME NEW m \in T PROVE m + 1 \in T
  <2> SUFFICES ASSUME m + 1 <= n
               PROVE  Reads(f, i + at[n - (m + 1)], to, SubSeq(s, n - (m + 1) + 1, n))
    BY <1>12
  <2> DEFINE k == n - m
  <2>1. /\ m \in Nat /\ m <= n /\ k \in 1..n /\ n - (m + 1) = k - 1 /\ n - (m + 1) + 1 = k
        /\ n - m + 1 = k + 1
    BY <1>1
  <2>2. Reads(f, i + at[k], to, SubSeq(s, k + 1, n))
    BY <1>12, <2>1
  <2> HIDE DEF k, to
  <2> DEFINE j == i + at[k - 1]
  <2>3. k - 1 \in 0..n /\ Stands(Escaped(s[k]), text, j) /\ j \in DOMAIN text
    BY <1>10, <2>1
  <2>4. s[k] \in Characters /\ at[k - 1] \in Nat
    BY <1>1, <1>9, <2>1, <2>3
  <2>5. j \in Nat /\ j \in 1..Len(text) + 2
    BY <2>3, <2>4
  <2>6. j + Len(Escaped(s[k])) = i + at[k]
    <3>1. at[k] = at[k - 1] + Len(Escaped(s[k]))
      BY <1>2, <1>5, <2>1
    <3>2. Len(Escaped(s[k])) \in {1, 2}
      BY <2>4, EscapedIs
    <3> QED BY <2>4, <3>1, <3>2
  <2>7. ReadsAt(f, text, j)
    BY <1>8, <2>5 DEF ReadsAll
  <2> HIDE DEF j
  <2>8. Reads(f, j, to, <<s[k]>> \o SubSeq(s, k + 1, n))
    <3>1. Reads(f, j + Len(Escaped(s[k])), to, SubSeq(s, k + 1, n))
      BY <2>2, <2>6
    <3> QED BY <2>3, <2>4, <2>5, <2>7, <3>1, ReadsOne
  <2>9. <<s[k]>> \o SubSeq(s, k + 1, n) = SubSeq(s, k, n)
    BY <2>1, Prepend DEF n
  <2> QED BY <2>1, <2>8, <2>9 DEF j
<1>13. n \in T
  <2>1. T \in SUBSET Nat
    OBVIOUS
  <2> HIDE DEF T
  <2> QED BY <1>1, <1>11, <1>12, <2>1, Induction
<1>14. f[i] = {Result(to, s)}
  <2>1. n - n = 0 /\ n <= n /\ i + 0 = i /\ n - n + 1 = 1
    BY <1>1
  <2>2. Reads(f, i + at[0], to, SubSeq(s, 1, n))
    BY <1>13, <2>1
  <2>3. SubSeq(s, 1, n) = s
    BY <1>1 DEF n
  <2> QED BY <1>5, <2>1, <2>2, <2>3 DEF Reads
<1>15. ~ (i \in DOMAIN text /\ text[i] \in Ends)
  <2>1. 1 \in 1..n /\ 1 - 1 = 0 /\ i + 0 = i
    BY <1>1
  <2>2. text[i + at[0]] # "quote"
    BY <1>10, <2>1
  <2> QED BY <1>5, <2>1, <2>2 DEF Ends
<1> QED BY <1>5, <1>8, <1>14, <1>15 DEF body, FromOrNone

LEMMA QuotedType ==
    ASSUME NEW s \in Seq(Characters)
    PROVE  LET w == Quoted(s)
               b == Body(s)
           IN  /\ w \in Seq(Characters) /\ b \in Seq(Characters) /\ Len(w) = Len(b) + 2
               /\ w[1] = "quote" /\ w[Len(b) + 2] = "quote"
               /\ \A j \in 1..Len(b) : w[1 + j] = b[j]
<1> DEFINE b == Body(s)
<1> DEFINE q == <<"quote">>
<1>1. Quoted(s) = q \o b \o q
  BY DEF Quoted, Body, Escapes, Escaped, Marks
<1>2. b \in Seq(Characters)
  BY EscapesType, FlattenType DEF Body
<1>3. q \in Seq(Characters) /\ Len(q) = 1 /\ q[1] = "quote"
  BY DEF Characters
<1> HIDE DEF b, q
<1> DEFINE a == q \o b
<1>4. /\ a \in Seq(Characters) /\ Len(a) = 1 + Len(b) /\ a[1] = "quote"
      /\ \A j \in 1..Len(b) : a[1 + j] = b[j] /\ 1 + j \in 1..1 + Len(b)
  <2>1. /\ a \in Seq(Characters) /\ Len(a) = Len(q) + Len(b)
        /\ \A j \in 1..Len(q) : a[j] = q[j]
        /\ \A j \in 1..Len(b) : Len(q) + j \in 1..Len(a) /\ a[Len(q) + j] = b[j]
    <3>1. q \in Seq(Characters) /\ b \in Seq(Characters)
      BY <1>2, <1>3
    <3> QED BY <3>1, ConcatAt
  <2> HIDE DEF a
  <2>2. 1 \in 1..Len(q)
    BY <1>3
  <2>3. /\ Len(a) = 1 + Len(b) /\ a[1] = "quote"
    BY <1>3, <2>1, <2>2
  <2> QED BY <1>3, <2>1, <2>3
<1> HIDE DEF a
<1> DEFINE w == a \o q
<1>5. /\ w \in Seq(Characters) /\ Len(w) = Len(a) + Len(q)
      /\ \A j \in 1..Len(a) : w[j] = a[j]
      /\ \A j \in 1..Len(q) : w[Len(a) + j] = q[j]
  <2>1. a \in Seq(Characters) /\ q \in Seq(Characters)
    BY <1>3, <1>4
  <2> QED BY <2>1, ConcatAt
<1> HIDE DEF w
<1>6. Len(b) \in Nat
  BY <1>2, LenProperties
<1>7. Len(w) = Len(b) + 2 /\ 1 \in 1..Len(a) /\ 1 \in 1..Len(q) /\ Len(a) + 1 = Len(b) + 2
  BY <1>3, <1>4, <1>5, <1>6
<1>8. w[1] = "quote" /\ w[Len(b) + 2] = "quote"
  BY <1>3, <1>4, <1>5, <1>7
<1>9. \A j \in 1..Len(b) : w[1 + j] = b[j]
  BY <1>4, <1>5
<1> QED BY <1>1, <1>2, <1>5, <1>7, <1>8, <1>9 DEF b, w, a

\* One way of writing a string that is not empty.
LEMMA WritingType ==
    ASSUME NEW s \in Seq(Characters), s # <<>>, NEW w \in Writings(s)
    PROVE  /\ w \in Seq(Characters) /\ Len(w) \in Nat /\ Len(w) >= 1 /\ w[1] # "space"
           /\ w = Quoted(s) \/ (w = s /\ s[1] # "quote" /\ \A j \in 1..Len(s) : s[j] # "space")
<1>1. Len(s) \in Nat /\ Len(s) >= 1 /\ DOMAIN s = 1..Len(s)
  BY LenProperties, EmptySeq
<1>2. CASE w = Quoted(s)
  <2>1. w \in Seq(Characters) /\ Len(w) = Len(Body(s)) + 2 /\ w[1] = "quote"
        /\ Body(s) \in Seq(Characters)
    BY <1>2, QuotedType
  <2>2. Len(Body(s)) \in Nat
    BY <2>1, LenProperties
  <2> QED BY <1>2, <2>1, <2>2
<1>3. CASE w # Quoted(s)
  <2>1. w = s /\ s[1] # "quote" /\ "space" \notin Range(s)
    BY <1>3 DEF Writings
  <2>2. \A j \in 1..Len(s) : s[j] # "space"
    BY <1>1, <2>1 DEF Range
  <2> QED BY <1>1, <2>1, <2>2
<1> QED BY <1>2, <1>3

LEMMA ParseStrReads ==
    ASSUME NEW text \in Seq(Characters), NEW s \in Seq(Characters), s # <<>>,
           NEW w \in Writings(s), NEW i \in Nat, i >= 1, Stands(w, text, i),
           i + Len(w) \in DOMAIN text => text[i + Len(w)] = "space"
    PROVE  ParseStr(text, i) = {Result(i + Len(w), s)}
<1>1. /\ w \in Seq(Characters) /\ Len(w) \in Nat /\ Len(w) >= 1
      /\ w = Quoted(s) \/ (w = s /\ s[1] # "quote" /\ \A j \in 1..Len(s) : s[j] # "space")
  BY WritingType
<1>2. Len(text) \in Nat /\ DOMAIN text = 1..Len(text)
  BY LenProperties
<1>3. \A j \in 1..Len(w) : i - 1 + j \in DOMAIN text /\ text[i - 1 + j] = w[j]
  BY DEF Stands
<1>4. i \in DOMAIN text /\ text[i] = w[1]
  <2>1. 1 \in 1..Len(w) /\ i - 1 + 1 = i
    BY <1>1
  <2> QED BY <1>3, <2>1
<1>5. CASE w = Quoted(s)
  <2> DEFINE b == Body(s)
  <2>1. /\ b \in Seq(Characters) /\ Len(w) = Len(b) + 2
        /\ w[1] = "quote" /\ w[Len(b) + 2] = "quote"
        /\ \A j \in 1..Len(b) : w[1 + j] = b[j]
    BY <1>5, QuotedType
  <2>2. Len(b) \in Nat
    BY <2>1, LenProperties
  <2> HIDE DEF b
  <2>3. Stands(b, text, i + 1)
    <3> SUFFICES ASSUME NEW j \in 1..Len(b)
                 PROVE  (i + 1) - 1 + j \in DOMAIN text /\ text[(i + 1) - 1 + j] = b[j]
      BY DEF Stands
    <3>1. 1 + j \in 1..Len(w) /\ i - 1 + (1 + j) = (i + 1) - 1 + j
      BY <2>1, <2>2
    <3>2. /\ i - 1 + (1 + j) \in DOMAIN text /\ text[i - 1 + (1 + j)] = w[1 + j]
      BY <1>3, <3>1
    <3> QED BY <2>1, <3>1, <3>2
  <2>4. At(text, i + 1 + Len(b), "quote")
    <3>1. Len(b) + 2 \in 1..Len(w) /\ i - 1 + (Len(b) + 2) = i + 1 + Len(b)
      BY <2>1, <2>2
    <3>2. i - 1 + (Len(b) + 2) \in DOMAIN text /\ text[i - 1 + (Len(b) + 2)] = w[Len(b) + 2]
      BY <1>3, <3>1
    <3> QED BY <2>1, <3>1, <3>2 DEF At
  <2>5. Unescaped(text, i + 1, "backslash", Marks, Ends) = {Result(i + 1 + Len(b), s)}
    <3>1. i + 1 \in Nat /\ i + 1 >= 1
      OBVIOUS
    <3> QED BY <1>2, <2>3, <2>4, <3>1, UnescapedReads DEF b
  <2>6. At(text, i, "quote")
    BY <1>4, <2>1 DEF At
  <2>7. ParseQuoted(text, i)
          = {Result(r.to + 1, r.value) : r \in {r \in {Result(i + 1 + Len(b), s)} : At(text, r.to, "quote")}}
    BY <2>5, <2>6 DEF ParseQuoted, Marks, Ends
  <2>8. Result(i + 1 + Len(b), s).to = i + 1 + Len(b) /\ Result(i + 1 + Len(b), s).value = s
    BY DEF Result
  <2>9. {r \in {Result(i + 1 + Len(b), s)} : At(text, r.to, "quote")} = {Result(i + 1 + Len(b), s)}
    BY <2>4, <2>8
  <2>10. ParseQuoted(text, i) = {Result(i + 1 + Len(b) + 1, s)}
    BY <2>7, <2>8, <2>9
  <2>11. i + 1 + Len(b) + 1 = i + Len(w)
    BY <2>1, <2>2
  <2> QED BY <2>10, <2>11 DEF ParseStr, Else
<1>6. CASE w = s /\ s[1] # "quote" /\ \A j \in 1..Len(s) : s[j] # "space"
  <2>1. ~ At(text, i, "quote")
    BY <1>4, <1>6 DEF At
  <2>2. ParseQuoted(text, i) = {}
    BY <2>1 DEF ParseQuoted
  <2> DEFINE j == i + Len(s)
  <2>3. j \in i..Len(text) + 1 /\ j > i /\ j \in Nat
    <3>1. Len(s) \in 1..Len(w)
      BY <1>1, <1>6
    <3>2. i - 1 + Len(s) \in 1..Len(text)
      BY <1>2, <1>3, <3>1
    <3> QED BY <1>1, <1>2, <1>6, <3>2
  <2>4. ASSUME NEW k \in i..j - 1 PROVE text[k] # "space" /\ text[k] = s[k - i + 1] /\ k - i + 1 \in 1..Len(s)
    <3>1. k - i + 1 \in 1..Len(w) /\ i - 1 + (k - i + 1) = k
      BY <1>1, <1>6
    <3>2. text[i - 1 + (k - i + 1)] = w[k - i + 1]
      BY <1>3, <3>1
    <3> QED BY <1>6, <3>1, <3>2
  <2>5. j \in DOMAIN text => text[j] = "space"
    BY <1>6
  <2>6. RunEnd(text, i, {"space"}) = j
    <3> HIDE DEF j
    <3>1. \A k \in i..j - 1 : text[k] \notin {"space"}
      BY <2>4
    <3>2. j \in DOMAIN text => text[j] \in {"space"}
      BY <2>5
    <3> QED BY <1>2, <2>3, <3>1, <3>2, RunEndIs
  <2>7. SubSeq(text, i, j - 1) = s
    <3> DEFINE u == SubSeq(text, i, j - 1)
    <3>1. i \in Int /\ j - 1 \in Int /\ i <= j - 1 /\ (j - 1) - i + 1 = Len(s)
      BY <1>1, <1>6, <2>3
    <3>2. \A k \in i..j - 1 : text[k] \in Characters
      <4>1. \A k \in i..j - 1 : s[k - i + 1] \in Characters
        BY <2>4, ElementOfSeq
      <4> QED BY <2>4, <4>1
    <3> HIDE DEF j
    <3>3. /\ u \in Seq(Characters) /\ Len(u) = IF i <= j - 1 THEN (j - 1) - i + 1 ELSE 0
          /\ \A k \in 1..(j - 1) - i + 1 : u[k] = text[i + k - 1]
      BY <3>1, <3>2, SubSeqProperties
    <3> HIDE DEF u
    <3>4. Len(u) = Len(s) /\ \A k \in 1..Len(s) : u[k] = text[i + k - 1]
      BY <3>1, <3>3
    <3>5. ASSUME NEW k \in 1..Len(u) PROVE u[k] = s[k]
      <4>1. i + k - 1 \in i..j - 1 /\ (i + k - 1) - i + 1 = k
        BY <3>1, <3>4
      <4>2. text[i + k - 1] = s[(i + k - 1) - i + 1]
        BY <2>4, <4>1
      <4> QED BY <3>4, <4>1, <4>2
    <3>6. u = s
      BY <3>3, <3>4, <3>5, SeqEqual
    <3> QED BY <3>6 DEF u
  <2>8. ParseAtom(text, i) = {Result(j, s)}
    BY <2>3, <2>6, <2>7 DEF ParseAtom
  <2> QED BY <1>6, <2>2, <2>8 DEF ParseStr, Else
<1> QED BY <1>1, <1>5, <1>6

Spaces(text, p, i) == \A k \in p..i - 1 : text[k] = "space"
EndsAt(text, j) == j \in DOMAIN text => text[j] = "space"

\* An argument behind any spaces.
LEMMA ParseArgReads ==
    ASSUME NEW text \in Seq(Characters), NEW s \in Seq(Characters), s # <<>>,
           NEW w \in Writings(s), NEW i \in Nat, Stands(w, text, i),
           EndsAt(text, i + Len(w)), NEW p \in 1..i, Spaces(text, p, i)
    PROVE  ParseArg(text, p) = {Result(i + Len(w), s)}
<1>1. Len(text) \in Nat /\ DOMAIN text = 1..Len(text)
  BY LenProperties
<1>2. Len(w) \in Nat /\ Len(w) >= 1 /\ w[1] # "space" /\ w \in Seq(Characters)
  BY WritingType
<1>3. i \in DOMAIN text /\ text[i] \in Characters \ {"space"}
  <2>1. 1 \in 1..Len(w) /\ i - 1 + 1 = i
    BY <1>2
  <2>2. i \in DOMAIN text /\ text[i] = w[1]
    BY <2>1 DEF Stands
  <2>3. w[1] \in Characters
    BY <1>2, <2>1, ElementOfSeq
  <2> QED BY <1>2, <2>2, <2>3
<1>4. i >= 1 /\ p \in Nat /\ p >= 1 /\ i \in p..Len(text) + 1
  BY <1>1, <1>3
<1>5. RunEnd(text, p, Characters \ {"space"}) = i
  <2>1. \A k \in p..i - 1 : text[k] \notin Characters \ {"space"}
    BY DEF Spaces
  <2> DEFINE S == Characters \ {"space"}
  <2>2. (\A k \in p..i - 1 : text[k] \notin S) /\ text[i] \in S
    BY <1>3, <2>1
  <2> HIDE DEF S
  <2>3. RunEnd(text, p, S) = i
    BY <1>1, <1>4, <2>2, RunEndIs
  <2> QED BY <2>3 DEF S
<1>6. ParseStr(text, i) = {Result(i + Len(w), s)}
  BY <1>4, ParseStrReads DEF EndsAt
<1> QED BY <1>5, <1>6 DEF ParseArg

Rests == {<<>>, <<"space", "quote">>}
Arguments(first, second, rest) == first \o <<"space">> \o second \o rest

LEMMA ParseTwoReads ==
    ASSUME NEW s1 \in Seq(Characters), s1 # <<>>, NEW s2 \in Seq(Characters), s2 # <<>>,
           NEW first \in Writings(s1), NEW second \in Writings(s2), NEW rest \in Rests
    PROVE  ParseTwo(Arguments(first, second, rest)) = {<<s1, s2>>}
<1>1. first \in Seq(Characters) /\ Len(first) \in Nat /\ Len(first) >= 1
  BY WritingType
<1>2. second \in Seq(Characters) /\ Len(second) \in Nat /\ Len(second) >= 1
  BY WritingType
<1> DEFINE sp == <<"space">>
<1>3. sp \in Seq(Characters) /\ Len(sp) = 1 /\ sp[1] = "space"
  BY DEF Characters
<1>4. rest \in Seq(Characters) /\ Len(rest) \in Nat /\ (Len(rest) >= 1 => rest[1] = "space")
  <2>1. "space" \in Characters /\ "quote" \in Characters
    BY DEF Characters
  <2>2. <<>> \in Seq(Characters) /\ Len(<<>>) = 0
    OBVIOUS
  <2>3. <<"space", "quote">> \in Seq(Characters) /\ Len(<<"space", "quote">>) = 2
        /\ <<"space", "quote">>[1] = "space"
    BY <2>1
  <2>4. CASE rest = <<>>
    BY <2>2, <2>4
  <2>5. CASE rest = <<"space", "quote">>
    BY <2>3, <2>5
  <2> QED BY <2>4, <2>5 DEF Rests
<1> HIDE DEF sp
<1> DEFINE m == Len(first)
<1> DEFINE n == Len(second)
<1> DEFINE a == first \o sp
<1>5. /\ a \in Seq(Characters) /\ Len(a) = m + 1 /\ a[m + 1] = "space"
      /\ \A j \in 1..m : a[j] = first[j]
  <2>1. /\ a \in Seq(Characters) /\ Len(a) = Len(first) + Len(sp)
        /\ \A j \in 1..Len(first) : a[j] = first[j]
        /\ \A j \in 1..Len(sp) : a[Len(first) + j] = sp[j]
    <3>1. first \in Seq(Characters) /\ sp \in Seq(Characters)
      BY <1>1, <1>3
    <3> QED BY <3>1, ConcatAt
  <2> HIDE DEF a
  <2>2. 1 \in 1..Len(sp)
    BY <1>3
  <2> QED BY <1>3, <2>1, <2>2
<1> HIDE DEF a
<1> DEFINE b == a \o second
<1>6. /\ b \in Seq(Characters) /\ Len(b) = m + 1 + n
      /\ \A j \in 1..m + 1 : b[j] = a[j]
      /\ \A j \in 1..n : b[m + 1 + j] = second[j]
  <2>1. /\ b \in Seq(Characters) /\ Len(b) = Len(a) + Len(second)
        /\ \A j \in 1..Len(a) : b[j] = a[j]
        /\ \A j \in 1..Len(second) : b[Len(a) + j] = second[j]
    <3>1. a \in Seq(Characters) /\ second \in Seq(Characters)
      BY <1>2, <1>5
    <3> QED BY <3>1, ConcatAt
  <2> HIDE DEF b
  <2> QED BY <1>5, <2>1
<1> HIDE DEF b
<1> DEFINE text == b \o rest
<1>7. /\ text \in Seq(Characters) /\ Len(text) = m + 1 + n + Len(rest)
      /\ \A j \in 1..m + 1 + n : text[j] = b[j]
      /\ \A j \in 1..Len(rest) : text[m + 1 + n + j] = rest[j]
  <2>1. /\ text \in Seq(Characters) /\ Len(text) = Len(b) + Len(rest)
        /\ \A j \in 1..Len(b) : text[j] = b[j]
        /\ \A j \in 1..Len(rest) : text[Len(b) + j] = rest[j]
    <3>1. b \in Seq(Characters) /\ rest \in Seq(Characters)
      BY <1>4, <1>6
    <3> QED BY <3>1, ConcatAt
  <2> HIDE DEF text
  <2> QED BY <1>6, <2>1
<1>8. Arguments(first, second, rest) = text
  BY DEF Arguments, a, b, sp
<1> HIDE DEF text
<1>9. m \in Nat /\ n \in Nat /\ m >= 1 /\ n >= 1
  BY <1>1, <1>2
<1>10. DOMAIN text = 1..m + 1 + n + Len(rest)
  BY <1>7, LenProperties
<1>11. Stands(first, text, 1) /\ text[1 + m] = "space"
  <2>1. \A j \in 1..m : 1 - 1 + j = j /\ j \in 1..m + 1 /\ j \in 1..m + 1 + n
                     /\ j \in 1..m + 1 + n + Len(rest)
    BY <1>4, <1>9
  <2>2. \A j \in 1..m : text[j] = first[j]
    BY <1>5, <1>6, <1>7, <2>1
  <2>3. m + 1 \in 1..m + 1 /\ m + 1 \in 1..m + 1 + n /\ 1 + m = m + 1
    BY <1>9
  <2>4. text[m + 1] = "space"
    BY <1>5, <1>6, <1>7, <2>3
  <2> QED BY <1>10, <2>1, <2>2, <2>3, <2>4 DEF Stands
<1> DEFINE i == m + 2
<1>12. Stands(second, text, i) /\ i \in Nat
  <2>1. \A j \in 1..n : /\ i - 1 + j = m + 1 + j /\ m + 1 + j \in 1..m + 1 + n
                      /\ m + 1 + j \in 1..m + 1 + n + Len(rest)
    BY <1>4, <1>9
  <2>2. \A j \in 1..n : text[m + 1 + j] = second[j]
    BY <1>6, <1>7, <2>1
  <2> QED BY <1>9, <1>10, <2>1, <2>2 DEF Stands
<1>13. EndsAt(text, i + Len(second))
  <2> SUFFICES ASSUME i + n \in DOMAIN text PROVE text[i + n] = "space"
    BY DEF EndsAt
  <2>1. i + n = m + 1 + n + 1 /\ Len(rest) >= 1 /\ 1 \in 1..Len(rest)
    BY <1>4, <1>9, <1>10
  <2> QED BY <1>4, <1>7, <2>1
<1>14. ParseArg(text, 1) = {Result(1 + m, s1)}
  <2>1. 1 \in Nat /\ 1 \in 1..1 /\ Spaces(text, 1, 1)
    BY DEF Spaces
  <2>2. EndsAt(text, 1 + Len(first))
    BY <1>11 DEF EndsAt
  <2> QED BY <1>7, <1>11, <2>1, <2>2, ParseArgReads
<1>15. ParseArg(text, 1 + m) = {Result(i + n, s2)}
  <2>1. 1 + m \in 1..i /\ \A k \in 1 + m..i - 1 : k = 1 + m
    BY <1>9
  <2>2. Spaces(text, 1 + m, i)
    BY <1>11, <2>1 DEF Spaces
  <2> HIDE DEF i
  <2> QED BY <1>7, <1>12, <1>13, <2>1, <2>2, ParseArgReads
<1>16. /\ Result(1 + m, s1).to = 1 + m /\ Result(1 + m, s1).value = s1
       /\ Result(i + n, s2).value = s2
  BY DEF Result
<1>17. ParseTwo(text) = {<<s1, s2>>}
  <2> HIDE DEF i, m, n
  <2> DEFINE F(f) == {<<f.value, g.value>> : g \in ParseArg(text, f.to)}
  <2>1. F(Result(1 + m, s1)) = {<<s1, s2>>}
    BY <1>15, <1>16
  <2>2. ParseTwo(text) = UNION {F(f) : f \in ParseArg(text, 1)}
    BY DEF ParseTwo
  <2> HIDE DEF F
  <2> QED BY <1>14, <2>1, <2>2
<1> QED BY <1>8, <1>17

TwoStrings == \E a \in Seq(Characters), b \in Seq(Characters) : wanted = <<a, b>>

LEMMA TwoStringsReadBack == TwoStrings => StringsReadBack
<1> SUFFICES ASSUME TwoStrings PROVE StringsReadBack
  OBVIOUS
<1>1. PICK a \in Seq(Characters), b \in Seq(Characters) : wanted = <<a, b>>
  BY DEF TwoStrings
<1>2. wanted[1] = a /\ wanted[2] = b
  BY <1>1
<1>3. SUFFICES ASSUME \A n \in {1, 2} : wanted[n] # <<>>,
                      NEW first \in Writings(wanted[1]), NEW second \in Writings(wanted[2]),
                      NEW rest \in Rests
               PROVE  ParseTwo(Arguments(first, second, rest)) = {wanted}
  BY DEF StringsReadBack, Rests, Arguments
<1>4. a # <<>> /\ b # <<>> /\ first \in Writings(a) /\ second \in Writings(b)
  <2>1. wanted[1] # <<>> /\ wanted[2] # <<>>
    BY <1>3
  <2> QED BY <1>2, <2>1
<1>5. ParseTwo(Arguments(first, second, rest)) = {<<a, b>>}
  BY <1>4, ParseTwoReads
<1> QED BY <1>1, <1>5

\* Two strings that are not empty are read as they were meant, however each
\* is written and whatever comes behind them: parse_str and args!.
THEOREM StringsAreReadBack == StringsSpec => []StringsReadBack
<1>1. StringsInit => TwoStrings
  <2>1. <<>> \in Seq(Characters)
    OBVIOUS
  <2> QED BY <2>1 DEF StringsInit, TwoStrings
<1>2. TwoStrings /\ [WantMore]_wanted => TwoStrings'
  <2> SUFFICES ASSUME NEW a \in Seq(Characters), NEW b \in Seq(Characters), wanted = <<a, b>>,
                      [WantMore]_wanted
               PROVE  TwoStrings'
    BY DEF TwoStrings
  <2>1. CASE WantMore
    <3>1. PICK n \in {1, 2}, c \in Characters : wanted' = [wanted EXCEPT ![n] = Append(@, c)]
      BY <2>1 DEF WantMore
    <3>2. Append(a, c) \in Seq(Characters) /\ Append(b, c) \in Seq(Characters)
      OBVIOUS
    <3>3. CASE n = 1
      <4>1. wanted' = <<Append(a, c), b>>
        BY <3>1, <3>3
      <4> QED BY <3>2, <4>1 DEF TwoStrings
    <3>4. CASE n = 2
      <4>1. wanted' = <<a, Append(b, c)>>
        BY <3>1, <3>4
      <4> QED BY <3>2, <4>1 DEF TwoStrings
    <3> QED BY <3>3, <3>4
  <2>2. CASE UNCHANGED wanted
    BY <2>2 DEF TwoStrings
  <2> QED BY <2>1, <2>2
<1>3. TwoStrings => StringsReadBack
  BY TwoStringsReadBack
<1> QED BY <1>1, <1>2, <1>3, PTL DEF StringsSpec
=============================================================================
