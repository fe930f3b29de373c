---------------------------- MODULE Ehlo_proofs ----------------------------
(***************************************************************************)
(* What holds of the answers to EHLO, with any number of lines: what a     *)
(* response says of the lines it was read from, and that a printed one is  *)
(* read back.                                                              *)
(***************************************************************************)
EXTENDS Ehlo, SequenceLemmas

-----------------------------------------------------------------------------
(* The lines of an answer to EHLO *)

AllTexts ==
    [keyword : Extensions \cup {"host", "SIZE", "AUTH", "other"},
     names : SUBSET (Sizes \cup {NotASize} \cup Mechanisms \cup {"other"})]

\* SIZE has one argument.
AllLines ==
    {l \in [separator : {"-", " ", "other"}, text : AllTexts] :
        l.text.keyword = "SIZE" => \E n \in Sizes \cup {NotASize} : l.text.names = {n}}

\* What the first k lines say.
With(a, k, key) == {i \in 2..k : a[i].text.keyword = key}

LastSaid(a, k, key) ==
    UNION {a[i].text.names : i \in {i \in With(a, k, key) : \A j \in With(a, k, key) : j <= i}}

Read(d, e, s, a) == [domain |-> d, extensions |-> e, size |-> s, auth |-> a]

Said(a, k) ==
    IF k = 0 THEN Nothing
    ELSE Read({a[1].text}, {x \in Extensions : \E i \in 2..k : a[i].text.keyword = x},
              LastSaid(a, k, "SIZE"), LastSaid(a, k, "AUTH") \cap Mechanisms)

\* A line that is not taken behind k others.
Bad(line, k) ==
    \/ line.separator \notin {"-", " "}
    \/ k > 0 /\ line.text.keyword = "SIZE" /\ ~ line.text.names \subseteq Sizes

ReadUpTo(k) ==
    /\ unread = SubSeq(answer, k + 1, Len(answer))
    /\ got = Said(answer, k) /\ got.size \subseteq Sizes
    /\ result \in {"reading", "ok", "syntax"}
    /\ \A i \in 1..k : answer[i].separator = IF result = "ok" /\ i = k THEN " " ELSE "-"
    /\ result = "ok" => k > 0
    /\ result = "syntax" => k = Len(answer) \/ Bad(answer[k + 1], k)

EhloInv == answer \in Seq(AllLines) /\ \E k \in 0..Len(answer) : ReadUpTo(k)

\* What is left of a sequence behind its first k elements.
LEMMA Behind ==
    ASSUME NEW S, NEW a \in Seq(S), NEW k \in 0..Len(a), NEW left,
           left = SubSeq(a, k + 1, Len(a))
    PROVE  /\ Len(a) \in Nat /\ k \in Nat /\ k <= Len(a)
           /\ left \in Seq(S) /\ Len(left) = Len(a) - k /\ Len(a) - Len(left) = k
           /\ left # <<>> <=> k < Len(a)
           /\ k < Len(a) => /\ k + 1 \in DOMAIN a /\ k + 1 \in 0..Len(a) /\ a[k + 1] \in S
                             /\ Head(left) = a[k + 1]
                             /\ Tail(left) = SubSeq(a, (k + 1) + 1, Len(a))
<1>1. Len(a) \in Nat /\ k \in Nat /\ k <= Len(a)
  BY LenProperties
<1>2. left \in Seq(S) /\ Len(left) = Len(a) - k /\ \A i \in 1..Len(a) - k : left[i] = a[k + i]
  <2>1. k + 1 \in Int /\ Len(a) \in Int /\ \A i \in k + 1..Len(a) : a[i] \in S
    BY <1>1
  <2> DEFINE l == SubSeq(a, k + 1, Len(a))
  <2>2. /\ l \in Seq(S)
        /\ Len(l) = IF k + 1 <= Len(a) THEN Len(a) - (k + 1) + 1 ELSE 0
        /\ \A i \in 1..Len(a) - (k + 1) + 1 : l[i] = a[(k + 1) + i - 1]
    BY <2>1, SubSeqProperties
  <2> HIDE DEF l
  <2>3. Len(a) - (k + 1) + 1 = Len(a) - k /\ \A i \in 1..Len(a) - k : (k + 1) + i - 1 = k + i
    BY <1>1
  <2>4. Len(l) = Len(a) - k
    BY <1>1, <2>2
  <2> QED BY <2>2, <2>3, <2>4 DEF l
<1>3. left # <<>> <=> k < Len(a)
  <2>1. left # <<>> <=> Len(left) # 0
    BY <1>2, EmptySeq
  <2>2. Len(a) - k # 0 <=> k < Len(a)
    BY <1>1
  <2> QED BY <1>2, <2>1, <2>2
<1>4. ASSUME k < Len(a)
      PROVE  /\ k + 1 \in DOMAIN a /\ k + 1 \in 0..Len(a) /\ a[k + 1] \in S
             /\ Head(left) = a[k + 1] /\ Tail(left) = SubSeq(a, (k + 1) + 1, Len(a))
  <2>1. k + 1 \in DOMAIN a /\ k + 1 \in 0..Len(a) /\ a[k + 1] \in S
    BY <1>1, <1>4
  <2>2. Head(left) = a[k + 1]
    BY <1>1, <1>2, <1>4
  <2>3. Tail(left) = SubSeq(a, (k + 1) + 1, Len(a))
    BY <1>1, <1>4
  <2> QED BY <2>1, <2>2, <2>3
<1> QED BY <1>1, <1>2, <1>3, <1>4

LEMMA LastNew ==
    ASSUME NEW a, NEW k \in Nat \ {0}, NEW key
    PROVE  LastSaid(a, k + 1, key) = IF a[k + 1].text.keyword = key THEN a[k + 1].text.names
                                     ELSE LastSaid(a, k, key)
<1>1. 2..k + 1 = (2..k) \cup {k + 1} /\ \A i \in 2..k : i <= k + 1 /\ ~ (k + 1 <= i)
  OBVIOUS
<1>2. CASE a[k + 1].text.keyword = key
  <2>1. With(a, k + 1, key) = With(a, k, key) \cup {k + 1}
    BY <1>1, <1>2 DEF With
  <2>2. {i \in With(a, k + 1, key) : \A j \in With(a, k + 1, key) : j <= i} = {k + 1}
    <3>1. \A i \in With(a, k, key) : i <= k + 1 /\ ~ (k + 1 <= i)
      BY <1>1 DEF With
    <3>2. k + 1 <= k + 1
      OBVIOUS
    <3> QED BY <2>1, <3>1, <3>2
  <2> QED BY <1>2, <2>2 DEF LastSaid
<1>3. CASE a[k + 1].text.keyword # key
  <2>1. With(a, k + 1, key) = With(a, k, key)
    BY <1>1, <1>3 DEF With
  <2> QED BY <1>3, <2>1 DEF LastSaid
<1> QED BY <1>2, <1>3

LEMMA LastNone ==
    ASSUME NEW a, NEW key
    PROVE  LastSaid(a, 1, key) = {}
<1>1. 2..1 = {}
  OBVIOUS
<1> QED BY <1>1 DEF LastSaid, With

\* What a line behind the first makes of what has been read.
More(d, e, s, a, text) ==
    Read(d, IF text.keyword \in Extensions THEN e \cup {text.keyword} ELSE e,
         IF text.keyword = "SIZE" THEN text.names ELSE s,
         IF text.keyword = "AUTH" THEN text.names \cap Mechanisms ELSE a)

LEMMA TakeFirst ==
    ASSUME NEW text, got = Nothing
    PROVE  Take(text) = Read({text}, {}, {}, {})
<1>1. got.domain = {} /\ [got EXCEPT !.domain = {text}] = Read({text}, {}, {}, {})
  BY DEF Nothing, Read
<1> QED BY <1>1 DEF Take

LEMMA TakeMore ==
    ASSUME NEW d, NEW e, NEW s, NEW a, NEW text, d # {}
    PROVE  got = Read(d, e, s, a) => Take(text) = More(d, e, s, a, text)
<1> SUFFICES ASSUME got = Read(d, e, s, a) PROVE Take(text) = More(d, e, s, a, text)
  OBVIOUS
<1>1. got.domain = d /\ got.extensions = e
  BY DEF Read
<1>2. ASSUME NEW x
      PROVE  /\ [got EXCEPT !.domain = x] = Read(x, e, s, a)
             /\ [got EXCEPT !.extensions = x] = Read(d, x, s, a)
             /\ [got EXCEPT !.size = x] = Read(d, e, x, a)
             /\ [got EXCEPT !.auth = x] = Read(d, e, s, x)
  BY DEF Read
<1>3. "SIZE" \notin Extensions /\ "AUTH" \notin Extensions /\ "SIZE" # "AUTH"
  BY ExtensionsAssumption
<1>4. CASE text.keyword \in Extensions
  <2>1. Take(text) = [got EXCEPT !.extensions = e \cup {text.keyword}]
    BY <1>1, <1>3, <1>4 DEF Take
  <2>2. Take(text) = Read(d, e \cup {text.keyword}, s, a)
    BY <1>2, <2>1
  <2> QED BY <1>3, <1>4, <2>2 DEF More
<1>5. CASE text.keyword = "SIZE"
  <2>1. Take(text) = [got EXCEPT !.size = text.names]
    BY <1>1, <1>3, <1>5 DEF Take
  <2>2. Take(text) = Read(d, e, text.names, a)
    BY <1>2, <2>1
  <2> QED BY <1>3, <1>5, <2>2 DEF More
<1>6. CASE text.keyword = "AUTH"
  <2>1. Take(text) = [got EXCEPT !.auth = text.names \cap Mechanisms]
    BY <1>1, <1>3, <1>6 DEF Take
  <2>2. Take(text) = Read(d, e, s, text.names \cap Mechanisms)
    BY <1>2, <2>1
  <2> QED BY <1>3, <1>6, <2>2 DEF More
<1>7. CASE text.keyword \notin Extensions /\ text.keyword # "SIZE" /\ text.keyword # "AUTH"
  <2>1. Take(text) = got
    BY <1>1, <1>7 DEF Take
  <2> QED BY <1>7, <2>1 DEF More
<1> QED BY <1>4, <1>5, <1>6, <1>7

\* Taking the next line makes a response say what one more line says.
LEMMA TakeSays ==
    ASSUME NEW k \in Nat, got = Said(answer, k)
    PROVE  Take(answer[k + 1].text) = Said(answer, k + 1)
<1>1. CASE k = 0
  <2>1. got = Nothing
    BY <1>1 DEF Said
  <2>2. Take(answer[1].text) = Read({answer[1].text}, {}, {}, {})
    BY <2>1, TakeFirst
  <2>3. {x \in Extensions : \E i \in 2..1 : answer[i].text.keyword = x} = {}
    <3>1. 2..1 = {}
      OBVIOUS
    <3> QED BY <3>1
  <2>4. Said(answer, 1) = Read({answer[1].text}, {}, {}, {})
    <3>1. {} \cap Mechanisms = {} /\ 1 # 0
      OBVIOUS
    <3> QED BY <2>3, <3>1, LastNone, Zenon DEF Said
  <2>5. k + 1 = 1
    BY <1>1
  <2> QED BY <2>2, <2>4, <2>5, Zenon
<1>2. CASE k # 0
  <2> DEFINE text == answer[k + 1].text
  <2> DEFINE said == {x \in Extensions : \E i \in 2..k : answer[i].text.keyword = x}
  <2> DEFINE size == LastSaid(answer, k, "SIZE")
  <2> DEFINE auth == LastSaid(answer, k, "AUTH") \cap Mechanisms
  <2>1. got = Read({answer[1].text}, said, size, auth)
    BY <1>2, Zenon DEF Said
  <2>2. /\ LastSaid(answer, k + 1, "SIZE") = IF text.keyword = "SIZE" THEN text.names ELSE size
        /\ LastSaid(answer, k + 1, "AUTH") \cap Mechanisms
             = IF text.keyword = "AUTH" THEN text.names \cap Mechanisms ELSE auth
    BY <1>2, LastNew
  <2>3. {x \in Extensions : \E i \in 2..k + 1 : answer[i].text.keyword = x}
          = IF text.keyword \in Extensions THEN said \cup {text.keyword} ELSE said
    <3>1. 2..k + 1 = (2..k) \cup {k + 1}
      BY <1>2
    <3> QED BY <3>1
  <2>4. k + 1 # 0
    OBVIOUS
  <2>5. Said(answer, k + 1) = More({answer[1].text}, said, size, auth, text)
    BY <2>2, <2>3, <2>4, Zenon DEF Said, More
  <2>6. {answer[1].text} # {}
    OBVIOUS
  <2> HIDE DEF text, said, size, auth
  <2>7. Take(text) = More({answer[1].text}, said, size, auth, text)
    BY <2>1, <2>6, TakeMore
  <2>8. Take(text) = Said(answer, k + 1)
    BY <2>5, <2>7, Zenon
  <2> QED BY <2>8 DEF text
<1> QED BY <1>1, <1>2

LEMMA DomainSaid ==
    ASSUME NEW k \in Nat, got = Said(answer, k)
    PROVE  got.domain # {} <=> k > 0
<1>1. CASE k = 0
  BY <1>1 DEF Said, Nothing
<1>2. CASE k # 0
  BY <1>2 DEF Said, Read
<1> QED BY <1>1, <1>2

LEMMA ReadLineInv ==
    ASSUME EhloInv, ReadLine
    PROVE  EhloInv'
<1>1. PICK k \in 0..Len(answer) : ReadUpTo(k)
  BY DEF EhloInv
<1> DEFINE line == answer[k + 1]
<1>2. answer \in Seq(AllLines) /\ answer' = answer /\ result = "reading"
  BY DEF EhloInv, ReadLine
<1>3. /\ k \in Nat /\ k < Len(answer) /\ Head(unread) = line /\ line \in AllLines
      /\ Tail(unread) = SubSeq(answer, (k + 1) + 1, Len(answer))
      /\ k + 1 \in 0..Len(answer)
  <2>1. unread # <<>> /\ unread = SubSeq(answer, k + 1, Len(answer))
    BY <1>1 DEF ReadLine, ReadUpTo
  <2> QED BY <1>2, <2>1, Behind
<1> HIDE DEF line
<1>5. got = Said(answer, k) /\ got.size \subseteq Sizes /\ k \in Nat
  BY <1>1, <1>3 DEF ReadUpTo
<1>6. /\ line.separator \in {"-", " "}
      /\ k > 0 /\ line.text.keyword = "SIZE" => line.text.names \subseteq Sizes
  BY <1>3, <1>5, DomainSaid DEF ReadLine, Malformed
<1>7. got' = Take(line.text) /\ unread' = Tail(unread)
      /\ result' = IF line.separator = " " THEN "ok" ELSE "reading"
  BY <1>3 DEF ReadLine
<1>8. got' = Said(answer, k + 1)
  BY <1>2, <1>3, <1>5, <1>7, TakeSays DEF line
<1>9. got'.size \subseteq Sizes
  <2>1. CASE k = 0
    <3>1. k + 1 = 1 /\ 1 # 0
      BY <2>1
    <3> QED BY <1>8, <3>1, LastNone DEF Said, Read
  <2>2. CASE k # 0
    <3>1. got.size = LastSaid(answer, k, "SIZE") /\ got'.size = LastSaid(answer, k + 1, "SIZE")
      <4>1. k + 1 # 0
        BY <1>5
      <4> QED BY <1>5, <1>8, <2>2, <4>1 DEF Said, Read
    <3>2. LastSaid(answer, k + 1, "SIZE")
            = IF line.text.keyword = "SIZE" THEN line.text.names ELSE LastSaid(answer, k, "SIZE")
      BY <1>5, <2>2, LastNew DEF line
    <3>3. LastSaid(answer, k, "SIZE") \subseteq Sizes
      BY <1>5, <3>1
    <3>4. line.text.keyword = "SIZE" => line.text.names \subseteq Sizes
      <4>1. k > 0
        BY <1>5, <2>2
      <4> QED BY <1>6, <4>1, Zenon
    <3> HIDE DEF line
    <3> QED BY <3>1, <3>2, <3>3, <3>4, Zenon
  <2> QED BY <2>1, <2>2
<1>10. \A i \in 1..k : answer[i].separator = "-"
  BY <1>1, <1>2 DEF ReadUpTo
<1>11. \A i \in 1..k + 1 : answer[i].separator = IF result' = "ok" /\ i = k + 1 THEN " " ELSE "-"
  <2> SUFFICES ASSUME NEW i \in 1..k + 1
               PROVE  answer[i].separator = IF result' = "ok" /\ i = k + 1 THEN " " ELSE "-"
    OBVIOUS
  <2>1. CASE i = k + 1
    BY <1>6, <1>7, <2>1 DEF line
  <2>2. CASE i # k + 1
    <3>1. i \in 1..k
      BY <1>5, <2>2
    <3> QED BY <1>10, <2>2, <3>1
  <2> QED BY <2>1, <2>2
<1>12. k + 1 \in 0..Len(answer) /\ k + 1 > 0
  BY <1>3
<1>13. ReadUpTo(k + 1)'
  BY <1>2, <1>3, <1>7, <1>8, <1>9, <1>11, <1>12 DEF ReadUpTo
<1> QED BY <1>2, <1>12, <1>13 DEF EhloInv

LEMMA ReadFailsInv ==
    ASSUME EhloInv, ReadFails
    PROVE  EhloInv'
<1>1. PICK k \in 0..Len(answer) : ReadUpTo(k)
  BY DEF EhloInv
<1>2. /\ answer \in Seq(AllLines) /\ result = "reading" /\ result' = "syntax"
      /\ UNCHANGED <<answer, unread, got>>
  BY DEF EhloInv, ReadFails
<1>3. unread = SubSeq(answer, k + 1, Len(answer)) /\ got = Said(answer, k)
  BY <1>1 DEF ReadUpTo
<1>4. k = Len(answer) \/ Bad(answer[k + 1], k)
  <2>1. /\ Len(answer) \in Nat /\ k \in Nat /\ k <= Len(answer)
        /\ k < Len(answer) => unread # <<>> /\ Head(unread) = answer[k + 1]
    BY <1>2, <1>3, Behind
  <2> SUFFICES ASSUME k # Len(answer) PROVE Bad(answer[k + 1], k)
    OBVIOUS
  <2>2. unread # <<>> /\ Head(unread) = answer[k + 1]
    BY <2>1
  <2> QED BY <1>3, <2>1, <2>2, DomainSaid DEF ReadFails, Malformed, Bad
<1>5. ReadUpTo(k)'
  BY <1>1, <1>2, <1>4 DEF ReadUpTo
<1> QED BY <1>2, <1>5 DEF EhloInv

LEMMA EhloInvSays == EhloInv => SaysWhatItRead
<1> SUFFICES ASSUME EhloInv PROVE SaysWhatItRead
  OBVIOUS
<1>1. PICK k \in 0..Len(answer) : ReadUpTo(k)
  BY DEF EhloInv
<1>2. /\ answer \in Seq(AllLines) /\ Len(answer) - Len(unread) = k /\ k \in Nat
      /\ Len(answer) \in Nat /\ k <= Len(answer)
      /\ k # Len(answer) => k + 1 \in DOMAIN answer /\ answer[k + 1] \in AllLines
  <2>1. answer \in Seq(AllLines) /\ unread = SubSeq(answer, k + 1, Len(answer))
    BY <1>1 DEF EhloInv, ReadUpTo
  <2>2. k # Len(answer) => k < Len(answer)
    BY <2>1, Behind
  <2> QED BY <2>1, <2>2, Behind
<1> DEFINE read == SubSeq(answer, 1, Len(answer) - Len(unread))
<1>3. /\ read \in Seq(AllLines) /\ Len(read) = k /\ \A i \in 1..k : read[i] = answer[i]
  <2> DEFINE r == SubSeq(answer, 1, k)
  <2>1. r \in Seq(AllLines) /\ Len(r) = k /\ \A i \in 1..k : r[i] = answer[i]
    BY <1>2
  <2> QED BY <1>2, <2>1
<1> HIDE DEF read
<1> DEFINE at(key) == {i \in 2..Len(read) : read[i].text.keyword = key}
<1> DEFINE last(key) == UNION {read[i].text.names : i \in {i \in at(key) : \A j \in at(key) : j <= i}}
<1>4. 2..k \subseteq 1..k
  BY <1>2
<1>5. ASSUME NEW key PROVE last(key) = LastSaid(answer, k, key)
  <2>1. at(key) = With(answer, k, key) /\ at(key) \subseteq 1..k
    BY <1>3, <1>4 DEF With
  <2> HIDE DEF at
  <2>2. \A i \in at(key) : read[i] = answer[i]
    BY <1>3, <2>1
  <2> QED BY <2>1, <2>2 DEF LastSaid
<1>6. ASSUME result = "ok"
      PROVE  /\ \A i \in DOMAIN read : (read[i].separator = " ") <=> (i = Len(read))
             /\ got = Read({read[1].text},
                           {x \in Extensions : \E i \in 2..Len(read) : read[i].text.keyword = x},
                           last("SIZE"), last("AUTH") \cap Mechanisms)
             /\ got.size \subseteq Sizes
  <2>1. k > 0 /\ got = Said(answer, k) /\ got.size \subseteq Sizes
    BY <1>1, <1>6 DEF ReadUpTo
  <2>2. \A i \in 1..k : answer[i].separator = IF i = k THEN " " ELSE "-"
    BY <1>1, <1>6 DEF ReadUpTo
  <2>3. \A i \in DOMAIN read : (read[i].separator = " ") <=> (i = Len(read))
    <3>1. DOMAIN read = 1..k
      BY <1>2, <1>3
    <3> QED BY <1>2, <1>3, <2>2, <3>1
  <2>4. {x \in Extensions : \E i \in 2..Len(read) : read[i].text.keyword = x}
          = {x \in Extensions : \E i \in 2..k : answer[i].text.keyword = x}
    <3>1. Len(read) = k /\ \A i \in 2..k : read[i] = answer[i]
      BY <1>3, <1>4
    <3> QED BY <3>1, Zenon
  <2>5. read[1].text = answer[1].text
    BY <1>2, <1>3, <2>1
  <2>6. last("SIZE") = LastSaid(answer, k, "SIZE") /\ last("AUTH") = LastSaid(answer, k, "AUTH")
    BY <1>5
  <2> HIDE DEF last, at
  <2>7. k # 0
    BY <1>2, <2>1
  <2>8. got = Read({read[1].text},
                   {x \in Extensions : \E i \in 2..Len(read) : read[i].text.keyword = x},
                   last("SIZE"), last("AUTH") \cap Mechanisms)
    BY <2>1, <2>4, <2>5, <2>6, <2>7, Zenon DEF Said
  <2> QED BY <2>1, <2>3, <2>8
<1>7. ASSUME result = "syntax"
      PROVE  \/ \A i \in DOMAIN answer : answer[i].separator # " "
             \/ \E i \in DOMAIN answer : answer[i].separator \notin {"-", " "}
             \/ \E i \in DOMAIN answer : answer[i].text.names = {NotASize}
  <2>1. CASE k = Len(answer)
    <3>1. \A i \in 1..k : answer[i].separator = "-"
      BY <1>1, <1>7 DEF ReadUpTo
    <3>2. DOMAIN answer = 1..k
      BY <1>2, <2>1
    <3> QED BY <3>1, <3>2
  <2>2. CASE k # Len(answer) /\ answer[k + 1].separator \notin {"-", " "}
    <3>1. k + 1 \in DOMAIN answer
      BY <1>2, <2>2
    <3> QED BY <2>2, <3>1
  <2>3. CASE k # Len(answer) /\ answer[k + 1].separator \in {"-", " "}
    <3>1. k + 1 \in DOMAIN answer /\ answer[k + 1] \in AllLines
      BY <1>2, <2>3
    <3>2. answer[k + 1].text.keyword = "SIZE" /\ ~ answer[k + 1].text.names \subseteq Sizes
      BY <1>1, <1>7, <2>3 DEF ReadUpTo, Bad
    <3>3. PICK n \in Sizes \cup {NotASize} : answer[k + 1].text.names = {n}
      BY <3>1, <3>2 DEF AllLines
    <3>4. answer[k + 1].text.names = {NotASize}
      BY <3>2, <3>3
    <3> QED BY <3>1, <3>4
  <2> QED BY <2>1, <2>2, <2>3
<1> QED BY <1>6, <1>7 DEF SaysWhatItRead, read, last, at, Read

-----------------------------------------------------------------------------
(* A printed answer *)

Flag(x)  == Text(x, {})
Size(n)  == Text("SIZE", {n})
Auth(r)  == Text("AUTH", r.auth)

LEMMA TextTypes ==
    ASSUME NEW r \in Responses
    PROVE  /\ Host \in AllTexts /\ Auth(r) \in AllTexts
           /\ \A x \in r.extensions : Flag(x) \in AllTexts
           /\ \A n \in r.size : Size(n) \in AllTexts
           /\ r.extensions \subseteq Extensions /\ r.size \subseteq Sizes
           /\ r.auth \subseteq Mechanisms /\ r.domain = {Host}
BY DEF Responses, AllTexts, Host, Flag, Size, Auth, Text

LEMMA SizeIsOne ==
    ASSUME NEW r \in Responses
    PROVE  r.size = {} \/ \E n \in Sizes : r.size = {n}
BY DEF Responses

LEMMA FinitelyMany ==
    ASSUME NEW r \in Responses
    PROVE  /\ IsFiniteSet({Flag(x) : x \in r.extensions})
           /\ IsFiniteSet({Size(n) : n \in r.size})
<1>1. IsFiniteSet(r.extensions)
  BY TextTypes, ExtensionsAssumption, FS_Subset
<1>2. IsFiniteSet({Flag(x) : x \in r.extensions})
  <2> DEFINE f == [x \in r.extensions |-> Flag(x)]
  <2> DEFINE T == {Flag(x) : x \in r.extensions}
  <2>1. f \in [r.extensions -> T] /\ \A t \in T : \E x \in r.extensions : f[x] = t
    OBVIOUS
  <2> HIDE DEF f, T
  <2>2. f \in Surjection(r.extensions, T)
    BY <2>1 DEF Surjection
  <2>3. IsFiniteSet(T)
    BY <1>1, <2>2, FS_Surjection
  <2> QED BY <2>3 DEF T
<1>3. IsFiniteSet({Size(n) : n \in r.size})
  <2>1. CASE r.size = {}
    <3>1. {Size(n) : n \in r.size} = {}
      BY <2>1
    <3> QED BY <3>1, FS_EmptySet
  <2>2. CASE \E n \in Sizes : r.size = {n}
    <3>1. PICK n : r.size = {n}
      BY <2>2
    <3>2. {Size(m) : m \in r.size} = {Size(n)}
      BY <3>1
    <3> QED BY <3>2, FS_Singleton
  <2> QED BY <2>1, <2>2, SizeIsOne
<1> QED BY <1>2, <1>3

\* What the lines of a printed answer say: the domain, flags and the size in
\* some order, the mechanisms.
TextsAre(r, texts) ==
    LET L == Len(texts)
    IN  /\ texts \in Seq(AllTexts) /\ L \in Nat /\ L >= 2
        /\ texts[1] = Host /\ texts[L] = Auth(r)
        /\ \A i \in 2..L - 1 : \/ \E x \in r.extensions : texts[i] = Flag(x)
                              \/ \E n \in r.size : texts[i] = Size(n)
        /\ \A x \in r.extensions : \E i \in 2..L - 1 : texts[i] = Flag(x)
        /\ \A n \in r.size : \E i \in 2..L - 1 : texts[i] = Size(n)

LEMMA TextsOf ==
    ASSUME NEW r \in Responses
    PROVE  TextsAre(r, Texts(r))
<1> DEFINE F == {Flag(x) : x \in r.extensions}
<1> DEFINE Z == {Size(n) : n \in r.size}
<1> DEFINE host == SetToSeq(r.domain)
<1> DEFINE flags == SetToSeq(F)
<1> DEFINE size == SetToSeq(Z)
<1> DEFINE auth == <<Auth(r)>>
<1>1. Texts(r) = host \o flags \o size \o auth
  BY DEF Texts, Flag, Size, Auth
<1>2. /\ F \subseteq AllTexts /\ Z \subseteq AllTexts /\ {Host} \subseteq AllTexts
      /\ Auth(r) \in AllTexts /\ r.domain = {Host}
  BY TextTypes
<1>3. IsFiniteSet(F) /\ IsFiniteSet(Z) /\ IsFiniteSet({Host}) /\ Cardinality({Host}) = 1
  BY FinitelyMany, FS_Singleton
<1>4. host \in Seq({Host}) /\ Len(host) = 1
  BY <1>2, <1>3, SetToSeqDefined
<1>5. flags \in Seq(F) /\ Len(flags) \in Nat /\ \A t \in F : \E i \in 1..Len(flags) : flags[i] = t
  BY <1>3, SetToSeqDefined
<1>6. size \in Seq(Z) /\ Len(size) \in Nat /\ \A t \in Z : \E i \in 1..Len(size) : size[i] = t
  BY <1>3, SetToSeqDefined
<1>7. auth \in Seq(AllTexts) /\ Len(auth) = 1 /\ auth[1] = Auth(r)
  BY <1>2
<1> HIDE DEF host, flags, size, auth
<1>8. /\ \A i \in 1..Len(flags) : \E x \in r.extensions : flags[i] = Flag(x)
      /\ \A x \in r.extensions : \E i \in 1..Len(flags) : flags[i] = Flag(x)
  BY <1>5
<1>9. /\ \A i \in 1..Len(size) : \E n \in r.size : size[i] = Size(n)
      /\ \A n \in r.size : \E i \in 1..Len(size) : size[i] = Size(n)
  BY <1>6
<1>10. host[1] = Host
  BY <1>4
<1>11. host \in Seq(AllTexts) /\ flags \in Seq(AllTexts) /\ size \in Seq(AllTexts)
  BY <1>2, <1>4, <1>5, <1>6
<1> HIDE DEF F, Z
<1> DEFINE a == host \o flags
<1> DEFINE b == a \o size
<1> DEFINE texts == b \o auth
<1> DEFINE f == Len(flags)
<1> DEFINE z == Len(size)
<1>12. /\ a \in Seq(AllTexts) /\ Len(a) = 1 + f /\ a[1] = Host
       /\ \A i \in 1..f : a[1 + i] = flags[i]
  <2>1. /\ host \o flags \in Seq(AllTexts) /\ Len(host \o flags) = Len(host) + Len(flags)
        /\ \A i \in 1..Len(host) : (host \o flags)[i] = host[i]
        /\ \A i \in 1..Len(flags) : (host \o flags)[Len(host) + i] = flags[i]
    BY <1>11, ConcatAt
  <2>2. 1 \in 1..Len(host)
    BY <1>4
  <2> QED BY <1>4, <1>10, <2>1, <2>2
<1> HIDE DEF a
<1>13. /\ b \in Seq(AllTexts) /\ Len(b) = 1 + f + z
       /\ \A i \in 1..1 + f : b[i] = a[i]
       /\ \A i \in 1..z : b[1 + f + i] = size[i]
  <2>1. /\ a \o size \in Seq(AllTexts) /\ Len(a \o size) = Len(a) + Len(size)
        /\ \A i \in 1..Len(a) : (a \o size)[i] = a[i]
        /\ \A i \in 1..Len(size) : (a \o size)[Len(a) + i] = size[i]
    <3>1. a \in Seq(AllTexts) /\ size \in Seq(AllTexts)
      BY <1>11, <1>12
    <3> QED BY <3>1, ConcatAt
  <2> QED BY <1>12, <2>1
<1> HIDE DEF b
<1>14. /\ texts \in Seq(AllTexts) /\ Len(texts) = 1 + f + z + 1
       /\ \A i \in 1..1 + f + z : texts[i] = b[i]
       /\ texts[1 + f + z + 1] = Auth(r)
  <2>1. /\ b \o auth \in Seq(AllTexts) /\ Len(b \o auth) = Len(b) + Len(auth)
        /\ \A i \in 1..Len(b) : (b \o auth)[i] = b[i]
        /\ \A i \in 1..Len(auth) : (b \o auth)[Len(b) + i] = auth[i]
    <3>1. b \in Seq(AllTexts) /\ auth \in Seq(AllTexts)
      BY <1>7, <1>13
    <3> QED BY <3>1, ConcatAt
  <2>2. 1 \in 1..Len(auth)
    BY <1>7
  <2> QED BY <1>7, <1>13, <2>1, <2>2
<1>15. Texts(r) = texts
  BY <1>1 DEF a, b
<1> HIDE DEF texts
<1>16. f \in Nat /\ z \in Nat
  BY <1>5, <1>6
<1> HIDE DEF f, z
<1>17. texts[1] = Host
  <2>1. 1 \in 1..1 + f /\ 1 \in 1..1 + f + z
    BY <1>16
  <2> QED BY <1>12, <1>13, <1>14, <2>1
<1>18. ASSUME NEW i \in 1..f PROVE texts[1 + i] = flags[i] /\ 1 + i \in 2..(1 + f + z + 1) - 1
  <2>1. 1 + i \in 1..1 + f /\ 1 + i \in 1..1 + f + z /\ 1 + i \in 2..(1 + f + z + 1) - 1
    BY <1>16
  <2> QED BY <1>12, <1>13, <1>14, <2>1
<1>19. ASSUME NEW i \in 1..z
       PROVE  texts[1 + f + i] = size[i] /\ 1 + f + i \in 2..(1 + f + z + 1) - 1
  <2>1. 1 + f + i \in 1..1 + f + z /\ 1 + f + i \in 2..(1 + f + z + 1) - 1
    BY <1>16
  <2> QED BY <1>13, <1>14, <2>1
<1>20. \A x \in r.extensions : \E i \in 2..(1 + f + z + 1) - 1 : texts[i] = Flag(x)
  BY <1>8, <1>18 DEF f
<1>21. \A n \in r.size : \E i \in 2..(1 + f + z + 1) - 1 : texts[i] = Size(n)
  BY <1>9, <1>19 DEF z
<1>22. ASSUME NEW i \in 2..(1 + f + z + 1) - 1
       PROVE  \/ \E x \in r.extensions : texts[i] = Flag(x)
              \/ \E n \in r.size : texts[i] = Size(n)
  <2>1. CASE i <= 1 + f
    <3>1. i - 1 \in 1..f /\ 1 + (i - 1) = i
      BY <1>16, <2>1
    <3>2. texts[i] = flags[i - 1]
      BY <1>18, <3>1
    <3> QED BY <1>8, <3>1, <3>2 DEF f
  <2>2. CASE ~ (i <= 1 + f)
    <3>1. i - (1 + f) \in 1..z /\ 1 + f + (i - (1 + f)) = i
      BY <1>16, <2>2
    <3>2. texts[i] = size[i - (1 + f)]
      BY <1>19, <3>1
    <3> QED BY <1>9, <3>1, <3>2 DEF z
  <2> QED BY <2>1, <2>2
<1>23. 1 + f + z + 1 \in Nat /\ 1 + f + z + 1 >= 2
  BY <1>16
<1> QED BY <1>14, <1>15, <1>17, <1>20, <1>21, <1>22, <1>23 DEF TextsAre

\* The lines of a printed answer: the same, and a space marks the last.
LinesAre(r, lines) ==
    LET L == Len(lines)
    IN  /\ lines \in Seq(AllLines) /\ L \in Nat /\ L >= 2
        /\ \A i \in 1..L : lines[i].separator = IF i = L THEN " " ELSE "-"
        /\ lines[1].text = Host /\ lines[L].text = Auth(r)
        /\ \A i \in 2..L - 1 : \/ \E x \in r.extensions : lines[i].text = Flag(x)
                              \/ \E n \in r.size : lines[i].text = Size(n)
        /\ \A x \in r.extensions : \E i \in 2..L - 1 : lines[i].text = Flag(x)
        /\ \A n \in r.size : \E i \in 2..L - 1 : lines[i].text = Size(n)

LEMMA KeywordsOf ==
    ASSUME NEW r \in Responses
    PROVE  /\ Host.keyword = "host" /\ Auth(r).keyword = "AUTH" /\ Auth(r).names = r.auth
           /\ \A x \in r.extensions : Flag(x).keyword = x /\ Flag(x).keyword \in Extensions
           /\ \A n \in r.size : /\ Size(n).keyword = "SIZE" /\ Size(n).names = {n}
                               /\ r.size = {n} /\ n \in Sizes
<1>1. r.extensions \subseteq Extensions
  BY TextTypes
<1>2. \A n \in r.size : r.size = {n} /\ n \in Sizes
  BY SizeIsOne
<1> QED BY <1>1, <1>2 DEF Host, Auth, Flag, Size, Text

LEMMA IsALine ==
    ASSUME NEW t \in AllTexts, NEW s \in {"-", " ", "other"},
           t.keyword = "SIZE" => \E n \in Sizes \cup {NotASize} : t.names = {n}
    PROVE  Line(s, t) \in AllLines
BY DEF AllLines, Line

LEMMA LinesOf ==
    ASSUME NEW r \in Responses
    PROVE  LinesAre(r, Display(r))
<1> DEFINE texts == Texts(r)
<1> DEFINE L == Len(texts)
<1>1. TextsAre(r, texts)
  BY TextsOf
<1>2. Display(r) = [n \in DOMAIN texts |-> Line(IF n = Len(texts) THEN " " ELSE "-", texts[n])]
  BY DEF Display
<1> HIDE DEF texts
<1>3. texts \in Seq(AllTexts) /\ L \in Nat /\ L >= 2
  BY <1>1 DEF TextsAre
<1> HIDE DEF L
<1> DEFINE lines == [n \in 1..L |-> Line(IF n = L THEN " " ELSE "-", texts[n])]
<1>4. Display(r) = lines
  <2>1. DOMAIN texts = 1..L
    BY <1>3, LenProperties DEF L
  <2> QED BY <1>2, <2>1 DEF L
<1>5. \A i \in 1..L : lines[i].separator = (IF i = L THEN " " ELSE "-") /\ lines[i].text = texts[i]
  BY DEF Line
<1>6. ASSUME NEW i \in 1..L PROVE lines[i] \in AllLines
  <2>1. texts[i] \in AllTexts
    BY <1>3, ElementOfSeq DEF L
  <2>2. texts[i].keyword = "SIZE" => \E n \in Sizes \cup {NotASize} : texts[i].names = {n}
    <3>1. CASE i = 1 \/ i = L
      <4>1. texts[i] = Host \/ texts[i] = Auth(r)
        BY <1>1, <3>1 DEF TextsAre, L
      <4> QED BY <4>1, KeywordsOf
    <3>2. CASE i # 1 /\ i # L
      <4>1. i \in 2..L - 1
        BY <1>3, <3>2
      <4>2. \/ \E x \in r.extensions : texts[i] = Flag(x)
            \/ \E n \in r.size : texts[i] = Size(n)
        BY <1>1, <4>1 DEF TextsAre, L
      <4>3. "SIZE" \notin Extensions
        BY ExtensionsAssumption
      <4> QED BY <4>2, <4>3, KeywordsOf
    <3> QED BY <3>1, <3>2
  <2>3. lines[i] = Line(IF i = L THEN " " ELSE "-", texts[i])
    OBVIOUS
  <2> HIDE DEF lines
  <2>4. (IF i = L THEN " " ELSE "-") \in {"-", " ", "other"}
    OBVIOUS
  <2> QED BY <2>1, <2>2, <2>3, <2>4, IsALine
<1>7. lines \in Seq(AllLines) /\ Len(lines) = L
  <2>1. lines \in [1..L -> AllLines]
    BY <1>6
  <2> HIDE DEF lines
  <2> QED BY <1>3, <2>1
<1> HIDE DEF lines
<1>8. 1 \in 1..L /\ L \in 1..L /\ \A i \in 2..L - 1 : i \in 1..L
  BY <1>3
<1>9. \A i \in 2..L - 1 : \/ \E x \in r.extensions : lines[i].text = Flag(x)
                         \/ \E n \in r.size : lines[i].text = Size(n)
  BY <1>1, <1>5, <1>8 DEF TextsAre, L
<1>10. \A x \in r.extensions : \E i \in 2..L - 1 : lines[i].text = Flag(x)
  BY <1>1, <1>5, <1>8 DEF TextsAre, L
<1>11. \A n \in r.size : \E i \in 2..L - 1 : lines[i].text = Size(n)
  BY <1>1, <1>5, <1>8 DEF TextsAre, L
<1>12. lines[1].text = Host /\ lines[L].text = Auth(r)
  BY <1>1, <1>5, <1>8 DEF TextsAre, L
<1> QED BY <1>3, <1>4, <1>5, <1>7, <1>9, <1>10, <1>11, <1>12, Zenon DEF LinesAre

\* The answers a client may get are the first lines of a printed one, and
\* then at most one that is not.
Sent(r) ==
    LET whole == Display(r)
    IN  \E n \in 1..Len(whole) + 1 :
            /\ Len(answer) \in {n - 1, n} /\ (n = Len(whole) + 1 => Len(answer) = n)
            /\ \A i \in 1..n - 1 : answer[i] = whole[i]
            /\ Len(answer) = n /\ n <= Len(whole) => answer[n] \in Shortened(whole[n])

Sending == \A r \in printed : r \in Responses /\ Sent(r)

LEMMA ShortenedLine ==
    ASSUME NEW line \in AllLines, NEW rest \in Shortened(line)
    PROVE  /\ rest \in AllLines
           /\ rest.separator \in {line.separator, "other"}
           /\ line.text.keyword # "SIZE" /\ rest.separator # "other" =>
                 /\ rest.text.keyword \in {line.text.keyword, "other"}
                 /\ rest.text.names \subseteq line.text.names
<1>1. line.separator \in {"-", " ", "other"} /\ line.text \in AllTexts
  BY DEF AllLines
<1>3. CASE rest = Line("other", Host)
  <2>1. Host \in AllTexts /\ Host.keyword # "SIZE"
    BY DEF Host, Text, AllTexts
  <2>2. rest \in AllLines
    BY <1>3, <2>1, IsALine
  <2> QED BY <1>3, <2>2 DEF Line
<1>4. CASE rest = Line(line.separator, Text("other", {}))
  <2>1. Text("other", {}) \in AllTexts /\ Text("other", {}).keyword # "SIZE"
    BY DEF Text, AllTexts
  <2>2. rest \in AllLines
    BY <1>1, IsALine, <1>4, <2>1
  <2> QED BY <1>4, <2>2 DEF Line, Text
<1>5. CASE line.text.keyword = "SIZE" /\ \E n \in Sizes \cup {NotASize} :
              rest = Line(line.separator, Text("SIZE", {n}))
  <2>1. PICK n \in Sizes \cup {NotASize} : rest = Line(line.separator, Text("SIZE", {n}))
    BY <1>5
  <2>2. Text("SIZE", {n}) \in AllTexts /\ Text("SIZE", {n}).names = {n}
    BY DEF Text, AllTexts
  <2>3. rest \in AllLines
    BY <1>1, IsALine, <2>1, <2>2
  <2> QED BY <1>5, <2>1, <2>3 DEF Line
<1>6. CASE line.text.keyword # "SIZE" /\ \E names \in SUBSET line.text.names :
              rest = Line(line.separator, Text(line.text.keyword, names))
  <2>1. PICK names \in SUBSET line.text.names :
             rest = Line(line.separator, Text(line.text.keyword, names))
    BY <1>6
  <2>2. /\ Text(line.text.keyword, names) \in AllTexts
        /\ Text(line.text.keyword, names).keyword # "SIZE"
    BY <1>1, <1>6 DEF Text, AllTexts
  <2>3. rest \in AllLines
    BY <1>1, IsALine, <2>1, <2>2
  <2> QED BY <1>6, <2>1, <2>3 DEF Line, Text
<1> QED BY <1>3, <1>4, <1>5, <1>6 DEF Shortened

LEMMA MadeUpAreLines == MadeUpLines \subseteq AllLines
<1>1. /\ Line("other", Host) \in AllLines
      /\ \A s \in {"-", " "}, x \in Extensions \cup {"other"} : Line(s, Text(x, {})) \in AllLines
      /\ \A s \in {"-", " "}, n \in Sizes \cup {NotASize} : Line(s, Text("SIZE", {n})) \in AllLines
      /\ \A s \in {"-", " "}, m \in Mechanisms \cup {"other"} : Line(s, Text("AUTH", {m})) \in AllLines
  <2>1. Host \in AllTexts /\ Host.keyword # "SIZE"
    BY DEF Host, Text, AllTexts
  <2>2. ASSUME NEW x \in Extensions \cup {"other"}
        PROVE  Text(x, {}) \in AllTexts /\ Text(x, {}).keyword # "SIZE"
    BY ExtensionsAssumption DEF Text, AllTexts
  <2>3. ASSUME NEW n \in Sizes \cup {NotASize}
        PROVE  Text("SIZE", {n}) \in AllTexts /\ Text("SIZE", {n}).names = {n}
    BY DEF Text, AllTexts
  <2>4. ASSUME NEW m \in Mechanisms \cup {"other"}
        PROVE  Text("AUTH", {m}) \in AllTexts /\ Text("AUTH", {m}).keyword # "SIZE"
    BY DEF Text, AllTexts
  <2> QED BY <2>1, <2>2, <2>3, <2>4, IsALine
<1> SUFFICES ASSUME NEW line \in MadeUpLines, line # Line("other", Host) PROVE line \in AllLines
  BY <1>1
<1> DEFINE texts == {Text(x, {}) : x \in Extensions \cup {"other"}}
                    \cup {Text("SIZE", {n}) : n \in Sizes \cup {NotASize}}
                    \cup {Text("AUTH", {m}) : m \in Mechanisms \cup {"other"}}
<1>2. PICK s \in {"-", " "}, t \in texts : line = Line(s, t)
  <2>1. MadeUpLines = {Line("other", Host)} \cup [separator : {"-", " "}, text : texts]
    BY Zenon DEF MadeUpLines
  <2> HIDE DEF texts
  <2> QED BY <2>1 DEF Line
<1>3. CASE \E x \in Extensions \cup {"other"} : t = Text(x, {})
  BY <1>1, <1>2, <1>3
<1>4. CASE \E n \in Sizes \cup {NotASize} : t = Text("SIZE", {n})
  BY <1>1, <1>2, <1>4
<1>5. CASE \E m \in Mechanisms \cup {"other"} : t = Text("AUTH", {m})
  BY <1>1, <1>2, <1>5
<1> QED BY <1>3, <1>4, <1>5

\* The first n - 1 lines of an answer.
LEMMA FirstLines ==
    ASSUME NEW S, NEW whole \in Seq(S), NEW n \in 1..Len(whole) + 1
    PROVE  LET before == SubSeq(whole, 1, n - 1)
           IN  /\ before \in Seq(S) /\ Len(before) = n - 1
               /\ \A i \in 1..n - 1 : before[i] = whole[i]
<1>1. Len(whole) \in Nat /\ n \in Nat /\ n - 1 \in Nat /\ n - 1 \in Int /\ 1 \in Int
  BY LenProperties
<1>2. \A i \in 1..n - 1 : i \in 1..Len(whole) /\ whole[i] \in S
  <2>1. \A i \in 1..n - 1 : i \in 1..Len(whole)
    BY <1>1
  <2> QED BY <2>1, ElementOfSeq
<1> DEFINE b == SubSeq(whole, 1, n - 1)
<1>3. /\ b \in Seq(S) /\ Len(b) = IF 1 <= n - 1 THEN (n - 1) - 1 + 1 ELSE 0
      /\ \A i \in 1..(n - 1) - 1 + 1 : b[i] = whole[1 + i - 1]
  BY <1>1, <1>2, SubSeqProperties
<1> HIDE DEF b
<1>4. (n - 1) - 1 + 1 = n - 1 /\ \A i \in 1..n - 1 : 1 + i - 1 = i
  BY <1>1
<1>5. Len(b) = n - 1
  BY <1>1, <1>3
<1> QED BY <1>3, <1>4, <1>5 DEF b

LEMMA SentAtFirst ==
    ASSUME NEW r \in Responses, printed = {r},
           LET whole == Display(r)
               Before(n) == SubSeq(whole, 1, n - 1)
           IN  \/ \E n \in DOMAIN whole :
                     \/ answer = Before(n)
                     \/ \E rest \in Shortened(whole[n]) : answer = Append(Before(n), rest)
               \/ \E next \in MadeUpLines : answer = Append(whole, next)
    PROVE  answer \in Seq(AllLines) /\ Sent(r)
<1> DEFINE whole == Display(r)
<1> DEFINE L == Len(whole)
<1>1. whole \in Seq(AllLines) /\ L \in Nat /\ DOMAIN whole = 1..L
  <2>1. whole \in Seq(AllLines)
    BY LinesOf DEF LinesAre
  <2> HIDE DEF whole
  <2> QED BY <2>1, LenProperties
<1> DEFINE Before(n) == SubSeq(whole, 1, n - 1)
<1>2. \/ \E n \in 1..L : \/ answer = Before(n)
                        \/ \E rest \in Shortened(whole[n]) : answer = Append(Before(n), rest)
      \/ \E next \in MadeUpLines : answer = Append(whole, next)
  BY <1>1
<1> SUFFICES /\ answer \in Seq(AllLines)
             /\ \E n \in 1..L + 1 :
                  /\ Len(answer) \in {n - 1, n} /\ (n = L + 1 => Len(answer) = n)
                  /\ \A i \in 1..n - 1 : answer[i] = whole[i]
                  /\ Len(answer) = n /\ n <= L => answer[n] \in Shortened(whole[n])
  BY DEF Sent
<1> HIDE DEF whole
<1>3. ASSUME NEW n \in 1..L + 1
      PROVE  /\ Before(n) \in Seq(AllLines) /\ Len(Before(n)) = n - 1 /\ n \in Nat
             /\ \A i \in 1..n - 1 : Before(n)[i] = whole[i]
  BY <1>1, FirstLines
<1>4. ASSUME NEW n \in 1..L + 1, NEW line \in AllLines, answer = Append(Before(n), line)
      PROVE  /\ answer \in Seq(AllLines) /\ Len(answer) = n /\ answer[n] = line
             /\ \A i \in 1..n - 1 : answer[i] = whole[i]
  <2> DEFINE b == Before(n)
  <2>1. b \in Seq(AllLines) /\ Len(b) = n - 1 /\ n \in Nat /\ \A i \in 1..n - 1 : b[i] = whole[i]
    BY <1>3
  <2>2. answer = Append(b, line)
    BY <1>4
  <2> HIDE DEF b
  <2>3. /\ answer \in Seq(AllLines) /\ Len(answer) = Len(b) + 1
        /\ \A i \in 1..Len(b) : answer[i] = b[i] /\ answer[Len(b) + 1] = line
    BY <2>1, <2>2, AppendProperties
  <2>4. (n - 1) + 1 = n
    BY <2>1
  <2>5. answer[Len(b) + 1] = line
    BY <2>1, <2>2, AppendProperties
  <2> QED BY <2>1, <2>3, <2>4, <2>5
<1> HIDE DEF Before, L
<1>5. CASE \E n \in 1..L : answer = Before(n)
  <2>1. PICK n \in 1..L : answer = Before(n)
    BY <1>5
  <2>2. n \in 1..L + 1 /\ n # L + 1 /\ n - 1 # n
    BY <1>1, <2>1
  <2> QED BY <1>3, <2>1, <2>2
<1>6. CASE \E n \in 1..L : \E rest \in Shortened(whole[n]) : answer = Append(Before(n), rest)
  <2>1. PICK n \in 1..L : \E rest \in Shortened(whole[n]) : answer = Append(Before(n), rest)
    BY <1>6
  <2>2. PICK rest \in Shortened(whole[n]) : answer = Append(Before(n), rest)
    BY <2>1
  <2>3. n \in 1..L + 1 /\ n # L + 1
    BY <1>1, <2>1
  <2>4. whole[n] \in AllLines
    BY <1>1, <2>1, ElementOfSeq DEF L
  <2>5. rest \in AllLines
    BY <2>2, <2>4, ShortenedLine
  <2>6. /\ answer \in Seq(AllLines) /\ Len(answer) = n /\ answer[n] = rest
        /\ \A i \in 1..n - 1 : answer[i] = whole[i]
    BY <1>4, <2>2, <2>3, <2>5
  <2> QED BY <2>2, <2>3, <2>6
<1>7. CASE \E next \in MadeUpLines : answer = Append(whole, next)
  <2>1. PICK next \in MadeUpLines : answer = Append(whole, next)
    BY <1>7
  <2>2. L + 1 \in 1..L + 1 /\ (L + 1) - 1 = L /\ ~ (L + 1 <= L)
    BY <1>1
  <2>3. Before(L + 1) = whole
    <3>1. /\ Before(L + 1) \in Seq(AllLines) /\ Len(Before(L + 1)) = L
          /\ \A i \in 1..L : Before(L + 1)[i] = whole[i]
      BY <1>3, <2>2
    <3> QED BY <1>1, <3>1, SeqEqual DEF L
  <2>4. next \in AllLines
    BY MadeUpAreLines
  <2>5. /\ answer \in Seq(AllLines) /\ Len(answer) = L + 1
        /\ \A i \in 1..(L + 1) - 1 : answer[i] = whole[i]
    BY <1>4, <2>1, <2>2, <2>3, <2>4
  <2> QED BY <2>2, <2>5
<1> QED BY <1>2, <1>5, <1>6, <1>7

LEMMA EhloInitInv == EhloInit => EhloInv /\ Sending
<1> SUFFICES ASSUME EhloInit PROVE EhloInv /\ Sending
  OBVIOUS
<1>1. answer \in Seq(AllLines) /\ Sending
  <2>1. CASE \E r \in Responses :
                /\ printed = {r}
                /\ LET whole == Display(r)
                       Before(n) == SubSeq(whole, 1, n - 1)
                   IN  \/ \E n \in DOMAIN whole :
                             \/ answer = Before(n)
                             \/ \E rest \in Shortened(whole[n]) : answer = Append(Before(n), rest)
                       \/ \E next \in MadeUpLines : answer = Append(whole, next)
    <3>1. PICK r \in Responses :
                /\ printed = {r}
                /\ LET whole == Display(r)
                       Before(n) == SubSeq(whole, 1, n - 1)
                   IN  \/ \E n \in DOMAIN whole :
                             \/ answer = Before(n)
                             \/ \E rest \in Shortened(whole[n]) : answer = Append(Before(n), rest)
                       \/ \E next \in MadeUpLines : answer = Append(whole, next)
      BY <2>1
    <3>2. answer \in Seq(AllLines) /\ Sent(r)
      BY <3>1, SentAtFirst
    <3> QED BY <3>1, <3>2 DEF Sending
  <2>2. CASE printed = {} /\ \E n \in 0..MaxMadeUp : answer \in [1..n -> MadeUpLines]
    <3>1. PICK n \in 0..MaxMadeUp : answer \in [1..n -> MadeUpLines]
      BY <2>2
    <3>2. n \in Nat /\ answer \in [1..n -> AllLines]
      BY <3>1, MadeUpAssumption, MadeUpAreLines
    <3>3. answer \in Seq(AllLines)
      BY <3>2
    <3> QED BY <2>2, <3>3 DEF Sending
  <2> QED BY <2>1, <2>2 DEF EhloInit
<1>2. unread = answer /\ got = Nothing /\ result = "reading"
  BY DEF EhloInit
<1>3. ReadUpTo(0)
  <2>1. unread = SubSeq(answer, 0 + 1, Len(answer))
    BY <1>1, <1>2
  <2>2. got = Said(answer, 0) /\ got.size \subseteq Sizes
    BY <1>2 DEF Said, Nothing
  <2>3. \A i \in 1..0 : FALSE
    OBVIOUS
  <2> QED BY <1>2, <2>1, <2>2, <2>3 DEF ReadUpTo
<1>4. 0 \in 0..Len(answer)
  BY <1>1
<1> QED BY <1>1, <1>3, <1>4 DEF EhloInv

LEMMA EhloSafe == EhloSpec => [](EhloInv /\ Sending)
<1>1. EhloInit => EhloInv /\ Sending
  BY EhloInitInv
<1>2. EhloInv /\ Sending /\ [EhloNext]_ehloVars => EhloInv' /\ Sending'
  <2> SUFFICES ASSUME EhloInv, Sending, [EhloNext]_ehloVars PROVE EhloInv' /\ Sending'
    OBVIOUS
  <2>1. answer' = answer /\ printed' = printed
    BY DEF EhloNext, ReadLine, ReadFails, ehloVars
  <2>2. Sending'
    BY <2>1 DEF Sending, Sent
  <2>3. CASE ReadLine
    BY <2>2, <2>3, ReadLineInv
  <2>4. CASE ReadFails
    BY <2>2, <2>4, ReadFailsInv
  <2>5. CASE UNCHANGED ehloVars
    BY <2>2, <2>5 DEF EhloInv, ReadUpTo, ehloVars
  <2> QED BY <2>3, <2>4, <2>5 DEF EhloNext
<1> QED BY <1>1, <1>2, PTL DEF EhloSpec

\* Whatever the lines of an answer are, a response is returned for those up
\* to the first that ends it, and says what they say: Response::read.
THEOREM ResponseSaysWhatWasRead == EhloSpec => []SaysWhatItRead
BY EhloSafe, EhloInvSays, PTL

\* What the last of k lines with a keyword says, if they all say the same.
LEMMA LastOfMany ==
    ASSUME NEW a, NEW key, NEW names, NEW m \in Nat, m >= 1,
           \A i \in 2..m : a[i].text.keyword = key => a[i].text.names = names
    PROVE  LastSaid(a, m, key)
             = IF \E i \in 2..m : a[i].text.keyword = key THEN names ELSE {}
<1> DEFINE Found(k) == \E i \in 2..k : a[i].text.keyword = key
<1> DEFINE Good(k) == LastSaid(a, k, key) = IF Found(k) THEN names ELSE {}
<1> DEFINE T == {k \in Nat : k + 1 <= m => Good(k + 1)}
<1>1. 0 \in T
  <2>1. 2..0 + 1 = {} /\ 0 + 1 = 1
    OBVIOUS
  <2>2. ~ Found(0 + 1)
    BY <2>1
  <2> QED BY <2>1, <2>2, LastNone
<1>2. ASSUME NEW k \in T PROVE k + 1 \in T
  <2> SUFFICES ASSUME (k + 1) + 1 <= m PROVE Good((k + 1) + 1)
    BY <1>2
  <2>1. k \in Nat /\ k + 1 <= m /\ k + 1 \in Nat \ {0} /\ (k + 1) + 1 \in 2..m
        /\ 2..(k + 1) + 1 = (2..k + 1) \cup {(k + 1) + 1}
    BY <1>2
  <2>2. Good(k + 1)
    BY <1>2, <2>1
  <2>3. Found((k + 1) + 1) <=> Found(k + 1) \/ a[(k + 1) + 1].text.keyword = key
    BY <2>1
  <2> HIDE DEF Found
  <2>4. LastSaid(a, (k + 1) + 1, key)
          = IF a[(k + 1) + 1].text.keyword = key THEN a[(k + 1) + 1].text.names
            ELSE LastSaid(a, k + 1, key)
    BY <2>1, LastNew
  <2>5. a[(k + 1) + 1].text.keyword = key => a[(k + 1) + 1].text.names = names
    BY <2>1
  <2> QED BY <2>2, <2>3, <2>4, <2>5
<1>3. T = Nat
  <2>1. T \in SUBSET Nat
    OBVIOUS
  <2> HIDE DEF T
  <2> QED BY <1>1, <1>2, <2>1, Induction
<1>4. m - 1 \in Nat /\ (m - 1) + 1 = m /\ (m - 1) + 1 <= m
  OBVIOUS
<1>5. Good(m)
  <2>1. m - 1 \in T
    BY <1>3, <1>4
  <2> HIDE DEF Good
  <2> QED BY <1>4, <2>1
<1> QED BY <1>5

\* What the lines of a printed answer say when they are all read, if all
\* but the last are as printed.
LEMMA SaidPrinted ==
    ASSUME NEW r \in Responses, NEW a, NEW L, L = Len(Display(r)),
           \A i \in 1..L - 1 : a[i] = Display(r)[i],
           a[L].text.keyword \in {"AUTH", "other"}
    PROVE  Said(a, L) = Read(r.domain, r.extensions, r.size,
                             IF a[L].text.keyword = "AUTH" THEN a[L].text.names \cap Mechanisms
                             ELSE {})
<1> DEFINE lines == Display(r)
<1>1. LinesAre(r, lines)
  BY LinesOf
<1> HIDE DEF lines
<1>2. L \in Nat /\ L >= 2 /\ L = Len(lines)
  BY <1>1 DEF LinesAre, lines
<1>3. \A i \in 1..L - 1 : a[i] = lines[i]
  BY DEF lines
<1>4. 1 \in 1..L - 1 /\ \A i \in 2..L - 1 : i \in 1..L - 1
  BY <1>2
<1>5. 2..L = (2..L - 1) \cup {L}
  BY <1>2
<1>6. {a[1].text} = r.domain
  <2>1. a[1].text = Host
    BY <1>1, <1>3, <1>4 DEF LinesAre
  <2> QED BY <2>1, TextTypes
<1>7. \A i \in 2..L - 1 : \/ \E x \in r.extensions : a[i].text = Flag(x)
                        \/ \E n \in r.size : a[i].text = Size(n)
  <2>1. \A i \in 2..L - 1 : \/ \E x \in r.extensions : lines[i].text = Flag(x)
                          \/ \E n \in r.size : lines[i].text = Size(n)
    BY <1>1, <1>2, Zenon DEF LinesAre
  <2>2. \A i \in 2..L - 1 : a[i] = lines[i]
    BY <1>3, <1>4
  <2> QED BY <2>1, <2>2, Zenon
<1>8. "SIZE" \notin Extensions /\ "AUTH" \notin Extensions /\ "other" \notin Extensions
      /\ r.extensions \subseteq Extensions
  BY ExtensionsAssumption, TextTypes
<1>9. {x \in Extensions : \E i \in 2..L : a[i].text.keyword = x} = r.extensions
  <2>1. ASSUME NEW x \in r.extensions PROVE \E i \in 2..L : a[i].text.keyword = x
    <3>1. PICK i \in 2..L - 1 : lines[i].text = Flag(x)
      BY <1>1, <1>2 DEF LinesAre
    <3>2. a[i].text.keyword = x
      BY <1>3, <1>4, <3>1, KeywordsOf
    <3> QED BY <1>5, <3>2
  <2>2. ASSUME NEW x \in Extensions, NEW i \in 2..L, a[i].text.keyword = x
        PROVE  x \in r.extensions
    <3>1. i # L
      BY <1>8, <2>2
    <3>2. i \in 2..L - 1
      BY <1>5, <3>1
    <3> QED BY <1>7, <1>8, <2>2, <3>2, KeywordsOf
  <2> QED BY <1>8, <2>1, <2>2
<1>10. LastSaid(a, L, "SIZE") = r.size
  <2>1. \A i \in 2..L : a[i].text.keyword = "SIZE" => a[i].text.names = r.size
    <3> SUFFICES ASSUME NEW i \in 2..L, a[i].text.keyword = "SIZE"
                 PROVE  a[i].text.names = r.size
      OBVIOUS
    <3>1. i \in 2..L - 1
      BY <1>5
    <3>2. PICK n \in r.size : a[i].text = Size(n)
      BY <1>7, <1>8, <3>1, KeywordsOf
    <3> QED BY <3>2, KeywordsOf
  <2>2. LastSaid(a, L, "SIZE")
          = IF \E i \in 2..L : a[i].text.keyword = "SIZE" THEN r.size ELSE {}
    <3>1. L >= 1
      BY <1>2
    <3> QED BY <1>2, <2>1, <3>1, LastOfMany
  <2>3. r.size # {} => \E i \in 2..L : a[i].text.keyword = "SIZE"
    <3> SUFFICES ASSUME NEW n \in r.size PROVE \E i \in 2..L : a[i].text.keyword = "SIZE"
      OBVIOUS
    <3>1. PICK i \in 2..L - 1 : lines[i].text = Size(n)
      BY <1>1, <1>2 DEF LinesAre
    <3>2. a[i].text.keyword = "SIZE"
      BY <1>3, <1>4, <3>1, KeywordsOf
    <3> QED BY <1>5, <3>2
  <2> QED BY <2>2, <2>3
<1>11. LastSaid(a, L, "AUTH")
         = IF a[L].text.keyword = "AUTH" THEN a[L].text.names ELSE {}
  <2>1. \A i \in 2..L - 1 : a[i].text.keyword # "AUTH"
    BY <1>7, <1>8, KeywordsOf
  <2>2. LastSaid(a, L - 1, "AUTH") = {}
    <3>1. L - 1 \in Nat /\ L - 1 >= 1
      BY <1>2
    <3> QED BY <2>1, <3>1, LastOfMany
  <2>3. L - 1 \in Nat \ {0} /\ (L - 1) + 1 = L
    BY <1>2
  <2>4. LastSaid(a, (L - 1) + 1, "AUTH")
          = IF a[(L - 1) + 1].text.keyword = "AUTH" THEN a[(L - 1) + 1].text.names
            ELSE LastSaid(a, L - 1, "AUTH")
    BY <2>3, LastNew
  <2> QED BY <2>2, <2>3, <2>4
<1>12. {} \cap Mechanisms = {} /\ L # 0
  BY <1>2
<1>13. LastSaid(a, L, "AUTH") \cap Mechanisms
         = IF a[L].text.keyword = "AUTH" THEN a[L].text.names \cap Mechanisms ELSE {}
  BY <1>11, <1>12
<1> QED BY <1>6, <1>9, <1>10, <1>12, <1>13, Zenon DEF Said

LEMMA SeparatorsOf ==
    ASSUME NEW r \in Responses, NEW i \in 1..Len(Display(r))
    PROVE  /\ Display(r)[i] \in AllLines
           /\ Display(r)[i].separator = IF i = Len(Display(r)) THEN " " ELSE "-"
<1> DEFINE lines == Display(r)
<1>1. LinesAre(r, lines)
  BY LinesOf
<1> HIDE DEF lines
<1>2. lines \in Seq(AllLines) /\ i \in 1..Len(lines)
  BY <1>1 DEF LinesAre, lines
<1>3. lines[i].separator = IF i = Len(lines) THEN " " ELSE "-"
  BY <1>1, <1>2 DEF LinesAre
<1>4. lines[i] \in AllLines
  BY <1>2, ElementOfSeq
<1> QED BY <1>3, <1>4 DEF lines

\* No line of a printed answer is refused.
LEMMA NoneBad ==
    ASSUME NEW r \in Responses, NEW k \in 0..Len(Display(r)) - 1
    PROVE  ~ Bad(Display(r)[k + 1], k)
<1> DEFINE lines == Display(r)
<1> DEFINE L == Len(lines)
<1>1. LinesAre(r, lines)
  BY LinesOf
<1> HIDE DEF lines
<1>2. L \in Nat /\ k \in 0..L - 1
  BY <1>1 DEF LinesAre, lines
<1> HIDE DEF L
<1>3. k + 1 \in 1..L /\ (k > 0 /\ k + 1 # L => k + 1 \in 2..L - 1)
  BY <1>2
<1>4. lines[k + 1].separator \in {"-", " "}
  BY <1>3, SeparatorsOf DEF lines, L
<1>5. ASSUME k > 0, lines[k + 1].text.keyword = "SIZE"
      PROVE  lines[k + 1].text.names \subseteq Sizes
  <2>1. k + 1 # L
    <3>1. lines[L].text.keyword = "AUTH"
      BY <1>1, KeywordsOf DEF LinesAre, L
    <3> QED BY <1>5, <3>1
  <2>2. "SIZE" \notin Extensions
    BY ExtensionsAssumption
  <2>3. k + 1 \in 2..L - 1
    BY <1>3, <1>5, <2>1
  <2>4. \/ \E x \in r.extensions : lines[k + 1].text = Flag(x)
        \/ \E n \in r.size : lines[k + 1].text = Size(n)
    BY <1>1, <2>3 DEF LinesAre, L
  <2>5. PICK n \in r.size : lines[k + 1].text = Size(n)
    BY <1>5, <2>2, <2>4, KeywordsOf
  <2> QED BY <2>5, KeywordsOf
<1> QED BY <1>4, <1>5 DEF Bad, lines

LEMMA ReadsBackAt ==
    ASSUME EhloInv, NEW r \in Responses, Sent(r)
    PROVE  /\ result = "ok" =>
                 /\ Len(answer) >= Len(Display(r))
                 /\ Len(unread) = Len(answer) - Len(Display(r))
                 /\ got.auth \subseteq r.auth /\ [got EXCEPT !.auth = r.auth] = r
                 /\ Len(answer) > Len(Display(r)) => got.auth = r.auth
           /\ result = "syntax" => Len(answer) <= Len(Display(r)) /\ answer # Display(r)
<1> DEFINE lines == Display(r)
<1> DEFINE L == Len(lines)
<1> DEFINE m == Len(answer)
<1>1. LinesAre(r, lines)
  BY LinesOf
<1>2. PICK n \in 1..L + 1 :
            /\ m \in {n - 1, n} /\ (n = L + 1 => m = n)
            /\ \A i \in 1..n - 1 : answer[i] = lines[i]
            /\ m = n /\ n <= L => answer[n] \in Shortened(lines[n])
  BY DEF Sent
<1>3. PICK k \in 0..m : ReadUpTo(k)
  BY DEF EhloInv
<1>4. \A i \in 1..L : /\ lines[i] \in AllLines
                      /\ lines[i].separator = IF i = L THEN " " ELSE "-"
  BY SeparatorsOf
<1>5. \A j \in 0..L - 1 : ~ Bad(lines[j + 1], j)
  BY NoneBad
<1>6. answer \in Seq(AllLines) /\ m \in Nat
  BY LenProperties DEF EhloInv
<1> HIDE DEF lines
<1>7. L \in Nat /\ L >= 2 /\ lines[L].text = Auth(r)
  BY <1>1 DEF LinesAre
<1> HIDE DEF L, m
<1>8. k \in Nat /\ n \in Nat /\ k <= m /\ m <= n /\ n <= L + 1
  BY <1>2, <1>3, <1>6, <1>7
<1>9. \A i \in 1..k : answer[i].separator = IF result = "ok" /\ i = k THEN " " ELSE "-"
  BY <1>3 DEF ReadUpTo
<1>10. ASSUME NEW i \in Nat, i >= 1, i < n, i <= L PROVE answer[i] = lines[i]
  BY <1>2, <1>8, <1>10
<1>11. \/ k < L
       \/ k = L /\ L <= m /\ L <= n
       \/ n = L + 1 /\ k = L + 1
  BY <1>6, <1>7, <1>8
<1>12. ASSUME result = "ok"
       PROVE  /\ m >= L /\ Len(unread) = m - L
              /\ got.auth \subseteq r.auth /\ [got EXCEPT !.auth = r.auth] = r
              /\ m > L => got.auth = r.auth
  <2>1. k > 0 /\ k \in 1..k /\ answer[k].separator = " "
    <3>1. k > 0
      BY <1>3, <1>12 DEF ReadUpTo
    <3>2. k \in 1..k
      BY <1>8, <3>1
    <3> QED BY <1>9, <1>12, <3>1, <3>2
  <2>2. ~ (n = L + 1 /\ k = L + 1)
    <3> SUFFICES ASSUME n = L + 1, k = L + 1 PROVE FALSE
      OBVIOUS
    <3>1. L \in Nat /\ L >= 1 /\ L < n /\ L <= L /\ L \in 1..k /\ L # k /\ L \in 1..L
      BY <1>7
    <3>2. answer[L] = lines[L] /\ lines[L].separator = " "
      BY <1>4, <1>10, <3>1
    <3>3. answer[L].separator = "-"
      BY <1>9, <3>1
    <3> QED BY <3>2, <3>3
  <2>3. ~ (k < L)
    <3> SUFFICES ASSUME k < L PROVE FALSE
      OBVIOUS
    <3>1. k \in 1..L /\ k # L /\ k >= 1 /\ k <= L
      <4>1. k \in Nat /\ k > 0
        BY <1>8, <2>1
      <4> QED BY <1>7, <4>1
    <3>2. lines[k].separator = "-" /\ lines[k] \in AllLines
      BY <1>4, <3>1
    <3>3. CASE k < n
      <4>1. answer[k] = lines[k]
        BY <1>8, <1>10, <3>1, <3>3
      <4> QED BY <2>1, <3>2, <4>1
    <3>4. CASE ~ (k < n)
      <4>1. k = n /\ m = n /\ n <= L
        BY <1>6, <1>8, <3>1, <3>4
      <4>2. answer[k] \in Shortened(lines[k])
        BY <1>2, <4>1
      <4>3. answer[k].separator \in {"-", "other"}
        BY <3>2, <4>2, ShortenedLine
      <4> QED BY <2>1, <4>3
    <3> QED BY <3>3, <3>4
  <2>4. k = L /\ L <= m /\ L <= n
    BY <1>11, <2>2, <2>3
  <2>5. Len(unread) = m - L
    <3>1. unread = SubSeq(answer, k + 1, m)
      BY <1>3 DEF ReadUpTo, m
    <3>2. Len(unread) = m - k
      BY <1>3, <1>6, <3>1, Behind DEF m
    <3> QED BY <2>4, <3>2
  <2>6. \A i \in 1..L - 1 : answer[i] = lines[i]
    <3> SUFFICES ASSUME NEW i \in 1..L - 1 PROVE answer[i] = lines[i]
      OBVIOUS
    <3>1. i \in Nat /\ i >= 1 /\ i < n /\ i <= L
      BY <1>7, <1>8, <2>4
    <3> QED BY <1>10, <3>1
  <2>7. /\ answer[L].text.keyword \in {"AUTH", "other"} /\ answer[L].text.names \subseteq r.auth
        /\ m > L => answer[L].text = Auth(r)
    <3>1. CASE L < n
      <4>1. L \in Nat /\ L >= 1 /\ L <= L
        BY <1>7
      <4>2. answer[L] = lines[L]
        BY <1>10, <3>1, <4>1
      <4> QED BY <1>7, <4>2, KeywordsOf
    <3>2. CASE ~ (L < n)
      <4>1. n = L /\ m = n /\ L \in 1..L /\ ~ (m > L)
        BY <1>6, <1>7, <1>8, <2>4, <3>2
      <4>2. answer[L] \in Shortened(lines[L]) /\ lines[L] \in AllLines
        <5>1. n <= L
          BY <1>7, <4>1
        <5>2. answer[n] \in Shortened(lines[n])
          BY <1>2, <4>1, <5>1
        <5> QED BY <1>4, <4>1, <5>2
      <4>3. answer[L].separator = " "
        BY <2>1, <2>4
      <4>4. lines[L].text.keyword = "AUTH" /\ lines[L].text.names = r.auth
        BY <1>7, KeywordsOf
      <4>5. /\ answer[L].text.keyword \in {lines[L].text.keyword, "other"}
            /\ answer[L].text.names \subseteq lines[L].text.names
        BY <4>2, <4>3, <4>4, ShortenedLine
      <4> QED BY <4>1, <4>4, <4>5
    <3> QED BY <3>1, <3>2
  <2> DEFINE auth == IF answer[L].text.keyword = "AUTH" THEN answer[L].text.names \cap Mechanisms
                     ELSE {}
  <2>8. got = Read(r.domain, r.extensions, r.size, auth)
    <3>1. got = Said(answer, L)
      BY <1>3, <2>4 DEF ReadUpTo
    <3>2. Said(answer, L) = Read(r.domain, r.extensions, r.size, auth)
      BY <2>6, <2>7, SaidPrinted DEF lines, L
    <3> QED BY <3>1, <3>2, Zenon
  <2>9. auth \subseteq r.auth /\ (m > L => auth = r.auth)
    <3>1. r.auth \cap Mechanisms = r.auth
      BY TextTypes
    <3> QED BY <2>7, <3>1, KeywordsOf
  <2> HIDE DEF auth
  <2>10. got.auth = auth /\ [got EXCEPT !.auth = r.auth] = r
    <3>1. got.auth = auth
      BY <2>8 DEF Read
    <3>2. [got EXCEPT !.auth = r.auth] = Read(r.domain, r.extensions, r.size, r.auth)
      BY <2>8 DEF Read
    <3>3. r = Read(r.domain, r.extensions, r.size, r.auth)
      BY DEF Responses, Read
    <3> QED BY <3>1, <3>2, <3>3
  <2> QED BY <2>4, <2>5, <2>9, <2>10
<1>13. ASSUME result = "syntax" PROVE m <= L /\ answer # lines
  <2>1. ASSUME L <= m, \A i \in 1..L : answer[i] = lines[i] PROVE FALSE
    <3>1. ~ (L <= k)
      <4> SUFFICES ASSUME L <= k PROVE FALSE
        OBVIOUS
      <4>1. L \in 1..k /\ L \in 1..L
        BY <1>7, <1>8
      <4>2. answer[L].separator = "-"
        BY <1>9, <1>13, <4>1
      <4>3. answer[L].separator = " "
        BY <1>4, <2>1, <4>1
      <4> QED BY <4>2, <4>3
    <3>2. k \in 0..L - 1 /\ k + 1 \in 1..L /\ k # m
      BY <1>7, <1>8, <2>1, <3>1
    <3>3. Bad(answer[k + 1], k)
      BY <1>3, <1>13, <3>2 DEF ReadUpTo, m
    <3>4. answer[k + 1] = lines[k + 1]
      BY <2>1, <3>2
    <3> QED BY <1>5, <3>2, <3>3, <3>4
  <2>2. m <= L
    <3> SUFFICES ASSUME m > L PROVE FALSE
      BY <1>6, <1>7
    <3>1. L <= m /\ n = L + 1
      BY <1>6, <1>7, <1>8
    <3>2. \A i \in 1..L : answer[i] = lines[i]
      <4> SUFFICES ASSUME NEW i \in 1..L PROVE answer[i] = lines[i]
        OBVIOUS
      <4>1. i \in Nat /\ i >= 1 /\ i < n /\ i <= L
        BY <1>7, <3>1
      <4> QED BY <1>10, <4>1
    <3> QED BY <2>1, <3>1, <3>2
  <2>3. answer # lines
    <3> SUFFICES ASSUME answer = lines PROVE FALSE
      OBVIOUS
    <3>1. L <= m
      BY <1>7 DEF L, m
    <3> QED BY <2>1, <3>1
  <2> QED BY <2>2, <2>3
<1> QED BY <1>12, <1>13 DEF lines, L, m

\* Response::read gives back what Display printed, whole or cut short.
THEOREM PrintedResponseIsReadBack == EhloSpec => []ReadsBack
<1>1. EhloInv /\ Sending => ReadsBack
  <2> SUFFICES ASSUME EhloInv, Sending, NEW r \in printed
               PROVE  LET lines == Len(Display(r))
                      IN  /\ result = "ok" =>
                                /\ Len(answer) >= lines /\ Len(unread) = Len(answer) - lines
                                /\ got.auth \subseteq r.auth /\ [got EXCEPT !.auth = r.auth] = r
                                /\ Len(answer) > lines => got.auth = r.auth
                          /\ result = "syntax" => Len(answer) <= lines /\ answer # Display(r)
    BY DEF ReadsBack
  <2>1. r \in Responses /\ Sent(r)
    BY DEF Sending
  <2> QED BY <2>1, ReadsBackAt
<1> QED BY <1>1, EhloSafe, PTL
=============================================================================
