-------------------------- MODULE ImapQueue_proofs --------------------------
(***************************************************************************)
(* The queue keeps its books for any set of operations and any capacity.   *)
(***************************************************************************)
EXTENDS ImapQueue, SequenceTheorems, TLAPS

\* What Append and Tail do to the set of elements of a sequence.
LEMMA RangeAppend ==
    ASSUME NEW S, NEW s \in Seq(S), NEW x \in S
    PROVE  Range(Append(s, x)) = Range(s) \cup {x}
  <1>1. /\ DOMAIN s = 1..Len(s)
        /\ DOMAIN Append(s, x) = 1..(Len(s) + 1)
        /\ Len(s) \in Nat
    BY AppendProperties, LenProperties
  <1>2. Append(s, x)[Len(s) + 1] = x
    BY AppendProperties
  <1>3. \A i \in 1..Len(s) : Append(s, x)[i] = s[i]
    BY AppendProperties
  <1> QED
    BY <1>1, <1>2, <1>3 DEF Range

LEMMA RangeTail ==
    ASSUME NEW S, NEW s \in Seq(S), s # <<>>
    PROVE  Range(s) = {Head(s)} \cup Range(Tail(s))
  <1>1. /\ DOMAIN s = 1..Len(s)
        /\ Len(s) \in Nat \ {0}
        /\ DOMAIN Tail(s) = 1..(Len(s) - 1)
    BY HeadTailProperties, LenProperties, EmptySeq
  <1>2. Head(s) = s[1]
    BY HeadTailProperties
  <1>3. \A i \in 1..(Len(s) - 1) : Tail(s)[i] = s[i + 1]
    BY HeadTailProperties
  <1>4. ASSUME NEW i \in 1..Len(s)
        PROVE  s[i] \in {Head(s)} \cup Range(Tail(s))
    <2>1. CASE i = 1
      BY <1>2, <2>1
    <2>2. CASE i # 1
      <3>1. i - 1 \in 1..(Len(s) - 1) /\ (i - 1) + 1 = i
        BY <1>1, <2>2
      <3>2. Tail(s)[i - 1] = s[i]
        BY <1>3, <3>1
      <3> QED
        BY <1>1, <3>1, <3>2 DEF Range
    <2> QED
      BY <2>1, <2>2
  <1>5. Range(Tail(s)) \subseteq Range(s)
    <2>1. \A i \in 1..(Len(s) - 1) : i + 1 \in 1..Len(s)
      BY <1>1
    <2> QED
      BY <1>1, <1>3, <2>1 DEF Range
  <1>6. Head(s) \in Range(s)
    BY <1>1, <1>2 DEF Range
  <1> QED
    BY <1>1, <1>4, <1>5, <1>6 DEF Range

-----------------------------------------------------------------------------
\* The three invariants together are inductive: no tag is freed twice because
\* no payload exists twice, and no payload exists twice because an operation
\* is inserted only when its tag, hence the operation, is not in progress.
IInv == TypeOK /\ NoneTwice /\ Consistent

LEMMA InitIInv == Init => IInv
  <1> SUFFICES ASSUME Init PROVE IInv
    OBVIOUS
  <1>1. TypeOK
    BY CapacityAssumption, EmptySeq DEF Init, TypeOK
  <1>2. InProgress = {}
    BY DEF Init, InProgress, Range
  <1> QED
    BY <1>1, <1>2 DEF Init, IInv, NoneTwice, Consistent

LEMMA InsertIInv ==
    ASSUME IInv, NEW op \in Ops, InsertFresh(op)
    PROVE  IInv'
  <1> USE DEF InsertFresh, Insert, IInv
  <1>1. TypeOK'
    BY DEF TypeOK, OpTags
  <1>2. InProgress' = InProgress \cup {op}
    BY DEF InProgress
  <1>3. NoneTwice'
    BY DEF NoneTwice, InProgress
  <1>4. Consistent'
    BY <1>2 DEF Consistent
  <1> QED
    BY <1>1, <1>3, <1>4

LEMMA SendIInv ==
    ASSUME IInv, NEW op \in Ops, Send(op)
    PROVE  IInv'
  <1> USE DEF Send, IInv
  <1>1. chan \in Seq(Ops) /\ op \in open
    BY DEF TypeOK
  <1>2. /\ Len(chan') = Len(chan) + 1 /\ Len(chan) \in Nat
        /\ DOMAIN chan' = 1..(Len(chan) + 1) /\ DOMAIN chan = 1..Len(chan)
        /\ chan'[Len(chan) + 1] = op
        /\ \A i \in 1..Len(chan) : chan'[i] = chan[i]
    BY <1>1, AppendProperties, LenProperties
  <1>3. TypeOK'
    BY <1>1, <1>2, AppendProperties, CapacityAssumption DEF TypeOK
  <1>4. Range(chan') = Range(chan) \cup {op}
    BY <1>1, RangeAppend
  <1>5. op \notin Range(chan)
    BY <1>1 DEF NoneTwice
  <1>6. NoneTwice'
    <2>1. open' \cap Range(chan') = {}
      BY <1>4 DEF NoneTwice
    <2>2. ASSUME NEW i \in DOMAIN chan', NEW j \in DOMAIN chan', chan'[i] = chan'[j]
          PROVE  i = j
      BY <1>2, <1>5, <2>2 DEF NoneTwice, Range
    <2> QED
      BY <2>1, <2>2 DEF NoneTwice
  <1>7. InProgress' = InProgress
    BY <1>1, <1>4 DEF InProgress
  <1>8. Consistent'
    BY <1>7 DEF Consistent
  <1> QED
    BY <1>3, <1>6, <1>8

LEMMA RecvIInv ==
    ASSUME IInv, Recv
    PROVE  IInv'
  <1> USE DEF Recv, IInv
  <1>1. chan \in Seq(Ops) /\ chan # <<>>
    BY DEF TypeOK
  <1>2. /\ Len(chan) \in Nat \ {0} /\ Len(chan') = Len(chan) - 1
        /\ DOMAIN chan = 1..Len(chan) /\ DOMAIN chan' = 1..(Len(chan) - 1)
        /\ Head(chan) = chan[1]
        /\ \A i \in 1..(Len(chan) - 1) : chan'[i] = chan[i + 1]
    BY <1>1, HeadTailProperties, LenProperties, EmptySeq
  <1>3. TypeOK'
    BY <1>1, <1>2, HeadTailProperties, CapacityAssumption DEF TypeOK
  <1>4. Range(chan) = {Head(chan)} \cup Range(chan')
    BY <1>1, RangeTail
  <1>5. Head(chan) \notin Range(chan')
    <2> SUFFICES ASSUME NEW i \in 1..(Len(chan) - 1), chan'[i] = Head(chan)
                 PROVE  FALSE
      BY <1>2 DEF Range
    <2>1. i + 1 \in DOMAIN chan /\ 1 \in DOMAIN chan /\ chan[i + 1] = chan[1]
      BY <1>2
    <2>2. i + 1 = 1
      BY <2>1 DEF NoneTwice
    <2> QED
      BY <2>2
  <1>6. NoneTwice'
    <2>1. open' \cap Range(chan') = {}
      BY <1>4 DEF NoneTwice
    <2>2. ASSUME NEW i \in DOMAIN chan', NEW j \in DOMAIN chan', chan'[i] = chan'[j]
          PROVE  i = j
      <3>1. i + 1 \in DOMAIN chan /\ j + 1 \in DOMAIN chan /\ chan[i + 1] = chan[j + 1]
        BY <1>2, <2>2
      <3>2. i + 1 = j + 1
        BY <3>1 DEF NoneTwice
      <3> QED
        BY <1>2, <3>2
    <2> QED
      BY <2>1, <2>2 DEF NoneTwice
  <1>7. InProgress' = InProgress \ {Head(chan)}
    BY <1>4, <1>5 DEF InProgress, NoneTwice
  <1>8. Head(chan) \in InProgress
    BY <1>4 DEF InProgress
  <1>9. Consistent'
    BY <1>7, <1>8 DEF Consistent
  <1> QED
    BY <1>3, <1>6, <1>9

LEMMA NextIInv == IInv /\ [Next]_vars => IInv'
  <1> SUFFICES ASSUME IInv, [Next]_vars PROVE IInv'
    OBVIOUS
  <1>1. CASE \E op \in Ops : InsertFresh(op)
    BY <1>1, InsertIInv
  <1>2. CASE \E op \in Ops : Send(op)
    BY <1>2, SendIInv
  <1>3. CASE Recv
    BY <1>3, RecvIInv
  <1>4. CASE UNCHANGED vars
    BY <1>4 DEF vars, IInv, TypeOK, NoneTwice, Consistent, InProgress
  <1> QED
    BY <1>1, <1>2, <1>3, <1>4 DEF Next

LEMMA QueueInvariant == Spec => []IInv
  BY InitIInv, NextIInv, PTL DEF Spec

\* Senders wait for a place: the channel of queue.rs never holds more payloads
\* than it has places, whatever the operations.
THEOREM QueueTypes == Spec => []TypeOK
  <1>1. IInv => TypeOK
    BY DEF IInv
  <1> QED
    BY <1>1, QueueInvariant, PTL

\* No payload exists twice, whichever operations finish together and however
\* many senders wait.
THEOREM NoPayloadTwice == Spec => []NoneTwice
  <1>1. IInv => NoneTwice
    BY DEF IInv
  <1> QED
    BY <1>1, QueueInvariant, PTL

\* What the queue remembers is what is in progress, though tags are reused.
THEOREM RemembersInProgress == Spec => []Consistent
  <1>1. IInv => Consistent
    BY DEF IInv
  <1> QED
    BY <1>1, QueueInvariant, PTL

\* The assertions "tag should be known" of Queue::ready and Queue::wait.
THEOREM TagAlwaysKnown == Spec => []TagKnown
  <1>1. IInv => TagKnown
    <2> SUFFICES ASSUME TypeOK, Consistent, chan # <<>>
                 PROVE  Head(chan).tag \in commands
      BY DEF TagKnown, IInv
    <2>1. Head(chan) \in Range(chan)
      BY RangeTail DEF TypeOK
    <2> QED
      BY <2>1 DEF Consistent, InProgress
  <1> QED
    BY <1>1, QueueInvariant, PTL
=============================================================================
