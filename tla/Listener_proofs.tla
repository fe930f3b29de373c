-------------------------- MODULE Listener_proofs --------------------------
(***************************************************************************)
(* Proofs about Listener, for any services and any clients: where a client *)
(* waits, and what it costs to be dropped.                                 *)
(*                                                                         *)
(* The invariant is stated per service, because a step of one service      *)
(* leaves the clients of the others alone.                                 *)
(***************************************************************************)
EXTENDS Listener, SequenceTheorems, TLAPS

Queued(q, c) == \E i \in DOMAIN q : q[i] = c
NoneQueuedTwice(q) == \A i, j \in DOMAIN q : q[i] = q[j] => i = j

LEMMA Joined ==
    ASSUME NEW S, NEW q \in Seq(S), NEW x \in S
    PROVE  /\ Append(q, x) \in Seq(S)
           /\ \A c : Queued(Append(q, x), c) <=> Queued(q, c) \/ c = x
           /\ NoneQueuedTwice(q) /\ ~Queued(q, x) => NoneQueuedTwice(Append(q, x))
<1>1. /\ Append(q, x) \in Seq(S) /\ Len(q) \in Nat
      /\ DOMAIN Append(q, x) = 1 .. Len(q) + 1 /\ DOMAIN q = 1..Len(q)
      /\ \A i \in 1..Len(q) : Append(q, x)[i] = q[i]
      /\ Append(q, x)[Len(q) + 1] = x
  BY AppendProperties, LenProperties
<1> QED BY <1>1 DEF Queued, NoneQueuedTwice

LEMMA Served ==
    ASSUME NEW S, NEW q \in Seq(S), q # <<>>
    PROVE  /\ Tail(q) \in Seq(S) /\ Head(q) \in S /\ Queued(q, Head(q))
           /\ NoneQueuedTwice(q) =>
                 /\ \A c : Queued(Tail(q), c) <=> Queued(q, c) /\ c # Head(q)
                 /\ NoneQueuedTwice(Tail(q))
<1>1. /\ Len(q) \in Nat \ {0} /\ DOMAIN q = 1..Len(q)
      /\ Tail(q) \in Seq(S) /\ Len(Tail(q)) = Len(q) - 1 /\ DOMAIN Tail(q) = 1 .. Len(q) - 1
      /\ Head(q) \in S /\ Head(q) = q[1]
      /\ \A i \in 1 .. Len(q) - 1 : Tail(q)[i] = q[i + 1]
  BY HeadTailProperties, LenProperties, EmptySeq
<1>2. ASSUME NoneQueuedTwice(q), NEW c PROVE Queued(Tail(q), c) <=> Queued(q, c) /\ c # Head(q)
  <2>1. ASSUME NEW i \in 1 .. Len(q) - 1, Tail(q)[i] = c PROVE Queued(q, c) /\ c # Head(q)
    <3>1. i + 1 \in DOMAIN q /\ q[i + 1] = c /\ 1 \in DOMAIN q
      BY <1>1, <2>1
    <3> QED BY <1>1, <1>2, <3>1 DEF Queued, NoneQueuedTwice
  <2>2. ASSUME NEW i \in 1..Len(q), q[i] = c, c # Head(q) PROVE Queued(Tail(q), c)
    <3>1. i - 1 \in DOMAIN Tail(q) /\ Tail(q)[i - 1] = q[i]
      BY <1>1, <2>2
    <3> QED BY <2>2, <3>1 DEF Queued
  <2> QED BY <1>1, <2>1, <2>2 DEF Queued
<1>3. ASSUME NoneQueuedTwice(q) PROVE NoneQueuedTwice(Tail(q))
  <2> SUFFICES ASSUME NEW i \in 1 .. Len(q) - 1, NEW j \in 1 .. Len(q) - 1, Tail(q)[i] = Tail(q)[j]
               PROVE  i = j
    BY <1>1 DEF NoneQueuedTwice
  <2>1. i + 1 \in DOMAIN q /\ j + 1 \in DOMAIN q /\ q[i + 1] = q[j + 1]
    BY <1>1
  <2>2. i + 1 = j + 1
    BY <1>3, <2>1 DEF NoneQueuedTwice
  <2> QED BY <2>2
<1>4. Queued(q, Head(q))
  BY <1>1 DEF Queued
<1> QED BY <1>1, <1>2, <1>3, <1>4

-----------------------------------------------------------------------------
(* The invariant *)

Functions ==
    /\ plain \in [Services -> Seq(AllClients)] /\ tls \in [Services -> Seq(AllClients)]
    /\ handshake \in [Services -> AllClients \cup {NoClient}]
    /\ hello \in [AllClients -> {"none", "good", "bad"}]
    /\ status \in [AllClients -> {"new", "waiting", "served", "dropped"}]
    /\ ended \subseteq Services /\ over \in BOOLEAN

Port(s, plains, tlss, busy, became) ==
    /\ plains \in Seq(PlainClients[s]) /\ tlss \in Seq(TlsClients[s])
    /\ busy \in TlsClients[s] \cup {NoClient}
    /\ NoneQueuedTwice(plains) /\ NoneQueuedTwice(tlss)
    /\ \A c \in PlainClients[s] : became[c] = "waiting" <=> Queued(plains, c)
    /\ \A c \in TlsClients[s] : became[c] = "waiting" <=> Queued(tlss, c) \/ busy = c
    /\ \A c \in TlsClients[s] : ~(Queued(tlss, c) /\ busy = c)

PortsInv == \A s \in Services : Port(s, plain[s], tls[s], handshake[s], status)

IInv == Functions /\ PortsInv /\ OnePerPlain

LEMMA ClientsOf ==
    ASSUME NEW s \in Services
    PROVE  /\ PlainClients[s] \subseteq AllClients /\ TlsClients[s] \subseteq AllClients
           /\ PlainClients[s] \cap TlsClients[s] = {}
           /\ NoClient \notin PlainClients[s] \cup TlsClients[s]
           /\ \A t \in Services : t # s => Clients(t) \cap Clients(s) = {}
BY ClientsAssumption, NoClientAssumption DEF AllClients, Clients

\* What is the same for a service before and after, its clients included,
\* keeps its port good.
LEMMA PortKept ==
    ASSUME NEW s, NEW p, NEW q, NEW b, NEW became, NEW becomes,
           Port(s, p, q, b, became), \A c \in Clients(s) : becomes[c] = became[c]
    PROVE  Port(s, p, q, b, becomes)
BY DEF Port, Clients

\* A step at one port leaves the other services alone.
LEMMA OnePort ==
    ASSUME Functions, PortsInv, NEW s \in Services,
           \A t \in Services : t # s =>
               plain'[t] = plain[t] /\ tls'[t] = tls[t] /\ handshake'[t] = handshake[t],
           \A c \in AllClients : c \notin Clients(s) => status'[c] = status[c],
           Port(s, plain'[s], tls'[s], handshake'[s], status')
    PROVE  PortsInv'
<1> SUFFICES ASSUME NEW t \in Services PROVE Port(t, plain'[t], tls'[t], handshake'[t], status')
  BY DEF PortsInv
<1>1. CASE t = s
  BY <1>1
<1>2. CASE t # s
  <2>1. Clients(t) \cap Clients(s) = {} /\ Clients(t) \subseteq AllClients
    BY <1>2, ClientsOf DEF Clients
  <2>2. \A c \in Clients(t) : status'[c] = status[c]
    BY <2>1
  <2> QED BY <1>2, <2>2, PortKept DEF PortsInv
<1> QED BY <1>1, <1>2

\* At most one more is dropped, and one more is served who was not before.
LEMMA OneMoreDropped ==
    ASSUME NEW D, NEW S, NEW H, NEW p,
           ExistsInjection(D, S), p \notin S, \A a, b \in H : a = b
    PROVE  ExistsInjection(D \cup H, S \cup {p})
<1>1. PICK f \in [D -> S] : \A a, b \in D : f[a] = f[b] => a = b
  BY DEF ExistsInjection, Injection, IsInjective
<1> DEFINE g == [d \in D \cup H |-> IF d \in D THEN f[d] ELSE p]
<1>2. g \in [D \cup H -> S \cup {p}]
  BY <1>1
<1>3. \A a, b \in D \cup H : g[a] = g[b] => a = b
  <2> SUFFICES ASSUME NEW a \in D \cup H, NEW b \in D \cup H, g[a] = g[b] PROVE a = b
    OBVIOUS
  <2>1. (a \in D => f[a] \in S) /\ (b \in D => f[b] \in S)
    BY <1>1
  <2>2. a \in D <=> b \in D
    BY <2>1
  <2> QED BY <1>1, <2>2
<1> HIDE DEF g
<1>4. g \in Injection(D \cup H, S \cup {p})
  BY <1>2, <1>3 DEF Injection, IsInjective
<1> QED BY <1>4 DEF ExistsInjection

\* Nobody is dropped, and no plain client newly served.
LEMMA DropsKept ==
    ASSUME OnePerPlain,
           \A s \in Services : Listening(s)' =>
               /\ Listening(s)
               /\ \A c \in Clients(s) : status'[c] = "dropped" <=> status[c] = "dropped"
               /\ \A c \in PlainClients[s] : status'[c] = "served" <=> status[c] = "served"
    PROVE  OnePerPlain'
<1> SUFFICES ASSUME NEW s \in Services, Listening(s)'
             PROVE  /\ DroppedBy(s)' \subseteq TlsClients[s]
                    /\ ExistsInjection(DroppedBy(s)', ServedPlain(s)')
  BY DEF OnePerPlain
<1>1. DroppedBy(s)' = DroppedBy(s) /\ ServedPlain(s)' = ServedPlain(s)
  BY DEF DroppedBy, ServedPlain
<1> QED BY <1>1 DEF OnePerPlain

LEMMA ConnectKeeps ==
    ASSUME IInv, NEW s \in Services, NEW c \in AllClients, ConnectPlain(s, c) \/ ConnectTls(s, c)
    PROVE  IInv'
<1>0. Functions /\ PortsInv /\ OnePerPlain /\ Port(s, plain[s], tls[s], handshake[s], status)
  BY DEF IInv, PortsInv
<1>1. /\ status[c] = "new" /\ status' = [status EXCEPT ![c] = "waiting"]
      /\ UNCHANGED <<handshake, hello, ended, over>>
      /\ \/ /\ c \in PlainClients[s] /\ plain' = [plain EXCEPT ![s] = Append(@, c)]
            /\ tls' = tls
         \/ /\ c \in TlsClients[s] /\ tls' = [tls EXCEPT ![s] = Append(@, c)]
            /\ plain' = plain
  BY Zenon DEF ConnectPlain, ConnectTls
<1>2. /\ status' \in [AllClients -> {"new", "waiting", "served", "dropped"}]
      /\ status'[c] = "waiting" /\ \A d \in AllClients : d # c => status'[d] = status[d]
  BY <1>0, <1>1 DEF Functions
<1>3. OnePerPlain'
  <2>1. \A t \in Services : Listening(t)' <=> Listening(t)
    BY <1>1 DEF Listening
  <2>2. \A d \in AllClients :
            /\ status'[d] = "dropped" <=> status[d] = "dropped"
            /\ status'[d] = "served" <=> status[d] = "served"
    BY <1>1, <1>2
  <2>3. ASSUME NEW t \in Services, Listening(t)'
        PROVE  /\ Listening(t)
               /\ \A d \in Clients(t) : status'[d] = "dropped" <=> status[d] = "dropped"
               /\ \A d \in PlainClients[t] : status'[d] = "served" <=> status[d] = "served"
    <3>1. Clients(t) \subseteq AllClients /\ PlainClients[t] \subseteq AllClients
      BY ClientsOf DEF Clients
    <3>2. Listening(t)
      BY <2>1, <2>3, Zenon
    <3>3. ASSUME NEW d \in Clients(t) PROVE status'[d] = "dropped" <=> status[d] = "dropped"
      <4>1. d \in AllClients
        BY <3>1
      <4> QED BY <2>2, <4>1
    <3>4. ASSUME NEW d \in PlainClients[t] PROVE status'[d] = "served" <=> status[d] = "served"
      <4>1. d \in AllClients
        BY <3>1
      <4> QED BY <2>2, <4>1
    <3> QED BY <3>2, <3>3, <3>4, Zenon
  <2> QED BY <1>0, <2>3, DropsKept, Zenon
<1>4. \A d \in AllClients : d \notin Clients(s) => status'[d] = status[d]
  <2>1. c \in Clients(s)
    BY <1>1 DEF Clients
  <2> QED BY <1>2, <2>1
<1>5. CASE c \in PlainClients[s] /\ plain' = [plain EXCEPT ![s] = Append(@, c)] /\ tls' = tls
  <2>1. /\ plain' \in [Services -> Seq(AllClients)] /\ plain'[s] = Append(plain[s], c)
        /\ \A t \in Services : t # s => plain'[t] = plain[t]
    <3>1. Append(plain[s], c) \in Seq(AllClients)
      BY <1>0, Joined DEF Functions
    <3> QED BY <1>0, <1>5, <3>1 DEF Functions
  <2>2. Functions'
    BY <1>0, <1>1, <1>2, <1>5, <2>1, Zenon DEF Functions
  <2>3. /\ plain[s] \in Seq(PlainClients[s]) /\ ~Queued(plain[s], c)
    BY <1>0, <1>1, <1>5 DEF Port
  <2>4. /\ plain'[s] \in Seq(PlainClients[s]) /\ NoneQueuedTwice(plain'[s])
        /\ \A d : Queued(plain'[s], d) <=> Queued(plain[s], d) \/ d = c
    BY <1>0, <1>5, <2>1, <2>3, Joined DEF Port
  <2>5. Port(s, plain'[s], tls'[s], handshake'[s], status')
    BY <1>0, <1>1, <1>2, <1>5, <2>4, ClientsOf DEF Port
  <2>6. \A t \in Services : t # s =>
            plain'[t] = plain[t] /\ tls'[t] = tls[t] /\ handshake'[t] = handshake[t]
    BY <1>1, <1>5, <2>1
  <2>7. PortsInv'
    BY <1>0, <1>4, <2>5, <2>6, OnePort
  <2> QED BY <1>3, <2>2, <2>7 DEF IInv
<1>6. CASE c \in TlsClients[s] /\ tls' = [tls EXCEPT ![s] = Append(@, c)] /\ plain' = plain
  <2>1. /\ tls' \in [Services -> Seq(AllClients)] /\ tls'[s] = Append(tls[s], c)
        /\ \A t \in Services : t # s => tls'[t] = tls[t]
    <3>1. Append(tls[s], c) \in Seq(AllClients)
      BY <1>0, Joined DEF Functions
    <3> QED BY <1>0, <1>6, <3>1 DEF Functions
  <2>2. Functions'
    BY <1>0, <1>1, <1>2, <1>6, <2>1, Zenon DEF Functions
  <2>3. /\ tls[s] \in Seq(TlsClients[s]) /\ ~Queued(tls[s], c) /\ handshake[s] # c
    BY <1>0, <1>1, <1>6 DEF Port
  <2>4. /\ tls'[s] \in Seq(TlsClients[s]) /\ NoneQueuedTwice(tls'[s])
        /\ \A d : Queued(tls'[s], d) <=> Queued(tls[s], d) \/ d = c
    BY <1>0, <1>6, <2>1, <2>3, Joined DEF Port
  <2>5. Port(s, plain'[s], tls'[s], handshake'[s], status')
    BY <1>0, <1>1, <1>2, <1>6, <2>3, <2>4, ClientsOf DEF Port
  <2>6. \A t \in Services : t # s =>
            plain'[t] = plain[t] /\ tls'[t] = tls[t] /\ handshake'[t] = handshake[t]
    BY <1>1, <1>6, <2>1
  <2>7. PortsInv'
    BY <1>0, <1>4, <2>5, <2>6, OnePort
  <2> QED BY <1>3, <2>2, <2>7 DEF IInv
<1> QED BY <1>1, <1>5, <1>6

LEMMA HelloKeeps ==
    ASSUME IInv, NEW s \in Services, NEW c \in AllClients, SayHello(s, c)
    PROVE  IInv'
<1>1. PICK h \in {"good", "bad"} :
        /\ hello' = [hello EXCEPT ![c] = h] /\ status[c] = "waiting"
        /\ UNCHANGED <<plain, tls, handshake, status, ended, over>>
  BY Zenon DEF SayHello
<1>2. /\ hello' \in [AllClients -> {"none", "good", "bad"}]
      /\ \A d \in AllClients : d # c => hello'[d] = hello[d]
  BY <1>1 DEF IInv, Functions
<1>3. OnePerPlain'
  BY <1>1, DropsKept, Zenon DEF IInv, Listening
<1>4. Functions' /\ PortsInv'
  BY <1>1, <1>2, Zenon DEF IInv, Functions, PortsInv
<1> QED BY <1>3, <1>4 DEF IInv

LEMMA AcceptPlainKeeps ==
    ASSUME IInv, NEW s \in Services, AcceptPlain(s)
    PROVE  IInv'
<1>0. Functions /\ PortsInv /\ OnePerPlain /\ Port(s, plain[s], tls[s], handshake[s], status)
  BY DEF IInv, PortsInv
<1> DEFINE p == Head(plain[s])
<1>1. /\ plain[s] # <<>> /\ plain' = [plain EXCEPT ![s] = Tail(@)]
      /\ status' = [c \in AllClients |->
            IF c = p THEN "served" ELSE IF c = handshake[s] THEN "dropped" ELSE status[c]]
      /\ handshake' = [handshake EXCEPT ![s] = NoClient]
      /\ Listening(s) /\ UNCHANGED <<tls, hello, ended, over>>
  BY Zenon DEF AcceptPlain
<1>2. /\ plain[s] \in Seq(PlainClients[s]) /\ NoneQueuedTwice(plain[s])
      /\ handshake[s] \in TlsClients[s] \cup {NoClient}
  BY <1>0 DEF Port
<1>3. /\ p \in PlainClients[s] /\ Queued(plain[s], p) /\ Tail(plain[s]) \in Seq(PlainClients[s])
      /\ NoneQueuedTwice(Tail(plain[s]))
      /\ \A c : Queued(Tail(plain[s]), c) <=> Queued(plain[s], c) /\ c # p
  BY <1>1, <1>2, Served
<1>4. /\ p \in AllClients /\ p # handshake[s] /\ status[p] = "waiting"
      /\ \A c \in PlainClients[s] : c # handshake[s]
  BY <1>0, <1>2, <1>3, ClientsOf DEF Port
<1>5. /\ status' \in [AllClients -> {"new", "waiting", "served", "dropped"}]
      /\ status'[p] = "served"
      /\ \A c \in AllClients : c # p /\ c = handshake[s] => status'[c] = "dropped"
      /\ \A c \in AllClients : c # p /\ c # handshake[s] => status'[c] = status[c]
  BY <1>0, <1>1, <1>4 DEF Functions
<1>6. /\ plain' \in [Services -> Seq(AllClients)] /\ plain'[s] = Tail(plain[s])
      /\ handshake' \in [Services -> AllClients \cup {NoClient}] /\ handshake'[s] = NoClient
      /\ \A t \in Services : t # s => plain'[t] = plain[t] /\ handshake'[t] = handshake[t]
  <2>1. Tail(plain[s]) \in Seq(AllClients)
    BY <1>0, <1>1, Served DEF Functions
  <2> QED BY <1>0, <1>1, <2>1 DEF Functions
<1>7. Functions'
  BY <1>0, <1>1, <1>5, <1>6, Zenon DEF Functions
<1>8. OnePerPlain'
  <2> SUFFICES ASSUME NEW t \in Services, Listening(t)'
               PROVE  /\ DroppedBy(t)' \subseteq TlsClients[t]
                      /\ ExistsInjection(DroppedBy(t)', ServedPlain(t)')
    BY DEF OnePerPlain
  <2>0. Listening(t) /\ Clients(t) \subseteq AllClients /\ PlainClients[t] \subseteq Clients(t)
    BY <1>1, ClientsOf DEF Listening, Clients
  <2>1. DroppedBy(t) \subseteq TlsClients[t] /\ ExistsInjection(DroppedBy(t), ServedPlain(t))
    BY <1>0, <2>0 DEF OnePerPlain
  <2>2. CASE t = s
    <3> DEFINE H == {handshake[s]} \ {NoClient}
    <3>1. DroppedBy(s)' = DroppedBy(s) \cup H
      BY <1>2, <1>3, <1>4, <1>5, <2>0, <2>2, NoClientAssumption DEF DroppedBy, Clients
    <3>2. p \notin ServedPlain(s)
      BY <1>4 DEF ServedPlain
    <3>3. ServedPlain(s)' = ServedPlain(s) \cup {p}
      BY <1>3, <1>4, <1>5, <2>0, <2>2 DEF ServedPlain
    <3>4. /\ ExistsInjection(DroppedBy(s), ServedPlain(s)) /\ DroppedBy(s) \subseteq TlsClients[s]
          /\ \A c, d \in H : c = d
          /\ H \subseteq TlsClients[s]
      BY <1>2, <2>1, <2>2
    <3> HIDE DEF p, H
    <3>5. ExistsInjection(DroppedBy(s) \cup H, ServedPlain(s) \cup {p})
      BY <3>2, <3>4, OneMoreDropped
    <3>6. DroppedBy(s)' \subseteq TlsClients[s]
      BY <3>1, <3>4
    <3>7. ExistsInjection(DroppedBy(s)', ServedPlain(s)')
      BY <3>1, <3>3, <3>5, Zenon
    <3> QED BY <2>2, <3>6, <3>7
  <2>3. CASE t # s
    <3>1. Clients(t) \cap Clients(s) = {}
      BY <2>3, ClientsOf
    <3>2. \A c \in Clients(t) : status'[c] = status[c]
      BY <1>2, <1>3, <1>5, <2>0, <3>1, NoClientAssumption DEF Clients
    <3>3. DroppedBy(t)' = DroppedBy(t) /\ ServedPlain(t)' = ServedPlain(t)
      BY <2>0, <3>2 DEF DroppedBy, ServedPlain
    <3> QED BY <2>1, <3>3
  <2> QED BY <2>2, <2>3
<1>9. Port(s, plain'[s], tls'[s], handshake'[s], status')
  BY <1>0, <1>1, <1>3, <1>4, <1>5, <1>6, ClientsOf DEF Port
<1>10. PortsInv'
  <2>1. p \in Clients(s) /\ \A c \in AllClients : c \notin Clients(s) => c # handshake[s]
    BY <1>2, <1>3, NoClientAssumption DEF Clients
  <2> QED BY <1>0, <1>1, <1>5, <1>6, <1>9, <2>1, OnePort
<1> QED BY <1>7, <1>8, <1>10 DEF IInv

LEMMA TakeTlsKeeps ==
    ASSUME IInv, NEW s \in Services, TakeTls(s)
    PROVE  IInv'
<1>0. Functions /\ PortsInv /\ OnePerPlain /\ Port(s, plain[s], tls[s], handshake[s], status)
  BY DEF IInv, PortsInv
<1>1. /\ handshake[s] = NoClient /\ tls[s] # <<>>
      /\ handshake' = [handshake EXCEPT ![s] = Head(tls[s])]
      /\ tls' = [tls EXCEPT ![s] = Tail(@)]
      /\ UNCHANGED <<plain, hello, status, ended, over>>
  BY Zenon DEF TakeTls
<1>2. tls[s] \in Seq(TlsClients[s]) /\ NoneQueuedTwice(tls[s])
  BY <1>0 DEF Port
<1>3. /\ Head(tls[s]) \in TlsClients[s] /\ Queued(tls[s], Head(tls[s]))
      /\ Tail(tls[s]) \in Seq(TlsClients[s]) /\ NoneQueuedTwice(Tail(tls[s]))
      /\ \A c : Queued(Tail(tls[s]), c) <=> Queued(tls[s], c) /\ c # Head(tls[s])
  BY <1>1, <1>2, Served
<1>4. /\ tls' \in [Services -> Seq(AllClients)] /\ tls'[s] = Tail(tls[s])
      /\ handshake' \in [Services -> AllClients \cup {NoClient}] /\ handshake'[s] = Head(tls[s])
      /\ \A t \in Services : t # s => tls'[t] = tls[t] /\ handshake'[t] = handshake[t]
  <2>1. Tail(tls[s]) \in Seq(AllClients) /\ Head(tls[s]) \in AllClients
    BY <1>0, <1>1, Served DEF Functions
  <2> QED BY <1>0, <1>1, <2>1 DEF Functions
<1>5. Functions' /\ OnePerPlain'
  <2>1. Functions'
    BY <1>0, <1>1, <1>4, Zenon DEF Functions
  <2>2. OnePerPlain'
    BY <1>0, <1>1, DropsKept, Zenon DEF Listening
  <2> QED BY <2>1, <2>2
<1>6. Port(s, plain'[s], tls'[s], handshake'[s], status')
  BY <1>0, <1>1, <1>3, <1>4, ClientsOf DEF Port
<1>7. PortsInv'
  BY <1>0, <1>1, <1>4, <1>6, OnePort
<1> QED BY <1>5, <1>7 DEF IInv

LEMMA AcceptTlsKeeps ==
    ASSUME IInv, NEW s \in Services, AcceptTls(s)
    PROVE  IInv'
<1>0. Functions /\ PortsInv /\ OnePerPlain /\ Port(s, plain[s], tls[s], handshake[s], status)
  BY DEF IInv, PortsInv
<1> DEFINE c == handshake[s]
<1>1. /\ c # NoClient /\ hello[c] = "good"
      /\ status' = [status EXCEPT ![c] = "served"]
      /\ handshake' = [handshake EXCEPT ![s] = NoClient]
      /\ UNCHANGED <<plain, tls, hello, ended, over>>
  BY Zenon DEF AcceptTls, Shaken
<1>2. c \in TlsClients[s] /\ c \in AllClients /\ ~Queued(tls[s], c)
  BY <1>0, <1>1, ClientsOf DEF Port
<1>3. /\ status' \in [AllClients -> {"new", "waiting", "served", "dropped"}]
      /\ status'[c] = "served" /\ \A d \in AllClients : d # c => status'[d] = status[d]
      /\ handshake' \in [Services -> AllClients \cup {NoClient}] /\ handshake'[s] = NoClient
      /\ \A t \in Services : t # s => handshake'[t] = handshake[t]
  BY <1>0, <1>1, <1>2 DEF Functions
<1>4. Functions'
  BY <1>0, <1>1, <1>3, Zenon DEF Functions
<1>5. OnePerPlain'
  <2>1. \A t \in Services : Listening(t)' <=> Listening(t)
    BY <1>1 DEF Listening
  <2>2. status[c] = "waiting"
    BY <1>0, <1>1, <1>2 DEF Port
  <2>3. \A t \in Services : c \notin PlainClients[t]
    BY <1>2, ClientsOf, ClientsAssumption DEF Clients
  <2>4. \A t \in Services : \A d \in Clients(t) :
            status'[d] = "dropped" <=> status[d] = "dropped"
    BY <1>3, <2>2, ClientsOf DEF Clients
  <2>5. \A t \in Services : \A d \in PlainClients[t] : status'[d] = status[d]
    BY <1>3, <2>3, ClientsOf
  <2> QED BY <1>0, <2>1, <2>4, <2>5, DropsKept
<1>6. Port(s, plain'[s], tls'[s], handshake'[s], status')
  BY <1>0, <1>1, <1>2, <1>3, ClientsOf DEF Port
<1>7. PortsInv'
  BY <1>0, <1>1, <1>2, <1>3, <1>6, OnePort DEF Clients
<1> QED BY <1>4, <1>5, <1>7 DEF IInv

\* The end of an accept loop leaves nobody at its ports.
LEMMA LoopEndsKeeps ==
    ASSUME IInv, NEW s \in Services, LoopEnds(s)
    PROVE  IInv'
<1>0. Functions /\ PortsInv /\ OnePerPlain
  BY DEF IInv
<1>1. /\ ended' = ended \cup {s}
      /\ plain' = [plain EXCEPT ![s] = <<>>] /\ tls' = [tls EXCEPT ![s] = <<>>]
      /\ handshake' = [handshake EXCEPT ![s] = NoClient]
      /\ status' = [c \in AllClients |->
            IF c \in Clients(s) /\ status[c] = "waiting" THEN "dropped" ELSE status[c]]
      /\ UNCHANGED <<hello, over>>
  BY Zenon DEF LoopEnds
<1>2. /\ status' \in [AllClients -> {"new", "waiting", "served", "dropped"}]
      /\ \A c \in AllClients : c \in Clients(s) => status'[c] # "waiting"
      /\ \A c \in AllClients : c \notin Clients(s) => status'[c] = status[c]
  BY <1>0, <1>1 DEF Functions
<1>3. \A S : <<>> \in Seq(S)
  BY EmptySeq
<1>4. /\ plain' \in [Services -> Seq(AllClients)] /\ plain'[s] = <<>>
      /\ tls' \in [Services -> Seq(AllClients)] /\ tls'[s] = <<>>
      /\ handshake' \in [Services -> AllClients \cup {NoClient}] /\ handshake'[s] = NoClient
      /\ \A t \in Services : t # s =>
            plain'[t] = plain[t] /\ tls'[t] = tls[t] /\ handshake'[t] = handshake[t]
  <2>1. <<>> \in Seq(AllClients)
    BY <1>3
  <2> QED BY <1>0, <1>1, <2>1 DEF Functions
<1>5. Functions'
  <2>1. ended' \subseteq Services
    BY <1>0, <1>1 DEF Functions
  <2> QED BY <1>0, <1>1, <1>2, <1>4, <2>1, Zenon DEF Functions
<1>6. Port(s, plain'[s], tls'[s], handshake'[s], status')
  <2>1. DOMAIN <<>> = {}
    OBVIOUS
  <2> QED BY <1>2, <1>3, <1>4, <2>1, ClientsOf DEF Port, Queued, NoneQueuedTwice, Clients
<1>7. PortsInv'
  BY <1>0, <1>2, <1>4, <1>6, OnePort
<1>8. OnePerPlain'
  <2> SUFFICES ASSUME NEW t \in Services, Listening(t)'
               PROVE  Listening(t) /\ \A c \in Clients(t) : status'[c] = status[c]
    BY <1>0, DropsKept DEF Clients
  <2>1. t # s /\ Listening(t)
    BY <1>1 DEF Listening
  <2>2. Clients(t) \cap Clients(s) = {} /\ Clients(t) \subseteq AllClients
    BY <2>1, ClientsOf DEF Clients
  <2> QED BY <1>2, <2>1, <2>2
<1> QED BY <1>5, <1>7, <1>8 DEF IInv

\* The end of the program leaves nobody anywhere.
LEMMA ReturnKeeps ==
    ASSUME IInv, Return
    PROVE  IInv'
<1>0. Functions /\ PortsInv /\ OnePerPlain
  BY DEF IInv
<1>1. /\ over' = TRUE
      /\ plain' = [s \in Services |-> <<>>] /\ tls' = [s \in Services |-> <<>>]
      /\ handshake' = [s \in Services |-> NoClient]
      /\ status' = [c \in AllClients |-> IF status[c] = "new" THEN "new" ELSE "dropped"]
      /\ UNCHANGED <<hello, ended>>
  BY Zenon DEF Return
<1>2. /\ status' \in [AllClients -> {"new", "waiting", "served", "dropped"}]
      /\ \A c \in AllClients : status'[c] # "waiting"
  BY <1>0, <1>1 DEF Functions
<1>3. \A S : <<>> \in Seq(S)
  BY EmptySeq
<1>4. /\ plain' \in [Services -> Seq(AllClients)] /\ tls' \in [Services -> Seq(AllClients)]
      /\ handshake' \in [Services -> AllClients \cup {NoClient}]
      /\ \A s \in Services : plain'[s] = <<>> /\ tls'[s] = <<>> /\ handshake'[s] = NoClient
  <2>1. <<>> \in Seq(AllClients)
    BY <1>3
  <2> QED BY <1>1, <2>1
<1>5. Functions'
  <2>1. over' \in BOOLEAN
    BY <1>1, Zenon
  <2> QED BY <1>0, <1>1, <1>2, <1>4, <2>1, Zenon DEF Functions
<1>6. PortsInv'
  <2>1. DOMAIN <<>> = {}
    OBVIOUS
  <2> QED BY <1>2, <1>3, <1>4, <2>1, ClientsOf DEF PortsInv, Port, Queued, NoneQueuedTwice
<1>7. OnePerPlain'
  BY <1>1, Zenon DEF OnePerPlain, Listening
<1> QED BY <1>5, <1>6, <1>7 DEF IInv

LEMMA StepIInv == IInv /\ [Next]_vars => IInv'
<1> SUFFICES ASSUME IInv, [Next]_vars PROVE IInv'
  OBVIOUS
<1>1. ASSUME NEW s \in Services, NEW c \in AllClients,
             ConnectPlain(s, c) \/ ConnectTls(s, c) \/ SayHello(s, c)
      PROVE  IInv'
  BY <1>1, ConnectKeeps, HelloKeeps
<1>2. ASSUME NEW s \in Services,
             \/ AcceptPlain(s) \/ TakeTls(s) \/ AcceptTls(s) \/ FailTls(s) \/ AcceptError(s)
      PROVE  IInv'
  BY <1>2, AcceptPlainKeeps, TakeTlsKeeps, AcceptTlsKeeps, LoopEndsKeeps DEF FailTls, AcceptError
<1>3. ASSUME MainReturns PROVE IInv'
  BY <1>3, ReturnKeeps DEF MainReturns
<1>4. CASE Over \/ Quiet \/ UNCHANGED vars
  <2>1. UNCHANGED <<plain, tls, handshake, hello, status, ended, over>>
    BY <1>4, Zenon DEF Over, Quiet, vars, ports
  <2>2. Functions' /\ PortsInv'
    BY <2>1, Zenon DEF IInv, Functions, PortsInv
  <2>3. OnePerPlain'
    BY <2>1, DropsKept, Zenon DEF IInv, Listening
  <2> QED BY <2>2, <2>3 DEF IInv
<1> QED BY <1>1, <1>2, <1>3, <1>4 DEF Next

LEMMA InitIInv == Init => IInv
<1> SUFFICES ASSUME Init PROVE IInv
  OBVIOUS
<1>1. \A S : <<>> \in Seq(S)
  BY EmptySeq
<1>2. Functions
  <2>1. \A s \in Services : <<>> \in Seq(AllClients)
    BY <1>1
  <2>2. ended \subseteq Services /\ over \in BOOLEAN
    BY Zenon DEF Init
  <2>3. /\ plain \in [Services -> Seq(AllClients)] /\ tls \in [Services -> Seq(AllClients)]
        /\ handshake \in [Services -> AllClients \cup {NoClient}]
    BY <2>1 DEF Init
  <2>4. /\ hello \in [AllClients -> {"none", "good", "bad"}]
        /\ status \in [AllClients -> {"new", "waiting", "served", "dropped"}]
    BY DEF Init
  <2> QED BY <2>2, <2>3, <2>4, Zenon DEF Functions
<1>3. ASSUME NEW s \in Services PROVE Port(s, plain[s], tls[s], handshake[s], status)
  <2>1. /\ plain[s] = <<>> /\ tls[s] = <<>> /\ handshake[s] = NoClient
        /\ \A c \in AllClients : status[c] = "new"
    BY DEF Init
  <2>2. DOMAIN <<>> = {}
    OBVIOUS
  <2> QED BY <1>1, <2>1, <2>2, ClientsOf DEF Port, Queued, NoneQueuedTwice
<1>4. OnePerPlain
  <2> SUFFICES ASSUME NEW s \in Services
               PROVE  DroppedBy(s) = {} /\ ExistsInjection({}, ServedPlain(s))
    BY DEF OnePerPlain
  <2>1. DroppedBy(s) = {}
    <3>1. \A c \in AllClients : status[c] = "new"
      BY DEF Init
    <3> QED BY <3>1, ClientsOf DEF DroppedBy, Clients
  <2>2. [d \in {} |-> d] \in Injection({}, ServedPlain(s))
    BY DEF Injection, IsInjective
  <2> QED BY <2>1, <2>2 DEF ExistsInjection
<1> QED BY <1>2, <1>3, <1>4 DEF IInv, PortsInv

-----------------------------------------------------------------------------
(* What follows from it *)

\* What waits at a port, or is in its handshake, is a client of that port.
THEOREM ListenerTypes == Spec => []TypeOK
<1>1. IInv => TypeOK
  BY Zenon DEF IInv, Functions, PortsInv, Port, TypeOK
<1> QED BY <1>1, InitIInv, StepIInv, PTL DEF Spec

LEMMA OnePlace == IInv => WaitsSomewhere
<1> SUFFICES ASSUME IInv, NEW s \in Services, NEW c \in Clients(s)
             PROVE  IF status[c] = "waiting" THEN \E p \in Places(s, c) : Places(s, c) = {p}
                    ELSE Places(s, c) = {}
  BY DEF WaitsSomewhere
<1> DEFINE inPlain == {<<"plain", i>> : i \in {i \in DOMAIN plain[s] : plain[s][i] = c}}
           inTls   == {<<"tls", i>> : i \in {i \in DOMAIN tls[s] : tls[s][i] = c}}
           inHand  == IF handshake[s] = c THEN {<<"handshake", 1>>} ELSE {}
<1>0. Port(s, plain[s], tls[s], handshake[s], status) /\ Places(s, c) = inPlain \cup inTls \cup inHand
  BY DEF IInv, PortsInv, Places
<1>1. /\ ~Queued(plain[s], c) => inPlain = {}
      /\ ~Queued(tls[s], c) => inTls = {}
  BY DEF Queued
<1>2. ASSUME Queued(plain[s], c) PROVE \E p : inPlain = {p}
  <2>1. PICK i \in DOMAIN plain[s] : plain[s][i] = c
    BY <1>2 DEF Queued
  <2>2. {j \in DOMAIN plain[s] : plain[s][j] = c} = {i}
    BY <1>0, <2>1 DEF Port, NoneQueuedTwice
  <2>3. inPlain = {<<"plain", i>>}
    BY <2>2
  <2> QED BY <2>3
<1>3. ASSUME Queued(tls[s], c) PROVE \E p : inTls = {p}
  <2>1. PICK i \in DOMAIN tls[s] : tls[s][i] = c
    BY <1>3 DEF Queued
  <2>2. {j \in DOMAIN tls[s] : tls[s][j] = c} = {i}
    BY <1>0, <2>1 DEF Port, NoneQueuedTwice
  <2>3. inTls = {<<"tls", i>>}
    BY <2>2
  <2> QED BY <2>3
<1>4. /\ handshake[s] = c => inHand = {<<"handshake", 1>>}
      /\ handshake[s] # c => inHand = {}
  OBVIOUS
<1>5. CASE c \in PlainClients[s]
  <2>1. ~Queued(tls[s], c) /\ handshake[s] # c /\ (status[c] = "waiting" <=> Queued(plain[s], c))
    <3>1. tls[s] \in Seq(TlsClients[s]) /\ handshake[s] \in TlsClients[s] \cup {NoClient}
      BY <1>0 DEF Port
    <3>2. c \notin TlsClients[s] /\ c # NoClient
      BY <1>5, ClientsOf
    <3>3. \A i \in DOMAIN tls[s] : tls[s][i] \in TlsClients[s]
      BY <3>1, ElementOfSeq, LenProperties
    <3> QED BY <1>0, <1>5, <3>1, <3>2, <3>3 DEF Port, Queued
  <2>2. Places(s, c) = inPlain
    BY <1>0, <1>1, <1>4, <2>1
  <2> HIDE DEF inPlain, inTls, inHand
  <2> QED BY <1>1, <1>2, <2>1, <2>2
<1>6. CASE c \in TlsClients[s]
  <2>1. /\ ~Queued(plain[s], c) /\ (status[c] = "waiting" <=> Queued(tls[s], c) \/ handshake[s] = c)
        /\ ~(Queued(tls[s], c) /\ handshake[s] = c)
    <3>1. plain[s] \in Seq(PlainClients[s])
      BY <1>0 DEF Port
    <3>2. c \notin PlainClients[s]
      BY <1>6, ClientsOf
    <3>3. \A i \in DOMAIN plain[s] : plain[s][i] \in PlainClients[s]
      BY <3>1, ElementOfSeq, LenProperties
    <3> QED BY <1>0, <1>6, <3>2, <3>3 DEF Port, Queued
  <2>2. Places(s, c) = inTls \cup inHand
    BY <1>0, <1>1, <2>1
  <2> HIDE DEF inPlain, inTls, inHand
  <2> QED BY <1>1, <1>3, <1>4, <2>1, <2>2
<1> QED BY <1>5, <1>6 DEF Clients

\* Every client that waits is found in one place: at its socket, or in the
\* handshake of its own service.
THEOREM EveryClientInOnePlace == Spec => []WaitsSomewhere
BY OnePlace, InitIInv, StepIInv, PTL DEF Spec

\* Whatever has happened, a service that accepts has dropped nobody but TLS
\* clients, and for each of them it took another plain connection.
THEOREM DropsAreAccountedFor == Spec => []OnePerPlain
<1>1. IInv => OnePerPlain
  BY DEF IInv
<1> QED BY <1>1, InitIInv, StepIInv, PTL DEF Spec
=============================================================================
