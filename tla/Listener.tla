------------------------------ MODULE Listener ------------------------------
(***************************************************************************)
(* Accepting connections: MultiListener of src/listener.rs, the accept     *)
(* loops imap() and smtp() of src/main.rs, and main(), which ends when one *)
(* of the two has, and with it every task.                                 *)
(*                                                                         *)
(* MultiListener::accept races the plain port against the TLS port, where  *)
(* a connection is taken from the socket and then the handshake awaited;   *)
(* the loser of the race is dropped, with what it had taken.               *)
(***************************************************************************)
EXTENDS Naturals, Sequences, Functions

CONSTANTS
    Services,       \* the accept loops: imap and smtp
    PlainClients,   \* per service: clients that will connect in plaintext
    TlsClients      \* per service: clients that will connect to its TLS port

Clients(s) == PlainClients[s] \cup TlsClients[s]

ASSUME ClientsAssumption ==
    /\ DOMAIN PlainClients = Services /\ DOMAIN TlsClients = Services
    /\ \A s \in Services : PlainClients[s] \cap TlsClients[s] = {}
    /\ \A s, t \in Services : s # t => Clients(s) \cap Clients(t) = {}

AllClients == UNION {Clients(s) : s \in Services}

NoClient == "none"

ASSUME NoClientAssumption == NoClient \notin AllClients

VARIABLES
    plain, tls,     \* per service: the connections waiting at each socket
    handshake,      \* per service: the client accept_tls is busy with
    hello,          \* per client: its part of the handshake
    status,         \* per client: what became of it
    ended,          \* the services whose accept loop has returned
    over            \* main has returned

ports == <<plain, tls, handshake>>
vars  == <<ports, hello, status, ended, over>>

TypeOK ==
    /\ \A s \in Services :
          /\ plain[s] \in Seq(PlainClients[s]) /\ tls[s] \in Seq(TlsClients[s])
          /\ handshake[s] \in TlsClients[s] \cup {NoClient}
    /\ hello \in [AllClients -> {"none", "good", "bad"}]
    /\ status \in [AllClients -> {"new", "waiting", "served", "dropped"}]
    /\ ended \subseteq Services /\ over \in BOOLEAN

Init ==
    /\ plain = [s \in Services |-> <<>>] /\ tls = [s \in Services |-> <<>>]
    /\ handshake = [s \in Services |-> NoClient]
    /\ hello = [c \in AllClients |-> "none"]
    /\ status = [c \in AllClients |-> "new"]
    /\ ended = {} /\ over = FALSE

Listening(s) == s \notin ended /\ ~over

\* The clients.  One that connects to the TLS port may complete its part of
\* the handshake, spoil it (by going away, for one), or leave it at that.
ConnectPlain(s, c) ==
    /\ Listening(s) /\ c \in PlainClients[s] /\ status[c] = "new"
    /\ plain' = [plain EXCEPT ![s] = Append(@, c)]
    /\ status' = [status EXCEPT ![c] = "waiting"]
    /\ UNCHANGED <<tls, handshake, hello, ended, over>>

ConnectTls(s, c) ==
    /\ Listening(s) /\ c \in TlsClients[s] /\ status[c] = "new"
    /\ tls' = [tls EXCEPT ![s] = Append(@, c)]
    /\ status' = [status EXCEPT ![c] = "waiting"]
    /\ UNCHANGED <<plain, handshake, hello, ended, over>>

SayHello(s, c) ==
    /\ Listening(s) /\ c \in TlsClients[s] /\ status[c] = "waiting" /\ hello[c] = "none"
    /\ \E h \in {"good", "bad"} : hello' = [hello EXCEPT ![c] = h]
    /\ UNCHANGED <<plain, tls, handshake, status, ended, over>>

\* Mutants of AcceptPlain: no plain connection is taken during a handshake;
\* the handshake is not forgotten.
AcceptPlainAfterTls(s) ==
    /\ Listening(s) /\ plain[s] # <<>> /\ handshake[s] = NoClient
    /\ plain' = [plain EXCEPT ![s] = Tail(@)]
    /\ status' = [status EXCEPT ![Head(plain[s])] = "served"]
    /\ UNCHANGED <<tls, handshake, hello, ended, over>>

AcceptPlainOnly(s) ==
    /\ Listening(s) /\ plain[s] # <<>>
    /\ plain' = [plain EXCEPT ![s] = Tail(@)]
    /\ status' = [c \in AllClients |->
          IF c = Head(plain[s]) THEN "served"
          ELSE IF c = handshake[s] THEN "dropped"
          ELSE status[c]]
    /\ UNCHANGED <<tls, handshake, hello, ended, over>>

\* The plain branch of accept wins: the future of accept_tls is dropped and
\* the client it was busy with is disconnected.
AcceptPlain(s) ==
    /\ Listening(s) /\ plain[s] # <<>>
    /\ plain' = [plain EXCEPT ![s] = Tail(@)]
    /\ status' = [c \in AllClients |->
          IF c = Head(plain[s]) THEN "served"
          ELSE IF c = handshake[s] THEN "dropped"
          ELSE status[c]]
    /\ handshake' = [handshake EXCEPT ![s] = NoClient]
    /\ UNCHANGED <<tls, hello, ended, over>>

\* Mutant of TakeTls: it restarts with the next client.
TakeTlsAgain(s) ==
    /\ Listening(s) /\ tls[s] # <<>>
    /\ handshake' = [handshake EXCEPT ![s] = Head(tls[s])]
    /\ tls' = [tls EXCEPT ![s] = Tail(@)]
    /\ status' = [c \in AllClients |-> IF c = handshake[s] THEN "dropped" ELSE status[c]]
    /\ UNCHANGED <<plain, hello, ended, over>>

\* accept_tls: the first await, and the second when it ends well or badly.
TakeTls(s) ==
    /\ Listening(s) /\ handshake[s] = NoClient /\ tls[s] # <<>>
    /\ handshake' = [handshake EXCEPT ![s] = Head(tls[s])]
    /\ tls' = [tls EXCEPT ![s] = Tail(@)]
    /\ UNCHANGED <<plain, hello, status, ended, over>>

Shaken(s, h) == Listening(s) /\ handshake[s] # NoClient /\ hello[handshake[s]] = h

AcceptTls(s) ==
    /\ Shaken(s, "good")
    /\ status' = [status EXCEPT ![handshake[s]] = "served"]
    /\ handshake' = [handshake EXCEPT ![s] = NoClient]
    /\ UNCHANGED <<plain, tls, hello, ended, over>>

\* Mutant of FailTls: the handshake is tried again.
FailTlsRetried(s) == Shaken(s, "bad") /\ UNCHANGED vars

\* An error goes through the `?' of accept and of the accept loop: the
\* listener is dropped, with whoever waits at its sockets.
LoopEnds(s) ==
    /\ ended' = ended \cup {s}
    /\ plain' = [plain EXCEPT ![s] = <<>>] /\ tls' = [tls EXCEPT ![s] = <<>>]
    /\ handshake' = [handshake EXCEPT ![s] = NoClient]
    /\ status' = [c \in AllClients |->
          IF c \in Clients(s) /\ status[c] = "waiting" THEN "dropped" ELSE status[c]]
    /\ UNCHANGED <<hello, over>>

FailTls(s) == Shaken(s, "bad") /\ LoopEnds(s)

\* The operating system refuses to accept: the same way out.
AcceptError(s) == Listening(s) /\ LoopEnds(s)

Return ==
    /\ over' = TRUE
    /\ plain' = [s \in Services |-> <<>>] /\ tls' = [s \in Services |-> <<>>]
    /\ handshake' = [s \in Services |-> NoClient]
    /\ status' = [c \in AllClients |-> IF status[c] = "new" THEN "new" ELSE "dropped"]
    /\ UNCHANGED <<hello, ended>>


\* select! in main: the first of the two ends it, and the runtime drops every
\* task, the sessions of both services and the other accept loop included.
MainReturns == ~over /\ ended # {} /\ Return

Over == over /\ UNCHANGED vars

\* Nothing connects any more.
Quiet ==
    /\ \A c \in AllClients : status[c] # "new"
    /\ UNCHANGED vars

Next ==
    \/ \E s \in Services :
          \/ \E c \in AllClients : ConnectPlain(s, c) \/ ConnectTls(s, c) \/ SayHello(s, c)
          \/ AcceptPlain(s) \/ TakeTls(s) \/ AcceptTls(s) \/ FailTls(s) \/ AcceptError(s)
    \/ MainReturns
    \/ Over
    \/ Quiet

(***************************************************************************)
(* select! polls its branches in random order and the accept loop comes    *)
(* back to it at once: what stays possible on either port is done.         *)
(***************************************************************************)
Fairness ==
    /\ WF_vars(MainReturns)
    /\ \A s \in Services :
          /\ WF_vars(AcceptPlain(s))
          /\ WF_vars(TakeTls(s)) /\ WF_vars(AcceptTls(s)) /\ WF_vars(FailTls(s))

Spec == Init /\ [][Next]_vars /\ Fairness

-----------------------------------------------------------------------------
(* Properties *)

\* Nobody waits in two places, or nowhere: every client not yet served or
\* dropped is at one socket, once, or in the handshake of its own service.
Places(s, c) ==
    {<<"plain", i>> : i \in {i \in DOMAIN plain[s] : plain[s][i] = c}} \cup
    {<<"tls", i>> : i \in {i \in DOMAIN tls[s] : tls[s][i] = c}} \cup
    (IF handshake[s] = c THEN {<<"handshake", 1>>} ELSE {})

WaitsSomewhere ==
    \A s \in Services : \A c \in Clients(s) :
        IF status[c] = "waiting" THEN \E p \in Places(s, c) : Places(s, c) = {p}
        ELSE Places(s, c) = {}

\* A service that accepts has dropped nobody but TLS clients, no more of them
\* than it serves, or served, plain ones: a plain connection costs at most one
\* client its handshake, and nothing else costs any.
DroppedBy(s)   == {c \in Clients(s) : status[c] = "dropped"}
ServedPlain(s) == {c \in PlainClients[s] : status[c] = "served"}

OnePerPlain ==
    \A s \in Services : Listening(s) =>
        /\ DroppedBy(s) \subseteq TlsClients[s]
        /\ ExistsInjection(DroppedBy(s), ServedPlain(s))

\* No handshake, however slow, keeps a plain connection waiting.
PlainServed ==
    \A s \in Services : \A c \in PlainClients[s] :
        status[c] = "waiting" ~> status[c] = "served" \/ ~Listening(s)

\* A TLS client that has said its hello waits for ever only if somebody who
\* never says one is in the handshake from some time on, whoever else comes
\* and goes ahead of it.
Stalled(s) == handshake[s] # NoClient /\ hello[handshake[s]] = "none"

HelloAnswered ==
    \A s \in Services : \A c \in TlsClients[s] :
        (status[c] = "waiting" /\ hello[c] # "none")
            ~> (status[c] # "waiting" \/ []Stalled(s))

=============================================================================
