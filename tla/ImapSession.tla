---------------------------- MODULE ImapSession ----------------------------
(***************************************************************************)
(* One connection of the IMAP server: the session of crates/imap           *)
(* (server/session.rs, server.rs, authenticate.rs) over the buffered,      *)
(* upgradable connection of crates/line, with the queue of operations of   *)
(* ImapQueue and a client that sends what it likes when it likes.          *)
(*                                                                         *)
(* Session::next_op is an async function: pc says where it is suspended.   *)
(* What it does between two waits is one action; the waits are reading a   *)
(* line, writing the BAD reply to a line that does not parse, waiting for  *)
(* the queue, reading a SASL response and the TLS handshake.               *)
(*                                                                         *)
(* A command of the client is one line, sent whole or cut in two by the    *)
(* network; its place in script is its id.  Its text is abstracted to its  *)
(* kind and its tag.                                                       *)
(***************************************************************************)
EXTENDS Naturals, Sequences, Functions

CONSTANTS
    Kinds,          \* the kinds of lines the client sends
    Tags,           \* the tags it gives to its commands
    MaxCmds,        \* bound: how many lines it sends
    Capacity,       \* places of the queue's channel
    TlsConfigured,  \* Context.tls is Some
    AuthResults,    \* what the validator may say of credentials that decode
    OpResults       \* what the operations may return

AllKinds == {"noop", "enable", "logout", "starttls", "login",
             "authenticate",     \* AUTHENTICATE without an initial response
             "authenticate_ir",  \* AUTHENTICATE with one
             "sasl",             \* a response to a challenge, not a command
             "select", "examine", "list", "fetch",
             "todo",             \* a command whose handler is todo!()
             "bad",              \* a line that does not parse
             "utf8"}             \* a line that is not UTF-8

ASSUME KindsAssumption == Kinds \subseteq AllKinds
ASSUME BoundAssumption == MaxCmds \in Nat /\ Capacity \in Nat \ {0}
ASSUME ConfigAssumption == TlsConfigured \in BOOLEAN
ASSUME ResultsAssumption == AuthResults \cup OpResults \subseteq {"ok", "no"}

Ids == 1..MaxCmds

\* A parsed command, and the absence of one.
Commands == [id : Ids, kind : AllKinds, tag : Tags]
Nothing == [id |-> 0, kind |-> "nothing", tag |-> "nothing"]

Operations == [id : Ids, kind : {"examine", "list", "fetch"}, tag : Tags]

\* A piece of a line as the connection delivers it, in plaintext or not.
Pieces == [id : Ids, part : {"line", "head", "tail"}, via : {"plain", "tls"}]

VARIABLES
    script,     \* lines the client has sent: [kind, tag]
    cut,        \* the second part of the last line is still to be sent
    closed,     \* the client has closed its side
    wire,       \* sent and not yet read from the socket
    stream,     \* MaybeTls::inner
    rbuf,       \* buffer of the BufReader around the stream
    line,       \* pieces in the local buffer of read_cmd or authenticate
    greeted,
    state,
    pc,         \* where next_op is suspended
    held,       \* the command next_cmd has parsed and next_op handles
    commands, chan, open,   \* the queue
    outcome,    \* per line: how the server answered it
    task        \* "running", or how the session ended

client == <<script, cut, closed>>
conn   == <<wire, stream, rbuf, line>>
queue  == <<commands, chan, open>>
vars   == <<client, conn, queue, greeted, state, pc, held, outcome, task>>

Queue == INSTANCE ImapQueue WITH Ops <- Operations

Conn == INSTANCE Connection

Outcomes == {"none", "ok", "no", "bad",
             "syntax",    \* the BAD reply of read_cmd
             "eaten",     \* taken as the response to a SASL challenge
             "ignored"}   \* consumed without any reply

Panics == {"todo",          \* todo!()
           "unreachable",   \* unreachable!()
           "buffer"}        \* assert!(.., "buffer must be empty")

TypeOK ==
    /\ script \in Seq([kind : Kinds, tag : Tags])
    /\ Len(script) <= MaxCmds
    /\ cut \in BOOLEAN /\ closed \in BOOLEAN /\ greeted \in BOOLEAN
    /\ wire \in Seq(Pieces) /\ rbuf \in Seq(Pieces) /\ line \in Seq(Pieces)
    /\ stream \in {"plain", "tls", "empty"}
    /\ state \in {"notauth", "authenticated", "selected", "logout"}
    /\ pc \in {"start", "top", "read", "complain", "hold", "sasl", "upgrade"}
    /\ held \in Commands \cup {Nothing}
    /\ Queue!TypeOK
    /\ outcome \in [Ids -> Outcomes]
    /\ task \in {"running", "done", "io"} \cup Panics

Init ==
    /\ script = <<>> /\ cut = FALSE /\ closed = FALSE
    /\ Conn!Init /\ line = <<>>
    /\ stream = "tls" => TlsConfigured
    /\ greeted = FALSE
    /\ state = "notauth"
    /\ pc = "start"
    /\ held = Nothing
    /\ Queue!Init
    /\ outcome = [i \in Ids |-> "none"]
    /\ task = "running"

-----------------------------------------------------------------------------
(***************************************************************************)
(* The client.  It may pipeline; it may leave a line cut in two for as     *)
(* long as it likes, or for ever; it may go away.  It speaks TLS once the  *)
(* handshake is complete.  What it does after the session is over changes  *)
(* nothing and is left out.                                                *)
(***************************************************************************)
Put(id, part) == Conn!Arrive([id |-> id, part |-> part, via |-> Conn!SentVia])

BeginLine(part) ==
    /\ \E kind \in Kinds, tag \in Tags :
          script' = Append(script, [kind |-> kind, tag |-> tag])
    /\ Put(Len(script) + 1, part)

CanSend == task = "running" /\ ~closed /\ ~cut /\ Len(script) < MaxCmds

ServerUnchanged ==
    UNCHANGED <<line, queue, greeted, state, pc, held, outcome, task>>

ClientSends == CanSend /\ BeginLine("line") /\ UNCHANGED <<cut, closed>> /\ ServerUnchanged

ClientSendsHead == CanSend /\ BeginLine("head") /\ cut' = TRUE /\ UNCHANGED closed /\ ServerUnchanged

ClientSendsTail ==
    /\ task = "running" /\ ~closed /\ cut
    /\ Put(Len(script), "tail")
    /\ cut' = FALSE
    /\ UNCHANGED <<script, closed>> /\ ServerUnchanged

ClientCloses ==
    /\ task = "running" /\ ~closed
    /\ closed' = TRUE
    /\ UNCHANGED <<script, cut, wire, rbuf, stream>> /\ ServerUnchanged

ClientStep == ClientSends \/ ClientSendsHead \/ ClientSendsTail \/ ClientCloses

-----------------------------------------------------------------------------
(* The session: entering next_op, and the payloads of the queue *)

Running(at) == task = "running" /\ pc = at

Record(id, res) == outcome' = [outcome EXCEPT ![id] = res]

\* next_op is called: it greets the client the first time.
NextOp ==
    /\ Running("start")
    /\ greeted' = TRUE
    /\ pc' = "top"
    /\ UNCHANGED <<client, conn, queue, state, held, outcome, task>>

\* consume_ready.  SELECT and EXAMINE have the same response, which expects
\* the session to be authenticated with nothing selected; the response of
\* FETCH cannot be written (ops.rs, into_tagged_response is todo!()).
ConsumeReady(op, res) ==
    \/ /\ res = "no"
       /\ Record(op.id, "no")
       /\ UNCHANGED <<state, task>>
    \/ /\ res = "ok" /\ op.kind = "examine" /\ state = "authenticated"
       /\ state' = "selected"
       /\ Record(op.id, "ok")
       /\ UNCHANGED task
    \/ /\ res = "ok" /\ op.kind = "examine" /\ state # "authenticated"
       /\ task' = "unreachable"
       /\ UNCHANGED <<state, outcome>>
    \/ /\ res = "ok" /\ op.kind = "list"
       /\ Record(op.id, "ok")
       /\ UNCHANGED <<state, task>>
    \/ /\ res = "ok" /\ op.kind = "fetch"
       /\ task' = "todo"
       /\ UNCHANGED <<state, outcome>>

TakePayload ==
    /\ Queue!Recv
    /\ \E res \in OpResults : ConsumeReady(Head(chan), res)
    /\ UNCHANGED <<client, conn, greeted, pc, held>>

\* next_cmd before it reads: every payload already in the channel.
DrainReady == Running("top") /\ state # "logout" /\ TakePayload

BeginRead ==
    /\ Running("top") /\ state # "logout" /\ chan = <<>>
    /\ pc' = "read"
    /\ UNCHANGED <<client, conn, queue, greeted, state, held, outcome, task>>

\* next_cmd after it has read a command: wait for the ones in progress.
WaitPayload == Running("hold") /\ Queue!MustWaitBefore /\ TakePayload

Finish ==
    /\ Running("top") /\ state = "logout"
    /\ task' = "done"
    /\ UNCHANGED <<client, conn, queue, greeted, state, pc, held, outcome>>

-----------------------------------------------------------------------------
(***************************************************************************)
(* Reading a line: read_line over the BufReader.  The buffer is filled     *)
(* with some of what has arrived, and only when it is empty; read_until    *)
(* moves its contents to the local buffer up to the end of the line; at    *)
(* the end of the stream what was read of a line counts as the line.       *)
(***************************************************************************)
Reading == task = "running" /\ pc \in {"read", "sasl"}

Fill ==
    /\ Reading
    /\ Conn!Fill
    /\ UNCHANGED <<client, line, queue, greeted, state, pc, held, outcome, task>>

TakeHead ==
    /\ Reading /\ rbuf # <<>> /\ Head(rbuf).part = "head"
    /\ line' = Append(line, Head(rbuf))
    /\ Conn!Take
    /\ UNCHANGED <<client, queue, greeted, state, pc, held, outcome, task>>

AtEof == closed /\ wire = <<>> /\ rbuf = <<>>

\* Mutant of LineReady: a line that came in two parts is never complete.
LineReadyWhole == IF rbuf = <<>> THEN AtEof /\ line # <<>> ELSE Head(rbuf).part = "line"

LineReady == IF rbuf = <<>> THEN AtEof /\ line # <<>> ELSE Head(rbuf).part # "head"

ThisLine == IF rbuf = <<>> THEN line ELSE Append(line, Head(rbuf))

LineId == Head(ThisLine).id

TakeLine == line' = <<>> /\ Conn!Take

\* Mutant of Eof: the end of the stream is read again and again.
EofRetried == Reading /\ AtEof /\ line = <<>> /\ UNCHANGED vars

Eof ==
    /\ Reading /\ AtEof /\ line = <<>>
    /\ task' = "io"
    /\ UNCHANGED <<client, conn, queue, greeted, state, pc, held, outcome>>

\* Parsing gives back what the client meant when the line is whole; half of
\* a line may read as anything, under any tag.
IsWhole == Head(ThisLine).part # "tail" /\ ThisLine[Len(ThisLine)].part # "head"

KindsRead == IF IsWhole THEN {script[LineId].kind} ELSE Kinds
TagsRead  == IF IsWhole THEN {script[LineId].tag} ELSE Tags

IsSyntaxError(kind) == kind \in {"bad", "sasl"}

\* read_cmd has a line: a command, a line to complain about, or bytes that
\* are not UTF-8, which it drops without a word.
ParseLine ==
    /\ Running("read") /\ LineReady /\ TakeLine
    /\ \E kind \in KindsRead, tag \in TagsRead :
          \/ /\ kind = "utf8"
             /\ Record(LineId, "ignored")
             /\ UNCHANGED <<pc, held>>
          \/ /\ kind # "utf8"
             /\ held' = [id |-> LineId, kind |-> kind, tag |-> tag]
             /\ pc' = IF IsSyntaxError(kind) THEN "complain" ELSE "hold"
             /\ UNCHANGED outcome
    /\ UNCHANGED <<client, queue, greeted, state, task>>

Complain ==
    /\ Running("complain")
    /\ Record(held.id, "syntax")
    /\ held' = Nothing
    /\ pc' = "read"
    /\ UNCHANGED <<client, conn, queue, greeted, state, task>>

-----------------------------------------------------------------------------
(***************************************************************************)
(* The commands of next_op.  next_cmd returns the command once no other is *)
(* in progress, so a handler runs with an empty queue.                     *)
(***************************************************************************)
Handling(kinds) == Running("hold") /\ ~Queue!MustWaitBefore /\ held.kind \in kinds

BackToTop == pc' = "top" /\ held' = Nothing

Answer(res) == Record(held.id, res) /\ BackToTop

HandleNoop == \* and CAPABILITY
    /\ Handling({"noop"})
    /\ Answer("ok")
    /\ UNCHANGED <<client, conn, queue, greeted, state, task>>

HandleEnable ==
    /\ Handling({"enable"})
    /\ Answer("bad")
    /\ UNCHANGED <<client, conn, queue, greeted, state, task>>

HandleLogout ==
    /\ Handling({"logout"})
    /\ state' = "logout"
    /\ Answer("ok")
    /\ UNCHANGED <<client, conn, queue, greeted, task>>

HandleTodo ==
    /\ Handling({"todo"})
    /\ task' = "todo"
    /\ UNCHANGED <<client, conn, queue, greeted, state, pc, held, outcome>>

\* Connection::upgrade, which asserts that the buffer is empty.
StartUpgrade ==
    IF Conn!BufferEmpty
    THEN pc' = "upgrade" /\ Conn!StartUpgrade /\ UNCHANGED task
    ELSE task' = "buffer" /\ UNCHANGED <<pc, wire, rbuf, stream>>

\* The reply that announces the negotiation is a BAD.
HandleStarttls ==
    /\ Handling({"starttls"})
    /\ \/ /\ stream = "tls" \/ ~TlsConfigured
          /\ Answer("bad")
          /\ UNCHANGED <<wire, rbuf, stream, task>>
       \/ /\ stream = "plain" /\ TlsConfigured
          /\ Record(held.id, "bad")
          /\ StartUpgrade
          /\ UNCHANGED held
    /\ UNCHANGED <<client, line, queue, greeted, state>>

\* auth_success, or the reply to what went wrong.
Authenticated(res) == state' = IF res = "ok" THEN "authenticated" ELSE state

\* Mutant of NotAuthenticated: nobody looks.
AnyState == TRUE

NotAuthenticated == state = "notauth"

\* LOGIN, and AUTHENTICATE with an initial response (which may not decode).
HandleLogin ==
    /\ Handling({"login", "authenticate_ir"})
    /\ \/ /\ ~NotAuthenticated
          /\ Answer("bad")
          /\ UNCHANGED state
       \/ /\ NotAuthenticated
          /\ \E res \in AuthResults \cup
                (IF held.kind = "login" THEN {} ELSE {"bad"}) :
                Answer(res) /\ Authenticated(res)
    /\ UNCHANGED <<client, conn, queue, greeted, task>>

\* AUTHENTICATE without one: the challenge is sent and a line is awaited.
HandleAuthenticate ==
    /\ Handling({"authenticate"})
    /\ IF NotAuthenticated
       THEN pc' = "sasl" /\ UNCHANGED <<held, outcome>>
       ELSE Answer("bad")
    /\ UNCHANGED <<client, conn, queue, greeted, state, task>>

\* Only base64 decodes; any other line fails the command.
SaslResults(kind) == IF kind = "sasl" THEN AuthResults ELSE {"bad"}

SaslResponse ==
    /\ Running("sasl") /\ LineReady /\ TakeLine
    /\ \E kind \in KindsRead : \E res \in SaslResults(kind) :
          /\ outcome' = [outcome EXCEPT ![LineId] = "eaten", ![held.id] = res]
          /\ Authenticated(res)
    /\ BackToTop
    /\ UNCHANGED <<client, queue, greeted, task>>

\* SELECT never becomes an operation.  (In Logout the code is unreachable!():
\* next_op returns before it reads a command.)
HandleSelect ==
    /\ Handling({"select"})
    /\ \/ state = "notauth" /\ Answer("bad") /\ UNCHANGED task
       \/ state = "authenticated" /\ task' = "todo" /\ UNCHANGED <<pc, held, outcome>>
       \/ state = "selected" /\ Answer("ignored") /\ UNCHANGED task
    /\ UNCHANGED <<client, conn, queue, greeted, state>>

\* into_operation: next_op returns the operation, and is called again.
HandOut ==
    /\ Queue!Insert(held)
    /\ pc' = "start"
    /\ held' = Nothing
    /\ UNCHANGED outcome

HandleOperation ==
    /\ Handling({"examine", "list"})
    /\ HandOut
    /\ UNCHANGED <<client, conn, greeted, state, task>>

HandleFetch ==
    /\ Handling({"fetch"})
    /\ \/ state = "selected" /\ HandOut
       \/ state # "selected" /\ Answer("bad") /\ UNCHANGED queue
    /\ UNCHANGED <<client, conn, greeted, state, task>>

-----------------------------------------------------------------------------
(* What the network decides: the handshake, and failing reads and writes *)

HandshakeOk ==
    /\ Running("upgrade") /\ ~closed
    /\ Conn!UpgradeOk
    /\ BackToTop
    /\ UNCHANGED <<client, line, queue, greeted, state, outcome, task>>

\* It may fail for many reasons; the stream is plain again, the session over.
HandshakeFails ==
    /\ Running("upgrade")
    /\ Conn!UpgradeFails
    /\ task' = "io"
    /\ UNCHANGED <<client, line, queue, greeted, state, pc, held, outcome>>

\* With anything but a handshake to read it does fail.
HandshakeMustFail == (closed \/ wire # <<>>) /\ HandshakeFails

\* Once the client is gone the next read or write may fail.
IoError ==
    /\ task = "running" /\ closed
    /\ ~(pc = "hold" /\ Queue!MustWaitBefore) /\ pc # "upgrade"
    /\ task' = "io"
    /\ UNCHANGED <<client, conn, queue, greeted, state, pc, held, outcome>>

Handlers ==
    \/ HandleNoop \/ HandleEnable \/ HandleLogout \/ HandleTodo
    \/ HandleStarttls \/ HandleLogin \/ HandleAuthenticate
    \/ HandleSelect \/ HandleOperation \/ HandleFetch

\* What next_op does of its own accord whenever it is polled.
SessionStep ==
    \/ NextOp \/ DrainReady \/ BeginRead \/ WaitPayload
    \/ Fill \/ TakeHead \/ Eof \/ ParseLine \/ Complain \/ SaslResponse
    \/ Handlers

NetworkStep == HandshakeOk \/ HandshakeFails \/ IoError

\* The session is over; nothing happens any more.
Over == task # "running" /\ UNCHANGED vars

-----------------------------------------------------------------------------
(***************************************************************************)
(* The library on its own: its user calls next_op again when it returns    *)
(* and never drops it, and executes the operations elsewhere.              *)
(***************************************************************************)
OpCompletes(op) ==
    /\ task = "running"
    /\ Queue!Send(op)
    /\ UNCHANGED <<client, conn, greeted, state, pc, held, outcome, task>>

Next ==
    \/ ClientStep
    \/ SessionStep
    \/ Finish
    \/ NetworkStep
    \/ \E op \in Operations : OpCompletes(op)
    \/ Over

\* The executor polls the session and the operations again and again; the
\* client owes nothing, the network only its errors.
Fairness ==
    /\ WF_vars(SessionStep)
    /\ WF_vars(HandshakeMustFail)
    /\ WF_vars(Finish)
    /\ \A op \in Operations : WF_vars(OpCompletes(op))

Spec == Init /\ [][Next]_vars /\ Fairness

-----------------------------------------------------------------------------
(* Properties of the session, whoever executes the operations *)

\* At most one operation is in progress, and its payload exists once: the
\* queue's contract (no tag in use is used again) holds whatever tags the
\* client picks, because next_cmd waits before every command.
OneInProgress ==
    /\ Queue!NoneTwice
    /\ \A p, q \in Queue!InProgress : p = q

\* The queue remembers exactly the commands in progress; so the assertions
\* "tag should be known" of ready and wait never fail.
QueueConsistent == Queue!Consistent

\* A handler that waits, for a SASL response or for the handshake, waits with
\* no operation in progress; and the stream is missing (Inner::Empty, where
\* every read and write is unreachable!()) only during the handshake.
HandlersRunAlone ==
    /\ task = "running" /\ pc \in {"sasl", "upgrade"} => Queue!InProgress = {} /\ commands = {}
    /\ stream = "empty" <=> task = "running" /\ pc = "upgrade"

\* Nothing sent in plaintext is still to be parsed once TLS is up, wherever
\* bytes can wait: in the socket, in the BufReader, in a partial line.
NothingPlainSurvives ==
    stream = "tls" =>
        \A piece \in Range(wire) \cup Range(rbuf) \cup Range(line) : piece.via = "tls"

\* Every line the client has begun to send is answered, or is where it will
\* be found: in the socket, in a buffer, parsed, or in progress.
Accounted ==
    task = "running" =>
        \A id \in DOMAIN script :
            \/ outcome[id] # "none"
            \/ held.id = id
            \/ \E piece \in Range(wire) \cup Range(rbuf) \cup Range(line) : piece.id = id
            \/ \E op \in Queue!InProgress : op.id = id

\* No line is answered twice.
AnsweredOnce ==
    [][\A id \in Ids : outcome[id] # "none" => outcome'[id] = outcome[id]]_vars

\* The commands next_op executes are answered in the order they were sent,
\* those executed elsewhere included.
Executed == {"ok", "no", "bad"}

AnsweredInOrder ==
    [][\A i, j \in Ids :
          i < j /\ outcome[j] \in Executed /\ outcome[i] = "none" => outcome'[i] \notin Executed]_vars

\* A line sent to its end is consumed, unless the session ends first: no wait
\* of next_op lasts for ever while there is a line to read.
Sent(id) == id \in DOMAIN script /\ (id = Len(script) => ~cut)

Consumed(id) ==
    \/ outcome[id] # "none"
    \/ held.id = id /\ pc = "sasl"
    \/ \E op \in Queue!InProgress : op.id = id

LineConsumed ==
    \A id \in Ids : Sent(id) ~> Consumed(id) \/ task # "running"

\* The session keeps to the life cycle of ImapProtocol.
Protocol == INSTANCE ImapProtocol WITH
    phase  <- IF task = "running" THEN state ELSE "over",
    busy   <- commands # {},
    secure <- stream = "tls"

ImplementsProtocol == Protocol!Spec
=============================================================================
