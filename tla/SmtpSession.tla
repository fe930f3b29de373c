---------------------------- MODULE SmtpSession ----------------------------
(***************************************************************************)
(* One connection of the SMTP server: the session of crates/smtp           *)
(* (server/session.rs), the message it hands out (message.rs,              *)
(* message/bdat.rs, and of message/data.rs where the text ends), and       *)
(* handle_connection of src/main.rs, which reads every message to its end, *)
(* accepts it and asks for the next.                                       *)
(*                                                                         *)
(* What the client sends is a sequence of lines; the place of a line in    *)
(* script is its id.  Whether a line is a command or part of a message is  *)
(* for the server to say: it depends on where it is read.  A line is the   *)
(* unit in which the size of a BDAT chunk is counted.                      *)
(***************************************************************************)
EXTENDS Naturals, Sequences, Functions

CONSTANTS
    Kinds,          \* the kinds of lines the client sends
    Opening,        \* bound: the kinds its first lines may have, line by line
    MaxLines,       \* bound: how many lines it sends
    MaxAhead,       \* bound: how many lines wait to be read at a time
    TlsConfigured   \* Context.tls is Some

\* The BDAT commands: the size of the chunk they announce, and LAST.
Chunk == [bdat0     |-> [size |-> 0, last |-> FALSE],
          bdat1     |-> [size |-> 1, last |-> FALSE],
          bdat0last |-> [size |-> 0, last |-> TRUE],
          bdat1last |-> [size |-> 1, last |-> TRUE]]

BdatKinds == DOMAIN Chunk

AllKinds == BdatKinds \cup
    {"helo",        \* HELO or EHLO
     "mail", "rcpt", "data", "rset", "quit", "starttls",
     "noop",        \* also AUTH: a reply and nothing else
     "dot",         \* a lone dot
     "bad",         \* not a command: text, or a syntax error
     "utf8"}        \* not UTF-8

ASSUME KindsAssumption == Kinds \subseteq AllKinds
ASSUME OpeningAssumption == Opening \in Seq(SUBSET Kinds)
ASSUME BoundAssumption == MaxLines \in Nat /\ MaxAhead \in Nat
ASSUME ConfigAssumption == TlsConfigured \in BOOLEAN

Ids == 1..MaxLines
NoId == 0

VARIABLES
    script,     \* lines the client has sent: [kind, via]
    closed,     \* the client has closed its side
    wire, rbuf, stream,     \* the connection
    greeted,
    shut,       \* bye has shut down the server's side
    helo,       \* helo_domain: the id of the HELO, or NoId
    envelope,   \* ids of its MAIL and of its latest RCPT, or NoId
    pc,         \* where next_message, or the reading of a message, waits
    left,       \* Take::limit of the current chunk
    last,       \* the current chunk is the last one
    msg,        \* the message being read
    accepted,   \* messages accepted, in order
    task        \* "running", or how the task ended

client  == <<script, closed>>
conn    == <<wire, rbuf, stream>>
session == <<greeted, shut, helo, envelope>>
chunk   == <<left, last>>
vars    == <<client, conn, session, pc, chunk, msg, accepted, task>>

Conn == INSTANCE Connection

NoEnvelope == [mail |-> NoId, rcpt |-> NoId]

\* A message: where it began and ended, how many lines it has and how many
\* were announced, and whether it is text (read_to_string wants UTF-8).
Messages ==
    [mail : Ids, rcpt : Ids, start : Ids, end : Ids, got : Nat, due : Nat, text : BOOLEAN]

NoMessage == [mail |-> NoId, rcpt |-> NoId, start |-> NoId, end |-> NoId,
              got |-> 0, due |-> 0, text |-> TRUE]

TypeOK ==
    /\ script \in Seq([kind : Kinds, via : {"plain", "tls"}])
    /\ Len(script) <= MaxLines
    /\ wire \in Seq([id : Ids, via : {"plain", "tls"}])
    /\ rbuf \in Seq([id : Ids, via : {"plain", "tls"}])
    /\ stream \in {"plain", "tls", "empty"}
    /\ closed \in BOOLEAN /\ greeted \in BOOLEAN /\ shut \in BOOLEAN /\ last \in BOOLEAN
    /\ helo \in Ids \cup {NoId}
    /\ envelope \in [mail : Ids, rcpt : Ids \cup {NoId}] \cup {NoEnvelope}
    /\ pc \in {"start", "cmd", "upgrade", "data", "chunk", "bdat", "accept", "orphan"}
    /\ left \in Nat
    /\ msg \in Messages \cup {NoMessage}
    /\ accepted \in Seq(Messages)
    /\ task \in {"running", "done", "io", "buffer", "unwrap"}

Init ==
    /\ script = <<>> /\ closed = FALSE
    /\ Conn!Init
    /\ stream = "tls" => TlsConfigured
    /\ greeted = FALSE /\ shut = FALSE
    /\ helo = NoId /\ envelope = NoEnvelope
    /\ pc = "start"
    /\ left = 0 /\ last = FALSE
    /\ msg = NoMessage /\ accepted = <<>>
    /\ task = "running"

-----------------------------------------------------------------------------
(* The client: it may send ahead, and go away at any time. *)

ServerUnchanged == UNCHANGED <<session, pc, chunk, msg, accepted, task>>

KindsOf(id) == IF id \in DOMAIN Opening THEN Opening[id] ELSE Kinds

ClientSends ==
    /\ task = "running" /\ ~closed /\ Len(script) < MaxLines
    /\ Len(wire) + Len(rbuf) < MaxAhead
    /\ \E kind \in KindsOf(Len(script) + 1) :
          script' = Append(script, [kind |-> kind, via |-> Conn!SentVia])
    /\ Conn!Arrive([id |-> Len(script) + 1, via |-> Conn!SentVia])
    /\ UNCHANGED closed /\ ServerUnchanged

ClientCloses ==
    /\ task = "running" /\ ~closed
    /\ closed' = TRUE
    /\ UNCHANGED <<script, conn>> /\ ServerUnchanged

-----------------------------------------------------------------------------
(* Reading *)

Running(at) == task = "running" /\ pc = at

ReadingCommand == task = "running" /\ pc \in {"cmd", "bdat"}
ReadingText    == task = "running" /\ (pc = "data" \/ (pc = "chunk" /\ left > 0))

Fill ==
    /\ ReadingCommand \/ ReadingText
    /\ Conn!Fill
    /\ UNCHANGED <<client, session, pc, chunk, msg, accepted, task>>

AtEof == closed /\ wire = <<>> /\ rbuf = <<>>

ThisId == Head(rbuf).id

\* One line leaves the buffer.
TakeLine(kinds) ==
    /\ rbuf # <<>>
    /\ script[ThisId].kind \in kinds
    /\ Conn!Take
    /\ UNCHANGED client

Ends(how) ==
    /\ task' = how
    /\ UNCHANGED <<client, conn, session, pc, chunk, msg, accepted>>

-----------------------------------------------------------------------------
(***************************************************************************)
(* next_message.  Every command but a BDAT that starts a message is        *)
(* replied to before anything else happens, and nothing can be written     *)
(* once bye has shut the connection down: Command is a line whose reply    *)
(* can be written, Unanswerable one whose reply cannot.                    *)
(***************************************************************************)
NextMessage ==
    /\ Running("start")
    /\ greeted' = TRUE
    /\ pc' = "cmd"
    /\ UNCHANGED <<client, conn, shut, helo, envelope, chunk, msg, accepted, task>>

Command(kinds) == Running("cmd") /\ ~shut /\ TakeLine(kinds)

\* NOOP, AUTH, a line that does not parse, bytes that are not UTF-8 (which
\* get no reply).
HandleOther ==
    /\ \/ Command({"noop", "bad", "dot"})
       \/ Running("cmd") /\ TakeLine({"utf8"})
    /\ UNCHANGED <<session, pc, chunk, msg, accepted, task>>

HandleHelo ==
    /\ Command({"helo"})
    /\ helo' = ThisId
    /\ envelope' = NoEnvelope
    /\ UNCHANGED <<greeted, shut, pc, chunk, msg, accepted, task>>

\* Mutant of HandleMail: a transaction already started is replaced.
HandleMailAgain ==
    /\ Command({"mail"})
    /\ envelope' = IF helo = NoId THEN envelope ELSE [mail |-> ThisId, rcpt |-> NoId]
    /\ UNCHANGED <<greeted, shut, helo, pc, chunk, msg, accepted, task>>

HandleMail ==
    /\ Command({"mail"})
    /\ envelope' = IF helo = NoId \/ envelope # NoEnvelope THEN envelope
                   ELSE [mail |-> ThisId, rcpt |-> NoId]
    /\ UNCHANGED <<greeted, shut, helo, pc, chunk, msg, accepted, task>>

HandleRcpt ==
    /\ Command({"rcpt"})
    /\ envelope' = IF envelope = NoEnvelope THEN envelope
                   ELSE [envelope EXCEPT !.rcpt = ThisId]
    /\ UNCHANGED <<greeted, shut, helo, pc, chunk, msg, accepted, task>>

\* Mutant of HandleRset: a reply and nothing else.
HandleRsetAsNoop ==
    /\ Command({"rset"})
    /\ UNCHANGED <<session, pc, chunk, msg, accepted, task>>

HandleRset ==
    /\ Command({"rset"})
    /\ envelope' = NoEnvelope
    /\ UNCHANGED <<greeted, shut, helo, pc, chunk, msg, accepted, task>>

\* bye: the loop goes on reading commands.
HandleQuit ==
    /\ Command({"quit"})
    /\ shut' = TRUE
    /\ UNCHANGED <<greeted, helo, envelope, pc, chunk, msg, accepted, task>>

HandleStarttls ==
    /\ Command({"starttls"})
    /\ stream = "tls" \/ ~TlsConfigured
    /\ UNCHANGED <<session, pc, chunk, msg, accepted, task>>

\* Connection::upgrade asserts that the buffer is empty behind the line.
StartUpgrade ==
    /\ Running("cmd") /\ ~shut /\ stream = "plain" /\ TlsConfigured
    /\ rbuf # <<>> /\ script[ThisId].kind = "starttls"
    /\ rbuf' = Tail(rbuf)
    /\ IF rbuf' = <<>>
       THEN pc' = "upgrade" /\ stream' = "empty" /\ UNCHANGED task
       ELSE task' = "buffer" /\ UNCHANGED <<pc, stream>>
    /\ UNCHANGED <<client, wire, session, chunk, msg, accepted>>

\* Mutant of HandshakeOk: the state is not reset.
HandshakeKeeps ==
    /\ Running("upgrade") /\ ~closed
    /\ Conn!UpgradeOk
    /\ pc' = "cmd"
    /\ UNCHANGED <<client, session, chunk, msg, accepted, task>>

HandshakeOk ==
    /\ Running("upgrade") /\ ~closed
    /\ Conn!UpgradeOk
    /\ helo' = NoId
    /\ envelope' = NoEnvelope
    /\ pc' = "cmd"
    /\ UNCHANGED <<client, greeted, shut, chunk, msg, accepted, task>>

HandshakeFails ==
    /\ Running("upgrade")
    /\ Conn!UpgradeFails
    /\ task' = "io"
    /\ UNCHANGED <<client, session, pc, chunk, msg, accepted>>

\* With anything but a handshake to read it does fail.
HandshakeMustFail == (closed \/ wire # <<>>) /\ HandshakeFails

-----------------------------------------------------------------------------
(* The message *)

\* Mutant of EnvelopeReady: recipients are not asked for.
EnvelopeBegun == envelope # NoEnvelope

EnvelopeReady == envelope # NoEnvelope /\ envelope.rcpt # NoId

\* take_envelope leaves an envelope without recipients where it was.
HandleTooEarly ==
    /\ ~EnvelopeReady
    /\ Command({"data"} \cup BdatKinds)
    /\ UNCHANGED <<session, pc, chunk, msg, accepted, task>>

\* Mutant of BeginMessage: the envelope is copied, not taken.
BeginMessageKeeping(announced) ==
    /\ EnvelopeReady
    /\ msg' = [mail |-> envelope.mail, rcpt |-> envelope.rcpt, start |-> ThisId, end |-> ThisId,
               got |-> 0, due |-> announced, text |-> TRUE]
    /\ UNCHANGED <<session, accepted, task>>

BeginMessage(announced) ==
    /\ EnvelopeReady
    /\ envelope' = NoEnvelope
    /\ msg' = [mail |-> envelope.mail, rcpt |-> envelope.rcpt, start |-> ThisId, end |-> ThisId,
               got |-> 0, due |-> announced, text |-> TRUE]
    /\ UNCHANGED <<greeted, shut, helo, accepted, task>>

HandleData ==
    /\ Command({"data"})
    /\ BeginMessage(0)
    /\ pc' = "data"
    /\ UNCHANGED chunk

\* The reader of a chunk takes what follows the command; nothing is replied.
BeginChunk(c) == left' = c.size /\ last' = c.last /\ pc' = "chunk"

HandleBdat ==
    /\ Running("cmd") /\ TakeLine(BdatKinds)
    /\ LET c == Chunk[script[ThisId].kind] IN
          BeginMessage(c.size) /\ BeginChunk(c)

AddLine == [msg EXCEPT !.end = ThisId, !.got = @ + 1,
                       !.text = @ /\ script[ThisId].kind # "utf8"]

\* Data::poll_read.  A lone dot ends the text, but not before some line: the
\* automaton of data.rs starts in the middle of one.
EndsText(kind) == kind = "dot" /\ msg.got > 0

ReadData ==
    /\ Running("data") /\ TakeLine(Kinds)
    /\ IF EndsText(script[ThisId].kind)
       THEN pc' = "accept" /\ msg' = [msg EXCEPT !.end = ThisId]
       ELSE UNCHANGED pc /\ msg' = AddLine
    /\ UNCHANGED <<session, chunk, accepted, task>>

\* Mutant of DataEof: a reader that waits takes the silence for the end.
DataEofEarly ==
    /\ Running("data") /\ rbuf = <<>>
    /\ pc' = "accept"
    /\ UNCHANGED <<client, conn, session, chunk, msg, accepted, task>>

\* The end of the stream ends the text as well.
DataEof ==
    /\ Running("data") /\ AtEof
    /\ pc' = "accept"
    /\ UNCHANGED <<client, conn, session, chunk, msg, accepted, task>>

\* Bdat::poll_read
ReadChunk ==
    /\ Running("chunk") /\ left > 0 /\ TakeLine(Kinds)
    /\ left' = left - 1
    /\ msg' = AddLine
    /\ UNCHANGED <<session, pc, last, accepted, task>>

\* Mutant of ChunkEof: what has arrived counts as the message.
ChunkEofAccepts ==
    /\ Running("chunk") /\ left > 0 /\ AtEof
    /\ pc' = "accept"
    /\ UNCHANGED <<client, conn, session, chunk, msg, accepted, task>>

ChunkEof == Running("chunk") /\ left > 0 /\ AtEof /\ Ends("io")

ChunkDone ==
    /\ Running("chunk") /\ left = 0
    /\ last \/ ~shut
    /\ pc' = IF last THEN "accept" ELSE "bdat"
    /\ UNCHANGED <<client, conn, session, chunk, msg, accepted, task>>

\* next_bdat reads commands until the next BDAT.  A BDAT 0 LAST ends the
\* message with the stream still owned by the finished future.
NextChunk ==
    /\ Running("bdat") /\ TakeLine(BdatKinds)
    /\ LET c == Chunk[script[ThisId].kind] IN
          /\ IF c.size = 0 /\ c.last
             THEN pc' = "orphan" /\ UNCHANGED chunk
             ELSE BeginChunk(c)
          /\ msg' = [msg EXCEPT !.due = @ + c.size, !.end = ThisId]
    /\ UNCHANGED <<session, accepted, task>>

\* QUIT is said goodbye to; it, RSET and the end of the stream end the session.
ChunkAbandoned ==
    /\ Running("bdat")
    /\ \/ AtEof /\ UNCHANGED <<client, conn, shut>>
       \/ TakeLine({"rset"}) /\ UNCHANGED shut
       \/ TakeLine({"quit"}) /\ shut' = TRUE
    /\ task' = "io"
    /\ UNCHANGED <<greeted, helo, envelope, pc, chunk, msg, accepted>>

\* Any other command is replied to, and has no effect.
ExpectedBdat ==
    /\ Running("bdat") /\ TakeLine(Kinds \ (BdatKinds \cup {"rset", "quit"}))
    /\ UNCHANGED <<session, pc, chunk, msg, accepted, task>>

\* Mutant of Accept: the message is accepted before the reply is written.
AcceptUnanswered ==
    /\ Running("accept") /\ msg.text
    /\ accepted' = Append(accepted, msg)
    /\ msg' = NoMessage
    /\ pc' = "start"
    /\ UNCHANGED <<client, conn, session, chunk, task>>

Accept ==
    /\ Running("accept") /\ msg.text /\ ~shut
    /\ accepted' = Append(accepted, msg)
    /\ msg' = NoMessage
    /\ pc' = "start"
    /\ UNCHANGED <<client, conn, session, chunk, task>>

NotText == task = "running" /\ pc \in {"accept", "orphan"} /\ ~msg.text /\ Ends("io")

\* take_stream gives None, which accept unwraps.
AcceptPanics == Running("orphan") /\ msg.text /\ Ends("unwrap")

-----------------------------------------------------------------------------
(* How the task ends *)

CommandEof == Running("cmd") /\ AtEof /\ Ends("done")

\* A reply is due and the connection is shut down.
Unanswerable ==
    /\ shut
    /\ \/ /\ Running("cmd") /\ rbuf # <<>>
          /\ LET kind == script[ThisId].kind IN
                kind # "utf8" /\ ~(kind \in BdatKinds /\ EnvelopeReady)
       \/ Running("chunk") /\ left = 0 /\ ~last
       \/ Running("accept") /\ msg.text
    /\ Ends("io")

\* Mutant of Timeout: the deadline is moved.
TimeoutPostponed == ReadingCommand /\ UNCHANGED vars

\* The 300 seconds of read_cmd; nothing else has a timeout.
Timeout == ReadingCommand /\ Ends("io")

\* Once the client is gone the next read or write may fail.
IoError == task = "running" /\ closed /\ pc # "upgrade" /\ Ends("io")

Over == task # "running" /\ UNCHANGED vars

SessionStep ==
    \/ NextMessage \/ Fill
    \/ HandleOther \/ HandleHelo \/ HandleMail \/ HandleRcpt \/ HandleRset \/ HandleQuit
    \/ HandleStarttls \/ StartUpgrade \/ HandleTooEarly \/ HandleData \/ HandleBdat
    \/ ReadData \/ DataEof \/ ReadChunk \/ ChunkEof \/ ChunkDone
    \/ NextChunk \/ ChunkAbandoned \/ ExpectedBdat
    \/ Accept \/ NotText \/ AcceptPanics \/ CommandEof \/ Unanswerable

Next ==
    \/ ClientSends \/ ClientCloses
    \/ SessionStep
    \/ HandshakeOk \/ HandshakeFails
    \/ Timeout \/ IoError
    \/ Over

\* The executor polls the task, the clock goes on; the client owes nothing.
Fairness == WF_vars(SessionStep) /\ WF_vars(HandshakeMustFail) /\ WF_vars(Timeout)

Spec == Init /\ [][Next]_vars /\ Fairness

-----------------------------------------------------------------------------
(* Properties *)

\* After STARTTLS nothing of what the client said in plaintext counts: not
\* its HELO, not its MAIL, not a line that waits to be read.
PlainForgotten ==
    stream = "tls" =>
        /\ \A piece \in Range(wire) \cup Range(rbuf) : piece.via = "tls"
        /\ \A id \in {helo, envelope.mail, envelope.rcpt, msg.start} \ {NoId} :
              script[id].via = "tls"

\* An accepted message was asked for: a MAIL after a HELO, then a RCPT, then
\* the DATA or BDAT, all under the same protection, and from the MAIL on
\* nothing that ends a mail transaction.
AskedFor(m) ==
    /\ script[m.mail].kind = "mail" /\ script[m.rcpt].kind = "rcpt"
    /\ script[m.start].kind \in BdatKinds \cup {"data"}
    /\ m.mail < m.rcpt /\ m.rcpt < m.start
    /\ \A i \in m.mail..m.start :
          /\ script[i].kind \notin {"rset", "helo", "quit"}
          /\ script[i].via = script[m.mail].via
    /\ \E h \in 1 .. m.mail - 1 :
          script[h].kind = "helo" /\ script[h].via = script[m.mail].via

AcceptedAskedFor == \A m \in Range(accepted) : AskedFor(m)

\* One transaction, one message: what a message was made of is used up, its
\* envelope and its text, when the next one begins.
UsedOnce == \A i, j \in DOMAIN accepted : i < j => accepted[i].end < accepted[j].mail

\* A message sent in chunks is accepted only with every line announced, and
\* is text.
ChunksWhole ==
    \A m \in Range(accepted) :
        m.text /\ (script[m.start].kind \in BdatKinds => m.got = m.due)

\* The text of a message accepted without its lone dot was cut by the end of
\* the stream: nothing follows it, neither a message nor a line not yet read.
HasItsDot(m) == script[m.end].kind = "dot" /\ m.end > m.start + 1

CutIsLast ==
    \A i \in DOMAIN accepted :
        script[accepted[i].start].kind = "data" /\ ~HasItsDot(accepted[i]) =>
            i = Len(accepted) /\ AtEof

\* The line q was sent as text of the message m.
IsTextOf(q, m) ==
    /\ q \in m.start + 1 .. m.end
    /\ \/ script[m.start].kind = "data"
       \/ script[q - 1].kind \in BdatKinds /\ Chunk[script[q - 1].kind].size > 0

\* Nothing is accepted after QUIT, although commands are read and a message
\* may even be received: a QUIT that the client sent before the end of an
\* accepted message is text of an accepted message, in a DATA or in the chunk
\* of a BDAT that announces one.
NothingAfterQuit ==
    \A m \in Range(accepted) : \A q \in 1..m.end :
        script[q].kind = "quit" => \E n \in Range(accepted) : IsTextOf(q, n)

\* A client cannot keep a task for ever: when it has gone away the task ends
\* wherever it is, and when it stays and says nothing more, then too, unless
\* it was in the middle of a text or of the handshake, which nothing times.
TaskEnds ==
    <>[](\/ task # "running"
         \/ ~closed /\ (ReadingText \/ pc = "upgrade"))

\* The session keeps to the mail transactions of SmtpTransaction.
Receiving == {"data", "chunk", "bdat", "accept", "orphan"}

Phase ==
    IF task # "running" THEN "over"
    ELSE IF pc \in Receiving THEN "receiving"
    ELSE IF envelope = NoEnvelope THEN "idle"
    ELSE IF envelope.rcpt = NoId THEN "open"
    ELSE "ready"

Transaction == INSTANCE SmtpTransaction WITH
    phase <- Phase,
    secure <- stream = "tls",
    count <- Len(accepted)

ImplementsTransaction == Transaction!Spec

\* The unwrap() of accept (message.rs) finds a stream.
StreamReturned == task # "unwrap"
=============================================================================
