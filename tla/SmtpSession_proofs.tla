------------------------- MODULE SmtpSession_proofs -------------------------
(***************************************************************************)
(* Proofs about SmtpSession: its types, and that it implements the mail    *)
(* transactions of SmtpTransaction, for any lines and any bounds.          *)
(*                                                                         *)
(* The invariant is the types together with what a transaction needs: no   *)
(* envelope is left while a message is read, and the stream is away        *)
(* exactly during the handshake.  It is proved in three parts, for the     *)
(* bytes, for the flags and for the rest, which needs the bytes.           *)
(***************************************************************************)
EXTENDS SmtpSession, SequenceTheorems, TLAPS

Pieces == [id : Ids, via : {"plain", "tls"}]
Lines  == [kind : Kinds, via : {"plain", "tls"}]

BytesInv ==
    /\ script \in Seq(Lines) /\ Len(script) <= MaxLines
    /\ wire \in Seq(Pieces) /\ rbuf \in Seq(Pieces)

FlagsInv == closed \in BOOLEAN /\ greeted \in BOOLEAN /\ shut \in BOOLEAN /\ last \in BOOLEAN

SessionInv ==
    /\ helo \in Ids \cup {NoId}
    /\ envelope \in [mail : Ids, rcpt : Ids \cup {NoId}] \cup {NoEnvelope}
    /\ pc \in {"start", "cmd", "upgrade"} \cup Receiving
    /\ left \in Nat
    /\ msg \in Messages \cup {NoMessage}
    /\ accepted \in Seq(Messages)
    /\ task \in {"running", "done", "io", "buffer", "unwrap"}
    /\ stream \in {"plain", "tls", "empty"}
    /\ task = "running" =>
          /\ stream = "empty" <=> pc = "upgrade"
          /\ pc \in Receiving => envelope = NoEnvelope /\ msg \in Messages

IInv == BytesInv /\ FlagsInv /\ SessionInv

-----------------------------------------------------------------------------
(* The bytes *)

LEMMA HeadIsPiece ==
    ASSUME BytesInv, rbuf # <<>>
    PROVE  /\ ThisId \in Ids
           /\ Tail(rbuf) \in Seq(Pieces)
  <1>1. Head(rbuf) \in Pieces /\ Tail(rbuf) \in Seq(Pieces)
    BY HeadTailProperties DEF BytesInv
  <1> QED
    BY <1>1 DEF ThisId, Pieces

LEMMA FillBytes ==
    ASSUME BytesInv, Conn!Fill
    PROVE  wire' \in Seq(Pieces) /\ rbuf' \in Seq(Pieces)
  <1>1. PICK n \in 1..Len(wire) :
          rbuf' = SubSeq(wire, 1, n) /\ wire' = SubSeq(wire, n + 1, Len(wire))
    BY DEF Conn!Fill
  <1>2. wire \in Seq(Pieces) /\ Len(wire) \in Nat
    BY LenProperties DEF BytesInv
  <1>3. \A i \in 1..Len(wire) : wire[i] \in Pieces
    BY <1>2, ElementOfSeq
  <1>4. rbuf' \in Seq(Pieces)
    BY <1>1, <1>2, <1>3, SubSeqProperties
  <1>5. wire' \in Seq(Pieces)
    BY <1>1, <1>2, <1>3, SubSeqProperties
  <1> QED
    BY <1>4, <1>5

LEMMA KindsSent ==
    ASSUME NEW id
    PROVE  KindsOf(id) \subseteq Kinds
  <1>1. \A i \in DOMAIN Opening : Opening[i] \in SUBSET Kinds
    BY OpeningAssumption
  <1> QED
    BY <1>1 DEF KindsOf

LEMMA SendBytes ==
    ASSUME BytesInv, ClientSends
    PROVE  BytesInv'
  <1>0. Len(script) \in Nat /\ MaxLines \in Nat
    BY LenProperties, BoundAssumption DEF BytesInv
  <1>1. PICK kind \in Kinds : script' = Append(script, [kind |-> kind, via |-> Conn!SentVia])
    BY KindsSent DEF ClientSends
  <1>2. Conn!SentVia \in {"plain", "tls"}
    BY DEF Conn!SentVia
  <1>3. /\ script' \in Seq(Lines)
        /\ Len(script') = Len(script) + 1
    <2>1. [kind |-> kind, via |-> Conn!SentVia] \in Lines
      BY <1>2 DEF Lines
    <2> QED
      BY <1>1, <2>1, AppendProperties DEF BytesInv
  <1>4. wire' \in Seq(Pieces)
    <2>1. [id |-> Len(script) + 1, via |-> Conn!SentVia] \in Pieces
      BY <1>0, <1>2 DEF Pieces, Ids, ClientSends
    <2> QED
      BY <2>1, AppendProperties DEF BytesInv, ClientSends, Conn!Arrive
  <1> QED
    BY <1>0, <1>3, <1>4 DEF BytesInv, ClientSends, Conn!Arrive

\* The server's steps leave the bytes alone, fill the buffer or take its head.
BytesKept  == UNCHANGED <<script, wire, rbuf>>
BytesTaken == rbuf # <<>> /\ rbuf' = Tail(rbuf) /\ UNCHANGED <<script, wire>>
BytesFilled == Conn!Fill /\ UNCHANGED script

LEMMA StepBytes ==
    ASSUME [Next]_vars
    PROVE  ClientSends \/ BytesFilled \/ BytesKept \/ BytesTaken
  <1> USE DEF BytesKept, BytesTaken, BytesFilled, client, conn
  <1>1. CASE ClientCloses \/ NextMessage \/ UNCHANGED vars \/ Over
    BY <1>1 DEF ClientCloses, NextMessage, Over, vars
  <1>2. CASE Fill
    BY <1>2 DEF Fill
  <1>3. ASSUME NEW kinds, TakeLine(kinds) PROVE BytesTaken
    BY <1>3 DEF TakeLine, Conn!Take
  <1>4. ASSUME NEW how, Ends(how) PROVE BytesKept
    BY <1>4 DEF Ends
  <1>5. CASE \/ HandleOther \/ HandleHelo \/ HandleMail \/ HandleRcpt \/ HandleRset \/ HandleQuit
             \/ HandleStarttls \/ HandleTooEarly \/ HandleData \/ HandleBdat
             \/ ReadData \/ ReadChunk \/ NextChunk \/ ExpectedBdat
    BY <1>3, <1>5 DEF Command, HandleOther, HandleHelo, HandleMail, HandleRcpt, HandleRset,
       HandleQuit, HandleStarttls, HandleTooEarly, HandleData, HandleBdat, ReadData, ReadChunk,
       NextChunk, ExpectedBdat
  <1>6. CASE StartUpgrade \/ HandshakeOk \/ HandshakeFails
    BY <1>6 DEF StartUpgrade, HandshakeOk, HandshakeFails, Conn!UpgradeOk, Conn!UpgradeFails
  <1>7. CASE DataEof \/ ChunkDone \/ Accept
    BY <1>7 DEF DataEof, ChunkDone, Accept
  <1>8. CASE ChunkAbandoned
    BY <1>3, <1>8 DEF ChunkAbandoned
  <1>9. CASE \/ ChunkEof \/ NotText \/ AcceptPanics \/ CommandEof \/ Unanswerable
             \/ Timeout \/ IoError
    BY <1>4, <1>9 DEF ChunkEof, NotText, AcceptPanics, CommandEof, Unanswerable, Timeout, IoError
  <1> QED
    BY <1>1, <1>2, <1>5, <1>6, <1>7, <1>8, <1>9 DEF Next, SessionStep

LEMMA BytesInvStep ==
    ASSUME BytesInv, [Next]_vars
    PROVE  BytesInv'
  <1>1. CASE ClientSends
    BY <1>1, SendBytes
  <1>2. CASE BytesFilled
    BY <1>2, FillBytes DEF BytesFilled, BytesInv
  <1>3. CASE BytesKept
    BY <1>3 DEF BytesKept, BytesInv
  <1>4. CASE BytesTaken
    BY <1>4, HeadIsPiece DEF BytesTaken, BytesInv
  <1> QED
    BY <1>1, <1>2, <1>3, <1>4, StepBytes

-----------------------------------------------------------------------------
(* The flags *)

LEMMA ChunkTyped ==
    \A kind \in BdatKinds : Chunk[kind].size \in Nat /\ Chunk[kind].last \in BOOLEAN
  <1>1. BdatKinds = {"bdat0", "bdat1", "bdat0last", "bdat1last"}
    BY DEF BdatKinds, Chunk
  <1>2. \A kind \in BdatKinds : Chunk[kind].size \in Nat
    BY <1>1 DEF Chunk
  <1>3. \A kind \in BdatKinds : Chunk[kind].last \in BOOLEAN
    <2>1. Chunk["bdat0"].last = FALSE /\ Chunk["bdat1"].last = FALSE
      BY Zenon DEF Chunk
    <2>2. Chunk["bdat0last"].last = TRUE /\ Chunk["bdat1last"].last = TRUE
      BY Zenon DEF Chunk
    <2> QED
      BY <1>1, <2>1, <2>2, Zenon
  <1> QED
    BY <1>2, <1>3

LEMMA FlagsInvStep ==
    ASSUME FlagsInv, [Next]_vars
    PROVE  FlagsInv'
  <1> USE DEF FlagsInv, session, chunk, client
  <1>1. CASE ClientSends \/ ClientCloses \/ NextMessage \/ Fill \/ Over \/ UNCHANGED vars
    BY <1>1, Zenon DEF ClientSends, ClientCloses, ServerUnchanged, NextMessage, Fill, Over, vars
  <1>2. ASSUME NEW how, Ends(how) PROVE FlagsInv'
    BY <1>2, Zenon DEF Ends
  <1>3. CASE \/ HandleOther \/ HandleHelo \/ HandleMail \/ HandleRcpt \/ HandleRset \/ HandleQuit
             \/ HandleStarttls \/ HandleTooEarly
    BY <1>3, Zenon DEF Command, TakeLine, HandleOther, HandleHelo, HandleMail, HandleRcpt,
       HandleRset, HandleQuit, HandleStarttls, HandleTooEarly
  <1>4. CASE HandleData \/ ReadData \/ ReadChunk \/ ExpectedBdat
    BY <1>4, Zenon DEF Command, TakeLine, BeginMessage, HandleData, ReadData, ReadChunk,
       ExpectedBdat
  <1>5. CASE StartUpgrade \/ HandshakeOk \/ HandshakeFails
    BY <1>5, Zenon DEF StartUpgrade, HandshakeOk, HandshakeFails
  <1>6. CASE DataEof \/ ChunkDone \/ Accept \/ ChunkAbandoned
    BY <1>6, Zenon DEF DataEof, ChunkDone, Accept, ChunkAbandoned, TakeLine
  <1>7. CASE HandleBdat \/ NextChunk
    <2>1. /\ UNCHANGED <<closed, greeted, shut>>
          /\ script[ThisId].kind \in BdatKinds
          /\ last' \in {last, Chunk[script[ThisId].kind].last}
      BY <1>7, Zenon DEF HandleBdat, NextChunk, TakeLine, BeginMessage, BeginChunk
    <2>2. \A kind \in BdatKinds : Chunk[kind].last \in BOOLEAN
      BY ChunkTyped
    <2> QED
      BY <2>1, <2>2, Zenon
  <1>8. CASE \/ ChunkEof \/ NotText \/ AcceptPanics \/ CommandEof \/ Unanswerable
             \/ Timeout \/ IoError
    BY <1>2, <1>8, Zenon
       DEF ChunkEof, NotText, AcceptPanics, CommandEof, Unanswerable, Timeout, IoError
  <1> QED
    BY <1>1, <1>3, <1>4, <1>5, <1>6, <1>7, <1>8 DEF Next, SessionStep

-----------------------------------------------------------------------------
(* The rest *)

LEMMA AddLineTyped ==
    ASSUME BytesInv, rbuf # <<>>, msg \in Messages
    PROVE  AddLine \in Messages
  <1>1. ThisId \in Ids
    BY HeadIsPiece
  <1>2. msg.got \in Nat /\ msg.text \in BOOLEAN
    BY Zenon DEF Messages
  <1>3. msg.got + 1 \in Nat
    BY <1>2
  <1>4. (msg.text /\ script[ThisId].kind # "utf8") \in BOOLEAN
    BY Zenon
  <1> QED
    BY <1>1, <1>2, <1>3, <1>4, Zenon DEF AddLine, Messages

LEMMA ExtendTyped ==
    ASSUME msg \in Messages, NEW id \in Ids, NEW n \in Nat
    PROVE  /\ [msg EXCEPT !.end = id] \in Messages
           /\ [msg EXCEPT !.due = @ + n, !.end = id] \in Messages
  <1>1. msg.due + n \in Nat
    <2>1. msg.due \in Nat
      BY Zenon DEF Messages
    <2> QED
      BY <2>1
  <1> QED
    BY <1>1, Zenon DEF Messages

LEMMA EnvelopeTyped ==
    ASSUME SessionInv, EnvelopeReady
    PROVE  envelope.mail \in Ids /\ envelope.rcpt \in Ids
  BY DEF SessionInv, EnvelopeReady

LEMMA BeginMessageTyped ==
    ASSUME BytesInv, SessionInv, rbuf # <<>>, NEW n \in Nat, BeginMessage(n)
    PROVE  msg' \in Messages /\ envelope' = NoEnvelope
  <1>1. ThisId \in Ids /\ envelope.mail \in Ids /\ envelope.rcpt \in Ids
    BY HeadIsPiece, EnvelopeTyped DEF BeginMessage
  <1>2. msg' = [mail |-> envelope.mail, rcpt |-> envelope.rcpt, start |-> ThisId, end |-> ThisId,
                got |-> 0, due |-> n, text |-> TRUE]
    BY Zenon DEF BeginMessage
  <1>3. 0 \in Nat /\ n \in Nat
    OBVIOUS
  <1>4. msg' \in Messages
    BY <1>1, <1>2, <1>3, Zenon DEF Messages
  <1> QED
    BY <1>4, Zenon DEF BeginMessage

\* A step that ends the task needs only the types.
LEMMA EndsSession ==
    ASSUME SessionInv, task' \in {"done", "io", "buffer", "unwrap"},
           stream' \in {"plain", "tls", "empty"},
           UNCHANGED <<helo, envelope, pc, left, msg, accepted>>
    PROVE  SessionInv'
  BY DEF SessionInv

\* A command changes the session and nothing else.
LEMMA CommandSession ==
    ASSUME SessionInv, task = "running", pc = "cmd",
           helo' \in Ids \cup {NoId},
           envelope' \in [mail : Ids, rcpt : Ids \cup {NoId}] \cup {NoEnvelope},
           UNCHANGED <<stream, pc, left, msg, accepted, task>>
    PROVE  SessionInv'
  BY DEF SessionInv, Receiving

\* So does reading a message, within the message.
LEMMA MessageSession ==
    ASSUME SessionInv, task = "running", pc \in Receiving, pc' \in Receiving,
           left' \in Nat, msg' \in Messages,
           UNCHANGED <<helo, envelope, stream, accepted, task>>
    PROVE  SessionInv'
  BY DEF SessionInv, Receiving

LEMMA CommandsKeepSession ==
    ASSUME BytesInv, SessionInv,
           \/ HandleOther \/ HandleHelo \/ HandleMail \/ HandleRcpt \/ HandleRset
           \/ HandleQuit \/ HandleStarttls \/ HandleTooEarly
    PROVE  SessionInv'
  <1>1. /\ task = "running" /\ pc = "cmd" /\ rbuf # <<>>
        /\ UNCHANGED <<stream, pc, left, msg, accepted, task>>
    BY Zenon DEF Command, Running, TakeLine, Conn!Take, chunk, HandleOther, HandleHelo, HandleMail,
       HandleRcpt, HandleRset, HandleQuit, HandleStarttls, HandleTooEarly
  <1>2. ThisId \in Ids
    BY <1>1, HeadIsPiece
  <1>3. /\ helo \in Ids \cup {NoId}
        /\ envelope \in [mail : Ids, rcpt : Ids \cup {NoId}] \cup {NoEnvelope}
    BY DEF SessionInv
  <1>4. CASE HandleOther \/ HandleQuit \/ HandleStarttls \/ HandleTooEarly
    <2>1. UNCHANGED <<helo, envelope>>
      BY <1>4, Zenon DEF HandleOther, HandleQuit, HandleStarttls, HandleTooEarly, session
    <2> QED
      BY <1>1, <1>3, <2>1, CommandSession
  <1>5. CASE HandleHelo
    <2>1. helo' = ThisId /\ envelope' = NoEnvelope
      BY <1>5, Zenon DEF HandleHelo
    <2> QED
      BY <1>1, <1>2, <2>1, CommandSession
  <1>6. CASE HandleMail
    <2>1. helo' = helo /\ envelope' \in {envelope, [mail |-> ThisId, rcpt |-> NoId]}
      BY <1>6, Zenon DEF HandleMail
    <2> QED
      BY <1>1, <1>2, <1>3, <2>1, CommandSession
  <1>7. CASE HandleRcpt
    <2>1. helo' = helo /\ envelope' = IF envelope = NoEnvelope THEN envelope
                                      ELSE [envelope EXCEPT !.rcpt = ThisId]
      BY <1>7, Zenon DEF HandleRcpt
    <2>2. envelope # NoEnvelope =>
              [envelope EXCEPT !.rcpt = ThisId] \in [mail : Ids, rcpt : Ids \cup {NoId}]
      BY <1>2, <1>3, Zenon
    <2> QED
      BY <1>1, <1>3, <2>1, <2>2, CommandSession
  <1>8. CASE HandleRset
    <2>1. helo' = helo /\ envelope' = NoEnvelope
      BY <1>8, Zenon DEF HandleRset
    <2> QED
      BY <1>1, <1>3, <2>1, CommandSession
  <1> QED
    BY <1>4, <1>5, <1>6, <1>7, <1>8

LEMMA MessagesKeepSession ==
    ASSUME BytesInv, SessionInv,
           \/ ReadData \/ DataEof \/ ReadChunk \/ ChunkDone \/ NextChunk \/ ExpectedBdat
    PROVE  SessionInv'
  <1>1. /\ task = "running" /\ pc \in Receiving /\ pc' \in Receiving
        /\ UNCHANGED <<helo, envelope, stream, accepted, task>>
    BY Zenon DEF Running, Receiving, TakeLine, Conn!Take, session, conn, BeginChunk, ReadData,
       DataEof, ReadChunk, ChunkDone, NextChunk, ExpectedBdat
  <1>2. left \in Nat /\ msg \in Messages
    BY <1>1 DEF SessionInv
  <1>3. CASE ReadData
    <2>1. rbuf # <<>> /\ left' = left /\ msg' \in {AddLine, [msg EXCEPT !.end = ThisId]}
      BY <1>3, Zenon DEF ReadData, TakeLine, chunk
    <2>2. msg' \in Messages
      BY <1>2, <2>1, AddLineTyped, HeadIsPiece, ExtendTyped
    <2> QED
      BY <1>1, <1>2, <2>1, <2>2, MessageSession
  <1>4. CASE ReadChunk
    <2>1. rbuf # <<>> /\ left > 0 /\ left' = left - 1 /\ msg' = AddLine
      BY <1>4, Zenon DEF ReadChunk, TakeLine
    <2>2. msg' \in Messages /\ left' \in Nat
      BY <1>2, <2>1, AddLineTyped
    <2> QED
      BY <1>1, <2>2, MessageSession
  <1>5. CASE NextChunk
    <2>1. PICK c \in {Chunk[kind] : kind \in BdatKinds} :
            /\ left' \in {left, c.size}
            /\ msg' = [msg EXCEPT !.due = @ + c.size, !.end = ThisId]
      BY <1>5, Zenon DEF NextChunk, TakeLine, BeginChunk, chunk
    <2>2. c.size \in Nat
      BY ChunkTyped
    <2>3. ThisId \in Ids
      BY <1>5, HeadIsPiece DEF NextChunk, TakeLine
    <2>4. msg' \in Messages
      BY <1>2, <2>1, <2>2, <2>3, ExtendTyped
    <2> QED
      BY <1>1, <1>2, <2>1, <2>2, <2>4, MessageSession
  <1>6. CASE DataEof \/ ChunkDone \/ ExpectedBdat
    <2>1. UNCHANGED <<left, msg>>
      BY <1>6, Zenon DEF DataEof, ChunkDone, ExpectedBdat, chunk
    <2> QED
      BY <1>1, <1>2, <2>1, MessageSession
  <1> QED
    BY <1>3, <1>4, <1>5, <1>6

LEMMA BeginKeepsSession ==
    ASSUME BytesInv, SessionInv, HandleData \/ HandleBdat
    PROVE  SessionInv'
  <1>1. /\ task = "running" /\ pc = "cmd" /\ pc' \in Receiving /\ rbuf # <<>>
        /\ UNCHANGED <<helo, stream, accepted, task>>
    BY Zenon DEF Running, Receiving, Command, TakeLine, Conn!Take, BeginMessage, BeginChunk,
       HandleData, HandleBdat
  <1>2. left' \in Nat /\ \E n \in Nat : BeginMessage(n)
    <2>1. CASE HandleData
      BY <2>1 DEF HandleData, chunk, SessionInv
    <2>2. CASE HandleBdat
      <3>1. PICK c \in {Chunk[kind] : kind \in BdatKinds} : left' = c.size /\ BeginMessage(c.size)
        BY <2>2, Zenon DEF HandleBdat, TakeLine, BeginChunk
      <3>2. c.size \in Nat
        BY ChunkTyped
      <3> QED
        BY <3>1, <3>2
    <2> QED
      BY <2>1, <2>2
  <1>3. msg' \in Messages /\ envelope' = NoEnvelope
    BY <1>1, <1>2, BeginMessageTyped
  <1> QED
    BY <1>1, <1>2, <1>3 DEF SessionInv, Receiving

LEMMA AcceptKeepsSession ==
    ASSUME SessionInv, Accept
    PROVE  SessionInv'
  <1>1. /\ task = "running" /\ pc = "accept" /\ pc' = "start"
        /\ msg' = NoMessage /\ accepted' = Append(accepted, msg)
        /\ UNCHANGED <<helo, envelope, stream, left, task>>
    BY Zenon DEF Accept, Running, conn, session, chunk
  <1>2. accepted \in Seq(Messages) /\ msg \in Messages
    BY <1>1 DEF SessionInv, Receiving
  <1>3. accepted' \in Seq(Messages)
    BY <1>1, <1>2, AppendProperties
  <1> QED
    BY <1>1, <1>3 DEF SessionInv, Receiving

LEMMA UpgradeKeepsSession ==
    ASSUME SessionInv, StartUpgrade \/ HandshakeOk \/ HandshakeFails
    PROVE  SessionInv'
  <1>1. CASE StartUpgrade
    <2>1. /\ task = "running" /\ pc = "cmd" /\ stream = "plain"
          /\ UNCHANGED <<helo, envelope, left, msg, accepted>>
          /\ \/ pc' = "upgrade" /\ stream' = "empty" /\ task' = task
             \/ task' = "buffer" /\ pc' = pc /\ stream' = stream
      BY <1>1, Zenon DEF StartUpgrade, Running, session, chunk
    <2> QED
      BY <2>1 DEF SessionInv, Receiving
  <1>2. CASE HandshakeOk
    <2>1. /\ task = "running" /\ pc' = "cmd" /\ stream' = "tls"
          /\ helo' = NoId /\ envelope' = NoEnvelope
          /\ UNCHANGED <<left, msg, accepted, task>>
      BY <1>2, Zenon DEF HandshakeOk, Conn!UpgradeOk, Running, chunk
    <2> QED
      BY <2>1 DEF SessionInv, Receiving
  <1>3. CASE HandshakeFails
    <2>1. /\ task' = "io" /\ stream' = "plain"
          /\ UNCHANGED <<helo, envelope, pc, left, msg, accepted>>
      BY <1>3, Zenon DEF HandshakeFails, Conn!UpgradeFails, session, chunk
    <2> QED
      BY <2>1, EndsSession
  <1> QED
    BY <1>1, <1>2, <1>3

\* Whatever ends the task leaves what the transaction consists of.
Ending == \/ ChunkEof \/ ChunkAbandoned \/ NotText \/ AcceptPanics
          \/ CommandEof \/ Unanswerable \/ Timeout \/ IoError

LEMMA EndingEnds ==
    ASSUME Ending
    PROVE  /\ task = "running" /\ task' \in {"done", "io", "unwrap"}
           /\ UNCHANGED <<helo, envelope, pc, left, msg, accepted, stream>>
  <1>1. CASE ChunkAbandoned
    BY <1>1, Zenon DEF ChunkAbandoned, Running, TakeLine, Conn!Take, conn, chunk
  <1>2. CASE \/ ChunkEof \/ NotText \/ AcceptPanics
             \/ CommandEof \/ Unanswerable \/ Timeout \/ IoError
    BY <1>2, Zenon DEF ChunkEof, NotText, AcceptPanics, CommandEof, Unanswerable, Timeout,
       IoError, Ends, Running, ReadingCommand, conn, session, chunk
  <1> QED
    BY <1>1, <1>2 DEF Ending

LEMMA SessionInvStep ==
    ASSUME BytesInv, SessionInv, [Next]_vars
    PROVE  SessionInv'
  <1>1. CASE ClientSends \/ ClientCloses \/ Fill \/ Over \/ UNCHANGED vars
    <2>1. UNCHANGED <<helo, envelope, pc, left, msg, accepted, task, stream>>
      BY <1>1, Zenon DEF ClientSends, ClientCloses, ServerUnchanged, Conn!Arrive, Conn!Fill,
         Fill, Over, vars, conn, session, chunk
    <2> QED
      BY <2>1 DEF SessionInv
  <1>2. CASE NextMessage
    <2>1. /\ task = "running" /\ pc = "start" /\ pc' = "cmd"
          /\ UNCHANGED <<helo, envelope, left, msg, accepted, task, stream>>
      BY <1>2, Zenon DEF NextMessage, Running, conn, chunk
    <2> QED
      BY <2>1 DEF SessionInv, Receiving
  <1>3. CASE \/ HandleOther \/ HandleHelo \/ HandleMail \/ HandleRcpt \/ HandleRset
             \/ HandleQuit \/ HandleStarttls \/ HandleTooEarly
    BY <1>3, CommandsKeepSession
  <1>4. CASE HandleData \/ HandleBdat
    BY <1>4, BeginKeepsSession
  <1>5. CASE ReadData \/ DataEof \/ ReadChunk \/ ChunkDone \/ NextChunk \/ ExpectedBdat
    BY <1>5, MessagesKeepSession
  <1>6. CASE Accept
    BY <1>6, AcceptKeepsSession
  <1>7. CASE StartUpgrade \/ HandshakeOk \/ HandshakeFails
    BY <1>7, UpgradeKeepsSession
  <1>8. CASE Ending
    <2>1. stream' \in {"plain", "tls", "empty"}
      BY <1>8, EndingEnds DEF SessionInv
    <2> QED
      BY <1>8, <2>1, EndingEnds, EndsSession
  <1> QED
    BY <1>1, <1>2, <1>3, <1>4, <1>5, <1>6, <1>7, <1>8 DEF Next, SessionStep, Ending

LEMMA InitIInv == Init => IInv
  <1> SUFFICES ASSUME Init PROVE IInv
    OBVIOUS
  <1>1. BytesInv
    BY EmptySeq, BoundAssumption DEF Init, Conn!Init, BytesInv
  <1>2. FlagsInv
    BY Zenon DEF Init, FlagsInv
  <1>3. SessionInv
    BY EmptySeq DEF Init, Conn!Init, SessionInv, Receiving
  <1> QED
    BY <1>1, <1>2, <1>3 DEF IInv

LEMMA StepIInv == IInv /\ [Next]_vars => IInv'
  BY BytesInvStep, FlagsInvStep, SessionInvStep DEF IInv

\* Every variable of the session keeps its type: an envelope has a sender, the
\* bytes of a chunk are never counted below zero, what accept appends is a
\* complete message.
THEOREM SessionTypes == Spec => []TypeOK
  <1>1. IInv => TypeOK
    BY Zenon DEF IInv, BytesInv, FlagsInv, SessionInv, Receiving, Pieces, Lines, TypeOK
  <1> QED
    BY <1>1, InitIInv, StepIInv, PTL DEF Spec

-----------------------------------------------------------------------------
(* Mail transactions: every step is a step of SmtpTransaction, or none *)

LEMMA StutterTransaction ==
    ASSUME UNCHANGED <<task, envelope, stream, accepted>>,
           pc' \in Receiving <=> pc \in Receiving
    PROVE  UNCHANGED Transaction!vars
  BY DEF Transaction!vars, Phase

LEMMA EndTransaction ==
    ASSUME task = "running", task' # "running", accepted' = accepted,
           stream' = "tls" <=> stream = "tls"
    PROVE  Transaction!End
  <1>1. Phase \in {"idle", "open", "ready", "receiving"} /\ Phase' = "over"
    BY DEF Phase
  <1> QED
    BY <1>1 DEF Transaction!End, Transaction!Moves

\* MAIL, RCPT, and what makes an envelope forgotten.
LEMMA CommandTransaction ==
    ASSUME BytesInv, SessionInv,
           HandleHelo \/ HandleMail \/ HandleRcpt \/ HandleRset
    PROVE  [Transaction!Next]_(Transaction!vars)
  <1>1. /\ task = "running" /\ pc = "cmd" /\ rbuf # <<>>
        /\ UNCHANGED <<stream, pc, accepted, task>>
    BY Zenon DEF Command, Running, TakeLine, Conn!Take, HandleHelo, HandleMail, HandleRcpt,
       HandleRset
  <1>2. ThisId \in Ids /\ NoId \notin Ids
    BY <1>1, HeadIsPiece DEF Ids, NoId
  <1>3. pc \notin Receiving
    BY <1>1 DEF Receiving
  <1>4. CASE envelope' = envelope
    BY <1>1, <1>4, StutterTransaction
  <1>5. CASE envelope # NoEnvelope /\ envelope' = NoEnvelope
    <2>1. Phase \in {"open", "ready"} /\ Phase' = "idle"
      BY <1>1, <1>3, <1>5 DEF Phase
    <2> QED
      BY <1>1, <2>1 DEF Transaction!Reset, Transaction!Moves, Transaction!Next
  <1>6. CASE envelope = NoEnvelope /\ envelope' = [mail |-> ThisId, rcpt |-> NoId]
    <2>1. envelope' # NoEnvelope /\ envelope'.rcpt = NoId
      BY <1>2, <1>6 DEF NoEnvelope
    <2>2. Phase = "idle" /\ Phase' = "open"
      BY <1>1, <1>3, <1>6, <2>1 DEF Phase
    <2> QED
      BY <1>1, <2>2 DEF Transaction!Open, Transaction!Moves, Transaction!Next
  <1>7. CASE envelope # NoEnvelope /\ envelope' = [envelope EXCEPT !.rcpt = ThisId]
    <2>1. envelope \in [mail : Ids, rcpt : Ids \cup {NoId}]
      BY <1>7 DEF SessionInv
    <2>2. envelope'.rcpt = ThisId
      BY <1>7, <2>1
    <2>3. envelope' # NoEnvelope /\ envelope'.rcpt # NoId
      BY <1>2, <2>2 DEF NoEnvelope
    <2>4. Phase \in {"open", "ready"} /\ Phase' = "ready"
      BY <1>1, <1>3, <1>7, <2>3 DEF Phase
    <2> QED
      BY <1>1, <2>4 DEF Transaction!AddRecipient, Transaction!Moves, Transaction!Next
  <1>8. \/ envelope' = envelope
        \/ envelope # NoEnvelope /\ envelope' = NoEnvelope
        \/ envelope = NoEnvelope /\ envelope' = [mail |-> ThisId, rcpt |-> NoId]
        \/ envelope # NoEnvelope /\ envelope' = [envelope EXCEPT !.rcpt = ThisId]
    BY Zenon DEF HandleHelo, HandleMail, HandleRcpt, HandleRset
  <1> QED
    BY <1>4, <1>5, <1>6, <1>7, <1>8

LEMMA BeginTransaction ==
    ASSUME SessionInv, HandleData \/ HandleBdat
    PROVE  Transaction!Next
  <1>1. /\ task = "running" /\ pc = "cmd" /\ pc' \in {"data", "chunk"} /\ EnvelopeReady
        /\ UNCHANGED <<stream, accepted, task>>
    BY Zenon DEF Running, Command, TakeLine, Conn!Take, BeginMessage, BeginChunk, HandleData,
       HandleBdat
  <1>2. Phase = "ready" /\ Phase' = "receiving"
    BY <1>1 DEF Phase, EnvelopeReady, Receiving
  <1> QED
    BY <1>1, <1>2 DEF Transaction!Receive, Transaction!Moves, Transaction!Next

LEMMA AcceptTransaction ==
    ASSUME SessionInv, Accept
    PROVE  Transaction!Next
  <1>1. /\ task = "running" /\ pc = "accept" /\ pc' = "start"
        /\ accepted' = Append(accepted, msg)
        /\ UNCHANGED <<envelope, stream, task>>
    BY Zenon DEF Accept, Running, conn, session
  <1>2. accepted \in Seq(Messages) /\ msg \in Messages /\ envelope = NoEnvelope
    BY <1>1 DEF SessionInv, Receiving
  <1>3. Len(accepted') = Len(accepted) + 1
    BY <1>1, <1>2, AppendProperties
  <1>4. Phase = "receiving" /\ Phase' = "idle"
    BY <1>1, <1>2 DEF Phase, Receiving
  <1> QED
    BY <1>1, <1>3, <1>4 DEF Transaction!Accept, Transaction!Moves, Transaction!Next

LEMMA UpgradeTransaction ==
    ASSUME SessionInv, StartUpgrade \/ HandshakeOk \/ HandshakeFails
    PROVE  [Transaction!Next]_(Transaction!vars)
  <1>1. CASE StartUpgrade
    <2>1. /\ task = "running" /\ pc = "cmd" /\ stream # "tls" /\ stream' # "tls"
          /\ UNCHANGED <<envelope, accepted>>
          /\ \/ pc' = "upgrade" /\ task' = task
             \/ task' = "buffer"
      BY <1>1, Zenon DEF StartUpgrade, Running, session
    <2>2. CASE task' = task
      BY <2>1, <2>2 DEF Transaction!vars, Phase, Receiving
    <2>3. CASE task' = "buffer"
      BY <2>1, <2>3, EndTransaction DEF Transaction!Next
    <2> QED
      BY <2>1, <2>2, <2>3
  <1>2. CASE HandshakeOk
    <2>1. /\ task = "running" /\ pc = "upgrade" /\ pc' = "cmd" /\ stream' = "tls"
          /\ envelope' = NoEnvelope
          /\ UNCHANGED <<accepted, task>>
      BY <1>2, Zenon DEF HandshakeOk, Conn!UpgradeOk, Running
    <2>2. stream = "empty"
      BY <2>1 DEF SessionInv
    <2>3. Phase \in {"idle", "open", "ready"} /\ Phase' = "idle"
      BY <2>1 DEF Phase, Receiving
    <2> QED
      BY <2>1, <2>2, <2>3 DEF Transaction!Secure, Transaction!Moves, Transaction!Next
  <1>3. CASE HandshakeFails
    <2>1. /\ task = "running" /\ pc = "upgrade" /\ task' = "io" /\ stream' = "plain"
          /\ accepted' = accepted
      BY <1>3, Zenon DEF HandshakeFails, Conn!UpgradeFails, Running
    <2>2. stream = "empty"
      BY <2>1 DEF SessionInv
    <2> QED
      BY <2>1, <2>2, EndTransaction DEF Transaction!Next
  <1> QED
    BY <1>1, <1>2, <1>3

LEMMA StepTransaction ==
    ASSUME IInv, [Next]_vars
    PROVE  [Transaction!Next]_(Transaction!vars)
  <1>0. BytesInv /\ SessionInv
    BY DEF IInv
  <1>1. CASE \/ ClientSends \/ ClientCloses \/ Fill \/ Over \/ UNCHANGED vars
             \/ HandleOther \/ HandleQuit \/ HandleStarttls \/ HandleTooEarly
    <2>1. UNCHANGED <<task, pc, envelope, stream, accepted>>
      BY <1>1, Zenon DEF ClientSends, ClientCloses, ServerUnchanged, Conn!Arrive, Conn!Fill,
         Fill, Over, vars, conn, session, Command, TakeLine, Conn!Take, HandleOther, HandleQuit,
         HandleStarttls, HandleTooEarly
    <2> QED
      BY <2>1, StutterTransaction
  <1>2. CASE NextMessage
    <2>1. /\ pc = "start" /\ pc' = "cmd"
          /\ UNCHANGED <<task, envelope, stream, accepted>>
      BY <1>2, Zenon DEF NextMessage, Running, conn
    <2> QED
      BY <2>1, StutterTransaction DEF Receiving
  <1>3. CASE ReadData \/ DataEof \/ ReadChunk \/ ChunkDone \/ NextChunk \/ ExpectedBdat
    <2>1. /\ pc \in Receiving /\ pc' \in Receiving
          /\ UNCHANGED <<task, envelope, stream, accepted>>
      BY <1>3, Zenon DEF Running, Receiving, TakeLine, Conn!Take, session, conn, BeginChunk,
         ReadData, DataEof, ReadChunk, ChunkDone, NextChunk, ExpectedBdat
    <2> QED
      BY <2>1, StutterTransaction
  <1>4. CASE HandleHelo \/ HandleMail \/ HandleRcpt \/ HandleRset
    BY <1>0, <1>4, CommandTransaction
  <1>5. CASE HandleData \/ HandleBdat
    BY <1>0, <1>5, BeginTransaction
  <1>6. CASE Accept
    BY <1>0, <1>6, AcceptTransaction
  <1>7. CASE StartUpgrade \/ HandshakeOk \/ HandshakeFails
    BY <1>0, <1>7, UpgradeTransaction
  <1>8. CASE Ending
    BY <1>8, EndingEnds, EndTransaction DEF Transaction!Next
  <1> QED
    BY <1>1, <1>2, <1>3, <1>4, <1>5, <1>6, <1>7, <1>8 DEF Next, SessionStep, Ending

LEMMA InitTransaction == Init => Transaction!Init
  <1> SUFFICES ASSUME Init PROVE Transaction!Init
    OBVIOUS
  <1>1. /\ task = "running" /\ pc = "start" /\ envelope = NoEnvelope /\ accepted = <<>>
    BY Zenon DEF Init
  <1>2. Phase = "idle" /\ Len(accepted) = 0
    BY <1>1, EmptySeq DEF Phase, Receiving
  <1> QED
    BY <1>2, Zenon DEF Transaction!Init

\* Whatever lines the client sends, and wherever it or the network stops: a
\* message is received only in a transaction with a sender and a recipient,
\* that transaction is then over, and none survives STARTTLS.
THEOREM SessionImplementsTransaction == Spec => ImplementsTransaction
  <1>1. Init => IInv /\ Transaction!Init
    BY InitIInv, InitTransaction
  <1>2. IInv /\ [Next]_vars => IInv'
    BY StepIInv
  <1>3. IInv /\ [Next]_vars => [Transaction!Next]_(Transaction!vars)
    BY StepTransaction
  <1> QED
    BY <1>1, <1>2, <1>3, PTL DEF Spec, ImplementsTransaction, Transaction!Spec

-----------------------------------------------------------------------------
(***************************************************************************)
(* What an accepted message consists of.  Lines are read in the order in   *)
(* which they were sent, so that the number of lines read so far is the id *)
(* of the last one; the invariant says of the HELO, the envelope, the      *)
(* message and the accepted messages where their lines are among those.    *)
(***************************************************************************)

Consumed == Len(script) - Len(rbuf) - Len(wire)

\* What waits to be read is the rest of what was sent, under the protection
\* that the connection has now.
Ordered ==
    /\ Len(rbuf) + Len(wire) <= Len(script)
    /\ \A i \in 1..Len(rbuf) :
          rbuf[i].id = Consumed + i /\ rbuf[i].via = script[Consumed + i].via
    /\ \A i \in 1..Len(wire) :
          /\ wire[i].id = Consumed + Len(rbuf) + i
          /\ wire[i].via = script[Consumed + Len(rbuf) + i].via
    /\ \A k \in 1..Len(script) : k > Consumed => script[k].via = Conn!SentVia
    /\ task = "running" /\ pc = "upgrade" => rbuf = <<>>

Grown ==
    /\ Len(script) <= Len(script')
    /\ \A k \in 1..Len(script) : script'[k] = script[k]

LEMMA Lengths ==
    ASSUME BytesInv
    PROVE  Len(script) \in Nat /\ Len(rbuf) \in Nat /\ Len(wire) \in Nat
BY LenProperties DEF BytesInv

LEMMA HeadIsNext ==
    ASSUME BytesInv, Ordered, rbuf # <<>>
    PROVE  /\ ThisId = Consumed + 1 /\ Consumed \in Nat /\ ThisId \in 1..Len(script)
           /\ script[ThisId].via = Conn!SentVia
<1>1. /\ Len(rbuf) \in Nat \ {0} /\ Len(wire) \in Nat /\ Len(script) \in Nat
      /\ Head(rbuf) = rbuf[1]
  BY Lengths, HeadTailProperties DEF BytesInv
<1>2. ThisId = Consumed + 1
  BY <1>1 DEF Ordered, ThisId
<1>3. Consumed \in Nat /\ ThisId \in 1..Len(script)
  BY <1>1, <1>2 DEF Ordered, Consumed
<1> QED BY <1>2, <1>3 DEF Ordered

LEMMA SendOrdered ==
    ASSUME BytesInv, Ordered, ClientSends
    PROVE  Ordered' /\ Grown /\ Consumed' = Consumed
<1>1. PICK kind : script' = Append(script, [kind |-> kind, via |-> Conn!SentVia])
  BY DEF ClientSends
<1>2. /\ wire' = Append(wire, [id |-> Len(script) + 1, via |-> Conn!SentVia])
      /\ rbuf' = rbuf /\ stream' = stream /\ pc' = pc /\ task' = task
  BY DEF ClientSends, ServerUnchanged, Conn!Arrive
<1>3. /\ Len(script) \in Nat /\ Len(rbuf) \in Nat /\ Len(wire) \in Nat
      /\ script \in Seq(Lines) /\ wire \in Seq(Pieces)
  BY Lengths DEF BytesInv
<1>4. /\ Len(script') = Len(script) + 1 /\ Len(wire') = Len(wire) + 1
      /\ \A k \in 1..Len(script) : script'[k] = script[k]
      /\ \A k \in 1..Len(wire) : wire'[k] = wire[k]
      /\ script'[Len(script) + 1] = [kind |-> kind, via |-> Conn!SentVia]
      /\ wire'[Len(wire) + 1] = [id |-> Len(script) + 1, via |-> Conn!SentVia]
  BY <1>1, <1>2, <1>3
<1>5. Consumed' = Consumed /\ Conn!SentVia' = Conn!SentVia /\ Grown
  BY <1>2, <1>3, <1>4 DEF Consumed, Conn!SentVia, Grown
<1>6. \A i \in 1..Len(rbuf) : Consumed + i \in 1..Len(script)
  BY <1>3 DEF Consumed, Ordered
<1>7. \A i \in 1..Len(rbuf') :
          rbuf'[i].id = Consumed' + i /\ rbuf'[i].via = script'[Consumed' + i].via
  BY <1>2, <1>4, <1>5, <1>6 DEF Ordered
<1>8. ASSUME NEW i \in 1..Len(wire')
      PROVE  /\ wire'[i].id = Consumed' + Len(rbuf') + i
             /\ wire'[i].via = script'[Consumed' + Len(rbuf') + i].via
  <2>1. CASE i \in 1..Len(wire)
    <3>1. Consumed + Len(rbuf) + i \in 1..Len(script)
      BY <1>3, <2>1 DEF Consumed, Ordered
    <3> QED BY <1>2, <1>4, <1>5, <2>1, <3>1 DEF Ordered
  <2>2. CASE i = Len(wire) + 1
    <3>1. Consumed + Len(rbuf) + i = Len(script) + 1
      BY <1>3, <2>2 DEF Consumed
    <3> QED BY <1>2, <1>4, <1>5, <2>2, <3>1
  <2> QED BY <1>3, <1>4, <2>1, <2>2
<1>9. \A k \in 1..Len(script') : k > Consumed' => script'[k].via = Conn!SentVia'
  <2> SUFFICES ASSUME NEW k \in 1..Len(script'), k > Consumed' PROVE script'[k].via = Conn!SentVia'
    OBVIOUS
  <2>1. CASE k = Len(script) + 1
    BY <1>4, <1>5, <2>1
  <2>2. CASE k \in 1..Len(script)
    BY <1>4, <1>5, <2>2 DEF Ordered
  <2> QED BY <1>3, <1>4, <2>1, <2>2
<1>10. Len(rbuf') + Len(wire') <= Len(script')
  BY <1>2, <1>3, <1>4 DEF Ordered
<1> QED BY <1>2, <1>5, <1>7, <1>8, <1>9, <1>10 DEF Ordered

LEMMA FillOrdered ==
    ASSUME BytesInv, Ordered, Conn!Fill, UNCHANGED <<script, pc, task>>, pc # "upgrade"
    PROVE  Ordered' /\ Consumed' = Consumed
<1>1. PICK n \in 1..Len(wire) :
        /\ rbuf = <<>> /\ stream' = stream
        /\ rbuf' = SubSeq(wire, 1, n) /\ wire' = SubSeq(wire, n + 1, Len(wire))
  BY DEF Conn!Fill
<1>2. Len(script) \in Nat /\ Len(rbuf) = 0 /\ Len(wire) \in Nat /\ wire \in Seq(Pieces)
  BY <1>1, Lengths DEF BytesInv
<1>9. \A i \in 1..Len(wire) :
          wire[i].id = Consumed + i /\ wire[i].via = script[Consumed + i].via
  <2> TAKE i \in 1..Len(wire)
  <2>1. Consumed + Len(rbuf) + i = Consumed + i
    BY <1>2 DEF Consumed
  <2> QED BY <2>1 DEF Ordered
<1>3. /\ Len(rbuf') = n /\ \A i \in 1..n : rbuf'[i] = wire[i]
      /\ Len(wire') = Len(wire) - n /\ \A i \in 1..Len(wire') : wire'[i] = wire[n + i]
  BY <1>1, <1>2
<1>4. Consumed' = Consumed /\ Conn!SentVia' = Conn!SentVia
  <2>1. /\ Consumed' = Len(script) - Len(rbuf') - Len(wire')
        /\ Consumed = Len(script) - Len(rbuf) - Len(wire)
    BY DEF Consumed
  <2>2. Len(rbuf') = n /\ Len(wire') = Len(wire) - n /\ n \in 1..Len(wire)
    BY <1>3
  <2>3. Consumed' = Consumed
    BY <1>2, <2>1, <2>2
  <2>4. Conn!SentVia' = Conn!SentVia
    BY <1>1 DEF Conn!SentVia
  <2> QED BY <2>3, <2>4
<1>5. \A i \in 1..Len(rbuf') :
          rbuf'[i].id = Consumed' + i /\ rbuf'[i].via = script'[Consumed' + i].via
  BY <1>9, <1>1, <1>2, <1>3, <1>4
<1>6. \A i \in 1..Len(wire') :
          /\ wire'[i].id = Consumed' + Len(rbuf') + i
          /\ wire'[i].via = script'[Consumed' + Len(rbuf') + i].via
  <2> SUFFICES ASSUME NEW i \in 1..Len(wire')
               PROVE  /\ wire'[i].id = Consumed' + Len(rbuf') + i
                      /\ wire'[i].via = script'[Consumed' + Len(rbuf') + i].via
    OBVIOUS
  <2>1. n + i \in 1..Len(wire) /\ wire'[i] = wire[n + i]
    BY <1>2, <1>3
  <2>2. wire[n + i].id = Consumed + (n + i) /\ wire[n + i].via = script[Consumed + (n + i)].via
    BY <1>9, <2>1
  <2>3. Consumed + (n + i) = Consumed' + Len(rbuf') + i
    BY <1>2, <1>3, <1>4 DEF Consumed
  <2> QED BY <2>1, <2>2, <2>3
<1>7. Len(rbuf') + Len(wire') <= Len(script')
  BY <1>2, <1>3 DEF Ordered
<1> QED BY <1>4, <1>5, <1>6, <1>7 DEF Ordered

LEMMA TakeOrdered ==
    ASSUME BytesInv, Ordered, BytesTaken, Conn!SentVia' = Conn!SentVia,
           task' = "running" /\ pc' = "upgrade" => rbuf' = <<>>
    PROVE  Ordered' /\ Consumed' = Consumed + 1
<1>1. /\ Len(script) \in Nat /\ Len(rbuf) \in Nat \ {0} /\ Len(wire) \in Nat
      /\ Len(rbuf') = Len(rbuf) - 1 /\ \A i \in 1..Len(rbuf') : rbuf'[i] = rbuf[i + 1]
      /\ wire' = wire /\ script' = script
  BY Lengths, HeadTailProperties DEF BytesInv, BytesTaken
<1>2. Consumed' = Consumed + 1 /\ Conn!SentVia' = Conn!SentVia
  BY <1>1 DEF Consumed
<1>3. \A i \in 1..Len(rbuf') :
          rbuf'[i].id = Consumed' + i /\ rbuf'[i].via = script'[Consumed' + i].via
  <2> SUFFICES ASSUME NEW i \in 1..Len(rbuf')
               PROVE  rbuf'[i].id = Consumed' + i /\ rbuf'[i].via = script'[Consumed' + i].via
    OBVIOUS
  <2>1. i + 1 \in 1..Len(rbuf) /\ Consumed + (i + 1) = Consumed' + i
    BY <1>1, <1>2 DEF Consumed
  <2> QED BY <1>1, <2>1 DEF Ordered
<1>4. \A i \in 1..Len(wire') :
          /\ wire'[i].id = Consumed' + Len(rbuf') + i
          /\ wire'[i].via = script'[Consumed' + Len(rbuf') + i].via
  <2>1. Consumed' + Len(rbuf') = Consumed + Len(rbuf)
    BY <1>1, <1>2 DEF Consumed
  <2> QED BY <1>1, <2>1 DEF Ordered
<1>5. \A k \in 1..Len(script') : k > Consumed' => script'[k].via = Conn!SentVia'
  BY <1>1, <1>2 DEF Ordered, Consumed
<1>6. Len(rbuf') + Len(wire') <= Len(script')
  BY <1>1 DEF Ordered
<1> QED BY <1>2, <1>3, <1>4, <1>5, <1>6 DEF Ordered

\* The server's other steps leave the bytes where they are.
LEMMA KeepOrdered ==
    ASSUME BytesInv, Ordered, BytesKept,
           Conn!SentVia' = Conn!SentVia \/ (rbuf = <<>> /\ wire = <<>>),
           task' = "running" /\ pc' = "upgrade" => task = "running" /\ pc = "upgrade"
    PROVE  Ordered' /\ Consumed' = Consumed
<1>1. /\ script' = script /\ rbuf' = rbuf /\ wire' = wire
      /\ Consumed' = Consumed
  BY DEF BytesKept, Consumed
<1>2. ASSUME NEW k \in 1..Len(script), k > Consumed
      PROVE  script[k].via = Conn!SentVia'
  <2>1. ~ (rbuf = <<>> /\ wire = <<>>)
    BY <1>2, Lengths DEF Consumed
  <2> QED BY <1>2, <2>1 DEF Ordered
<1> QED BY <1>1, <1>2 DEF Ordered

LEMMA StepKinds ==
    ASSUME [Next]_vars
    PROVE  \/ ClientSends
           \/ Conn!Fill /\ UNCHANGED <<script, pc, task>> /\ pc # "upgrade"
           \/ BytesTaken /\ UNCHANGED stream /\ pc' # "upgrade"
           \/ StartUpgrade \/ HandshakeOk \/ HandshakeFails
           \/ /\ BytesKept /\ UNCHANGED stream
              /\ task' = "running" /\ pc' = "upgrade" => task = "running" /\ pc = "upgrade"
<1> USE DEF client, conn, BytesKept
<1>1. CASE ClientCloses \/ NextMessage \/ UNCHANGED vars \/ Over
  BY <1>1 DEF ClientCloses, ServerUnchanged, NextMessage, Over, vars
<1>2. CASE Fill
  BY <1>2, Zenon DEF Fill, ReadingCommand, ReadingText
<1>3. ASSUME NEW kinds, TakeLine(kinds) PROVE BytesTaken /\ UNCHANGED stream
  BY <1>3 DEF TakeLine, Conn!Take, BytesTaken
<1>4. CASE \/ HandleOther \/ HandleHelo \/ HandleMail \/ HandleRcpt \/ HandleRset \/ HandleQuit
           \/ HandleStarttls \/ HandleTooEarly \/ HandleData \/ HandleBdat
           \/ ReadData \/ ReadChunk \/ NextChunk \/ ExpectedBdat
  <2>1. \E kinds : TakeLine(kinds)
    BY <1>4, Zenon DEF Command, HandleOther, HandleHelo, HandleMail, HandleRcpt, HandleRset,
       HandleQuit, HandleStarttls, HandleTooEarly, HandleData, HandleBdat, ReadData, ReadChunk,
       NextChunk, ExpectedBdat
  <2>2. pc' \in {"cmd", "data", "accept", "chunk", "orphan", "bdat"}
    BY <1>4, Zenon DEF Running, Command, BeginChunk, HandleOther, HandleHelo, HandleMail,
       HandleRcpt, HandleRset, HandleQuit, HandleStarttls, HandleTooEarly, HandleData,
       HandleBdat, ReadData, ReadChunk, NextChunk, ExpectedBdat
  <2>3. pc' # "upgrade"
    BY <2>2
  <2> QED BY <1>3, <2>1, <2>3
<1>5. CASE DataEof \/ ChunkDone \/ Accept
  BY <1>5 DEF DataEof, ChunkDone, Accept
<1>6. CASE Ending
  <2>1. task' # "running" /\ UNCHANGED stream /\ UNCHANGED pc /\ task = "running"
    BY <1>6, EndingEnds
  <2>2. CASE ChunkAbandoned
    <3>1. BytesKept \/ BytesTaken
      BY <1>3, <2>2 DEF ChunkAbandoned
    <3>2. pc # "upgrade"
      BY <2>2 DEF ChunkAbandoned, Running
    <3> QED BY <2>1, <3>1, <3>2
  <2>3. CASE ~ChunkAbandoned
    <3>1. BytesKept
      BY <1>6, <2>3, Zenon DEF Ending, Ends, ChunkEof, NotText, AcceptPanics, CommandEof,
         Unanswerable, Timeout, IoError
    <3> QED BY <2>1, <3>1
  <2> QED BY <2>2, <2>3
<1> QED BY <1>1, <1>2, <1>4, <1>5, <1>6 DEF Next, SessionStep, Ending

\* Every step reads at most one line, the next one, and forgets none; only
\* the handshake changes the protection.
LEMMA OrderedStep ==
    ASSUME BytesInv, SessionInv, Ordered, [Next]_vars
    PROVE  /\ Ordered' /\ Grown
           /\ Consumed' = Consumed \/ (BytesTaken /\ Consumed' = Consumed + 1)
           /\ ClientSends \/ BytesFilled \/ BytesKept => Consumed' = Consumed
           /\ BytesTaken => Consumed' = Consumed + 1
           /\ Conn!SentVia' = Conn!SentVia \/ HandshakeOk
<1>0. /\ Len(script) \in Nat /\ Len(rbuf) \in Nat /\ Len(wire) \in Nat
      /\ rbuf # <<>> => Len(Tail(rbuf)) = Len(rbuf) - 1
  BY Lengths, HeadTailProperties DEF BytesInv
<1>1. Grown
  BY <1>0, StepBytes, SendOrdered DEF Grown, BytesFilled, BytesKept, BytesTaken
<1>2. BytesTaken => Consumed' = Consumed + 1
  BY <1>0 DEF BytesTaken, Consumed
<1>3. ClientSends \/ BytesKept => Consumed' = Consumed
  BY SendOrdered DEF BytesKept, Consumed
<1>4. BytesFilled => Consumed' = Consumed
  <2> SUFFICES ASSUME BytesFilled PROVE Consumed' = Consumed
    OBVIOUS
  <2>1. PICK n \in 1..Len(wire) :
          rbuf = <<>> /\ rbuf' = SubSeq(wire, 1, n) /\ wire' = SubSeq(wire, n + 1, Len(wire))
    BY DEF BytesFilled, Conn!Fill
  <2>2. Len(rbuf') = n /\ Len(wire') = Len(wire) - n /\ Len(rbuf) = 0
    BY <1>0, <2>1 DEF BytesInv
  <2> QED BY <1>0, <2>2 DEF BytesFilled, Consumed
<1>5. Ordered' /\ (Conn!SentVia' = Conn!SentVia \/ HandshakeOk)
  <2>1. CASE ClientSends
    BY <2>1, SendOrdered DEF Conn!SentVia, ClientSends, Conn!Arrive
  <2>2. CASE Conn!Fill /\ UNCHANGED <<script, pc, task>> /\ pc # "upgrade"
    BY <2>2, FillOrdered DEF Conn!SentVia, Conn!Fill
  <2>3. CASE BytesTaken /\ UNCHANGED stream /\ pc' # "upgrade"
    BY <2>3, TakeOrdered DEF Conn!SentVia
  <2>4. CASE StartUpgrade
    <3>1. /\ BytesTaken /\ stream = "plain"
          /\ \/ rbuf' = <<>> /\ stream' = "empty"
             \/ task' = "buffer" /\ stream' = "plain"
      BY <2>4 DEF StartUpgrade, BytesTaken, client
    <3>2. Conn!SentVia' = Conn!SentVia
      BY <3>1 DEF Conn!SentVia
    <3>3. task' = "running" /\ pc' = "upgrade" => rbuf' = <<>>
      BY <3>1
    <3> QED BY <3>1, <3>2, <3>3, TakeOrdered
  <2>5. CASE HandshakeOk
    <3>1. /\ BytesKept /\ wire = <<>> /\ pc' = "cmd" /\ task = "running" /\ pc = "upgrade"
      BY <2>5 DEF HandshakeOk, Running, Conn!UpgradeOk, BytesKept, client
    <3>2. rbuf = <<>>
      BY <3>1 DEF Ordered
    <3> QED BY <2>5, <3>1, <3>2, KeepOrdered
  <2>6. CASE HandshakeFails
    <3>1. /\ BytesKept /\ stream' = "plain" /\ task' = "io" /\ Running("upgrade")
      BY <2>6 DEF HandshakeFails, Conn!UpgradeFails, BytesKept, client
    <3>2. stream = "empty"
      BY <3>1 DEF SessionInv, Running
    <3>3. Conn!SentVia' = Conn!SentVia
      BY <3>1, <3>2 DEF Conn!SentVia
    <3> QED BY <3>1, <3>3, KeepOrdered
  <2>7. CASE /\ BytesKept /\ UNCHANGED stream
             /\ task' = "running" /\ pc' = "upgrade" => task = "running" /\ pc = "upgrade"
    BY <2>7, KeepOrdered DEF Conn!SentVia
  <2> QED BY <2>1, <2>2, <2>3, <2>4, <2>5, <2>6, <2>7, StepKinds
<1> QED BY <1>1, <1>2, <1>3, <1>4, <1>5, StepBytes

-----------------------------------------------------------------------------
(* The HELO and the envelope *)

Enders == {"rset", "helo", "quit"}

HeloInv ==
    helo # NoId =>
        /\ helo <= Consumed /\ script[helo].kind = "helo"
        /\ \A i \in helo..Consumed : script[i].via = Conn!SentVia

EnvelopeInv ==
    envelope # NoEnvelope =>
        /\ helo # NoId /\ helo < envelope.mail /\ envelope.mail <= Consumed
        /\ script[envelope.mail].kind = "mail"
        /\ envelope.rcpt # NoId =>
              /\ envelope.mail < envelope.rcpt /\ envelope.rcpt <= Consumed
              /\ script[envelope.rcpt].kind = "rcpt"
        /\ ~shut => \A i \in envelope.mail..Consumed : script[i].kind \notin Enders
        /\ \A i \in DOMAIN accepted : accepted[i].end < envelope.mail

EndsBefore == \A i \in DOMAIN accepted : accepted[i].end <= Consumed

\* A step that leaves the HELO and the envelope alone reads no line that
\* would end an envelope, unless it is the QUIT that shuts down.
EnvelopeKept ==
    /\ helo' = helo /\ envelope' = envelope
    /\ shut => shut'
    /\ envelope # NoEnvelope =>
          /\ accepted' = accepted
          /\ ClientSends \/ BytesFilled \/ BytesKept \/ shut' \/ script[ThisId].kind \notin Enders

LEMMA EnvelopeSteps ==
    ASSUME SessionInv, [Next]_vars
    PROVE  \/ EnvelopeKept
           \/ HandleHelo \/ HandleMail \/ HandleRcpt \/ HandleRset \/ HandshakeOk
           \/ HandleData \/ HandleBdat
<1> USE DEF client, conn, session
<1>1. CASE ClientSends \/ ClientCloses \/ NextMessage \/ Fill \/ Over \/ UNCHANGED vars
  <2>1. /\ UNCHANGED <<helo, envelope, shut, accepted>>
        /\ ClientSends \/ BytesFilled \/ BytesKept
    BY <1>1, Zenon DEF ClientSends, ClientCloses, ServerUnchanged, NextMessage, Fill, Over, vars,
       BytesFilled, BytesKept
  <2> QED BY <2>1, Zenon DEF EnvelopeKept
<1>2. CASE HandleOther \/ HandleStarttls \/ HandleTooEarly \/ StartUpgrade
  <2>1. /\ UNCHANGED <<helo, envelope, shut, accepted>>
        /\ script[ThisId].kind \in {"noop", "bad", "dot", "utf8", "starttls", "data"} \cup BdatKinds
    BY <1>2, Zenon DEF HandleOther, HandleStarttls, HandleTooEarly, StartUpgrade, Command, TakeLine
  <2>2. script[ThisId].kind \notin Enders
    BY <2>1 DEF Enders, BdatKinds, Chunk
  <2> QED BY <2>1, <2>2, Zenon DEF EnvelopeKept
<1>3. CASE HandleQuit
  <2>1. UNCHANGED <<helo, envelope, accepted>> /\ shut' = TRUE
    BY <1>3, Zenon DEF HandleQuit
  <2> QED BY <2>1, Zenon DEF EnvelopeKept
<1>4. CASE ReadData \/ DataEof \/ ReadChunk \/ ChunkDone \/ NextChunk \/ ExpectedBdat \/ Accept
  <2>1. task = "running" /\ pc \in Receiving /\ UNCHANGED <<helo, envelope, shut>>
    BY <1>4, Zenon DEF Running, Receiving, ReadData, DataEof, ReadChunk, ChunkDone, NextChunk,
       ExpectedBdat, Accept
  <2>2. envelope = NoEnvelope
    BY <2>1 DEF SessionInv
  <2> QED BY <2>1, <2>2, Zenon DEF EnvelopeKept
<1>5. CASE HandshakeFails
  <2>1. UNCHANGED <<helo, envelope, shut, accepted>> /\ BytesKept
    BY <1>5, Zenon DEF HandshakeFails, Conn!UpgradeFails, BytesKept
  <2> QED BY <2>1, Zenon DEF EnvelopeKept
<1>6. CASE Ending
  <2>1. UNCHANGED <<helo, envelope, accepted>>
    BY <1>6, EndingEnds
  <2>2. CASE ChunkAbandoned
    <3>1. task = "running" /\ pc \in Receiving
      BY <2>2 DEF ChunkAbandoned, Running, Receiving
    <3>4. shut' = shut \/ shut' = TRUE
      BY <2>2, Zenon DEF ChunkAbandoned
    <3>2. envelope = NoEnvelope
      BY <3>1 DEF SessionInv
    <3> QED BY <2>1, <3>2, <3>4, Zenon DEF EnvelopeKept
  <2>3. CASE ~ChunkAbandoned
    <3>1. BytesKept /\ UNCHANGED shut
      BY <1>6, <2>3, Zenon DEF Ending, Ends, ChunkEof, NotText, AcceptPanics, CommandEof,
         Unanswerable, Timeout, IoError, BytesKept
    <3> QED BY <2>1, <3>1, Zenon DEF EnvelopeKept
  <2> QED BY <2>2, <2>3
<1> QED BY <1>1, <1>2, <1>3, <1>4, <1>5, <1>6 DEF Next, SessionStep, Ending

\* What a line that has been read says stays; the line read last is the one
\* behind them.
LEMMA LinesStay ==
    ASSUME BytesInv, SessionInv, Ordered, [Next]_vars
    PROVE  /\ Consumed \in Nat /\ Consumed <= Len(script) /\ Len(script) \in Nat
           /\ Consumed' \in {Consumed, Consumed + 1}
           /\ \A k \in 1..Consumed : script'[k] = script[k]
           /\ Consumed' = Consumed + 1 =>
                 /\ BytesTaken /\ ThisId = Consumed + 1 /\ script' = script
                 /\ script[ThisId].via = Conn!SentVia
<1>1. Consumed \in Nat /\ Consumed <= Len(script) /\ Len(script) \in Nat
  BY Lengths DEF Ordered, Consumed
<1>2. /\ Consumed' = Consumed \/ (BytesTaken /\ Consumed' = Consumed + 1)
      /\ \A k \in 1..Len(script) : script'[k] = script[k]
  BY OrderedStep DEF Grown
<1>3. ASSUME Consumed' = Consumed + 1
      PROVE  /\ BytesTaken /\ ThisId = Consumed + 1 /\ script' = script
             /\ script[ThisId].via = Conn!SentVia
  <2>1. BytesTaken /\ rbuf # <<>>
    BY <1>1, <1>2, <1>3 DEF BytesTaken
  <2> QED BY <2>1, HeadIsNext DEF BytesTaken
<1> QED BY <1>1, <1>2, <1>3

LEMMA HeloStep ==
    ASSUME IInv, Ordered, HeloInv, [Next]_vars
    PROVE  HeloInv'
<1>0. BytesInv /\ SessionInv /\ helo \in Ids \cup {NoId}
  BY DEF IInv, SessionInv
<1>1. CASE HandleHelo
  <2>1. helo' = ThisId /\ script[ThisId].kind = "helo" /\ BytesTaken
    BY <1>1, Zenon DEF HandleHelo, Command, TakeLine, Conn!Take, BytesTaken, client
  <2>2. Consumed' = Consumed + 1 /\ ~HandshakeOk
    <3>1. ~HandshakeOk
      BY <1>1, Zenon DEF HandleHelo, Command, Running, HandshakeOk
    <3> QED BY <1>0, <2>1, <3>1, OrderedStep
  <2>3. /\ helo' = Consumed' /\ script'[Consumed'] = script[ThisId]
        /\ script[ThisId].via = Conn!SentVia /\ Conn!SentVia' = Conn!SentVia /\ Consumed' \in Nat
    BY <1>0, <2>1, <2>2, LinesStay, OrderedStep
  <2>4. helo' <= Consumed' /\ \A i \in helo'..Consumed' : i = Consumed'
    BY <2>3
  <2>5. script'[helo'].kind = "helo"
    BY <2>1, <2>3
  <2>6. \A i \in helo'..Consumed' : script'[i].via = Conn!SentVia'
    BY <2>3, <2>4
  <2> QED BY <2>4, <2>5, <2>6 DEF HeloInv
<1>2. CASE HandshakeOk
  BY <1>2 DEF HandshakeOk, HeloInv
<1>3. CASE helo' = helo /\ ~HandshakeOk
  <2> SUFFICES ASSUME helo # NoId
               PROVE  /\ helo <= Consumed' /\ script'[helo].kind = "helo"
                      /\ \A i \in helo..Consumed' : script'[i].via = Conn!SentVia'
    BY <1>3 DEF HeloInv
  <2>1. helo \in Nat \ {0}
    BY <1>0 DEF Ids, NoId
  <2>2. Conn!SentVia' = Conn!SentVia
    BY <1>0, <1>3, OrderedStep
  <2>3. helo \in 1..Consumed /\ script'[helo] = script[helo]
    BY <1>0, <2>1, LinesStay DEF HeloInv
  <2>4. ASSUME NEW i \in helo..Consumed' PROVE script'[i].via = Conn!SentVia'
    <3>1. CASE i \in helo..Consumed
      <4>1. script'[i] = script[i]
        BY <1>0, <2>1, <3>1, LinesStay
      <4> QED BY <2>2, <3>1, <4>1 DEF HeloInv
    <3>2. CASE i = Consumed + 1 /\ Consumed' = Consumed + 1
      BY <1>0, <2>2, <3>2, LinesStay
    <3>3. i \in helo..Consumed \/ (i = Consumed + 1 /\ Consumed' = Consumed + 1)
      BY <1>0, <2>1, LinesStay
    <3> QED BY <3>1, <3>2, <3>3
  <2>5. helo <= Consumed'
    BY <1>0, <2>3, LinesStay
  <2> QED BY <2>3, <2>4, <2>5 DEF HeloInv
<1>4. HandleHelo \/ HandshakeOk \/ helo' = helo
  <2>1. HandleMail \/ HandleRcpt \/ HandleRset \/ HandleData \/ HandleBdat => helo' = helo
    BY Zenon DEF HandleMail, HandleRcpt, HandleRset, HandleData, HandleBdat, BeginMessage
  <2> QED BY <1>0, <2>1, EnvelopeSteps DEF EnvelopeKept
<1> QED BY <1>1, <1>2, <1>3, <1>4

LEMMA EnvelopeStep ==
    ASSUME IInv, Ordered, HeloInv, EnvelopeInv, EndsBefore, [Next]_vars
    PROVE  EnvelopeInv'
<1>0. /\ BytesInv /\ SessionInv /\ helo \in Ids \cup {NoId} /\ helo \in Nat
      /\ envelope \in [mail : Ids, rcpt : Ids \cup {NoId}] \cup {NoEnvelope}
      /\ accepted \in Seq(Messages)
  BY DEF IInv, SessionInv, Ids, NoId
<1>1. CASE envelope' = NoEnvelope
  BY <1>1 DEF EnvelopeInv
<1>2. CASE EnvelopeKept /\ envelope # NoEnvelope
  <2>1. /\ helo' = helo /\ envelope' = envelope /\ accepted' = accepted
        /\ envelope.mail \in Nat \ {0} /\ envelope.rcpt \in Nat
    BY <1>0, <1>2 DEF EnvelopeKept, Ids, NoId
  <2>2. /\ helo # NoId /\ helo < envelope.mail /\ envelope.mail <= Consumed
        /\ script[envelope.mail].kind = "mail"
        /\ envelope.rcpt # NoId =>
              /\ envelope.mail < envelope.rcpt /\ envelope.rcpt <= Consumed
              /\ script[envelope.rcpt].kind = "rcpt"
    BY <1>2 DEF EnvelopeInv
  <2>3. /\ Consumed \in Nat /\ Consumed' \in {Consumed, Consumed + 1}
        /\ \A k \in 1..Consumed : script'[k] = script[k]
    BY <1>0, LinesStay
  <2>4. ASSUME ~shut', NEW i \in envelope.mail..Consumed' PROVE script'[i].kind \notin Enders
    <3>1. ~shut
      BY <1>2, <2>4, Zenon DEF EnvelopeKept
    <3>2. CASE i \in envelope.mail..Consumed
      BY <1>2, <2>1, <2>3, <3>1, <3>2 DEF EnvelopeInv
    <3>3. CASE i = Consumed + 1 /\ Consumed' = Consumed + 1
      <4>1. ~ (ClientSends \/ BytesFilled \/ BytesKept)
        BY <1>0, <2>3, <3>3, OrderedStep
      <4>2. script[ThisId].kind \notin Enders
        BY <1>2, <2>4, <4>1, Zenon DEF EnvelopeKept
      <4>3. ThisId = i /\ script' = script
        BY <1>0, <3>3, LinesStay
      <4> QED BY <4>2, <4>3
    <3> QED BY <2>1, <2>3, <3>2, <3>3
  <2>5. script'[envelope.mail] = script[envelope.mail]
    BY <2>1, <2>2, <2>3
  <2>6. envelope.rcpt # NoId => script'[envelope.rcpt] = script[envelope.rcpt]
    BY <2>1, <2>2, <2>3 DEF NoId
  <2>7. \A i \in DOMAIN accepted : accepted[i].end < envelope.mail
    BY <1>2 DEF EnvelopeInv
  <2> QED BY <2>1, <2>2, <2>3, <2>4, <2>5, <2>6, <2>7 DEF EnvelopeInv
<1>3. CASE HandleMail /\ envelope' # NoEnvelope
  <2>1. CASE envelope' = envelope
    <3>1. BytesTaken /\ script[ThisId].kind = "mail" /\ UNCHANGED <<helo, shut, accepted>>
      BY <1>3, Zenon DEF HandleMail, Command, TakeLine, Conn!Take, BytesTaken, client
    <3>2. script[ThisId].kind \notin Enders
      BY <3>1 DEF Enders
    <3>3. EnvelopeKept
      BY <2>1, <3>1, <3>2, Zenon DEF EnvelopeKept
    <3> QED BY <1>2, <1>3, <2>1, <3>3
  <2>2. CASE envelope' # envelope
    <3>1. /\ helo # NoId /\ envelope' = [mail |-> ThisId, rcpt |-> NoId]
          /\ BytesTaken /\ script[ThisId].kind = "mail" /\ UNCHANGED <<helo, accepted>>
      BY <1>3, <2>2, Zenon DEF HandleMail, Command, TakeLine, Conn!Take, BytesTaken, client
    <3>2. /\ Consumed \in Nat /\ Consumed' = Consumed + 1 /\ ThisId = Consumed'
          /\ script' = script /\ helo <= Consumed
      BY <1>0, <3>1, OrderedStep, LinesStay DEF HeloInv
    <3>3. envelope'.mail = Consumed' /\ envelope'.rcpt = NoId
      BY <3>1, <3>2
    <3>4. script'[envelope'.mail].kind = "mail"
      BY <3>1, <3>2, <3>3
    <3>5. \A i \in envelope'.mail..Consumed' : script'[i].kind \notin Enders
      BY <3>2, <3>3, <3>4 DEF Enders
    <3>6. \A i \in DOMAIN accepted' : accepted'[i].end < envelope'.mail
      <4>1. \A i \in DOMAIN accepted : accepted[i].end \in Nat /\ accepted[i].end <= Consumed
        <5>1. \A i \in DOMAIN accepted : accepted[i] \in Messages
          BY <1>0, ElementOfSeq
        <5> QED BY <5>1 DEF EndsBefore, Messages, Ids
      <4> QED BY <3>1, <3>2, <3>3, <4>1
    <3>7. helo' # NoId /\ helo' < envelope'.mail /\ envelope'.mail <= Consumed'
      BY <1>0, <3>1, <3>2, <3>3
    <3> QED BY <3>3, <3>4, <3>5, <3>6, <3>7 DEF EnvelopeInv
  <2> QED BY <2>1, <2>2
<1>4. CASE HandleRcpt /\ envelope' # NoEnvelope
  <2>1. /\ envelope # NoEnvelope /\ envelope' = [envelope EXCEPT !.rcpt = ThisId]
        /\ BytesTaken /\ script[ThisId].kind = "rcpt" /\ UNCHANGED <<helo, shut, accepted>>
    BY <1>4, Zenon DEF HandleRcpt, Command, TakeLine, Conn!Take, BytesTaken, client
  <2>2. /\ Consumed \in Nat /\ Consumed' = Consumed + 1 /\ ThisId = Consumed'
        /\ script' = script
    BY <1>0, <2>1, OrderedStep, LinesStay
  <2>3. envelope'.mail = envelope.mail /\ envelope'.rcpt = Consumed' /\ envelope.mail \in Nat \ {0}
    BY <1>0, <2>1, <2>2 DEF Ids
  <2>4. /\ helo # NoId /\ helo < envelope.mail /\ envelope.mail <= Consumed
        /\ script[envelope.mail].kind = "mail"
        /\ \A i \in DOMAIN accepted : accepted[i].end < envelope.mail
    BY <2>1 DEF EnvelopeInv
  <2>5. ASSUME ~shut', NEW i \in envelope.mail..Consumed' PROVE script'[i].kind \notin Enders
    <3>1. ~shut
      BY <2>1, <2>5, Zenon
    <3>2. CASE i \in envelope.mail..Consumed
      BY <2>1, <2>2, <3>1, <3>2 DEF EnvelopeInv
    <3>3. CASE i = Consumed'
      BY <2>1, <2>2, <3>3 DEF Enders
    <3> QED BY <2>2, <2>3, <3>2, <3>3
  <2>6. script'[envelope'.rcpt].kind = "rcpt" /\ script'[envelope'.mail].kind = "mail"
    BY <2>1, <2>2, <2>3, <2>4
  <2>7. envelope'.mail < envelope'.rcpt /\ envelope'.rcpt <= Consumed' /\ envelope'.mail <= Consumed'
    BY <2>2, <2>3, <2>4
  <2> QED BY <2>1, <2>3, <2>4, <2>5, <2>6, <2>7 DEF EnvelopeInv
<1>5. \/ HandleHelo \/ HandleRset \/ HandshakeOk \/ HandleData \/ HandleBdat
      => envelope' = NoEnvelope
  BY Zenon DEF HandleHelo, HandleRset, HandshakeOk, HandleData, HandleBdat, BeginMessage
<1>6. EnvelopeKept /\ envelope = NoEnvelope => envelope' = NoEnvelope
  BY DEF EnvelopeKept
<1> QED BY <1>0, <1>1, <1>2, <1>3, <1>4, <1>5, <1>6, EnvelopeSteps

-----------------------------------------------------------------------------
(* The message and those accepted before *)

\* The properties as statements about the lines alone.
Asked(s, mail, rcpt, start) ==
    /\ s[mail].kind = "mail" /\ s[rcpt].kind = "rcpt"
    /\ s[start].kind \in BdatKinds \cup {"data"}
    /\ mail < rcpt /\ rcpt < start
    /\ \A i \in mail..start : s[i].kind \notin Enders /\ s[i].via = s[mail].via
    /\ \E h \in 1 .. mail - 1 : s[h].kind = "helo" /\ s[h].via = s[mail].via

Dotted(s, start, end) == s[end].kind = "dot" /\ end > start + 1

MessageInv ==
    msg # NoMessage =>
        /\ msg.start <= msg.end /\ msg.end <= Consumed
        /\ script[msg.start].via = Conn!SentVia
        /\ ~shut => Asked(script, msg.mail, msg.rcpt, msg.start)
        /\ \A i \in DOMAIN accepted : accepted[i].end < msg.mail

InChunks == script[msg.start].kind \in BdatKinds
InText   == script[msg.start].kind = "data"

\* How much of the message has been read at each place where its reader waits.
ProgressInv ==
    task = "running" =>
        /\ pc \notin Receiving => msg = NoMessage
        /\ pc = "data" => InText /\ msg.end = Consumed /\ msg.got = msg.end - msg.start
        /\ pc = "chunk" => InChunks /\ msg.got + left = msg.due
        /\ pc \in {"bdat", "orphan"} => InChunks /\ msg.got = msg.due
        /\ pc = "accept" =>
              \/ InChunks /\ msg.got = msg.due
              \/ InText /\ (Dotted(script, msg.start, msg.end) \/ AtEof)

AcceptedInv ==
    /\ \A i \in DOMAIN accepted :
          /\ accepted[i].start <= accepted[i].end
          /\ Asked(script, accepted[i].mail, accepted[i].rcpt, accepted[i].start)
          /\ script[accepted[i].start].kind \in BdatKinds => accepted[i].got = accepted[i].due
          /\ (/\ script[accepted[i].start].kind = "data"
              /\ ~ Dotted(script, accepted[i].start, accepted[i].end))
             => i = Len(accepted) /\ AtEof /\ msg = NoMessage
    /\ UsedOnce

TextsInv == \A i \in DOMAIN accepted : accepted[i].text

LEMMA MessageNumbers ==
    ASSUME NEW m \in Messages
    PROVE  /\ m.mail \in Nat \ {0} /\ m.rcpt \in Nat \ {0} /\ m.start \in Nat \ {0}
           /\ m.end \in Nat \ {0} /\ m.got \in Nat /\ m.due \in Nat
BY DEF Messages, Ids

LEMMA AcceptedTyped ==
    ASSUME SessionInv
    PROVE  /\ \A i \in DOMAIN accepted : accepted[i] \in Messages
           /\ DOMAIN accepted = 1..Len(accepted) /\ Len(accepted) \in Nat
BY ElementOfSeq DEF SessionInv

\* What was asked for stays asked for when the client sends more.
LEMMA AskedStays ==
    ASSUME NEW s, NEW t, NEW mail \in Nat, NEW rcpt \in Nat, NEW start \in Nat,
           NEW n \in Nat, start <= n,
           \A k \in 1..n : t[k] = s[k],
           mail # 0, Asked(s, mail, rcpt, start)
    PROVE  Asked(t, mail, rcpt, start)
<1>1. mail < rcpt /\ rcpt < start
  BY DEF Asked
<1>2. t[mail] = s[mail] /\ t[rcpt] = s[rcpt] /\ t[start] = s[start]
  BY <1>1
<1>3. \A i \in mail..start : t[i] = s[i]
  BY <1>1
<1>4. \A h \in 1 .. mail - 1 : t[h] = s[h]
  BY <1>1
<1> QED BY <1>1, <1>2, <1>3, <1>4 DEF Asked

LEMMA EofStays ==
    ASSUME AtEof, [Next]_vars, FlagsInv
    PROVE  AtEof'
<1>1. closed = TRUE /\ wire = <<>> /\ rbuf = <<>>
  BY Zenon DEF AtEof, FlagsInv
<1>2. ~ClientSends
  BY <1>1 DEF ClientSends
<1>3. ~BytesFilled
  <2>1. Len(wire) = 0
    BY <1>1
  <2> QED BY <2>1 DEF BytesFilled, Conn!Fill
<1>4. wire' = <<>> /\ rbuf' = <<>>
  BY <1>1, <1>2, <1>3, StepBytes DEF BytesKept, BytesTaken
<1>5. closed' = closed \/ closed' = TRUE
  <2> USE DEF client
  <2>1. CASE ClientCloses \/ NextMessage \/ Fill \/ Over \/ UNCHANGED vars
    BY <2>1, Zenon DEF ClientCloses, NextMessage, Fill, Over, vars
  <2>2. CASE \/ HandleOther \/ HandleHelo \/ HandleMail \/ HandleRcpt \/ HandleRset \/ HandleQuit
             \/ HandleStarttls \/ HandleTooEarly \/ HandleData \/ HandleBdat
             \/ ReadData \/ ReadChunk \/ NextChunk \/ ExpectedBdat
    BY <2>2, Zenon DEF Command, TakeLine, HandleOther, HandleHelo, HandleMail, HandleRcpt,
       HandleRset, HandleQuit, HandleStarttls, HandleTooEarly, HandleData, HandleBdat, ReadData,
       ReadChunk, NextChunk, ExpectedBdat
  <2>3. CASE StartUpgrade \/ HandshakeOk \/ HandshakeFails \/ DataEof \/ ChunkDone \/ Accept
    BY <2>3, Zenon DEF StartUpgrade, HandshakeOk, HandshakeFails, DataEof, ChunkDone, Accept
  <2>4. CASE Ending
    BY <2>4, Zenon DEF Ending, Ends, ChunkEof, ChunkAbandoned, TakeLine, NotText, AcceptPanics,
       CommandEof, Unanswerable, Timeout, IoError
  <2> QED BY <1>2, <2>1, <2>2, <2>3, <2>4 DEF Next, SessionStep, Ending
<1> QED BY <1>1, <1>4, <1>5, Zenon DEF AtEof

\* The steps that neither begin, read nor accept a message.
MessageKept ==
    /\ msg' = msg /\ accepted' = accepted
    /\ shut => shut'
    /\ task' = "running" =>
          /\ task = "running"
          /\ \/ pc' = pc /\ left' = left /\ (pc \in {"data", "chunk"} => Consumed' = Consumed)
             \/ pc \notin Receiving /\ pc' \notin Receiving

LEMMA MessageSteps ==
    ASSUME BytesInv, SessionInv, Ordered, [Next]_vars
    PROVE  \/ MessageKept
           \/ HandleData \/ HandleBdat
           \/ ReadData \/ DataEof \/ ReadChunk \/ ChunkDone \/ NextChunk
           \/ Accept
<1> USE DEF client, conn, session, chunk
<1>1. CASE ClientSends \/ ClientCloses \/ Fill \/ Over \/ UNCHANGED vars
  <2>1. /\ UNCHANGED <<msg, accepted, shut, task, pc, left>>
        /\ ClientSends \/ BytesFilled \/ BytesKept
    BY <1>1, Zenon DEF ClientSends, ClientCloses, ServerUnchanged, Fill, Over, vars, BytesFilled,
       BytesKept
  <2>2. Consumed' = Consumed
    BY <2>1, OrderedStep
  <2> QED BY <2>1, <2>2, Zenon DEF MessageKept
<1>2. CASE NextMessage
  <2>1. /\ UNCHANGED <<msg, accepted, shut, task>> /\ pc = "start" /\ pc' = "cmd"
    BY <1>2, Zenon DEF NextMessage, Running
  <2>2. pc \notin Receiving /\ pc' \notin Receiving
    BY <2>1 DEF Receiving
  <2> QED BY <2>1, <2>2, Zenon DEF MessageKept
<1>3. CASE \/ HandleOther \/ HandleHelo \/ HandleMail \/ HandleRcpt \/ HandleRset \/ HandleQuit
           \/ HandleStarttls \/ HandleTooEarly
  <2>1. UNCHANGED <<msg, accepted, task>> /\ pc = "cmd" /\ pc' = "cmd"
    BY <1>3, Zenon DEF Command, Running, HandleOther, HandleHelo, HandleMail, HandleRcpt,
       HandleRset, HandleQuit, HandleStarttls, HandleTooEarly
  <2>2. shut' = shut \/ shut' = TRUE
    BY <1>3, Zenon DEF HandleOther, HandleHelo, HandleMail, HandleRcpt, HandleRset, HandleQuit,
       HandleStarttls, HandleTooEarly
  <2>3. pc \notin Receiving /\ pc' \notin Receiving
    BY <2>1 DEF Receiving
  <2> QED BY <2>1, <2>2, <2>3, Zenon DEF MessageKept
<1>4. CASE StartUpgrade \/ HandshakeOk \/ HandshakeFails
  <2>1. /\ UNCHANGED <<msg, accepted, shut>> /\ task = "running"
        /\ pc \in {"cmd", "upgrade"} /\ pc' \in {"cmd", "upgrade"}
    BY <1>4, Zenon DEF StartUpgrade, HandshakeOk, HandshakeFails, Running
  <2>2. pc \notin Receiving /\ pc' \notin Receiving
    BY <2>1 DEF Receiving
  <2> QED BY <2>1, <2>2, Zenon DEF MessageKept
<1>5. CASE ExpectedBdat
  <2>1. UNCHANGED <<msg, accepted, task, shut, pc, left>> /\ pc = "bdat"
    BY <1>5, Zenon DEF ExpectedBdat, Running
  <2>2. pc \notin {"data", "chunk"}
    BY <2>1
  <2> QED BY <2>1, <2>2, Zenon DEF MessageKept
<1>6. CASE Ending
  <2>1. UNCHANGED <<msg, accepted>> /\ task' # "running"
    BY <1>6, EndingEnds
  <2>2. shut' = shut \/ shut' = TRUE
    BY <1>6, Zenon DEF Ending, Ends, ChunkEof, ChunkAbandoned, NotText, AcceptPanics, CommandEof,
       Unanswerable, Timeout, IoError
  <2> QED BY <2>1, <2>2, Zenon DEF MessageKept
<1> QED BY <1>1, <1>2, <1>3, <1>4, <1>5, <1>6 DEF Next, SessionStep, Ending

LEMMA AcceptedLinesStay ==
    ASSUME IInv, Ordered, EndsBefore, AcceptedInv, [Next]_vars,
           NEW i \in DOMAIN accepted
    PROVE  /\ script'[accepted[i].start] = script[accepted[i].start]
           /\ script'[accepted[i].end] = script[accepted[i].end]
           /\ Asked(script', accepted[i].mail, accepted[i].rcpt, accepted[i].start)
           /\ accepted[i].end <= Consumed'
<1>0. BytesInv /\ SessionInv
  BY DEF IInv
<1>1. /\ accepted[i].mail \in Nat \ {0} /\ accepted[i].rcpt \in Nat \ {0}
      /\ accepted[i].start \in Nat \ {0} /\ accepted[i].end \in Nat \ {0}
  BY <1>0, AcceptedTyped, MessageNumbers
<1>2. accepted[i].start <= accepted[i].end /\ accepted[i].end <= Consumed
  BY DEF AcceptedInv, EndsBefore
<1>3. /\ Consumed \in Nat /\ Consumed' \in {Consumed, Consumed + 1}
      /\ \A k \in 1..Consumed : script'[k] = script[k]
  BY <1>0, LinesStay
<1>4. Asked(script, accepted[i].mail, accepted[i].rcpt, accepted[i].start)
  BY DEF AcceptedInv
<1>5. Asked(script', accepted[i].mail, accepted[i].rcpt, accepted[i].start)
  <2>1. accepted[i].start <= Consumed
    BY <1>1, <1>2, <1>3
  <2> QED BY <1>1, <1>3, <1>4, <2>1, AskedStays
<1> QED BY <1>1, <1>2, <1>3, <1>5

MessagesInv == MessageInv /\ ProgressInv /\ AcceptedInv /\ EndsBefore

\* While a message is read, or none begins, those accepted before stay good.
LEMMA AcceptedKept ==
    ASSUME IInv, Ordered, EndsBefore, AcceptedInv, [Next]_vars,
           accepted' = accepted,
           \/ msg' = msg
           \/ msg # NoMessage
           \/ ~AtEof
    PROVE  AcceptedInv' /\ EndsBefore'
<1>1. EndsBefore'
  BY AcceptedLinesStay DEF EndsBefore
<1>2. UsedOnce'
  BY DEF AcceptedInv, UsedOnce
<1>3. ASSUME NEW i \in DOMAIN accepted
      PROVE  /\ accepted[i].start <= accepted[i].end
             /\ Asked(script', accepted[i].mail, accepted[i].rcpt, accepted[i].start)
             /\ script'[accepted[i].start].kind \in BdatKinds => accepted[i].got = accepted[i].due
             /\ (/\ script'[accepted[i].start].kind = "data"
                 /\ ~ Dotted(script', accepted[i].start, accepted[i].end))
                => i = Len(accepted) /\ AtEof' /\ msg' = NoMessage
  <2>1. /\ script'[accepted[i].start] = script[accepted[i].start]
        /\ script'[accepted[i].end] = script[accepted[i].end]
        /\ Asked(script', accepted[i].mail, accepted[i].rcpt, accepted[i].start)
    BY AcceptedLinesStay
  <2>2. AtEof => AtEof'
    BY EofStays DEF IInv
  <2> QED BY <2>1, <2>2 DEF AcceptedInv, Dotted
<1> QED BY <1>1, <1>2, <1>3 DEF AcceptedInv

\* So does what has been read of the message.
LEMMA MessageLinesStay ==
    ASSUME IInv, Ordered, MessageInv, [Next]_vars, msg # NoMessage
    PROVE  /\ script'[msg.start] = script[msg.start] /\ script'[msg.end] = script[msg.end]
           /\ msg.end <= Consumed' /\ msg \in Messages
           /\ ~shut => Asked(script', msg.mail, msg.rcpt, msg.start)
<1>0. BytesInv /\ SessionInv /\ msg \in Messages
  BY DEF IInv, SessionInv
<1>1. /\ msg.mail \in Nat \ {0} /\ msg.rcpt \in Nat \ {0}
      /\ msg.start \in Nat \ {0} /\ msg.end \in Nat \ {0}
  BY <1>0, MessageNumbers
<1>2. msg.start <= msg.end /\ msg.end <= Consumed
  BY DEF MessageInv
<1>3. /\ Consumed \in Nat /\ Consumed' \in {Consumed, Consumed + 1}
      /\ \A k \in 1..Consumed : script'[k] = script[k]
  BY <1>0, LinesStay
<1>4. ASSUME ~shut PROVE Asked(script', msg.mail, msg.rcpt, msg.start)
  <2>1. Asked(script, msg.mail, msg.rcpt, msg.start)
    BY <1>4 DEF MessageInv
  <2>2. msg.start <= Consumed
    BY <1>1, <1>2, <1>3
  <2> QED BY <1>1, <1>3, <2>1, <2>2, AskedStays
<1> QED BY <1>0, <1>1, <1>2, <1>3, <1>4

LEMMA KeptMessages ==
    ASSUME IInv, Ordered, MessagesInv, [Next]_vars, MessageKept
    PROVE  MessagesInv'
<1>0. BytesInv /\ SessionInv /\ FlagsInv /\ msg' = msg /\ accepted' = accepted
  BY DEF IInv, MessageKept
<1>1. AcceptedInv' /\ EndsBefore'
  BY <1>0, AcceptedKept DEF MessagesInv
<1>2. MessageInv'
  <2>1. ASSUME msg # NoMessage
        PROVE  /\ msg.start <= msg.end /\ msg.end <= Consumed'
               /\ script'[msg.start].via = Conn!SentVia'
               /\ ~shut' => Asked(script', msg.mail, msg.rcpt, msg.start)
               /\ \A i \in DOMAIN accepted : accepted[i].end < msg.mail
    <3>1. /\ script'[msg.start] = script[msg.start] /\ msg.end <= Consumed'
          /\ ~shut => Asked(script', msg.mail, msg.rcpt, msg.start)
      BY <2>1, MessageLinesStay DEF MessagesInv
    <3>2. Conn!SentVia' = Conn!SentVia
      <4>1. ~HandshakeOk
        <5>1. ASSUME HandshakeOk PROVE FALSE
          <6>1. task = "running" /\ pc = "upgrade"
            BY <5>1, Zenon DEF HandshakeOk, Running
          <6> QED BY <2>1, <6>1 DEF MessagesInv, ProgressInv, Receiving
        <5> QED BY <5>1
      <4> QED BY <1>0, <4>1, OrderedStep
    <3>3. ~shut' => ~shut
      BY Zenon DEF MessageKept
    <3> QED BY <2>1, <3>1, <3>2, <3>3 DEF MessagesInv, MessageInv
  <2> QED BY <1>0, <2>1 DEF MessageInv
<1>3. ProgressInv'
  <2> SUFFICES ASSUME task' = "running" PROVE ProgressInv'
    BY DEF ProgressInv
  <2>1. /\ task = "running"
        /\ \/ pc' = pc /\ left' = left /\ (pc \in {"data", "chunk"} => Consumed' = Consumed)
           \/ pc \notin Receiving /\ pc' \notin Receiving
    BY DEF MessageKept
  <2>2. CASE pc \notin Receiving /\ pc' \notin Receiving
    <3>1. msg' = NoMessage /\ pc' \notin Receiving
      BY <1>0, <2>1, <2>2 DEF MessagesInv, ProgressInv
    <3> QED BY <3>1 DEF ProgressInv, Receiving
  <2>3. CASE pc' = pc /\ left' = left /\ (pc \in {"data", "chunk"} => Consumed' = Consumed) /\ pc \in Receiving
    <3>1. msg # NoMessage
      <4>1. msg \in Messages
        BY <1>0, <2>1, <2>3 DEF SessionInv
      <4> QED BY <4>1, MessageNumbers DEF NoMessage, NoId
    <3>2. script'[msg.start] = script[msg.start] /\ script'[msg.end] = script[msg.end]
      BY <3>1, MessageLinesStay DEF MessagesInv
    <3>3. AtEof => AtEof'
      BY <1>0, EofStays
    <3> QED BY <1>0, <2>1, <2>3, <3>2, <3>3
            DEF MessagesInv, ProgressInv, InChunks, InText, Dotted
  <2> QED BY <2>1, <2>2, <2>3
<1> QED BY <1>1, <1>2, <1>3 DEF MessagesInv

LEMMA ReadIsNotEof ==
    ASSUME BytesTaken
    PROVE  ~AtEof
BY Zenon DEF BytesTaken, AtEof

\* A message begins with what its envelope holds and the line just read.
LEMMA BegunMessages ==
    ASSUME IInv, Ordered, HeloInv, EnvelopeInv, MessagesInv, HandleData \/ HandleBdat, [Next]_vars
    PROVE  MessagesInv'
<1>0. /\ BytesInv /\ SessionInv /\ HeloInv /\ EnvelopeInv
      /\ MessageInv /\ ProgressInv /\ AcceptedInv /\ EndsBefore
  BY DEF IInv, MessagesInv
<1>1. /\ task = "running" /\ pc = "cmd" /\ BytesTaken /\ EnvelopeReady
      /\ script[ThisId].kind \in BdatKinds \cup {"data"}
      /\ UNCHANGED <<accepted, task, shut, stream, script>>
  BY Zenon DEF HandleData, HandleBdat, Command, Running, TakeLine, Conn!Take, BytesTaken,
     BeginMessage, client
<1>2. PICK n \in Nat :
        /\ BeginMessage(n)
        /\ \/ pc' = "data" /\ script[ThisId].kind = "data"
           \/ pc' = "chunk" /\ left' = n /\ script[ThisId].kind \in BdatKinds
  <2>1. CASE HandleData
    BY <2>1, Zenon DEF HandleData, Command, TakeLine
  <2>2. CASE HandleBdat
    <3>1. PICK c \in {Chunk[kind] : kind \in BdatKinds} :
            /\ left' = c.size /\ BeginMessage(c.size) /\ pc' = "chunk"
            /\ script[ThisId].kind \in BdatKinds
      BY <2>2, Zenon DEF HandleBdat, TakeLine, BeginChunk
    <3>2. c.size \in Nat
      BY ChunkTyped
    <3> QED BY <3>1, <3>2
  <2> QED BY <2>1, <2>2
<1>3. msg' = [mail |-> envelope.mail, rcpt |-> envelope.rcpt, start |-> ThisId, end |-> ThisId,
              got |-> 0, due |-> n, text |-> TRUE]
  BY <1>2, Zenon DEF BeginMessage
<1>4. /\ msg'.mail = envelope.mail /\ msg'.rcpt = envelope.rcpt
      /\ msg'.start = ThisId /\ msg'.end = ThisId /\ msg'.got = 0 /\ msg'.due = n
  BY <1>3
<1>5. /\ Consumed \in Nat /\ Consumed' = Consumed + 1 /\ ThisId = Consumed'
      /\ script[ThisId].via = Conn!SentVia /\ Conn!SentVia' = Conn!SentVia
  <2>1. Conn!SentVia' = Conn!SentVia
    BY <1>1 DEF Conn!SentVia
  <2> QED BY <1>0, <1>1, <2>1, OrderedStep, LinesStay
<1>6. msg' # NoMessage
  <2>1. msg'.start # 0
    BY <1>4, <1>5
  <2>2. NoMessage.start = 0
    BY DEF NoMessage, NoId
  <2> QED BY <2>1, <2>2
<1>7. AcceptedInv' /\ EndsBefore'
  BY <1>0, <1>1, ReadIsNotEof, AcceptedKept
<1>8. /\ envelope.mail \in Nat \ {0} /\ envelope.rcpt \in Nat \ {0} /\ helo \in Nat \ {0}
      /\ helo < envelope.mail /\ envelope.mail < envelope.rcpt /\ envelope.rcpt <= Consumed
      /\ helo <= Consumed /\ script[helo].kind = "helo"
      /\ script[envelope.mail].kind = "mail" /\ script[envelope.rcpt].kind = "rcpt"
      /\ \A i \in DOMAIN accepted : accepted[i].end < envelope.mail
  <2>1. envelope.mail \in Ids /\ envelope.rcpt \in Ids /\ envelope # NoEnvelope
    BY <1>0, <1>1, EnvelopeTyped DEF EnvelopeReady
  <2>2. envelope.rcpt # NoId
    BY <1>1 DEF EnvelopeReady
  <2>3. helo # NoId /\ helo \in Ids \cup {NoId}
    BY <1>0, <2>1 DEF EnvelopeInv, SessionInv
  <2> QED BY <1>0, <2>1, <2>2, <2>3 DEF EnvelopeInv, HeloInv, Ids
<1>9. ~shut => Asked(script, envelope.mail, envelope.rcpt, ThisId)
  <2> SUFFICES ASSUME ~shut PROVE Asked(script, envelope.mail, envelope.rcpt, ThisId)
    OBVIOUS
  <2>1. \A i \in helo..Consumed : script[i].via = Conn!SentVia
    BY <1>0, <1>8 DEF HeloInv, NoId
  <2>2. ASSUME NEW i \in envelope.mail..ThisId
        PROVE  script[i].kind \notin Enders /\ script[i].via = Conn!SentVia
    <3>1. CASE i = ThisId
      BY <1>1, <1>5, <3>1 DEF Enders, BdatKinds, Chunk
    <3>2. CASE i \in envelope.mail..Consumed
      <4>1. i \in helo..Consumed
        BY <1>5, <1>8, <3>2
      <4>2. envelope # NoEnvelope
        BY <1>1 DEF EnvelopeReady
      <4> QED BY <1>0, <2>1, <3>2, <4>1, <4>2 DEF EnvelopeInv
    <3> QED BY <1>5, <1>8, <3>1, <3>2
  <2>3. script[helo].via = Conn!SentVia /\ script[envelope.mail].via = Conn!SentVia
    BY <1>5, <1>8, <2>1
  <2>4. helo \in 1 .. envelope.mail - 1
    BY <1>8
  <2>5. envelope.rcpt < ThisId
    BY <1>5, <1>8
  <2> QED BY <1>1, <1>8, <2>2, <2>3, <2>4, <2>5 DEF Asked
<1>10. MessageInv'
  BY <1>1, <1>4, <1>5, <1>8, <1>9 DEF MessageInv
<1>11. ProgressInv'
  <2>1. msg'.end = Consumed' /\ msg'.got = msg'.end - msg'.start
    BY <1>4, <1>5
  <2>2. script'[msg'.start] = script[ThisId]
    BY <1>1, <1>4
  <2>3. CASE pc' = "data" /\ script[ThisId].kind = "data"
    BY <2>1, <2>2, <2>3 DEF ProgressInv, InText, Receiving
  <2>4. CASE pc' = "chunk" /\ left' = n /\ script[ThisId].kind \in BdatKinds
    <3>1. msg'.got + left' = msg'.due
      BY <1>4, <2>4
    <3> QED BY <2>2, <2>4, <3>1 DEF ProgressInv, InChunks, Receiving
  <2> QED BY <1>2, <2>3, <2>4
<1> QED BY <1>7, <1>10, <1>11 DEF MessagesInv

\* While its reader reads on, a message keeps its beginning.
LEMMA ExtendedMessage ==
    ASSUME IInv, Ordered, MessagesInv, [Next]_vars, msg # NoMessage,
           UNCHANGED <<accepted, shut, stream>>,
           msg'.mail = msg.mail, msg'.rcpt = msg.rcpt, msg'.start = msg.start,
           msg'.end = msg.end \/ (BytesTaken /\ msg'.end = ThisId)
    PROVE  /\ MessageInv' /\ AcceptedInv' /\ EndsBefore'
           /\ script'[msg'.start] = script[msg.start] /\ script'[msg.end] = script[msg.end]
           /\ BytesTaken => /\ Consumed' = Consumed + 1 /\ ThisId = Consumed'
                            /\ msg.start <= Consumed /\ script' = script
<1>0. BytesInv /\ SessionInv /\ MessageInv /\ AcceptedInv /\ EndsBefore
  BY DEF IInv, MessagesInv
<1>1. AcceptedInv' /\ EndsBefore'
  BY <1>0, AcceptedKept
<1>2. /\ script'[msg.start] = script[msg.start] /\ script'[msg.end] = script[msg.end]
      /\ msg.end <= Consumed' /\ msg \in Messages
      /\ ~shut => Asked(script', msg.mail, msg.rcpt, msg.start)
  BY <1>0, MessageLinesStay
<1>3. msg.start \in Nat \ {0} /\ msg.end \in Nat \ {0} /\ msg.start <= msg.end /\ msg.end <= Consumed
  BY <1>0, <1>2, MessageNumbers DEF MessageInv
<1>4. Consumed \in Nat /\ Consumed' \in {Consumed, Consumed + 1}
  BY <1>0, LinesStay
<1>5. BytesTaken => /\ Consumed' = Consumed + 1 /\ ThisId = Consumed'
                    /\ msg.start <= Consumed /\ script' = script
  BY <1>0, <1>3, <1>4, OrderedStep, LinesStay
<1>6. msg'.start <= msg'.end /\ msg'.end <= Consumed'
  BY <1>2, <1>3, <1>4, <1>5
<1>7. Conn!SentVia' = Conn!SentVia
  BY DEF Conn!SentVia
<1>8. MessageInv'
  BY <1>0, <1>2, <1>6, <1>7 DEF MessageInv
<1> QED BY <1>1, <1>2, <1>5, <1>8

LEMMA AddedLine ==
    ASSUME msg \in Messages
    PROVE  /\ AddLine.mail = msg.mail /\ AddLine.rcpt = msg.rcpt /\ AddLine.start = msg.start
           /\ AddLine.end = ThisId /\ AddLine.got = msg.got + 1 /\ AddLine.due = msg.due
BY Zenon DEF AddLine, Messages

LEMMA ReadMessages ==
    ASSUME IInv, Ordered, MessagesInv, [Next]_vars,
           ReadData \/ DataEof \/ ReadChunk \/ ChunkDone \/ NextChunk
    PROVE  MessagesInv'
<1>1. /\ task = "running" /\ task' = "running" /\ pc \in Receiving
      /\ UNCHANGED <<accepted, shut, stream>>
  BY Zenon DEF Running, Receiving, TakeLine, Conn!Take, session, conn, ReadData, DataEof,
     ReadChunk, ChunkDone, NextChunk
<1>2. msg \in Messages
  BY <1>1 DEF IInv, SessionInv
<1>3. /\ msg.mail \in Nat \ {0} /\ msg.start \in Nat \ {0} /\ msg.end \in Nat \ {0}
      /\ msg.got \in Nat /\ msg.due \in Nat
  BY <1>2, MessageNumbers
<1>4. msg # NoMessage
  BY <1>3 DEF NoMessage, NoId
<1>5. /\ ProgressInv /\ msg.start <= msg.end /\ msg.end <= Consumed
      /\ Consumed \in Nat
  BY <1>4, LinesStay DEF IInv, MessagesInv, MessageInv
<1>6. \A kinds : TakeLine(kinds) => BytesTaken
  BY Zenon DEF TakeLine, Conn!Take, BytesTaken, client
<1>7. CASE ReadData
  <2>1. BytesTaken /\ pc = "data"
    BY <1>6, <1>7, Zenon DEF ReadData, Running
  <2>2. InText /\ msg.end = Consumed /\ msg.got = msg.end - msg.start
    BY <1>1, <1>5, <2>1 DEF ProgressInv
  <2>3. CASE EndsText(script[ThisId].kind)
    <3>1. pc' = "accept" /\ msg' = [msg EXCEPT !.end = ThisId]
      BY <1>7, <2>3, Zenon DEF ReadData
    <3>2. /\ msg'.mail = msg.mail /\ msg'.rcpt = msg.rcpt /\ msg'.start = msg.start
          /\ msg'.end = ThisId
      BY <1>2, <3>1, Zenon DEF Messages
    <3>3. /\ MessageInv' /\ AcceptedInv' /\ EndsBefore'
          /\ script'[msg'.start] = script[msg.start] /\ script' = script
          /\ Consumed' = Consumed + 1 /\ ThisId = Consumed'
      BY <1>1, <1>4, <2>1, <3>2, ExtendedMessage
    <3>4. msg'.end > msg'.start + 1 /\ script'[msg'.end].kind = "dot"
      BY <1>3, <1>5, <2>2, <2>3, <3>2, <3>3 DEF EndsText
    <3>5. ProgressInv'
      BY <2>2, <3>1, <3>3, <3>4 DEF ProgressInv, InText, Dotted, Receiving
    <3> QED BY <3>3, <3>5 DEF MessagesInv
  <2>4. CASE ~EndsText(script[ThisId].kind)
    <3>1. pc' = "data" /\ msg' = AddLine
      BY <1>7, <2>1, <2>4, Zenon DEF ReadData
    <3>2. /\ msg'.mail = msg.mail /\ msg'.rcpt = msg.rcpt /\ msg'.start = msg.start
          /\ msg'.end = ThisId /\ msg'.got = msg.got + 1
      BY <1>2, <3>1, AddedLine
    <3>3. /\ MessageInv' /\ AcceptedInv' /\ EndsBefore'
          /\ script'[msg'.start] = script[msg.start]
          /\ Consumed' = Consumed + 1 /\ ThisId = Consumed'
      BY <1>1, <1>4, <2>1, <3>2, ExtendedMessage
    <3>4. msg'.end = Consumed' /\ msg'.got = msg'.end - msg'.start
      BY <1>3, <1>5, <2>2, <3>2, <3>3
    <3>5. ProgressInv'
      BY <2>2, <3>1, <3>3, <3>4 DEF ProgressInv, InText, Receiving
    <3> QED BY <3>3, <3>5 DEF MessagesInv
  <2> QED BY <2>3, <2>4
<1>8. CASE DataEof
  <2>1. pc = "data" /\ pc' = "accept" /\ msg' = msg /\ AtEof /\ AtEof'
    <3>1. pc = "data" /\ pc' = "accept" /\ msg' = msg /\ AtEof
      BY <1>8, Zenon DEF DataEof, Running
    <3> QED BY <3>1, EofStays DEF IInv
  <2>2. MessageInv' /\ AcceptedInv' /\ EndsBefore' /\ script'[msg'.start] = script[msg.start]
    BY <1>1, <1>4, <2>1, ExtendedMessage
  <2>3. InText
    BY <1>1, <1>5, <2>1 DEF ProgressInv
  <2>4. ProgressInv'
    BY <2>1, <2>2, <2>3 DEF ProgressInv, InText, Receiving
  <2> QED BY <2>2, <2>4 DEF MessagesInv
<1>9. CASE ReadChunk
  <2>1. /\ BytesTaken /\ pc = "chunk" /\ pc' = "chunk" /\ left > 0 /\ left' = left - 1
        /\ msg' = AddLine
    BY <1>6, <1>9, Zenon DEF ReadChunk, Running
  <2>2. /\ msg'.mail = msg.mail /\ msg'.rcpt = msg.rcpt /\ msg'.start = msg.start
        /\ msg'.end = ThisId /\ msg'.got = msg.got + 1 /\ msg'.due = msg.due
    BY <1>2, <2>1, AddedLine
  <2>3. MessageInv' /\ AcceptedInv' /\ EndsBefore' /\ script'[msg'.start] = script[msg.start]
    BY <1>1, <1>4, <2>1, <2>2, ExtendedMessage
  <2>4. InChunks /\ msg.got + left = msg.due /\ left \in Nat
    BY <1>1, <1>5, <2>1 DEF ProgressInv, IInv, SessionInv
  <2>5. msg'.got + left' = msg'.due
    BY <1>3, <2>1, <2>2, <2>4
  <2>6. ProgressInv'
    BY <2>1, <2>3, <2>4, <2>5 DEF ProgressInv, InChunks, Receiving
  <2> QED BY <2>3, <2>6 DEF MessagesInv
<1>10. CASE ChunkDone
  <2>1. pc = "chunk" /\ left = 0 /\ pc' \in {"accept", "bdat"} /\ msg' = msg
    BY <1>10, Zenon DEF ChunkDone, Running
  <2>2. MessageInv' /\ AcceptedInv' /\ EndsBefore' /\ script'[msg'.start] = script[msg.start]
    BY <1>1, <1>4, <2>1, ExtendedMessage
  <2>3. InChunks /\ msg'.got = msg'.due
    BY <1>1, <1>3, <1>5, <2>1 DEF ProgressInv
  <2>4. ProgressInv'
    BY <2>1, <2>2, <2>3 DEF ProgressInv, InChunks, Receiving
  <2> QED BY <2>2, <2>4 DEF MessagesInv
<1>11. CASE NextChunk
  <2>1. PICK c \in {Chunk[kind] : kind \in BdatKinds} :
          /\ pc = "bdat"
          /\ \/ pc' = "orphan" /\ c.size = 0
             \/ pc' = "chunk" /\ left' = c.size
          /\ msg' = [msg EXCEPT !.due = @ + c.size, !.end = ThisId]
    BY <1>11, Zenon DEF NextChunk, TakeLine, BeginChunk, Running
  <2>2. BytesTaken
    BY <1>6, <1>11, Zenon DEF NextChunk
  <2>3. /\ msg'.mail = msg.mail /\ msg'.rcpt = msg.rcpt /\ msg'.start = msg.start
        /\ msg'.end = ThisId /\ msg'.got = msg.got /\ msg'.due = msg.due + c.size
    BY <1>2, <2>1, Zenon DEF Messages
  <2>4. MessageInv' /\ AcceptedInv' /\ EndsBefore' /\ script'[msg'.start] = script[msg.start]
    BY <1>1, <1>4, <2>2, <2>3, ExtendedMessage
  <2>5. InChunks /\ msg.got = msg.due /\ c.size \in Nat
    BY <1>1, <1>5, <2>1, ChunkTyped DEF ProgressInv
  <2>6. CASE pc' = "orphan" /\ c.size = 0
    <3>1. msg'.got = msg'.due
      BY <1>3, <2>3, <2>5, <2>6
    <3> QED BY <2>4, <2>5, <2>6, <3>1 DEF MessagesInv, ProgressInv, InChunks, Receiving
  <2>7. CASE pc' = "chunk" /\ left' = c.size
    <3>1. msg'.got + left' = msg'.due
      BY <1>3, <2>3, <2>5, <2>7
    <3> QED BY <2>4, <2>5, <2>7, <3>1 DEF MessagesInv, ProgressInv, InChunks, Receiving
  <2> QED BY <2>1, <2>6, <2>7
<1> QED BY <1>7, <1>8, <1>9, <1>10, <1>11

\* A message accepted joins those accepted before.
LEMMA AcceptedMessages ==
    ASSUME IInv, Ordered, MessagesInv, Accept, [Next]_vars
    PROVE  MessagesInv'
<1>0. BytesInv /\ SessionInv /\ MessageInv /\ ProgressInv /\ AcceptedInv /\ EndsBefore
  BY DEF IInv, MessagesInv
<1>1. /\ task = "running" /\ pc = "accept" /\ ~shut
      /\ accepted' = Append(accepted, msg) /\ msg' = NoMessage /\ pc' = "start"
      /\ UNCHANGED <<script, wire, rbuf, closed>>
  BY Zenon DEF Accept, Running, client, conn
<1>2. msg \in Messages /\ accepted \in Seq(Messages)
  BY <1>0, <1>1 DEF SessionInv, Receiving
<1>3. /\ msg.mail \in Nat \ {0} /\ msg.start \in Nat \ {0} /\ msg.end \in Nat \ {0}
  BY <1>2, MessageNumbers
<1>4. msg # NoMessage
  BY <1>3 DEF NoMessage, NoId
<1>5. /\ msg.start <= msg.end /\ msg.end <= Consumed
      /\ Asked(script, msg.mail, msg.rcpt, msg.start)
      /\ \A i \in DOMAIN accepted : accepted[i].end < msg.mail
  BY <1>0, <1>1, <1>4, Zenon DEF MessageInv
<1>6. /\ Len(accepted) \in Nat /\ Len(accepted') = Len(accepted) + 1
      /\ accepted'[Len(accepted) + 1] = msg
      /\ \A i \in 1..Len(accepted) : accepted'[i] = accepted[i]
      /\ DOMAIN accepted = 1..Len(accepted) /\ DOMAIN accepted' = 1..Len(accepted')
  BY <1>1, <1>2, AppendProperties, LenProperties
<1>7. Consumed' = Consumed /\ (AtEof => AtEof')
  BY <1>1, Zenon DEF Consumed, AtEof
<1>8. EndsBefore'
  BY <1>0, <1>5, <1>6, <1>7 DEF EndsBefore
<1>9. UsedOnce'
  BY <1>0, <1>5, <1>6 DEF AcceptedInv, UsedOnce
<1>10. ASSUME NEW i \in DOMAIN accepted'
       PROVE  /\ accepted'[i].start <= accepted'[i].end
              /\ Asked(script', accepted'[i].mail, accepted'[i].rcpt, accepted'[i].start)
              /\ script'[accepted'[i].start].kind \in BdatKinds
                     => accepted'[i].got = accepted'[i].due
              /\ (/\ script'[accepted'[i].start].kind = "data"
                  /\ ~ Dotted(script', accepted'[i].start, accepted'[i].end))
                 => i = Len(accepted') /\ AtEof' /\ msg' = NoMessage
  <2>1. CASE i = Len(accepted) + 1
    <3>1. accepted'[i] = msg /\ i = Len(accepted')
      BY <1>6, <2>1
    <3>2. \/ InChunks /\ msg.got = msg.due
          \/ InText /\ (Dotted(script, msg.start, msg.end) \/ AtEof)
      BY <1>0, <1>1 DEF ProgressInv
    <3>3. "data" \notin BdatKinds
      BY DEF BdatKinds, Chunk
    <3> QED BY <1>1, <1>5, <1>7, <3>1, <3>2, <3>3 DEF InChunks, InText
  <2>2. CASE i \in 1..Len(accepted)
    <3>1. accepted'[i] = accepted[i] /\ i \in DOMAIN accepted
      BY <1>6, <2>2
    <3>2. /\ accepted[i].start <= accepted[i].end
          /\ Asked(script, accepted[i].mail, accepted[i].rcpt, accepted[i].start)
          /\ script[accepted[i].start].kind \in BdatKinds => accepted[i].got = accepted[i].due
          /\ ~ (/\ script[accepted[i].start].kind = "data"
                /\ ~ Dotted(script, accepted[i].start, accepted[i].end))
      BY <1>0, <1>4, <3>1 DEF AcceptedInv
    <3> QED BY <1>1, <3>1, <3>2
  <2> QED BY <1>6, <2>1, <2>2
<1>11. AcceptedInv'
  BY <1>9, <1>10 DEF AcceptedInv
<1>12. MessageInv' /\ ProgressInv'
  BY <1>1 DEF MessageInv, ProgressInv, Receiving
<1> QED BY <1>8, <1>11, <1>12 DEF MessagesInv

LEMMA MessagesStep ==
    ASSUME IInv, Ordered, HeloInv, EnvelopeInv, MessagesInv, [Next]_vars
    PROVE  MessagesInv'
<1>1. CASE MessageKept
  BY <1>1, KeptMessages
<1>2. CASE HandleData \/ HandleBdat
  BY <1>2, BegunMessages
<1>3. CASE ReadData \/ DataEof \/ ReadChunk \/ ChunkDone \/ NextChunk
  BY <1>3, ReadMessages
<1>4. CASE Accept
  BY <1>4, AcceptedMessages
<1> QED BY <1>1, <1>2, <1>3, <1>4, MessageSteps DEF IInv

LEMMA TextsStep ==
    ASSUME SessionInv, TextsInv, [Next]_vars
    PROVE  TextsInv'
<1>1. CASE accepted' = accepted
  BY <1>1, Zenon DEF TextsInv
<1>2. CASE Accept
  <2>1. /\ accepted' = Append(accepted, msg) /\ msg.text /\ accepted \in Seq(Messages)
        /\ msg \in Messages
    BY <1>2, Zenon DEF Accept, Running, SessionInv, Receiving
  <2>2. /\ DOMAIN accepted' = 1 .. Len(accepted) + 1
        /\ accepted'[Len(accepted) + 1] = msg
        /\ \A i \in 1..Len(accepted) : accepted'[i] = accepted[i] /\ i \in DOMAIN accepted
    BY <2>1, AppendProperties, LenProperties
  <2>3. \A i \in DOMAIN accepted' : i = Len(accepted) + 1 \/ i \in 1..Len(accepted)
    BY <2>1, <2>2, LenProperties
  <2> QED BY <2>1, <2>2, <2>3, Zenon DEF TextsInv
<1>3. accepted' = accepted \/ Accept
  <2> USE DEF conn, session
  <2>1. CASE \/ ClientSends \/ ClientCloses \/ NextMessage \/ Fill \/ Over \/ UNCHANGED vars
             \/ HandleOther \/ HandleHelo \/ HandleMail \/ HandleRcpt \/ HandleRset \/ HandleQuit
             \/ HandleStarttls \/ HandleTooEarly \/ HandleData \/ HandleBdat
    BY <2>1, Zenon DEF ClientSends, ClientCloses, ServerUnchanged, NextMessage, Fill, Over, vars,
       HandleOther, HandleHelo, HandleMail, HandleRcpt, HandleRset, HandleQuit, HandleStarttls,
       HandleTooEarly, HandleData, HandleBdat, BeginMessage
  <2>2. CASE \/ StartUpgrade \/ HandshakeOk \/ HandshakeFails
             \/ ReadData \/ DataEof \/ ReadChunk \/ ChunkDone \/ NextChunk \/ ExpectedBdat
    BY <2>2, Zenon DEF StartUpgrade, HandshakeOk, HandshakeFails, ReadData, DataEof, ReadChunk,
       ChunkDone, NextChunk, ExpectedBdat
  <2>3. CASE Ending
    BY <2>3, EndingEnds
  <2> QED BY <2>1, <2>2, <2>3 DEF Next, SessionStep, Ending
<1> QED BY <1>1, <1>2, <1>3

-----------------------------------------------------------------------------
(* The invariant *)

LineInv == Ordered /\ HeloInv /\ EnvelopeInv /\ MessagesInv /\ TextsInv

MInv == IInv /\ LineInv

LEMMA InitMInv == Init => MInv
<1> SUFFICES ASSUME Init PROVE MInv
  OBVIOUS
<1>1. /\ script = <<>> /\ wire = <<>> /\ rbuf = <<>> /\ pc = "start" /\ task = "running"
      /\ helo = NoId /\ envelope = NoEnvelope /\ msg = NoMessage /\ accepted = <<>>
  BY Zenon DEF Init, Conn!Init
<1>2. Len(<<>>) = 0 /\ DOMAIN accepted = {}
  BY <1>1
<1>3. Ordered
  BY <1>1, <1>2 DEF Ordered, Consumed
<1>4. HeloInv /\ EnvelopeInv /\ MessagesInv
  BY <1>1, <1>2 DEF HeloInv, EnvelopeInv, MessagesInv, MessageInv, ProgressInv, AcceptedInv,
     EndsBefore, UsedOnce, Receiving
<1>5. TextsInv
  BY <1>2, Zenon DEF TextsInv
<1> QED BY <1>3, <1>4, <1>5, InitIInv DEF MInv, LineInv

LEMMA StepMInv == MInv /\ [Next]_vars => MInv'
<1> SUFFICES ASSUME MInv, [Next]_vars PROVE MInv'
  OBVIOUS
<1>1. BytesInv /\ SessionInv /\ IInv'
  BY StepIInv DEF MInv, IInv
<1>2. Ordered' /\ HeloInv' /\ EnvelopeInv'
  BY <1>1, OrderedStep, HeloStep, EnvelopeStep DEF MInv, LineInv, MessagesInv
<1>3. MessagesInv' /\ TextsInv'
  BY <1>1, MessagesStep, TextsStep DEF MInv, LineInv
<1> QED BY <1>1, <1>2, <1>3 DEF MInv, LineInv

LEMMA MessageHistory == Spec => []MInv
BY InitMInv, StepMInv, PTL DEF Spec

-----------------------------------------------------------------------------
(* What follows from it *)

LEMMA RangeIsIndexed ==
    ASSUME NEW S, NEW s \in Seq(S)
    PROVE  Range(s) = {s[i] : i \in 1..Len(s)}
BY DEF Range

LEMMA ForgottenHolds == MInv => PlainForgotten
<1> SUFFICES ASSUME MInv, stream = "tls"
             PROVE  /\ \A piece \in Range(wire) \cup Range(rbuf) : piece.via = "tls"
                    /\ \A id \in {helo, envelope.mail, envelope.rcpt, msg.start} \ {NoId} :
                          script[id].via = "tls"
  BY DEF PlainForgotten
<1>0. /\ BytesInv /\ SessionInv /\ Ordered /\ HeloInv /\ EnvelopeInv /\ MessageInv
      /\ Conn!SentVia = "tls"
  BY DEF MInv, IInv, LineInv, MessagesInv, Conn!SentVia
<1>1. Len(script) \in Nat /\ Len(rbuf) \in Nat /\ Len(wire) \in Nat /\ Consumed \in Nat
  BY <1>0, Lengths DEF Ordered, Consumed
<1>2. \A i \in 1..Len(rbuf) : rbuf[i].via = "tls"
  <2> TAKE i \in 1..Len(rbuf)
  <2>1. Consumed + i \in 1..Len(script) /\ Consumed + i > Consumed
    BY <1>0, <1>1 DEF Ordered, Consumed
  <2> QED BY <1>0, <2>1 DEF Ordered
<1>3. \A i \in 1..Len(wire) : wire[i].via = "tls"
  <2> TAKE i \in 1..Len(wire)
  <2>1. Consumed + Len(rbuf) + i \in 1..Len(script) /\ Consumed + Len(rbuf) + i > Consumed
    BY <1>0, <1>1 DEF Ordered, Consumed
  <2> QED BY <1>0, <2>1 DEF Ordered
<1>4. \A piece \in Range(wire) \cup Range(rbuf) : piece.via = "tls"
  BY <1>0, <1>2, <1>3, RangeIsIndexed DEF BytesInv
<1>5. helo # NoId => /\ helo \in Nat \ {0}
                     /\ \A i \in helo..Consumed : script[i].via = "tls"
                     /\ helo <= Consumed
  BY <1>0 DEF HeloInv, SessionInv, Ids, NoId
<1>6. helo # NoId => script[helo].via = "tls"
  BY <1>1, <1>5
<1>7. CASE envelope = NoEnvelope
  <2>1. envelope.mail = NoId /\ envelope.rcpt = NoId
    BY <1>7 DEF NoEnvelope
  <2>2. msg.start # NoId => script[msg.start].via = "tls"
    BY <1>0 DEF MessageInv, NoMessage
  <2> QED BY <1>4, <1>6, <2>1, <2>2
<1>8. CASE envelope # NoEnvelope
  <2>1. /\ helo # NoId /\ helo < envelope.mail /\ envelope.mail <= Consumed
        /\ envelope.rcpt # NoId => envelope.mail < envelope.rcpt /\ envelope.rcpt <= Consumed
        /\ envelope.mail \in Nat /\ envelope.rcpt \in Nat
    BY <1>0, <1>8 DEF EnvelopeInv, SessionInv, Ids, NoId
  <2>2. envelope.mail \in helo..Consumed
    BY <1>1, <1>5, <2>1
  <2>3. envelope.rcpt # NoId => envelope.rcpt \in helo..Consumed
    BY <1>1, <1>5, <2>1
  <2>4. msg.start # NoId => script[msg.start].via = "tls"
    BY <1>0 DEF MessageInv, NoMessage
  <2> QED BY <1>4, <1>5, <1>6, <2>1, <2>2, <2>3, <2>4
<1> QED BY <1>7, <1>8

\* After STARTTLS nothing the client said in plaintext counts, whatever it
\* sends ahead of the handshake.
THEOREM NothingPlainCounts == Spec => []PlainForgotten
BY MessageHistory, ForgottenHolds, PTL

LEMMA AskedForHolds == MInv => AcceptedAskedFor
<1> SUFFICES ASSUME MInv, NEW m \in Range(accepted) PROVE AskedFor(m)
  BY DEF AcceptedAskedFor
<1>1. PICK i \in DOMAIN accepted : m = accepted[i]
  BY DEF Range
<1>2. Asked(script, m.mail, m.rcpt, m.start)
  BY <1>1 DEF MInv, LineInv, MessagesInv, AcceptedInv
<1> QED BY <1>2 DEF Asked, AskedFor, Enders

\* Every accepted message was asked for, by a HELO, a MAIL, a RCPT and then
\* DATA or BDAT, under one protection and with nothing between that ends the
\* mail transaction.
THEOREM AcceptedWereAskedFor == Spec => []AcceptedAskedFor
BY MessageHistory, AskedForHolds, PTL

\* No envelope and no text makes two messages: the lines of one are all read
\* before the MAIL of the next.
THEOREM TransactionsUsedOnce == Spec => []UsedOnce
<1>1. MInv => UsedOnce
  BY DEF MInv, LineInv, MessagesInv, AcceptedInv
<1> QED BY <1>1, MessageHistory, PTL

LEMMA ChunksHold == MInv => ChunksWhole
<1> SUFFICES ASSUME MInv, NEW m \in Range(accepted)
             PROVE  m.text /\ (script[m.start].kind \in BdatKinds => m.got = m.due)
  BY Zenon DEF ChunksWhole
<1>1. PICK i \in DOMAIN accepted : m = accepted[i]
  BY DEF Range
<1>2. m.text
  BY <1>1, Zenon DEF MInv, LineInv, TextsInv
<1>3. script[m.start].kind \in BdatKinds => m.got = m.due
  BY <1>1 DEF MInv, LineInv, MessagesInv, AcceptedInv
<1> QED BY <1>2, <1>3, Zenon

\* A message sent in chunks of any number and size is accepted only with every
\* line announced.
THEOREM ChunksAreWhole == Spec => []ChunksWhole
BY MessageHistory, ChunksHold, PTL

LEMMA CutHolds == MInv => CutIsLast
<1> SUFFICES ASSUME MInv, NEW i \in DOMAIN accepted,
                    script[accepted[i].start].kind = "data", ~HasItsDot(accepted[i])
             PROVE  i = Len(accepted) /\ AtEof
  BY DEF CutIsLast
<1>1. ~Dotted(script, accepted[i].start, accepted[i].end)
  BY DEF HasItsDot, Dotted
<1> QED BY <1>1 DEF MInv, LineInv, MessagesInv, AcceptedInv

\* A text accepted without its lone dot is the last of its connection: the
\* stream is at its end and nothing waits to be read.
THEOREM CutTextsAreLast == Spec => []CutIsLast
BY MessageHistory, CutHolds, PTL

-----------------------------------------------------------------------------
(***************************************************************************)
(* QUIT.  Besides the property itself: every QUIT read so far has shut the *)
(* connection, ended the task, or is text of a message accepted or being   *)
(* read; and a chunk of which a line is due has just been announced.       *)
(***************************************************************************)
Announces(line) == line.kind \in BdatKinds /\ Chunk[line.kind].size > 0

TextIn(s, q, m) ==
    q \in m.start + 1 .. m.end /\ (s[m.start].kind = "data" \/ Announces(s[q - 1]))

TextOfSome(s, q, ms) == \E i \in DOMAIN ms : TextIn(s, q, ms[i])

QuitInv ==
    \A q \in 1..Consumed : script[q].kind = "quit" =>
        shut \/ task # "running" \/ TextIn(script, q, msg) \/ TextOfSome(script, q, accepted)

ChunkInv ==
    task = "running" /\ pc = "chunk" /\ left > 0 =>
        left = 1 /\ Consumed > 0 /\ Announces(script[Consumed])

QuitHeard ==
    \A i \in DOMAIN accepted : \A q \in 1..accepted[i].end :
        script[q].kind = "quit" => TextOfSome(script, q, accepted)

\* Text stays text: what it depends on has been read.
LEMMA TextStays ==
    ASSUME NEW m, NEW k, NEW q \in Nat,
           Consumed \in Nat, \A i \in 1..Consumed : script'[i] = script[i],
           m.start \in Nat \ {0}, m.end \in Nat, m.end <= Consumed,
           k.start = m.start, k.end \in Nat, m.end <= k.end,
           TextIn(script, q, m)
    PROVE  TextIn(script', q, k)
<1>1. q \in m.start + 1 .. m.end
  BY DEF TextIn
<1>2. script'[m.start] = script[m.start] /\ script'[q - 1] = script[q - 1]
  <2>1. m.start \in 1..Consumed /\ q - 1 \in 1..Consumed
    BY <1>1
  <2> QED BY <2>1
<1>3. q \in k.start + 1 .. k.end
  BY <1>1
<1> QED BY <1>2, <1>3 DEF TextIn

\* A line read as text is the only one that may be a QUIT and neither shut the
\* connection nor end the task.
LEMMA QuitSteps ==
    ASSUME BytesInv, SessionInv, Ordered, [Next]_vars,
           Consumed' = Consumed + 1, script[ThisId].kind = "quit"
    PROVE  shut' \/ task' # "running" \/ ReadData \/ ReadChunk
<1>0. ~(ClientSends \/ BytesFilled \/ BytesKept)
  <2>1. Consumed' # Consumed
    BY LinesStay
  <2> QED BY <2>1, OrderedStep
<1>1. ~(ClientSends \/ ClientCloses \/ NextMessage \/ Fill \/ Over \/ UNCHANGED vars)
  BY <1>0, Zenon DEF ClientCloses, NextMessage, Fill, Over, vars, BytesFilled, BytesKept, client,
     conn
<1>2. ~(HandshakeOk \/ HandshakeFails \/ DataEof \/ ChunkDone \/ Accept)
  BY <1>0, Zenon DEF HandshakeOk, HandshakeFails, Conn!UpgradeOk, Conn!UpgradeFails, DataEof,
     ChunkDone, Accept, BytesKept, client, conn
<1>3. ASSUME \/ HandleOther \/ HandleHelo \/ HandleMail \/ HandleRcpt \/ HandleRset
             \/ HandleStarttls \/ StartUpgrade \/ HandleTooEarly \/ HandleData \/ HandleBdat
             \/ NextChunk
      PROVE  FALSE
  <2>1. script[ThisId].kind \in {"noop", "bad", "dot", "utf8", "helo", "mail", "rcpt", "rset",
                                 "starttls", "data"} \cup BdatKinds
    BY <1>3, Zenon DEF Command, TakeLine, HandleOther, HandleHelo, HandleMail, HandleRcpt,
       HandleRset, HandleStarttls, StartUpgrade, HandleTooEarly, HandleData, HandleBdat, NextChunk
  <2> QED BY <2>1 DEF BdatKinds, Chunk
<1>4. ~ExpectedBdat
  BY DEF ExpectedBdat, TakeLine
<1>5. CASE HandleQuit
  BY <1>5, Zenon DEF HandleQuit
<1>6. CASE Ending
  BY <1>6, EndingEnds
<1> QED BY <1>1, <1>2, <1>3, <1>4, <1>5, <1>6 DEF Next, SessionStep, Ending

LEMMA StaysShut ==
    ASSUME BytesInv, SessionInv, Ordered, [Next]_vars
    PROVE  (shut => shut') /\ (task' = "running" => task = "running")
<1> USE DEF session
<1>1. CASE MessageKept
  BY <1>1, Zenon DEF MessageKept
<1>2. CASE HandleData \/ HandleBdat
  <2>1. shut' = shut /\ task = "running"
    BY <1>2, Zenon DEF HandleData, HandleBdat, Command, Running, BeginMessage
  <2> QED BY <2>1
<1>3. CASE ReadData \/ DataEof \/ ReadChunk \/ ChunkDone \/ NextChunk \/ Accept
  <2>1. shut' = shut /\ task = "running"
    BY <1>3, Zenon DEF ReadData, DataEof, ReadChunk, ChunkDone, NextChunk, Accept, Running
  <2> QED BY <2>1
<1> QED BY <1>1, <1>2, <1>3, MessageSteps

LEMMA OneAnnounced ==
    \A kind \in BdatKinds : Chunk[kind].size > 0 => Chunk[kind].size = 1
<1>1. BdatKinds = {"bdat0", "bdat1", "bdat0last", "bdat1last"}
  BY DEF BdatKinds, Chunk
<1> QED BY <1>1 DEF Chunk

LEMMA ChunkInvStep ==
    ASSUME IInv, LineInv, ChunkInv, [Next]_vars
    PROVE  ChunkInv'
<1> SUFFICES ASSUME task' = "running", pc' = "chunk", left' > 0
             PROVE  left' = 1 /\ Consumed' > 0 /\ Announces(script'[Consumed'])
  BY DEF ChunkInv
<1>0. BytesInv /\ SessionInv /\ Ordered /\ left \in Nat
  BY DEF IInv, LineInv, SessionInv
<1>1. CASE MessageKept
  <2>1. task = "running" /\ pc = "chunk" /\ left' = left /\ Consumed' = Consumed
    BY <1>1 DEF MessageKept, Receiving
  <2>2. left = 1 /\ Consumed > 0 /\ Announces(script[Consumed])
    BY <2>1 DEF ChunkInv
  <2>3. script'[Consumed] = script[Consumed]
    BY <1>0, <2>2, LinesStay
  <2> QED BY <2>1, <2>2, <2>3
<1>2. CASE HandleBdat \/ NextChunk
  <2>1. /\ script[ThisId].kind \in BdatKinds /\ BytesTaken
        /\ left' = Chunk[script[ThisId].kind].size
    <3>1. ASSUME NEW c, BeginChunk(c) PROVE left' = c.size
      BY <3>1, Zenon DEF BeginChunk
    <3>2. CASE HandleBdat
      BY <3>1, <3>2, Zenon DEF HandleBdat, TakeLine, Conn!Take, BytesTaken, client
    <3>3. CASE NextChunk
      <4>1. pc' # "orphan"
        OBVIOUS
      <4> QED BY <3>1, <3>3, <4>1, Zenon DEF NextChunk, TakeLine, Conn!Take, BytesTaken, client
    <3> QED BY <1>2, <3>2, <3>3
  <2>2. Consumed \in Nat /\ Consumed' = Consumed + 1 /\ ThisId = Consumed' /\ script' = script
    BY <1>0, <2>1, OrderedStep, LinesStay
  <2>3. Announces(script[ThisId]) /\ left' = 1
    BY <2>1, OneAnnounced DEF Announces
  <2> QED BY <2>2, <2>3
<1>3. CASE ReadChunk
  <2>1. task = "running" /\ pc = "chunk" /\ left > 0 /\ left' = left - 1
    BY <1>3, Zenon DEF ReadChunk, Running
  <2> QED BY <2>1 DEF ChunkInv
<1>4. CASE HandleData \/ ReadData \/ DataEof \/ ChunkDone \/ Accept
  <2>1. pc' \in {"data", "accept", "bdat", "start"}
    BY <1>4, Zenon DEF HandleData, ReadData, DataEof, ChunkDone, Accept, Running
  <2> QED BY <2>1
<1> QED BY <1>0, <1>1, <1>2, <1>3, <1>4, MessageSteps

\* What becomes of a message being read that has text: it is read on, or
\* accepted.
LEMMA TextReadStays ==
    ASSUME IInv, LineInv, [Next]_vars, task' = "running", NEW q \in Nat, TextIn(script, q, msg)
    PROVE  TextIn(script', q, msg') \/ TextOfSome(script', q, accepted')
<1>0. BytesInv /\ SessionInv /\ Ordered /\ ProgressInv /\ task = "running"
  BY StaysShut DEF IInv, LineInv, MessagesInv
<1>1. msg # NoMessage
  BY DEF TextIn, NoMessage, NoId
<1>2. /\ msg \in Messages /\ msg.start \in Nat \ {0} /\ msg.end \in Nat
      /\ msg.end <= Consumed /\ Consumed \in Nat
      /\ \A k \in 1..Consumed : script'[k] = script[k]
  BY <1>0, <1>1, MessageNumbers, LinesStay DEF SessionInv, LineInv, MessagesInv, MessageInv
<1>3. CASE MessageKept
  <2>1. msg' = msg
    BY <1>3 DEF MessageKept
  <2> QED BY <1>2, <2>1, TextStays
<1>4. CASE HandleData \/ HandleBdat
  <2>1. pc = "cmd"
    BY <1>4, Zenon DEF HandleData, HandleBdat, Command, Running
  <2> QED BY <1>0, <1>1, <2>1 DEF ProgressInv, Receiving
<1>5. CASE DataEof \/ ChunkDone
  <2>1. msg' = msg
    BY <1>5, Zenon DEF DataEof, ChunkDone
  <2> QED BY <1>2, <2>1, TextStays
<1>6. CASE ReadData \/ ReadChunk \/ NextChunk
  <2>1. BytesTaken
    BY <1>6, Zenon DEF ReadData, ReadChunk, NextChunk, TakeLine, Conn!Take, BytesTaken, client
  <2>2. ThisId = Consumed + 1
    BY <1>0, <2>1, OrderedStep, LinesStay
  <2>3. msg'.start = msg.start /\ msg'.end = ThisId
    <3>1. CASE msg' = AddLine
      BY <1>2, <3>1, AddedLine
    <3>2. CASE msg' = [msg EXCEPT !.end = ThisId]
      BY <1>2, <3>2, Zenon DEF Messages
    <3>3. CASE \E n : msg' = [msg EXCEPT !.due = @ + n, !.end = ThisId]
      BY <1>2, <3>3, Zenon DEF Messages
    <3>4. \/ msg' = AddLine \/ msg' = [msg EXCEPT !.end = ThisId]
          \/ \E n : msg' = [msg EXCEPT !.due = @ + n, !.end = ThisId]
      BY <1>6, Zenon DEF ReadData, ReadChunk, NextChunk
    <3> QED BY <3>1, <3>2, <3>3, <3>4
  <2>4. msg'.end \in Nat /\ msg.end <= msg'.end
    BY <1>2, <2>2, <2>3
  <2> QED BY <1>2, <2>3, <2>4, TextStays
<1>7. CASE Accept
  <2>1. accepted' = Append(accepted, msg) /\ accepted \in Seq(Messages)
    BY <1>0, <1>7, Zenon DEF Accept, SessionInv
  <2>2. Len(accepted) + 1 \in DOMAIN accepted' /\ accepted'[Len(accepted) + 1] = msg
    BY <1>2, <2>1, AppendProperties, LenProperties
  <2>3. TextIn(script', q, msg)
    BY <1>2, TextStays
  <2> QED BY <2>2, <2>3 DEF TextOfSome
<1> QED BY <1>0, <1>3, <1>4, <1>5, <1>6, <1>7, MessageSteps

LEMMA TextAcceptedStays ==
    ASSUME IInv, LineInv, [Next]_vars, NEW q \in Nat, TextOfSome(script, q, accepted)
    PROVE  TextOfSome(script', q, accepted')
<1>0. BytesInv /\ SessionInv /\ Ordered
  BY DEF IInv, LineInv
<1>1. PICK i \in DOMAIN accepted : TextIn(script, q, accepted[i])
  BY DEF TextOfSome
<1>2. i \in DOMAIN accepted' /\ accepted'[i] = accepted[i]
  <2>1. CASE Accept
    <3>1. /\ accepted' = Append(accepted, msg) /\ accepted \in Seq(Messages)
          /\ msg \in Messages
      BY <1>0, <2>1, Zenon DEF Accept, Running, SessionInv, Receiving
    <3> QED BY <1>1, <3>1, AppendProperties, LenProperties
  <2>2. CASE ~Accept
    <3> USE DEF session
    <3>1. MessageKept => accepted' = accepted
      BY Zenon DEF MessageKept
    <3>2. ASSUME \/ HandleData \/ HandleBdat
                 \/ ReadData \/ DataEof \/ ReadChunk \/ ChunkDone \/ NextChunk
          PROVE  accepted' = accepted
      BY <3>2, Zenon DEF HandleData, HandleBdat, BeginMessage, ReadData, DataEof, ReadChunk,
         ChunkDone, NextChunk
    <3> QED BY <1>0, <1>1, <2>2, <3>1, <3>2, MessageSteps
  <2> QED BY <2>1, <2>2
<1>3. /\ accepted[i].start \in Nat \ {0} /\ accepted[i].end \in Nat
      /\ accepted[i].end <= Consumed /\ Consumed \in Nat
      /\ \A k \in 1..Consumed : script'[k] = script[k]
  BY <1>0, <1>1, AcceptedTyped, MessageNumbers, LinesStay DEF LineInv, MessagesInv, EndsBefore
<1>4. TextIn(script', q, accepted[i])
  BY <1>1, <1>3, TextStays
<1> QED BY <1>2, <1>4 DEF TextOfSome

LEMMA QuitInvStep ==
    ASSUME IInv, LineInv, ChunkInv, QuitInv, [Next]_vars
    PROVE  QuitInv'
<1> SUFFICES ASSUME NEW q \in 1..Consumed', script'[q].kind = "quit", ~shut', task' = "running"
             PROVE  TextIn(script', q, msg') \/ TextOfSome(script', q, accepted')
  BY DEF QuitInv
<1>0. /\ BytesInv /\ SessionInv /\ Ordered /\ MessageInv /\ ProgressInv
      /\ ~shut /\ task = "running"
  BY StaysShut DEF IInv, LineInv, MessagesInv
<1>1. /\ Consumed \in Nat /\ Consumed' \in {Consumed, Consumed + 1} /\ q \in Nat
      /\ \A k \in 1..Consumed : script'[k] = script[k]
      /\ Consumed' = Consumed + 1 => ThisId = Consumed + 1 /\ script' = script
  BY <1>0, LinesStay
<1>2. CASE q \in 1..Consumed
  <2>1. TextIn(script, q, msg) \/ TextOfSome(script, q, accepted)
    BY <1>0, <1>1, <1>2 DEF QuitInv
  <2> QED BY <1>1, <2>1, TextReadStays, TextAcceptedStays
<1>3. CASE q = Consumed + 1 /\ Consumed' = Consumed + 1
  <2>1. ThisId = q /\ script' = script /\ script[ThisId].kind = "quit"
    BY <1>1, <1>3
  <2>2. ReadData \/ ReadChunk
    BY <1>0, <1>3, <2>1, QuitSteps
  <2>3. msg' = AddLine /\ pc \in {"data", "chunk"}
    BY <2>1, <2>2 DEF ReadData, ReadChunk, Running, EndsText
  <2>4. msg \in Messages
    BY <1>0, <2>3 DEF SessionInv, Receiving
  <2>5. msg.start \in Nat \ {0} /\ msg.end \in Nat /\ msg.start <= msg.end /\ msg.end <= Consumed
    <3>1. msg # NoMessage
      BY <2>4, MessageNumbers DEF NoMessage, NoId
    <3> QED BY <1>0, <2>4, <3>1, MessageNumbers DEF MessageInv
  <2>6. msg'.start = msg.start /\ msg'.end = q /\ q \in msg'.start + 1 .. msg'.end
    <3>1. msg'.start = msg.start /\ msg'.end = q
      BY <2>1, <2>3, <2>4, AddedLine
    <3> QED BY <1>1, <1>3, <2>5, <3>1
  <2>7. script[msg.start].kind = "data" \/ Announces(script[q - 1])
    <3>1. CASE pc = "data"
      BY <1>0, <3>1 DEF ProgressInv, InText
    <3>2. CASE pc = "chunk"
      <4>1. left > 0
        BY <2>2, <3>2, Zenon DEF ReadData, ReadChunk, Running
      <4>2. q - 1 = Consumed
        BY <1>1, <1>3
      <4> QED BY <1>0, <3>2, <4>1, <4>2 DEF ChunkInv
    <3> QED BY <2>3, <3>1, <3>2
  <2> QED BY <2>1, <2>6, <2>7 DEF TextIn
<1> QED BY <1>1, <1>2, <1>3

LEMMA QuitHeardStep ==
    ASSUME IInv, LineInv, QuitInv, QuitHeard, [Next]_vars
    PROVE  QuitHeard'
<1>0. BytesInv /\ SessionInv /\ Ordered /\ EndsBefore
  BY DEF IInv, LineInv, MessagesInv
<1>1. Consumed \in Nat /\ \A k \in 1..Consumed : script'[k] = script[k]
  BY <1>0, LinesStay
<1>2. CASE Accept
  <2>1. /\ task = "running" /\ pc = "accept" /\ ~shut /\ accepted' = Append(accepted, msg)
        /\ task' = "running" /\ msg' = NoMessage
    BY <1>2, Zenon DEF Accept, Running
  <2>2. msg \in Messages /\ accepted \in Seq(Messages)
    BY <1>0, <2>1 DEF SessionInv, Receiving
  <2>3. msg # NoMessage
    BY <2>2, MessageNumbers DEF NoMessage, NoId
  <2>4. msg.end \in Nat /\ msg.end <= Consumed
    BY <2>2, <2>3, MessageNumbers DEF LineInv, MessagesInv, MessageInv
  <2>5. ASSUME NEW i \in DOMAIN accepted'
        PROVE  accepted'[i].end \in Nat /\ accepted'[i].end <= Consumed
    <3>1. /\ accepted'[i] = msg \/ (i \in DOMAIN accepted /\ accepted'[i] = accepted[i])
      BY <2>1, <2>2, <2>5, AppendProperties, LenProperties
    <3> QED BY <1>0, <2>4, <3>1, AcceptedTyped, MessageNumbers DEF EndsBefore
  <2>6. ASSUME NEW i \in DOMAIN accepted', NEW q \in 1..accepted'[i].end,
               script'[q].kind = "quit"
        PROVE  TextOfSome(script', q, accepted')
    <3>1. q \in 1..Consumed /\ q \in Nat /\ script[q].kind = "quit"
      BY <1>1, <2>5, <2>6
    <3>2. TextIn(script, q, msg) \/ TextOfSome(script, q, accepted)
      BY <2>1, <3>1 DEF QuitInv
    <3>3. ~TextIn(script', q, msg')
      BY <2>1, <3>1 DEF TextIn, NoMessage, NoId
    <3> QED BY <2>1, <3>1, <3>2, <3>3, TextReadStays, TextAcceptedStays
  <2> QED BY <2>6 DEF QuitHeard
<1>3. CASE ~Accept
  <2>1. accepted' = accepted
    <3> USE DEF session
    <3>1. MessageKept => accepted' = accepted
      BY Zenon DEF MessageKept
    <3>2. ASSUME \/ HandleData \/ HandleBdat
                 \/ ReadData \/ DataEof \/ ReadChunk \/ ChunkDone \/ NextChunk
          PROVE  accepted' = accepted
      BY <3>2, Zenon DEF HandleData, HandleBdat, BeginMessage, ReadData, DataEof, ReadChunk,
         ChunkDone, NextChunk
    <3> QED BY <1>0, <1>3, <3>1, <3>2, MessageSteps
  <2>2. ASSUME NEW i \in DOMAIN accepted, NEW q \in 1..accepted[i].end, script'[q].kind = "quit"
        PROVE  TextOfSome(script', q, accepted')
    <3>1. accepted[i].end \in Nat /\ accepted[i].end <= Consumed
      BY <1>0, AcceptedTyped, MessageNumbers DEF EndsBefore
    <3>2. q \in Nat /\ script[q].kind = "quit"
      BY <1>1, <2>2, <3>1
    <3>3. TextOfSome(script, q, accepted)
      BY <2>2, <3>2 DEF QuitHeard
    <3> QED BY <3>2, <3>3, TextAcceptedStays
  <2> QED BY <2>1, <2>2 DEF QuitHeard
<1> QED BY <1>2, <1>3

QInv == MInv /\ ChunkInv /\ QuitInv /\ QuitHeard

LEMMA QuitHolds == Spec => []QInv
<1>1. Init => QInv
  <2> SUFFICES ASSUME Init PROVE QInv
    OBVIOUS
  <2>1. script = <<>> /\ wire = <<>> /\ rbuf = <<>> /\ pc = "start" /\ accepted = <<>>
    BY Zenon DEF Init, Conn!Init
  <2>2. Len(script) = 0 /\ Len(wire) = 0 /\ Len(rbuf) = 0 /\ DOMAIN accepted = {}
    BY <2>1
  <2>3. Consumed = 0
    BY <2>2 DEF Consumed
  <2> QED BY <2>1, <2>2, <2>3, InitMInv DEF QInv, ChunkInv, QuitInv, QuitHeard
<1>2. QInv /\ [Next]_vars => QInv'
  BY StepMInv, ChunkInvStep, QuitInvStep, QuitHeardStep DEF QInv, MInv
<1> QED BY <1>1, <1>2, PTL DEF Spec

LEMMA QuitHeardHolds == QInv => NothingAfterQuit
<1> SUFFICES ASSUME QInv, NEW m \in Range(accepted), NEW q \in 1..m.end, script[q].kind = "quit"
             PROVE  \E n \in Range(accepted) : IsTextOf(q, n)
  BY DEF NothingAfterQuit
<1>1. PICK i \in DOMAIN accepted : m = accepted[i]
  BY DEF Range
<1>2. TextOfSome(script, q, accepted)
  BY <1>1 DEF QInv, QuitHeard
<1>3. PICK j \in DOMAIN accepted : TextIn(script, q, accepted[j])
  BY <1>2 DEF TextOfSome
<1>4. accepted[j] \in Range(accepted) /\ IsTextOf(q, accepted[j])
  BY <1>3 DEF Range, TextIn, Announces, IsTextOf
<1> QED BY <1>4

\* Once QUIT has been said no message is accepted any more: a QUIT sent before
\* the end of an accepted message is text of an accepted message.
THEOREM NothingAcceptedAfterQuit == Spec => []NothingAfterQuit
BY QuitHolds, QuitHeardHolds, PTL
=============================================================================
