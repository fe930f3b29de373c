------------------------- MODULE ImapDriver_proofs -------------------------
(***************************************************************************)
(* Safety of the IMAP session, for any client (any number of lines of any  *)
(* kinds, with any tags), any capacity of the queue and any configuration, *)
(* both under the driver of src/main.rs and used as a library; and, used   *)
(* as a library, that every line is answered, once and in order.           *)
(***************************************************************************)
EXTENDS ImapDriver, SequenceTheorems, TLAPS

\* A step of the system, whoever executes the operations.
AnyNext == Next \/ DriverNext

-----------------------------------------------------------------------------
(* The queue *)

\* What a step can do to the queue.  An operation is inserted only when no
\* command is in progress, because next_cmd has waited for it.
QueueStep ==
    \/ UNCHANGED queue
    \/ \E op \in Operations : commands = {} /\ Queue!Insert(op)
    \/ \E op \in Operations : Queue!Send(op)
    \/ Queue!Recv

LEMMA StepIsQueueStep ==
    ASSUME held \in Commands \cup {Nothing}, [AnyNext]_vars
    PROVE  QueueStep
  <1>1. CASE ClientStep \/ NetworkStep
    BY <1>1 DEF ClientStep, ClientSends, ClientSendsHead, ClientSendsTail, ClientCloses,
       ServerUnchanged, BeginLine, Put, Conn!Arrive, NetworkStep, HandshakeOk, Conn!UpgradeOk,
       HandshakeFails, Conn!UpgradeFails, IoError, QueueStep
  <1>2. CASE DrainReady \/ WaitPayload
    BY <1>2 DEF DrainReady, WaitPayload, TakePayload, QueueStep
  <1>3. CASE NextOp \/ BeginRead \/ Fill \/ TakeHead \/ Eof \/ ParseLine \/ Complain
             \/ SaslResponse \/ Finish \/ DriverFinish
    BY <1>3 DEF NextOp, BeginRead, Fill, Conn!Fill, TakeHead, Conn!Take, Eof, ParseLine, Complain,
       SaslResponse, Finish, DriverFinish, QueueStep
  <1>4. CASE Handlers
    <2>1. CASE HandleOperation \/ HandleFetch
      <3>1. CASE HandOut
        <4>1. held.kind \in {"examine", "list", "fetch"} /\ commands = {}
          BY <2>1 DEF HandleOperation, HandleFetch, Handling, Queue!MustWaitBefore
        <4>2. held \in Operations
          BY <4>1 DEF Commands, Operations, Nothing
        <4> QED
          BY <3>1, <4>1, <4>2 DEF HandOut, QueueStep
      <3> QED
        BY <2>1, <3>1 DEF HandleOperation, HandleFetch, QueueStep
    <2>2. CASE ~(HandleOperation \/ HandleFetch)
      BY <1>4, <2>2 DEF Handlers, HandleNoop, HandleEnable, HandleLogout, HandleTodo,
         HandleStarttls, HandleLogin, HandleAuthenticate, HandleSelect, QueueStep
    <2> QED
      BY <2>1, <2>2
  <1>5. CASE \E op \in Operations : OpCompletes(op) \/ OpFinishes(op) \/ OpPanics(op)
    BY <1>5 DEF OpCompletes, OpFinishes, OpPanics, QueueStep
  <1>6. CASE Over \/ UNCHANGED vars
    BY <1>6 DEF Over, vars, QueueStep
  <1> QED
    BY <1>1, <1>2, <1>3, <1>4, <1>5, <1>6 DEF AnyNext, Next, DriverNext, SessionStep

\* At most one operation is in progress, and either it is open or its payload
\* is alone in the channel; its tag is the only one remembered.  This is the
\* strengthening of OneInProgress and QueueConsistent that is inductive.
QueueInv ==
    \/ /\ commands = {} /\ open = {} /\ chan = <<>>
    \/ \E op \in Operations :
          /\ commands = {op.tag}
          /\ \/ open = {op} /\ chan = <<>>
             \/ open = {} /\ chan = <<op>>

LEMMA QueueInvStep ==
    ASSUME QueueInv, QueueStep
    PROVE  QueueInv'
  <1> USE DEF QueueInv
  <1>1. CASE UNCHANGED queue
    BY <1>1 DEF queue
  <1>2. ASSUME NEW op \in Operations, commands = {}, Queue!Insert(op)
        PROVE  QueueInv'
    <2>1. open = {} /\ chan = <<>>
      BY <1>2
    <2> QED
      BY <1>2, <2>1 DEF Queue!Insert
  <1>3. ASSUME NEW op \in Operations, Queue!Send(op)
        PROVE  QueueInv'
    <2>1. commands = {op.tag} /\ open = {op} /\ chan = <<>>
      BY <1>3 DEF Queue!Send
    <2>2. open' = {} /\ chan' = <<op>> /\ commands' = commands
      BY <1>3, <2>1 DEF Queue!Send
    <2> QED
      BY <2>1, <2>2
  <1>4. CASE Queue!Recv
    <2>1. PICK op \in Operations : commands = {op.tag} /\ open = {} /\ chan = <<op>>
      BY <1>4 DEF Queue!Recv
    <2>2. open' = {} /\ chan' = <<>> /\ commands' = {}
      BY <1>4, <2>1 DEF Queue!Recv
    <2> QED
      BY <2>2
  <1> QED
    BY <1>1, <1>2, <1>3, <1>4 DEF QueueStep

LEMMA QueueInvImplies == QueueInv => OneInProgress /\ QueueConsistent /\ Queue!TypeOK
  <1> SUFFICES ASSUME QueueInv PROVE OneInProgress /\ QueueConsistent /\ Queue!TypeOK
    OBVIOUS
  <1> USE DEF OneInProgress, QueueConsistent, Queue!NoneTwice, Queue!Consistent, Queue!InProgress,
     Queue!TypeOK, Queue!OpTags, Queue!Range
  <1>0. Capacity \in Nat \ {0}
    BY BoundAssumption
  <1>1. CASE commands = {} /\ open = {} /\ chan = <<>>
    BY <1>0, <1>1
  <1>2. ASSUME NEW op \in Operations, commands = {op.tag}, open = {op}, chan = <<>>
        PROVE  OneInProgress /\ QueueConsistent /\ Queue!TypeOK
    BY <1>0, <1>2
  <1>3. ASSUME NEW op \in Operations, commands = {op.tag}, open = {}, chan = <<op>>
        PROVE  OneInProgress /\ QueueConsistent /\ Queue!TypeOK
    <2>1. DOMAIN chan = {1} /\ chan[1] = op /\ Len(chan) = 1 /\ chan \in Seq(Operations)
      BY <1>3
    <2>2. Queue!InProgress = {op}
      BY <1>3, <2>1
    <2> QED
      BY <1>0, <1>3, <2>1, <2>2
  <1> QED
    BY <1>1, <1>2, <1>3 DEF QueueInv

-----------------------------------------------------------------------------
(* The bytes *)

\* The pieces that may wait somewhere: parts of lines the client has begun,
\* and nothing sent in plaintext once the stream is encrypted.
Vias == IF stream = "tls" THEN {"tls"} ELSE {"plain", "tls"}

GoodPieces == [id : 1..Len(script), part : {"line", "head", "tail"}, via : Vias]

\* Besides the types: a partial line exists only while a line is read, and the
\* buffer stays empty during the handshake (nobody reads).
BytesInv ==
    /\ script \in Seq([kind : Kinds, tag : Tags])
    /\ Len(script) <= MaxCmds
    /\ cut \in BOOLEAN /\ closed \in BOOLEAN
    /\ cut => Len(script) > 0
    /\ wire \in Seq(GoodPieces) /\ rbuf \in Seq(GoodPieces) /\ line \in Seq(GoodPieces)
    /\ task = "running" /\ pc \notin {"read", "sasl"} => line = <<>>
    /\ task = "running" /\ pc = "upgrade" => rbuf = <<>>

LEMMA ClientBytes ==
    ASSUME BytesInv, ClientStep
    PROVE  BytesInv'
  <1>0. Len(script) \in Nat /\ MaxCmds \in Nat
    BY LenProperties, BoundAssumption DEF BytesInv
  <1>1. ASSUME NEW part \in {"line", "head"}, CanSend, BeginLine(part), cut' \in BOOLEAN,
               UNCHANGED closed, ServerUnchanged
        PROVE  BytesInv'
    <2>1. PICK kind \in Kinds, tag \in Tags : script' = Append(script, [kind |-> kind, tag |-> tag])
      BY <1>1 DEF BeginLine
    <2>2. /\ script' \in Seq([kind : Kinds, tag : Tags])
          /\ Len(script') = Len(script) + 1
      BY <2>1, AppendProperties DEF BytesInv
    <2>3. Len(script') <= MaxCmds
      BY <1>0, <1>1, <2>2 DEF CanSend
    <2>4. Vias' = Vias /\ Conn!SentVia \in Vias
      BY <1>1 DEF Vias, Conn!SentVia, ServerUnchanged, BeginLine, Put, Conn!Arrive
    <2>5. [id |-> Len(script) + 1, part |-> part, via |-> Conn!SentVia] \in GoodPieces'
      BY <1>0, <2>2, <2>4 DEF GoodPieces
    <2>8. GoodPieces \subseteq GoodPieces'
      BY <1>0, <2>2, <2>4 DEF GoodPieces
    <2>6. wire \in Seq(GoodPieces') /\ rbuf \in Seq(GoodPieces') /\ line \in Seq(GoodPieces')
      BY <2>8, SeqMonotonic DEF BytesInv
    <2>7. wire' \in Seq(GoodPieces')
      BY <1>1, <2>5, <2>6, AppendProperties DEF BeginLine, Put, Conn!Arrive
    <2> QED
      BY <1>0, <1>1, <2>2, <2>3, <2>6, <2>7 DEF BytesInv, ServerUnchanged, BeginLine, Put,
         Conn!Arrive
  <1>2. CASE ClientSendsTail
    <2>1. GoodPieces' = GoodPieces
      BY <1>2 DEF ClientSendsTail, ServerUnchanged, BeginLine, Put, Conn!Arrive, GoodPieces, Vias
    <2>2. [id |-> Len(script), part |-> "tail", via |-> Conn!SentVia] \in GoodPieces
      <3>1. Len(script) \in 1..Len(script) /\ Conn!SentVia \in Vias
        BY <1>0, <1>2 DEF ClientSendsTail, BytesInv, Conn!SentVia, Vias
      <3> QED
        BY <3>1 DEF GoodPieces
    <2>3. wire' \in Seq(GoodPieces)
      BY <1>2, <2>2, AppendProperties DEF BytesInv, ClientSendsTail, Put, Conn!Arrive
    <2> QED
      BY <1>2, <2>1, <2>3 DEF BytesInv, ClientSendsTail, ServerUnchanged, BeginLine, Put,
         Conn!Arrive
  <1>3. CASE ClientCloses
    <2>1. GoodPieces' = GoodPieces
      BY <1>3 DEF ClientCloses, ServerUnchanged, BeginLine, Put, Conn!Arrive, GoodPieces, Vias
    <2> QED
      BY <1>3, <2>1 DEF BytesInv, ClientCloses, ServerUnchanged, BeginLine, Put, Conn!Arrive
  <1>4. CASE ClientSends
    BY <1>1, <1>4 DEF ClientSends, BytesInv
  <1>5. CASE ClientSendsHead
    BY <1>1, <1>5 DEF ClientSendsHead
  <1> QED
    BY <1>2, <1>3, <1>4, <1>5 DEF ClientStep

\* The steps that move bytes from the socket towards the parser.
LineTaken == TakeLine /\ UNCHANGED <<client, task>> /\ Reading /\ pc' # "upgrade"

LEMMA ReadBytes ==
    ASSUME BytesInv, Fill \/ TakeHead \/ LineTaken
    PROVE  BytesInv'
  <1> USE DEF LineTaken
  <1>0. UNCHANGED <<client, stream>> /\ GoodPieces' = GoodPieces
    BY DEF Fill, Conn!Fill, TakeHead, Conn!Take, TakeLine, client, GoodPieces, Vias
  <1>1. CASE Fill
    <2>1. PICK n \in 1..Len(wire) :
            /\ rbuf' = SubSeq(wire, 1, n)
            /\ wire' = SubSeq(wire, n + 1, Len(wire))
      BY <1>1 DEF Fill, Conn!Fill
    <2>2. wire \in Seq(GoodPieces) /\ Len(wire) \in Nat
      BY LenProperties DEF BytesInv
    <2>3. \A i \in 1..Len(wire) : wire[i] \in GoodPieces
      BY <2>2, ElementOfSeq
    <2>4. rbuf' \in Seq(GoodPieces)
      BY <2>1, <2>2, <2>3, SubSeqProperties
    <2>5. wire' \in Seq(GoodPieces)
      BY <2>1, <2>2, <2>3, SubSeqProperties
    <2> QED
      BY <1>0, <1>1, <2>4, <2>5 DEF BytesInv, Fill, Conn!Fill, Reading, client
  <1>2. CASE TakeHead
    <2>1. Head(rbuf) \in GoodPieces /\ Tail(rbuf) \in Seq(GoodPieces)
      BY <1>2, HeadTailProperties DEF BytesInv, TakeHead, Conn!Take
    <2>2. Append(line, Head(rbuf)) \in Seq(GoodPieces)
      BY <2>1, AppendProperties DEF BytesInv
    <2> QED
      BY <1>0, <1>2, <2>1, <2>2 DEF BytesInv, TakeHead, Conn!Take, Reading, client
  <1>3. CASE LineTaken
    <2>1. rbuf' \in Seq(GoodPieces)
      BY <1>3, HeadTailProperties DEF BytesInv, TakeLine, Conn!Take
    <2>2. line' = <<>> /\ line' \in Seq(GoodPieces)
      BY <1>3, EmptySeq DEF TakeLine, Conn!Take
    <2> QED
      BY <1>0, <1>3, <2>1, <2>2 DEF BytesInv, TakeLine, Conn!Take, client, Reading
  <1> QED
    BY <1>1, <1>2, <1>3

\* The actions that leave the bytes alone.  They change pc only to and from
\* points where no line is being read.
LEMMA OtherBytes ==
    ASSUME BytesInv, UNCHANGED <<client, wire, rbuf, stream>>,
           line' = line \/ line' = <<>>,
           task' = "running" => task = "running",
           task' = "running" /\ pc \in {"read", "sasl"} =>
               pc' \in {"read", "sasl"} \/ line' = <<>>,
           task' = "running" /\ pc' = "upgrade" => pc = "upgrade"
    PROVE  BytesInv'
  <1>1. GoodPieces' = GoodPieces
    BY DEF GoodPieces, Vias, client
  <1>2. line' \in Seq(GoodPieces)
    BY EmptySeq DEF BytesInv
  <1> QED
    BY <1>1, <1>2 DEF BytesInv, client

\* The two steps of an upgrade: it starts with an empty buffer, and it
\* succeeds with nothing left in the socket.
LEMMA UpgradeBytes ==
    ASSUME BytesInv, HandleStarttls \/ HandshakeOk \/ HandshakeFails
    PROVE  BytesInv'
  <1>1. CASE HandleStarttls
    <2>1. UNCHANGED <<client, wire, rbuf, line>>
      BY <1>1 DEF HandleStarttls, StartUpgrade, Conn!StartUpgrade
    <2>2. /\ line = <<>>
          /\ pc' = "upgrade" /\ task' = "running" => rbuf = <<>>
          /\ stream' = "tls" => stream = "tls"
      BY <1>1 DEF HandleStarttls, Handling, Running, StartUpgrade, Conn!StartUpgrade,
         Conn!BufferEmpty, Answer, BackToTop, BytesInv
    <2>3. GoodPieces \subseteq GoodPieces'
      <3>1. script' = script /\ Vias \subseteq Vias'
        BY <2>1, <2>2 DEF Vias, client
      <3> QED
        BY <3>1 DEF GoodPieces
    <2>4. wire \in Seq(GoodPieces') /\ rbuf \in Seq(GoodPieces') /\ line \in Seq(GoodPieces')
      BY <2>3, SeqMonotonic DEF BytesInv
    <2> QED
      BY <2>1, <2>2, <2>4 DEF BytesInv, client
  <1>2. CASE HandshakeOk
    <2>1. wire' = <<>> /\ rbuf' = <<>> /\ line' = <<>> /\ UNCHANGED client /\ pc' = "top"
      BY <1>2 DEF HandshakeOk, Conn!UpgradeOk, Running, BytesInv, BackToTop
    <2>2. <<>> \in Seq(GoodPieces')
      BY EmptySeq
    <2> QED
      BY <2>1, <2>2 DEF BytesInv, client
  <1>3. CASE HandshakeFails
    <2>1. wire' = wire /\ rbuf' = <<>> /\ line' = <<>> /\ UNCHANGED client /\ pc' = "upgrade"
          /\ task' = "io"
      BY <1>3 DEF HandshakeFails, Conn!UpgradeFails, Running, BytesInv
    <2>2. GoodPieces \subseteq GoodPieces'
      <3>1. script' = script /\ Vias \subseteq Vias'
        BY <1>3, <2>1 DEF Vias, client, HandshakeFails, Conn!UpgradeFails
      <3> QED
        BY <3>1 DEF GoodPieces
    <2>3. wire \in Seq(GoodPieces')
      BY <2>2, SeqMonotonic DEF BytesInv
    <2>4. <<>> \in Seq(GoodPieces')
      BY EmptySeq
    <2> QED
      BY <2>1, <2>3, <2>4 DEF BytesInv, client
  <1> QED
    BY <1>1, <1>2, <1>3

LEMMA BytesInvStep ==
    ASSUME BytesInv, [AnyNext]_vars
    PROVE  BytesInv'
  <1>1. CASE ClientStep
    BY <1>1, ClientBytes
  <1>2. CASE Fill \/ TakeHead
    BY <1>2, ReadBytes
  <1>3. CASE ParseLine
    <2>1. LineTaken
      BY <1>3 DEF LineTaken, ParseLine, Running, Reading
    <2> QED
      BY <2>1, ReadBytes
  <1>4. CASE SaslResponse
    <2>1. LineTaken
      BY <1>4 DEF LineTaken, SaslResponse, Running, Reading, BackToTop
    <2> QED
      BY <2>1, ReadBytes
  <1>5. CASE HandleStarttls \/ HandshakeOk \/ HandshakeFails
    BY <1>5, UpgradeBytes
  <1>6. CASE NextOp \/ BeginRead \/ Eof \/ Complain \/ Finish \/ DriverFinish \/ IoError \/ Over
    BY <1>6, OtherBytes DEF NextOp, BeginRead, Eof, Complain, Finish, DriverFinish, IoError, Over,
       Running, conn, vars
  <1>7. CASE DrainReady \/ WaitPayload
    BY <1>7, OtherBytes DEF DrainReady, WaitPayload, TakePayload, Running, conn
  <1>8. CASE HandleNoop \/ HandleEnable \/ HandleLogout \/ HandleTodo \/ HandleLogin
    BY <1>8, OtherBytes DEF HandleNoop, HandleEnable, HandleLogout, HandleTodo, HandleLogin,
       Handling, Running, Answer, BackToTop, conn
  <1>9. CASE HandleAuthenticate \/ HandleSelect \/ HandleOperation \/ HandleFetch
    BY <1>9, OtherBytes DEF HandleAuthenticate, HandleSelect, HandleOperation, HandleFetch,
       HandOut, Handling, Running, Answer, BackToTop, conn
  <1>10. CASE \E op \in Operations : OpCompletes(op) \/ OpFinishes(op) \/ OpPanics(op)
    BY <1>10, OtherBytes DEF OpCompletes, OpFinishes, OpPanics, CancelNextOp, conn
  <1>11. CASE UNCHANGED vars
    BY <1>11, OtherBytes DEF vars, conn
  <1> QED
    BY <1>1, <1>2, <1>3, <1>4, <1>5, <1>6, <1>7, <1>8, <1>9, <1>10, <1>11
       DEF AnyNext, Next, DriverNext, SessionStep, NetworkStep, Handlers

-----------------------------------------------------------------------------
(* Where next_op may be suspended *)

\* Besides the types: the stream is away exactly while the handshake is on, a
\* handler that waits has the queue to itself, and after LOGOUT next_op only
\* returns.
ControlInv ==
    /\ greeted \in BOOLEAN
    /\ stream \in {"plain", "tls", "empty"}
    /\ state \in {"notauth", "authenticated", "selected", "logout"}
    /\ pc \in {"start", "top", "read", "complain", "hold", "sasl", "upgrade"}
    /\ held \in Commands \cup {Nothing}
    /\ outcome \in [Ids -> Outcomes]
    /\ task \in {"running", "done", "io"} \cup Panics
    /\ stream = "empty" <=> task = "running" /\ pc = "upgrade"
    /\ task = "running" /\ pc \in {"sasl", "upgrade"} => commands = {}
    /\ task = "running" /\ pc = "sasl" => state = "notauth"
    /\ task = "running" /\ state = "logout" => pc = "top" /\ commands = {}

\* A line that is ready belongs to a line the client has begun.
LEMMA LineIsKnown ==
    ASSUME BytesInv, LineReady
    PROVE  LineId \in Ids /\ KindsRead \subseteq Kinds /\ TagsRead \subseteq Tags
  <1>1. Head(ThisLine) \in GoodPieces
    <2>1. CASE rbuf = <<>>
      BY <2>1, HeadTailProperties DEF LineReady, ThisLine, BytesInv
    <2>2. CASE rbuf # <<>>
      <3>1. Head(rbuf) \in GoodPieces
        BY <2>2, HeadTailProperties DEF BytesInv
      <3>2. /\ Append(line, Head(rbuf)) \in Seq(GoodPieces)
            /\ Append(line, Head(rbuf)) # <<>>
        BY <3>1, AppendProperties DEF BytesInv
      <3> QED
        BY <2>2, <3>2, HeadTailProperties DEF ThisLine
    <2> QED
      BY <2>1, <2>2
  <1>2. LineId \in 1..Len(script)
    BY <1>1 DEF GoodPieces, LineId
  <1>3. /\ script \in Seq([kind : Kinds, tag : Tags])
        /\ Len(script) \in Nat /\ MaxCmds \in Nat /\ Len(script) <= MaxCmds
    BY LenProperties, BoundAssumption DEF BytesInv
  <1>4. script[LineId] \in [kind : Kinds, tag : Tags]
    BY <1>2, <1>3, ElementOfSeq
  <1>5. LineId \in Ids
    BY <1>2, <1>3 DEF Ids
  <1> QED
    BY <1>4, <1>5 DEF KindsRead, TagsRead

LEMMA RecordTypes ==
    ASSUME outcome \in [Ids -> Outcomes], NEW id, NEW res \in Outcomes, Record(id, res)
    PROVE  outcome' \in [Ids -> Outcomes]
  BY DEF Record

LEMMA PayloadControl ==
    ASSUME ControlInv, DrainReady \/ WaitPayload
    PROVE  ControlInv'
  <1>1. /\ task = "running" /\ pc \in {"top", "hold"} /\ state # "logout"
        /\ UNCHANGED <<client, conn, greeted, pc, held>>
        /\ stream \in {"plain", "tls"}
    BY DEF DrainReady, WaitPayload, TakePayload, Running, ControlInv
  <1>2. PICK res \in OpResults : ConsumeReady(Head(chan), res)
    BY DEF DrainReady, WaitPayload, TakePayload
  <1>3. res \in Outcomes
    BY ResultsAssumption DEF Outcomes
  <1>4. outcome' \in [Ids -> Outcomes]
    BY <1>2, <1>3, RecordTypes DEF ConsumeReady, ControlInv, Outcomes
  <1>5. /\ state' \in {"notauth", "authenticated", "selected"}
        /\ task' \in {"running", "done", "io"} \cup Panics
    BY <1>1, <1>2 DEF ConsumeReady, ControlInv, Panics
  <1> QED
    BY <1>1, <1>4, <1>5 DEF ControlInv, conn

LEMMA ReadControl ==
    ASSUME BytesInv, ControlInv, QueueInv,
           NextOp \/ BeginRead \/ Fill \/ TakeHead \/ Eof \/ ParseLine \/ Complain \/ SaslResponse
    PROVE  ControlInv'
  <1>1. CASE NextOp \/ BeginRead \/ Fill \/ TakeHead \/ Eof
    BY <1>1 DEF NextOp, BeginRead, Fill, Conn!Fill, TakeHead, Conn!Take, Eof, Reading, Running,
       ControlInv, conn, queue, Panics
  <1>2. CASE Complain
    <2>1. outcome' \in [Ids -> Outcomes]
      BY <1>2, RecordTypes DEF Complain, ControlInv, Outcomes
    <2> QED
      BY <1>2, <2>1 DEF Complain, Running, ControlInv, conn, queue
  <1>3. CASE ParseLine
    <2>1. PICK kind \in KindsRead, tag \in TagsRead :
            \/ /\ Record(LineId, "ignored")
               /\ UNCHANGED <<pc, held>>
            \/ /\ held' = [id |-> LineId, kind |-> kind, tag |-> tag]
               /\ pc' = IF IsSyntaxError(kind) THEN "complain" ELSE "hold"
               /\ UNCHANGED outcome
      BY <1>3 DEF ParseLine
    <2>2. LineId \in Ids /\ kind \in AllKinds /\ tag \in Tags
      BY <1>3, LineIsKnown, KindsAssumption DEF ParseLine
    <2>3. [id |-> LineId, kind |-> kind, tag |-> tag] \in Commands
      BY <2>2 DEF Commands
    <2>4. held' \in Commands \cup {Nothing}
      BY <2>1, <2>3 DEF ControlInv
    <2>5. outcome' \in [Ids -> Outcomes]
      BY <2>1, RecordTypes DEF ControlInv, Outcomes
    <2>6. /\ pc = "read" /\ task = "running" /\ pc' \in {"read", "complain", "hold"}
          /\ UNCHANGED <<greeted, stream, state, task, commands>>
      BY <1>3, <2>1 DEF ParseLine, Running, TakeLine, Conn!Take, queue
    <2> QED
      BY <2>4, <2>5, <2>6 DEF ControlInv
  <1>4. CASE SaslResponse
    <2>1. PICK kind \in KindsRead : \E res \in SaslResults(kind) :
            /\ outcome' = [outcome EXCEPT ![LineId] = "eaten", ![held.id] = res]
            /\ Authenticated(res)
      BY <1>4 DEF SaslResponse
    <2>2. PICK res \in SaslResults(kind) :
            /\ outcome' = [outcome EXCEPT ![LineId] = "eaten", ![held.id] = res]
            /\ Authenticated(res)
      BY <2>1
    <2>3. res \in Outcomes
      BY ResultsAssumption DEF SaslResults, Outcomes
    <2>4. outcome' \in [Ids -> Outcomes]
      BY <2>2, <2>3 DEF ControlInv, Outcomes
    <2>5. /\ pc = "sasl" /\ task = "running" /\ pc' = "top" /\ held' = Nothing
          /\ UNCHANGED <<greeted, stream, task, commands>>
      BY <1>4 DEF SaslResponse, Running, TakeLine, Conn!Take, BackToTop, queue
    <2>6. state' \in {"notauth", "authenticated", "selected", "logout"}
      BY <2>2 DEF Authenticated, ControlInv
    <2> QED
      BY <2>4, <2>5, <2>6 DEF ControlInv
  <1> QED
    BY <1>1, <1>2, <1>3, <1>4

\* Handlers start with no command in progress and leave none, but those that
\* hand an operation out return to their caller.
LEMMA HandlerControl ==
    ASSUME ControlInv, Handlers
    PROVE  ControlInv'
  <1>1. task = "running" /\ pc = "hold" /\ commands = {} /\ stream \in {"plain", "tls"}
    BY DEF Handlers, HandleNoop, HandleEnable, HandleLogout, HandleTodo, HandleStarttls,
       HandleLogin, HandleAuthenticate, HandleSelect, HandleOperation, HandleFetch, Handling,
       Running, Queue!MustWaitBefore, ControlInv
  <1>2. ASSUME NEW res \in Outcomes, Answer(res)
        PROVE  outcome' \in [Ids -> Outcomes] /\ held' = Nothing /\ pc' = "top"
    BY <1>2, RecordTypes DEF Answer, BackToTop, ControlInv
  <1>3. {"ok", "no", "bad", "ignored"} \subseteq Outcomes /\ AuthResults \subseteq {"ok", "no"}
    BY ResultsAssumption DEF Outcomes
  <1>4. CASE HandleNoop \/ HandleEnable \/ HandleLogout
    BY <1>1, <1>2, <1>3, <1>4 DEF HandleNoop, HandleEnable, HandleLogout, ControlInv, conn, queue
  <1>5. CASE HandleTodo
    BY <1>1, <1>5 DEF HandleTodo, ControlInv, conn, queue, Panics
  <1>6. CASE HandleStarttls
    <2>1. CASE Answer("bad") /\ UNCHANGED <<stream, task>>
      BY <1>1, <1>2, <1>3, <1>6, <2>1 DEF HandleStarttls, ControlInv, queue
    <2>2. CASE Record(held.id, "bad") /\ StartUpgrade /\ UNCHANGED held
      <3>1. outcome' \in [Ids -> Outcomes]
        BY <1>3, <2>2, RecordTypes DEF ControlInv
      <3> QED
        BY <1>1, <1>6, <2>2, <3>1 DEF HandleStarttls, StartUpgrade, Conn!StartUpgrade,
           Conn!BufferEmpty, ControlInv, queue, Panics
    <2> QED
      BY <1>6, <2>1, <2>2 DEF HandleStarttls
  <1>7. CASE HandleLogin
    <2>1. PICK res \in AuthResults \cup {"bad"} :
            Answer(res) /\ (Authenticated(res) \/ UNCHANGED state)
      BY <1>7 DEF HandleLogin
    <2>2. state' \in {"notauth", "authenticated", "selected", "logout"}
      BY <2>1 DEF Authenticated, ControlInv
    <2>3. outcome' \in [Ids -> Outcomes] /\ held' = Nothing /\ pc' = "top"
      BY <1>2, <1>3, <2>1
    <2> QED
      BY <1>1, <1>7, <2>2, <2>3 DEF HandleLogin, ControlInv, conn, queue
  <1>8. CASE HandleAuthenticate
    BY <1>1, <1>2, <1>3, <1>8 DEF HandleAuthenticate, NotAuthenticated, ControlInv, conn, queue
  <1>9. CASE HandleSelect
    BY <1>1, <1>2, <1>3, <1>9 DEF HandleSelect, ControlInv, conn, queue, Panics
  <1>10. CASE HandleOperation \/ HandleFetch
    <2>1. CASE HandOut
      BY <1>1, <1>10, <2>1 DEF HandOut, HandleOperation, HandleFetch, ControlInv, conn
    <2>2. CASE Answer("bad") /\ UNCHANGED queue
      BY <1>1, <1>2, <1>3, <1>10, <2>2 DEF HandleOperation, HandleFetch, ControlInv, conn, queue
    <2> QED
      BY <1>10, <2>1, <2>2 DEF HandleOperation, HandleFetch
  <1> QED
    BY <1>4, <1>5, <1>6, <1>7, <1>8, <1>9, <1>10 DEF Handlers

\* An operation that finishes finds no handler waiting, so the driver never
\* drops next_op in the middle of a handshake.
LEMMA OperationControl ==
    ASSUME QueueInv, ControlInv, NEW op \in Operations,
           OpCompletes(op) \/ OpFinishes(op) \/ OpPanics(op)
    PROVE  ControlInv'
  <1>1. task = "running" /\ op \in open
    BY DEF OpCompletes, OpFinishes, OpPanics, Queue!Send
  <1>2. commands # {} /\ pc \notin {"sasl", "upgrade"} /\ stream # "empty"
    BY <1>1 DEF QueueInv, ControlInv
  <1>3. CASE OpCompletes(op)
    BY <1>2, <1>3 DEF OpCompletes, ControlInv, conn, Queue!Send
  <1>4. CASE OpFinishes(op)
    BY <1>2, <1>4 DEF OpFinishes, CancelNextOp, ControlInv, Queue!Send
  <1>5. CASE OpPanics(op)
    BY <1>2, <1>5 DEF OpPanics, ControlInv, conn, queue, Panics
  <1> QED
    BY <1>3, <1>4, <1>5

LEMMA ControlInvStep ==
    ASSUME QueueInv, BytesInv, ControlInv, [AnyNext]_vars
    PROVE  ControlInv'
  <1>1. CASE ClientStep
    BY <1>1 DEF ClientStep, ClientSends, ClientSendsHead, ClientSendsTail, ClientCloses,
       ServerUnchanged, BeginLine, Put, Conn!Arrive, ControlInv, queue
  <1>2. CASE DrainReady \/ WaitPayload
    BY <1>2, PayloadControl
  <1>3. CASE NextOp \/ BeginRead \/ Fill \/ TakeHead \/ Eof \/ ParseLine \/ Complain \/ SaslResponse
    BY <1>3, ReadControl
  <1>4. CASE Handlers
    BY <1>4, HandlerControl
  <1>5. CASE Finish \/ DriverFinish
    BY <1>5 DEF Finish, DriverFinish, Running, ControlInv, conn, queue
  <1>6. CASE NetworkStep
    BY <1>6 DEF NetworkStep, HandshakeOk, Conn!UpgradeOk, HandshakeFails, Conn!UpgradeFails,
       IoError, Running, BackToTop, ControlInv, conn, queue
  <1>7. CASE \E op \in Operations : OpCompletes(op) \/ OpFinishes(op) \/ OpPanics(op)
    BY <1>7, OperationControl
  <1>8. CASE Over \/ UNCHANGED vars
    BY <1>8 DEF Over, vars, ControlInv, conn, queue
  <1> QED
    BY <1>1, <1>2, <1>3, <1>4, <1>5, <1>6, <1>7, <1>8 DEF AnyNext, Next, DriverNext, SessionStep

-----------------------------------------------------------------------------
(* The theorems *)

IInv == QueueInv /\ BytesInv /\ ControlInv

LEMMA InitIInv == Init => IInv
  <1> SUFFICES ASSUME Init PROVE IInv
    OBVIOUS
  <1>1. QueueInv
    BY DEF Init, Conn!Init, Queue!Init, QueueInv
  <1>2. BytesInv
    <2>1. /\ <<>> \in Seq([kind : Kinds, tag : Tags])
          /\ <<>> \in Seq(GoodPieces)
          /\ Len(<<>>) = 0
          /\ MaxCmds \in Nat
      BY EmptySeq, BoundAssumption
    <2>2. /\ script = <<>> /\ wire = <<>> /\ rbuf = <<>> /\ line = <<>>
          /\ cut = FALSE /\ closed = FALSE
      BY DEF Init, Conn!Init
    <2>3. /\ script \in Seq([kind : Kinds, tag : Tags])
          /\ Len(script) = 0
          /\ wire \in Seq(GoodPieces) /\ rbuf \in Seq(GoodPieces) /\ line \in Seq(GoodPieces)
      BY <2>1, <2>2
    <2>4. cut \in BOOLEAN /\ closed \in BOOLEAN /\ ~cut
      BY <2>2, Zenon
    <2> QED
      BY <2>1, <2>2, <2>3, <2>4 DEF BytesInv
  <1>3. ControlInv
    BY DEF Init, Conn!Init, ControlInv, Queue!Init, Outcomes
  <1> QED
    BY <1>1, <1>2, <1>3 DEF IInv

LEMMA StepIInv == IInv /\ [AnyNext]_vars => IInv'
  <1> SUFFICES ASSUME IInv, [AnyNext]_vars PROVE IInv'
    OBVIOUS
  <1>1. QueueInv'
    BY StepIsQueueStep, QueueInvStep DEF IInv, ControlInv
  <1>2. BytesInv'
    BY BytesInvStep DEF IInv
  <1>3. ControlInv'
    BY ControlInvStep DEF IInv
  <1> QED
    BY <1>1, <1>2, <1>3 DEF IInv

\* The invariants of the runs follow from the inductive one.
Safe ==
    /\ TypeOK
    /\ OneInProgress
    /\ QueueConsistent
    /\ HandlersRunAlone
    /\ NothingPlainSurvives

LEMMA IInvImpliesSafe == IInv => Safe
  <1> SUFFICES ASSUME IInv PROVE Safe
    OBVIOUS
  <1>1. OneInProgress /\ QueueConsistent /\ Queue!TypeOK
    BY QueueInvImplies DEF IInv
  <1>2. GoodPieces \subseteq Pieces
    <2>1. Len(script) \in Nat /\ MaxCmds \in Nat /\ Len(script) <= MaxCmds
      BY LenProperties, BoundAssumption DEF IInv, BytesInv
    <2>2. 1..Len(script) \subseteq Ids /\ Vias \subseteq {"plain", "tls"}
      BY <2>1 DEF Ids, Vias
    <2> QED
      BY <2>2 DEF GoodPieces, Pieces
  <1>3. wire \in Seq(Pieces) /\ rbuf \in Seq(Pieces) /\ line \in Seq(Pieces)
    BY <1>2, SeqMonotonic DEF IInv, BytesInv
  <1>4. TypeOK
    BY <1>1, <1>3 DEF IInv, TypeOK, BytesInv, ControlInv
  <1>5. HandlersRunAlone
    <2>1. commands = {} => Queue!InProgress = {}
      BY DEF IInv, QueueInv, Queue!InProgress, Queue!Range
    <2> QED
      BY <2>1 DEF IInv, ControlInv, HandlersRunAlone
  <1>6. NothingPlainSurvives
    <2> SUFFICES ASSUME stream = "tls",
                        NEW piece \in Range(wire) \cup Range(rbuf) \cup Range(line)
                 PROVE  piece.via = "tls"
      BY DEF NothingPlainSurvives
    <2>1. piece \in GoodPieces
      BY ElementOfSeq, LenProperties DEF IInv, BytesInv, Range
    <2> QED
      BY <2>1 DEF GoodPieces, Vias
  <1> QED
    BY <1>1, <1>4, <1>5, <1>6 DEF Safe

LEMMA DriverSafe == DriverSpec => []Safe
  <1>1. Init => IInv
    BY InitIInv
  <1>2. IInv /\ [DriverNext]_vars => IInv'
    BY StepIInv DEF AnyNext
  <1> QED
    BY <1>1, <1>2, IInvImpliesSafe, PTL DEF DriverSpec

LEMMA LibrarySafe == Spec => []Safe
  <1>1. Init => IInv
    BY InitIInv
  <1>2. IInv /\ [Next]_vars => IInv'
    BY StepIInv DEF AnyNext
  <1> QED
    BY <1>1, <1>2, IInvImpliesSafe, PTL DEF Spec

\* Under handle_imap of src/main.rs, whatever the client sends and however
\* select! schedules it, next_op is never dropped in a handshake or a SASL
\* exchange, nor is the stream missing while anything else is awaited.
THEOREM WaitingHandlersAreAlone == DriverSpec => []HandlersRunAlone
  <1>1. Safe => HandlersRunAlone
    BY DEF Safe
  <1> QED
    BY <1>1, DriverSafe, PTL

\* Under handle_imap the session keeps the contract of queue.rs, whatever
\* tags the client reuses: the assertions there never fail.
THEOREM DriverKeepsContract == DriverSpec => []QueueConsistent
  <1>1. Safe => QueueConsistent
    BY DEF Safe
  <1> QED
    BY <1>1, DriverSafe, PTL

\* Under handle_imap no piece of a line that was sent in plaintext is left
\* anywhere to be read once STARTTLS has succeeded.
THEOREM NothingPlainLeft == DriverSpec => []NothingPlainSurvives
  <1>1. Safe => NothingPlainSurvives
    BY DEF Safe
  <1> QED
    BY <1>1, DriverSafe, PTL

\* The library crates/imap, used without dropping next_op and with operations
\* that complete at any time, never has two commands in progress.
THEOREM LibraryOneInProgress == Spec => []OneInProgress
  <1>1. Safe => OneInProgress
    BY DEF Safe
  <1> QED
    BY <1>1, LibrarySafe, PTL

\* The library keeps its types, whatever lines are read, cut or pipelined: in
\* particular the channel never holds more than its places.
THEOREM LibraryTypes == Spec => []TypeOK
  <1>1. Safe => TypeOK
    BY DEF Safe
  <1> QED
    BY <1>1, LibrarySafe, PTL

-----------------------------------------------------------------------------
(* The life cycle: every step is a step of ImapProtocol, or none of its *)

\* The protocol sees nothing of a step that leaves these alone.
LEMMA StutterProtocol ==
    ASSUME UNCHANGED <<task, state, stream, commands>>
    PROVE  UNCHANGED Protocol!vars
  BY DEF Protocol!vars

\* Whatever ends the session is an End.
LEMMA EndProtocol ==
    ASSUME ControlInv, task = "running", task' # "running",
           commands' \in {commands, {}}, stream' = "tls" <=> stream = "tls"
    PROVE  Protocol!End
  BY DEF Protocol!End, ControlInv

LEMMA PayloadProtocol ==
    ASSUME IInv, DrainReady \/ WaitPayload
    PROVE  Protocol!Next
  <1>1. /\ task = "running"
        /\ Queue!Recv
        /\ UNCHANGED stream
    BY DEF DrainReady, WaitPayload, TakePayload, Running, conn
  <1>2. commands # {} /\ commands' = {}
    <2>1. PICK op \in Operations : commands = {op.tag} /\ chan = <<op>>
      BY <1>1 DEF IInv, QueueInv, Queue!Recv
    <2> QED
      BY <1>1, <2>1 DEF Queue!Recv
  <1>3. PICK res \in OpResults : ConsumeReady(Head(chan), res)
    BY DEF DrainReady, WaitPayload, TakePayload
  <1>4. CASE task' = "running"
    <2>1. state' = state \/ (state = "authenticated" /\ state' = "selected")
      BY <1>1, <1>3, <1>4 DEF ConsumeReady
    <2>2. Protocol!Complete
      BY <1>1, <1>2, <1>4, <2>1 DEF Protocol!Complete, IInv, ControlInv
    <2> QED
      BY <2>2 DEF Protocol!Next
  <1>5. CASE task' # "running"
    BY <1>1, <1>2, <1>5, EndProtocol DEF IInv, Protocol!Next
  <1> QED
    BY <1>4, <1>5

LEMMA HandlerProtocol ==
    ASSUME IInv, Handlers
    PROVE  [Protocol!Next]_(Protocol!vars)
  <1>1. task = "running" /\ pc = "hold" /\ commands = {} /\ ControlInv
    BY DEF IInv, Handlers, HandleNoop, HandleEnable, HandleLogout, HandleTodo, HandleStarttls,
       HandleLogin, HandleAuthenticate, HandleSelect, HandleOperation, HandleFetch, Handling,
       Running, Queue!MustWaitBefore
  <1>2. Protocol!Idle
    BY <1>1 DEF Protocol!Idle, ControlInv
  <1>3. CASE HandleNoop \/ HandleEnable \/ HandleAuthenticate
    BY <1>3, StutterProtocol DEF HandleNoop, HandleEnable, HandleAuthenticate, conn, queue
  <1>4. CASE HandleLogout
    BY <1>1, <1>2, <1>4 DEF HandleLogout, conn, queue, Protocol!Logout, Protocol!Next
  <1>5. CASE HandleTodo
    BY <1>1, <1>5, EndProtocol DEF HandleTodo, conn, queue, Protocol!Next
  <1>6. CASE HandleStarttls
    <2>1. CASE task' = "running"
      <3>1. UNCHANGED <<task, state, commands>> /\ (stream' = "tls" <=> stream = "tls")
        BY <1>1, <1>6, <2>1 DEF HandleStarttls, StartUpgrade, Conn!StartUpgrade, Conn!BufferEmpty,
           queue
      <3> QED
        BY <3>1 DEF Protocol!vars
    <2>2. CASE task' # "running"
      <3>1. commands' = commands /\ (stream' = "tls" <=> stream = "tls")
        BY <1>1, <1>6, <2>2 DEF HandleStarttls, StartUpgrade, Conn!StartUpgrade, Conn!BufferEmpty,
           queue
      <3> QED
        BY <1>1, <2>2, <3>1, EndProtocol DEF Protocol!Next
    <2> QED
      BY <2>1, <2>2
  <1>7. CASE HandleLogin
    <2>1. UNCHANGED <<task, stream, commands>>
      BY <1>7 DEF HandleLogin, conn, queue
    <2>2. state' = state \/ (state = "notauth" /\ state' = "authenticated")
      BY <1>7 DEF HandleLogin, Authenticated, NotAuthenticated
    <2>3. CASE state' = state
      BY <2>1, <2>3, StutterProtocol
    <2>4. CASE state = "notauth" /\ state' = "authenticated"
      BY <1>1, <1>2, <2>1, <2>4 DEF Protocol!Login, Protocol!Next
    <2> QED
      BY <2>2, <2>3, <2>4
  <1>8. CASE HandleSelect
    <2>1. UNCHANGED <<state, stream, commands>>
      BY <1>8 DEF HandleSelect, conn, queue
    <2>2. CASE task' = "running"
      BY <1>1, <2>1, <2>2, StutterProtocol
    <2>3. CASE task' # "running"
      BY <1>1, <2>1, <2>3, EndProtocol DEF Protocol!Next
    <2> QED
      BY <2>2, <2>3
  <1>9. CASE HandleOperation \/ HandleFetch
    <2>1. UNCHANGED <<task, state, stream>>
      BY <1>9 DEF HandleOperation, HandleFetch, conn
    <2>2. CASE HandOut
      <3>1. commands' # {}
        BY <2>2 DEF HandOut, Queue!Insert
      <3> QED
        BY <1>1, <1>2, <2>1, <3>1 DEF Protocol!Execute, Protocol!Next
    <2>3. CASE UNCHANGED queue
      BY <2>1, <2>3, StutterProtocol DEF queue
    <2> QED
      BY <1>9, <2>2, <2>3 DEF HandleOperation, HandleFetch
  <1> QED
    BY <1>3, <1>4, <1>5, <1>6, <1>7, <1>8, <1>9 DEF Handlers

\* SASL, the handshake, and what ends the session from outside.
LEMMA WaitingProtocol ==
    ASSUME IInv, SaslResponse \/ NetworkStep
    PROVE  [Protocol!Next]_(Protocol!vars)
  <1>0. ControlInv
    BY DEF IInv
  <1>1. CASE SaslResponse
    <2>1. /\ task = "running" /\ pc = "sasl" /\ commands = {}
          /\ UNCHANGED <<task, stream, commands>>
      BY <1>0, <1>1 DEF SaslResponse, Running, TakeLine, Conn!Take, queue, ControlInv
    <2>2. PICK res \in Outcomes \cup AuthResults : Authenticated(res)
      BY <1>1 DEF SaslResponse, SaslResults, Outcomes
    <2>3. CASE state' = state
      BY <2>1, <2>3, StutterProtocol
    <2>4. CASE state' = "authenticated" /\ state = "notauth"
      BY <2>1, <2>4 DEF Protocol!Login, Protocol!Idle, Protocol!Next
    <2> QED
      BY <1>0, <2>1, <2>2, <2>3, <2>4 DEF Authenticated, ControlInv
  <1>2. CASE HandshakeOk
    <2>1. /\ task = "running" /\ commands = {} /\ stream = "empty" /\ stream' = "tls"
          /\ state # "logout"
          /\ UNCHANGED <<task, state, commands>>
      BY <1>0, <1>2 DEF HandshakeOk, Conn!UpgradeOk, Running, queue, ControlInv
    <2> QED
      BY <1>0, <2>1 DEF Protocol!Secure, Protocol!Idle, Protocol!Next, ControlInv
  <1>3. CASE HandshakeFails \/ IoError
    <2>1. /\ task = "running" /\ task' # "running" /\ commands' = commands
          /\ stream' = "tls" <=> stream = "tls"
      BY <1>0, <1>3 DEF HandshakeFails, Conn!UpgradeFails, IoError, Running, conn, queue, ControlInv
    <2> QED
      BY <1>0, <2>1, EndProtocol DEF Protocol!Next
  <1> QED
    BY <1>1, <1>2, <1>3 DEF NetworkStep

LEMMA StepProtocol ==
    ASSUME IInv, [AnyNext]_vars
    PROVE  [Protocol!Next]_(Protocol!vars)
  <1>1. CASE ClientStep
    BY <1>1, StutterProtocol DEF ClientStep, ClientSends, ClientSendsHead, ClientSendsTail,
       ClientCloses, ServerUnchanged, BeginLine, Put, Conn!Arrive, queue
  <1>2. CASE DrainReady \/ WaitPayload
    BY <1>2, PayloadProtocol
  <1>3. CASE NextOp \/ BeginRead \/ Fill \/ TakeHead \/ ParseLine \/ Complain
    BY <1>3, StutterProtocol DEF NextOp, BeginRead, Fill, Conn!Fill, TakeHead, Conn!Take,
       ParseLine, Complain, TakeLine, conn, queue
  <1>4. CASE Eof \/ Finish \/ DriverFinish
    <2>1. /\ task = "running" /\ task' # "running"
          /\ commands' = commands /\ stream' = stream
      BY <1>4 DEF Eof, Finish, DriverFinish, Reading, Running, conn, queue
    <2> QED
      BY <2>1, EndProtocol DEF IInv, Protocol!Next
  <1>5. CASE SaslResponse \/ NetworkStep
    BY <1>5, WaitingProtocol
  <1>6. CASE Handlers
    BY <1>6, HandlerProtocol
  <1>7. ASSUME NEW op \in Operations, OpCompletes(op) \/ OpFinishes(op)
        PROVE  [Protocol!Next]_(Protocol!vars)
    BY <1>7, StutterProtocol DEF OpCompletes, OpFinishes, conn, Queue!Send
  <1>8. ASSUME NEW op \in Operations, OpPanics(op)
        PROVE  [Protocol!Next]_(Protocol!vars)
    <2>1. /\ task = "running" /\ task' # "running"
          /\ commands' = commands /\ stream' = stream
      BY <1>8 DEF OpPanics, conn, queue
    <2> QED
      BY <2>1, EndProtocol DEF IInv, Protocol!Next
  <1>9. CASE Over \/ UNCHANGED vars
    BY <1>9, StutterProtocol DEF Over, vars, conn, queue
  <1> QED
    BY <1>1, <1>2, <1>3, <1>4, <1>5, <1>6, <1>7, <1>8, <1>9
       DEF AnyNext, Next, DriverNext, SessionStep

LEMMA InitProtocol == Init => Protocol!Init
  BY DEF Init, Conn!Init, Protocol!Init, Queue!Init

\* The session under its driver only moves forward through its states,
\* encrypts its stream at most once, and changes neither with a command in
\* progress, except that the answer to a command may select its mailbox.
THEOREM DriverImplementsProtocol == DriverSpec => ImplementsProtocol
  <1>1. Init => IInv /\ Protocol!Init
    BY InitIInv, InitProtocol
  <1>2. IInv /\ [DriverNext]_vars => IInv'
    BY StepIInv DEF AnyNext
  <1>3. IInv /\ [DriverNext]_vars => [Protocol!Next]_(Protocol!vars)
    BY StepProtocol DEF AnyNext
  <1> QED
    BY <1>1, <1>2, <1>3, PTL DEF DriverSpec, ImplementsProtocol, Protocol!Spec

-----------------------------------------------------------------------------
(* Every line is answered, once and in order, when crates/imap is used as  *)
(* a library.  Under the driver of src/main.rs the first of the three is   *)
(* false (run imap_cancel).                                                *)

\* What has been sent and not yet parsed, wherever it waits.
Unread == line \o rbuf \o wire

\* Lines keep their order, and the two parts of a line that was cut in two
\* stay together: its head is not behind another part of it, and its tail is
\* never without it.
Ordered(pieces) ==
    /\ \A i \in DOMAIN pieces :
          pieces[i].part = "tail" => i > 1 /\ pieces[i - 1].part = "head"
    /\ \A i \in DOMAIN pieces :
          i < Len(pieces) /\ pieces[i].part = "head" =>
             pieces[i + 1].part = "tail" /\ pieces[i + 1].id = pieces[i].id
    /\ \A i, j \in DOMAIN pieces :
          i < j /\ pieces[j].part # "tail" => pieces[i].id < pieces[j].id

EndsInHead(pieces) == pieces # <<>> /\ pieces[Len(pieces)].part = "head"

PiecesInv ==
    /\ Ordered(Unread)
    /\ EndsInHead(Unread) => cut /\ Unread[Len(Unread)].id = Len(script)
    /\ cut /\ ~closed => EndsInHead(Unread)
    /\ \A i \in DOMAIN line : line[i].part = "head"

\* Where a line that is not answered can be.
Waiting   == {Unread[i].id : i \in DOMAIN Unread}
InHand    == IF held = Nothing \/ pc = "upgrade" THEN {} ELSE {held.id}
Executing == {op.id : op \in Queue!InProgress}

HeldInv == held # Nothing <=> pc \in {"complain", "hold", "sasl", "upgrade"}

\* The lines of sent are those that wait, the one in hand and those executing,
\* which are not answered, and the answered; executing lines come before the
\* one in hand, that one before those that wait, and what next_op executed or
\* had executed came before them all.
Settled(waiting, inHand, executing, sent, answer) ==
    /\ sent \in Nat /\ sent <= MaxCmds
    /\ waiting \cup inHand \cup executing \subseteq 1..sent
    /\ \A id \in Ids :
          answer[id] = "none" <=> id > sent \/ id \in waiting \cup inHand \cup executing
    /\ \A e \in executing, h \in inHand : e < h
    /\ \A e \in executing, w \in waiting : e < w
    /\ \A h \in inHand, w \in waiting : h < w
    /\ \A j \in Ids : answer[j] \in Executed =>
          \A id \in waiting \cup inHand \cup executing : j < id

AnswersInv == Settled(Waiting, InHand, Executing, Len(script), outcome)

OrderInv == task = "running" => PiecesInv /\ HeldInv /\ AnswersInv

\* What a step may do to the outcomes: it answers lines not answered yet.
Touches ==
    \A id \in Ids :
        outcome'[id] # outcome[id] => id \in Waiting \cup InHand \cup Executing

\* A step of a running session that keeps the invariant.
KeepsOrder == Touches /\ OrderInv'

-----------------------------------------------------------------------------
(* Sequences of pieces *)

LEMMA PieceIds == \A piece \in Pieces : piece.id \in Nat
  BY BoundAssumption DEF Pieces, Ids

LEMMA OrderedAppend ==
    ASSUME NEW W \in Seq(Pieces), NEW p \in Pieces, Ordered(W),
           \/ p.part = "tail" /\ EndsInHead(W) /\ p.id = W[Len(W)].id
           \/ p.part # "tail" /\ ~EndsInHead(W) /\ \A i \in DOMAIN W : W[i].id < p.id
    PROVE  Ordered(Append(W, p))
<1> DEFINE V == Append(W, p)
<1>1. /\ Len(W) \in Nat /\ DOMAIN W = 1..Len(W) /\ DOMAIN V = 1..(Len(W) + 1)
      /\ Len(V) = Len(W) + 1
      /\ \A i \in 1..Len(W) : V[i] = W[i]
      /\ V[Len(W) + 1] = p
  OBVIOUS
<1>2. /\ \A i \in 1..Len(W) : W[i].id \in Nat
      /\ p.id \in Nat
  BY ElementOfSeq, PieceIds
<1>3. W # <<>> <=> Len(W) > 0
  BY <1>1
<1> HIDE DEF V
<1>4. \A i \in DOMAIN V : V[i].part = "tail" => i > 1 /\ V[i - 1].part = "head"
  BY <1>1, <1>3 DEF Ordered, EndsInHead
<1>5. \A i \in DOMAIN V :
         i < Len(V) /\ V[i].part = "head" => V[i + 1].part = "tail" /\ V[i + 1].id = V[i].id
  BY <1>1, <1>3 DEF Ordered, EndsInHead
<1>6. \A i, j \in DOMAIN V : i < j /\ V[j].part # "tail" => V[i].id < V[j].id
  BY <1>1, <1>2, <1>3 DEF Ordered
<1>7. Ordered(V)
  BY <1>4, <1>5, <1>6 DEF Ordered
<1> QED BY <1>7 DEF V

LEMMA Shifted ==
    \A i, n, m \in Nat : i \in 1..m =>
        /\ (i - 1) + n = (i + n) - 1 /\ (i + 1) + n = (i + n) + 1
        /\ i # 1 => i - 1 \in 1..m
        /\ i < m => i + 1 \in 1..m
  OBVIOUS

LEMMA OrderedSuffix ==
    ASSUME NEW W \in Seq(Pieces), NEW n \in 1..Len(W), Ordered(W),
           NEW V \in Seq(Pieces), Len(V) = Len(W) - n,
           \A i \in 1..Len(V) : V[i] = W[i + n],
           n < Len(W) => W[n].part # "head"
    PROVE  Ordered(V)
<1>1. /\ Len(W) \in Nat /\ DOMAIN W = 1..Len(W) /\ Len(V) \in Nat /\ DOMAIN V = 1..Len(V)
  OBVIOUS
<1>4. ASSUME NEW i \in DOMAIN V, V[i].part = "tail"
      PROVE  i > 1 /\ V[i - 1].part = "head"
  <2>1. i + n \in DOMAIN W /\ W[i + n].part = "tail"
    BY <1>1, <1>4
  <2>2. W[(i + n) - 1].part = "head"
    BY <2>1 DEF Ordered
  <2>3. i # 1
    <3>1. i = 1 => (i + n) - 1 = n /\ n < Len(W)
      BY <1>1, <1>4
    <3> QED BY <2>2, <3>1
  <2>4. i - 1 \in 1..Len(V) /\ (i - 1) + n = (i + n) - 1
    <3>1. i \in 1..Len(V) /\ Len(V) \in Nat /\ n \in Nat /\ i \in Nat
      BY <1>1
    <3> QED BY <2>3, <3>1, Shifted
  <2> QED BY <1>1, <2>2, <2>4
<1>5. ASSUME NEW i \in DOMAIN V, i < Len(V), V[i].part = "head"
      PROVE  V[i + 1].part = "tail" /\ V[i + 1].id = V[i].id
  <2>1. i + n \in DOMAIN W /\ i + n < Len(W) /\ W[i + n] = V[i]
    BY <1>1, <1>5
  <2>2. W[(i + n) + 1].part = "tail" /\ W[(i + n) + 1].id = W[i + n].id
    BY <2>1, <1>5 DEF Ordered
  <2>3. i + 1 \in 1..Len(V) /\ (i + 1) + n = (i + n) + 1
    <3>1. i \in 1..Len(V) /\ Len(V) \in Nat /\ n \in Nat /\ i \in Nat
      BY <1>1
    <3> QED BY <1>5, <3>1, Shifted
  <2> QED BY <1>1, <2>1, <2>2, <2>3
<1>6. ASSUME NEW i \in DOMAIN V, NEW j \in DOMAIN V, i < j, V[j].part # "tail"
      PROVE  V[i].id < V[j].id
  <2>1. /\ i + n \in DOMAIN W /\ j + n \in DOMAIN W /\ i + n < j + n
        /\ W[i + n] = V[i] /\ W[j + n] = V[j]
    <3>1. i \in 1..Len(V) /\ j \in 1..Len(V)
      BY <1>1
    <3>2. W[i + n] = V[i] /\ W[j + n] = V[j]
      BY <3>1
    <3>3. \A k \in 1..Len(V) : k + n \in DOMAIN W
      BY <1>1
    <3>4. i + n < j + n
      BY <1>6, <3>1
    <3> QED BY <3>1, <3>2, <3>3, <3>4
  <2>2. \A k, m \in DOMAIN W : k < m /\ W[m].part # "tail" => W[k].id < W[m].id
    BY DEF Ordered
  <2>3. W[j + n].part # "tail"
    BY <1>6, <2>1
  <2>4. W[i + n].id < W[j + n].id
    BY <2>1, <2>2, <2>3, Zenon
  <2> QED BY <2>1, <2>4
<1> QED BY <1>4, <1>5, <1>6 DEF Ordered

-----------------------------------------------------------------------------
(* The pieces: reading moves them along, and takes whole lines from the front *)

LEMMA Concatenated ==
    \A s, t \in Seq(Pieces) :
        /\ s \o t \in Seq(Pieces) /\ Len(s \o t) = Len(s) + Len(t)
        /\ \A i \in 1..Len(s) + Len(t) :
              (s \o t)[i] = IF i <= Len(s) THEN s[i] ELSE t[i - Len(s)]
<1> TAKE s, t \in Seq(Pieces)
<1> QED BY ConcatProperties

LEMMA Associated ==
    \A s, t, u \in Seq(Pieces) : (s \o t) \o u = s \o (t \o u)
<1> TAKE s, t, u \in Seq(Pieces)
<1> QED BY ConcatAssociative

LEMMA PieceTypes ==
    ASSUME BytesInv
    PROVE  /\ line \in Seq(Pieces) /\ rbuf \in Seq(Pieces) /\ wire \in Seq(Pieces)
           /\ Unread \in Seq(Pieces) /\ Len(script) \in Nat
           /\ Waiting \subseteq 1..Len(script)
<1>1. Len(script) \in Nat /\ MaxCmds \in Nat /\ Len(script) <= MaxCmds
  BY LenProperties, BoundAssumption DEF BytesInv
<1>2. GoodPieces \subseteq Pieces
  BY <1>1 DEF GoodPieces, Pieces, Vias, Ids
<1>3. line \in Seq(GoodPieces) /\ rbuf \in Seq(GoodPieces) /\ wire \in Seq(GoodPieces)
  BY DEF BytesInv
<1>4. Unread \in Seq(GoodPieces)
  BY <1>3, ConcatProperties DEF Unread
<1>5. Waiting \subseteq 1..Len(script)
  <2>1. \A i \in DOMAIN Unread : Unread[i] \in GoodPieces
    BY <1>4
  <2> QED BY <2>1 DEF GoodPieces, Waiting
<1> QED BY <1>1, <1>2, <1>3, <1>4, <1>5, SeqMonotonic

\* Where a piece of Unread waits.
LEMMA UnreadAt ==
    ASSUME line \in Seq(Pieces), rbuf \in Seq(Pieces), wire \in Seq(Pieces)
    PROVE  /\ Len(line) \in Nat /\ Len(rbuf) \in Nat /\ Len(wire) \in Nat
           /\ Unread \in Seq(Pieces) /\ Len(Unread) = Len(line) + Len(rbuf) + Len(wire)
           /\ DOMAIN Unread = 1..Len(Unread)
           /\ \A i \in 1..Len(line) : Unread[i] = line[i]
           /\ \A i \in 1..Len(rbuf) : Unread[Len(line) + i] = rbuf[i]
           /\ \A i \in 1..Len(wire) : Unread[Len(line) + Len(rbuf) + i] = wire[i]
<1> DEFINE front == line \o rbuf
<1>1. /\ Len(line) \in Nat /\ Len(rbuf) \in Nat /\ Len(wire) \in Nat
      /\ front \in Seq(Pieces) /\ Len(front) = Len(line) + Len(rbuf)
      /\ \A i \in 1..Len(line) + Len(rbuf) :
            front[i] = IF i <= Len(line) THEN line[i] ELSE rbuf[i - Len(line)]
  BY ConcatProperties, LenProperties
<1>2. Unread = front \o wire
  BY DEF Unread
<1> HIDE DEF front
<1>3. /\ Unread \in Seq(Pieces) /\ Len(Unread) = Len(front) + Len(wire)
      /\ \A i \in 1..Len(front) + Len(wire) :
            Unread[i] = IF i <= Len(front) THEN front[i] ELSE wire[i - Len(front)]
  <2>1. /\ front \o wire \in Seq(Pieces) /\ Len(front \o wire) = Len(front) + Len(wire)
        /\ \A i \in 1..Len(front) + Len(wire) :
              (front \o wire)[i] = IF i <= Len(front) THEN front[i] ELSE wire[i - Len(front)]
    BY <1>1, Concatenated, Zenon
  <2> QED BY <1>2, <2>1, Zenon
<1>4. DOMAIN Unread = 1..Len(Unread)
  BY <1>3
<1>5. \A i \in 1..Len(line) : Unread[i] = line[i]
  BY <1>1, <1>3
<1>6. ASSUME NEW i \in 1..Len(rbuf) PROVE Unread[Len(line) + i] = rbuf[i]
  <2>1. /\ Len(line) + i \in 1..Len(front) /\ ~(Len(line) + i <= Len(line))
        /\ (Len(line) + i) - Len(line) = i
    BY <1>1
  <2> QED BY <1>1, <1>3, <2>1
<1>7. ASSUME NEW i \in 1..Len(wire) PROVE Unread[Len(line) + Len(rbuf) + i] = wire[i]
  <2>1. /\ Len(front) + i \in 1..Len(front) + Len(wire) /\ ~(Len(front) + i <= Len(front))
        /\ (Len(front) + i) - Len(front) = i
    BY <1>1
  <2> QED BY <1>1, <1>3, <2>1
<1> QED BY <1>1, <1>3, <1>4, <1>5, <1>6, <1>7

LEMMA ArriveUnread ==
    ASSUME BytesInv, NEW piece \in Pieces, Conn!Arrive(piece), UNCHANGED line
    PROVE  Unread' = Append(Unread, piece)
<1>1. line \in Seq(Pieces) /\ rbuf \in Seq(Pieces) /\ wire \in Seq(Pieces)
  BY PieceTypes
<1>2. line \o rbuf \in Seq(Pieces) /\ Unread \in Seq(Pieces) /\ <<piece>> \in Seq(Pieces)
  BY <1>1, PieceTypes, ConcatProperties
<1>3. Unread' = (line \o rbuf) \o Append(wire, piece)
  BY DEF Conn!Arrive, Unread
<1>4. Append(wire, piece) = wire \o <<piece>> /\ Append(Unread, piece) = Unread \o <<piece>>
  BY <1>1, <1>2, AppendIsConcat
<1>5. (line \o rbuf) \o (wire \o <<piece>>) = ((line \o rbuf) \o wire) \o <<piece>>
  BY <1>1, <1>2, ConcatAssociative
<1> QED BY <1>3, <1>4, <1>5 DEF Unread

LEMMA FillUnread ==
    ASSUME BytesInv, Fill
    PROVE  Unread' = Unread
<1>1. PICK n \in 1..Len(wire) :
         rbuf' = SubSeq(wire, 1, n) /\ wire' = SubSeq(wire, n + 1, Len(wire))
  BY DEF Fill, Conn!Fill
<1>2. rbuf = <<>> /\ line' = line /\ line \in Seq(Pieces) /\ wire \in Seq(Pieces)
  BY PieceTypes DEF Fill, Conn!Fill
<1>3. rbuf' \in Seq(Pieces) /\ wire' \in Seq(Pieces) /\ rbuf' \o wire' = wire
  <2>1. Len(wire) \in Nat /\ \A i \in 1..Len(wire) : wire[i] \in Pieces
    BY <1>2
  <2>2. /\ rbuf' \in Seq(Pieces) /\ Len(rbuf') = n
        /\ \A i \in 1..n : rbuf'[i] = wire[i]
    BY <1>1, <2>1
  <2>3. /\ wire' \in Seq(Pieces) /\ Len(wire') = Len(wire) - n
        /\ \A i \in 1..Len(wire) - n : wire'[i] = wire[n + i]
    BY <1>1, <2>1
  <2> DEFINE both == rbuf' \o wire'
  <2>4. /\ both \in Seq(Pieces) /\ Len(both) = Len(wire)
        /\ \A i \in 1..Len(wire) : both[i] = IF i <= n THEN rbuf'[i] ELSE wire'[i - n]
    <3>1. Len(rbuf') + Len(wire') = Len(wire)
      BY <2>1, <2>2, <2>3
    <3>2. /\ both \in Seq(Pieces) /\ Len(both) = Len(rbuf') + Len(wire')
          /\ \A i \in 1..Len(rbuf') + Len(wire') :
                both[i] = IF i <= Len(rbuf') THEN rbuf'[i] ELSE wire'[i - Len(rbuf')]
      BY <2>2, <2>3, Concatenated, Zenon
    <3> HIDE DEF both
    <3> QED BY <2>2, <3>1, <3>2
  <2> HIDE DEF both
  <2>5. ASSUME NEW i \in 1..Len(wire) PROVE both[i] = wire[i]
    <3>1. CASE i <= n
      BY <2>1, <2>2, <2>4, <3>1
    <3>2. CASE ~(i <= n)
      <4>1. i - n \in 1..Len(wire) - n /\ n + (i - n) = i
        BY <2>1, <3>2
      <4> QED BY <2>3, <2>4, <3>2, <4>1
    <3> QED BY <3>1, <3>2
  <2>6. both = wire
    BY <1>2, <2>4, <2>5, SeqEqual
  <2> QED BY <2>2, <2>3, <2>6 DEF both
<1>4. Unread' = line \o (rbuf' \o wire')
  <2>1. Unread' = (line \o rbuf') \o wire'
    BY <1>2 DEF Unread
  <2>2. (line \o rbuf') \o wire' = line \o (rbuf' \o wire')
    BY <1>2, <1>3, Associated, Zenon
  <2> QED BY <2>1, <2>2
<1>5. Unread = line \o wire
  BY <1>2, ConcatEmptySeq DEF Unread
<1> QED BY <1>3, <1>4, <1>5

LEMMA TakeHeadUnread ==
    ASSUME BytesInv, TakeHead
    PROVE  Unread' = Unread
<1>1. /\ line \in Seq(Pieces) /\ rbuf \in Seq(Pieces) /\ wire \in Seq(Pieces) /\ rbuf # <<>>
      /\ line' = Append(line, Head(rbuf)) /\ rbuf' = Tail(rbuf) /\ wire' = wire
  BY PieceTypes DEF TakeHead, Conn!Take
<1>2. /\ Head(rbuf) \in Pieces /\ Tail(rbuf) \in Seq(Pieces)
      /\ rbuf = <<Head(rbuf)>> \o Tail(rbuf)
  BY <1>1, HeadTailProperties
<1>3. line' = line \o <<Head(rbuf)>> /\ <<Head(rbuf)>> \in Seq(Pieces)
  BY <1>1, <1>2, AppendIsConcat
<1>4. line' \o rbuf' = line \o (<<Head(rbuf)>> \o Tail(rbuf))
  BY <1>1, <1>2, <1>3, ConcatAssociative
<1>5. line' \o rbuf' = line \o rbuf
  BY <1>2, <1>4
<1> QED BY <1>1, <1>5 DEF Unread

\* What read_line returns is the first line that is unread, with both of its
\* parts when it was cut; the end of the stream may leave it without its tail.
LEMMA LineIsFirst ==
    ASSUME BytesInv, PiecesInv, LineReady
    PROVE  LET n == Len(ThisLine) IN
           /\ n \in 1..Len(Unread) /\ LineId = Unread[1].id
           /\ Unread[n].part # "head" \/ (n = Len(Unread) /\ closed)
           /\ n # 1 => n = 2 /\ Unread[1].part = "head"
           /\ rbuf = <<>> => n = Len(Unread)
           /\ rbuf # <<>> => n = Len(line) + 1
<1>1. /\ line \in Seq(Pieces) /\ rbuf \in Seq(Pieces) /\ wire \in Seq(Pieces)
      /\ Len(line) \in Nat /\ Len(rbuf) \in Nat /\ Len(wire) \in Nat
      /\ Len(Unread) = Len(line) + Len(rbuf) + Len(wire) /\ DOMAIN Unread = 1..Len(Unread)
      /\ \A i \in 1..Len(line) : Unread[i] = line[i] /\ line[i].part = "head"
      /\ \A i \in 1..Len(rbuf) : Unread[Len(line) + i] = rbuf[i]
  BY PieceTypes, UnreadAt DEF PiecesInv
<1>2. Len(line) <= 1
  <2> SUFFICES ASSUME Len(line) >= 2 PROVE FALSE
    BY <1>1
  <2>1. Unread[1].part = "head" /\ Unread[1 + 1].part = "head" /\ 1 \in DOMAIN Unread
        /\ 1 < Len(Unread)
    BY <1>1
  <2> QED BY <2>1 DEF PiecesInv, Ordered
<1>3. CASE rbuf = <<>>
  <2>1. wire = <<>> /\ closed /\ line # <<>> /\ ThisLine = line
    BY <1>3 DEF LineReady, AtEof, ThisLine
  <2>2. Len(line) = 1 /\ Len(wire) = 0 /\ Len(rbuf) = 0
    <3>1. Len(line) # 0
      BY <2>1, EmptySeq, PieceTypes
    <3>2. Len(line) \in Nat
      BY <1>1
    <3>3. Len(line) = 1
      BY <1>2, <3>1, <3>2
    <3>4. Len(<<>>) = 0
      OBVIOUS
    <3> QED BY <1>3, <2>1, <3>3, <3>4
  <2>3. Head(ThisLine) = line[1] /\ Len(ThisLine) = 1
    BY <1>1, <2>1, <2>2
  <2> QED BY <1>1, <1>3, <2>1, <2>2, <2>3 DEF LineId
<1>4. CASE rbuf # <<>>
  <2>1. /\ Len(rbuf) > 0 /\ Head(rbuf) = rbuf[1] /\ rbuf[1] \in Pieces /\ rbuf[1].part # "head"
        /\ ThisLine = Append(line, rbuf[1])
    BY <1>1, <1>4 DEF LineReady, ThisLine
  <2>2. Unread[Len(line) + 1] = rbuf[1]
    BY <1>1, <2>1
  <2>3. /\ Len(ThisLine) = Len(line) + 1
        /\ Head(ThisLine) = IF Len(line) = 0 THEN rbuf[1] ELSE line[1]
    BY <1>1, <2>1
  <2>4. LineId = Unread[1].id
    BY <1>1, <1>2, <2>2, <2>3 DEF LineId
  <2>5. Len(line) + 1 \in 1..Len(Unread)
    BY <1>1, <2>1
  <2>6. Len(ThisLine) # 1 => Len(ThisLine) = 2 /\ Unread[1].part = "head"
    BY <1>1, <1>2, <2>3
  <2> QED BY <1>4, <2>1, <2>2, <2>3, <2>4, <2>5, <2>6
<1> QED BY <1>3, <1>4

\* Taking the line leaves the pieces behind it, which belong to later lines.
LEMMA LineLeavesTheRest ==
    ASSUME BytesInv, BytesInv', PiecesInv, LineReady, TakeLine, UNCHANGED client
    PROVE  /\ PiecesInv'
           /\ LineId \in Waiting /\ Waiting' = Waiting \ {LineId}
           /\ \A w \in Waiting' : LineId < w
<1> DEFINE n == Len(ThisLine)
<1>1. /\ n \in 1..Len(Unread) /\ LineId = Unread[1].id
      /\ Unread[n].part # "head" \/ (n = Len(Unread) /\ closed)
      /\ n # 1 => n = 2 /\ Unread[1].part = "head"
      /\ rbuf = <<>> => n = Len(Unread)
      /\ rbuf # <<>> => n = Len(line) + 1
  BY LineIsFirst
<1> HIDE DEF n
<1>2. /\ line \in Seq(Pieces) /\ rbuf \in Seq(Pieces) /\ wire \in Seq(Pieces)
      /\ Len(line) \in Nat /\ Len(rbuf) \in Nat /\ Len(wire) \in Nat
      /\ Unread \in Seq(Pieces) /\ DOMAIN Unread = 1..Len(Unread)
      /\ Len(Unread) = Len(line) + Len(rbuf) + Len(wire)
      /\ \A i \in 1..Len(rbuf) : Unread[Len(line) + i] = rbuf[i]
      /\ \A i \in 1..Len(wire) : Unread[Len(line) + Len(rbuf) + i] = wire[i]
  BY PieceTypes, UnreadAt
<1>3. /\ line' = <<>> /\ wire' = wire
      /\ rbuf' = IF rbuf = <<>> THEN rbuf ELSE Tail(rbuf)
  BY DEF TakeLine, Conn!Take
<1>4. /\ rbuf' \in Seq(Pieces)
      /\ Unread' = rbuf' \o wire
  <2>1. rbuf' \in Seq(Pieces)
    BY <1>2, <1>3
  <2>2. <<>> \o rbuf' = rbuf'
    BY <2>1, ConcatEmptySeq
  <2> QED BY <1>3, <2>1, <2>2 DEF Unread
<1>5. /\ Unread' \in Seq(Pieces) /\ Len(Unread') = Len(Unread) - n
      /\ \A i \in 1..Len(Unread') : Unread'[i] = Unread[i + n]
  <2>1. /\ Unread' \in Seq(Pieces) /\ Len(Unread') = Len(rbuf') + Len(wire)
        /\ \A i \in 1..Len(rbuf') + Len(wire) :
              Unread'[i] = IF i <= Len(rbuf') THEN rbuf'[i] ELSE wire[i - Len(rbuf')]
    BY <1>2, <1>4, Concatenated
  <2>2. CASE rbuf = <<>>
    <3>1. Len(line) + Len(wire) = n /\ Len(rbuf') = 0 /\ Len(rbuf) = 0
      BY <1>1, <1>2, <1>3, <2>2
    <3>2. AtEof
      BY <2>2 DEF LineReady
    <3>3. Len(wire) = 0
      BY <1>2, <3>2 DEF AtEof
    <3> QED BY <1>1, <1>2, <2>1, <3>1, <3>3
  <2>3. CASE rbuf # <<>>
    <3>1. /\ Len(rbuf) \in Nat \ {0} /\ Len(rbuf') = Len(rbuf) - 1 /\ n = Len(line) + 1
          /\ \A i \in 1..Len(rbuf) - 1 : rbuf'[i] = rbuf[i + 1]
      BY <1>1, <1>2, <1>3, <2>3
    <3>2. Len(Unread') = Len(Unread) - n
      BY <1>2, <2>1, <3>1
    <3>3. ASSUME NEW i \in 1..Len(rbuf) - 1 PROVE Unread'[i] = Unread[i + n]
      <4>1. i + 1 \in 1..Len(rbuf) /\ Len(line) + (i + 1) = i + n
        BY <1>2, <3>1
      <4>2. Unread'[i] = rbuf'[i]
        <5>1. i \in 1..Len(rbuf') + Len(wire) /\ i <= Len(rbuf')
          BY <1>2, <3>1
        <5> QED BY <2>1, <5>1, Zenon
      <4> QED BY <1>2, <3>1, <4>1, <4>2
    <3>4. ASSUME NEW i \in Len(rbuf)..Len(Unread') PROVE Unread'[i] = Unread[i + n]
      <4> DEFINE k == i - (Len(rbuf) - 1)
      <4>1. k \in 1..Len(wire) /\ Len(line) + Len(rbuf) + k = i + n
        BY <1>2, <2>1, <3>1
      <4>2. Unread'[i] = wire[k]
        <5>1. Len(rbuf) \in Nat \ {0} /\ Len(rbuf') = Len(rbuf) - 1 /\ Len(wire) \in Nat
              /\ Len(Unread') = Len(rbuf') + Len(wire)
          BY <1>2, <2>1, <3>1
        <5>2. /\ i \in 1..Len(rbuf') + Len(wire) /\ ~(i <= Len(rbuf'))
              /\ i - Len(rbuf') = k
          BY <5>1
        <5> QED BY <2>1, <5>2, Zenon
      <4> HIDE DEF k
      <4> QED BY <1>2, <4>1, <4>2
    <3>5. \A i \in 1..Len(Unread') : i \in 1..Len(rbuf) - 1 \/ i \in Len(rbuf)..Len(Unread')
      BY <1>2, <2>1, <3>1
    <3> QED BY <2>1, <3>2, <3>3, <3>4, <3>5
  <2> QED BY <2>2, <2>3
<1>6. n < Len(Unread) => Unread[n].part # "head"
  BY <1>1, <1>2
<1> DEFINE V == Unread'
<1>7. /\ V \in Seq(Pieces) /\ Len(V) = Len(Unread) - n /\ DOMAIN V = 1..Len(V) /\ Len(V) \in Nat
      /\ \A i \in 1..Len(V) : V[i] = Unread[i + n]
      /\ Ordered(Unread)
  BY <1>5 DEF PiecesInv
<1> HIDE DEF V
<1>8. Ordered(V)
  BY <1>1, <1>2, <1>6, <1>7, OrderedSuffix
<1>9. EndsInHead(V) <=> EndsInHead(Unread) /\ n < Len(Unread)
  <2>1. V # <<>> <=> n < Len(Unread)
    BY <1>1, <1>2, <1>7
  <2>2. n < Len(Unread) => V[Len(V)] = Unread[Len(Unread)] /\ Unread # <<>>
    BY <1>1, <1>2, <1>7
  <2> QED BY <2>1, <2>2 DEF EndsInHead
<1>10. EndsInHead(V) => V[Len(V)] = Unread[Len(Unread)]
  BY <1>1, <1>2, <1>7 DEF EndsInHead
<1>11. cut /\ ~closed => EndsInHead(V)
  BY <1>1, <1>2, <1>9 DEF PiecesInv, EndsInHead
<1>12. PiecesInv'
  <2>1. UNCHANGED <<script, cut, closed>> /\ line' = <<>>
    BY <1>3 DEF client
  <2>2. EndsInHead(V) => cut /\ V[Len(V)].id = Len(script)
    BY <1>9, <1>10 DEF PiecesInv
  <2> QED BY <1>8, <1>11, <2>1, <2>2 DEF PiecesInv, V, Ordered, EndsInHead
<1>13. \A i \in 1..Len(Unread) : i <= n => Unread[i].id = LineId
  <2>1. CASE n = 1
    BY <1>1, <1>2, <2>1
  <2>2. CASE n # 1
    <3>1. n = 2 /\ Unread[1].part = "head" /\ 1 \in DOMAIN Unread /\ 1 < Len(Unread)
      BY <1>1, <1>2, <2>2
    <3>2. Unread[1 + 1].id = Unread[1].id
      BY <1>7, <3>1 DEF Ordered
    <3> QED BY <1>1, <1>2, <3>1, <3>2
  <2> QED BY <2>1, <2>2
<1>14. ASSUME NEW i \in 1..Len(Unread), n < i
       PROVE  LineId < Unread[i].id
  <2>0. i \in Nat /\ 1 \in DOMAIN Unread /\ i \in DOMAIN Unread /\ 1 < i
    BY <1>1, <1>2, <1>14
  <2>1. CASE Unread[i].part # "tail"
    BY <1>1, <1>7, <2>0, <2>1 DEF Ordered
  <2>2. CASE Unread[i].part = "tail"
    <3>1. Unread[i - 1].part = "head"
      BY <1>7, <2>0, <2>2 DEF Ordered
    <3>2. i - 1 \in DOMAIN Unread /\ n < i - 1 /\ i - 1 < Len(Unread)
      <4>1. i - 1 # n
        BY <1>1, <1>6, <1>14, <2>0, <3>1, <1>2
      <4> QED BY <1>1, <1>2, <1>14, <2>0, <4>1
    <3>3. Unread[(i - 1) + 1].id = Unread[i - 1].id
      BY <1>7, <3>1, <3>2 DEF Ordered
    <3>4. (i - 1) + 1 = i
      BY <2>0
    <3>5. Unread[1].id < Unread[i - 1].id
      <4>1. 1 < i - 1 /\ Unread[i - 1].part # "tail"
        BY <1>1, <1>2, <2>0, <3>1, <3>2
      <4> QED BY <1>7, <2>0, <3>2, <4>1 DEF Ordered
    <3> QED BY <1>1, <3>3, <3>4, <3>5
  <2> QED BY <2>1, <2>2
<1>15. Waiting' = {V[i].id : i \in 1..Len(V)}
  BY <1>7 DEF Waiting, V
<1>16. Waiting' = {Unread[i].id : i \in n + 1..Len(Unread)}
  <2>1. ASSUME NEW i \in 1..Len(V)
        PROVE  i + n \in n + 1..Len(Unread) /\ V[i] = Unread[i + n]
    <3>1. n \in Nat /\ Len(Unread) \in Nat /\ Len(V) = Len(Unread) - n
      BY <1>1, <1>2, <1>7
    <3>2. i + n \in n + 1..Len(Unread)
      BY <3>1
    <3> QED BY <1>7, <3>2
  <2>2. ASSUME NEW i \in n + 1..Len(Unread)
        PROVE  i - n \in 1..Len(V) /\ V[i - n] = Unread[i]
    <3>1. n \in Nat /\ Len(Unread) \in Nat /\ Len(V) = Len(Unread) - n
      BY <1>1, <1>2, <1>7
    <3>2. i - n \in 1..Len(V) /\ (i - n) + n = i
      BY <3>1
    <3> QED BY <1>7, <3>2
  <2>3. \A i \in 1..Len(V) : V[i].id \in {Unread[k].id : k \in n + 1..Len(Unread)}
    BY <2>1, Zenon
  <2>4. \A i \in n + 1..Len(Unread) : Unread[i].id \in {V[k].id : k \in 1..Len(V)}
    BY <2>2, Zenon
  <2> QED BY <1>15, <2>3, <2>4
<1>17. Waiting = {Unread[i].id : i \in 1..Len(Unread)}
  BY <1>2 DEF Waiting
<1>18. \A i \in n + 1..Len(Unread) : i \in 1..Len(Unread) /\ n < i
  BY <1>1, <1>2
<1>19. /\ LineId \in Waiting
       /\ \A w \in Waiting' : LineId < w
       /\ Waiting' \subseteq Waiting
  BY <1>1, <1>14, <1>16, <1>17, <1>18
<1>20. LineId \in Nat
  <2>1. Unread[1] \in Pieces
    BY <1>1, <1>2
  <2> QED BY <1>1, <2>1, PieceIds
<1>21. LineId \notin Waiting'
  BY <1>19, <1>20
<1>22. \A w \in Waiting : w = LineId \/ w \in Waiting'
  <2> SUFFICES ASSUME NEW i \in 1..Len(Unread)
               PROVE  Unread[i].id = LineId \/ Unread[i].id \in Waiting'
    BY <1>17
  <2>1. i <= n \/ i \in n + 1..Len(Unread)
    BY <1>1, <1>2
  <2> QED BY <1>13, <1>16, <2>1
<1> QED BY <1>12, <1>19, <1>21, <1>22

-----------------------------------------------------------------------------
(* The life of a line: sent, parsed, answered or dropped, executed *)

LEMMA SettledIds ==
    ASSUME NEW W, NEW H, NEW E, NEW n, NEW out, Settled(W, H, E, n, out)
    PROVE  /\ W \cup H \cup E \subseteq Ids /\ Ids \subseteq Nat
           /\ \A id \in W \cup H \cup E : out[id] = "none"
  BY BoundAssumption DEF Settled, Ids

LEMMA LineSent ==
    ASSUME NEW W, NEW H, NEW E, NEW n, NEW out, Settled(W, H, E, n, out), n < MaxCmds
    PROVE  Settled(W \cup {n + 1}, H, E, n + 1, out)
<1>1. /\ n \in Nat /\ MaxCmds \in Nat /\ n + 1 <= MaxCmds /\ n + 1 \in Ids
      /\ \A id \in W \cup H \cup E : id \in Nat /\ id < n + 1
  BY BoundAssumption DEF Settled, Ids
<1>2. W \cup {n + 1} \cup H \cup E \subseteq 1..(n + 1)
  BY <1>1 DEF Settled
<1>3. \A id \in Ids : id \in Nat /\ (id > n <=> id > n + 1 \/ id = n + 1)
  BY <1>1 DEF Ids
<1>4. \A id \in Ids :
         out[id] = "none" <=> id > n + 1 \/ id \in (W \cup {n + 1}) \cup H \cup E
  BY <1>3 DEF Settled
<1>5. ASSUME NEW j \in Ids, out[j] \in Executed PROVE j < n + 1
  <2>1. ~(j > n)
    BY <1>5 DEF Settled, Executed
  <2> QED BY <1>1, <1>3, <2>1
<1> QED BY <1>1, <1>2, <1>4, <1>5 DEF Settled

LEMMA LineParsed ==
    ASSUME NEW W, NEW E, NEW n, NEW out, Settled(W, {}, E, n, out),
           NEW x \in W, \A w \in W \ {x} : x < w
    PROVE  Settled(W \ {x}, {x}, E, n, out)
  BY DEF Settled

LEMMA LineDropped ==
    ASSUME NEW W, NEW H, NEW E, NEW n, NEW out \in [Ids -> Outcomes], Settled(W, H, E, n, out),
           NEW x \in W, \A w \in W \ {x} : x < w,
           NEW res \in {"ignored", "eaten"}
    PROVE  Settled(W \ {x}, H, E, n, [out EXCEPT ![x] = res])
<1> DEFINE after == [out EXCEPT ![x] = res]
<1>1. x \in Ids /\ x \in Nat /\ \A id \in H \cup E : id \in Nat /\ id < x
  <2>1. W \cup H \cup E \subseteq Ids /\ Ids \subseteq Nat
    BY SettledIds
  <2>2. \A id \in H \cup E : id < x
    BY DEF Settled
  <2> QED BY <2>1, <2>2
<1>2. \A id \in Ids : after[id] = IF id = x THEN res ELSE out[id]
  BY <1>1
<1>3. res # "none" /\ res \notin Executed
  BY DEF Executed
<1> HIDE DEF after
<1>4. x \notin H \cup E \cup (W \ {x}) /\ x <= n
  BY <1>1 DEF Settled
<1>5. \A id \in Ids : after[id] = "none" <=> id > n \/ id \in (W \ {x}) \cup H \cup E
  BY <1>1, <1>2, <1>3, <1>4 DEF Settled
<1>6. \A j \in Ids : after[j] \in Executed => j # x /\ out[j] \in Executed
  BY <1>2, <1>3
<1>7. Settled(W \ {x}, H, E, n, after)
  BY <1>5, <1>6 DEF Settled
<1> QED BY <1>7 DEF after

LEMMA LineAnswered ==
    ASSUME NEW W, NEW E, NEW n, NEW out \in [Ids -> Outcomes], NEW x, Settled(W, {x}, E, n, out),
           NEW res, res # "none", res \in Executed => E = {}
    PROVE  Settled(W, {}, E, n, [out EXCEPT ![x] = res])
<1> DEFINE after == [out EXCEPT ![x] = res]
<1>1. x \in Ids /\ x \in Nat /\ x <= n /\ \A id \in W : id \in Nat /\ x < id
  <2>1. W \cup {x} \cup E \subseteq Ids /\ Ids \subseteq Nat
    BY SettledIds
  <2>2. \A id \in W : x < id
    BY DEF Settled
  <2>3. x \in 1..n
    BY DEF Settled
  <2>4. x <= n
    BY <2>3
  <2>5. x \in Ids /\ x \in Nat
    BY <2>1
  <2> QED BY <2>1, <2>2, <2>4, <2>5
<1>2. \A id \in Ids : after[id] = IF id = x THEN res ELSE out[id]
  BY <1>1
<1> HIDE DEF after
<1>3. x \notin W /\ x \notin E
  BY <1>1 DEF Settled
<1>4. \A id \in Ids : after[id] = "none" <=> id > n \/ id \in W \cup E
  BY <1>1, <1>2, <1>3 DEF Settled
<1>5. ASSUME NEW j \in Ids, after[j] \in Executed, NEW id \in W \cup E PROVE j < id
  <2>1. CASE j = x
    BY <1>1, <1>2, <1>5, <2>1
  <2>2. CASE j # x
    BY <1>2, <1>5, <2>2 DEF Settled
  <2> QED BY <2>1, <2>2
<1>6. Settled(W, {}, E, n, after)
  BY <1>4, <1>5 DEF Settled
<1> QED BY <1>6 DEF after

LEMMA LineHandedOut ==
    ASSUME NEW W, NEW n, NEW out, NEW x, Settled(W, {x}, {}, n, out)
    PROVE  Settled(W, {}, {x}, n, out)
  BY DEF Settled

LEMMA LineExecuted ==
    ASSUME NEW W, NEW H, NEW n, NEW out \in [Ids -> Outcomes], NEW x, Settled(W, H, {x}, n, out),
           NEW res, res # "none"
    PROVE  Settled(W, H, {}, n, [out EXCEPT ![x] = res])
<1> DEFINE after == [out EXCEPT ![x] = res]
<1>1. x \in Ids /\ x \in Nat /\ x <= n /\ \A id \in W \cup H : id \in Nat /\ x < id
  <2>1. W \cup H \cup {x} \subseteq Ids /\ Ids \subseteq Nat
    BY SettledIds
  <2>2. \A id \in W \cup H : x < id
    BY DEF Settled
  <2>3. x \in 1..n
    BY DEF Settled
  <2>4. x <= n
    BY <2>3
  <2>5. x \in Ids /\ x \in Nat
    BY <2>1
  <2> QED BY <2>1, <2>2, <2>4, <2>5
<1>2. \A id \in Ids : after[id] = IF id = x THEN res ELSE out[id]
  BY <1>1
<1> HIDE DEF after
<1>3. x \notin W /\ x \notin H
  BY <1>1
<1>4. \A id \in Ids : after[id] = "none" <=> id > n \/ id \in W \cup H
  BY <1>1, <1>2, <1>3 DEF Settled
<1>5. ASSUME NEW j \in Ids, after[j] \in Executed, NEW id \in W \cup H PROVE j < id
  <2>1. CASE j = x
    BY <1>1, <1>5, <2>1
  <2>2. CASE j # x
    BY <1>2, <1>5, <2>2 DEF Settled
  <2> QED BY <2>1, <2>2
<1>6. Settled(W, H, {}, n, after)
  BY <1>4, <1>5 DEF Settled
<1> QED BY <1>6 DEF after

-----------------------------------------------------------------------------
(* The steps *)

LEMMA PiecesKept ==
    ASSUME PiecesInv, UNCHANGED client, Unread' = Unread,
           \A i \in DOMAIN line' : line'[i].part = "head"
    PROVE  PiecesInv' /\ Waiting' = Waiting
<1>1. UNCHANGED <<script, cut, closed>>
  BY DEF client
<1>2. Waiting' = Waiting
  BY DEF Waiting
<1>3. Ordered(Unread)' /\ (EndsInHead(Unread)' <=> EndsInHead(Unread))
  BY DEF PiecesInv, Ordered, EndsInHead
<1> QED BY <1>1, <1>2, <1>3 DEF PiecesInv

LEMMA ConnKept ==
    ASSUME PiecesInv, UNCHANGED client, UNCHANGED <<wire, rbuf, line>>
    PROVE  PiecesInv' /\ Waiting' = Waiting
<1>1. Unread' = Unread
  BY DEF Unread
<1>2. \A i \in DOMAIN line' : line'[i].part = "head"
  BY DEF PiecesInv
<1> QED BY <1>1, <1>2, PiecesKept

\* What is in the queue is what executes: nothing, or one operation.
LEMMA ExecutingIs ==
    ASSUME QueueInv
    PROVE  /\ commands = {} => Executing = {} /\ Queue!InProgress = {}
           /\ UNCHANGED queue => Executing' = Executing
           /\ \A op : Queue!Send(op) => Executing' = Executing
           /\ Queue!Recv => Executing = {Head(chan).id} /\ Executing' = {}
           /\ commands = {} /\ Queue!Insert(held) => Executing' = {held.id}
<1>1. Range(<<>>) = {} /\ \A x : Range(<<x>>) = {x}
  <2>1. DOMAIN <<>> = {} /\ \A x : DOMAIN <<x>> = {1} /\ <<x>>[1] = x
    OBVIOUS
  <2> QED BY <2>1 DEF Range
<1>2. Queue!InProgress = open \cup Range(chan) /\ Queue!InProgress' = open' \cup Range(chan')
  BY DEF Queue!InProgress, Queue!Range, Range
<1>3. commands = {} => open = {} /\ chan = <<>>
  BY DEF QueueInv
<1>4. commands = {} => Executing = {} /\ Queue!InProgress = {}
  BY <1>1, <1>2, <1>3 DEF Executing
<1>5. UNCHANGED queue => Executing' = Executing
  BY <1>2 DEF Executing, queue
<1>6. ASSUME NEW op, Queue!Send(op) PROVE Executing' = Executing
  <2>1. open = {op} /\ chan = <<>>
    BY <1>6 DEF QueueInv, Queue!Send
  <2>2. open' = {} /\ chan' = <<op>>
    BY <1>6, <2>1 DEF Queue!Send
  <2> QED BY <1>1, <1>2, <2>1, <2>2 DEF Executing
<1>7. Queue!Recv => Executing = {Head(chan).id} /\ Executing' = {}
  <2> SUFFICES ASSUME Queue!Recv PROVE Executing = {Head(chan).id} /\ Executing' = {}
    OBVIOUS
  <2>1. PICK op \in Operations : open = {} /\ chan = <<op>>
    BY DEF QueueInv, Queue!Recv
  <2>2. open' = {} /\ chan' = <<>> /\ Head(chan) = op
    BY <2>1 DEF Queue!Recv
  <2> QED BY <1>1, <1>2, <2>1, <2>2 DEF Executing
<1>8. commands = {} /\ Queue!Insert(held) => Executing' = {held.id}
  BY <1>1, <1>2, <1>3 DEF Executing, Queue!Insert
<1> QED BY <1>4, <1>5, <1>6, <1>7, <1>8

\* A step that only moves the program along.
LEMMA Quiet ==
    ASSUME PiecesInv', Waiting' = Waiting, AnswersInv, HeldInv', UNCHANGED <<script, outcome>>,
           InHand' = InHand, Executing' = Executing
    PROVE  KeepsOrder
<1>1. AnswersInv'
  BY DEF AnswersInv, Settled
<1> QED BY <1>1 DEF KeepsOrder, Touches, OrderInv

LEMMA Ends ==
    ASSUME task' # "running", UNCHANGED outcome
    PROVE  KeepsOrder
  BY DEF KeepsOrder, Touches, OrderInv

\* What is known of a running session before a step.
Before ==
    /\ task = "running" /\ IInv /\ IInv'
    /\ PiecesInv /\ HeldInv /\ AnswersInv

LEMMA ClientOrder ==
    ASSUME Before, ClientStep
    PROVE  KeepsOrder
<1> USE DEF Before
<1>0. /\ BytesInv /\ QueueInv /\ Unread \in Seq(Pieces) /\ Len(script) \in Nat
      /\ Waiting \subseteq 1..Len(script)
      /\ \A i \in DOMAIN Unread : Unread[i].id \in Waiting
      /\ DOMAIN Unread = 1..Len(Unread) /\ Len(Unread) \in Nat
  <2>1. BytesInv /\ QueueInv
    BY DEF IInv
  <2>2. Unread \in Seq(Pieces) /\ Len(script) \in Nat /\ Waiting \subseteq 1..Len(script)
    BY <2>1, PieceTypes
  <2>3. DOMAIN Unread = 1..Len(Unread) /\ Len(Unread) \in Nat
    BY <2>2, LenProperties
  <2> QED BY <2>1, <2>2, <2>3 DEF Waiting
<1>1. /\ UNCHANGED <<line, held, pc, outcome, task>>
      /\ InHand' = InHand /\ Executing' = Executing /\ HeldInv'
  <2>1. UNCHANGED <<line, queue, held, pc, outcome, task>>
    BY DEF ClientStep, ClientSends, ClientSendsHead, ClientSendsTail, ClientCloses, ServerUnchanged
  <2> QED BY <1>0, <2>1, ExecutingIs DEF InHand, HeldInv
<1>2. ASSUME NEW part \in {"line", "head"}, CanSend, BeginLine(part),
             cut' <=> part = "head", UNCHANGED closed
      PROVE  KeepsOrder
  <2> DEFINE piece == [id |-> Len(script) + 1, part |-> part, via |-> Conn!SentVia]
  <2>1. /\ Len(script') = Len(script) + 1 /\ Conn!Arrive(piece) /\ ~cut /\ Len(script) < MaxCmds
    BY <1>2 DEF BeginLine, Put, CanSend, IInv, BytesInv
  <2>2. piece \in Pieces
    <3>1. Len(script) + 1 \in Ids
      BY <1>0, <2>1, BoundAssumption DEF Ids
    <3> QED BY <3>1 DEF Pieces, Conn!SentVia
  <2>3. Unread' = Append(Unread, piece)
    BY <1>0, <1>1, <2>1, <2>2, ArriveUnread
  <2>4. piece.part = part /\ piece.id = Len(script) + 1
    OBVIOUS
  <2> HIDE DEF piece
  <2>5. ~EndsInHead(Unread) /\ \A i \in DOMAIN Unread : Unread[i].id < piece.id
    <3>1. ~EndsInHead(Unread)
      BY <2>1 DEF PiecesInv
    <3>2. \A w \in Waiting : w < Len(script) + 1
      BY <1>0
    <3> QED BY <1>0, <2>4, <3>1, <3>2
  <2>6. Ordered(Append(Unread, piece))
    BY <1>0, <2>2, <2>4, <2>5, OrderedAppend DEF PiecesInv
  <2> DEFINE V == Append(Unread, piece)
  <2>7. /\ V # <<>> /\ Len(V) = Len(Unread) + 1 /\ V[Len(V)] = piece /\ DOMAIN V = 1..Len(V)
        /\ \A i \in 1..Len(Unread) : V[i] = Unread[i]
    BY <1>0, <2>2
  <2> HIDE DEF V
  <2>8. PiecesInv'
    <3>1. Ordered(Unread)' /\ (EndsInHead(Unread)' <=> part = "head")
          /\ Unread[Len(Unread)]' = piece
      BY <2>3, <2>4, <2>6, <2>7 DEF V, Ordered, EndsInHead
    <3>2. \A i \in DOMAIN line' : line'[i].part = "head"
      BY <1>1 DEF PiecesInv
    <3> QED BY <1>2, <2>1, <2>4, <3>1, <3>2 DEF PiecesInv
  <2>9. Waiting' = Waiting \cup {Len(script) + 1}
    <3>1. Waiting' = {V[i].id : i \in DOMAIN V}
      BY <2>3 DEF V, Waiting
    <3>2. \A i \in DOMAIN V : i = Len(V) \/ (i \in DOMAIN Unread /\ V[i] = Unread[i])
      BY <1>0, <2>7
    <3>3. Len(V) \in DOMAIN V /\ \A i \in DOMAIN Unread : i \in DOMAIN V /\ V[i] = Unread[i]
      BY <1>0, <2>7
    <3> QED BY <2>4, <2>7, <3>1, <3>2, <3>3 DEF Waiting
  <2>10. AnswersInv'
    <3>1. Settled(Waiting \cup {Len(script) + 1}, InHand, Executing, Len(script) + 1, outcome)
      BY <2>1, LineSent DEF AnswersInv
    <3> QED BY <1>1, <2>1, <2>9, <3>1 DEF AnswersInv, Settled
  <2> QED BY <1>1, <2>8, <2>10 DEF KeepsOrder, OrderInv, Touches
<1>3. CASE ClientSends
  BY <1>2, <1>3 DEF ClientSends, CanSend
<1>4. CASE ClientSendsHead
  BY <1>2, <1>4 DEF ClientSendsHead
<1>5. CASE ClientSendsTail
  <2> DEFINE piece == [id |-> Len(script), part |-> "tail", via |-> Conn!SentVia]
  <2>1. /\ Conn!Arrive(piece) /\ cut /\ ~closed /\ ~cut' /\ UNCHANGED <<script, closed>>
    BY <1>5 DEF ClientSendsTail, Put
  <2>2. EndsInHead(Unread) /\ Unread[Len(Unread)].id = Len(script)
    BY <2>1 DEF PiecesInv
  <2>3. Len(Unread) \in DOMAIN Unread
    BY <1>0, <2>2 DEF EndsInHead
  <2>4. piece \in Pieces
    <3>1. Unread[Len(Unread)] \in Pieces
      BY <1>0, <2>3
    <3> QED BY <2>2, <3>1 DEF Pieces, Conn!SentVia
  <2>5. Unread' = Append(Unread, piece)
    BY <1>0, <1>1, <2>1, <2>4, ArriveUnread
  <2>6. piece.part = "tail" /\ piece.id = Len(script)
    OBVIOUS
  <2> HIDE DEF piece
  <2>7. Ordered(Append(Unread, piece))
    BY <1>0, <2>2, <2>4, <2>6, OrderedAppend DEF PiecesInv
  <2> DEFINE V == Append(Unread, piece)
  <2>8. /\ V # <<>> /\ Len(V) = Len(Unread) + 1 /\ V[Len(V)] = piece /\ DOMAIN V = 1..Len(V)
        /\ \A i \in 1..Len(Unread) : V[i] = Unread[i]
    BY <1>0, <2>4
  <2> HIDE DEF V
  <2>9. PiecesInv'
    <3>1. Ordered(Unread)' /\ ~EndsInHead(Unread)'
      BY <2>5, <2>6, <2>7, <2>8 DEF V, Ordered, EndsInHead
    <3>2. \A i \in DOMAIN line' : line'[i].part = "head"
      BY <1>1 DEF PiecesInv
    <3> QED BY <2>1, <3>1, <3>2 DEF PiecesInv
  <2>10. Waiting' = Waiting
    <3>1. Waiting' = {V[i].id : i \in DOMAIN V}
      BY <2>5 DEF V, Waiting
    <3>2. \A i \in DOMAIN V : i = Len(V) \/ (i \in DOMAIN Unread /\ V[i] = Unread[i])
      BY <1>0, <2>8
    <3>3. \A i \in DOMAIN Unread : i \in DOMAIN V /\ V[i] = Unread[i]
      BY <1>0, <2>8
    <3>4. piece.id \in Waiting
      BY <1>0, <2>2, <2>3, <2>6
    <3> QED BY <2>8, <3>1, <3>2, <3>3, <3>4 DEF Waiting
  <2> QED BY <1>1, <2>1, <2>9, <2>10, Quiet
<1>6. CASE ClientCloses
  <2>1. closed' = TRUE /\ UNCHANGED <<script, cut, wire, rbuf, line>>
    BY <1>1, <1>6 DEF ClientCloses
  <2>2. Unread' = Unread
    BY <2>1 DEF Unread
  <2>3. PiecesInv' /\ Waiting' = Waiting
    BY <2>1, <2>2 DEF PiecesInv, Ordered, EndsInHead, Waiting
  <2> QED BY <1>1, <2>1, <2>3, Quiet
<1> QED BY <1>3, <1>4, <1>5, <1>6 DEF ClientStep

\* The inductive invariants of ImapDriver_proofs, unfolded once.
LEMMA Known ==
    ASSUME Before
    PROVE  /\ BytesInv /\ BytesInv' /\ QueueInv /\ ControlInv
           /\ outcome \in [Ids -> Outcomes]
           /\ held \in Commands \cup {Nothing}
           /\ InHand # {} => InHand = {held.id} /\ held \in Commands
           /\ pc \in {"complain", "hold", "sasl"} => InHand = {held.id} /\ held \in Commands
           /\ pc \in {"start", "top", "read", "upgrade"} => InHand = {}
           /\ commands = {} => Executing = {}
<1>1. BytesInv /\ BytesInv' /\ QueueInv /\ ControlInv /\ HeldInv
  BY DEF Before, IInv
<1>2. outcome \in [Ids -> Outcomes] /\ held \in Commands \cup {Nothing}
  BY <1>1 DEF ControlInv
<1> QED BY <1>1, <1>2, ExecutingIs DEF HeldInv, InHand

\* A step that leaves the connection and the client alone and settles the line
\* in hand.
LEMMA Answered ==
    ASSUME Before, UNCHANGED <<client, wire, rbuf, line, queue>>,
           pc = "complain" \/ commands = {}, InHand = {held.id},
           NEW res, res # "none", commands # {} => res = "syntax",
           Record(held.id, res),
           task' = "running" => HeldInv' /\ InHand' = {}
    PROVE  KeepsOrder
<1>1. /\ outcome \in [Ids -> Outcomes] /\ QueueInv /\ (commands = {} => Executing = {})
      /\ outcome' = [outcome EXCEPT ![held.id] = res]
  BY Known DEF Record
<1>2. PiecesInv' /\ Waiting' = Waiting /\ Executing' = Executing
  BY <1>1, ConnKept, ExecutingIs DEF Before
<1>3. Settled(Waiting, {held.id}, Executing, Len(script), outcome)
  BY DEF Before, AnswersInv
<1>4. res \in Executed => Executing = {}
  BY <1>1 DEF Executed
<1>5. Settled(Waiting, {}, Executing, Len(script), outcome')
  BY <1>1, <1>3, <1>4, LineAnswered
<1>6. Touches
  BY <1>1 DEF Touches
<1>7. script' = script
  BY DEF client
<1> QED BY <1>2, <1>5, <1>6, <1>7 DEF KeepsOrder, OrderInv, AnswersInv

LEMMA PayloadOrder ==
    ASSUME Before, DrainReady \/ WaitPayload
    PROVE  KeepsOrder
<1>1. /\ Queue!Recv /\ UNCHANGED <<client, wire, rbuf, line, pc, held>>
      /\ \E res \in OpResults : ConsumeReady(Head(chan), res)
  BY DEF DrainReady, WaitPayload, TakePayload, conn
<1> DEFINE x == Head(chan).id
<1>2. Executing = {x} /\ Executing' = {}
  BY <1>1, Known, ExecutingIs
<1>3. outcome' = outcome \/ \E res \in {"ok", "no"} : outcome' = [outcome EXCEPT ![x] = res]
  BY <1>1 DEF ConsumeReady, Record
<1>4. task' = "running" => \E res \in {"ok", "no"} : outcome' = [outcome EXCEPT ![x] = res]
  BY <1>1 DEF ConsumeReady, Record, Before
<1> HIDE DEF x
<1>5. Touches
  BY <1>2, <1>3, Known DEF Touches
<1>6. PiecesInv' /\ Waiting' = Waiting /\ HeldInv' /\ InHand' = InHand /\ script' = script
  BY <1>1, ConnKept DEF Before, HeldInv, InHand, client
<1>7. ASSUME task' = "running" PROVE AnswersInv'
  <2>1. PICK res \in {"ok", "no"} : outcome' = [outcome EXCEPT ![x] = res]
    BY <1>4, <1>7
  <2>2. Settled(Waiting, InHand, {x}, Len(script), outcome) /\ outcome \in [Ids -> Outcomes]
    BY <1>2, Known DEF Before, AnswersInv
  <2>3. Settled(Waiting, InHand, {}, Len(script), outcome')
    BY <2>1, <2>2, LineExecuted
  <2> QED BY <1>2, <1>6, <2>3 DEF AnswersInv
<1> QED BY <1>5, <1>6, <1>7 DEF KeepsOrder, OrderInv

LEMMA ReadOrder ==
    ASSUME Before, NextOp \/ BeginRead \/ Fill \/ TakeHead \/ Eof
    PROVE  KeepsOrder
<1>1. BytesInv /\ QueueInv
  BY Known
<1>2. UNCHANGED <<client, queue, held, outcome>>
  BY DEF NextOp, BeginRead, Fill, Conn!Fill, TakeHead, Conn!Take, Eof
<1>3. HeldInv' /\ InHand' = InHand
  BY DEF NextOp, BeginRead, Fill, Conn!Fill, TakeHead, Conn!Take, Eof, Running, Before, HeldInv,
     InHand
<1>4. Executing' = Executing
  BY <1>1, <1>2, ExecutingIs
<1>5. Unread' = Unread
  <2>1. CASE Fill
    BY <1>1, <2>1, FillUnread
  <2>2. CASE TakeHead
    BY <1>1, <2>2, TakeHeadUnread
  <2>3. CASE NextOp \/ BeginRead \/ Eof
    BY <2>3 DEF NextOp, BeginRead, Eof, conn, Unread
  <2> QED BY <2>1, <2>2, <2>3
<1>6. \A i \in DOMAIN line' : line'[i].part = "head"
  <2>1. CASE TakeHead
    <3>1. /\ line' = Append(line, Head(rbuf)) /\ Head(rbuf).part = "head"
          /\ line \in Seq(Pieces)
      BY <1>1, <2>1, PieceTypes DEF TakeHead
    <3>2. /\ Len(line) \in Nat /\ DOMAIN line = 1..Len(line) /\ DOMAIN line' = 1..Len(line) + 1
          /\ \A i \in 1..Len(line) : line'[i] = line[i]
          /\ line'[Len(line) + 1] = Head(rbuf)
      BY <3>1
    <3>3. \A i \in DOMAIN line : line[i].part = "head"
      BY DEF Before, PiecesInv
    <3> QED BY <3>1, <3>2, <3>3
  <2>2. CASE ~TakeHead
    <3>1. line' = line
      BY <2>2 DEF NextOp, BeginRead, Fill, Conn!Fill, Eof, conn
    <3> QED BY <3>1 DEF Before, PiecesInv
  <2> QED BY <2>1, <2>2
<1>7. PiecesInv' /\ Waiting' = Waiting
  BY <1>2, <1>5, <1>6, PiecesKept DEF Before
<1> QED BY <1>2, <1>3, <1>4, <1>7, Quiet DEF Before, client

LEMMA ParseOrder ==
    ASSUME Before, ParseLine
    PROVE  KeepsOrder
<1>1. /\ LineReady /\ TakeLine /\ UNCHANGED <<client, queue>> /\ pc = "read"
      /\ InHand = {} /\ BytesInv /\ BytesInv' /\ PiecesInv /\ QueueInv
      /\ outcome \in [Ids -> Outcomes]
  BY Known DEF ParseLine, Running, Before
<1>2. /\ PiecesInv' /\ LineId \in Waiting /\ Waiting' = Waiting \ {LineId}
      /\ \A w \in Waiting' : LineId < w
  BY <1>1, LineLeavesTheRest
<1>3. Executing' = Executing /\ script' = script
  BY <1>1, ExecutingIs DEF client
<1>4. Settled(Waiting, {}, Executing, Len(script), outcome)
  BY <1>1 DEF Before, AnswersInv
<1>5. LineId \in Ids
  BY <1>2, <1>4, SettledIds
<1>6. CASE Record(LineId, "ignored") /\ UNCHANGED <<pc, held>>
  <2>1. outcome' = [outcome EXCEPT ![LineId] = "ignored"]
    BY <1>6 DEF Record
  <2>2. Settled(Waiting \ {LineId}, {}, Executing, Len(script), outcome')
    BY <1>1, <1>2, <1>4, <2>1, LineDropped
  <2>3. Touches
    BY <1>1, <1>2, <2>1 DEF Touches
  <2>4. HeldInv' /\ InHand' = {}
    BY <1>1, <1>6 DEF Before, HeldInv, InHand
  <2> QED BY <1>2, <1>3, <2>2, <2>3, <2>4 DEF KeepsOrder, OrderInv, AnswersInv
<1>7. ASSUME NEW kind, NEW tag, held' = [id |-> LineId, kind |-> kind, tag |-> tag],
             pc' \in {"complain", "hold"}, UNCHANGED outcome
      PROVE  KeepsOrder
  <2>1. held'.id = LineId /\ held' # Nothing
    <3>1. LineId # 0
      BY <1>5 DEF Ids
    <3> QED BY <1>7, <3>1 DEF Nothing
  <2>2. HeldInv' /\ InHand' = {LineId}
    BY <1>7, <2>1 DEF HeldInv, InHand
  <2>3. Settled(Waiting \ {LineId}, {LineId}, Executing, Len(script), outcome)
    BY <1>2, <1>4, LineParsed
  <2> QED BY <1>2, <1>3, <1>7, <2>2, <2>3 DEF KeepsOrder, OrderInv, AnswersInv, Touches
<1> QED BY <1>6, <1>7 DEF ParseLine

LEMMA ComplainOrder ==
    ASSUME Before, Complain
    PROVE  KeepsOrder
<1>1. /\ pc = "complain" /\ Record(held.id, "syntax") /\ held' = Nothing /\ pc' = "read"
      /\ UNCHANGED <<client, wire, rbuf, line, queue>>
  BY DEF Complain, Running, conn
<1>2. InHand = {held.id} /\ HeldInv' /\ InHand' = {}
  BY <1>1, Known DEF HeldInv, InHand
<1> QED BY <1>1, <1>2, Answered

LEMMA SaslOrder ==
    ASSUME Before, SaslResponse
    PROVE  KeepsOrder
<1>1. /\ LineReady /\ TakeLine /\ UNCHANGED <<client, queue>> /\ pc = "sasl"
      /\ held' = Nothing /\ pc' = "top"
      /\ \E res \in {"ok", "no", "bad"} :
            outcome' = [outcome EXCEPT ![LineId] = "eaten", ![held.id] = res]
  BY ResultsAssumption DEF SaslResponse, SaslResults, Running, BackToTop
<1>2. /\ InHand = {held.id} /\ BytesInv /\ BytesInv' /\ PiecesInv /\ QueueInv
      /\ outcome \in [Ids -> Outcomes] /\ commands = {} /\ Executing = {}
  <2>1. commands = {}
    BY <1>1, Known DEF ControlInv, Before
  <2> QED BY <1>1, <2>1, Known DEF Before
<1>3. /\ PiecesInv' /\ LineId \in Waiting /\ Waiting' = Waiting \ {LineId}
      /\ \A w \in Waiting' : LineId < w
  BY <1>1, <1>2, LineLeavesTheRest
<1>4. Executing' = {} /\ script' = script
  BY <1>1, <1>2, ExecutingIs DEF client
<1>5. PICK res \in {"ok", "no", "bad"} :
         outcome' = [outcome EXCEPT ![LineId] = "eaten", ![held.id] = res]
  BY <1>1
<1> DEFINE dropped == [outcome EXCEPT ![LineId] = "eaten"]
<1>6. Settled(Waiting, {held.id}, {}, Len(script), outcome)
  BY <1>2 DEF Before, AnswersInv
<1>7. Settled(Waiting \ {LineId}, {held.id}, {}, Len(script), dropped)
  BY <1>2, <1>3, <1>6, LineDropped
<1>8. dropped \in [Ids -> Outcomes] /\ outcome' = [dropped EXCEPT ![held.id] = res]
  BY <1>2, <1>5 DEF Outcomes
<1>9. Touches
  BY <1>2, <1>3, <1>5 DEF Touches
<1> HIDE DEF dropped
<1>10. Settled(Waiting \ {LineId}, {}, {}, Len(script), outcome')
  BY <1>7, <1>8, LineAnswered
<1>11. HeldInv' /\ InHand' = {}
  BY <1>1 DEF HeldInv, InHand
<1> QED BY <1>3, <1>4, <1>9, <1>10, <1>11 DEF KeepsOrder, OrderInv, AnswersInv

LEMMA HandlerOrder ==
    ASSUME Before, Handlers
    PROVE  KeepsOrder
<1>1. pc = "hold" /\ commands = {}
  BY DEF Handlers, HandleNoop, HandleEnable, HandleLogout, HandleTodo, HandleStarttls,
     HandleLogin, HandleAuthenticate, HandleSelect, HandleOperation, HandleFetch, Handling,
     Running, Queue!MustWaitBefore
<1>2. /\ InHand = {held.id} /\ held \in Commands /\ QueueInv /\ Executing = {}
      /\ outcome \in [Ids -> Outcomes]
  BY <1>1, Known
<1>3. ASSUME NEW res \in {"ok", "no", "bad", "ignored"}, Answer(res),
             UNCHANGED <<client, wire, rbuf, line, queue>>
      PROVE  KeepsOrder
  <2>1. Record(held.id, res) /\ held' = Nothing /\ pc' = "top"
    BY <1>3 DEF Answer, BackToTop
  <2>2. HeldInv' /\ InHand' = {}
    BY <2>1 DEF HeldInv, InHand
  <2> QED BY <1>1, <1>2, <1>3, <2>1, <2>2, Answered
<1>4. CASE HandleNoop \/ HandleEnable \/ HandleLogout
  BY <1>3, <1>4 DEF HandleNoop, HandleEnable, HandleLogout, conn
<1>5. CASE HandleTodo
  BY <1>5, Ends DEF HandleTodo
<1>6. CASE HandleStarttls
  <2>1. CASE Answer("bad") /\ UNCHANGED <<client, wire, rbuf, line, queue>>
    BY <1>3, <2>1
  <2>2. CASE Record(held.id, "bad") /\ StartUpgrade /\ UNCHANGED <<client, line, queue, held>>
    <3>1. UNCHANGED <<wire, rbuf>> /\ (task' = "running" => pc' = "upgrade")
      BY <2>2 DEF StartUpgrade, Conn!StartUpgrade
    <3>2. task' = "running" => HeldInv' /\ InHand' = {}
      BY <1>1, <2>2, <3>1 DEF Before, HeldInv, InHand
    <3> QED BY <1>1, <1>2, <2>2, <3>1, <3>2, Answered
  <2> QED BY <1>6, <2>1, <2>2 DEF HandleStarttls
<1>7. CASE HandleLogin
  <2>1. PICK res \in {"ok", "no", "bad"} : Answer(res)
    BY <1>7, ResultsAssumption DEF HandleLogin
  <2> QED BY <1>3, <1>7, <2>1 DEF HandleLogin, conn
<1>8. CASE HandleAuthenticate
  <2>1. CASE Answer("bad")
    BY <1>3, <1>8, <2>1 DEF HandleAuthenticate, conn
  <2>2. CASE pc' = "sasl" /\ UNCHANGED <<held, outcome>>
    <3>1. UNCHANGED <<client, wire, rbuf, line, queue>>
      BY <1>8 DEF HandleAuthenticate, conn
    <3>2. HeldInv' /\ InHand' = InHand
      BY <1>1, <2>2 DEF Before, HeldInv, InHand
    <3> QED BY <1>2, <2>2, <3>1, <3>2, ConnKept, ExecutingIs, Quiet DEF Before, client
  <2> QED BY <1>8, <2>1, <2>2 DEF HandleAuthenticate
<1>9. CASE HandleSelect
  <2>1. CASE Answer("bad") \/ Answer("ignored")
    BY <1>3, <1>9, <2>1 DEF HandleSelect, conn
  <2>2. CASE task' = "todo" /\ UNCHANGED outcome
    BY <2>2, Ends
  <2> QED BY <1>9, <2>1, <2>2 DEF HandleSelect
<1>10. CASE HandleOperation \/ HandleFetch
  <2>0. UNCHANGED <<client, wire, rbuf, line>>
    BY <1>10 DEF HandleOperation, HandleFetch, conn
  <2>1. CASE HandOut
    <3>1. /\ Queue!Insert(held) /\ pc' = "start" /\ held' = Nothing /\ UNCHANGED outcome
      BY <2>1 DEF HandOut
    <3>2. HeldInv' /\ InHand' = {} /\ Executing' = {held.id}
      BY <1>1, <1>2, <3>1, ExecutingIs DEF HeldInv, InHand
    <3>3. PiecesInv' /\ Waiting' = Waiting /\ script' = script
      BY <2>0, ConnKept DEF Before, client
    <3>4. Settled(Waiting, {held.id}, {}, Len(script), outcome)
      BY <1>2 DEF Before, AnswersInv
    <3>5. Settled(Waiting, {}, {held.id}, Len(script), outcome)
      BY <3>4, LineHandedOut
    <3> QED BY <3>1, <3>2, <3>3, <3>5 DEF KeepsOrder, OrderInv, AnswersInv, Touches
  <2>2. CASE Answer("bad") /\ UNCHANGED queue
    BY <1>3, <2>0, <2>2
  <2> QED BY <1>10, <2>1, <2>2 DEF HandleOperation, HandleFetch
<1> QED BY <1>4, <1>5, <1>6, <1>7, <1>8, <1>9, <1>10 DEF Handlers

LEMMA OtherOrder ==
    ASSUME Before, NetworkStep \/ Finish \/ \E op \in Operations : OpCompletes(op)
    PROVE  KeepsOrder
<1>1. CASE HandshakeOk
  <2>1. UNCHANGED <<client, wire, rbuf, line, queue, outcome>> /\ pc = "upgrade"
        /\ held' = Nothing /\ pc' = "top"
    BY <1>1 DEF HandshakeOk, Conn!UpgradeOk, BackToTop, Running
  <2>2. HeldInv' /\ InHand' = InHand
    BY <2>1 DEF HeldInv, InHand
  <2> QED BY <2>1, <2>2, Known, ConnKept, ExecutingIs, Quiet DEF Before, client
<1>2. CASE HandshakeFails \/ IoError \/ Finish
  BY <1>2, Ends DEF HandshakeFails, IoError, Finish
<1>3. ASSUME NEW op \in Operations, OpCompletes(op) PROVE KeepsOrder
  <2>1. UNCHANGED <<client, wire, rbuf, line, pc, held, outcome>> /\ Queue!Send(op)
    BY <1>3 DEF OpCompletes, conn
  <2>2. HeldInv' /\ InHand' = InHand
    BY <2>1 DEF HeldInv, InHand, Before
  <2>3. Executing' = Executing
    BY <2>1, Known, ExecutingIs
  <2> QED BY <2>1, <2>2, <2>3, ConnKept, Quiet DEF Before, client
<1> QED BY <1>1, <1>2, <1>3 DEF NetworkStep

\* A session that is over does nothing more.
LEMMA OverIsOver ==
    ASSUME task # "running", [Next]_vars
    PROVE  UNCHANGED vars
<1>1. ~ClientStep
  BY DEF ClientStep, ClientSends, ClientSendsHead, ClientSendsTail, ClientCloses, CanSend
<1>2. ~(NextOp \/ DrainReady \/ BeginRead \/ WaitPayload \/ Fill \/ TakeHead \/ Eof \/ ParseLine
        \/ Complain \/ SaslResponse \/ Finish)
  BY DEF NextOp, DrainReady, BeginRead, WaitPayload, Fill, TakeHead, Eof, ParseLine, Complain,
     SaslResponse, Finish, Running, Reading
<1>3. ~Handlers
  BY DEF Handlers, HandleNoop, HandleEnable, HandleLogout, HandleTodo, HandleStarttls,
     HandleLogin, HandleAuthenticate, HandleSelect, HandleOperation, HandleFetch, Handling, Running
<1>4. ~(NetworkStep \/ \E op \in Operations : OpCompletes(op))
  BY DEF NetworkStep, HandshakeOk, HandshakeFails, IoError, OpCompletes, Running
<1> QED BY <1>1, <1>2, <1>3, <1>4 DEF Next, SessionStep, Over

LEMMA StepOrder ==
    ASSUME IInv, IInv', OrderInv, [Next]_vars
    PROVE  KeepsOrder
<1>1. CASE UNCHANGED vars
  <2>1. UNCHANGED <<script, cut, closed, wire, rbuf, line, queue, held, pc, outcome, task>>
    BY <1>1 DEF vars, client, conn
  <2>2. Unread' = Unread
    BY <2>1 DEF Unread
  <2>3. Waiting' = Waiting /\ InHand' = InHand /\ Executing' = Executing
    BY <2>1, <2>2, ExecutingIs DEF Waiting, InHand, IInv
  <2> QED BY <2>1, <2>2, <2>3 DEF KeepsOrder, Touches, OrderInv, PiecesInv, Ordered, EndsInHead,
     HeldInv, AnswersInv, Settled
<1>2. CASE task # "running"
  BY <1>1, <1>2, OverIsOver
<1>3. CASE task = "running" /\ ~UNCHANGED vars
  <2>1. Before
    BY <1>3 DEF Before, OrderInv
  <2>2. ~Over
    BY <1>3 DEF Over
  <2> QED BY <1>3, <2>1, <2>2, ClientOrder, PayloadOrder, ReadOrder, ParseOrder, ComplainOrder,
     SaslOrder, HandlerOrder, OtherOrder DEF Next, SessionStep
<1> QED BY <1>1, <1>2, <1>3

LEMMA InitOrder == Init => OrderInv
<1> SUFFICES ASSUME Init PROVE PiecesInv /\ HeldInv /\ AnswersInv
  BY DEF OrderInv
<1>1. /\ line = <<>> /\ rbuf = <<>> /\ wire = <<>> /\ script = <<>> /\ ~cut
      /\ open = {} /\ chan = <<>> /\ commands = {} /\ held = Nothing /\ pc = "start"
      /\ outcome = [i \in Ids |-> "none"]
  BY DEF Init, Conn!Init, Queue!Init
<1>2. Unread = <<>>
  BY <1>1 DEF Unread
<1>3. Waiting = {} /\ InHand = {} /\ Executing = {}
  <2>1. QueueInv
    BY <1>1 DEF QueueInv
  <2> QED BY <1>1, <1>2, <2>1, ExecutingIs DEF Waiting, InHand
<1>4. PiecesInv /\ HeldInv
  BY <1>1, <1>2 DEF PiecesInv, Ordered, EndsInHead, HeldInv
<1>5. Len(script) = 0 /\ MaxCmds \in Nat /\ \A id \in Ids : id \in Nat /\ id > 0
  BY <1>1, BoundAssumption DEF Ids
<1>6. AnswersInv
  BY <1>1, <1>3, <1>5 DEF AnswersInv, Settled, Executed
<1> QED BY <1>4, <1>6

-----------------------------------------------------------------------------
(* The theorems about the answers *)

LEMMA OrderAccounts ==
    ASSUME IInv, OrderInv
    PROVE  Accounted
<1> SUFFICES ASSUME task = "running", NEW id \in DOMAIN script, outcome[id] = "none"
             PROVE  \/ held.id = id
                    \/ \E piece \in Range(wire) \cup Range(rbuf) \cup Range(line) : piece.id = id
                    \/ \E op \in Queue!InProgress : op.id = id
  BY DEF Accounted
<1>1. AnswersInv /\ BytesInv
  BY DEF OrderInv, IInv
<1>2. id \in Ids /\ ~(id > Len(script))
  <2>1. /\ script \in Seq([kind : Kinds, tag : Tags]) /\ Len(script) <= MaxCmds
        /\ MaxCmds \in Nat
    BY <1>1, BoundAssumption DEF BytesInv
  <2>2. DOMAIN script = 1..Len(script) /\ Len(script) \in Nat
    BY <2>1
  <2> QED BY <2>1, <2>2 DEF Ids
<1>3. id \in Waiting \cup InHand \cup Executing
  BY <1>1, <1>2 DEF AnswersInv, Settled
<1>4. CASE id \in InHand
  BY <1>4 DEF InHand
<1>5. CASE id \in Executing
  BY <1>5 DEF Executing
<1>6. CASE id \in Waiting
  <2>1. PICK i \in DOMAIN Unread : Unread[i].id = id
    BY <1>6 DEF Waiting
  <2>2. line \in Seq(Pieces) /\ rbuf \in Seq(Pieces) /\ wire \in Seq(Pieces)
    BY <1>1, PieceTypes
  <2>3. /\ Len(line) \in Nat /\ Len(rbuf) \in Nat /\ Len(wire) \in Nat
        /\ DOMAIN Unread = 1..(Len(line) + Len(rbuf) + Len(wire))
        /\ \A k \in 1..Len(line) : Unread[k] = line[k]
        /\ \A k \in 1..Len(rbuf) : Unread[Len(line) + k] = rbuf[k]
        /\ \A k \in 1..Len(wire) : Unread[Len(line) + Len(rbuf) + k] = wire[k]
    BY <2>2, UnreadAt
  <2>4. \A s \in Seq(Pieces) : \A k \in 1..Len(s) : s[k] \in Range(s)
    BY LenProperties DEF Range
  <2>5. CASE i \in 1..Len(line)
    BY <2>1, <2>2, <2>3, <2>4, <2>5
  <2>6. CASE i - Len(line) \in 1..Len(rbuf)
    <3>1. Len(line) + (i - Len(line)) = i
      BY <2>3
    <3> QED BY <2>1, <2>2, <2>3, <2>4, <2>6, <3>1
  <2>7. CASE i - Len(line) - Len(rbuf) \in 1..Len(wire)
    <3>1. Len(line) + Len(rbuf) + (i - Len(line) - Len(rbuf)) = i
      BY <2>3
    <3> QED BY <2>1, <2>2, <2>3, <2>4, <2>7, <3>1
  <2> QED BY <2>3, <2>5, <2>6, <2>7
<1> QED BY <1>3, <1>4, <1>5, <1>6

AnswerOnce == \A id \in Ids : outcome[id] # "none" => outcome'[id] = outcome[id]

AnswerInOrder ==
    \A i, j \in Ids :
        i < j /\ outcome[j] \in Executed /\ outcome[i] = "none" => outcome'[i] \notin Executed

LEMMA OrderAnswers ==
    ASSUME IInv, OrderInv, [Next]_vars, Touches
    PROVE  AnswerOnce /\ AnswerInOrder
<1>1. CASE task # "running"
  <2>1. outcome' = outcome
    BY <1>1, OverIsOver DEF vars
  <2> QED BY <2>1 DEF AnswerOnce, AnswerInOrder, Executed
<1>2. CASE task = "running"
  <2>1. Settled(Waiting, InHand, Executing, Len(script), outcome)
    BY <1>2 DEF OrderInv, AnswersInv
  <2>2. AnswerOnce
    BY <2>1, SettledIds DEF Touches, AnswerOnce
  <2>3. ASSUME NEW i \in Ids, NEW j \in Ids, i < j, outcome[j] \in Executed,
               outcome[i] = "none", outcome'[i] \in Executed
        PROVE  FALSE
    <3>1. outcome'[i] # outcome[i]
      BY <2>3 DEF Executed
    <3>2. i \in Waiting \cup InHand \cup Executing
      BY <3>1 DEF Touches
    <3>3. j < i
      BY <2>1, <2>3, <3>2 DEF Settled
    <3>4. i \in Nat /\ j \in Nat
      BY BoundAssumption DEF Ids
    <3> QED BY <2>3, <3>3, <3>4
  <2> QED BY <2>2, <2>3 DEF AnswerInOrder
<1> QED BY <1>1, <1>2

Ordering == IInv /\ OrderInv

LEMMA OrderingStep ==
    ASSUME Ordering, [Next]_vars
    PROVE  Ordering' /\ Touches
<1>1. IInv'
  BY StepIInv DEF Ordering, AnyNext
<1>2. KeepsOrder
  BY <1>1, StepOrder DEF Ordering
<1> QED BY <1>1, <1>2 DEF Ordering, KeepsOrder

\* Used as a library, the session loses no line: until it ends, whatever the
\* client has begun to send and was not answered is in the socket, in one of
\* the buffers, in next_op's hand or in the queue.
THEOREM LibraryAccounted == Spec => []Accounted
<1>1. Init => Ordering
  BY InitIInv, InitOrder DEF Ordering
<1>2. Ordering /\ [Next]_vars => Ordering'
  BY OrderingStep
<1>3. Ordering => Accounted
  BY OrderAccounts DEF Ordering
<1> QED BY <1>1, <1>2, <1>3, PTL DEF Spec

\* Used as a library, the session answers no line twice, however lines are
\* cut, pipelined or taken as responses to challenges.
THEOREM LibraryAnswersOnce == Spec => AnsweredOnce
<1>1. Init => Ordering
  BY InitIInv, InitOrder DEF Ordering
<1>2. Ordering /\ [Next]_vars => Ordering'
  BY OrderingStep
<1>3. Ordering /\ [Next]_vars => AnswerOnce
  BY OrderingStep, OrderAnswers DEF Ordering
<1> QED BY <1>1, <1>2, <1>3, PTL DEF Spec, AnsweredOnce, AnswerOnce

\* Used as a library, the session answers the commands it executes, or has
\* executed by its user, in the order in which the client sent them.
THEOREM LibraryAnswersInOrder == Spec => AnsweredInOrder
<1>1. Init => Ordering
  BY InitIInv, InitOrder DEF Ordering
<1>2. Ordering /\ [Next]_vars => Ordering'
  BY OrderingStep
<1>3. Ordering /\ [Next]_vars => AnswerInOrder
  BY OrderingStep, OrderAnswers DEF Ordering
<1> QED BY <1>1, <1>2, <1>3, PTL DEF Spec, AnsweredInOrder, AnswerInOrder
=============================================================================
