----------------------------- MODULE SmtpReader -----------------------------
(***************************************************************************)
(* The bytes of one SMTP connection and who reads them: read_cmd reads     *)
(* lines (LineReader) until one of them is DATA, then the text of a        *)
(* message is read (SmtpData), then lines again.                           *)
(*                                                                         *)
(* A line that is the single byte x stands for DATA in an open             *)
(* transaction, every other line for a command that leads to the next one. *)
(***************************************************************************)
EXTENDS SmtpData

CONSTANT Limit      \* LINE_LIMIT

ASSUME LimitAssumption == Limit \in Nat \ {0}

VARIABLES
    input,      \* what the server has read, all of it
    closed,     \* the reader has met the end of the stream
    mode,       \* who reads: "line", "text", or nobody: "over"
    buf, returned,      \* the line reader's
    frames      \* what the bytes were taken for: lines and texts, in order

reader == <<buf, returned>>
readerVars == <<vars, input, closed, mode, reader, frames>>

Lines == INSTANCE LineReader

Frames == [kind : {"line", "text"}, bytes : Seq(Bytes)]

ReaderTypeOK ==
    /\ TypeOK
    /\ input \in Seq(Bytes) /\ closed \in BOOLEAN /\ mode \in {"line", "text", "over"}
    /\ buf \in Seq(Bytes) /\ Len(buf) < Limit
    /\ returned \in Seq(Seq(Bytes))
    /\ frames \in Seq(Frames)

\* A connection, or what is left of one behind a DATA.
ReaderInit ==
    /\ Init
    /\ input = <<>> /\ closed = FALSE /\ mode \in {"line", "text"}
    /\ Lines!Init
    /\ frames = <<>>

\* Data::new
NewText ==
    /\ state' = "Start" /\ sent' = <<>> /\ out' = <<>>
    /\ ended' = FALSE /\ panicked' = FALSE

IsDataCommand(line) == Lines!Trimmed(line) = <<"x">>

\* What the line reader has returned is read as a command.
TakeCommand(next) ==
    IF returned' = returned
    THEN mode' = next /\ UNCHANGED <<frames, vars>>
    ELSE LET line == returned'[Len(returned')] IN
            /\ frames' = Append(frames, [kind |-> "line", bytes |-> line])
            /\ IF IsDataCommand(line) THEN mode' = "text" /\ NewText
               ELSE mode' = next /\ UNCHANGED vars

CommandByte(b) ==
    /\ mode = "line" /\ ~closed /\ Len(input) < MaxBytes
    /\ input' = Append(input, b)
    /\ Lines!ReadByte(b)
    /\ TakeCommand("line")
    /\ UNCHANGED closed

\* read_line returns the rest of the stream, and Eof when there is none.
CommandEof ==
    /\ mode = "line"
    /\ closed' = TRUE
    /\ IF buf = <<>> THEN UNCHANGED reader ELSE Lines!ReadEof
    /\ TakeCommand(IF buf = <<>> THEN "over" ELSE "line")
    /\ UNCHANGED input

TextByte(b) ==
    /\ mode = "text" /\ ~closed /\ Len(input) < MaxBytes
    /\ input' = Append(input, b)
    /\ Advance(b)
    /\ UNCHANGED <<closed, mode, reader, frames>>

TextEof ==
    /\ mode = "text"
    /\ StreamEnds
    /\ closed' = TRUE
    /\ UNCHANGED <<input, mode, reader, frames>>

\* The message is accepted and the session goes back to its commands.
TextTaken ==
    /\ mode = "text" /\ (state = "Eof" \/ ended)
    /\ frames' = Append(frames, [kind |-> "text", bytes |-> sent])
    /\ mode' = "line"
    /\ UNCHANGED <<vars, input, closed, reader>>

TextCrowded == mode = "text" /\ ~closed /\ Crowded /\ UNCHANGED readerVars

ReaderStops == (mode = "over" \/ panicked) /\ UNCHANGED readerVars

ReaderNext ==
    \/ \E b \in Bytes : CommandByte(b) \/ TextByte(b)
    \/ CommandEof \/ TextEof \/ TextCrowded \/ TextTaken \/ ReaderStops

ReaderSpec == ReaderInit /\ [][ReaderNext]_readerVars

-----------------------------------------------------------------------------
(* Properties *)

Current == IF mode = "text" THEN sent ELSE buf

Taken == FlattenSeq([n \in DOMAIN frames |-> frames[n].bytes])

\* Every byte is read by one reader, once, in the order in which it came: at
\* the changes between lines and text none is lost and none is read again.
ReadOnce == Taken \o Current = input

\* The client's line from the byte a to its end at b.
IsLine(a, b) ==
    /\ input[b] = "LF" /\ \A i \in a .. b - 1 : input[i] # "LF"
    /\ a = 1 \/ input[a - 1] = "LF"

\* How many bytes come before the kth frame.
Before(k) == Len(FlattenSeq([n \in 1 .. k - 1 |-> frames[n].bytes]))

\* The kth frame is the line, or it is a text that holds it.
InFrame(k, a, b) ==
    IF frames[k].kind = "line"
    THEN Before(k) = a - 1 /\ frames[k].bytes = SubSeq(input, a, b)
    ELSE Before(k) < a /\ b <= Before(k) + Len(frames[k].bytes)

\* A line of the client that LINE_LIMIT allows is returned as it was sent, or
\* is part of a text, whatever came before it: however longer lines are cut,
\* and wherever in one of them the limit fell, the reader is back in step with
\* the client behind the next line end.
LinesWhole ==
    \A b \in DOMAIN input : \A a \in 1..b :
        IsLine(a, b) /\ b - a < Limit =>
            \/ \E k \in DOMAIN frames : InFrame(k, a, b)
            \/ mode = "text" /\ Len(input) - Len(sent) < a
=============================================================================
