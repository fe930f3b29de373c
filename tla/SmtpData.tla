------------------------------ MODULE SmtpData ------------------------------
(***************************************************************************)
(* The automaton that finds the end of a DATA message and removes the      *)
(* escape from a lone dot: crates/smtp/src/message/data.rs, fed one byte   *)
(* at a time (poll_read returns as soon as a byte has made it emit), and   *)
(* the room its caller leaves in the buffer it emits into.                 *)
(*                                                                         *)
(* A byte is CR, LF, a dot or anything else.                               *)
(***************************************************************************)
EXTENDS Naturals, Sequences, SequencesExt

CONSTANTS
    MaxBytes,   \* bound: how many bytes are read
    Rooms       \* ReadBuf::remaining: how much room a caller may leave

ASSUME BoundAssumption == MaxBytes \in Nat

(***************************************************************************)
(* A caller must not leave exactly five bytes: poll_read goes on with them *)
(* and may emit six.  The one caller, read_to_string, leaves 32 or more.   *)
(***************************************************************************)
ASSUME RoomAssumption == Rooms \subseteq Nat \ {5}

Bytes == {"CR", "LF", "dot", "x"}

VARIABLES
    state,      \* State
    sent,       \* the bytes fed to advance
    out,        \* the bytes emitted
    ended,      \* the stream has ended before the message
    panicked    \* put_slice did not find the room it needs

vars == <<state, sent, out, ended, panicked>>

\* State::as_bytes: what has been read and not emitted in each state.
AsBytes == [Start        |-> <<>>,
            Cr           |-> <<"CR">>,
            CrLf         |-> <<"CR", "LF">>,
            CrLfDot      |-> <<"CR", "LF", "dot">>,
            CrLfDotCr    |-> <<"CR", "LF", "dot", "CR">>,
            CrLfDotDot   |-> <<"CR", "LF", "dot", "dot">>,
            CrLfDotDotCr |-> <<"CR", "LF", "dot", "dot", "CR">>]

States == DOMAIN AsBytes \cup {"Eof"}

TypeOK ==
    /\ state \in States
    /\ sent \in Seq(Bytes) /\ out \in Seq(Bytes)
    /\ Len(out) <= Len(sent)
    /\ ended \in BOOLEAN /\ panicked \in BOOLEAN

Init ==
    /\ state = "Start" /\ sent = <<>> /\ out = <<>>
    /\ ended = FALSE /\ panicked = FALSE

\* The transitions that emit nothing.
Silent == {<<"Start", "CR", "Cr">>,
           <<"Cr", "LF", "CrLf">>,
           <<"CrLf", "dot", "CrLfDot">>,
           <<"CrLfDot", "CR", "CrLfDotCr">>,
           <<"CrLfDot", "dot", "CrLfDotDot">>,
           <<"CrLfDotDot", "CR", "CrLfDotDotCr">>}

IsSilent(b) == \E s \in States : <<state, b, s>> \in Silent

IsDot(b) == state = "CrLfDotDotCr" /\ b = "LF"
IsEnd(b) == state = "CrLfDotCr" /\ b = "LF"

\* What advance does with a byte: emitted, and the state it leaves.
Keep(b) == \E s \in States : <<state, b, s>> \in Silent /\ state' = s /\ out' = out

\* Mutant of Unescape: the match begins anew and the line end it had read is
\* forgotten.
UnescapeForgets(b) ==
    /\ IsDot(b)
    /\ out' = out \o <<"CR", "LF", "dot">>
    /\ state' = "Start"

Unescape(b) ==
    /\ IsDot(b)
    /\ out' = out \o <<"CR", "LF", "dot">>
    /\ state' = "CrLf"

End(b) ==
    /\ IsEnd(b)
    /\ out' = out \o <<"CR", "LF">>
    /\ state' = "Eof"

\* Mutant of Flush: the byte is not looked at again.
FlushBlindly(b) ==
    /\ ~IsSilent(b) /\ ~IsDot(b) /\ ~IsEnd(b)
    /\ state' = "Start" /\ out' = Append(out \o AsBytes[state], b)

\* The last arm: what was held back is emitted, and the byte is looked at
\* again from Start.
Flush(b) ==
    /\ ~IsSilent(b) /\ ~IsDot(b) /\ ~IsEnd(b)
    /\ IF b = "CR"
       THEN state' = "Cr" /\ out' = out \o AsBytes[state]
       ELSE state' = "Start" /\ out' = Append(out \o AsBytes[state], b)

\* poll_read reads no byte after the end.
Reading == state # "Eof" /\ ~ended /\ ~panicked

\* Mutant of HasRoom: the longest emission is thought to be four bytes.
HasRoomForFour(room) == room >= 4

HasRoom(room) == room >= 5

\* One turn of poll_read's loop.
Advance(b) ==
    /\ Reading /\ Len(sent) < MaxBytes
    /\ sent' = Append(sent, b)
    /\ Keep(b) \/ Unescape(b) \/ End(b) \/ Flush(b)
    /\ \E room \in Rooms :
          HasRoom(room) /\ panicked' = (Len(out') - Len(out) > room)
    /\ UNCHANGED ended

\* Without room poll_read wakes its own task and waits to be polled again.
Crowded == Reading /\ (\E room \in Rooms : ~HasRoom(room)) /\ UNCHANGED vars

\* UnexpectedEof: poll_read returns without a byte, which is how a reader
\* says that the message is over; what was held back is not emitted.
StreamEnds ==
    /\ Reading
    /\ ended' = TRUE
    /\ UNCHANGED <<state, sent, out, panicked>>

-----------------------------------------------------------------------------
(* Properties *)

EndMark == <<"CR", "LF", "dot", "CR", "LF">>

EndsAt(n, pattern) ==
    /\ n >= Len(pattern)
    /\ \A i \in 1..Len(pattern) : sent[n - Len(pattern) + i] = pattern[i]

\* The message ends behind the first CR LF . CR LF of its text, and only there:
\* neither a longer run of line ends nor a partial match before it hides it.
\* A lone dot that is the first line of the text has no CR LF before it in the
\* text and does not end it.
EofAtFirstMark ==
    \A n \in 0..Len(sent) : EndsAt(n, EndMark) <=> (state = "Eof" /\ n = Len(sent))

\* Besides that, nothing is lost, added or changed but the escapes of lone
\* dots: what was emitted and what is held back is what was sent without the
\* second dot of every line but the first that is two dots.
IsEscape(n) ==
    n \in 4..Len(sent) - 2 /\ SubSeq(sent, n - 3, n + 2) =
        <<"CR", "LF", "dot", "dot", "CR", "LF">>

Unescaped ==
    FlattenSeq([n \in DOMAIN sent |-> IF IsEscape(n) THEN <<>> ELSE <<sent[n]>>])

HeldBack == IF state = "Eof" THEN <<"dot", "CR", "LF">> ELSE AsBytes[state]

Transparent == out \o HeldBack = Unescaped

\* Whatever room but exactly five bytes (RoomAssumption) a caller leaves when
\* it polls, put_slice finds what it needs.
RoomSuffices == ~panicked
=============================================================================
