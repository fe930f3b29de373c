-------------------------- MODULE SmtpReader_proofs --------------------------
(***************************************************************************)
(* What holds of the readers of an SMTP connection for inputs of any       *)
(* length: where a message ends, that its reader has the room it needs,    *)
(* and that lines are read whole behind cut lines and texts.  The          *)
(* invariant relates the automaton's state to the last bytes it was fed,   *)
(* and the line reader's buffer to the line the client is in.              *)
(***************************************************************************)
EXTENDS SmtpReader, SequenceLemmas

\* How many bytes each state holds back.
Held == [Start |-> 0, Cr |-> 1, CrLf |-> 2, CrLfDot |-> 3, CrLfDotCr |-> 4,
         CrLfDotDot |-> 4, CrLfDotDotCr |-> 5, Eof |-> 0]

\* The k-th byte from the end.
Back(k) == sent[Len(sent) - k]

EndsCr      == Len(sent) >= 1 /\ Back(0) = "CR"
EndsCrLf    == Len(sent) >= 2 /\ Back(1) = "CR" /\ Back(0) = "LF"
EndsCrLfDot == Len(sent) >= 3 /\ Back(2) = "CR" /\ Back(1) = "LF" /\ Back(0) = "dot"
EndsCrLfDotCr ==
    Len(sent) >= 4 /\ Back(3) = "CR" /\ Back(2) = "LF" /\ Back(1) = "dot" /\ Back(0) = "CR"
EndsCrLfDotDot ==
    Len(sent) >= 4 /\ Back(3) = "CR" /\ Back(2) = "LF" /\ Back(1) = "dot" /\ Back(0) = "dot"
EndsCrLfDotDotCr ==
    /\ Len(sent) >= 5 /\ Back(4) = "CR" /\ Back(3) = "LF" /\ Back(2) = "dot"
    /\ Back(1) = "dot" /\ Back(0) = "CR"

Mark(s, n) ==
    /\ n >= 5 /\ s[n - 4] = "CR" /\ s[n - 3] = "LF" /\ s[n - 2] = "dot"
    /\ s[n - 1] = "CR" /\ s[n] = "LF"

\* What the automaton has matched is what the text ends with.
Matched ==
    /\ EndsCr <=> state \in {"Cr", "CrLfDotCr", "CrLfDotDotCr"}
    /\ EndsCrLf <=> state = "CrLf"
    /\ EndsCrLfDot <=> state = "CrLfDot"
    /\ EndsCrLfDotCr <=> state = "CrLfDotCr"
    /\ EndsCrLfDotDot <=> state = "CrLfDotDot"
    /\ EndsCrLfDotDotCr <=> state = "CrLfDotDotCr"

TextInv ==
    /\ state \in States
    /\ sent \in Seq(Bytes) /\ out \in Seq(Bytes)
    /\ Len(out) + Held[state] <= Len(sent)
    /\ ended \in BOOLEAN /\ panicked = FALSE
    /\ state # "Eof" => Matched
    /\ state = "Eof" => sent # <<>>
    /\ \A n \in 1..Len(sent) : Mark(sent, n) <=> (state = "Eof" /\ n = Len(sent))

LineInv ==
    /\ input \in Seq(Bytes) /\ closed \in BOOLEAN /\ mode \in {"line", "text", "over"}
    /\ buf \in Seq(Bytes) /\ Len(buf) < Limit
    /\ returned \in Seq(Seq(Bytes))
    /\ frames \in Seq(Frames)
    /\ closed \/ mode = "text" => buf = <<>>

\* a is where the line begins that the client has not ended.
IsOpen(a) ==
    /\ a = 1 \/ input[a - 1] = "LF"
    /\ \A i \in a .. Len(input) : input[i] # "LF"

\* The reader is in step with the client: the line that is not ended is what
\* the reader holds, or it is a part of a text, or it is too long already.
InStep ==
    /\ ended => closed
    /\ \A a \in 1 .. Len(input) + 1 : IsOpen(a) =>
          \/ closed
          \/ Len(input) - a + 1 >= Limit
          \/ mode = "line" /\ a = Len(input) - Len(buf) + 1
          \/ mode = "text" /\ a > Len(input) - Len(sent)

-----------------------------------------------------------------------------
(* One byte of a text *)

LEMMA HeldLength ==
    ASSUME NEW s \in States \ {"Eof"}
    PROVE  AsBytes[s] \in Seq(Bytes) /\ Len(AsBytes[s]) = Held[s]
<1>1. s \in {"Start", "Cr", "CrLf", "CrLfDot", "CrLfDotCr", "CrLfDotDot", "CrLfDotDotCr"}
  BY DEF States, AsBytes
<1>2. CASE s = "Start"
  BY <1>2 DEF AsBytes, Held, Bytes
<1>3. CASE s = "Cr"
  BY <1>3 DEF AsBytes, Held, Bytes
<1>4. CASE s = "CrLf"
  BY <1>4 DEF AsBytes, Held, Bytes
<1>5. CASE s = "CrLfDot"
  BY <1>5 DEF AsBytes, Held, Bytes
<1>6. CASE s = "CrLfDotCr"
  BY <1>6 DEF AsBytes, Held, Bytes
<1>7. CASE s = "CrLfDotDot"
  BY <1>7 DEF AsBytes, Held, Bytes
<1>8. CASE s = "CrLfDotDotCr"
  BY <1>8 DEF AsBytes, Held, Bytes
<1> QED BY <1>1, <1>2, <1>3, <1>4, <1>5, <1>6, <1>7, <1>8

LEMMA Emission ==
    ASSUME state \in States \ {"Eof"}, out \in Seq(Bytes),
           NEW b \in Bytes,
           Keep(b) \/ Unescape(b) \/ End(b) \/ Flush(b)
    PROVE  /\ state' \in States /\ out' \in Seq(Bytes)
           /\ Len(out') <= Len(out) + 6
           /\ Len(out') + Held[state'] <= Len(out) + Held[state] + 1
<1>1. CASE Keep(b)
  <2>1. PICK s \in States : <<state, b, s>> \in Silent /\ state' = s /\ out' = out
    BY <1>1 DEF Keep
  <2> QED BY <2>1 DEF Silent, Held, States, AsBytes
<1>2. CASE Unescape(b)
  <2>1. /\ out' = out \o <<"CR", "LF", "dot">> /\ state' = "CrLf" /\ state = "CrLfDotDotCr"
    BY <1>2 DEF Unescape, IsDot
  <2>2. <<"CR", "LF", "dot">> \in Seq(Bytes) /\ Len(<<"CR", "LF", "dot">>) = 3
    BY DEF Bytes
  <2>3. Held["CrLf"] = 2 /\ Held["CrLfDotDotCr"] = 5 /\ "CrLf" \in States
    BY DEF Held, States, AsBytes
  <2> QED BY <2>1, <2>2, <2>3
<1>3. CASE End(b)
  <2>1. /\ out' = out \o <<"CR", "LF">> /\ state' = "Eof" /\ state = "CrLfDotCr"
    BY <1>3 DEF End, IsEnd
  <2>2. <<"CR", "LF">> \in Seq(Bytes) /\ Len(<<"CR", "LF">>) = 2
    BY DEF Bytes
  <2>3. Held["Eof"] = 0 /\ Held["CrLfDotCr"] = 4 /\ "Eof" \in States
    BY DEF Held, States
  <2> QED BY <2>1, <2>2, <2>3
<1>4. CASE Flush(b)
  <2> DEFINE kept == AsBytes[state]
  <2>1. kept \in Seq(Bytes) /\ Len(kept) = Held[state] /\ Held[state] \in 0..5
    BY HeldLength DEF Held, States, AsBytes
  <2>2. IF b = "CR" THEN state' = "Cr" /\ out' = out \o kept
        ELSE state' = "Start" /\ out' = Append(out \o kept, b)
    BY <1>4 DEF Flush
  <2>3. Held["Cr"] = 1 /\ Held["Start"] = 0 /\ {"Cr", "Start"} \subseteq States
    BY DEF Held, States, AsBytes
  <2> HIDE DEF kept
  <2>4. out \o kept \in Seq(Bytes) /\ Len(out \o kept) = Len(out) + Held[state]
    BY <2>1
  <2>5. CASE b = "CR"
    <3>1. state' = "Cr" /\ out' = out \o kept
      BY <2>2, <2>5
    <3> QED BY <2>1, <2>3, <2>4, <3>1
  <2>6. CASE b # "CR"
    <3>1. /\ Append(out \o kept, b) \in Seq(Bytes)
          /\ Len(Append(out \o kept, b)) = Len(out \o kept) + 1
      BY <2>4
    <3>2. state' = "Start" /\ out' = Append(out \o kept, b)
      BY <2>2, <2>6
    <3> QED BY <2>1, <2>3, <2>4, <3>1, <3>2
  <2> QED BY <2>5, <2>6
<1> QED BY <1>1, <1>2, <1>3, <1>4

\* The byte is the new end of what was sent, and the old end moves by one.
LEMMA Matching ==
    ASSUME TextInv, state # "Eof",
           NEW b \in Bytes,
           sent' = Append(sent, b),
           Keep(b) \/ Unescape(b) \/ End(b) \/ Flush(b)
    PROVE  /\ state' # "Eof" => Matched'
           /\ \A n \in 1..Len(sent') : Mark(sent', n) <=> (state' = "Eof" /\ n = Len(sent'))
<1>1. /\ sent \in Seq(Bytes) /\ Len(sent) \in Nat /\ Len(sent') = Len(sent) + 1
      /\ sent'[Len(sent')] = b
      /\ \A n \in 1..Len(sent) : sent'[n] = sent[n]
  BY DEF TextInv
<1>2. /\ EndsCr' <=> b = "CR"
      /\ EndsCrLf' <=> EndsCr /\ b = "LF"
      /\ EndsCrLfDot' <=> EndsCrLf /\ b = "dot"
      /\ EndsCrLfDotCr' <=> EndsCrLfDot /\ b = "CR"
      /\ EndsCrLfDotDot' <=> EndsCrLfDot /\ b = "dot"
      /\ EndsCrLfDotDotCr' <=> EndsCrLfDotDot /\ b = "CR"
  BY <1>1 DEF EndsCr, EndsCrLf, EndsCrLfDot, EndsCrLfDotCr, EndsCrLfDotDot, EndsCrLfDotDotCr, Back
<1>3. Mark(sent', Len(sent')) <=> EndsCrLfDotCr /\ b = "LF"
  BY <1>1 DEF EndsCrLfDotCr, Back, Mark
<1>4. \A n \in 1..Len(sent) : ~ Mark(sent', n)
  <2>1. \A n \in 1..Len(sent) : ~ Mark(sent, n)
    BY DEF TextInv
  <2> QED BY <1>1, <2>1 DEF Mark
<1>5. /\ state \in States \ {"Eof"} /\ Matched
      /\ \/ \E s \in States : <<state, b, s>> \in Silent /\ state' = s
         \/ IsDot(b) /\ state' = "CrLf"
         \/ IsEnd(b) /\ state' = "Eof"
         \/ /\ ~IsSilent(b) /\ ~IsDot(b) /\ ~IsEnd(b)
            /\ state' = IF b = "CR" THEN "Cr" ELSE "Start"
  BY DEF TextInv, Keep, Unescape, End, Flush
<1>6. /\ EndsCr' <=> b = "CR"
      /\ EndsCrLf' <=> state \in {"Cr", "CrLfDotCr", "CrLfDotDotCr"} /\ b = "LF"
      /\ EndsCrLfDot' <=> state = "CrLf" /\ b = "dot"
      /\ EndsCrLfDotCr' <=> state = "CrLfDot" /\ b = "CR"
      /\ EndsCrLfDotDot' <=> state = "CrLfDot" /\ b = "dot"
      /\ EndsCrLfDotDotCr' <=> state = "CrLfDotDot" /\ b = "CR"
      /\ Mark(sent', Len(sent')) <=> state = "CrLfDotCr" /\ b = "LF"
  BY <1>2, <1>3, <1>5 DEF Matched
<1>7. state' = "Eof" <=> state = "CrLfDotCr" /\ b = "LF"
  BY <1>5 DEF Silent, IsSilent, IsDot, IsEnd, States, AsBytes
<1>8. state' # "Eof" => Matched'
  BY <1>5, <1>6 DEF Matched, Silent, IsSilent, IsDot, IsEnd, States, AsBytes, Bytes
<1> QED BY <1>1, <1>4, <1>6, <1>7, <1>8

-----------------------------------------------------------------------------
(* The text's part of the invariant *)

LEMMA NoBytes == <<>> \in Seq(Bytes) /\ Len(<<>>) = 0 /\ <<>> \in Seq(Seq(Bytes))
OBVIOUS

LEMMA NewTextInv ==
    ASSUME state = "Start", sent = <<>>, out = <<>>, ended = FALSE, panicked = FALSE
    PROVE  TextInv
<1>1. <<>> \in Seq(Bytes) /\ Len(<<>>) = 0
  OBVIOUS
<1>2. "Start" \in States /\ Held["Start"] = 0
  BY DEF States, AsBytes, Held
<1>3. Matched
  BY <1>1 DEF Matched, EndsCr, EndsCrLf, EndsCrLfDot, EndsCrLfDotCr,
     EndsCrLfDotDot, EndsCrLfDotDotCr
<1>5. \A n \in 1..Len(sent) : Mark(sent, n) <=> (state = "Eof" /\ n = Len(sent))
  BY <1>1
<1>6. ended \in BOOLEAN /\ state # "Eof"
  BY Zenon
<1> QED BY <1>1, <1>2, <1>3, <1>5, <1>6 DEF TextInv

LEMMA AdvanceText ==
    ASSUME TextInv,
           NEW b \in Bytes, Advance(b)
    PROVE  TextInv'
<1>1. /\ state \in States \ {"Eof"} /\ ended \in BOOLEAN
      /\ sent \in Seq(Bytes) /\ out \in Seq(Bytes)
      /\ Len(out) + Held[state] <= Len(sent)
  BY DEF TextInv, Advance, Reading
<1>2. /\ sent' = Append(sent, b) /\ ended' = ended
      /\ Keep(b) \/ Unescape(b) \/ End(b) \/ Flush(b)
  BY DEF Advance
<1>3. /\ state' \in States /\ out' \in Seq(Bytes)
      /\ Len(out') <= Len(out) + 6
      /\ Len(out') + Held[state'] <= Len(out) + Held[state] + 1
  BY <1>1, <1>2, Emission
<1>4. /\ state' # "Eof" => Matched'
      /\ \A n \in 1..Len(sent') : Mark(sent', n) <=> (state' = "Eof" /\ n = Len(sent'))
  BY <1>1, <1>2, Matching
<1>5. sent' \in Seq(Bytes) /\ Len(sent') = Len(sent) + 1 /\ sent' # <<>>
  BY <1>1, <1>2
<1>6. panicked' = FALSE
  <2>1. PICK room \in Rooms : HasRoom(room) /\ panicked' = (Len(out') - Len(out) > room)
    BY DEF Advance
  <2>2. room \in Nat /\ room >= 6
    BY <2>1, RoomAssumption DEF HasRoom
  <2>3. (Len(out') - Len(out) > room) = FALSE
    BY <1>1, <1>3, <2>2
  <2> QED BY <2>1, <2>3, Zenon
<1>7. Len(out') + Held[state'] <= Len(sent')
  <2>1. Held[state] \in Nat /\ Held[state'] \in Nat
    BY <1>1, <1>3 DEF Held, States, AsBytes
  <2> QED BY <1>1, <1>3, <1>5, <2>1
<1> QED BY <1>1, <1>2, <1>3, <1>4, <1>5, <1>6, <1>7 DEF TextInv

LEMMA SameText ==
    ASSUME TextInv, UNCHANGED vars
    PROVE  TextInv'
BY DEF TextInv, vars, Matched, EndsCr, EndsCrLf, EndsCrLfDot, EndsCrLfDotCr,
     EndsCrLfDotDot, EndsCrLfDotDotCr, Back

LEMMA NewTextStep ==
    ASSUME NewText
    PROVE  TextInv'
<1>1. /\ state' = "Start" /\ sent' = <<>> /\ out' = <<>>
      /\ ended' = FALSE /\ panicked' = FALSE
  BY DEF NewText
<1>2. <<>> \in Seq(Bytes) /\ Len(<<>>) = 0
  OBVIOUS
<1>3. "Start" \in States /\ Held["Start"] = 0
  BY DEF States, AsBytes, Held
<1>4. Matched'
  BY <1>1, <1>2 DEF Matched, EndsCr, EndsCrLf, EndsCrLfDot, EndsCrLfDotCr,
     EndsCrLfDotDot, EndsCrLfDotDotCr
<1>5. \A n \in 1..Len(sent') : Mark(sent', n) <=> (state' = "Eof" /\ n = Len(sent'))
  BY <1>1, <1>2
<1>6. ended' \in BOOLEAN /\ state' # "Eof"
  BY <1>1, Zenon
<1> QED BY <1>1, <1>2, <1>3, <1>4, <1>5, <1>6 DEF TextInv

LEMMA TakeText ==
    ASSUME TextInv, NEW next, TakeCommand(next)
    PROVE  TextInv'
<1>1. NewText \/ UNCHANGED vars
  BY DEF TakeCommand
<1> QED BY <1>1, NewTextStep, SameText

LEMMA TextStep ==
    ASSUME TextInv, [ReaderNext]_readerVars
    PROVE  TextInv'
<1>1. CASE \E b \in Bytes : CommandByte(b)
  BY <1>1, TakeText DEF CommandByte
<1>2. CASE \E b \in Bytes : TextByte(b)
  BY <1>2, AdvanceText DEF TextByte
<1>3. CASE CommandEof
  BY <1>3, TakeText DEF CommandEof
<1>4. CASE TextEof
  <2>1. /\ ended' = TRUE /\ UNCHANGED <<state, sent, out, panicked>>
    BY <1>4 DEF TextEof, StreamEnds
  <2> QED BY <2>1 DEF TextInv, Matched, EndsCr, EndsCrLf, EndsCrLfDot, EndsCrLfDotCr,
     EndsCrLfDotDot, EndsCrLfDotDotCr, Back
<1>5. CASE TextCrowded \/ TextTaken \/ ReaderStops \/ UNCHANGED readerVars
  <2>1. UNCHANGED vars
    BY <1>5 DEF TextCrowded, TextTaken, ReaderStops, readerVars
  <2> QED BY <2>1, SameText
<1> QED BY <1>1, <1>2, <1>3, <1>4, <1>5 DEF ReaderNext

-----------------------------------------------------------------------------
(* The lines' part of the invariant *)

LEMMA LineReturned ==
    ASSUME LineInv, NEW line \in Seq(Bytes), line # <<>>,
           Lines!Return(line), NEW next, TakeCommand(next)
    PROVE  /\ frames' = Append(frames, [kind |-> "line", bytes |-> line])
           /\ buf' = <<>> /\ returned' \in Seq(Seq(Bytes))
           /\ mode' \in {"text", next}
<1>1. returned' = Append(returned, line) /\ buf' = <<>>
  BY DEF Lines!Return
<1>2. /\ returned' \in Seq(Seq(Bytes)) /\ Len(returned') = Len(returned) + 1
      /\ returned'[Len(returned')] = line /\ Len(returned) \in Nat
  BY <1>1 DEF LineInv
<1>3. returned' # returned
  BY <1>2
<1>4. /\ frames' = Append(frames, [kind |-> "line", bytes |-> line])
      /\ mode' \in {"text", next}
  BY <1>2, <1>3 DEF TakeCommand
<1> QED BY <1>1, <1>2, <1>4

LEMMA FrameAdded ==
    ASSUME LineInv, NEW frame \in Frames, frames' = Append(frames, frame)
    PROVE  frames' \in Seq(Frames)
BY DEF LineInv

LEMMA CommandByteLines ==
    ASSUME LineInv, NEW b \in Bytes, CommandByte(b)
    PROVE  LineInv'
<1> DEFINE line == Append(buf, b)
<1>1. /\ line \in Seq(Bytes) /\ line # <<>> /\ Len(line) = Len(buf) + 1 /\ Len(line) \in Nat
      /\ line[Len(line)] = b /\ Len(line) <= Limit /\ Limit \in Nat \ {0}
      /\ input' \in Seq(Bytes) /\ closed = FALSE /\ closed' = FALSE
      /\ mode = "line"
  <2>1. /\ buf \in Seq(Bytes) /\ input \in Seq(Bytes) /\ Len(buf) < Limit /\ closed \in BOOLEAN
        /\ Limit \in Nat \ {0}
    BY LimitAssumption DEF LineInv
  <2>2. /\ mode = "line" /\ ~closed /\ input' = Append(input, b) /\ UNCHANGED closed
    BY DEF CommandByte
  <2>3. /\ line \in Seq(Bytes) /\ Len(line) = Len(buf) + 1 /\ Len(buf) \in Nat
        /\ line[Len(line)] = b
    BY <2>1
  <2>4. line # <<>> /\ Len(line) \in Nat /\ Len(line) <= Limit
    BY <2>1, <2>3
  <2>5. input' \in Seq(Bytes)
    BY <2>1, <2>2
  <2> QED BY <2>1, <2>2, <2>3, <2>4, <2>5
<1>2. TakeCommand("line")
  BY DEF CommandByte
<1>3. CASE b = "LF" \/ Len(line) = Limit
  <2>1. Lines!Return(line)
    BY <1>3 DEF CommandByte, Lines!ReadByte
  <2> DEFINE frame == [kind |-> "line", bytes |-> line]
  <2> HIDE DEF line
  <2>2. /\ frames' = Append(frames, frame) /\ buf' = <<>>
        /\ returned' \in Seq(Seq(Bytes)) /\ mode' \in {"text", "line"}
    BY <1>1, <1>2, <2>1, LineReturned
  <2>3. frame \in Frames
    BY <1>1 DEF Frames
  <2> HIDE DEF frame
  <2>4. frames' \in Seq(Frames)
    BY <2>2, <2>3, FrameAdded
  <2>5. /\ input' \in Seq(Bytes) /\ closed' \in BOOLEAN /\ mode' \in {"line", "text", "over"}
    BY <1>1, <2>2
  <2>6. buf' \in Seq(Bytes) /\ Len(buf') < Limit
    BY <1>1, <2>2, NoBytes
  <2>7. (closed' \/ mode' = "text") => buf' = <<>>
    BY <2>2
  <2> QED BY <2>2, <2>4, <2>5, <2>6, <2>7 DEF LineInv
<1>4. CASE ~ (b = "LF" \/ Len(line) = Limit)
  <2>1. buf' = line /\ returned' = returned
    BY <1>4 DEF CommandByte, Lines!ReadByte
  <2>2. mode' = "line" /\ frames' = frames
    BY <1>2, <2>1 DEF TakeCommand
  <2> HIDE DEF line
  <2>3. /\ input' \in Seq(Bytes) /\ closed' \in BOOLEAN /\ mode' \in {"line", "text", "over"}
    BY <1>1, <2>2
  <2>4. /\ buf' \in Seq(Bytes) /\ Len(buf') < Limit
        /\ returned' \in Seq(Seq(Bytes)) /\ frames' \in Seq(Frames)
    BY <1>1, <1>4, <2>1, <2>2 DEF LineInv
  <2>5. (closed' \/ mode' = "text") => buf' = <<>>
    BY <1>1, <2>2
  <2> QED BY <2>3, <2>4, <2>5 DEF LineInv
<1> QED BY <1>3, <1>4

LEMMA CommandEofLines ==
    ASSUME LineInv, CommandEof
    PROVE  LineInv'
<1>1. mode = "line" /\ closed' = TRUE /\ input' = input
  BY DEF CommandEof
<1>2. CASE buf = <<>>
  <2>1. buf' = buf /\ returned' = returned
    BY <1>2 DEF CommandEof, reader
  <2>2. mode' = "over" /\ frames' = frames
    BY <1>2, <2>1 DEF CommandEof, TakeCommand
  <2> QED BY <1>1, <1>2, <2>1, <2>2 DEF LineInv
<1>3. CASE buf # <<>>
  <2>1. Lines!Return(buf) /\ TakeCommand("line")
    BY <1>3 DEF CommandEof, Lines!ReadEof
  <2> DEFINE frame == [kind |-> "line", bytes |-> buf]
  <2>2. buf \in Seq(Bytes) /\ ~closed
    BY <1>3 DEF LineInv
  <2>3. /\ frames' = Append(frames, frame) /\ buf' = <<>>
        /\ returned' \in Seq(Seq(Bytes)) /\ mode' \in {"text", "line"}
    BY <1>3, <2>1, <2>2, LineReturned
  <2>4. frame \in Frames
    BY <2>2 DEF Frames
  <2> HIDE DEF frame
  <2>5. frames' \in Seq(Frames)
    BY <2>3, <2>4, FrameAdded
  <2>6. /\ input' \in Seq(Bytes) /\ closed' \in BOOLEAN /\ mode' \in {"line", "text", "over"}
    BY <1>1, <2>3 DEF LineInv
  <2>7. buf' \in Seq(Bytes) /\ Len(buf') < Limit
    BY <2>3, NoBytes, LimitAssumption
  <2>8. (closed' \/ mode' = "text") => buf' = <<>>
    BY <2>3
  <2> QED BY <2>3, <2>5, <2>6, <2>7, <2>8 DEF LineInv
<1> QED BY <1>2, <1>3

LEMMA LineStep ==
    ASSUME LineInv, TextInv, [ReaderNext]_readerVars
    PROVE  LineInv'
<1>1. CASE \E b \in Bytes : CommandByte(b)
  BY <1>1, CommandByteLines
<1>2. CASE \E b \in Bytes : TextByte(b)
  BY <1>2 DEF TextByte, LineInv, reader
<1>3. CASE CommandEof
  BY <1>3, CommandEofLines
<1>4. CASE TextEof
  BY <1>4 DEF TextEof, LineInv, reader
<1>5. CASE TextTaken
  <2> DEFINE frame == [kind |-> "text", bytes |-> sent]
  <2>1. /\ frames' = Append(frames, frame) /\ mode = "text" /\ mode' = "line"
        /\ UNCHANGED <<input, closed, buf, returned>>
    BY <1>5 DEF TextTaken, reader
  <2>2. frame \in Frames /\ frame.kind = "text"
    BY DEF Frames, TextInv
  <2> HIDE DEF frame
  <2>3. frames' \in Seq(Frames)
    BY <2>1, <2>2, FrameAdded
  <2> QED BY <2>1, <2>3 DEF LineInv
<1>6. CASE TextCrowded \/ ReaderStops \/ UNCHANGED readerVars
  <2>1. UNCHANGED <<input, closed, mode, buf, returned, frames>>
    BY <1>6 DEF TextCrowded, ReaderStops, readerVars, reader
  <2> QED BY <2>1 DEF LineInv
<1> QED BY <1>1, <1>2, <1>3, <1>4, <1>5, <1>6 DEF ReaderNext

-----------------------------------------------------------------------------
(* Every byte is read once *)

BytesOf(fs) == [n \in DOMAIN fs |-> fs[n].bytes]

LEMMA BytesOfAppend ==
    ASSUME NEW fs \in Seq(Frames), NEW frame \in Frames
    PROVE  /\ BytesOf(fs) \in Seq(Seq(Bytes))
           /\ FlattenSeq(BytesOf(fs)) \in Seq(Bytes)
           /\ FlattenSeq(BytesOf(Append(fs, frame))) = FlattenSeq(BytesOf(fs)) \o frame.bytes
<1>1. BytesOf(fs) \in Seq(Seq(Bytes)) /\ frame.bytes \in Seq(Bytes)
  <2>1. \A f \in Frames : f.bytes \in Seq(Bytes)
    BY DEF Frames
  <2>2. DOMAIN fs = 1..Len(fs) /\ Len(fs) \in Nat /\ \A n \in 1..Len(fs) : fs[n] \in Frames
    OBVIOUS
  <2>3. \A n \in 1..Len(fs) : fs[n].bytes \in Seq(Bytes)
    BY <2>1, <2>2
  <2>4. BytesOf(fs) \in [1..Len(fs) -> Seq(Bytes)]
    BY <2>2, <2>3 DEF BytesOf
  <2> QED BY <2>1, <2>2, <2>4
<1>2. BytesOf(Append(fs, frame)) = Append(BytesOf(fs), frame.bytes)
  <2> DEFINE gs == Append(fs, frame)
  <2> DEFINE bs == Append(BytesOf(fs), frame.bytes)
  <2>1. /\ gs \in Seq(Frames) /\ Len(gs) = Len(fs) + 1 /\ Len(fs) \in Nat
        /\ gs[Len(fs) + 1] = frame /\ \A n \in 1..Len(fs) : gs[n] = fs[n]
    OBVIOUS
  <2>2. /\ Len(BytesOf(fs)) = Len(fs)
        /\ \A n \in 1..Len(fs) : BytesOf(fs)[n] = fs[n].bytes
    BY <1>1 DEF BytesOf
  <2>3. /\ bs \in Seq(Seq(Bytes)) /\ Len(bs) = Len(fs) + 1
        /\ bs[Len(fs) + 1] = frame.bytes
        /\ \A n \in 1..Len(fs) : bs[n] = fs[n].bytes
    BY <1>1, <2>2
  <2> HIDE DEF gs, bs
  <2>4. bs = [n \in 1..Len(fs) + 1 |-> bs[n]] /\ DOMAIN gs = 1..Len(fs) + 1
    BY <2>1, <2>3
  <2>5. ASSUME NEW n \in 1..Len(fs) + 1 PROVE bs[n] = gs[n].bytes
    <3>1. n \in 1..Len(fs) \/ n = Len(fs) + 1
      BY <2>1
    <3>2. CASE n \in 1..Len(fs)
      <4>1. bs[n] = fs[n].bytes /\ gs[n] = fs[n]
        BY <2>1, <2>3, <3>2
      <4> QED BY <4>1
    <3>3. CASE n = Len(fs) + 1
      <4>1. bs[n] = frame.bytes /\ gs[n] = frame
        BY <2>1, <2>3, <3>3
      <4> QED BY <4>1
    <3> QED BY <3>1, <3>2, <3>3
  <2>6. BytesOf(gs) = bs
    BY <2>4, <2>5 DEF BytesOf
  <2> QED BY <2>6 DEF gs, bs
<1> QED BY <1>1, <1>2, FlattenType, FlattenAppend

\* What a frame takes over from the current one.
LEMMA TakenStep ==
    ASSUME LineInv, NEW frame \in Frames, frames' = Append(frames, frame)
    PROVE  Taken' = Taken \o frame.bytes
BY BytesOfAppend DEF LineInv, Taken, BytesOf

LEMMA TakenSame == ASSUME UNCHANGED frames PROVE Taken' = Taken
BY DEF Taken

LEMMA TakenType == ASSUME LineInv PROVE Taken \in Seq(Bytes)
<1>1. frames \in Seq(Frames) /\ Taken = FlattenSeq(BytesOf(frames))
  BY DEF LineInv, Taken, BytesOf
<1>2. [kind |-> "text", bytes |-> <<>>] \in Frames
  BY DEF Frames
<1> QED BY <1>1, <1>2, BytesOfAppend

LEMMA OneMoreByte ==
    \A s, t \in Seq(Bytes), b \in Bytes : s \o Append(t, b) = Append(s \o t, b)
OBVIOUS

LEMMA NoMore == \A s \in Seq(Bytes) : s \o <<>> = s
OBVIOUS

\* A frame is complete: nothing is current behind it.
LEMMA FrameTaken ==
    ASSUME LineInv, NEW line \in Seq(Bytes), NEW kind \in {"line", "text"},
           frames' = Append(frames, [kind |-> kind, bytes |-> line]),
           input' = Taken \o line,
           Current' = <<>>
    PROVE  ReadOnce'
<1>1. [kind |-> kind, bytes |-> line] \in Frames
  BY DEF Frames
<1>2. Taken' = Taken \o line
  BY <1>1, TakenStep
<1>3. Taken \o line \in Seq(Bytes)
  BY TakenType
<1> QED BY <1>2, <1>3, NoMore DEF ReadOnce

LEMMA CommandByteOnce ==
    ASSUME LineInv, ReadOnce, NEW b \in Bytes, CommandByte(b)
    PROVE  ReadOnce'
<1> DEFINE line == Append(buf, b)
<1>1. /\ mode = "line" /\ input' = Append(input, b) /\ TakeCommand("line")
      /\ buf \in Seq(Bytes) /\ Current = buf
  BY DEF CommandByte, LineInv, Current
<1>2. line \in Seq(Bytes) /\ line # <<>> /\ input' = Taken \o line
  <2>1. line \in Seq(Bytes) /\ line # <<>>
    BY <1>1
  <2>2. Append(Taken \o buf, b) = Taken \o line
    BY <1>1, TakenType, OneMoreByte
  <2> QED BY <1>1, <2>1, <2>2 DEF ReadOnce
<1>3. CASE b = "LF" \/ Len(line) = Limit
  <2>1. Lines!Return(line)
    BY <1>3 DEF CommandByte, Lines!ReadByte
  <2> HIDE DEF line
  <2>2. /\ frames' = Append(frames, [kind |-> "line", bytes |-> line]) /\ buf' = <<>>
        /\ mode' \in {"text", "line"}
    BY <1>1, <1>2, <2>1, LineReturned
  <2>3. mode' = "text" => sent' = <<>>
    BY <1>1 DEF TakeCommand, NewText
  <2>4. Current' = <<>>
    BY <2>2, <2>3 DEF Current
  <2> QED BY <1>2, <2>2, <2>4, FrameTaken
<1>4. CASE ~ (b = "LF" \/ Len(line) = Limit)
  <2>1. buf' = line /\ returned' = returned
    BY <1>4 DEF CommandByte, Lines!ReadByte
  <2>2. mode' = "line" /\ frames' = frames
    BY <1>1, <2>1 DEF TakeCommand
  <2> QED BY <1>2, <2>1, <2>2, TakenSame DEF ReadOnce, Current
<1> QED BY <1>3, <1>4

LEMMA CommandEofOnce ==
    ASSUME LineInv, ReadOnce, CommandEof
    PROVE  ReadOnce'
<1>1. mode = "line" /\ input' = input /\ Current = buf /\ buf \in Seq(Bytes)
  BY DEF CommandEof, Current, LineInv
<1>2. CASE buf = <<>>
  <2>1. buf' = buf /\ returned' = returned
    BY <1>2 DEF CommandEof, reader
  <2>2. mode' = "over" /\ frames' = frames
    BY <1>2, <2>1 DEF CommandEof, TakeCommand
  <2> QED BY <1>1, <2>1, <2>2, TakenSame DEF ReadOnce, Current
<1>3. CASE buf # <<>>
  <2>1. Lines!Return(buf) /\ TakeCommand("line")
    BY <1>3 DEF CommandEof, Lines!ReadEof
  <2>2. /\ frames' = Append(frames, [kind |-> "line", bytes |-> buf]) /\ buf' = <<>>
        /\ mode' \in {"text", "line"}
    BY <1>1, <1>3, <2>1, LineReturned
  <2>3. mode' = "text" => sent' = <<>>
    BY <2>1 DEF TakeCommand, NewText
  <2>4. Current' = <<>>
    BY <2>2, <2>3 DEF Current
  <2> QED BY <1>1, <2>2, <2>4, FrameTaken DEF ReadOnce
<1> QED BY <1>2, <1>3

LEMMA OnceStep ==
    ASSUME LineInv, TextInv, ReadOnce, [ReaderNext]_readerVars
    PROVE  ReadOnce'
<1>1. CASE \E b \in Bytes : CommandByte(b)
  BY <1>1, CommandByteOnce
<1>2. CASE \E b \in Bytes : TextByte(b)
  <2>1. PICK b \in Bytes : TextByte(b)
    BY <1>2
  <2>2. /\ mode = "text" /\ mode' = "text" /\ frames' = frames
        /\ input' = Append(input, b) /\ sent' = Append(sent, b) /\ sent \in Seq(Bytes)
    BY <2>1 DEF TextByte, Advance, TextInv
  <2>3. Append(Taken \o sent, b) = Taken \o Append(sent, b)
    BY <2>2, TakenType, OneMoreByte
  <2>4. Current = sent /\ Current' = sent'
    BY <2>2 DEF Current
  <2> QED BY <2>2, <2>3, <2>4, TakenSame DEF ReadOnce
<1>3. CASE CommandEof
  BY <1>3, CommandEofOnce
<1>4. CASE TextEof
  <2>1. UNCHANGED <<input, mode, frames, buf, sent>>
    BY <1>4 DEF TextEof, StreamEnds, reader
  <2> QED BY <2>1, TakenSame DEF ReadOnce, Current
<1>5. CASE TextTaken
  <2>1. /\ frames' = Append(frames, [kind |-> "text", bytes |-> sent])
        /\ mode = "text" /\ mode' = "line" /\ input' = input /\ buf' = buf
        /\ sent \in Seq(Bytes) /\ buf = <<>>
    BY <1>5 DEF TextTaken, reader, TextInv, LineInv
  <2>2. Current = sent /\ Current' = <<>>
    BY <2>1 DEF Current
  <2> QED BY <2>1, <2>2, FrameTaken DEF ReadOnce
<1>6. CASE TextCrowded \/ ReaderStops \/ UNCHANGED readerVars
  <2>1. UNCHANGED <<input, mode, frames, buf, sent>>
    BY <1>6 DEF TextCrowded, ReaderStops, readerVars, reader, vars
  <2> QED BY <2>1, TakenSame DEF ReadOnce, Current
<1> QED BY <1>1, <1>2, <1>3, <1>4, <1>5, <1>6 DEF ReaderNext

-----------------------------------------------------------------------------
(* Nothing but the escapes is removed *)

EscapeAt(s, n) ==
    n \in 4..Len(s) - 2 /\ SubSeq(s, n - 3, n + 2) = <<"CR", "LF", "dot", "dot", "CR", "LF">>

\* The text is what is left of each byte.
Pieces(s) == [n \in DOMAIN s |-> IF EscapeAt(s, n) THEN <<>> ELSE <<s[n]>>]

Plain(s) == FlattenSeq(Pieces(s))

LEMMA UnescapedIsPlain == Unescaped = Plain(sent)
BY DEF Unescaped, Plain, Pieces, IsEscape, EscapeAt

\* The last six bytes are an escaped line.
EndsEscape(s) ==
    LET n == Len(s)
    IN  /\ n >= 6 /\ s[n - 5] = "CR" /\ s[n - 4] = "LF" /\ s[n - 3] = "dot"
        /\ s[n - 2] = "dot" /\ s[n - 1] = "CR" /\ s[n] = "LF"

LEMMA EscapeMeans ==
    ASSUME NEW s \in Seq(Bytes), NEW n \in Nat
    PROVE  EscapeAt(s, n) <=>
             /\ n >= 4 /\ n + 2 <= Len(s)
             /\ s[n - 3] = "CR" /\ s[n - 2] = "LF" /\ s[n - 1] = "dot"
             /\ s[n] = "dot" /\ s[n + 1] = "CR" /\ s[n + 2] = "LF"
<1>1. n \in 4..Len(s) - 2 <=> n >= 4 /\ n + 2 <= Len(s)
  OBVIOUS
<1>2. ASSUME n >= 4, n + 2 <= Len(s)
      PROVE  (SubSeq(s, n - 3, n + 2) = <<"CR", "LF", "dot", "dot", "CR", "LF">>) <=>
               /\ s[n - 3] = "CR" /\ s[n - 2] = "LF" /\ s[n - 1] = "dot"
               /\ s[n] = "dot" /\ s[n + 1] = "CR" /\ s[n + 2] = "LF"
  <2> DEFINE t == SubSeq(s, n - 3, n + 2)
  <2>1. /\ t = [i \in 1..6 |-> t[i]] /\ t \in Seq(Bytes) /\ Len(t) = 6
        /\ t[1] = s[n - 3] /\ t[2] = s[n - 2] /\ t[3] = s[n - 1]
        /\ t[4] = s[n] /\ t[5] = s[n + 1] /\ t[6] = s[n + 2]
    BY <1>2
  <2> HIDE DEF t
  <2>2. (t = <<"CR", "LF", "dot", "dot", "CR", "LF">>) <=>
           /\ t[1] = "CR" /\ t[2] = "LF" /\ t[3] = "dot"
           /\ t[4] = "dot" /\ t[5] = "CR" /\ t[6] = "LF"
    BY <2>1
  <2> QED BY <2>1, <2>2 DEF t
<1> QED BY <1>1, <1>2 DEF EscapeAt

LEMMA EscapeSame ==
    ASSUME NEW s \in Seq(Bytes), NEW t \in Seq(Bytes), NEW n \in Nat,
           n + 2 <= Len(s), n + 2 <= Len(t),
           \A i \in 1..n + 2 : t[i] = s[i]
    PROVE  EscapeAt(t, n) <=> EscapeAt(s, n)
<1>1. CASE n < 4
  BY <1>1 DEF EscapeAt
<1>2. CASE n >= 4
  <2>1. /\ t[n - 3] = s[n - 3] /\ t[n - 2] = s[n - 2] /\ t[n - 1] = s[n - 1]
        /\ t[n] = s[n] /\ t[n + 1] = s[n + 1] /\ t[n + 2] = s[n + 2]
    BY <1>2
  <2>2. EscapeAt(t, n) <=>
             /\ t[n - 3] = "CR" /\ t[n - 2] = "LF" /\ t[n - 1] = "dot"
             /\ t[n] = "dot" /\ t[n + 1] = "CR" /\ t[n + 2] = "LF"
    BY <1>2, EscapeMeans
  <2>3. EscapeAt(s, n) <=>
             /\ s[n - 3] = "CR" /\ s[n - 2] = "LF" /\ s[n - 1] = "dot"
             /\ s[n] = "dot" /\ s[n + 1] = "CR" /\ s[n + 2] = "LF"
    BY <1>2, EscapeMeans
  <2> QED BY <2>1, <2>2, <2>3
<1> QED BY <1>1, <1>2

LEMMA PiecesType ==
    ASSUME NEW s \in Seq(Bytes)
    PROVE  /\ Pieces(s) \in Seq(Seq(Bytes)) /\ Len(Pieces(s)) = Len(s)
           /\ \A n \in 1..Len(s) : Pieces(s)[n] = IF EscapeAt(s, n) THEN <<>> ELSE <<s[n]>>
<1>1. \A n \in DOMAIN s : (IF EscapeAt(s, n) THEN <<>> ELSE <<s[n]>>) \in Seq(Bytes)
  OBVIOUS
<1>2. Pieces(s) \in [1..Len(s) -> Seq(Bytes)]
  BY <1>1 DEF Pieces
<1>3. Pieces(s) \in Seq(Seq(Bytes)) /\ Len(Pieces(s)) = Len(s)
  BY <1>2
<1> QED BY <1>3 DEF Pieces

LEMMA PlainType == ASSUME NEW s \in Seq(Bytes) PROVE Plain(s) \in Seq(Bytes)
BY PiecesType, FlattenType DEF Plain

\* Where the byte does not complete an escaped line, it is added.
LEMMA PlainGrows ==
    ASSUME NEW s \in Seq(Bytes), NEW b \in Bytes, ~ EndsEscape(Append(s, b))
    PROVE  Plain(Append(s, b)) = Append(Plain(s), b)
<1> DEFINE t == Append(s, b)
<1> DEFINE p == Append(Pieces(s), <<b>>)
<1>1. /\ t \in Seq(Bytes) /\ Len(t) = Len(s) + 1 /\ Len(s) \in Nat
      /\ t[Len(s) + 1] = b /\ \A n \in 1..Len(s) : t[n] = s[n]
  OBVIOUS
<1>2. /\ p \in Seq(Seq(Bytes)) /\ Len(p) = Len(s) + 1 /\ p[Len(s) + 1] = <<b>>
      /\ \A n \in 1..Len(s) : p[n] = Pieces(s)[n]
  BY PiecesType
<1> HIDE DEF t, p
<1>3. \A n \in 1..Len(s) + 1 : EscapeAt(t, n) <=> n \in 1..Len(s) /\ EscapeAt(s, n)
  <2> SUFFICES ASSUME NEW n \in 1..Len(s) + 1
               PROVE  EscapeAt(t, n) <=> n \in 1..Len(s) /\ EscapeAt(s, n)
    OBVIOUS
  <2>1. n \in Nat /\ ~ EndsEscape(t)
    BY <1>1 DEF t
  <2>2. CASE n + 2 <= Len(s)
    <3>1. n + 2 <= Len(t) /\ n \in 1..Len(s) /\ \A i \in 1..n + 2 : t[i] = s[i]
      BY <1>1, <2>1, <2>2
    <3> QED BY <1>1, <2>1, <2>2, <3>1, EscapeSame
  <2>3. CASE n + 2 = Len(t)
    <3>1. ASSUME EscapeAt(t, n) PROVE EndsEscape(t)
      <4>1. /\ n >= 4 /\ t[n - 3] = "CR" /\ t[n - 2] = "LF" /\ t[n - 1] = "dot"
            /\ t[n] = "dot" /\ t[n + 1] = "CR" /\ t[n + 2] = "LF"
        BY <1>1, <2>1, <3>1, EscapeMeans
      <4>2. /\ n - 3 = Len(t) - 5 /\ n - 2 = Len(t) - 4 /\ n - 1 = Len(t) - 3
            /\ n = Len(t) - 2 /\ n + 1 = Len(t) - 1 /\ Len(t) >= 6
        BY <1>1, <2>1, <2>3, <4>1
      <4> QED BY <2>3, <4>1, <4>2 DEF EndsEscape
    <3>2. ~ EscapeAt(s, n)
      BY <1>1, <2>1, <2>3 DEF EscapeAt
    <3> QED BY <2>1, <3>1, <3>2
  <2>4. CASE n + 2 > Len(t)
    BY <1>1, <2>1, <2>4 DEF EscapeAt
  <2> QED BY <1>1, <2>1, <2>2, <2>3, <2>4
<1>4. Pieces(t) = p
  <2>1. ASSUME NEW n \in 1..Len(s) + 1 PROVE Pieces(t)[n] = p[n]
    <3>1. Pieces(t)[n] = IF EscapeAt(t, n) THEN <<>> ELSE <<t[n]>>
      BY <1>1, PiecesType
    <3>2. CASE n = Len(s) + 1
      BY <1>1, <1>2, <1>3, <3>1, <3>2
    <3>3. CASE n \in 1..Len(s)
      <4>1. p[n] = IF EscapeAt(s, n) THEN <<>> ELSE <<s[n]>>
        BY <1>2, <3>3, PiecesType
      <4> QED BY <1>1, <1>3, <3>1, <3>3, <4>1
    <3> QED BY <1>1, <3>2, <3>3
  <2>2. Pieces(t) \in Seq(Seq(Bytes)) /\ Len(Pieces(t)) = Len(s) + 1
    BY <1>1, PiecesType
  <2> QED BY <1>2, <2>1, <2>2
<1>5. FlattenSeq(Append(Pieces(s), <<b>>)) = Append(FlattenSeq(Pieces(s)), b)
  BY PiecesType, FlattenAppendOne
<1> QED BY <1>4, <1>5 DEF Plain, t, p

\* Where it does, the second dot is removed.
LEMMA PlainLoses ==
    ASSUME NEW s \in Seq(Bytes), EndsEscape(Append(s, "LF"))
    PROVE  \E rest \in Seq(Bytes) :
             /\ Plain(s) = Append(Append(rest, "dot"), "CR")
             /\ Plain(Append(s, "LF")) = Append(Append(rest, "CR"), "LF")
<1> DEFINE t == Append(s, "LF")
<1> DEFINE p == Pieces(s)
<1> DEFINE q == SubSeq(p, 1, Len(s) - 2)
<1>1. /\ t \in Seq(Bytes) /\ Len(t) = Len(s) + 1 /\ Len(s) \in Nat
      /\ t[Len(s) + 1] = "LF" /\ \A n \in 1..Len(s) : t[n] = s[n]
  BY DEF Bytes
<1> HIDE DEF t
<1>2. /\ Len(s) >= 5 /\ s[Len(s) - 4] = "CR" /\ s[Len(s) - 3] = "LF" /\ s[Len(s) - 2] = "dot"
      /\ s[Len(s) - 1] = "dot" /\ s[Len(s)] = "CR"
  <2>1. EndsEscape(t)
    BY DEF t
  <2> QED BY <1>1, <2>1 DEF EndsEscape
<1>3. /\ p \in Seq(Seq(Bytes)) /\ Len(p) = Len(s)
      /\ p[Len(s)] = <<"CR">> /\ p[Len(s) - 1] = <<"dot">>
  <2>1. ~ EscapeAt(s, Len(s)) /\ ~ EscapeAt(s, Len(s) - 1)
    BY <1>1, <1>2 DEF EscapeAt
  <2>2. Len(s) \in 1..Len(s) /\ Len(s) - 1 \in 1..Len(s)
    BY <1>1, <1>2
  <2>3. p[Len(s)] = <<s[Len(s)]>> /\ p[Len(s) - 1] = <<s[Len(s) - 1]>>
    BY <2>1, <2>2, PiecesType
  <2> QED BY <1>2, <2>3, PiecesType
<1>4. /\ Pieces(t) \in Seq(Seq(Bytes)) /\ Len(Pieces(t)) = Len(s) + 1
      /\ Pieces(t)[Len(s) + 1] = <<"LF">> /\ Pieces(t)[Len(s)] = <<"CR">>
      /\ Pieces(t)[Len(s) - 1] = <<>>
      /\ \A n \in 1..Len(s) - 2 : Pieces(t)[n] = p[n]
  <2>1. ~ EscapeAt(t, Len(s) + 1) /\ ~ EscapeAt(t, Len(s))
    BY <1>1, <1>2 DEF EscapeAt
  <2>2. EscapeAt(t, Len(s) - 1)
    <3>1. Len(s) - 1 \in Nat /\ Len(s) - 1 >= 4 /\ (Len(s) - 1) + 2 <= Len(t)
      BY <1>1, <1>2
    <3>2. /\ t[(Len(s) - 1) - 3] = "CR" /\ t[(Len(s) - 1) - 2] = "LF"
          /\ t[(Len(s) - 1) - 1] = "dot" /\ t[Len(s) - 1] = "dot"
          /\ t[(Len(s) - 1) + 1] = "CR" /\ t[(Len(s) - 1) + 2] = "LF"
      <4>1. /\ (Len(s) - 1) - 3 = Len(s) - 4 /\ (Len(s) - 1) - 2 = Len(s) - 3
            /\ (Len(s) - 1) - 1 = Len(s) - 2 /\ (Len(s) - 1) + 1 = Len(s)
            /\ (Len(s) - 1) + 2 = Len(s) + 1
        BY <1>1
      <4>2. /\ Len(s) - 4 \in 1..Len(s) /\ Len(s) - 3 \in 1..Len(s) /\ Len(s) - 2 \in 1..Len(s)
            /\ Len(s) - 1 \in 1..Len(s) /\ Len(s) \in 1..Len(s)
        BY <1>1, <1>2
      <4>3. /\ t[Len(s) - 4] = "CR" /\ t[Len(s) - 3] = "LF" /\ t[Len(s) - 2] = "dot"
            /\ t[Len(s) - 1] = "dot" /\ t[Len(s)] = "CR" /\ t[Len(s) + 1] = "LF"
        BY <1>1, <1>2, <4>2
      <4> QED BY <4>1, <4>3
    <3> QED BY <1>1, <3>1, <3>2, EscapeMeans
  <2>3. ASSUME NEW n \in 1..Len(s) - 2
        PROVE  EscapeAt(t, n) <=> EscapeAt(s, n)
    <3>1. /\ n \in Nat /\ n + 2 <= Len(s) /\ n + 2 <= Len(t)
          /\ \A i \in 1..n + 2 : t[i] = s[i]
      BY <1>1, <2>3
    <3> QED BY <1>1, <3>1, EscapeSame
  <2>4. ASSUME NEW n \in 1..Len(s) - 2 PROVE Pieces(t)[n] = p[n]
    <3>1. n \in 1..Len(s) /\ n \in 1..Len(t) /\ t[n] = s[n]
      BY <1>1, <2>4
    <3>2. Pieces(t)[n] = IF EscapeAt(t, n) THEN <<>> ELSE <<t[n]>>
      BY <1>1, <3>1, PiecesType
    <3>3. p[n] = IF EscapeAt(s, n) THEN <<>> ELSE <<s[n]>>
      BY <3>1, PiecesType
    <3> QED BY <2>3, <3>1, <3>2, <3>3
  <2>5. /\ Len(s) + 1 \in 1..Len(t) /\ Len(s) \in 1..Len(t) /\ Len(s) - 1 \in 1..Len(t)
        /\ t[Len(s)] = "CR" /\ t[Len(s) + 1] = "LF"
    BY <1>1, <1>2
  <2>6. /\ Pieces(t)[Len(s) + 1] = <<t[Len(s) + 1]>> /\ Pieces(t)[Len(s)] = <<t[Len(s)]>>
        /\ Pieces(t)[Len(s) - 1] = <<>>
    BY <1>1, <2>1, <2>2, <2>5, PiecesType
  <2>7. Pieces(t) \in Seq(Seq(Bytes)) /\ Len(Pieces(t)) = Len(s) + 1
    BY <1>1, PiecesType
  <2> HIDE DEF p
  <2> QED BY <2>4, <2>5, <2>6, <2>7
<1> HIDE DEF p
<1>5. /\ q \in Seq(Seq(Bytes)) /\ Len(q) = Len(s) - 2
      /\ \A n \in 1..Len(s) - 2 : q[n] = p[n]
  <2> DEFINE m == Len(s) - 2
  <2>1. m \in Nat /\ m <= Len(p) /\ p \in Seq(Seq(Bytes))
    BY <1>1, <1>2, <1>3
  <2> HIDE DEF m
  <2>2. /\ SubSeq(p, 1, m) \in Seq(Seq(Bytes)) /\ Len(SubSeq(p, 1, m)) = m
        /\ \A n \in 1..m : SubSeq(p, 1, m)[n] = p[n]
    BY <2>1
  <2> QED BY <2>2 DEF m
<1> HIDE DEF q
<1>6. /\ <<"dot">> \in Seq(Bytes) /\ <<"CR">> \in Seq(Bytes)
      /\ <<"LF">> \in Seq(Bytes) /\ <<>> \in Seq(Bytes)
  BY DEF Bytes
<1>7. p = Append(Append(q, <<"dot">>), <<"CR">>)
  <2> DEFINE q1 == Append(q, <<"dot">>)
  <2> DEFINE p2 == Append(q1, <<"CR">>)
  <2>1. /\ q1 \in Seq(Seq(Bytes)) /\ Len(q1) = Len(s) - 1 /\ q1[Len(s) - 1] = <<"dot">>
        /\ \A n \in 1..Len(s) - 2 : q1[n] = q[n]
    <3>1. /\ q1 \in Seq(Seq(Bytes)) /\ Len(q1) = Len(q) + 1 /\ q1[Len(q) + 1] = <<"dot">>
          /\ \A n \in 1..Len(q) : q1[n] = q[n]
      BY <1>5, <1>6, AppendProperties
    <3>2. Len(q) = Len(s) - 2 /\ Len(q) + 1 = Len(s) - 1
      BY <1>1, <1>5
    <3> QED BY <3>1, <3>2
  <2> HIDE DEF q1
  <2>2. /\ p2 \in Seq(Seq(Bytes)) /\ Len(p2) = Len(s) /\ p2[Len(s)] = <<"CR">>
        /\ \A n \in 1..Len(s) - 1 : p2[n] = q1[n]
    <3>1. /\ p2 \in Seq(Seq(Bytes)) /\ Len(p2) = Len(q1) + 1 /\ p2[Len(q1) + 1] = <<"CR">>
          /\ \A n \in 1..Len(q1) : p2[n] = q1[n]
      BY <1>6, <2>1, AppendProperties
    <3>2. Len(q1) + 1 = Len(s)
      BY <1>1, <2>1
    <3> QED BY <2>1, <3>1, <3>2
  <2> HIDE DEF p2
  <2>3. Len(s) - 1 \in 1..Len(s) - 1 /\ \A n \in 1..Len(s) - 2 : n \in 1..Len(s) - 1
    BY <1>1, <1>2
  <2>4. p2[Len(s) - 1] = <<"dot">> /\ \A n \in 1..Len(s) - 2 : p2[n] = p[n]
    BY <1>5, <2>1, <2>2, <2>3
  <2>5. \A n \in 1..Len(s) : n = Len(s) \/ n = Len(s) - 1 \/ n \in 1..Len(s) - 2
    BY <1>1
  <2>6. \A n \in 1..Len(s) : p[n] = p2[n]
    BY <1>3, <2>2, <2>4, <2>5
  <2>7. p = p2
    BY <1>3, <2>2, <2>6, SeqEqual
  <2> QED BY <2>7 DEF p2, q1
<1>8. Pieces(t) = Append(Append(Append(q, <<>>), <<"CR">>), <<"LF">>)
  <2> DEFINE q1 == Append(q, <<>>)
  <2> DEFINE q2 == Append(q1, <<"CR">>)
  <2> DEFINE p2 == Append(q2, <<"LF">>)
  <2>1. /\ q1 \in Seq(Seq(Bytes)) /\ Len(q1) = Len(s) - 1 /\ q1[Len(s) - 1] = <<>>
        /\ \A n \in 1..Len(s) - 2 : q1[n] = q[n]
    <3>1. /\ q1 \in Seq(Seq(Bytes)) /\ Len(q1) = Len(q) + 1 /\ q1[Len(q) + 1] = <<>>
          /\ \A n \in 1..Len(q) : q1[n] = q[n]
      BY <1>5, <1>6, AppendProperties
    <3>2. Len(q) = Len(s) - 2 /\ Len(q) + 1 = Len(s) - 1
      BY <1>1, <1>5
    <3> QED BY <3>1, <3>2
  <2> HIDE DEF q1
  <2>2. /\ q2 \in Seq(Seq(Bytes)) /\ Len(q2) = Len(s) /\ q2[Len(s)] = <<"CR">>
        /\ \A n \in 1..Len(s) - 1 : q2[n] = q1[n]
    <3>1. /\ q2 \in Seq(Seq(Bytes)) /\ Len(q2) = Len(q1) + 1 /\ q2[Len(q1) + 1] = <<"CR">>
          /\ \A n \in 1..Len(q1) : q2[n] = q1[n]
      BY <1>6, <2>1, AppendProperties
    <3>2. Len(q1) + 1 = Len(s)
      BY <1>1, <2>1
    <3> QED BY <2>1, <3>1, <3>2
  <2> HIDE DEF q2
  <2>3. /\ p2 \in Seq(Seq(Bytes)) /\ Len(p2) = Len(s) + 1 /\ p2[Len(s) + 1] = <<"LF">>
        /\ \A n \in 1..Len(s) : p2[n] = q2[n]
    BY <1>6, <2>2, AppendProperties
  <2> HIDE DEF p2
  <2>4. /\ Len(s) \in 1..Len(s) /\ Len(s) - 1 \in 1..Len(s) - 1 /\ Len(s) - 1 \in 1..Len(s)
        /\ \A n \in 1..Len(s) - 2 : n \in 1..Len(s) - 1 /\ n \in 1..Len(s)
    BY <1>1, <1>2
  <2>5. /\ p2[Len(s)] = <<"CR">> /\ p2[Len(s) - 1] = <<>>
        /\ \A n \in 1..Len(s) - 2 : p2[n] = p[n]
    BY <1>5, <2>1, <2>2, <2>3, <2>4
  <2>6. \A n \in 1..Len(s) + 1 :
            n = Len(s) + 1 \/ n = Len(s) \/ n = Len(s) - 1 \/ n \in 1..Len(s) - 2
    BY <1>1
  <2>7. \A n \in 1..Len(s) + 1 : Pieces(t)[n] = p2[n]
    BY <1>4, <2>3, <2>5, <2>6
  <2>8. Pieces(t) = p2
    BY <1>4, <2>3, <2>7, SeqEqual
  <2> QED BY <2>8 DEF p2, q2, q1
<1>9. FlattenSeq(p) = Append(Append(FlattenSeq(q), "dot"), "CR")
  <2>1. Append(q, <<"dot">>) \in Seq(Seq(Bytes)) /\ {"dot", "CR"} \subseteq Bytes
    BY <1>5, <1>6 DEF Bytes
  <2> QED BY <1>5, <1>7, <2>1, FlattenAppendOne
<1>10. FlattenSeq(Pieces(t)) = Append(Append(FlattenSeq(q), "CR"), "LF")
  <2>1. /\ Append(q, <<>>) \in Seq(Seq(Bytes))
        /\ Append(Append(q, <<>>), <<"CR">>) \in Seq(Seq(Bytes))
        /\ {"LF", "CR"} \subseteq Bytes
    BY <1>5, <1>6 DEF Bytes
  <2>2. FlattenSeq(Append(q, <<>>)) = FlattenSeq(q)
    BY <1>5, <1>6, FlattenAppend, FlattenType, NoMore
  <2>3. /\ FlattenSeq(Append(Append(q, <<>>), <<"CR">>))
            = Append(FlattenSeq(Append(q, <<>>)), "CR")
        /\ FlattenSeq(Append(Append(Append(q, <<>>), <<"CR">>), <<"LF">>))
            = Append(FlattenSeq(Append(Append(q, <<>>), <<"CR">>)), "LF")
    BY <2>1, FlattenAppendOne
  <2> QED BY <1>8, <2>2, <2>3
<1>11. FlattenSeq(q) \in Seq(Bytes)
  BY <1>5, FlattenType
<1> QED BY <1>9, <1>10, <1>11 DEF Plain, p, t

LEMMA EscapeEnds ==
    ASSUME TextInv, state # "Eof", NEW b \in Bytes
    PROVE  EndsEscape(Append(sent, b)) <=> IsDot(b)
<1> DEFINE t == Append(sent, b)
<1>1. /\ sent \in Seq(Bytes) /\ t \in Seq(Bytes) /\ Len(t) = Len(sent) + 1 /\ Len(sent) \in Nat
      /\ t[Len(t)] = b /\ \A n \in 1..Len(sent) : t[n] = sent[n]
  BY DEF TextInv
<1> HIDE DEF t
<1>2. EndsEscape(t) <=> EndsCrLfDotDotCr /\ b = "LF"
  <2>1. CASE Len(sent) < 5
    <3>1. ~ (Len(t) >= 6) /\ ~ (Len(sent) >= 5)
      BY <1>1, <2>1
    <3>2. ~ EndsEscape(t)
      BY <3>1, ZenonT(20) DEF EndsEscape
    <3>3. ~ EndsCrLfDotDotCr
      BY <3>1, ZenonT(20) DEF EndsCrLfDotDotCr
    <3> QED BY <3>2, <3>3
  <2>2. CASE Len(sent) >= 5
    <3> DEFINE m == Len(sent)
    <3>0. /\ m \in Nat /\ m >= 5 /\ Len(t) = m + 1
          /\ Len(t) - 5 = m - 4 /\ Len(t) - 4 = m - 3 /\ Len(t) - 3 = m - 2
          /\ Len(t) - 2 = m - 1 /\ Len(t) - 1 = m - 0
          /\ m - 4 \in 1..m /\ m - 3 \in 1..m /\ m - 2 \in 1..m
          /\ m - 1 \in 1..m /\ m - 0 \in 1..m
      BY <1>1, <2>2
    <3>00. \A n \in 1..m : t[n] = sent[n]
      BY <1>1
    <3> HIDE DEF m
    <3>1. /\ t[Len(t) - 5] = sent[m - 4] /\ t[Len(t) - 4] = sent[m - 3]
          /\ t[Len(t) - 3] = sent[m - 2] /\ t[Len(t) - 2] = sent[m - 1]
          /\ t[Len(t) - 1] = sent[m - 0]
      BY <3>0, <3>00, ZenonT(20)
    <3>2. Len(t) >= 6
      BY <1>1, <2>2
    <3>3. t[Len(t)] = b
      BY <1>1
    <3> QED BY <2>2, <3>1, <3>2, <3>3, ZenonT(30) DEF EndsEscape, EndsCrLfDotDotCr, Back, m
  <2> QED BY <1>1, <2>1, <2>2
<1>3. EndsCrLfDotDotCr <=> state = "CrLfDotDotCr"
  BY DEF TextInv, Matched
<1> QED BY <1>2, <1>3 DEF IsDot, t

LEMMA Joins ==
    /\ \A s \in Seq(Bytes) : s \o <<>> = s
    /\ \A s \in Seq(Bytes), x \in Bytes : Append(s, x) = s \o <<x>>
    /\ \A s \in Seq(Bytes), x, y \in Bytes : Append(Append(s, x), y) = s \o <<x, y>>
<1>1. \A s \in Seq(Bytes) : s \o <<>> = s
  OBVIOUS
<1>2. \A s \in Seq(Bytes), x \in Bytes : Append(s, x) = s \o <<x>>
  OBVIOUS
<1>3. \A s \in Seq(Bytes), x, y \in Bytes : Append(Append(s, x), y) = s \o <<x, y>>
  OBVIOUS
<1> QED BY <1>1, <1>2, <1>3

LEMMA Cancels ==
    ASSUME NEW s \in Seq(Bytes), NEW t \in Seq(Bytes), NEW x \in Bytes, NEW y \in Bytes,
           Append(s, x) = Append(t, y)
    PROVE  s = t
<1>1. Len(Append(s, x)) = Len(s) + 1 /\ Len(Append(t, y)) = Len(t) + 1
  OBVIOUS
<1>2. Len(s) = Len(t) /\ Len(s) \in Nat
  BY <1>1
<1>3. /\ \A i \in 1..Len(s) : Append(s, x)[i] = s[i]
      /\ \A i \in 1..Len(t) : Append(t, y)[i] = t[i]
  OBVIOUS
<1>4. \A i \in 1..Len(s) : s[i] = t[i]
  BY <1>2, <1>3
<1> QED BY <1>2, <1>4, SeqEqual

\* A byte that does not complete an escaped line is emitted or held back.
LEMMA ByteKept ==
    ASSUME state \in States \ {"Eof"}, out \in Seq(Bytes), NEW b \in Bytes,
           Keep(b) \/ End(b) \/ Flush(b)
    PROVE  out' \o HeldBack' = Append(out \o HeldBack, b)
<1>1. HeldBack = AsBytes[state] /\ AsBytes[state] \in Seq(Bytes)
  BY HeldLength DEF HeldBack
<1>2. CASE Keep(b)
  <2>1. PICK s \in States : <<state, b, s>> \in Silent /\ state' = s /\ out' = out
    BY <1>2 DEF Keep
  <2>2. \/ state = "Start" /\ b = "CR" /\ s = "Cr"
        \/ state = "Cr" /\ b = "LF" /\ s = "CrLf"
        \/ state = "CrLf" /\ b = "dot" /\ s = "CrLfDot"
        \/ state = "CrLfDot" /\ b = "CR" /\ s = "CrLfDotCr"
        \/ state = "CrLfDot" /\ b = "dot" /\ s = "CrLfDotDot"
        \/ state = "CrLfDotDot" /\ b = "CR" /\ s = "CrLfDotDotCr"
    BY <2>1 DEF Silent
  <2>3. HeldBack = AsBytes[state] /\ HeldBack' = AsBytes[s]
    BY <1>1, <2>1, <2>2 DEF HeldBack
  <2>4. CASE state = "Start" /\ b = "CR" /\ s = "Cr"
    <3>1. HeldBack = <<>> /\ HeldBack' = <<"CR">>
      BY <2>3, <2>4 DEF AsBytes
    <3>2. out \o <<"CR">> = Append(out \o <<>>, "CR")
      BY <1>1, Joins DEF Bytes
    <3> QED BY <2>1, <2>4, <3>1, <3>2
  <2>5. CASE state = "Cr" /\ b = "LF" /\ s = "CrLf"
    <3>1. HeldBack = <<"CR">> /\ HeldBack' = <<"CR", "LF">>
      BY <2>3, <2>5 DEF AsBytes
    <3>2. out \o <<"CR", "LF">> = Append(out \o <<"CR">>, "LF")
      BY <1>1 DEF Bytes
    <3> QED BY <2>1, <2>5, <3>1, <3>2
  <2>6. CASE state = "CrLf" /\ b = "dot" /\ s = "CrLfDot"
    <3>1. HeldBack = <<"CR", "LF">> /\ HeldBack' = <<"CR", "LF", "dot">>
      BY <2>3, <2>6 DEF AsBytes
    <3>2. out \o <<"CR", "LF", "dot">> = Append(out \o <<"CR", "LF">>, "dot")
      BY <1>1 DEF Bytes
    <3> QED BY <2>1, <2>6, <3>1, <3>2
  <2>7. CASE state = "CrLfDot" /\ b = "CR" /\ s = "CrLfDotCr"
    <3>1. HeldBack = <<"CR", "LF", "dot">> /\ HeldBack' = <<"CR", "LF", "dot", "CR">>
      BY <2>3, <2>7 DEF AsBytes
    <3>2. out \o <<"CR", "LF", "dot", "CR">> = Append(out \o <<"CR", "LF", "dot">>, "CR")
      BY <1>1 DEF Bytes
    <3> QED BY <2>1, <2>7, <3>1, <3>2
  <2>8. CASE state = "CrLfDot" /\ b = "dot" /\ s = "CrLfDotDot"
    <3>1. HeldBack = <<"CR", "LF", "dot">> /\ HeldBack' = <<"CR", "LF", "dot", "dot">>
      BY <2>3, <2>8 DEF AsBytes
    <3>2. out \o <<"CR", "LF", "dot", "dot">> = Append(out \o <<"CR", "LF", "dot">>, "dot")
      BY <1>1 DEF Bytes
    <3> QED BY <2>1, <2>8, <3>1, <3>2
  <2>9. CASE state = "CrLfDotDot" /\ b = "CR" /\ s = "CrLfDotDotCr"
    <3>1. HeldBack = <<"CR", "LF", "dot", "dot">> /\ HeldBack' = <<"CR", "LF", "dot", "dot", "CR">>
      BY <2>3, <2>9 DEF AsBytes
    <3>2. out \o <<"CR", "LF", "dot", "dot", "CR">> = Append(out \o <<"CR", "LF", "dot", "dot">>, "CR")
      BY <1>1 DEF Bytes
    <3> QED BY <2>1, <2>9, <3>1, <3>2
  <2> QED BY <2>2, <2>4, <2>5, <2>6, <2>7, <2>8, <2>9
<1>3. CASE End(b)
  <2>1. /\ out' = out \o <<"CR", "LF">> /\ state' = "Eof" /\ state = "CrLfDotCr" /\ b = "LF"
    BY <1>3 DEF End, IsEnd
  <2>2. HeldBack = <<"CR", "LF", "dot", "CR">> /\ HeldBack' = <<"dot", "CR", "LF">>
    BY <1>1, <2>1 DEF HeldBack, AsBytes
  <2>3. (out \o <<"CR", "LF">>) \o <<"dot", "CR", "LF">>
           = Append(out \o <<"CR", "LF", "dot", "CR">>, "LF")
    BY DEF Bytes
  <2> QED BY <2>1, <2>2, <2>3
<1>4. CASE Flush(b)
  <2> DEFINE all == out \o AsBytes[state]
  <2>1. all \in Seq(Bytes) /\ all = out \o HeldBack
    BY <1>1
  <2>2. IF b = "CR" THEN state' = "Cr" /\ out' = all
        ELSE state' = "Start" /\ out' = Append(all, b)
    BY <1>4 DEF Flush
  <2> HIDE DEF all
  <2>3. CASE b = "CR"
    <3>1. HeldBack' = <<"CR">>
      BY <2>2, <2>3 DEF HeldBack, AsBytes
    <3> QED BY <2>1, <2>2, <2>3, <3>1, Joins
  <2>4. CASE b # "CR"
    <3>1. HeldBack' = <<>> /\ Append(all, b) \in Seq(Bytes)
      BY <2>1, <2>2, <2>4 DEF HeldBack, AsBytes
    <3> QED BY <2>1, <2>2, <2>4, <3>1, Joins
  <2> QED BY <2>3, <2>4
<1> QED BY <1>2, <1>3, <1>4

LEMMA AdvanceTransparent ==
    ASSUME TextInv, Transparent, NEW b \in Bytes, Advance(b)
    PROVE  Transparent'
<1>1. /\ state \in States \ {"Eof"} /\ out \in Seq(Bytes) /\ sent \in Seq(Bytes)
      /\ sent' = Append(sent, b)
      /\ Keep(b) \/ Unescape(b) \/ End(b) \/ Flush(b)
  BY DEF TextInv, Advance, Reading
<1>2. Plain(sent) = out \o HeldBack /\ Unescaped' = Plain(Append(sent, b))
  BY <1>1, UnescapedIsPlain DEF Transparent, Unescaped, Plain, Pieces, IsEscape, EscapeAt
<1>3. CASE IsDot(b)
  <2>1. /\ out' = out \o <<"CR", "LF", "dot">> /\ state' = "CrLf"
        /\ state = "CrLfDotDotCr" /\ b = "LF"
    BY <1>1, <1>3 DEF Unescape, IsDot, Keep, Silent, End, IsEnd, Flush
  <2>2. HeldBack = <<"CR", "LF", "dot", "dot", "CR">> /\ HeldBack' = <<"CR", "LF">>
    BY <2>1 DEF HeldBack, AsBytes
  <2>3. PICK rest \in Seq(Bytes) :
           /\ Plain(sent) = Append(Append(rest, "dot"), "CR")
           /\ Plain(Append(sent, "LF")) = Append(Append(rest, "CR"), "LF")
    BY <1>1, <1>3, <2>1, EscapeEnds, PlainLoses
  <2>4. out \o <<"CR", "LF", "dot", "dot", "CR">>
           = Append(Append(out \o <<"CR", "LF", "dot">>, "dot"), "CR")
    BY <1>1 DEF Bytes
  <2>5. {"CR", "dot", "LF"} \subseteq Bytes /\ out \o <<"CR", "LF", "dot">> \in Seq(Bytes)
    BY <1>1 DEF Bytes
  <2> DEFINE start == out \o <<"CR", "LF", "dot">>
  <2>6. start \in Seq(Bytes) /\ Append(Append(start, "dot"), "CR") = Append(Append(rest, "dot"), "CR")
    BY <1>2, <2>2, <2>3, <2>4, <2>5
  <2>7. out' = start
    BY <2>1
  <2> HIDE DEF start
  <2>8. Append(start, "dot") \in Seq(Bytes) /\ Append(rest, "dot") \in Seq(Bytes)
    BY <2>3, <2>5, <2>6
  <2>9. Append(start, "dot") = Append(rest, "dot")
    BY <2>5, <2>6, <2>8, Cancels
  <2>10. start = rest
    <3>1. start \in Seq(Bytes) /\ rest \in Seq(Bytes) /\ "dot" \in Bytes
      BY <2>5, <2>6
    <3> QED BY <2>9, <3>1, Cancels
  <2>11. Append(Append(rest, "CR"), "LF") = rest \o <<"CR", "LF">>
    BY <2>3, <2>5, Joins
  <2> QED BY <1>2, <2>1, <2>2, <2>3, <2>7, <2>10, <2>11 DEF Transparent
<1>4. CASE ~ IsDot(b)
  <2>1. out' \o HeldBack' = Append(out \o HeldBack, b)
    BY <1>1, <1>4, ByteKept DEF Unescape
  <2>2. Plain(Append(sent, b)) = Append(Plain(sent), b)
    BY <1>1, <1>4, EscapeEnds, PlainGrows
  <2> QED BY <1>2, <2>1, <2>2 DEF Transparent
<1> QED BY <1>3, <1>4

LEMMA NewTransparent ==
    ASSUME state = "Start", sent = <<>>, out = <<>>
    PROVE  Transparent
<1>1. Pieces(<<>>) = <<>>
  BY DEF Pieces
<1>2. Unescaped = <<>>
  BY <1>1, UnescapedIsPlain, FlattenNothing DEF Plain
<1>3. HeldBack = <<>>
  BY DEF HeldBack, AsBytes
<1> QED BY <1>2, <1>3 DEF Transparent

LEMMA SameTransparent ==
    ASSUME Transparent, UNCHANGED <<state, sent, out>>
    PROVE  Transparent'
BY DEF Transparent, HeldBack, Unescaped, IsEscape

LEMMA TakeTransparent ==
    ASSUME Transparent, NEW next, TakeCommand(next)
    PROVE  Transparent'
<1>1. CASE NewText
  <2>1. /\ state' = "Start" /\ sent' = <<>> /\ out' = <<>>
    BY <1>1 DEF NewText
  <2>2. HeldBack' = <<>>
    BY <2>1 DEF HeldBack, AsBytes
  <2>3. Pieces(<<>>) = <<>>
    BY DEF Pieces
  <2>4. Unescaped' = Plain(<<>>)
    BY <2>1 DEF Unescaped, Plain, Pieces, IsEscape, EscapeAt
  <2> QED BY <2>1, <2>2, <2>3, <2>4, FlattenNothing DEF Transparent, Plain
<1>2. CASE UNCHANGED vars
  BY <1>2, SameTransparent DEF vars
<1> QED BY <1>1, <1>2 DEF TakeCommand

LEMMA TransparentStep ==
    ASSUME TextInv, Transparent, [ReaderNext]_readerVars
    PROVE  Transparent'
<1>1. CASE \E b \in Bytes : CommandByte(b)
  BY <1>1, TakeTransparent DEF CommandByte
<1>2. CASE \E b \in Bytes : TextByte(b)
  BY <1>2, AdvanceTransparent DEF TextByte
<1>3. CASE CommandEof
  BY <1>3, TakeTransparent DEF CommandEof
<1>4. CASE TextEof
  BY <1>4, SameTransparent DEF TextEof, StreamEnds
<1>5. CASE TextCrowded \/ TextTaken \/ ReaderStops \/ UNCHANGED readerVars
  BY <1>5, SameTransparent DEF TextCrowded, TextTaken, ReaderStops, readerVars, vars
<1> QED BY <1>1, <1>2, <1>3, <1>4, <1>5 DEF ReaderNext

-----------------------------------------------------------------------------
(* A line is taken whole *)

\* How the input changes in a step, and the frames.
Reads == input' = input \/ \E x \in Bytes : input' = Append(input, x)

Takes == frames' = frames \/ \E frame \in Frames : frames' = Append(frames, frame)

LEMMA ReadsAndTakes ==
    ASSUME LineInv, TextInv, [ReaderNext]_readerVars
    PROVE  Reads /\ Takes
<1>1. CASE \E b \in Bytes : CommandByte(b)
  <2>1. PICK b \in Bytes : CommandByte(b)
    BY <1>1
  <2> DEFINE line == Append(buf, b)
  <2>2. /\ input' = Append(input, b) /\ TakeCommand("line")
        /\ Lines!Return(line) \/ (buf' = line /\ UNCHANGED returned)
    BY <2>1 DEF CommandByte, Lines!ReadByte
  <2>5. line \in Seq(Bytes) /\ line # <<>>
    BY DEF LineInv
  <2> HIDE DEF line
  <2>3. CASE Lines!Return(line)
    <3>1. frames' = Append(frames, [kind |-> "line", bytes |-> line])
      BY <2>2, <2>3, <2>5, LineReturned
    <3>2. [kind |-> "line", bytes |-> line] \in Frames
      BY <2>5 DEF Frames
    <3> QED BY <2>2, <3>1, <3>2 DEF Reads, Takes
  <2>4. CASE returned' = returned
    BY <2>2, <2>4 DEF TakeCommand, Reads, Takes
  <2> QED BY <2>2, <2>3, <2>4
<1>2. CASE \E b \in Bytes : TextByte(b)
  BY <1>2 DEF TextByte, Reads, Takes
<1>3. CASE CommandEof
  <2>1. CASE buf = <<>>
    BY <1>3, <2>1 DEF CommandEof, TakeCommand, reader, Reads, Takes
  <2>2. CASE buf # <<>>
    <3>1. buf \in Seq(Bytes) /\ Lines!Return(buf) /\ TakeCommand("line") /\ input' = input
      BY <1>3, <2>2 DEF CommandEof, Lines!ReadEof, LineInv
    <3>2. frames' = Append(frames, [kind |-> "line", bytes |-> buf])
      BY <2>2, <3>1, LineReturned
    <3>3. [kind |-> "line", bytes |-> buf] \in Frames
      BY <3>1 DEF Frames
    <3> QED BY <3>1, <3>2, <3>3 DEF Reads, Takes
  <2> QED BY <2>1, <2>2
<1>4. CASE TextTaken
  <2>1. [kind |-> "text", bytes |-> sent] \in Frames
    BY DEF TextInv, Frames
  <2> QED BY <1>4, <2>1 DEF TextTaken, Reads, Takes
<1>5. CASE TextEof \/ TextCrowded \/ ReaderStops \/ UNCHANGED readerVars
  BY <1>5 DEF TextEof, TextCrowded, ReaderStops, readerVars, Reads, Takes
<1> QED BY <1>1, <1>2, <1>3, <1>4, <1>5 DEF ReaderNext

\* What is written stays written.
LEMMA InputStays ==
    ASSUME LineInv, Reads
    PROVE  /\ Len(input) \in Nat /\ Len(input') \in Nat
           /\ \A i \in 1 .. Len(input) : i \in 1 .. Len(input') /\ input'[i] = input[i]
<1>1. input \in Seq(Bytes)
  BY DEF LineInv
<1>2. CASE input' = input
  BY <1>1, <1>2
<1>3. CASE \E x \in Bytes : input' = Append(input, x)
  BY <1>1, <1>3
<1> QED BY <1>2, <1>3 DEF Reads

LEMMA PartStays ==
    ASSUME LineInv, Reads, NEW b \in 1 .. Len(input), NEW a \in 1 .. b
    PROVE  SubSeq(input', a, b) = SubSeq(input, a, b)
<1> DEFINE s == SubSeq(input, a, b)
<1> DEFINE t == SubSeq(input', a, b)
<1>1. /\ input \in Seq(Bytes) /\ input' \in Seq(Bytes)
      /\ a \in Nat /\ a >= 1 /\ b \in Nat /\ a <= b + 1
      /\ b <= Len(input) /\ b <= Len(input')
  <2>1. input \in Seq(Bytes) /\ b \in 1 .. Len(input')
    BY InputStays DEF LineInv
  <2>2. input' \in Seq(Bytes)
    BY <2>1 DEF Reads
  <2> QED BY <2>1, <2>2
<1>2. /\ s \in Seq(Bytes) /\ Len(s) = (b - a) + 1
      /\ \A k \in 1 .. (b - a) + 1 : s[k] = input[(a + k) - 1]
  BY <1>1, Part
<1>3. /\ t \in Seq(Bytes) /\ Len(t) = (b - a) + 1
      /\ \A k \in 1 .. (b - a) + 1 : t[k] = input'[(a + k) - 1]
  BY <1>1, Part
<1>4. \A k \in 1 .. (b - a) + 1 : (a + k) - 1 \in 1 .. Len(input)
  BY <1>1
<1>5. \A k \in 1 .. (b - a) + 1 : input'[(a + k) - 1] = input[(a + k) - 1]
  BY <1>4, InputStays
<1> HIDE DEF s, t
<1>6. Len(t) = Len(s) /\ \A k \in 1 .. Len(t) : t[k] = s[k]
  BY <1>2, <1>3, <1>5
<1>7. t = s
  BY <1>2, <1>3, <1>6, SeqEqual
<1> QED BY <1>7 DEF s, t

LEMMA FramesStay ==
    ASSUME LineInv, Takes, NEW k \in DOMAIN frames
    PROVE  k \in DOMAIN frames' /\ frames'[k] = frames[k] /\ Before(k)' = Before(k)
<1>1. frames \in Seq(Frames) /\ DOMAIN frames = 1 .. Len(frames) /\ Len(frames) \in Nat
  BY DEF LineInv
<1>2. \A n \in 1 .. Len(frames) : n \in DOMAIN frames' /\ frames'[n] = frames[n]
  <2>1. CASE frames' = frames
    BY <1>1, <2>1
  <2>2. CASE \E frame \in Frames : frames' = Append(frames, frame)
    BY <1>1, <2>2
  <2> QED BY <2>1, <2>2 DEF Takes
<1>3. [n \in 1 .. k - 1 |-> frames'[n].bytes] = [n \in 1 .. k - 1 |-> frames[n].bytes]
  <2>1. \A n \in 1 .. k - 1 : n \in 1 .. Len(frames)
    BY <1>1
  <2>2. \A n \in 1 .. k - 1 : frames'[n].bytes = frames[n].bytes
    BY <1>2, <2>1
  <2> QED BY <2>2
<1> QED BY <1>1, <1>2, <1>3 DEF Before

\* A new frame begins behind what was taken before it.
LEMMA NewFrame ==
    ASSUME LineInv, NEW frame \in Frames, frames' = Append(frames, frame),
           NEW k, k = Len(frames) + 1
    PROVE  k \in DOMAIN frames' /\ frames'[k] = frame /\ Before(k)' = Len(Taken)
<1>1. /\ frames \in Seq(Frames) /\ DOMAIN frames = 1 .. Len(frames) /\ Len(frames) \in Nat
      /\ k \in DOMAIN frames' /\ frames'[k] = frame
      /\ \A n \in 1 .. Len(frames) : frames'[n] = frames[n]
      /\ k - 1 = Len(frames)
  BY DEF LineInv
<1>2. [n \in 1 .. k - 1 |-> frames'[n].bytes] = [n \in DOMAIN frames |-> frames[n].bytes]
  BY <1>1
<1> QED BY <1>1, <1>2 DEF Taken, Before

LEMMA InFrameStays ==
    ASSUME LineInv, Reads, Takes, NEW b \in 1 .. Len(input), NEW a \in 1 .. b,
           NEW k \in DOMAIN frames, InFrame(k, a, b)
    PROVE  k \in DOMAIN frames' /\ InFrame(k, a, b)'
<1>1. k \in DOMAIN frames' /\ frames'[k] = frames[k] /\ Before(k)' = Before(k)
  BY FramesStay
<1>2. SubSeq(input', a, b) = SubSeq(input, a, b)
  BY PartStays
<1> QED BY <1>1, <1>2 DEF InFrame

\* A line that is ended was a line that was not ended.
LEMMA LineWasOpen ==
    ASSUME LineInv, NEW x \in Bytes, input' = Append(input, x), NEW b, b = Len(input')
    PROVE  /\ input \in Seq(Bytes) /\ Len(input) \in Nat /\ b = Len(input) + 1
           /\ \A a \in 1 .. b : IsLine(a, b)' => IsOpen(a) /\ x = "LF"
           /\ x # "LF" => \A a \in 1 .. Len(input') + 1 :
                              IsOpen(a)' => a \in 1 .. Len(input) + 1 /\ IsOpen(a)
           /\ x = "LF" => \A a \in 1 .. Len(input') + 1 : IsOpen(a)' => a = Len(input') + 1
<1>1. /\ input \in Seq(Bytes) /\ Len(input) \in Nat /\ Len(input') = Len(input) + 1
      /\ input'[Len(input) + 1] = x
      /\ \A i \in 1 .. Len(input) : input'[i] = input[i]
  BY DEF LineInv
<1>2. ASSUME NEW a \in 1 .. Len(input) + 1, a = 1 \/ input'[a - 1] = "LF"
      PROVE  a = 1 \/ input[a - 1] = "LF"
  <2>1. a = 1 \/ a - 1 \in 1 .. Len(input)
    BY <1>1
  <2> QED BY <1>1, <1>2, <2>1
<1>3. ASSUME NEW a \in 1 .. b, IsLine(a, b)' PROVE IsOpen(a) /\ x = "LF"
  <2>1. /\ \A i \in a .. b - 1 : input'[i] # "LF"
        /\ a = 1 \/ input'[a - 1] = "LF"
        /\ input'[b] = "LF"
    BY <1>3 DEF IsLine
  <2>2. \A i \in a .. Len(input) : i \in a .. b - 1 /\ i \in 1 .. Len(input)
    BY <1>1
  <2> QED BY <1>1, <1>2, <2>1, <2>2 DEF IsOpen
<1>4. ASSUME x # "LF", NEW a \in 1 .. Len(input') + 1, IsOpen(a)'
      PROVE  a \in 1 .. Len(input) + 1 /\ IsOpen(a)
  <2>1. /\ a = 1 \/ input'[a - 1] = "LF"
        /\ \A i \in a .. Len(input) + 1 : input'[i] # "LF"
    BY <1>1, <1>4 DEF IsOpen
  <2>2. a # Len(input) + 2
    BY <1>1, <1>4, <2>1
  <2>3. a \in 1 .. Len(input) + 1
    BY <1>1, <2>2
  <2>4. \A i \in a .. Len(input) : i \in a .. Len(input) + 1 /\ i \in 1 .. Len(input)
    BY <1>1, <2>3
  <2> QED BY <1>1, <1>2, <2>1, <2>3, <2>4 DEF IsOpen
<1>5. ASSUME x = "LF", NEW a \in 1 .. Len(input') + 1, IsOpen(a)' PROVE a = Len(input') + 1
  <2>1. \A i \in a .. Len(input) + 1 : input'[i] # "LF"
    BY <1>1, <1>5 DEF IsOpen
  <2> QED BY <1>1, <1>5, <2>1
<1> QED BY <1>1, <1>3, <1>4, <1>5

\* The reader's step.
LEMMA CommandByteInStep ==
    ASSUME LineInv, InStep, NEW x \in Bytes, CommandByte(x)
    PROVE  InStep'
<1> DEFINE line == Append(buf, x)
<1>1. /\ mode = "line" /\ closed = FALSE /\ closed' = FALSE /\ ended = FALSE
      /\ input' = Append(input, x) /\ TakeCommand("line")
      /\ buf \in Seq(Bytes) /\ Len(buf) \in Nat /\ Limit \in Nat
  BY LimitAssumption DEF CommandByte, LineInv, InStep, TypeOK
<1>2. line \in Seq(Bytes) /\ line # <<>> /\ Len(line) = Len(buf) + 1
  BY <1>1
<1>3. /\ Len(input) \in Nat /\ Len(input') = Len(input) + 1
      /\ x # "LF" => \A a \in 1 .. Len(input') + 1 :
                         IsOpen(a)' => a \in 1 .. Len(input) + 1 /\ IsOpen(a)
      /\ x = "LF" => \A a \in 1 .. Len(input') + 1 : IsOpen(a)' => a = Len(input') + 1
  BY <1>1, LineWasOpen
<1>4. \A a \in 1 .. Len(input) + 1 : IsOpen(a) =>
         Len(input) - a + 1 >= Limit \/ a = Len(input) - Len(buf) + 1
  BY <1>1 DEF InStep
<1>5. ended' = FALSE
  BY <1>1 DEF TakeCommand, NewText, vars
<1>6. CASE x = "LF" \/ Len(line) = Limit
  <2>1. Lines!Return(line)
    BY <1>6 DEF CommandByte, Lines!ReadByte
  <2> HIDE DEF line
  <2>2. buf' = <<>> /\ mode' \in {"text", "line"}
    BY <1>1, <1>2, <2>1, LineReturned
  <2>3. mode' = "text" => sent' = <<>>
    BY <1>1 DEF TakeCommand, NewText
  <2>4. ASSUME NEW a \in 1 .. Len(input') + 1, IsOpen(a)'
        PROVE  \/ Len(input') - a + 1 >= Limit
               \/ mode' = "line" /\ a = Len(input') - Len(buf') + 1
               \/ mode' = "text" /\ a > Len(input') - Len(sent')
    <3>1. Len(input') - a + 1 >= Limit \/ a = Len(input') + 1
      <4>1. CASE x = "LF"
        BY <1>3, <2>4, <4>1
      <4>2. CASE x # "LF"
        <5>1. /\ a \in 1 .. Len(input) + 1
              /\ Len(input) - a + 1 >= Limit \/ a = Len(input) - Len(buf) + 1
          BY <1>3, <1>4, <2>4, <4>2
        <5> QED BY <1>1, <1>2, <1>3, <1>6, <4>2, <5>1
      <4> QED BY <4>1, <4>2
    <3>2. Len(<<>>) = 0
      OBVIOUS
    <3> QED BY <1>3, <2>2, <2>3, <3>1, <3>2
  <2> QED BY <1>5, <2>4 DEF InStep
<1>7. CASE ~ (x = "LF" \/ Len(line) = Limit)
  <2>1. buf' = line /\ returned' = returned
    BY <1>7 DEF CommandByte, Lines!ReadByte
  <2>2. mode' = "line"
    BY <1>1, <2>1 DEF TakeCommand
  <2> HIDE DEF line
  <2>3. ASSUME NEW a \in 1 .. Len(input') + 1, IsOpen(a)'
        PROVE  \/ Len(input') - a + 1 >= Limit
               \/ mode' = "line" /\ a = Len(input') - Len(buf') + 1
    <3>1. /\ a \in 1 .. Len(input) + 1
          /\ Len(input) - a + 1 >= Limit \/ a = Len(input) - Len(buf) + 1
      BY <1>3, <1>4, <1>7, <2>3
    <3>2. Len(buf') = Len(buf) + 1
      BY <1>2, <2>1 DEF line
    <3> QED BY <1>1, <1>3, <2>2, <3>1, <3>2
  <2> QED BY <1>5, <2>3 DEF InStep
<1> QED BY <1>6, <1>7

LEMMA TextByteInStep ==
    ASSUME LineInv, TextInv, InStep, NEW x \in Bytes, TextByte(x)
    PROVE  InStep'
<1>1. /\ mode = "text" /\ mode' = "text" /\ closed = FALSE /\ closed' = FALSE
      /\ ended = FALSE /\ ended' = FALSE
      /\ input' = Append(input, x) /\ sent' = Append(sent, x)
  BY DEF TextByte, Advance, Reading, LineInv, TextInv
<1>2. /\ sent \in Seq(Bytes) /\ Len(sent) \in Nat /\ Len(sent') = Len(sent) + 1
      /\ Limit \in Nat
  BY <1>1, LimitAssumption DEF TextInv
<1>3. /\ Len(input) \in Nat /\ Len(input') = Len(input) + 1
      /\ x # "LF" => \A a \in 1 .. Len(input') + 1 :
                         IsOpen(a)' => a \in 1 .. Len(input) + 1 /\ IsOpen(a)
      /\ x = "LF" => \A a \in 1 .. Len(input') + 1 : IsOpen(a)' => a = Len(input') + 1
  BY <1>1, LineWasOpen
<1>4. \A a \in 1 .. Len(input) + 1 : IsOpen(a) =>
         Len(input) - a + 1 >= Limit \/ a > Len(input) - Len(sent)
  BY <1>1 DEF InStep
<1>5. ASSUME NEW a \in 1 .. Len(input') + 1, IsOpen(a)'
      PROVE  Len(input') - a + 1 >= Limit \/ a > Len(input') - Len(sent')
  <2>1. CASE x = "LF"
    BY <1>2, <1>3, <1>5, <2>1
  <2>2. CASE x # "LF"
    <3>1. /\ a \in 1 .. Len(input) + 1
          /\ Len(input) - a + 1 >= Limit \/ a > Len(input) - Len(sent)
      BY <1>3, <1>4, <1>5, <2>2
    <3> QED BY <1>2, <1>3, <3>1
  <2> QED BY <2>1, <2>2
<1> QED BY <1>1, <1>5 DEF InStep

\* A text ends with a line end, so no line is open behind it.
LEMMA TextTakenInStep ==
    ASSUME LineInv, TextInv, ReadOnce, InStep, TextTaken
    PROVE  InStep'
<1>1. /\ mode = "text" /\ mode' = "line" /\ (state = "Eof" \/ ended)
      /\ UNCHANGED <<input, closed, buf, ended>> /\ buf = <<>>
      /\ input = Taken \o sent /\ sent \in Seq(Bytes) /\ Taken \in Seq(Bytes)
      /\ input \in Seq(Bytes) /\ closed \in BOOLEAN
  BY TakenType DEF TextTaken, vars, reader, LineInv, TextInv, ReadOnce, Current
<1>2. CASE closed = TRUE
  BY <1>1, <1>2 DEF InStep
<1>3. CASE closed = FALSE
  <2>1. state = "Eof"
    BY <1>1, <1>3 DEF InStep
  <2>2. sent # <<>> /\ Len(sent) \in 1 .. Len(sent) /\ Mark(sent, Len(sent))
    <3>1. sent # <<>>
      BY <2>1 DEF TextInv
    <3>2. Len(sent) \in 1 .. Len(sent)
      BY <1>1, <3>1
    <3> QED BY <2>1, <3>1, <3>2 DEF TextInv
  <2>3. /\ Len(input) \in Nat /\ Len(input) = Len(Taken) + Len(sent)
        /\ input[Len(Taken) + Len(sent)] = sent[Len(sent)]
        /\ Len(Taken) + Len(sent) \in 1 .. Len(input)
    BY <1>1, <2>2, ConcatAt
  <2>4. Len(input) \in 1 .. Len(input) /\ input[Len(input)] = "LF"
    BY <2>2, <2>3 DEF Mark
  <2>5. ASSUME NEW a \in 1 .. Len(input') + 1, IsOpen(a)'
        PROVE  a = Len(input') - Len(buf') + 1
    <3>1. \A i \in a .. Len(input) : input[i] # "LF"
      BY <1>1, <2>5 DEF IsOpen
    <3>2. a = Len(input) + 1
      BY <1>1, <2>3, <2>4, <3>1
    <3>3. Len(buf') = 0
      BY <1>1
    <3> QED BY <1>1, <2>3, <3>2, <3>3
  <2>6. ended' => closed'
    BY <1>1 DEF InStep
  <2> QED BY <1>1, <2>5, <2>6 DEF InStep
<1> QED BY <1>1, <1>2, <1>3

LEMMA InStepStep ==
    ASSUME LineInv, TextInv, ReadOnce, InStep, [ReaderNext]_readerVars
    PROVE  InStep'
<1>1. CASE \E b \in Bytes : CommandByte(b)
  BY <1>1, CommandByteInStep
<1>2. CASE \E b \in Bytes : TextByte(b)
  BY <1>2, TextByteInStep
<1>3. CASE CommandEof \/ TextEof
  BY <1>3 DEF CommandEof, TextEof, InStep
<1>4. CASE TextTaken
  BY <1>4, TextTakenInStep
<1>5. CASE TextCrowded \/ ReaderStops \/ UNCHANGED readerVars
  <2>1. UNCHANGED <<input, closed, mode, buf, sent, ended>>
    BY <1>5 DEF TextCrowded, ReaderStops, readerVars, reader, vars
  <2> QED BY <2>1 DEF InStep, IsOpen
<1> QED BY <1>1, <1>2, <1>3, <1>4, <1>5 DEF ReaderNext

\* A line that was whole stays whole: its frame stays, or its text becomes one.
LEMMA WholeStays ==
    ASSUME LineInv, TextInv, ReadOnce, LinesWhole, [ReaderNext]_readerVars,
           NEW b \in 1 .. Len(input), NEW a \in 1 .. b, IsLine(a, b)', b - a < Limit
    PROVE  \/ \E k \in DOMAIN frames' : InFrame(k, a, b)'
           \/ mode' = "text" /\ Len(input') - Len(sent') < a
<1>1. /\ Reads /\ Takes /\ input \in Seq(Bytes) /\ Len(input) \in Nat
      /\ DOMAIN input = 1 .. Len(input)
  BY ReadsAndTakes DEF LineInv
<1>2. IsLine(a, b)
  <2>1. \A i \in 1 .. Len(input) : input'[i] = input[i]
    BY <1>1, InputStays
  <2>2. a = 1 \/ a - 1 \in 1 .. Len(input)
    BY <1>1
  <2>3. \A i \in a .. b - 1 : i \in 1 .. Len(input)
    BY <1>1
  <2> QED BY <2>1, <2>2, <2>3 DEF IsLine
<1>3. \/ \E k \in DOMAIN frames : InFrame(k, a, b)
      \/ mode = "text" /\ Len(input) - Len(sent) < a
  BY <1>1, <1>2 DEF LinesWhole
<1>4. CASE \E k \in DOMAIN frames : InFrame(k, a, b)
  BY <1>1, <1>4, InFrameStays
<1>5. CASE mode = "text" /\ Len(input) - Len(sent) < a
  <2>1. CASE \E x \in Bytes : TextByte(x)
    <3>1. PICK x \in Bytes : TextByte(x)
      BY <2>1
    <3>2. /\ mode' = mode /\ input' = Append(input, x) /\ sent' = Append(sent, x)
          /\ sent \in Seq(Bytes)
      BY <3>1 DEF TextByte, Advance, TextInv
    <3>3. Len(input') = Len(input) + 1 /\ Len(sent') = Len(sent) + 1 /\ Len(sent) \in Nat
      BY <1>1, <3>2
    <3> QED BY <1>1, <1>5, <3>2, <3>3
  <2>2. CASE TextTaken
    <3> DEFINE frame == [kind |-> "text", bytes |-> sent]
    <3>1. /\ frames' = Append(frames, frame) /\ sent \in Seq(Bytes) /\ frame \in Frames
          /\ frame.kind = "text" /\ frame.bytes = sent
      BY <2>2 DEF TextTaken, TextInv, Frames
    <3> HIDE DEF frame
    <3>2. PICK k : k = Len(frames) + 1
      OBVIOUS
    <3>3. k \in DOMAIN frames' /\ frames'[k] = frame /\ Before(k)' = Len(Taken)
      BY <3>1, <3>2, NewFrame
    <3>4. Len(input) = Len(Taken) + Len(sent) /\ Len(Taken) \in Nat /\ Len(sent) \in Nat
      BY <1>5, <3>1, TakenType, ConcatAt DEF ReadOnce, Current
    <3>5. Len(Taken) < a /\ b <= Len(Taken) + Len(sent)
      BY <1>1, <1>5, <3>4
    <3>6. InFrame(k, a, b)'
      BY <3>1, <3>3, <3>5 DEF InFrame
    <3> QED BY <3>3, <3>6
  <2>3. CASE TextEof \/ TextCrowded \/ ReaderStops \/ UNCHANGED readerVars
    <3>1. UNCHANGED <<input, mode, sent>>
      BY <2>3 DEF TextEof, StreamEnds, TextCrowded, ReaderStops, readerVars, vars
    <3> QED BY <1>5, <3>1
  <2>4. ~ CommandEof /\ \A x \in Bytes : ~ CommandByte(x)
    BY <1>5 DEF CommandEof, CommandByte
  <2> QED BY <2>1, <2>2, <2>3, <2>4 DEF ReaderNext
<1> QED BY <1>3, <1>4, <1>5

\* The line that the byte x ends.
LEMMA WholeAtEnd ==
    ASSUME LineInv, TextInv, ReadOnce, InStep, NEW x \in Bytes, NEW b \in Nat, NEW a \in 1 .. b,
           CommandByte(x) \/ TextByte(x), b = Len(input'), IsLine(a, b)', b - a < Limit
    PROVE  \/ \E k \in DOMAIN frames' : InFrame(k, a, b)'
           \/ mode' = "text" /\ Len(input') - Len(sent') < a
<1>1. input' = Append(input, x) /\ closed = FALSE
  BY DEF CommandByte, TextByte, LineInv
<1>2. /\ input \in Seq(Bytes) /\ Len(input) \in Nat /\ b = Len(input) + 1
      /\ IsOpen(a) /\ x = "LF" /\ Limit \in Nat
  BY <1>1, LineWasOpen, LimitAssumption
<1>3. \/ mode = "line" /\ a = Len(input) - Len(buf) + 1
      \/ mode = "text" /\ a > Len(input) - Len(sent)
  <2>1. ~ (Len(input) - a + 1 >= Limit)
    BY <1>2
  <2> QED BY <1>1, <1>2, <2>1 DEF InStep
<1>4. CASE mode = "line" /\ a = Len(input) - Len(buf) + 1
  <2> DEFINE line == Append(buf, x)
  <2>1. /\ line \in Seq(Bytes) /\ line # <<>> /\ Len(line) = Len(buf) + 1
        /\ Len(buf) \in Nat /\ buf \in Seq(Bytes)
    <3>1. buf \in Seq(Bytes)
      BY DEF LineInv
    <3>2. line \in Seq(Bytes) /\ Len(line) = Len(buf) + 1 /\ Len(buf) \in Nat
      BY <3>1
    <3>3. line # <<>>
      BY <3>1
    <3> QED BY <3>1, <3>2, <3>3
  <2>2. /\ Lines!Return(line) /\ TakeCommand("line")
    BY <1>2, <1>4 DEF CommandByte, TextByte, Lines!ReadByte
  <2>3. /\ Taken \in Seq(Bytes) /\ input = Taken \o buf
    BY <1>4, TakenType DEF ReadOnce, Current
  <2>4. input' = Taken \o line
    BY <1>1, <2>1, <2>3, OneMoreByte
  <2> HIDE DEF line
  <2> DEFINE frame == [kind |-> "line", bytes |-> line]
  <2>5. /\ frames' = Append(frames, frame) /\ frame \in Frames
        /\ frame.kind = "line" /\ frame.bytes = line
    BY <2>1, <2>2, LineReturned DEF Frames
  <2> HIDE DEF frame
  <2>6. Len(input) = Len(Taken) + Len(buf) /\ Len(Taken) \in Nat /\ Len(Taken) = a - 1
    BY <1>4, <2>1, <2>3, ConcatAt
  <2>7. PICK k : k = Len(frames) + 1
    OBVIOUS
  <2>8. k \in DOMAIN frames' /\ frames'[k] = frame /\ Before(k)' = Len(Taken)
    BY <2>5, <2>7, NewFrame
  <2>9. SubSeq(input', a, b) = line
    <3>1. input' \in Seq(Bytes) /\ Len(input') = b /\ a \in Nat /\ a >= 1
      BY <1>1, <1>2
    <3>2. (a + Len(line)) - 1 = b
      BY <1>2, <2>1, <2>6
    <3>3. \A j \in 1 .. Len(line) : input'[Len(Taken) + j] = line[j]
      BY <2>1, <2>3, <2>4, ConcatAt
    <3>4. \A j \in 1 .. Len(line) : (a + j) - 1 = Len(Taken) + j
      BY <2>1, <2>6
    <3>5. Holds(input', a, line)
      BY <3>3, <3>4 DEF Holds
    <3>6. (a + Len(line)) - 1 <= Len(input')
      BY <3>1, <3>2
    <3>7. SubSeq(input', a, (a + Len(line)) - 1) = line
      BY <2>1, <3>1, <3>5, <3>6, PartIs
    <3> QED BY <3>2, <3>7
  <2>10. InFrame(k, a, b)'
    BY <2>5, <2>6, <2>8, <2>9 DEF InFrame
  <2> QED BY <2>8, <2>10
<1>5. CASE mode = "text" /\ a > Len(input) - Len(sent)
  <2>1. TextByte(x) /\ sent \in Seq(Bytes)
    BY <1>5 DEF CommandByte, TextInv
  <2>2. mode' = "text" /\ sent' = Append(sent, x)
    BY <1>5, <2>1 DEF TextByte, Advance
  <2>3. Len(sent') = Len(sent) + 1 /\ Len(sent) \in Nat /\ Len(input') = Len(input) + 1
    BY <1>1, <1>2, <2>1, <2>2
  <2> QED BY <1>2, <1>5, <2>2, <2>3
<1> QED BY <1>3, <1>4, <1>5

LEMMA WholeStep ==
    ASSUME LineInv, TextInv, ReadOnce, InStep, LinesWhole, [ReaderNext]_readerVars
    PROVE  LinesWhole'
<1> SUFFICES ASSUME NEW b \in DOMAIN input', NEW a \in 1 .. b, IsLine(a, b)', b - a < Limit
             PROVE  \/ \E k \in DOMAIN frames' : InFrame(k, a, b)'
                    \/ mode' = "text" /\ Len(input') - Len(sent') < a
  BY DEF LinesWhole
<1>1. Reads /\ input \in Seq(Bytes) /\ Len(input) \in Nat
  BY ReadsAndTakes DEF LineInv
<1>2. CASE b \in 1 .. Len(input)
  BY <1>2, WholeStays
<1>3. CASE b \notin 1 .. Len(input)
  <2>1. input' # input
    BY <1>1, <1>3
  <2>2. PICK x \in Bytes : CommandByte(x) \/ TextByte(x)
    BY <2>1 DEF ReaderNext, CommandEof, TextEof, TextTaken, TextCrowded, ReaderStops, readerVars
  <2>3. input' = Append(input, x)
    BY <2>2 DEF CommandByte, TextByte
  <2>4. b \in Nat /\ b = Len(input')
    BY <1>1, <1>3, <2>3
  <2> QED BY <2>2, <2>4, WholeAtEnd
<1> QED BY <1>2, <1>3

-----------------------------------------------------------------------------
(* Theorems *)

ReaderInv == TextInv /\ LineInv /\ ReadOnce /\ Transparent /\ InStep /\ LinesWhole

LEMMA ReaderInvInit ==
    ASSUME ReaderInit
    PROVE  ReaderInv
<1>1. TextInv
  BY NewTextInv DEF ReaderInit, Init
<1>2. LineInv
  <2>1. /\ input = <<>> /\ closed = FALSE /\ mode \in {"line", "text"}
        /\ buf = <<>> /\ returned = <<>> /\ frames = <<>>
    BY DEF ReaderInit, Lines!Init
  <2>2. Len(buf) < Limit
    BY <2>1, NoBytes, LimitAssumption
  <2>3. <<>> \in Seq(Frames) /\ DOMAIN <<>> = {}
    OBVIOUS
  <2>4. /\ input \in Seq(Bytes) /\ closed \in BOOLEAN /\ mode \in {"line", "text", "over"}
    BY <2>1, NoBytes
  <2>5. closed \/ mode = "text" => buf = <<>>
    BY <2>1
  <2> QED BY <2>1, <2>2, <2>3, <2>4, <2>5, NoBytes DEF LineInv
<1>3. ReadOnce
  <2>1. frames = <<>> /\ input = <<>> /\ buf = <<>> /\ sent = <<>>
    BY DEF ReaderInit, Init, Lines!Init
  <2>2. Taken = <<>>
    BY <2>1, FlattenNothing DEF Taken
  <2>3. <<>> \o <<>> = <<>>
    OBVIOUS
  <2> QED BY <2>1, <2>2, <2>3 DEF ReadOnce, Current
<1>4. Transparent
  BY NewTransparent DEF ReaderInit, Init
<1>5. InStep /\ LinesWhole
  <2>1. /\ input = <<>> /\ sent = <<>> /\ buf = <<>> /\ mode \in {"line", "text"}
        /\ ended = FALSE /\ Len(<<>>) = 0 /\ DOMAIN <<>> = {}
    BY DEF ReaderInit, Init, Lines!Init
  <2> QED BY <2>1 DEF InStep, LinesWhole
<1> QED BY <1>1, <1>2, <1>3, <1>4, <1>5 DEF ReaderInv

LEMMA ReaderInvariant == ReaderSpec => []ReaderInv
<1>1. ReaderInv /\ [ReaderNext]_readerVars => ReaderInv'
  BY TextStep, LineStep, OnceStep, TransparentStep, InStepStep, WholeStep DEF ReaderInv
<1> QED BY ReaderInvInit, <1>1, PTL DEF ReaderSpec

LEMMA HeldNat ==
    ASSUME NEW s \in States
    PROVE  Held[s] \in Nat
BY DEF Held, States, AsBytes

\* The state stays within its types, and advance never emits more than it
\* was fed.
THEOREM ReaderTypes == ReaderSpec => []ReaderTypeOK
<1>1. ReaderInv => ReaderTypeOK
  <2> SUFFICES ASSUME ReaderInv PROVE ReaderTypeOK
    OBVIOUS
  <2>1. Len(out) <= Len(sent)
    BY HeldNat DEF ReaderInv, TextInv
  <2> QED BY <2>1 DEF ReaderInv, TextInv, LineInv, ReaderTypeOK, TypeOK
<1> QED BY ReaderInvariant, <1>1, PTL

\* In every text, however long and wherever on the connection it begins, the
\* automaton is at its end exactly behind the first CR LF . CR LF.
THEOREM MessageEnds == ReaderSpec => []EofAtFirstMark
<1>1. \A n \in Nat : EndsAt(n, EndMark) <=> Mark(sent, n)
  BY DEF EndsAt, EndMark, Mark
<1>2. ReaderInv => EofAtFirstMark
  <2> SUFFICES ASSUME ReaderInv, NEW n \in 0..Len(sent)
               PROVE  EndsAt(n, EndMark) <=> (state = "Eof" /\ n = Len(sent))
    BY DEF EofAtFirstMark
  <2>1. CASE n = 0
    BY <1>1, <2>1 DEF Mark, ReaderInv, TextInv
  <2>2. CASE n # 0
    BY <1>1, <2>2 DEF ReaderInv, TextInv
  <2> QED BY <2>1, <2>2
<1> QED BY ReaderInvariant, <1>2, PTL

\* put_slice never panics, if no caller polls with room for exactly five bytes.
THEOREM RoomIsEnough == ReaderSpec => []RoomSuffices
<1>1. ReaderInv => RoomSuffices
  BY DEF ReaderInv, TextInv, RoomSuffices
<1> QED BY ReaderInvariant, <1>1, PTL

\* Between the readers of lines and of texts no byte is lost or read twice, on
\* a connection with any number of lines and texts.
THEOREM EveryByteReadOnce == ReaderSpec => []ReadOnce
<1>1. ReaderInv => ReadOnce
  BY DEF ReaderInv
<1> QED BY ReaderInvariant, <1>1, PTL

\* A text of any length comes out as it was sent, but for the second dot of
\* every line but the first that is two dots, and for the mark at its end.
THEOREM TextUnchanged == ReaderSpec => []Transparent
<1>1. ReaderInv => Transparent
  BY DEF ReaderInv
<1> QED BY ReaderInvariant, <1>1, PTL

\* For any LINE_LIMIT and an input of any length, every line of the client
\* that the limit allows is one line of the reader, or within one text: what
\* comes before it, cut lines and texts included, does not shift it.
THEOREM LinesStayWhole == ReaderSpec => []LinesWhole
<1>1. ReaderInv => LinesWhole
  BY DEF ReaderInv
<1> QED BY ReaderInvariant, <1>1, PTL
=============================================================================
