----------------------------- MODULE LineReader -----------------------------
(***************************************************************************)
(* read_line of crates/line/src/lib.rs, as crates/smtp/src/command.rs      *)
(* calls it: every call may read LINE_LIMIT bytes, and what it returns is  *)
(* taken for a line wherever it was cut.                                   *)
(***************************************************************************)
EXTENDS Naturals, Sequences

CONSTANT Limit      \* LINE_LIMIT

VARIABLES
    buf,        \* what the current call has read
    returned    \* what the calls before it have read, oldest first

Init == buf = <<>> /\ returned = <<>>

Return(line) == returned' = Append(returned, line) /\ buf' = <<>>

\* Mutants of ReadByte: the limit does not count the line end; the buffer is
\* not cleared for the next line.
ReadByteBelow(b) ==
    LET line == Append(buf, b) IN
        IF b = "LF" \/ Len(line) + 1 = Limit THEN Return(line)
        ELSE buf' = line /\ UNCHANGED returned

ReadByteUncleared(b) ==
    LET line == Append(buf, b) IN
        /\ buf' = line
        /\ IF b = "LF" \/ Len(line) = Limit THEN returned' = Append(returned, line)
           ELSE UNCHANGED returned

\* read_until on a Take: it stops behind a line end, or at the limit.
ReadByte(b) ==
    LET line == Append(buf, b) IN
        IF b = "LF" \/ Len(line) = Limit THEN Return(line)
        ELSE buf' = line /\ UNCHANGED returned

\* The stream ends: what was read is a line.
ReadEof == buf # <<>> /\ Return(buf)

\* All CR and LF are removed from the end, however many.
Trimmed(line) ==
    LET content == {i \in DOMAIN line : line[i] \notin {"CR", "LF"}} IN
        IF content = {} THEN <<>>
        ELSE SubSeq(line, 1, CHOOSE i \in content : \A j \in content : j <= i)
=============================================================================
