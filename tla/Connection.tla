----------------------------- MODULE Connection -----------------------------
(***************************************************************************)
(* The connection both servers speak over: crates/line (lib.rs, stream.rs).*)
(* A BufReader around a stream that is plain, encrypted, or away while it  *)
(* is being upgraded.                                                      *)
(*                                                                         *)
(* What travels is a sequence of pieces, one per line or part of a line;   *)
(* each is a record whose field via says whether the client had encrypted  *)
(* it.  Reading a line is in the modules that use this one, because it is  *)
(* there that a reader may be dropped half-way.                            *)
(***************************************************************************)
EXTENDS Naturals, Sequences

VARIABLES
    wire,       \* sent and not yet read from the socket, oldest first
    rbuf,       \* the buffer of the BufReader
    stream      \* MaybeTls::inner

\* Connection::new: over a plain stream, or one that was encrypted when it was
\* accepted (MultiListener::with_tls).
Init == wire = <<>> /\ rbuf = <<>> /\ stream \in {"plain", "tls"}

\* The client encrypts what it sends once the handshake is complete.
SentVia == IF stream = "tls" THEN "tls" ELSE "plain"

Arrive(piece) ==
    /\ wire' = Append(wire, piece)
    /\ UNCHANGED <<rbuf, stream>>

\* fill_buf: some of what has arrived, and only when the buffer is empty.
Fill ==
    /\ rbuf = <<>>
    /\ \E n \in 1..Len(wire) :
          /\ rbuf' = SubSeq(wire, 1, n)
          /\ wire' = SubSeq(wire, n + 1, Len(wire))
    /\ UNCHANGED stream

\* Mutant of Take: the rest of the buffer goes with the line.
TakeAll ==
    /\ rbuf' = <<>>
    /\ UNCHANGED <<wire, stream>>

\* consume: the first piece of the buffer, if there is one.
Take ==
    /\ rbuf' = IF rbuf = <<>> THEN rbuf ELSE Tail(rbuf)
    /\ UNCHANGED <<wire, stream>>

\* Mutant of BufferEmpty: nothing is asserted.
BufferIgnored == TRUE

BufferEmpty == rbuf = <<>>

\* Connection::upgrade after its assertion: MaybeTls::upgrade leaves
\* Inner::Empty behind while it awaits the handshake.
StartUpgrade ==
    /\ stream' = "empty"
    /\ UNCHANGED <<wire, rbuf>>

\* The handshake succeeds when what the client sends is a handshake.
UpgradeOk ==
    /\ wire = <<>>
    /\ stream' = "tls"
    /\ UNCHANGED <<wire, rbuf>>

\* Otherwise the stream is reverted to plaintext.
UpgradeFails ==
    /\ stream' = "plain"
    /\ UNCHANGED <<wire, rbuf>>
=============================================================================
