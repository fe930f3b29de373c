----------------------------- MODULE MCSmtpData -----------------------------
(* The readers of an SMTP connection on every input up to a length. *)
EXTENDS SmtpReader

\* One room without which poll_read waits, and the one it needs at most.
MCRooms == {4, 6}
=============================================================================
