----------------------------- MODULE MCListener -----------------------------
(* Both services of main, the one with several clients on each port. *)
EXTENDS Listener, TLC

CONSTANTS imap, smtp, p1, p2, t1, t2, q1, u1

MCServices == {imap, smtp}
MCPlain == (imap :> {p1, p2}) @@ (smtp :> {q1})
MCTls == (imap :> {t1, t2}) @@ (smtp :> {u1})
=============================================================================
