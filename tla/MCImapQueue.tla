---------------------------- MODULE MCImapQueue ----------------------------
(* The queue with more operations than places, some with the same tag. *)
EXTENDS ImapQueue

CONSTANTS t1, t2, t3

MCOps == {[id |-> 1, tag |-> t1], [id |-> 2, tag |-> t2],
          [id |-> 3, tag |-> t3], [id |-> 4, tag |-> t1],
          [id |-> 5, tag |-> t2], [id |-> 6, tag |-> t3]}
=============================================================================
