----------------------------- MODULE ImapQueue -----------------------------
(***************************************************************************)
(* The queue of operations a session has handed out and not yet answered:  *)
(* crates/imap/src/server/queue.rs.                                        *)
(*                                                                         *)
(* Queue::insert records the tag of a command and returns a Channel, the   *)
(* only way to report the result of the operation; Channel::send consumes  *)
(* the Channel and puts the payload in a bounded mpsc channel;             *)
(* Queue::ready and Queue::wait take the next payload out and forget its   *)
(* tag, asserting that it was known.                                       *)
(*                                                                         *)
(* An element of Ops is one use of the queue, a record with a field tag:   *)
(* two elements may carry the same tag, as two commands of a client may.   *)
(***************************************************************************)
EXTENDS Naturals, Sequences, Functions

CONSTANTS
    Ops,        \* the operations that may be inserted
    Capacity    \* places of the mpsc channel (10 in Queue::new)

ASSUME CapacityAssumption == Capacity \in Nat \ {0}

VARIABLES
    commands,   \* keys of Queue.commands: tags of the commands in progress
    chan,       \* payloads sent and not yet received, oldest first
    open        \* operations whose Channel has not been consumed by a send

vars == <<commands, chan, open>>

OpTags == {op.tag : op \in Ops}

TypeOK ==
    /\ commands \subseteq OpTags
    /\ chan \in Seq(Ops)
    /\ Len(chan) <= Capacity
    /\ open \subseteq Ops

Init ==
    /\ commands = {}
    /\ chan = <<>>
    /\ open = {}

(***************************************************************************)
(* The operations of the queue.  HashMap::insert overwrites the entry of a *)
(* tag already there (the code only warns): the tag is then in the set     *)
(* once, for two operations.                                               *)
(***************************************************************************)
\* Mutant of MustWaitBefore: every command may overtake the others.
NeverWait == FALSE

MustWaitBefore == commands # {}

Insert(op) ==
    /\ commands' = commands \cup {op.tag}
    /\ open' = open \cup {op}
    /\ UNCHANGED chan

\* Mutants of Send: the channel has no bound; the Channel is not consumed.
SendUnbounded(op) ==
    /\ op \in open
    /\ chan' = Append(chan, op)
    /\ open' = open \ {op}
    /\ UNCHANGED commands

SendAgain(op) ==
    /\ op \in open
    /\ Len(chan) < Capacity
    /\ chan' = Append(chan, op)
    /\ UNCHANGED <<commands, open>>

\* mpsc::Sender::send waits until the channel has a free place.
Send(op) ==
    /\ op \in open
    /\ Len(chan) < Capacity
    /\ chan' = Append(chan, op)
    /\ open' = open \ {op}
    /\ UNCHANGED commands

\* Mutants of Recv: the tag is not forgotten; the newest payload comes first.
RecvRemembers ==
    /\ chan # <<>>
    /\ chan' = Tail(chan)
    /\ UNCHANGED <<commands, open>>

RecvNewest ==
    /\ chan # <<>>
    /\ chan' = SubSeq(chan, 1, Len(chan) - 1)
    /\ commands' = commands \ {chan[Len(chan)].tag}
    /\ UNCHANGED open

\* A successful try_recv of ready, or the recv of wait.
Recv ==
    /\ chan # <<>>
    /\ chan' = Tail(chan)
    /\ commands' = commands \ {Head(chan).tag}
    /\ UNCHANGED open

-----------------------------------------------------------------------------
(***************************************************************************)
(* The queue on its own, used under the contract its warning and its       *)
(* assertions state: the tag of a command in progress is not used again.   *)
(***************************************************************************)
InProgress == open \cup Range(chan)

InsertFresh(op) ==
    /\ op \notin InProgress
    /\ op.tag \notin commands
    /\ Insert(op)

Next ==
    \/ \E op \in Ops : InsertFresh(op) \/ Send(op)
    \/ Recv

(***************************************************************************)
(* The mpsc channel hands its places to waiting senders in the order they  *)
(* asked (tokio's semaphore is fair), so a sender does not wait for ever   *)
(* when places keep coming free: strong fairness of each Send.  The        *)
(* receiver keeps receiving: weak fairness of Recv.                        *)
(***************************************************************************)
Fairness ==
    /\ WF_vars(Recv)
    /\ \A op \in Ops : SF_vars(Send(op))

Spec == Init /\ [][Next]_vars /\ Fairness

-----------------------------------------------------------------------------
(* Properties *)

\* An operation is either still running or its payload is in the channel,
\* never both, and its payload is in the channel at most once.
NoneTwice ==
    /\ open \cap Range(chan) = {}
    /\ \A i, j \in DOMAIN chan : chan[i] = chan[j] => i = j

\* The tags remembered are those of the operations in progress, one tag for
\* each: what makes both assert!(.., "tag should be known") hold, and what
\* makes must_wait_before say no only when every answer has been taken.
Consistent ==
    /\ commands = {op.tag : op \in InProgress}
    /\ \A p, q \in InProgress : p.tag = q.tag => p = q

\* The payload about to be taken has a known tag (the assertions of ready
\* and wait).
TagKnown == chan # <<>> => Head(chan).tag \in commands

\* The answer of every operation is taken at some time.
Delivered == \A op \in Ops : op \in open ~> op \notin InProgress
=============================================================================
