----------------------------- MODULE ImapDriver -----------------------------
(***************************************************************************)
(* handle_imap of src/main.rs: the task that owns a session and executes   *)
(* its operations.  Its loop selects between the next operation to finish  *)
(* and next_op; when an operation finishes first, the future of next_op is *)
(* dropped where it is suspended and next_op is called afresh.             *)
(***************************************************************************)
EXTENDS ImapSession

\* Mutant of CancelNextOp: the future is polled again where it was.
ResumeNextOp == UNCHANGED <<pc, held, line>>

\* Dropping the future loses its local variables: the buffer of read_cmd and
\* the command it has parsed.
CancelNextOp ==
    /\ pc' = "start"
    /\ held' = Nothing
    /\ line' = <<>>

\* operations::handle: list and select answer at once, with success, and
\* their payload is sent; fetch is todo!() and takes the task down.
OpFinishes(op) ==
    /\ task = "running"
    /\ op.kind \in {"examine", "list"}
    /\ Queue!Send(op)
    /\ CancelNextOp
    /\ UNCHANGED <<client, wire, stream, rbuf, greeted, state, outcome, task>>

OpPanics(op) ==
    /\ task = "running"
    /\ op \in open /\ op.kind = "fetch"
    /\ task' = "todo"
    /\ UNCHANGED <<client, conn, queue, greeted, state, pc, held, outcome>>

\* The else branch: next_op has returned None and no operation is left.
DriverFinish == open = {} /\ Finish

DriverNext ==
    \/ ClientStep
    \/ SessionStep
    \/ DriverFinish
    \/ NetworkStep
    \/ \E op \in Operations : OpFinishes(op) \/ OpPanics(op)
    \/ Over

\* The executor polls the task again and again, and select! polls its two
\* branches in random order: neither is starved.
DriverFairness ==
    /\ WF_vars(SessionStep)
    /\ WF_vars(HandshakeMustFail)
    /\ WF_vars(DriverFinish)
    /\ \A op \in Operations : WF_vars(OpFinishes(op) \/ OpPanics(op))

DriverSpec == Init /\ [][DriverNext]_vars /\ DriverFairness

-----------------------------------------------------------------------------
\* A command in progress is answered, or the session ends: the answer does
\* not wait for the client to send another line.
OpAnswered ==
    \A id \in Ids :
        (\E op \in Queue!InProgress : op.id = id) ~> outcome[id] # "none" \/ task # "running"

\* When the client goes away the task ends, wherever next_op is suspended and
\* whatever is in progress: no session is leaked.
ClosedEnds == closed ~> task # "running"

\* unreachable!() is unreachable (session.rs).
NeverUnreachable == task # "unreachable"

\* "buffer must be empty" (crates/line/src/lib.rs).
BufferAssertion == task # "buffer"
=============================================================================
