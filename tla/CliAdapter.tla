----------------------------- MODULE CliAdapter -----------------------------
(***************************************************************************)
(* The CLI adapter (adapters/cli.py): one thread that reads the user's     *)
(* task, then the events of the queue that the worker's sink fills, and    *)
(* the user's replies, which it waits for.                                 *)
(***************************************************************************)
EXTENDS SessionWorker, Sequences

VARIABLES
    events,         \* _events
    at              \* reads a task, events or a reply, stops its session, has left

cli == <<events, at>>
cliVars == <<workerVars, cli>>

CliInit == WorkerInit /\ events = <<>> /\ at = "task"

\* get_task and start_task; an empty text and a refusal ask again.
ReadTask ==
    /\ at = "task"
    /\ StartTask \/ StartFails
    /\ at' = "events"
    /\ UNCHANGED events

\* /quit, /exit or the end of the input instead of a task: run() returns.
QuitAtTask ==
    /\ at = "task" /\ at' = "left"
    /\ UNCHANGED <<workerVars, events>>

\* The sink is Queue.put.
PutEvent ==
    /\ Emitted
    /\ events' = Append(events, out)
    /\ UNCHANGED at

\* Mutant: the event stays in the queue until the reply has been read.
PeekEvent ==
    /\ at = "events" /\ events # <<>>
    /\ at' = IF Head(events) = "done" THEN "task" ELSE Head(events)
    /\ events' = IF Head(events) = "done" THEN Tail(events) ELSE events
    /\ UNCHANGED workerVars

\* Mutant: the loop over events does not end with the task.
ReadEventOn ==
    /\ at = "events" /\ events # <<>>
    /\ events' = Tail(events)
    /\ at' = IF Head(events) = "done" THEN "events" ELSE Head(events)
    /\ UNCHANGED workerVars

ReadEvent ==
    /\ at = "events" /\ events # <<>>
    /\ events' = Tail(events)
    /\ at' = IF Head(events) = "done" THEN "task" ELSE Head(events)
    /\ UNCHANGED workerVars

\* get_reply and submit_reply, whose result is not looked at
ReadReply(ok) ==
    /\ at \in Roles /\ at' = "events"
    /\ Submit(ok) \/ (~Answerable /\ UNCHANGED workerVars)
    /\ UNCHANGED events

QuitAtReply ==
    /\ at \in Roles /\ at' = "stop"
    /\ UNCHANGED <<workerVars, events>>

\* stop_session, and run() returns.
StopOwnSession ==
    /\ at = "stop" /\ at' = "left"
    /\ StopTask
    /\ UNCHANGED events

CliReads == ReadEvent \/ StopOwnSession

CliNext ==
    \/ ReadTask \/ QuitAtTask \/ QuitAtReply
    \/ \E ok \in BOOLEAN : ReadReply(ok)
    \/ CliReads
    \/ PutEvent
    \/ WorkerMoves /\ UNCHANGED cli

----------------------------------------------------------------------------
\* The reply that the user is asked for answers the prompt that waits.
CliReplyFits == at \in Roles => turn = at

\* When a task is read, no event of an earlier one is left to be taken for one
\* of the next.
NoStaleEvent == at = "task" => events = <<>> /\ turn = "idle" /\ out = "none"

=============================================================================
