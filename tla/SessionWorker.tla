--------------------------- MODULE SessionWorker ---------------------------
(***************************************************************************)
(* A session as an adapter meets it: the Coordinator (coordinator.py)      *)
(* changes the session's turn under its lock, its worker thread hands the  *)
(* event to the adapter's sink afterwards, and the thread lives on for a   *)
(* while when the task has ended.  A worker that is stopped may still hand *)
(* on an event or two.  What asks nothing and ends nothing (status and     *)
(* action events) is left out.  CoordinatorEvents shows that this is what  *)
(* the Coordinator does for each of its sessions.                          *)
(***************************************************************************)
EXTENDS Session

VARIABLES
    alive,          \* the thread of the record's worker
    leaving,        \* a stopped worker may still hand on an event
    out             \* the event that the sink has not been given yet, or "none"

worker == <<alive, leaving, out>>
workerVars == <<vars, worker>>

WorkerInit == Init /\ alive = FALSE /\ leaving = FALSE /\ out = "none"

\* start_task: a session whose worker is still alive, or is being stopped, is
\* "busy".
CanStart == ~alive /\ ~leaving
StartTask ==
    /\ CanStart /\ Start
    /\ alive' = TRUE
    /\ UNCHANGED <<leaving, out>>

\* The sandbox or the task's delivery fails: the caller reports the end of a
\* task that has had no worker, and is told "started".
StartFails ==
    /\ CanStart /\ turn = "idle" /\ out = "none"
    /\ out' = "done"
    /\ UNCHANGED <<vars, alive, leaving>>

\* _handle_worker_event, up to the sink: a prompt is pending ...
Asks ==
    /\ alive /\ out = "none"
    /\ AskPlan \/ AskClarification
    /\ out' = turn'
    /\ UNCHANGED <<alive, leaving>>

\* ... or the task has ended.
Ends ==
    /\ alive /\ out = "none"
    /\ Finish
    /\ out' = "done"
    /\ UNCHANGED <<alive, leaving>>

\* The sink has the event; the adapter says what it does with it.
Emitted == out # "none" /\ out' = "none" /\ UNCHANGED <<vars, alive, leaving>>

Exits ==
    /\ alive /\ turn = "idle" /\ out = "none"
    /\ alive' = FALSE
    /\ UNCHANGED <<vars, leaving, out>>

\* submit_reply: the record has a worker, and a role is pending.
Answerable == alive /\ turn \in Roles
Submit(ok) == Answerable /\ Reply(ok) /\ UNCHANGED worker

\* stop_session and stop_all end the task for the record ...
StopTask ==
    /\ turn' = "idle" /\ alive' = FALSE
    /\ leaving' = (leaving \/ (alive /\ turn # "idle"))
    /\ UNCHANGED <<consent, out>>

\* ... while its worker, until it sees the stop, may hand on one more event: a
\* prompt, which is then pending although nobody can answer it, ...
LatePrompt ==
    /\ leaving /\ turn = "idle" /\ out = "none"
    /\ \/ Review /\ turn' = "plan" /\ consent' = FALSE
       \/ (Review => consent) /\ turn' = "clarification" /\ UNCHANGED consent
    /\ out' = turn'
    /\ UNCHANGED <<alive, leaving>>

\* ... or the end of its task.
LateEnd ==
    /\ leaving /\ turn = "idle" /\ out = "none"
    /\ out' = "done" /\ leaving' = FALSE
    /\ UNCHANGED <<vars, alive>>

Leaves ==
    /\ leaving /\ out = "none"
    /\ turn' = "idle" /\ leaving' = FALSE
    /\ UNCHANGED <<consent, alive, out>>

WorkerMoves == Asks \/ Ends \/ Exits \/ LatePrompt \/ LateEnd \/ Leaves

----------------------------------------------------------------------------
\* Any adapter's session
WorkerNext ==
    \/ StartTask \/ StartFails \/ WorkerMoves \/ Emitted \/ StopTask
    \/ \E ok \in BOOLEAN : Submit(ok)

WorkerSpec == WorkerInit /\ [][WorkerNext]_workerVars

=============================================================================
