------------------------- MODULE CoordinatorEvents -------------------------
(***************************************************************************)
(* The Coordinator together with what its adapters meet of it: the event   *)
(* that a thread is handing to a session's sink, outside the lock, and the *)
(* user's answer to the plan shown last.  Both are added to the steps of   *)
(* Coordinator, none of which they change; each session is then a          *)
(* SessionWorker, the session that the adapters are checked with.          *)
(***************************************************************************)
EXTENDS Coordinator

VARIABLES
    out,        \* per session: the event that the sink has not been given yet
    consent     \* history: the user has approved the plan shown last in the task

seen == <<out, consent>>
eventVars == <<vars, seen>>

EventsInit ==
    /\ Init
    /\ out = [s \in Sessions |-> "none"]
    /\ consent = [s \in Sessions |-> FALSE]

Put(f, s, v) == [f EXCEPT ![s] = v]

----------------------------------------------------------------------------
(* The steps with which an adapter's view of a session changes             *)

\* The sink of the task has been called with the event; its exceptions are
\* ignored.
Emit(s) ==
    /\ out[s] # "none" /\ out' = Put(out, s, "none")
    /\ UNCHANGED <<vars, consent>>

\* The agent keeps its promise (Session): in review mode it asks about its
\* work only after its plan has been approved.
MaySay(s, event) == event = "clarification" /\ Review => consent[s]

TellPrompt(w) ==
    /\ HandlePrompt(w)
    /\ out' = Put(out, wsess[w], wevt[w])
    /\ consent' = IF wevt[w] = "plan" THEN Put(consent, wsess[w], FALSE) ELSE consent

\* What raises in the lock section is not emitted.
TellDone(s, outcome) ==
    /\ out' = IF outcome = "ok" THEN Put(out, s, "done") ELSE out
    /\ UNCHANGED consent

\* A thread that is in a sink does nothing else meanwhile.
WorkerTells(w) ==
    /\ Alive(w) => out[wsess[w]] = "none"
    /\ \/ \E e \in Roles \cup {"done"} :
             Receive(w, e) /\ MaySay(wsess[w], e) /\ UNCHANGED seen
       \/ TellPrompt(w)
       \/ \E o \in DoneOutcomes : HandleDone(w, o) /\ TellDone(wsess[w], o)
       \/ \E o \in ErrorOutcomes : ReportError(w, o) /\ TellDone(wsess[w], o)
       \/ /\ \/ ServeRequest(w) \/ ServeEnds(w) \/ ReceiveFails(w)
             \/ TakeReply(w) \/ SendReply(w) \/ SeeStop(w) \/ WorkerExit(w)
          /\ UNCHANGED seen

\* The user approves a plan, or does not; a clarification changes nothing.
Answer(t, s, ok) ==
    /\ SubmitReply(t, s)
    /\ consent' = IF pending[s] = "plan" THEN Put(consent, s, ok) ELSE consent
    /\ UNCHANGED out

CallerTells(t) ==
    \/ \E s \in Sessions, ok \in BOOLEAN : Answer(t, s, ok)
    \/ \E s \in Sessions : (StartRetiring(t, s) \/ StartTask(t, s)) /\ UNCHANGED seen
    \/ \E s \in Stoppable : StopSession(t, s) /\ UNCHANGED seen

\* The thread of a start that failed is in the sink before it starts another.
StarterTells(t) ==
    \/ \E w \in Workers :
          SendTask(t, w) /\ consent' = Put(consent, arg[t], FALSE) /\ UNCHANGED out
    \/ \E o \in ErrorOutcomes : ReportStartError(t, o) /\ TellDone(arg[t], o)
    \/ Admit(t) /\ out[arg[t]] = "none" /\ UNCHANGED seen
    \/ /\ \/ Refuse(t) \/ BootReuse(t) \/ BootFails(t) \/ SendTaskFails(t)
          \/ \E b \in Sandboxes : BootFresh(t, b)
          \/ \E w \in Workers : PutReply(t, w)
       /\ UNCHANGED seen

EventsNext ==
    \/ \E s \in Sessions : Emit(s)
    \/ \E w \in Workers : WorkerTells(w)
    \/ \E t \in Callers : CallerTells(t) \/ StarterTells(t)
    \/ /\ \/ \E t \in Threads : StopperStep(t)
          \/ StopAll \/ ClearAll \/ Reap
          \/ \E s \in Sessions : SeedState(s) \/ Age(s)
          \/ \E b \in Sandboxes : Crash(b)
       /\ UNCHANGED seen

EventsSpec == EventsInit /\ [][EventsNext]_eventVars

----------------------------------------------------------------------------
(* A session                                                               *)

TurnOf(s) ==
    IF pending[s] # "none" THEN pending[s]
    ELSE IF LiveWorker(s) /\ wpc[worker[s]] # "exit" THEN "agent" ELSE "idle"

\* A worker that its session's record does not know any more, and that has not
\* come to its end or has left a prompt pending
LeavingOf(s) ==
    \E w \in Workers :
        /\ Alive(w) /\ wsess[w] = s /\ worker[s] # w
        /\ wpc[w] # "exit" \/ pending[s] # "none"

SessionOf(s) == INSTANCE SessionWorker WITH
    turn <- TurnOf(s), consent <- consent[s],
    alive <- LiveWorker(s), leaving <- LeavingOf(s), out <- out[s]

\* Each session of the Coordinator is a SessionWorker: the turn that adapters
\* ask for (pending_role, submit_reply, start_task), the events that their
\* sinks are given and the worker's life keep the order that they rely on,
\* whatever retirements, reaper passes, stops and crashes come in between.
SessionsAreWorkers ==
    /\ \A s \in Sessions : SessionOf(s)!WorkerInit
    /\ [][\A s \in Sessions :
             [SessionOf(s)!WorkerNext]_(SessionOf(s)!workerVars)]_eventVars

=============================================================================
