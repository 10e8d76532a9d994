----------------------------- MODULE AgentLoop -----------------------------
(***************************************************************************)
(* A Fire guest's agent (agent/agent.py, agent/subagents.py) and the host  *)
(* worker that drives it, over the one event stream they share in each     *)
(* direction: tasks and replies to the guest, prompts and done events to   *)
(* the host, and between them the requests to host services and their      *)
(* answers (agent/broker_client.py, FireSandbox.receive).  The guest gives *)
(* up a request after a timeout; the host serves one request at a time and *)
(* answers it all the same.  A child agent runs in the parent's thread and *)
(* uses the parent's stream for its requests only.  Status and action      *)
(* events, which the worker only passes on, are left out; so are a stop    *)
(* and a failing stream, with which the session's guest ends.              *)
(***************************************************************************)
EXTENDS Naturals, Sequences, FiniteSets

CONSTANTS
    MaxIterations,  \* loop.max_iterations
    ChildIterations,\* max_iterations of a subagent
    MaxChildren,    \* subagents.max_children_per_task; 0: not enabled
    Attempts,       \* looks at the skills of a plan (3 in the code)
    Review,         \* approval_mode = "review"
    Ids,            \* request ids; one that is nowhere in use is fresh
    Backlog,        \* bound: how many requests the guest may leave unread
    None            \* Python's None

ASSUME AgentLoopAssumption ==
    /\ MaxIterations \in Nat \ {0} /\ ChildIterations \in Nat \ {0}
    /\ MaxChildren \in Nat /\ Attempts \in Nat \ {0} /\ Backlog \in Nat
    /\ Review \in BOOLEAN
    /\ None \notin Ids

VARIABLES
    toGuest, toHost,    \* the vsock stream, each direction
    host, serving,      \* the worker's stage; the request that it serves
    saved,              \* the plan in the session's latest state
    cur,                \* who runs in the guest: the parent or its child
    pc, phase,          \* stage of an agent; before or in its loop
    iter, errs, tries,  \* iteration, llm_runtime_error_count, attempts
    draft, plan,        \* the plan in planning; the plan of the task
    kids,               \* _subagent_children_spawned
    req                 \* the request that BrokerClient waits for

stream == <<toGuest, toHost>>
worker == <<host, serving, saved>>
locals == <<phase, iter, errs, tries, draft, plan>>
vars == <<stream, worker, cur, pc, locals, kids, req>>

Agents == {"parent", "child"}

\* approved: the user has approved it in the task that runs
Plans == [skills : {"known", "unknown"}, approved : BOOLEAN]

\* The events; a response's success is that of the service it comes from
Task(p) == [type |-> "task", plan |-> p]
Prompt(r) == [type |-> "message", role |-> r]
Reply(r, ok) == [type |-> "user_reply", role |-> r, approved |-> ok]
Done(p) == [type |-> "done", plan |-> p]
Request(r) == [type |-> "broker_request", id |-> r]
Response(r, ok) == [type |-> "broker_response", id |-> r, success |-> ok]

Init ==
    /\ toGuest = <<>> /\ toHost = <<>>
    /\ host = "idle" /\ serving = None /\ saved = None
    /\ cur = "parent" /\ kids = 0 /\ req = None
    /\ pc = [a \in Agents |-> "idle"]
    /\ phase = [a \in Agents |-> "start"]
    /\ iter = [a \in Agents |-> 0]
    /\ errs = [a \in Agents |-> 0]
    /\ tries = [a \in Agents |-> 0]
    /\ draft = [a \in Agents |-> None]
    /\ plan = [a \in Agents |-> None]

Put(f, a, v) == [f EXCEPT ![a] = v]
At(a, stage) == cur = a /\ pc[a] = stage
Goto(a, stage) == pc' = Put(pc, a, stage)

\* Mutant: the guest takes every task to be in approval mode "auto".
AsksNobody(a) == FALSE

\* A child's approval mode is "auto".
Asks(a) == Review /\ a = "parent"

Budget(a) == IF a = "parent" THEN MaxIterations ELSE ChildIterations

----------------------------------------------------------------------------
(* The host: _SessionWorker._run over FireSandbox.receive                  *)

\* Mutant: the follow-up task goes on with the plan of the task before it.
KeepPlan(p) == p

\* "preserves context while forcing re-planning"
StateForFollowUp(p) == None

StartTask ==
    /\ host = "idle"
    /\ host' = "recv"
    /\ toGuest' = Append(toGuest, Task(StateForFollowUp(saved)))
    /\ UNCHANGED <<toHost, serving, saved, cur, pc, locals, kids, req>>

\* The next event of the guest
Received(type) == host = "recv" /\ toHost # <<>> /\ Head(toHost).type = type

Serve ==
    /\ Received("broker_request")
    /\ host' = "serve" /\ serving' = Head(toHost).id
    /\ toHost' = Tail(toHost)
    /\ UNCHANGED <<toGuest, saved, cur, pc, locals, kids, req>>

Answer(ok) ==
    /\ host = "serve"
    /\ host' = "recv" /\ serving' = None
    /\ toGuest' = Append(toGuest, Response(serving, ok))
    /\ UNCHANGED <<toHost, saved, cur, pc, locals, kids, req>>

\* The roles for which the worker waits for the user
WaitsForReply(role) == role = "clarification" \/ (Review /\ role = "plan")

Show ==
    /\ Received("message")
    /\ host' = IF WaitsForReply(Head(toHost).role) THEN Head(toHost).role ELSE "recv"
    /\ toHost' = Tail(toHost)
    /\ UNCHANGED <<toGuest, serving, saved, cur, pc, locals, kids, req>>

UserReplies(ok) ==
    /\ host \in {"plan", "clarification"}
    /\ host' = "recv"
    /\ toGuest' = Append(toGuest, Reply(host, ok))
    /\ UNCHANGED <<toHost, serving, saved, cur, pc, locals, kids, req>>

\* The worker ends; the state of the done event is the next task's.
TaskDone ==
    /\ Received("done")
    /\ host' = "idle"
    /\ saved' = Head(toHost).plan
    /\ toHost' = Tail(toHost)
    /\ UNCHANGED <<toGuest, serving, cur, pc, locals, kids, req>>

----------------------------------------------------------------------------
(* BrokerClient._call_fire                                                 *)

\* Stages at which the agent calls a host service
CallStages == {"integrations", "plan", "prompt", "choose", "tool"}

Fresh(r) ==
    /\ r # serving
    /\ \A i \in DOMAIN toHost : toHost[i] # Request(r)
    /\ \A i \in DOMAIN toGuest, ok \in BOOLEAN : toGuest[i] # Response(r, ok)

Call(a, r) ==
    /\ cur = a /\ pc[a] \in CallStages
    /\ pc[a] = "prompt" => iter[a] < Budget(a)
    /\ req = None /\ Fresh(r)
    /\ Len(toHost) < Backlog
    /\ req' = r
    /\ toHost' = Append(toHost, Request(r))
    /\ UNCHANGED <<toGuest, worker, cur, pc, locals, kids>>

\* Any event but the answer is discarded, answers to earlier calls included.
Discard(a) ==
    /\ cur = a /\ req # None
    /\ toGuest # <<>> /\ \A ok \in BOOLEAN : Head(toGuest) # Response(req, ok)
    /\ toGuest' = Tail(toGuest)
    /\ UNCHANGED <<toHost, worker, cur, pc, locals, kids, req>>

\* Mutant: whatever answer comes is the answer.
ReturnsFirst(ok) ==
    /\ req # None /\ req' = None
    /\ \/ /\ toGuest # <<>> /\ Head(toGuest).type = "broker_response"
          /\ Head(toGuest).success = ok
          /\ toGuest' = Tail(toGuest)
       \/ /\ ~ok /\ toGuest = <<>>
          /\ UNCHANGED toGuest

\* The call returns its answer, or it has had nothing to read for too long.
Returns(ok) ==
    /\ req # None /\ req' = None
    /\ \/ /\ toGuest # <<>> /\ Head(toGuest) = Response(req, ok)
          /\ toGuest' = Tail(toGuest)
       \/ /\ ~ok /\ toGuest = <<>>
          /\ UNCHANGED toGuest

----------------------------------------------------------------------------
(* The agent                                                               *)

\* Mutant: a child has its parent's transport.
EmitAlways(a, events) == toHost' = toHost \o events

\* A child's transport is its own, and read by nobody until the child ends.
Emit(a, events) == toHost' = IF a = "parent" THEN toHost \o events ELSE toHost

\* An agent's locals are gone when it has no task.
Forget(a) ==
    /\ phase' = Put(phase, a, "start") /\ errs' = Put(errs, a, 0) /\ tries' = Put(tries, a, 0)
    /\ draft' = Put(draft, a, None) /\ plan' = Put(plan, a, None)
    /\ Goto(a, "idle")

\* The end of a task, with the events that the host gets.  A child's parent
\* observes the result and goes on to its next iteration.
End(a, events) ==
    /\ Forget(a)
    /\ Emit(a, events)
    /\ cur' = "parent"
    /\ iter' = IF a = "parent" THEN Put(iter, a, 0)
               ELSE [parent |-> iter["parent"] + 1, child |-> 0]

Finish(a, p) == End(a, <<Done(p)>>)

\* AgentError: caught in _run_task before the loop, by _run_task_guarded in it
Fail(a) == Finish(a, IF phase[a] = "start" THEN plan[a] ELSE None)

\* _resume_context: a plan of an earlier task, not approved in this one
Resumed(p) == IF p = None THEN None ELSE [p EXCEPT !.approved = FALSE]

\* run_forever and _run_task
TakeTask ==
    /\ At("parent", "idle") /\ req = None
    /\ toGuest # <<>> /\ Head(toGuest).type = "task"
    /\ Goto("parent", "integrations")
    /\ draft' = Put(draft, "parent", Resumed(Head(toGuest).plan))
    /\ plan' = Put(plan, "parent", Resumed(Head(toGuest).plan))
    /\ kids' = 0
    /\ toGuest' = Tail(toGuest)
    /\ UNCHANGED <<toHost, worker, cur, phase, iter, errs, tries, req>>

\* _wait_for_task_event and _wait_for_user_reply drop other events.
Drop ==
    /\ \/ At("parent", "idle") /\ req = None /\ toGuest # <<>> /\ Head(toGuest).type # "task"
       \/ /\ At("parent", "planReply") \/ At("parent", "clarifyReply")
          /\ toGuest # <<>> /\ Head(toGuest).type # "user_reply"
    /\ toGuest' = Tail(toGuest)
    /\ UNCHANGED <<toHost, worker, cur, pc, locals, kids, req>>

\* A failed call means no integrations.  A plan in the state is not made again.
IntegrationsLoaded(a, ok) ==
    /\ At(a, "integrations") /\ Returns(ok)
    /\ Goto(a, IF plan[a] = None THEN "plan" ELSE "activate")
    /\ UNCHANGED <<toHost, worker, cur, locals, kids>>

\* The plan that planning returns is the task's, unless it only replaces one
\* whose skills are unknown.
Accept(a, p) ==
    /\ draft' = Put(draft, a, p)
    /\ plan' = IF tries[a] = 0 THEN Put(plan, a, p) ELSE plan
    /\ Goto(a, "activate")

\* _planning_phase
PlanMade(a, skills) ==
    LET p == [skills |-> skills, approved |-> FALSE] IN
    /\ At(a, "plan") /\ Returns(TRUE)
    /\ Emit(a, <<Prompt("plan")>>)
    /\ errs' = Put(errs, a, 0)
    /\ IF Asks(a)
       THEN draft' = Put(draft, a, p) /\ Goto(a, "planReply") /\ UNCHANGED plan
       ELSE Accept(a, p)
    /\ UNCHANGED <<worker, cur, phase, iter, tries, kids>>

\* Mutant: planning is tried until it succeeds.
PlanFailsForever(a) ==
    /\ At(a, "plan") /\ Returns(FALSE)
    /\ UNCHANGED <<toHost, worker, cur, pc, locals, kids>>

PlanFails(a) ==
    /\ At(a, "plan") /\ Returns(FALSE)
    /\ IF errs[a] + 1 >= Budget(a)
       THEN Fail(a)
       ELSE /\ errs' = Put(errs, a, errs[a] + 1)
            /\ UNCHANGED <<toHost, cur, pc, phase, iter, tries, draft, plan>>
    /\ UNCHANGED <<worker, kids>>

\* The user's reply at the head of the stream
Replied(ok) ==
    /\ toGuest # <<>> /\ Head(toGuest).type = "user_reply" /\ Head(toGuest).approved = ok
    /\ toGuest' = Tail(toGuest)

\* The plan that the user has said yes to
Approved(p) == [p EXCEPT !.approved = TRUE]

PlanReply(ok) ==
    /\ At("parent", "planReply") /\ Replied(ok)
    /\ IF ok
       THEN Accept("parent", Approved(draft["parent"]))
       ELSE Goto("parent", "plan") /\ UNCHANGED <<draft, plan>>
    /\ UNCHANGED <<toHost, worker, cur, phase, iter, errs, tries, kids, req>>

\* _activate_referenced_skills; the loop begins or goes on.
Activate(a) ==
    /\ At(a, "activate") /\ tries[a] < Attempts
    /\ IF draft[a].skills = "known"
       THEN /\ plan' = Put(plan, a, draft[a])
            /\ draft' = Put(draft, a, None)
            /\ tries' = Put(tries, a, 0)
            /\ phase' = Put(phase, a, "loop")
            /\ iter' = IF phase[a] = "loop" THEN Put(iter, a, iter[a] + 1) ELSE iter
            /\ Goto(a, "prompt")
       ELSE /\ tries' = Put(tries, a, tries[a] + 1)
            /\ Goto(a, "plan")
            /\ UNCHANGED <<plan, draft, phase, iter>>
    /\ UNCHANGED <<stream, worker, cur, errs, kids, req>>

ActivationFails(a) ==
    /\ At(a, "activate") /\ tries[a] = Attempts
    /\ Fail(a)
    /\ UNCHANGED <<toGuest, worker, kids, req>>

\* One more iteration has been used up.
Observe(a) == iter' = Put(iter, a, iter[a] + 1) /\ Goto(a, "prompt")

\* build_execution_prompt counts tokens, and estimates them when it cannot.
\* One call stands for all that it makes.
PromptBuilt(a, ok) ==
    /\ At(a, "prompt") /\ Returns(ok)
    /\ Goto(a, "choose")
    /\ UNCHANGED <<toHost, worker, cur, locals, kids>>

\* The summary of the history, which is part of the prompt, fails.
SummaryFails(a) ==
    /\ At(a, "prompt") /\ Returns(FALSE)
    /\ Observe(a)
    /\ UNCHANGED <<toHost, worker, cur, phase, errs, tries, draft, plan, kids>>

\* An LLM error, a malformed decision or argument, a skill file, a local
\* tool, or an action that this agent does not have: an observation
Observation(a, ok) ==
    /\ At(a, "choose") /\ Returns(ok)
    /\ Observe(a)
    /\ UNCHANGED <<toHost, worker, cur, phase, errs, tries, draft, plan, kids>>

\* A tool that calls the broker
ChooseTool(a) ==
    /\ At(a, "choose") /\ Returns(TRUE)
    /\ Goto(a, "tool")
    /\ UNCHANGED <<toHost, worker, cur, locals, kids>>

ToolReturns(a, ok) ==
    /\ At(a, "tool") /\ Returns(ok)
    /\ Observe(a)
    /\ UNCHANGED <<toHost, worker, cur, phase, errs, tries, draft, plan, kids>>

ChooseDone(a) ==
    /\ At(a, "choose") /\ Returns(TRUE)
    /\ Finish(a, plan[a])
    /\ UNCHANGED <<worker, kids>>

ChooseReplan(a) ==
    /\ At(a, "choose") /\ Returns(TRUE)
    /\ Goto(a, "plan")
    /\ UNCHANGED <<toHost, worker, cur, locals, kids>>

\* agent_clarify; a child does not have it.
ChooseClarify ==
    /\ At("parent", "choose") /\ Returns(TRUE)
    /\ Emit("parent", <<Prompt("clarification")>>)
    /\ Goto("parent", "clarifyReply")
    /\ UNCHANGED <<worker, cur, locals, kids>>

ClarifyReply(ok) ==
    /\ At("parent", "clarifyReply") /\ Replied(ok)
    /\ Observe("parent")
    /\ UNCHANGED <<toHost, worker, cur, phase, errs, tries, draft, plan, kids, req>>

\* Mutant: max_children_per_task is not looked at.
SpawnAny ==
    /\ At("parent", "choose") /\ Returns(TRUE)
    /\ kids' = kids + 1
    /\ cur' = "child"
    /\ pc' = [parent |-> "prompt", child |-> "integrations"]
    /\ UNCHANGED <<toHost, worker, locals>>

\* spawn_subagent; a child does not have it.  The parent goes on when its
\* child has ended.
ChooseSpawn ==
    /\ At("parent", "choose") /\ Returns(TRUE)
    /\ kids < MaxChildren
    /\ kids' = kids + 1
    /\ cur' = "child"
    /\ pc' = [parent |-> "prompt", child |-> "integrations"]
    /\ UNCHANGED <<toHost, worker, locals>>

\* task_timeout_seconds, which a child has, at an iteration boundary: no done
ChildTimeout ==
    /\ At("child", "prompt") /\ req = None
    /\ End("child", <<>>)
    /\ UNCHANGED <<toGuest, worker, kids, req>>

\* Mutant: the limit is reported, and the task does not end.
LimitWithoutDone(a) ==
    /\ At(a, "prompt") /\ iter[a] = Budget(a)
    /\ End(a, <<Prompt("clarification")>>)
    /\ UNCHANGED <<toGuest, worker, kids, req>>

\* The loop ends without a decision to do so.
Limit(a) ==
    /\ At(a, "prompt") /\ iter[a] = Budget(a)
    /\ End(a, <<Prompt("clarification"), Done(plan[a])>>)
    /\ UNCHANGED <<toGuest, worker, kids, req>>

----------------------------------------------------------------------------
HostStep ==
    \/ Serve
    \/ \E ok \in BOOLEAN : Answer(ok)
    \/ Show
    \/ TaskDone

ParentStep ==
    \/ TakeTask
    \/ Drop
    \/ \E ok \in BOOLEAN : PlanReply(ok) \/ ClarifyReply(ok)
    \/ ChooseClarify
    \/ ChooseSpawn

AgentStep(a) ==
    \/ \E r \in Ids : Call(a, r)
    \/ Discard(a)
    \/ \E ok \in BOOLEAN : IntegrationsLoaded(a, ok)
    \/ \E s \in {"known", "unknown"} : PlanMade(a, s)
    \/ PlanFails(a)
    \/ Activate(a)
    \/ ActivationFails(a)
    \/ \E ok \in BOOLEAN : PromptBuilt(a, ok)
    \/ SummaryFails(a)
    \/ \E ok \in BOOLEAN : Observation(a, ok)
    \/ ChooseTool(a)
    \/ \E ok \in BOOLEAN : ToolReturns(a, ok)
    \/ ChooseDone(a)
    \/ ChooseReplan(a)
    \/ Limit(a)

GuestStep == ParentStep \/ ChildTimeout \/ \E a \in Agents : AgentStep(a)

Next ==
    \/ StartTask
    \/ \E ok \in BOOLEAN : UserReplies(ok)
    \/ HostStep
    \/ GuestStep

Spec == Init /\ [][Next]_vars

\* The guest's thread runs, and so does the worker's, except that nobody
\* makes the user reply or start a task.
Fairness == WF_vars(HostStep) /\ WF_vars(GuestStep)

----------------------------------------------------------------------------
(* Properties                                                              *)

Busy == pc["parent"] # "idle"
Count(s, type) == Cardinality({i \in DOMAIN s : s[i].type = type})
Waiting(role) == At("parent", IF role = "plan" THEN "planReply" ELSE "clarifyReply")

\* Each variable has its type; no agent goes over its iterations
\* (range(self._max_iterations)), no task over its children
\* (max_children_per_task), and no plan is looked at a fourth time.
TypeOK ==
    /\ \A i \in DOMAIN toGuest : toGuest[i] \in
          [type : {"task"}, plan : Plans \cup {None}]
          \cup [type : {"user_reply"}, role : {"plan", "clarification"}, approved : BOOLEAN]
          \cup [type : {"broker_response"}, id : Ids, success : BOOLEAN]
    /\ \A i \in DOMAIN toHost : toHost[i] \in
          [type : {"message"}, role : {"plan", "clarification"}]
          \cup [type : {"done"}, plan : Plans \cup {None}]
          \cup [type : {"broker_request"}, id : Ids]
    /\ host \in {"idle", "recv", "serve", "plan", "clarification"}
    /\ serving \in Ids \cup {None} /\ (serving # None <=> host = "serve")
    /\ saved \in Plans \cup {None}
    /\ cur \in Agents /\ req \in Ids \cup {None} /\ kids \in 0 .. MaxChildren
    /\ pc \in [Agents -> CallStages \cup {"idle", "activate", "planReply", "clarifyReply"}]
    /\ phase \in [Agents -> {"start", "loop"}]
    /\ \A a \in Agents :
          /\ iter[a] \in 0 .. Budget(a) /\ errs[a] \in 0 .. Budget(a) - 1
          /\ tries[a] \in 0 .. Attempts
          /\ draft[a] \in Plans \cup {None} /\ plan[a] \in Plans \cup {None}

\* Every task that the worker sends gets one done event, whatever happens in
\* it, and none is sent without a task: exactly one of the task event, the
\* running task and the done event exists while the worker drives the task.
\* While the task event is on its way the agent reads the stream for nothing
\* else: no call can eat it ("can race and consume/discard the first task
\* event", Agent.__init__).
TaskAnswered ==
    /\ Count(toGuest, "task") + Count(toHost, "done") + (IF Busy THEN 1 ELSE 0)
           = IF host = "idle" THEN 0 ELSE 1
    /\ Count(toGuest, "task") > 0 => cur = "parent" /\ req = None

\* A reply on its way finds the agent waiting for that reply, and no call to a
\* service reads it.  A reply that comes after its task has ended is dropped
\* before the next task is taken: it answers no prompt of that one.
ReplyMeetsPrompt ==
    \A i \in DOMAIN toGuest : toGuest[i].type = "user_reply" =>
        \/ Waiting(toGuest[i].role)
        \/ ~Busy /\ \A j \in 1 .. i - 1 : toGuest[j].type # "task"

\* In approval mode "review" the agent works only by a plan that the user has
\* approved in this task, after a resume, a replan or an unknown skill too.
ApprovedPlan ==
    Review /\ pc["parent"] \in {"prompt", "choose", "tool", "clarifyReply"}
        => plan["parent"].approved

\* "child events never reach adapters" (subagents.py): while a child runs, the
\* worker gets nothing that it would show and wait for, and no done event.
ChildrenSilent ==
    cur = "child" =>
        /\ host \notin {"plan", "clarification"}
        /\ \A i \in DOMAIN toHost :
              \/ toHost[i].type = "broker_request"
              \/ ~Review /\ toHost[i] = Prompt("plan")

\* The host has a request of that id, or has answered it.
Outstanding(r) == ~Fresh(r)

\* A call that takes its answer off the stream takes its own: afterwards
\* nothing of the request is left, in spite of the answers that come late to
\* calls that were given up.
OwnAnswer ==
    [][\A r \in Ids :
          req = r /\ req' = None /\ toGuest' # toGuest => ~Outstanding(r)']_vars

\* The worker asks the user only what the agent waits to hear ("Please clarify
\* the goal or constraints.", agent.py).
PromptAwaited ==
    \A role \in {"plan", "clarification"} : host = role => Waiting(role)

=============================================================================
