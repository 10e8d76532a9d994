--------------------------- MODULE AgentLoopProofs --------------------------
(***************************************************************************)
(* Theorems about AgentLoop and the session that it implements, for every  *)
(* limit on iterations, children, attempts and unread requests, any set of *)
(* request ids and both approval modes.                                    *)
(***************************************************************************)
EXTENDS MCAgentLoop, SequenceTheorems, FiniteSetTheorems, TLAPS

GuestEvents ==
    [type : {"task"}, plan : Plans \cup {None}]
    \cup [type : {"user_reply"}, role : {"plan", "clarification"}, approved : BOOLEAN]
    \cup [type : {"broker_response"}, id : Ids, success : BOOLEAN]

HostEvents ==
    [type : {"message"}, role : {"plan", "clarification"}]
    \cup [type : {"done"}, plan : Plans \cup {None}]
    \cup [type : {"broker_request"}, id : Ids]

----------------------------------------------------------------------------
(* Types, and how the stages of parent and child fit together.             *)

StreamTypes == toGuest \in Seq(GuestEvents) /\ toHost \in Seq(HostEvents)

WorkerTypes ==
    /\ host \in {"idle", "recv", "serve", "plan", "clarification"}
    /\ serving \in Ids \cup {None} /\ (serving # None <=> host = "serve")
    /\ saved \in Plans \cup {None}

AgentTypes ==
    /\ cur \in Agents /\ req \in Ids \cup {None} /\ kids \in 0 .. MaxChildren
    /\ pc \in [Agents -> CallStages \cup {"idle", "activate", "planReply", "clarifyReply"}]
    /\ phase \in [Agents -> {"start", "loop"}]
    /\ iter \in [Agents -> Nat] /\ errs \in [Agents -> Nat]
    /\ tries \in [Agents -> 0 .. Attempts]
    /\ draft \in [Agents -> Plans \cup {None}] /\ plan \in [Agents -> Plans \cup {None}]
    /\ \A a \in Agents : iter[a] <= Budget(a) /\ errs[a] < Budget(a)

\* A child runs only while its parent stands before its next prompt, the
\* parent has a plan when it waits for the reply to it, and an agent that is
\* not at the head of its loop has an iteration left.
CurInv ==
    /\ pc["child"] # "idle" <=> cur = "child"
    /\ cur = "child" => pc["parent"] = "prompt" /\ iter["parent"] < MaxIterations
    /\ pc["child"] \notin {"planReply", "clarifyReply"}
    /\ req # None => pc[cur] \in CallStages /\ (pc[cur] = "prompt" => iter[cur] < Budget(cur))
    /\ \A a \in Agents : pc[a] # "prompt" => iter[a] < Budget(a)
    /\ pc["parent"] = "planReply" => draft["parent"] \in Plans /\ Review

TypeInv == StreamTypes /\ WorkerTypes /\ AgentTypes /\ CurInv

USE AgentLoopAssumption

\* The elements of the streams, by their types.
LEMMA GuestEventIs ==
    ASSUME NEW e \in GuestEvents
    PROVE  /\ e.type \in {"task", "user_reply", "broker_response"}
           /\ e.type = "task" => e.plan \in Plans \cup {None}
           /\ e.type = "user_reply" => e.role \in {"plan", "clarification"} /\ e.approved \in BOOLEAN
           /\ e.type = "broker_response" => e.id \in Ids /\ e.success \in BOOLEAN /\ e = Response(e.id, e.success)
BY DEF GuestEvents, Response

\* What an event for the host is, by its type.
LEMMA HostEventIs ==
    ASSUME NEW e \in HostEvents
    PROVE  /\ e.type \in {"message", "done", "broker_request"}
           /\ e.type = "message" => e.role \in {"plan", "clarification"} /\ e = Prompt(e.role)
           /\ e.type = "done" => e.plan \in Plans \cup {None}
           /\ e.type = "broker_request" => e.id \in Ids /\ e = Request(e.id)
BY DEF HostEvents, Prompt, Request

\* What the constructors make.
LEMMA EventsMade ==
    /\ \A p \in Plans \cup {None} : Task(p) \in GuestEvents /\ Done(p) \in HostEvents
    /\ \A r \in {"plan", "clarification"} : Prompt(r) \in HostEvents
    /\ \A r \in {"plan", "clarification"}, ok \in BOOLEAN : Reply(r, ok) \in GuestEvents
    /\ \A r \in Ids : Request(r) \in HostEvents
    /\ \A r \in Ids, ok \in BOOLEAN : Response(r, ok) \in GuestEvents
BY DEF GuestEvents, HostEvents, Task, Done, Prompt, Reply, Request, Response

\* A plan that is resumed is not approved, one that has been approved is.
LEMMA PlansMade ==
    /\ \A p \in Plans \cup {None} : Resumed(p) \in Plans \cup {None}
    /\ Resumed(None) = None
    /\ \A p \in Plans : Approved(p) \in Plans /\ Approved(p).approved
    /\ \A k \in {"known", "unknown"} : [skills |-> k, approved |-> FALSE] \in Plans
<1>1. ASSUME NEW p \in Plans, NEW v \in BOOLEAN
      PROVE  /\ [p EXCEPT !.approved = v] \in Plans
             /\ [p EXCEPT !.approved = v].approved = v
  BY <1>1, Zenon DEF Plans
<1>2. \A p \in Plans \cup {None} : Resumed(p) \in Plans \cup {None}
  BY <1>1, Zenon DEF Resumed
<1>3. Resumed(None) = None
  BY Zenon DEF Resumed
<1>4. \A p \in Plans : Approved(p) \in Plans /\ Approved(p).approved
  BY <1>1, Zenon DEF Approved
<1>5. \A k \in {"known", "unknown"} : [skills |-> k, approved |-> FALSE] \in Plans
  BY DEF Plans
<1> QED
  BY <1>2, <1>3, <1>4, <1>5

\* No step leaves the types of the agents' variables.
LEMMA AgentTypesStep ==
    ASSUME TypeInv, [Next]_vars
    PROVE  AgentTypes'
<1> USE DEF AgentTypes, Agents, Budget, stream, worker, locals
<1>1. ASSUME StartTask PROVE AgentTypes'
  BY <1>1, GuestEventIs, PlansMade DEF StartTask, StateForFollowUp, Task, TypeInv, CurInv,
     StreamTypes, CallStages
<1>2. ASSUME NEW ok \in BOOLEAN, UserReplies(ok) PROVE AgentTypes'
  BY <1>2, GuestEventIs, PlansMade DEF UserReplies, Reply, TypeInv, CurInv, StreamTypes,
     CallStages
<1>3. ASSUME Serve PROVE AgentTypes'
  BY <1>3, GuestEventIs, PlansMade DEF Serve, Received, TypeInv, CurInv, StreamTypes,
     CallStages
<1>4. ASSUME NEW ok \in BOOLEAN, Answer(ok) PROVE AgentTypes'
  BY <1>4, GuestEventIs, PlansMade DEF Answer, Response, TypeInv, CurInv, StreamTypes,
     CallStages
<1>5. ASSUME Show PROVE AgentTypes'
  BY <1>5, GuestEventIs, PlansMade DEF Show, Received, WaitsForReply, TypeInv, CurInv,
     StreamTypes, CallStages
<1>6. ASSUME TaskDone PROVE AgentTypes'
  BY <1>6, GuestEventIs, PlansMade DEF TaskDone, Received, TypeInv, CurInv, StreamTypes,
     CallStages
<1>7. ASSUME TakeTask PROVE AgentTypes'
  BY <1>7, GuestEventIs, PlansMade DEF TakeTask, At, Goto, Put, TypeInv, CurInv,
     StreamTypes, CallStages
<1>8. ASSUME Drop PROVE AgentTypes'
  BY <1>8, GuestEventIs, PlansMade DEF Drop, At, TypeInv, CurInv, StreamTypes, CallStages
<1>9. ASSUME NEW ok \in BOOLEAN, PlanReply(ok) PROVE AgentTypes'
  BY <1>9, GuestEventIs, PlansMade DEF PlanReply, At, Replied, Accept, Put, Goto, TypeInv,
     CurInv, StreamTypes, CallStages
<1>10. ASSUME NEW ok \in BOOLEAN, ClarifyReply(ok) PROVE AgentTypes'
  BY <1>10, GuestEventIs, PlansMade DEF ClarifyReply, At, Replied, Observe, Put, Goto,
     TypeInv, CurInv, StreamTypes, CallStages
<1>11. ASSUME ChooseClarify PROVE AgentTypes'
  BY <1>11, GuestEventIs, PlansMade DEF ChooseClarify, At, Returns, Emit, Prompt, Goto, Put,
     TypeInv, CurInv, StreamTypes, CallStages
<1>12. ASSUME ChooseSpawn PROVE AgentTypes'
  BY <1>12, GuestEventIs, PlansMade DEF ChooseSpawn, At, Returns, TypeInv, CurInv,
     StreamTypes, CallStages
<1>13. ASSUME ChildTimeout PROVE AgentTypes'
  BY <1>13, GuestEventIs, PlansMade DEF ChildTimeout, At, End, Forget, Emit, Put, Goto,
     TypeInv, CurInv, StreamTypes, CallStages
<1>14. ASSUME NEW a \in Agents, NEW r \in Ids, Call(a, r) PROVE AgentTypes'
  BY <1>14, GuestEventIs, PlansMade DEF Call, Request, TypeInv, CurInv, StreamTypes,
     CallStages
<1>15. ASSUME NEW a \in Agents, Discard(a) PROVE AgentTypes'
  BY <1>15, GuestEventIs, PlansMade DEF Discard, TypeInv, CurInv, StreamTypes, CallStages
<1>16. ASSUME NEW a \in Agents, NEW ok \in BOOLEAN, IntegrationsLoaded(a, ok) PROVE AgentTypes'
  BY <1>16, GuestEventIs, PlansMade DEF IntegrationsLoaded, At, Returns, Goto, Put, TypeInv,
     CurInv, StreamTypes, CallStages
<1>17. ASSUME NEW a \in Agents, NEW k \in {"known", "unknown"}, PlanMade(a, k) PROVE AgentTypes'
  <2> DEFINE p == [skills |-> k, approved |-> FALSE]
  <2>1. p \in Plans
    BY PlansMade
  <2>2. draft' = Put(draft, a, p) /\ (plan' = plan \/ plan' = Put(plan, a, p))
    BY <1>17 DEF PlanMade, Accept
  <2>3. pc' = Put(pc, a, "planReply") \/ pc' = Put(pc, a, "activate")
    BY <1>17 DEF PlanMade, Accept, Goto
  <2>4. errs' = Put(errs, a, 0) /\ req' = None /\ UNCHANGED <<cur, phase, iter, tries, kids>>
    BY <1>17 DEF PlanMade, Returns
  <2> HIDE DEF p
  <2>5. draft' \in [Agents -> Plans \cup {None}] /\ plan' \in [Agents -> Plans \cup {None}]
    BY <2>1, <2>2 DEF Put, TypeInv
  <2>6. pc' \in [Agents -> CallStages \cup {"idle", "activate", "planReply", "clarifyReply"}]
    BY <2>3 DEF Put, TypeInv
  <2>7. errs' \in [Agents -> Nat] /\ \A b \in Agents : errs'[b] < Budget(b)
    BY <2>4 DEF Put, TypeInv
  <2> QED
    BY <2>4, <2>5, <2>6, <2>7 DEF TypeInv
<1>18. ASSUME NEW a \in Agents, PlanFails(a) PROVE AgentTypes'
  BY <1>18, GuestEventIs, PlansMade DEF PlanFails, At, Returns, Fail, Finish, End, Forget,
     Emit, Done, Goto, Put, TypeInv, CurInv, StreamTypes, CallStages
<1>19. ASSUME NEW a \in Agents, Activate(a) PROVE AgentTypes'
  <2>1. /\ cur = a /\ pc[a] = "activate" /\ tries[a] < Attempts
        /\ UNCHANGED <<cur, errs, kids, req>>
    BY <1>19 DEF Activate, At
  <2>2. CASE draft[a].skills = "known"
    <3>1. /\ plan' = Put(plan, a, draft[a]) /\ draft' = Put(draft, a, None) /\ tries' = Put(tries, a, 0)
          /\ phase' = Put(phase, a, "loop") /\ pc' = Put(pc, a, "prompt")
      BY <1>19, <2>2 DEF Activate, Goto
    <3>2. iter' = Put(iter, a, iter[a] + 1) \/ iter' = iter
      BY <1>19, <2>2 DEF Activate
    <3>3. iter' \in [Agents -> Nat] /\ \A b \in Agents : iter'[b] <= Budget(b)
      BY <2>1, <3>2 DEF Put, TypeInv, CurInv
    <3> QED
      BY <2>1, <3>1, <3>3 DEF Put, TypeInv, CallStages
  <2>3. CASE draft[a].skills # "known"
    <3>1. /\ tries' = Put(tries, a, tries[a] + 1) /\ pc' = Put(pc, a, "plan")
          /\ UNCHANGED <<plan, draft, phase, iter>>
      BY <1>19, <2>3 DEF Activate, Goto
    <3> QED
      BY <2>1, <3>1 DEF Put, TypeInv, CallStages
  <2> QED
    BY <2>2, <2>3
<1>20. ASSUME NEW a \in Agents, ActivationFails(a) PROVE AgentTypes'
  BY <1>20, GuestEventIs, PlansMade DEF ActivationFails, At, Fail, Finish, End, Forget,
     Emit, Done, Goto, Put, TypeInv, CurInv, StreamTypes, CallStages
<1>21. ASSUME NEW a \in Agents, NEW ok \in BOOLEAN, PromptBuilt(a, ok) PROVE AgentTypes'
  BY <1>21, GuestEventIs, PlansMade DEF PromptBuilt, At, Returns, Goto, Put, TypeInv,
     CurInv, StreamTypes, CallStages
<1>22. ASSUME NEW a \in Agents, SummaryFails(a) PROVE AgentTypes'
  BY <1>22, GuestEventIs, PlansMade DEF SummaryFails, At, Returns, Observe, Goto, Put,
     TypeInv, CurInv, StreamTypes, CallStages
<1>23. ASSUME NEW a \in Agents, NEW ok \in BOOLEAN, Observation(a, ok) PROVE AgentTypes'
  BY <1>23, GuestEventIs, PlansMade DEF Observation, At, Returns, Observe, Goto, Put,
     TypeInv, CurInv, StreamTypes, CallStages
<1>24. ASSUME NEW a \in Agents, ChooseTool(a) PROVE AgentTypes'
  BY <1>24, GuestEventIs, PlansMade DEF ChooseTool, At, Returns, Goto, Put, TypeInv, CurInv,
     StreamTypes, CallStages
<1>25. ASSUME NEW a \in Agents, NEW ok \in BOOLEAN, ToolReturns(a, ok) PROVE AgentTypes'
  BY <1>25, GuestEventIs, PlansMade DEF ToolReturns, At, Returns, Observe, Goto, Put,
     TypeInv, CurInv, StreamTypes, CallStages
<1>26. ASSUME NEW a \in Agents, ChooseDone(a) PROVE AgentTypes'
  BY <1>26, GuestEventIs, PlansMade DEF ChooseDone, At, Returns, Finish, End, Forget, Emit,
     Done, Goto, Put, TypeInv, CurInv, StreamTypes, CallStages
<1>27. ASSUME NEW a \in Agents, ChooseReplan(a) PROVE AgentTypes'
  BY <1>27, GuestEventIs, PlansMade DEF ChooseReplan, At, Returns, Goto, Put, TypeInv,
     CurInv, StreamTypes, CallStages
<1>28. ASSUME NEW a \in Agents, Limit(a) PROVE AgentTypes'
  BY <1>28, GuestEventIs, PlansMade DEF Limit, At, End, Forget, Emit, Prompt, Done, Goto,
     Put, TypeInv, CurInv, StreamTypes, CallStages
<1>29. CASE UNCHANGED vars
  BY <1>29 DEF vars, TypeInv, CurInv, StreamTypes, CallStages
<1> QED
  BY <1>1, <1>2, <1>3, <1>4, <1>5, <1>6, <1>7, <1>8, <1>9, <1>10, <1>11, <1>12, <1>13,
     <1>14, <1>15, <1>16, <1>17, <1>18, <1>19, <1>20, <1>21, <1>22, <1>23, <1>24, <1>25,
     <1>26, <1>27, <1>28, <1>29 DEF Next, HostStep, GuestStep, ParentStep, AgentStep

\* Nor those of the worker's.
LEMMA WorkerTypesStep ==
    ASSUME TypeInv, [Next]_vars
    PROVE  WorkerTypes'
<1> USE DEF WorkerTypes, stream, worker, locals
<1>1. ASSUME StartTask PROVE WorkerTypes'
  BY <1>1, HostEventIs DEF StartTask, StateForFollowUp, Task, TypeInv, StreamTypes
<1>2. ASSUME NEW ok \in BOOLEAN, UserReplies(ok) PROVE WorkerTypes'
  BY <1>2, HostEventIs DEF UserReplies, Reply, TypeInv, StreamTypes
<1>3. ASSUME Serve PROVE WorkerTypes'
  BY <1>3, HostEventIs DEF Serve, Received, TypeInv, StreamTypes
<1>4. ASSUME NEW ok \in BOOLEAN, Answer(ok) PROVE WorkerTypes'
  BY <1>4, HostEventIs DEF Answer, Response, TypeInv, StreamTypes
<1>5. ASSUME Show PROVE WorkerTypes'
  BY <1>5, HostEventIs DEF Show, Received, WaitsForReply, TypeInv, StreamTypes
<1>6. ASSUME TaskDone PROVE WorkerTypes'
  BY <1>6, HostEventIs DEF TaskDone, Received, TypeInv, StreamTypes
<1>7. ASSUME TakeTask PROVE WorkerTypes'
  BY <1>7, HostEventIs DEF TakeTask, At, Goto, Put, TypeInv, StreamTypes
<1>8. ASSUME Drop PROVE WorkerTypes'
  BY <1>8, HostEventIs DEF Drop, At, TypeInv, StreamTypes
<1>9. ASSUME NEW ok \in BOOLEAN, PlanReply(ok) PROVE WorkerTypes'
  BY <1>9, HostEventIs DEF PlanReply, At, Replied, Accept, Put, Goto, TypeInv, StreamTypes
<1>10. ASSUME NEW ok \in BOOLEAN, ClarifyReply(ok) PROVE WorkerTypes'
  BY <1>10, HostEventIs DEF ClarifyReply, At, Replied, Observe, Put, Goto, TypeInv,
     StreamTypes
<1>11. ASSUME ChooseClarify PROVE WorkerTypes'
  BY <1>11, HostEventIs DEF ChooseClarify, At, Returns, Emit, Prompt, Goto, Put, TypeInv,
     StreamTypes
<1>12. ASSUME ChooseSpawn PROVE WorkerTypes'
  BY <1>12, HostEventIs DEF ChooseSpawn, At, Returns, TypeInv, StreamTypes
<1>13. ASSUME ChildTimeout PROVE WorkerTypes'
  BY <1>13, HostEventIs DEF ChildTimeout, At, End, Forget, Emit, Put, Goto, TypeInv,
     StreamTypes
<1>14. ASSUME NEW a \in Agents, NEW r \in Ids, Call(a, r) PROVE WorkerTypes'
  BY <1>14, HostEventIs DEF Call, Request, TypeInv, StreamTypes
<1>15. ASSUME NEW a \in Agents, Discard(a) PROVE WorkerTypes'
  BY <1>15, HostEventIs DEF Discard, TypeInv, StreamTypes
<1>16. ASSUME NEW a \in Agents, NEW ok \in BOOLEAN, IntegrationsLoaded(a, ok) PROVE WorkerTypes'
  BY <1>16, HostEventIs DEF IntegrationsLoaded, At, Returns, Goto, Put, TypeInv, StreamTypes
<1>17. ASSUME NEW a \in Agents, NEW k \in {"known", "unknown"}, PlanMade(a, k) PROVE WorkerTypes'
  BY <1>17, HostEventIs DEF PlanMade, At, Returns, Emit, Prompt, Asks, Accept, Goto, Put,
     TypeInv, StreamTypes
<1>18. ASSUME NEW a \in Agents, PlanFails(a) PROVE WorkerTypes'
  BY <1>18, HostEventIs DEF PlanFails, At, Returns, Fail, Finish, End, Forget, Emit, Done,
     Goto, Put, TypeInv, StreamTypes
<1>19. ASSUME NEW a \in Agents, Activate(a) PROVE WorkerTypes'
  BY <1>19, HostEventIs DEF Activate, At, Put, Goto, TypeInv, StreamTypes
<1>20. ASSUME NEW a \in Agents, ActivationFails(a) PROVE WorkerTypes'
  BY <1>20, HostEventIs DEF ActivationFails, At, Fail, Finish, End, Forget, Emit, Done,
     Goto, Put, TypeInv, StreamTypes
<1>21. ASSUME NEW a \in Agents, NEW ok \in BOOLEAN, PromptBuilt(a, ok) PROVE WorkerTypes'
  BY <1>21, HostEventIs DEF PromptBuilt, At, Returns, Goto, Put, TypeInv, StreamTypes
<1>22. ASSUME NEW a \in Agents, SummaryFails(a) PROVE WorkerTypes'
  BY <1>22, HostEventIs DEF SummaryFails, At, Returns, Observe, Goto, Put, TypeInv,
     StreamTypes
<1>23. ASSUME NEW a \in Agents, NEW ok \in BOOLEAN, Observation(a, ok) PROVE WorkerTypes'
  BY <1>23, HostEventIs DEF Observation, At, Returns, Observe, Goto, Put, TypeInv,
     StreamTypes
<1>24. ASSUME NEW a \in Agents, ChooseTool(a) PROVE WorkerTypes'
  BY <1>24, HostEventIs DEF ChooseTool, At, Returns, Goto, Put, TypeInv, StreamTypes
<1>25. ASSUME NEW a \in Agents, NEW ok \in BOOLEAN, ToolReturns(a, ok) PROVE WorkerTypes'
  BY <1>25, HostEventIs DEF ToolReturns, At, Returns, Observe, Goto, Put, TypeInv,
     StreamTypes
<1>26. ASSUME NEW a \in Agents, ChooseDone(a) PROVE WorkerTypes'
  BY <1>26, HostEventIs DEF ChooseDone, At, Returns, Finish, End, Forget, Emit, Done, Goto,
     Put, TypeInv, StreamTypes
<1>27. ASSUME NEW a \in Agents, ChooseReplan(a) PROVE WorkerTypes'
  BY <1>27, HostEventIs DEF ChooseReplan, At, Returns, Goto, Put, TypeInv, StreamTypes
<1>28. ASSUME NEW a \in Agents, Limit(a) PROVE WorkerTypes'
  BY <1>28, HostEventIs DEF Limit, At, End, Forget, Emit, Prompt, Done, Goto, Put, TypeInv,
     StreamTypes
<1>29. CASE UNCHANGED vars
  BY <1>29 DEF vars, TypeInv, StreamTypes
<1> QED
  BY <1>1, <1>2, <1>3, <1>4, <1>5, <1>6, <1>7, <1>8, <1>9, <1>10, <1>11, <1>12, <1>13,
     <1>14, <1>15, <1>16, <1>17, <1>18, <1>19, <1>20, <1>21, <1>22, <1>23, <1>24, <1>25,
     <1>26, <1>27, <1>28, <1>29 DEF Next, HostStep, GuestStep, ParentStep, AgentStep

\* The stages of parent and child keep fitting together.
LEMMA CurStep ==
    ASSUME TypeInv, [Next]_vars
    PROVE  CurInv'
<1> USE DEF CurInv, AgentTypes, Agents, Budget, stream, worker, locals, CallStages
<1>1. ASSUME StartTask PROVE CurInv'
  BY <1>1, PlansMade DEF StartTask, StateForFollowUp, Task, TypeInv
<1>2. ASSUME NEW ok \in BOOLEAN, UserReplies(ok) PROVE CurInv'
  BY <1>2, PlansMade DEF UserReplies, Reply, TypeInv
<1>3. ASSUME Serve PROVE CurInv'
  BY <1>3, PlansMade DEF Serve, Received, TypeInv
<1>4. ASSUME NEW ok \in BOOLEAN, Answer(ok) PROVE CurInv'
  BY <1>4, PlansMade DEF Answer, Response, TypeInv
<1>5. ASSUME Show PROVE CurInv'
  BY <1>5, PlansMade DEF Show, Received, WaitsForReply, TypeInv
<1>6. ASSUME TaskDone PROVE CurInv'
  BY <1>6, PlansMade DEF TaskDone, Received, TypeInv
<1>7. ASSUME TakeTask PROVE CurInv'
  BY <1>7, PlansMade DEF TakeTask, At, Goto, Put, TypeInv
<1>8. ASSUME Drop PROVE CurInv'
  BY <1>8, PlansMade DEF Drop, At, TypeInv
<1>9. ASSUME NEW ok \in BOOLEAN, PlanReply(ok) PROVE CurInv'
  BY <1>9, PlansMade DEF PlanReply, At, Replied, Accept, Put, Goto, TypeInv
<1>10. ASSUME NEW ok \in BOOLEAN, ClarifyReply(ok) PROVE CurInv'
  BY <1>10, PlansMade DEF ClarifyReply, At, Replied, Observe, Put, Goto, TypeInv
<1>11. ASSUME ChooseClarify PROVE CurInv'
  BY <1>11, PlansMade DEF ChooseClarify, At, Returns, Emit, Prompt, Goto, Put, TypeInv
<1>12. ASSUME ChooseSpawn PROVE CurInv'
  BY <1>12, PlansMade DEF ChooseSpawn, At, Returns, TypeInv
<1>13. ASSUME ChildTimeout PROVE CurInv'
  BY <1>13, PlansMade DEF ChildTimeout, At, End, Forget, Emit, Put, Goto, TypeInv
<1>14. ASSUME NEW a \in Agents, NEW r \in Ids, Call(a, r) PROVE CurInv'
  BY <1>14, PlansMade DEF Call, Request, TypeInv
<1>15. ASSUME NEW a \in Agents, Discard(a) PROVE CurInv'
  BY <1>15, PlansMade DEF Discard, TypeInv
<1>16. ASSUME NEW a \in Agents, NEW ok \in BOOLEAN, IntegrationsLoaded(a, ok) PROVE CurInv'
  BY <1>16, PlansMade DEF IntegrationsLoaded, At, Returns, Goto, Put, TypeInv
<1>17. ASSUME NEW a \in Agents, NEW k \in {"known", "unknown"}, PlanMade(a, k) PROVE CurInv'
  BY <1>17, PlansMade DEF PlanMade, At, Returns, Emit, Prompt, Asks, Accept, Goto, Put,
     TypeInv
<1>18. ASSUME NEW a \in Agents, PlanFails(a) PROVE CurInv'
  BY <1>18, PlansMade DEF PlanFails, At, Returns, Fail, Finish, End, Forget, Emit, Done,
     Goto, Put, TypeInv
<1>19. ASSUME NEW a \in Agents, Activate(a) PROVE CurInv'
  BY <1>19, PlansMade DEF Activate, At, Put, Goto, TypeInv
<1>20. ASSUME NEW a \in Agents, ActivationFails(a) PROVE CurInv'
  BY <1>20, PlansMade DEF ActivationFails, At, Fail, Finish, End, Forget, Emit, Done, Goto,
     Put, TypeInv
<1>21. ASSUME NEW a \in Agents, NEW ok \in BOOLEAN, PromptBuilt(a, ok) PROVE CurInv'
  BY <1>21, PlansMade DEF PromptBuilt, At, Returns, Goto, Put, TypeInv
<1>22. ASSUME NEW a \in Agents, SummaryFails(a) PROVE CurInv'
  BY <1>22, PlansMade DEF SummaryFails, At, Returns, Observe, Goto, Put, TypeInv
<1>23. ASSUME NEW a \in Agents, NEW ok \in BOOLEAN, Observation(a, ok) PROVE CurInv'
  BY <1>23, PlansMade DEF Observation, At, Returns, Observe, Goto, Put, TypeInv
<1>24. ASSUME NEW a \in Agents, ChooseTool(a) PROVE CurInv'
  BY <1>24, PlansMade DEF ChooseTool, At, Returns, Goto, Put, TypeInv
<1>25. ASSUME NEW a \in Agents, NEW ok \in BOOLEAN, ToolReturns(a, ok) PROVE CurInv'
  BY <1>25, PlansMade DEF ToolReturns, At, Returns, Observe, Goto, Put, TypeInv
<1>26. ASSUME NEW a \in Agents, ChooseDone(a) PROVE CurInv'
  BY <1>26, PlansMade DEF ChooseDone, At, Returns, Finish, End, Forget, Emit, Done, Goto,
     Put, TypeInv
<1>27. ASSUME NEW a \in Agents, ChooseReplan(a) PROVE CurInv'
  BY <1>27, PlansMade DEF ChooseReplan, At, Returns, Goto, Put, TypeInv
<1>28. ASSUME NEW a \in Agents, Limit(a) PROVE CurInv'
  BY <1>28, PlansMade DEF Limit, At, End, Forget, Emit, Prompt, Done, Goto, Put, TypeInv
<1>29. CASE UNCHANGED vars
  BY <1>29 DEF vars, TypeInv
<1> QED
  BY <1>1, <1>2, <1>3, <1>4, <1>5, <1>6, <1>7, <1>8, <1>9, <1>10, <1>11, <1>12, <1>13,
     <1>14, <1>15, <1>16, <1>17, <1>18, <1>19, <1>20, <1>21, <1>22, <1>23, <1>24, <1>25,
     <1>26, <1>27, <1>28, <1>29 DEF Next, HostStep, GuestStep, ParentStep, AgentStep

----------------------------------------------------------------------------
(* What the steps of the agents do to the streams and to the parent's      *)
(* stage.                                                                  *)

\* The parent has a task and does not wait for the user.
Working == pc["parent"] \in {"integrations", "plan", "activate", "prompt", "choose", "tool"}

\* At most one event is read; a call that ends with an event ends with its answer.
Reads ==
    \/ UNCHANGED toGuest
    \/ /\ toGuest # <<>> /\ toGuest' = Tail(toGuest)
       /\ req # None /\ req' # req => \E ok \in BOOLEAN : Head(toGuest) = Response(req, ok)

\* The task goes on, its parent's or its child's work.
GoesOn ==
    /\ Working /\ Working'
    /\ Reads /\ UNCHANGED <<toHost, worker>>
    /\ Review /\ pc["parent"] = "plan" => pc'["parent"] = "plan"
    /\ pc["parent"] = "integrations" /\ plan["parent"] = None
           => pc'["parent"] \in {"integrations", "plan"}

\* The parent asks the user, or shows a plan that needs no answer.
AsksUser(role) ==
    /\ pc["parent"] = IF role = "plan" THEN "plan" ELSE "choose"
    /\ pc'["parent"] = IF ~WaitsForReply(role) THEN "activate"
                       ELSE IF role = "plan" THEN "planReply" ELSE "clarifyReply"
    /\ Reads /\ UNCHANGED worker
    /\ toHost' = Append(toHost, Prompt(role))

\* The task ends, with its done event.
Ends(p) ==
    /\ Working /\ pc'["parent"] = "idle"
    /\ Reads /\ UNCHANGED worker
    /\ toHost' = Append(toHost, Done(p))

EndsAtLimit(p) ==
    /\ pc["parent"] = "prompt" /\ pc'["parent"] = "idle"
    /\ Reads /\ UNCHANGED worker
    /\ toHost' = Append(Append(toHost, Prompt("clarification")), Done(p))

Calls(r) ==
    /\ Working /\ pc'["parent"] = pc["parent"]
    /\ UNCHANGED <<toGuest, worker>>
    /\ Fresh(r) /\ toHost' = Append(toHost, Request(r))

Kinds ==
    \/ GoesOn
    \/ \E role \in {"plan", "clarification"} : AsksUser(role)
    \/ \E p \in Plans \cup {None} : Ends(p) \/ EndsAtLimit(p)
    \/ \E r \in Ids : Calls(r)

\* A call returns by one read at most.
LEMMA ReturnReads ==
    ASSUME NEW ok \in BOOLEAN, Returns(ok)
    PROVE  Reads
BY DEF Returns, Reads

\* Only the parent's events reach the host, in their order.
LEMMA Emitted ==
    ASSUME StreamTypes, NEW a \in Agents
    PROVE  /\ \A e \in HostEvents : Emit(a, <<e>>)
                  => toHost' = IF a = "parent" THEN Append(toHost, e) ELSE toHost
           /\ \A e, f \in HostEvents : Emit(a, <<e, f>>)
                  => toHost' = IF a = "parent" THEN Append(Append(toHost, e), f) ELSE toHost
           /\ Emit(a, <<>>) => toHost' = toHost
<1>1. \A e \in HostEvents : toHost \o <<e>> = Append(toHost, e)
  BY DEF StreamTypes
<1>2. \A e, f \in HostEvents : toHost \o <<e, f>> = Append(Append(toHost, e), f)
  <2> SUFFICES ASSUME NEW e \in HostEvents, NEW f \in HostEvents
               PROVE  toHost \o <<e, f>> = Append(Append(toHost, e), f)
    OBVIOUS
  <2>1. <<e, f>> \in Seq(HostEvents)
    OBVIOUS
  <2>2. toHost \o <<e, f>> \in Seq(HostEvents)
    BY <2>1, ConcatProperties DEF StreamTypes
  <2>3. Append(Append(toHost, e), f) \in Seq(HostEvents)
    BY DEF StreamTypes
  <2> QED
    BY <2>1, <2>2, <2>3, SeqEqual DEF StreamTypes
<1>3. toHost \o <<>> = toHost
  BY ConcatEmptySeq DEF StreamTypes
<1> QED
  BY <1>1, <1>2, <1>3 DEF Emit

\* An agent that has its result, or fails, ends the task if it is the parent.
LEMMA FinishEnds ==
    ASSUME TypeInv, NEW a \in Agents, cur = a, pc[a] \notin {"idle", "planReply", "clarifyReply"},
           NEW p \in Plans \cup {None}, Finish(a, p), Reads, UNCHANGED worker
    PROVE  Kinds
<1> USE DEF TypeInv, AgentTypes, CurInv, CallStages, Agents, Working
<1>1. toHost' = IF a = "parent" THEN Append(toHost, Done(p)) ELSE toHost
  BY Emitted, EventsMade DEF Finish, End
<1>2. pc' = Put(pc, a, "idle")
  BY DEF Finish, End, Forget, Goto
<1>3. CASE a = "parent"
  <2>1. Ends(p)
    BY <1>1, <1>2, <1>3 DEF Ends, Put
  <2> QED
    BY <2>1 DEF Kinds
<1>4. CASE a = "child"
  <2>1. GoesOn
    BY <1>1, <1>2, <1>4 DEF GoesOn, Put
  <2> QED
    BY <2>1 DEF Kinds
<1> QED
  BY <1>3, <1>4

\* An error ends the run of the agent that has it.
LEMMA FailEnds ==
    ASSUME TypeInv, NEW a \in Agents, cur = a, pc[a] \notin {"idle", "planReply", "clarifyReply"},
           Fail(a), Reads, UNCHANGED worker
    PROVE  Kinds
<1>1. PICK p \in Plans \cup {None} : Finish(a, p)
  BY DEF Fail, TypeInv, AgentTypes
<1> QED
  BY <1>1, FinishEnds

\* Every step of an agent that neither takes a task nor reads a reply is of one
\* of these kinds.
LEMMA AgentKinds ==
    ASSUME TypeInv,
           \/ ChooseClarify \/ ChooseSpawn \/ ChildTimeout
           \/ \E a \in Agents : AgentStep(a)
    PROVE  Kinds
<1> USE DEF TypeInv, AgentTypes, CurInv, CallStages, Agents, Budget, Working, stream, worker, locals
<1>1. ASSUME NEW a \in Agents, NEW r \in Ids, Call(a, r) PROVE Kinds
  <2>1. Calls(r)
    BY <1>1 DEF Call, Calls
  <2> QED
    BY <2>1 DEF Kinds
<1>2. ASSUME NEW a \in Agents, Discard(a) PROVE Kinds
  <2>1. GoesOn
    BY <1>2 DEF Discard, GoesOn, Reads, End, Forget
  <2> QED
    BY <2>1 DEF Kinds
<1>3. ASSUME NEW a \in Agents, NEW ok \in BOOLEAN, IntegrationsLoaded(a, ok) PROVE Kinds
  <2>1. GoesOn
    BY <1>3, ReturnReads DEF IntegrationsLoaded, At, Goto, Put, GoesOn
  <2> QED
    BY <2>1 DEF Kinds
<1>4. ASSUME NEW a \in Agents, NEW k \in {"known", "unknown"}, PlanMade(a, k) PROVE Kinds
  <2>1. /\ cur = a /\ pc[a] = "plan" /\ Reads /\ UNCHANGED worker
        /\ toHost' = IF a = "parent" THEN Append(toHost, Prompt("plan")) ELSE toHost
    BY <1>4, ReturnReads, Emitted, EventsMade DEF PlanMade, At
  <2>2. pc' = Put(pc, a, IF Asks(a) THEN "planReply" ELSE "activate")
    BY <1>4 DEF PlanMade, Accept, Goto
  <2>3. CASE a = "parent"
    <3>1. AsksUser("plan")
      BY <2>1, <2>2, <2>3 DEF AsksUser, Put, Asks, WaitsForReply
    <3> QED
      BY <3>1 DEF Kinds
  <2>4. CASE a = "child"
    <3>1. GoesOn
      BY <2>1, <2>2, <2>4 DEF GoesOn, Put, Asks
    <3> QED
      BY <3>1 DEF Kinds
  <2> QED
    BY <2>3, <2>4
<1>5. ASSUME NEW a \in Agents, PlanFails(a) PROVE Kinds
  <2>1. Working /\ Reads /\ UNCHANGED worker
    BY <1>5, ReturnReads DEF PlanFails, At
  <2>2. CASE errs[a] + 1 >= Budget(a)
    BY <2>1, <2>2, <1>5, FailEnds DEF PlanFails, At
  <2>3. CASE ~(errs[a] + 1 >= Budget(a))
    <3>1. GoesOn
      BY <2>1, <2>3, <1>5 DEF PlanFails, GoesOn
    <3> QED
      BY <3>1 DEF Kinds
  <2> QED
    BY <2>2, <2>3
<1>6. ASSUME NEW a \in Agents, Activate(a) PROVE Kinds
  <2>1. GoesOn
    BY <1>6, ReturnReads DEF Activate, At, Put, Goto, GoesOn, Reads, End, Forget
  <2> QED
    BY <2>1 DEF Kinds
<1>7. ASSUME NEW a \in Agents, ActivationFails(a) PROVE Kinds
  BY <1>7, FailEnds DEF ActivationFails, At, Reads
<1>8. ASSUME NEW a \in Agents, NEW ok \in BOOLEAN, PromptBuilt(a, ok) PROVE Kinds
  <2>1. GoesOn
    BY <1>8, ReturnReads DEF PromptBuilt, At, Goto, Put, GoesOn
  <2> QED
    BY <2>1 DEF Kinds
<1>9. ASSUME NEW a \in Agents, SummaryFails(a) PROVE Kinds
  <2>1. GoesOn
    BY <1>9, ReturnReads DEF SummaryFails, At, Observe, Goto, Put, GoesOn
  <2> QED
    BY <2>1 DEF Kinds
<1>10. ASSUME NEW a \in Agents, NEW ok \in BOOLEAN, Observation(a, ok) PROVE Kinds
  <2>1. GoesOn
    BY <1>10, ReturnReads DEF Observation, At, Observe, Goto, Put, GoesOn
  <2> QED
    BY <2>1 DEF Kinds
<1>11. ASSUME NEW a \in Agents, ChooseTool(a) PROVE Kinds
  <2>1. GoesOn
    BY <1>11, ReturnReads DEF ChooseTool, At, Goto, Put, GoesOn
  <2> QED
    BY <2>1 DEF Kinds
<1>12. ASSUME NEW a \in Agents, NEW ok \in BOOLEAN, ToolReturns(a, ok) PROVE Kinds
  <2>1. GoesOn
    BY <1>12, ReturnReads DEF ToolReturns, At, Observe, Goto, Put, GoesOn
  <2> QED
    BY <2>1 DEF Kinds
<1>13. ASSUME NEW a \in Agents, ChooseDone(a) PROVE Kinds
  BY <1>13, FinishEnds, ReturnReads DEF ChooseDone, At
<1>14. ASSUME NEW a \in Agents, ChooseReplan(a) PROVE Kinds
  <2>1. GoesOn
    BY <1>14, ReturnReads DEF ChooseReplan, At, Goto, Put, GoesOn
  <2> QED
    BY <2>1 DEF Kinds
<1>15. ASSUME NEW a \in Agents, Limit(a) PROVE Kinds
  <2>1. /\ cur = a /\ pc[a] = "prompt" /\ Reads /\ UNCHANGED worker
        /\ plan[a] \in Plans \cup {None}
    BY <1>15 DEF Limit, At, Reads
  <2>2. toHost' = IF a = "parent" THEN Append(Append(toHost, Prompt("clarification")), Done(plan[a]))
                  ELSE toHost
    BY <1>15, <2>1, Emitted, EventsMade DEF Limit, End
  <2>3. pc' = Put(pc, a, "idle")
    BY <1>15 DEF Limit, End, Forget, Goto
  <2>4. CASE a = "parent"
    <3>1. EndsAtLimit(plan[a])
      BY <2>1, <2>2, <2>3, <2>4 DEF EndsAtLimit, Put
    <3> QED
      BY <2>1, <3>1 DEF Kinds
  <2>5. CASE a = "child"
    <3>1. GoesOn
      BY <2>1, <2>2, <2>3, <2>5 DEF GoesOn, Put
    <3> QED
      BY <3>1 DEF Kinds
  <2> QED
    BY <2>4, <2>5
<1>16. ASSUME ChooseClarify PROVE Kinds
  <2>1. AsksUser("clarification")
    BY <1>16, ReturnReads, Emitted, EventsMade DEF ChooseClarify, AsksUser, At, Goto, Put, WaitsForReply
  <2> QED
    BY <2>1 DEF Kinds
<1>17. ASSUME ChooseSpawn PROVE Kinds
  <2>1. GoesOn
    BY <1>17, ReturnReads DEF ChooseSpawn, At, GoesOn
  <2> QED
    BY <2>1 DEF Kinds
<1>18. ASSUME ChildTimeout PROVE Kinds
  <2>1. GoesOn
    BY <1>18, Emitted DEF ChildTimeout, At, End, Forget, Put, Goto, GoesOn, Reads, End,
       Forget
  <2> QED
    BY <2>1 DEF Kinds
<1> QED
  BY <1>1, <1>2, <1>3, <1>4, <1>5, <1>6, <1>7, <1>8, <1>9, <1>10, <1>11, <1>12, <1>13,
     <1>14, <1>15, <1>16, <1>17, <1>18 DEF AgentStep

\* What is left of a stream that is read.
LEMMA Left ==
    ASSUME NEW T, NEW s \in Seq(T), s # <<>>
    PROVE  /\ Len(s) \in Nat \ {0} /\ Head(s) = s[1] /\ s[1] \in T
           /\ Tail(s) \in Seq(T) /\ Len(Tail(s)) = Len(s) - 1
           /\ \A i \in 1 .. Len(Tail(s)) : i + 1 \in 1 .. Len(s) /\ Tail(s)[i] = s[i + 1]
BY HeadTailProperties

\* A stream with one more event.
LEMMA Added ==
    ASSUME NEW T, NEW s \in Seq(T), NEW e \in T
    PROVE  /\ Append(s, e) \in Seq(T) /\ Len(Append(s, e)) = Len(s) + 1 /\ Len(s) \in Nat
           /\ Append(s, e)[Len(s) + 1] = e
           /\ \A i \in 1 .. Len(s) : Append(s, e)[i] = s[i]
OBVIOUS

\* Only events go into the streams.
LEMMA StreamTypesStep ==
    ASSUME TypeInv, [Next]_vars
    PROVE  StreamTypes'
<1> USE DEF StreamTypes, stream, worker, locals
<1>1. CASE Kinds
  <2>1. toGuest' \in Seq(GuestEvents)
    BY <1>1, Left DEF Kinds, GoesOn, AsksUser, Ends, EndsAtLimit, Calls, Reads, TypeInv
  <2>2. toHost' \in Seq(HostEvents)
    <3>1. CASE GoesOn
      BY <3>1 DEF GoesOn, TypeInv
    <3>2. ASSUME NEW role \in {"plan", "clarification"}, AsksUser(role) PROVE toHost' \in Seq(HostEvents)
      <4>1. Prompt(role) \in HostEvents
        BY EventsMade
      <4> QED
        BY <4>1, <3>2 DEF AsksUser, TypeInv
    <3>3. ASSUME NEW p \in Plans \cup {None}, Ends(p) \/ EndsAtLimit(p) PROVE toHost' \in Seq(HostEvents)
      <4>1. Done(p) \in HostEvents /\ Prompt("clarification") \in HostEvents
        BY EventsMade
      <4>2. Append(toHost, Done(p)) \in Seq(HostEvents) /\ Append(toHost, Prompt("clarification")) \in Seq(HostEvents)
        BY <4>1 DEF TypeInv
      <4>3. Append(Append(toHost, Prompt("clarification")), Done(p)) \in Seq(HostEvents)
        BY <4>1, <4>2
      <4> QED
        BY <4>2, <4>3, <3>3 DEF Ends, EndsAtLimit
    <3>4. ASSUME NEW r \in Ids, Calls(r) PROVE toHost' \in Seq(HostEvents)
      BY <3>4, EventsMade DEF Calls, TypeInv
    <3> QED
      BY <1>1, <3>1, <3>2, <3>3, <3>4 DEF Kinds
  <2> QED
    BY <2>1, <2>2
<1>2. CASE StartTask
  BY <1>2, EventsMade, Added DEF StartTask, StateForFollowUp, TypeInv
<1>3. ASSUME NEW ok \in BOOLEAN, UserReplies(ok) PROVE StreamTypes'
  BY <1>3, EventsMade, Added DEF UserReplies, TypeInv
<1>4. CASE Serve \/ Show \/ TaskDone
  BY <1>4, Left DEF Serve, Show, TaskDone, Received, TypeInv
<1>5. ASSUME NEW ok \in BOOLEAN, Answer(ok) PROVE StreamTypes'
  BY <1>5, EventsMade, Added DEF Answer, TypeInv, WorkerTypes
<1>6. CASE TakeTask \/ Drop
  BY <1>6, Left DEF TakeTask, Drop, TypeInv
<1>7. ASSUME NEW ok \in BOOLEAN, PlanReply(ok) \/ ClarifyReply(ok) PROVE StreamTypes'
  BY <1>7, Left DEF PlanReply, ClarifyReply, Replied, TypeInv
<1>8. CASE UNCHANGED vars
  BY <1>8 DEF vars, TypeInv
<1> QED
  BY <1>1, <1>2, <1>3, <1>4, <1>5, <1>6, <1>7, <1>8, AgentKinds
     DEF Next, HostStep, GuestStep, ParentStep


\* The first state has the types.
LEMMA TypeInit == Init => TypeInv
BY DEF Init, TypeInv, StreamTypes, WorkerTypes, AgentTypes, CurInv, Agents, Budget, CallStages

\* Every step keeps the types.
LEMMA TypeStep == TypeInv /\ [Next]_vars => TypeInv'
BY AgentTypesStep, WorkerTypesStep, CurStep, StreamTypesStep DEF TypeInv

\* The types hold in every behaviour.
LEMMA AlwaysTyped == Spec => []TypeInv
BY TypeInit, TypeStep, PTL DEF Spec

\* Each variable has its type; in particular no agent goes over its iterations
\* (range(self._max_iterations) of Agent._run_task), no task over its children
\* (max_children_per_task in _handle_spawn_subagent), and no plan is looked at
\* more often than the skills of a plan are tried.
THEOREM AgentTypeCorrect == Spec => []TypeOK
<1>1. TypeInv => TypeOK
  <2> SUFFICES ASSUME TypeInv PROVE TypeOK
    OBVIOUS
  <2>1. \A i \in DOMAIN toGuest : toGuest[i] \in GuestEvents
    BY DEF TypeInv, StreamTypes
  <2>2. \A i \in DOMAIN toHost : toHost[i] \in HostEvents
    BY DEF TypeInv, StreamTypes
  <2>3. \A a \in Agents : Budget(a) \in Nat \ {0}
    BY DEF Budget
  <2> QED
    BY <2>1, <2>2, <2>3 DEF TypeOK, TypeInv, WorkerTypes, AgentTypes, GuestEvents, HostEvents
<1> QED
  BY <1>1, AlwaysTyped, PTL

\* The guest takes the first event: the others move up by one.
LEMMA GuestReads ==
    ASSUME TypeInv, toGuest # <<>>, toGuest' = Tail(toGuest)
    PROVE  /\ Len(toGuest) \in Nat \ {0} /\ Head(toGuest) = toGuest[1] /\ toGuest[1] \in GuestEvents
           /\ Len(toGuest') = Len(toGuest) - 1
           /\ \A i \in 1 .. Len(toGuest') : i + 1 \in 1 .. Len(toGuest) /\ toGuest'[i] = toGuest[i + 1]
BY Left DEF TypeInv, StreamTypes

\* The host takes the first event: the others move up by one.
LEMMA HostReads ==
    ASSUME TypeInv, toHost # <<>>, toHost' = Tail(toHost)
    PROVE  /\ Len(toHost) \in Nat \ {0} /\ Head(toHost) = toHost[1] /\ toHost[1] \in HostEvents
           /\ Len(toHost') = Len(toHost) - 1
           /\ \A i \in 1 .. Len(toHost') : i + 1 \in 1 .. Len(toHost) /\ toHost'[i] = toHost[i + 1]
BY Left DEF TypeInv, StreamTypes

\* What an agent's step leaves in the stream was there before.
LEMMA ReadsOnly ==
    ASSUME TypeInv, Reads
    PROVE  \A i \in 1 .. Len(toGuest') : \E j \in 1 .. Len(toGuest) : toGuest'[i] = toGuest[j]
<1>1. CASE UNCHANGED toGuest
  BY <1>1
<1>2. CASE toGuest # <<>> /\ toGuest' = Tail(toGuest)
  BY <1>2, GuestReads
<1> QED
  BY <1>1, <1>2 DEF Reads

\* The guest is sent an event: it comes last.
LEMMA GuestGets ==
    ASSUME TypeInv, NEW e \in GuestEvents, toGuest' = Append(toGuest, e)
    PROVE  /\ Len(toGuest) \in Nat /\ Len(toGuest') = Len(toGuest) + 1
           /\ toGuest' # <<>> /\ toGuest'[Len(toGuest) + 1] = e
           /\ \A i \in 1 .. Len(toGuest) : toGuest'[i] = toGuest[i]
           /\ \A i \in 1 .. Len(toGuest') : i # Len(toGuest') => i \in 1 .. Len(toGuest)
BY Added, EmptySeq DEF TypeInv, StreamTypes

\* The host is sent an event: it comes last.
LEMMA HostGets ==
    ASSUME TypeInv, NEW e \in HostEvents, toHost' = Append(toHost, e)
    PROVE  /\ Len(toHost) \in Nat /\ Len(toHost') = Len(toHost) + 1
           /\ toHost' # <<>> /\ toHost'[Len(toHost) + 1] = e
           /\ \A i \in 1 .. Len(toHost) : toHost'[i] = toHost[i]
           /\ \A i \in 1 .. Len(toHost') : i # Len(toHost') => i \in 1 .. Len(toHost)
BY Added, EmptySeq DEF TypeInv, StreamTypes

\* The host is sent two events: they come last, in their order.
LEMMA HostGetsTwo ==
    ASSUME TypeInv, NEW e \in HostEvents, NEW f \in HostEvents,
           toHost' = Append(Append(toHost, e), f)
    PROVE  /\ Len(toHost) \in Nat /\ Len(toHost') = Len(toHost) + 2
           /\ toHost' # <<>> /\ toHost'[Len(toHost) + 2] = f /\ toHost'[Len(toHost) + 1] = e
           /\ \A i \in 1 .. Len(toHost) : toHost'[i] = toHost[i]
           /\ \A i \in 1 .. Len(toHost') :
                 i \notin {Len(toHost) + 1, Len(toHost) + 2} => i \in 1 .. Len(toHost)
<1> DEFINE h == Append(toHost, e)
<1>1. /\ h \in Seq(HostEvents) /\ Len(h) = Len(toHost) + 1 /\ Len(toHost) \in Nat
      /\ h[Len(toHost) + 1] = e /\ \A i \in 1 .. Len(toHost) : h[i] = toHost[i]
  BY Added DEF TypeInv, StreamTypes
<1>2. toHost' = Append(h, f)
  OBVIOUS
<1> HIDE DEF h
<1>3. /\ Len(toHost') = Len(h) + 1 /\ toHost' # <<>> /\ toHost'[Len(h) + 1] = f
      /\ \A i \in 1 .. Len(h) : toHost'[i] = h[i]
  BY <1>1, <1>2, Added, EmptySeq
<1> QED
  BY <1>1, <1>3

----------------------------------------------------------------------------
(* Every task gets one done event.                                         *)

TaskPending == toGuest # <<>> /\ toGuest[Len(toGuest)].type = "task"
DonePending == toHost # <<>> /\ toHost[Len(toHost)].type = "done"

\* A task on its way is the last thing that the worker has sent, to an agent
\* that has sent nothing since; a done event is the last thing that the agent
\* has sent.  Nothing else can be said of a worker that has a task: it has been
\* sent, it runs, or it is done.
TaskInv ==
    /\ \A i \in 1 .. Len(toGuest) : toGuest[i].type = "task" =>
          i = Len(toGuest) /\ toGuest[i].plan = None /\ host = "recv" /\ toHost = <<>> /\ ~Busy
    /\ \A i \in 1 .. Len(toHost) : toHost[i].type = "done" => i = Len(toHost) /\ ~Busy
    /\ host = "idle" => toHost = <<>> /\ ~Busy
    /\ host # "idle" /\ ~Busy => TaskPending \/ DonePending

\* While the parent has a task, none is on its way, and no done event is.
LEMMA NoneUnderWay ==
    ASSUME TypeInv, TaskInv, Busy
    PROVE  /\ \A i \in 1 .. Len(toGuest) : toGuest[i].type # "task"
           /\ \A i \in 1 .. Len(toHost) : toHost[i].type # "done"
           /\ host # "idle"
BY DEF TaskInv

\* At the start there is no task and nothing in the streams.
LEMMA TaskInit == Init => TaskInv
BY DEF Init, TaskInv, Busy, Agents

\* The step to a state in which the parent is at work keeps the invariant if it
\* adds neither a task nor a done event.
LEMMA TaskGoesOn ==
    ASSUME Busy', host' # "idle",
           \A i \in 1 .. Len(toGuest') : toGuest'[i].type # "task",
           \A i \in 1 .. Len(toHost') : toHost'[i].type # "done"
    PROVE  TaskInv'
BY DEF TaskInv

\* No step loses or doubles a task.
LEMMA TaskStep ==
    ASSUME TypeInv, TaskInv, [Next]_vars
    PROVE  TaskInv'
<1> USE DEF Busy, Working, stream, worker, locals
<1>1. ASSUME GoesOn PROVE TaskInv'
  BY <1>1, NoneUnderWay, TaskGoesOn, ReadsOnly DEF GoesOn
<1>2. ASSUME NEW role \in {"plan", "clarification"}, AsksUser(role) PROVE TaskInv'
  <2>1. Prompt(role) \in HostEvents /\ Prompt(role).type = "message"
    BY EventsMade DEF Prompt
  <2>2. Busy /\ Busy' /\ host' = host
    BY <1>2 DEF AsksUser
  <2>3. \A i \in 1 .. Len(toHost') : toHost'[i].type # "done"
    BY <1>2, <2>1, <2>2, NoneUnderWay, HostGets DEF AsksUser
  <2>4. \A i \in 1 .. Len(toGuest') : toGuest'[i].type # "task"
    BY <1>2, <2>2, NoneUnderWay, ReadsOnly DEF AsksUser
  <2> QED
    BY <2>2, <2>3, <2>4, NoneUnderWay, TaskGoesOn
<1>3. ASSUME NEW p \in Plans \cup {None}, Ends(p) PROVE TaskInv'
  <2>1. Done(p) \in HostEvents /\ Done(p).type = "done"
    BY EventsMade DEF Done
  <2>2. \A i \in 1 .. Len(toGuest') : toGuest'[i].type # "task"
    BY <1>3, NoneUnderWay, ReadsOnly DEF Ends
  <2>3. DonePending' /\ \A i \in 1 .. Len(toHost') : toHost'[i].type = "done" => i = Len(toHost')
    BY <1>3, <2>1, NoneUnderWay, HostGets DEF Ends, DonePending
  <2> QED
    BY <1>3, <2>2, <2>3, NoneUnderWay DEF Ends, TaskInv
<1>4. ASSUME NEW p \in Plans \cup {None}, EndsAtLimit(p) PROVE TaskInv'
  <2>1. /\ Done(p) \in HostEvents /\ Done(p).type = "done"
        /\ Prompt("clarification") \in HostEvents /\ Prompt("clarification").type = "message"
    BY EventsMade DEF Done, Prompt
  <2>2. \A i \in 1 .. Len(toGuest') : toGuest'[i].type # "task"
    BY <1>4, NoneUnderWay, ReadsOnly DEF EndsAtLimit
  <2>3. DonePending' /\ \A i \in 1 .. Len(toHost') : toHost'[i].type = "done" => i = Len(toHost')
    <3>1. toHost' = Append(Append(toHost, Prompt("clarification")), Done(p))
      BY <1>4 DEF EndsAtLimit
    <3> QED
      BY <1>4, <2>1, <3>1, NoneUnderWay, HostGetsTwo DEF EndsAtLimit, DonePending
  <2> QED
    BY <1>4, <2>2, <2>3, NoneUnderWay DEF EndsAtLimit, TaskInv
<1>5. ASSUME NEW r \in Ids, Calls(r) PROVE TaskInv'
  <2>1. Request(r) \in HostEvents /\ Request(r).type = "broker_request"
    BY EventsMade DEF Request
  <2>2. \A i \in 1 .. Len(toHost') : toHost'[i].type # "done"
    BY <1>5, <2>1, NoneUnderWay, HostGets DEF Calls
  <2> QED
    BY <1>5, <2>2, NoneUnderWay, TaskGoesOn DEF Calls
<1>6. ASSUME StartTask PROVE TaskInv'
  <2>1. Task(None) \in GuestEvents /\ Task(None).type = "task" /\ Task(None).plan = None
    BY EventsMade DEF Task
  <2> QED
    BY <1>6, <2>1, GuestGets DEF StartTask, StateForFollowUp, TaskInv, TaskPending
<1>7. ASSUME NEW ok \in BOOLEAN, UserReplies(ok) PROVE TaskInv'
  <2>1. Reply(host, ok) \in GuestEvents /\ Reply(host, ok).type = "user_reply"
    BY <1>7, EventsMade DEF UserReplies, Reply
  <2> QED
    BY <1>7, <2>1, GuestGets DEF UserReplies, TaskInv, TaskPending, DonePending
<1>8. ASSUME Serve PROVE TaskInv'
  <2>1. /\ toHost # <<>> /\ toHost' = Tail(toHost) /\ Head(toHost).type # "done"
        /\ host = "recv" /\ host' # "idle" /\ UNCHANGED <<toGuest, pc>>
    BY <1>8 DEF Serve, Received, WaitsForReply
  <2>2. DonePending => DonePending'
    <3>1. /\ Len(toHost) \in Nat \ {0} /\ toHost[1].type # "done" /\ Len(toHost') = Len(toHost) - 1
          /\ \A i \in 1 .. Len(toHost') : toHost'[i] = toHost[i + 1]
      BY <2>1, HostReads
    <3>2. Len(toHost) # 1 => Len(toHost') \in 1 .. Len(toHost') /\ toHost'[Len(toHost')] = toHost[Len(toHost)]
      BY <3>1
    <3> QED
      BY <3>1, <3>2, EmptySeq DEF DonePending
  <2>3. \A i \in 1 .. Len(toHost') : toHost'[i].type = "done" => i = Len(toHost') /\ ~Busy
    <3>1. /\ Len(toHost) \in Nat /\ Len(toHost') = Len(toHost) - 1
          /\ \A i \in 1 .. Len(toHost') : i + 1 \in 1 .. Len(toHost) /\ toHost'[i] = toHost[i + 1]
      BY <2>1, HostReads
    <3>2. \A i \in 1 .. Len(toHost) : toHost[i].type = "done" => i = Len(toHost) /\ ~Busy
      BY DEF TaskInv
    <3> QED
      BY <3>1, <3>2
  <2> QED
    BY <2>1, <2>2, <2>3 DEF TaskInv, TaskPending
<1>9. ASSUME NEW ok \in BOOLEAN, Answer(ok) PROVE TaskInv'
  <2>1. Response(serving, ok) \in GuestEvents /\ Response(serving, ok).type = "broker_response"
    BY <1>9, EventsMade DEF Answer, Response, TypeInv, WorkerTypes
  <2> QED
    BY <1>9, <2>1, GuestGets DEF Answer, TaskInv, TaskPending, DonePending
<1>10. ASSUME Show PROVE TaskInv'
  <2>1. /\ toHost # <<>> /\ toHost' = Tail(toHost) /\ Head(toHost).type # "done"
        /\ host = "recv" /\ host' # "idle" /\ UNCHANGED <<toGuest, pc>>
    BY <1>10 DEF Show, Received, WaitsForReply
  <2>2. DonePending => DonePending'
    <3>1. /\ Len(toHost) \in Nat \ {0} /\ toHost[1].type # "done" /\ Len(toHost') = Len(toHost) - 1
          /\ \A i \in 1 .. Len(toHost') : toHost'[i] = toHost[i + 1]
      BY <2>1, HostReads
    <3>2. Len(toHost) # 1 => Len(toHost') \in 1 .. Len(toHost') /\ toHost'[Len(toHost')] = toHost[Len(toHost)]
      BY <3>1
    <3> QED
      BY <3>1, <3>2, EmptySeq DEF DonePending
  <2>3. \A i \in 1 .. Len(toHost') : toHost'[i].type = "done" => i = Len(toHost') /\ ~Busy
    <3>1. /\ Len(toHost) \in Nat /\ Len(toHost') = Len(toHost) - 1
          /\ \A i \in 1 .. Len(toHost') : i + 1 \in 1 .. Len(toHost) /\ toHost'[i] = toHost[i + 1]
      BY <2>1, HostReads
    <3>2. \A i \in 1 .. Len(toHost) : toHost[i].type = "done" => i = Len(toHost) /\ ~Busy
      BY DEF TaskInv
    <3> QED
      BY <3>1, <3>2
  <2> QED
    BY <2>1, <2>2, <2>3 DEF TaskInv, TaskPending
<1>11. ASSUME TaskDone PROVE TaskInv'
  <2>1. toHost # <<>> /\ toHost' = Tail(toHost) /\ Head(toHost).type = "done" /\ host' = "idle"
    BY <1>11 DEF TaskDone, Received
  <2>2. Len(toHost) = 1 /\ ~Busy
    <3>1. 1 \in 1 .. Len(toHost) /\ toHost[1].type = "done"
      BY <2>1, HostReads
    <3> QED
      BY <3>1 DEF TaskInv
  <2>3. toHost' = <<>>
    BY <2>1, <2>2, HostReads, EmptySeq, StreamTypesStep DEF StreamTypes
  <2> QED
    BY <1>11, <2>1, <2>2, <2>3 DEF TaskDone, TaskInv
<1>12. ASSUME TakeTask PROVE TaskInv'
  <2>1. toGuest # <<>> /\ toGuest' = Tail(toGuest) /\ Head(toGuest).type = "task"
    BY <1>12 DEF TakeTask
  <2>2. Len(toGuest) = 1 /\ host = "recv" /\ toHost = <<>>
    <3>1. 1 \in 1 .. Len(toGuest) /\ toGuest[1].type = "task"
      BY <2>1, GuestReads
    <3> QED
      BY <3>1 DEF TaskInv
  <2>3. Len(toGuest') = 0
    BY <2>1, <2>2, GuestReads
  <2>4. Busy' /\ UNCHANGED <<host, toHost>>
    BY <1>12 DEF TakeTask, Goto, Put, TypeInv, AgentTypes, Agents
  <2> QED
    BY <2>2, <2>3, <2>4, TaskGoesOn
<1>13. ASSUME Drop PROVE TaskInv'
  <2>1. /\ toGuest # <<>> /\ toGuest' = Tail(toGuest) /\ UNCHANGED <<host, toHost, pc>>
        /\ ~Busy => Head(toGuest).type # "task"
    BY <1>13 DEF Drop, At
  <2>2. TaskPending => TaskPending'
    <3>1. Len(toGuest) \in Nat \ {0} /\ Head(toGuest) = toGuest[1] /\ Len(toGuest') = Len(toGuest) - 1
          /\ \A i \in 1 .. Len(toGuest') : toGuest'[i] = toGuest[i + 1]
      BY <2>1, GuestReads
    <3>2. Len(toGuest) # 1 => Len(toGuest') \in 1 .. Len(toGuest') /\ toGuest'[Len(toGuest')] = toGuest[Len(toGuest)]
      BY <3>1
    <3>3. TaskPending => Len(toGuest) \in 1 .. Len(toGuest) /\ toGuest[Len(toGuest)].type = "task"
      BY <3>1 DEF TaskPending
    <3>4. TaskPending => ~Busy
      BY <3>3 DEF TaskInv
    <3>5. TaskPending => Len(toGuest) # 1
      BY <2>1, <3>1, <3>3, <3>4
    <3> QED
      BY <3>1, <3>2, <3>3, <3>5, EmptySeq DEF TaskPending
  <2>3. \A i \in 1 .. Len(toGuest') : toGuest'[i].type = "task" => i = Len(toGuest') /\ toGuest'[i].plan = None
    <3>1. /\ Len(toGuest) \in Nat /\ Len(toGuest') = Len(toGuest) - 1
          /\ \A i \in 1 .. Len(toGuest') : i + 1 \in 1 .. Len(toGuest) /\ toGuest'[i] = toGuest[i + 1]
      BY <2>1, GuestReads
    <3>2. \A i \in 1 .. Len(toGuest) : toGuest[i].type = "task" => i = Len(toGuest) /\ toGuest[i].plan = None
      BY DEF TaskInv
    <3> QED
      BY <3>1, <3>2
  <2>4. ~Busy \/ \A i \in 1 .. Len(toGuest') : toGuest'[i].type # "task"
    BY <2>1, GuestReads, NoneUnderWay
  <2>5. Busy \/ \A i \in 1 .. Len(toGuest') : toGuest'[i].type = "task" => host = "recv" /\ toHost = <<>>
    BY <2>1, GuestReads DEF TaskInv
  <2> QED
    BY <2>1, <2>2, <2>3, <2>4, <2>5 DEF TaskInv, DonePending
<1>14. ASSUME NEW ok \in BOOLEAN, PlanReply(ok) PROVE TaskInv'
  <2>1. Busy /\ Busy' /\ toGuest # <<>> /\ toGuest' = Tail(toGuest) /\ UNCHANGED <<host, toHost>>
    BY <1>14 DEF PlanReply, At, Replied, Accept, Observe, Goto, Put, TypeInv, AgentTypes, Agents
  <2> QED
    BY <2>1, NoneUnderWay, TaskGoesOn, GuestReads
<1>15. ASSUME NEW ok \in BOOLEAN, ClarifyReply(ok) PROVE TaskInv'
  <2>1. Busy /\ Busy' /\ toGuest # <<>> /\ toGuest' = Tail(toGuest) /\ UNCHANGED <<host, toHost>>
    BY <1>15 DEF ClarifyReply, At, Replied, Accept, Observe, Goto, Put, TypeInv, AgentTypes, Agents
  <2> QED
    BY <2>1, NoneUnderWay, TaskGoesOn, GuestReads
<1>16. CASE UNCHANGED vars
  BY <1>16 DEF vars, TaskInv, TaskPending, DonePending
<1> QED
  BY <1>1, <1>2, <1>3, <1>4, <1>5, <1>6, <1>7, <1>8, <1>9, <1>10, <1>11, <1>12, <1>13,
     <1>14, <1>15, <1>16, AgentKinds DEF Kinds, Next, HostStep, GuestStep, ParentStep

\* The task of the host and that of the guest agree in every behaviour.
LEMMA AlwaysTask == Spec => [](TypeInv /\ TaskInv)
<1>1. Init => TypeInv /\ TaskInv
  BY TypeInit, TaskInit
<1>2. TypeInv /\ TaskInv /\ [Next]_vars => (TypeInv /\ TaskInv)'
  BY TypeStep, TaskStep
<1> QED
  BY <1>1, <1>2, PTL DEF Spec

\* At most one event of the kind is in the stream, at its end.
LEMMA CountLast ==
    ASSUME NEW T, NEW s \in Seq(T), NEW type,
           \A i \in 1 .. Len(s) : s[i].type = type => i = Len(s)
    PROVE  Count(s, type) = IF s # <<>> /\ s[Len(s)].type = type THEN 1 ELSE 0
<1>1. Len(s) \in Nat /\ DOMAIN s = 1 .. Len(s)
  BY LenProperties
<1>2. Len(s) = 0 <=> s = <<>>
  BY EmptySeq
<1>3. CASE s # <<>> /\ s[Len(s)].type = type
  <2>1. {i \in DOMAIN s : s[i].type = type} = {Len(s)}
    <3>1. Len(s) \in 1 .. Len(s)
      <4>1. Len(s) # 0
        BY <1>2, <1>3, Zenon
      <4>2. Len(s) \in Nat
        BY <1>1
      <4> QED
        BY <4>1, <4>2
    <3>2. \A i \in 1 .. Len(s) : s[i].type = type <=> i = Len(s)
      BY <1>3
    <3> QED
      BY <1>1, <3>1, <3>2, Zenon
  <2> QED
    BY <1>3, <2>1, FS_Singleton DEF Count
<1>4. CASE ~(s # <<>> /\ s[Len(s)].type = type)
  <2>1. \A i \in 1 .. Len(s) : s[i].type # type
    <3>1. CASE s = <<>>
      BY <1>1, <1>2, <3>1
    <3>2. CASE s # <<>>
      BY <1>4, <3>2
    <3> QED
      BY <3>1, <3>2
  <2>2. {i \in DOMAIN s : s[i].type = type} = {}
    BY <1>1, <2>1, Zenon
  <2> QED
    BY <1>4, <2>2, FS_EmptySet DEF Count
<1> QED
  BY <1>3, <1>4

\* Every task that the worker sends gets one done event, whatever happens in
\* it, and none is sent without a task; while the task event is on its way no
\* call of the agent can eat it ("can race and consume/discard the first task
\* event", Agent.__init__).
THEOREM EveryTaskAnswered == Spec => []TaskAnswered
<1>1. TypeInv /\ TaskInv => TaskAnswered
  <2> SUFFICES ASSUME TypeInv, TaskInv PROVE TaskAnswered
    OBVIOUS
  <2>1. Count(toGuest, "task") = IF TaskPending THEN 1 ELSE 0
    BY CountLast DEF TypeInv, StreamTypes, TaskInv, TaskPending
  <2>2. Count(toHost, "done") = IF DonePending THEN 1 ELSE 0
    BY CountLast DEF TypeInv, StreamTypes, TaskInv, DonePending
  <2>3. /\ TaskPending => Len(toGuest) \in 1 .. Len(toGuest)
        /\ DonePending => Len(toHost) \in 1 .. Len(toHost)
    BY EmptySeq DEF TypeInv, StreamTypes, TaskPending, DonePending
  <2>4. TaskPending => host = "recv" /\ toHost = <<>> /\ ~Busy
    BY <2>3 DEF TaskInv, TaskPending
  <2>5. DonePending => ~Busy /\ toHost # <<>>
    BY <2>3 DEF TaskInv, DonePending
  <2>6. ~Busy => cur = "parent" /\ req = None
    BY DEF Busy, TypeInv, CurInv, AgentTypes, Agents, CallStages
  <2>7. host = "idle" => toHost = <<>> /\ ~Busy
    BY DEF TaskInv
  <2>8. host # "idle" /\ ~Busy => TaskPending \/ DonePending
    BY DEF TaskInv
  <2>9. IF host = "idle" THEN ~TaskPending /\ ~DonePending /\ ~Busy
        ELSE \/ TaskPending /\ ~DonePending /\ ~Busy
             \/ ~TaskPending /\ DonePending /\ ~Busy
             \/ ~TaskPending /\ ~DonePending /\ Busy
    BY <2>4, <2>5, <2>7, <2>8
  <2> QED
    BY <2>1, <2>2, <2>6, <2>9 DEF TaskAnswered
<1> QED
  BY <1>1, AlwaysTask, PTL

----------------------------------------------------------------------------
(* The prompts and the replies to them.                                    *)

Waits(e) == e.type = "message" /\ WaitsForReply(e.role)
AtReply == pc["parent"] \in {"planReply", "clarifyReply"}
Awaited == IF pc["parent"] = "planReply" THEN "plan" ELSE "clarification"

NoWaits == \A i \in 1 .. Len(toHost) : ~Waits(toHost[i])
NoReply == \A i \in 1 .. Len(toGuest) : toGuest[i].type # "user_reply"
NotAsked == host \notin {"plan", "clarification"}

\* While the parent works, nothing that the user would answer is under way.
\* While it waits, the prompt is the last event that it has sent, or the worker
\* waits for the user, or the reply is under way, and it is the only one.  The
\* prompt of a task that has reached its limit is a question.
PromptInv ==
    /\ Working => NoWaits /\ NotAsked /\ NoReply
    /\ AtReply =>
         /\ \A i \in 1 .. Len(toHost) : Waits(toHost[i]) =>
               i = Len(toHost) /\ toHost[i].role = Awaited /\ NotAsked /\ NoReply
         /\ ~NotAsked => host = Awaited /\ NoReply
         /\ \A i, j \in 1 .. Len(toGuest) :
               toGuest[i].type = "user_reply" =>
                  toGuest[i].role = Awaited /\ (toGuest[j].type = "user_reply" => i = j)
    /\ ~Busy =>
         /\ host # "plan"
         /\ \A i \in 1 .. Len(toHost) : Waits(toHost[i]) => toHost[i].role = "clarification"

\* The three cases exclude each other.
LEMMA Stages ==
    ASSUME TypeInv
    PROVE  /\ Working => Busy /\ ~AtReply
           /\ AtReply => Busy
           /\ Working \/ AtReply \/ ~Busy
BY DEF TypeInv, AgentTypes, Agents, CallStages, Working, AtReply, Busy

\* At the start nobody waits for a reply.
LEMMA PromptInit == Init => PromptInv
BY DEF Init, PromptInv, Working, AtReply, Agents

\* A state in which the parent works, and one in which it has no task.
LEMMA Works ==
    ASSUME TypeInv', Working', NoWaits', NotAsked', NoReply'
    PROVE  PromptInv'
BY Stages DEF PromptInv, Working, AtReply, Busy

\* Without an agent at work, no reply is awaited but that of a clarification under way.
LEMMA Rests ==
    ASSUME TypeInv', ~Busy', host' # "plan",
           \A i \in 1 .. Len(toHost') : Waits(toHost'[i]) => toHost'[i].role = "clarification"
    PROVE  PromptInv'
BY DEF PromptInv, Working, AtReply, Busy

\* An event that the worker takes without asking the user
LEMMA PromptTaken ==
    ASSUME TypeInv, PromptInv, [Next]_vars, toHost # <<>>, toHost' = Tail(toHost),
           NotAsked, NotAsked', UNCHANGED <<toGuest, pc>>
    PROVE  PromptInv'
<1>1. /\ Len(toHost) \in Nat \ {0} /\ Len(toHost') = Len(toHost) - 1
      /\ \A i \in 1 .. Len(toHost') : i + 1 \in 1 .. Len(toHost) /\ toHost'[i] = toHost[i + 1]
  BY HostReads
<1>2. CASE Working
  <2>1. NoWaits /\ NoReply
    BY <1>2 DEF PromptInv
  <2>2. NoWaits' /\ NoReply' /\ Working'
    BY <1>1, <1>2, <2>1 DEF NoWaits, NoReply, Waits, WaitsForReply, Working
  <2> QED
    BY <2>2, Works, TypeStep
<1>3. CASE AtReply
  <2>1. AtReply' /\ Awaited' = Awaited /\ Busy' /\ ~Working' /\ (NoReply => NoReply')
    BY <1>3 DEF AtReply, Awaited, Busy, Working, NoReply
  <2>2. \A i \in 1 .. Len(toHost') : Waits(toHost'[i]) =>
           i = Len(toHost') /\ toHost'[i].role = Awaited /\ NoReply
    <3>1. \A i \in 1 .. Len(toHost) : Waits(toHost[i]) =>
             i = Len(toHost) /\ toHost[i].role = Awaited /\ NoReply
      BY <1>3 DEF PromptInv
    <3> QED
      BY <1>1, <3>1 DEF Waits, WaitsForReply
  <2>3. \A i, j \in 1 .. Len(toGuest') :
           toGuest'[i].type = "user_reply" =>
              toGuest'[i].role = Awaited /\ (toGuest'[j].type = "user_reply" => i = j)
    BY <1>3 DEF PromptInv
  <2> QED
    BY <2>1, <2>2, <2>3 DEF PromptInv
<1>4. CASE ~Busy
  BY <1>1, <1>4, Rests, TypeStep DEF PromptInv, Busy, Waits, WaitsForReply, NotAsked
<1> QED
  BY <1>2, <1>3, <1>4, Stages

\* What is on its way to the agent changes, but for its replies.
LEMMA PromptKept ==
    ASSUME TypeInv, PromptInv, [Next]_vars, UNCHANGED <<toHost, pc>>,
           NotAsked => NotAsked', ~NotAsked => UNCHANGED host,
           NEW d \in Nat,
           \A i \in 1 .. Len(toGuest') : toGuest'[i].type = "user_reply" =>
              i + d \in 1 .. Len(toGuest) /\ toGuest'[i] = toGuest[i + d]
    PROVE  PromptInv'
<1>1. NoReply => NoReply'
  BY DEF NoReply
<1>2. CASE Working
  BY <1>1, <1>2, Works, TypeStep DEF PromptInv, Working, NoWaits, Waits, WaitsForReply
<1>3. CASE AtReply
  <2>1. AtReply' /\ Awaited' = Awaited /\ Busy' /\ ~Working'
    BY <1>3 DEF AtReply, Awaited, Busy, Working
  <2>2. \A i \in 1 .. Len(toHost') : Waits(toHost'[i]) =>
           i = Len(toHost') /\ toHost'[i].role = Awaited /\ NotAsked' /\ NoReply'
    BY <1>1, <1>3 DEF PromptInv, Waits, WaitsForReply
  <2>3. ~NotAsked' => host' = Awaited /\ NoReply'
    BY <1>1, <1>3 DEF PromptInv, NotAsked
  <2>4. \A i, j \in 1 .. Len(toGuest) :
           toGuest[i].type = "user_reply" =>
              toGuest[i].role = Awaited /\ (toGuest[j].type = "user_reply" => i = j)
    BY <1>3 DEF PromptInv
  <2>5. \A i, j \in 1 .. Len(toGuest') :
           toGuest'[i].type = "user_reply" =>
              toGuest'[i].role = Awaited /\ (toGuest'[j].type = "user_reply" => i = j)
    <3>1. ASSUME NEW i \in 1 .. Len(toGuest'), toGuest'[i].type = "user_reply"
          PROVE  i + d \in 1 .. Len(toGuest) /\ toGuest'[i] = toGuest[i + d]
      BY <3>1
    <3>2. ASSUME NEW i \in 1 .. Len(toGuest'), toGuest'[i].type = "user_reply"
          PROVE  toGuest'[i].role = Awaited
      BY <2>4, <3>1, <3>2
    <3>3. ASSUME NEW i \in 1 .. Len(toGuest'), toGuest'[i].type = "user_reply",
                 NEW j \in 1 .. Len(toGuest'), toGuest'[j].type = "user_reply"
          PROVE  i = j
      <4>1. i + d = j + d
        BY <2>4, <3>1, <3>3
      <4> QED
        BY <3>3, <4>1
    <3> QED
      BY <3>2, <3>3
  <2> QED
    BY <2>1, <2>2, <2>3, <2>5 DEF PromptInv
<1>4. CASE ~Busy
  BY <1>4, Rests, TypeStep DEF PromptInv, Busy, Waits, WaitsForReply, NotAsked
<1> QED
  BY <1>2, <1>3, <1>4, Stages

\* No prompt goes unanswered, and no reply unasked.
LEMMA PromptStep ==
    ASSUME TypeInv, TaskInv, PromptInv, [Next]_vars
    PROVE  PromptInv'
<1> USE DEF stream, worker, locals
<1>1. ASSUME GoesOn PROVE PromptInv'
  <2>1. NoWaits' /\ NotAsked'
    BY <1>1 DEF GoesOn, PromptInv, NoWaits, NotAsked, Waits, WaitsForReply
  <2>2. NoReply'
    BY <1>1, ReadsOnly DEF GoesOn, PromptInv, NoReply
  <2> QED
    BY <1>1, <2>1, <2>2, Works, TypeStep DEF GoesOn
<1>2. ASSUME NEW role \in {"plan", "clarification"}, AsksUser(role) PROVE PromptInv'
  <2>1. Prompt(role) \in HostEvents /\ Prompt(role).type = "message" /\ Prompt(role).role = role
    BY EventsMade DEF Prompt
  <2>2. NoWaits /\ NotAsked /\ NoReply
    BY <1>2 DEF AsksUser, PromptInv, Working
  <2>3. NotAsked' /\ NoReply'
    BY <1>2, <2>2, ReadsOnly DEF AsksUser, NoReply, NotAsked
  <2>4. \A i \in 1 .. Len(toHost') : Waits(toHost'[i]) => i = Len(toHost') /\ toHost'[i] = Prompt(role)
    BY <1>2, <2>1, <2>2, HostGets DEF AsksUser, NoWaits, Waits
  <2>5. CASE WaitsForReply(role)
    <3>1. AtReply' /\ Awaited' = role
      BY <1>2, <2>5 DEF AsksUser, AtReply, Awaited
    <3>2. Busy' /\ ~Working'
      BY <3>1 DEF AtReply, Busy, Working
    <3>3. host' \notin {"plan", "clarification"}
      BY <2>3 DEF NotAsked
    <3> QED
      BY <2>1, <2>3, <2>4, <3>1, <3>2, <3>3 DEF PromptInv, NoReply
  <2>6. CASE ~WaitsForReply(role)
    <3>1. Working'
      BY <1>2, <2>6 DEF AsksUser, Working
    <3>2. NoWaits'
      BY <2>1, <2>4, <2>6 DEF NoWaits, Waits, WaitsForReply
    <3> QED
      BY <2>3, <3>1, <3>2, Works, TypeStep
  <2> QED
    BY <2>5, <2>6
<1>3. ASSUME NEW p \in Plans \cup {None}, Ends(p) PROVE PromptInv'
  <2>1. Done(p) \in HostEvents /\ Done(p).type = "done"
    BY EventsMade DEF Done
  <2>2. NoWaits /\ host' # "plan"
    BY <1>3 DEF Ends, PromptInv, NotAsked
  <2>3. \A i \in 1 .. Len(toHost') : ~Waits(toHost'[i])
    BY <1>3, <2>1, <2>2, HostGets DEF Ends, NoWaits, Waits
  <2> QED
    BY <1>3, <2>2, <2>3, Rests, TypeStep DEF Ends, Busy
<1>4. ASSUME NEW p \in Plans \cup {None}, EndsAtLimit(p) PROVE PromptInv'
  <2>1. /\ Done(p) \in HostEvents /\ Done(p).type = "done"
        /\ Prompt("clarification") \in HostEvents /\ Prompt("clarification").role = "clarification"
    BY EventsMade DEF Done, Prompt
  <2>2. NoWaits /\ host' # "plan"
    BY <1>4 DEF EndsAtLimit, PromptInv, Working, NotAsked
  <2>3. toHost' = Append(Append(toHost, Prompt("clarification")), Done(p))
    BY <1>4 DEF EndsAtLimit
  <2>4. \A i \in 1 .. Len(toHost') : Waits(toHost'[i]) => toHost'[i].role = "clarification"
    BY <2>1, <2>2, <2>3, HostGetsTwo DEF NoWaits, Waits
  <2> QED
    BY <1>4, <2>2, <2>4, Rests, TypeStep DEF EndsAtLimit, Busy
<1>5. ASSUME NEW r \in Ids, Calls(r) PROVE PromptInv'
  <2>1. Request(r) \in HostEvents /\ Request(r).type = "broker_request"
    BY EventsMade DEF Request
  <2>2. NoWaits /\ NotAsked /\ NoReply
    BY <1>5 DEF Calls, PromptInv
  <2>3. NoWaits'
    BY <1>5, <2>1, <2>2, HostGets DEF Calls, NoWaits, Waits
  <2>4. NotAsked' /\ NoReply' /\ Working'
    BY <1>5, <2>2 DEF Calls, NotAsked, NoReply, Working
  <2> QED
    BY <2>3, <2>4, Works, TypeStep
<1>6. ASSUME StartTask PROVE PromptInv'
  <2>1. ~Busy /\ toHost = <<>>
    BY <1>6 DEF StartTask, TaskInv
  <2>2. ~Busy' /\ Len(toHost') = 0 /\ host' = "recv"
    BY <1>6, <2>1 DEF StartTask, Busy
  <2> QED
    BY <2>2, Rests, TypeStep
<1>7. ASSUME NEW ok \in BOOLEAN, UserReplies(ok) PROVE PromptInv'
  <2>1. Reply(host, ok) \in GuestEvents /\ Reply(host, ok).type = "user_reply" /\ Reply(host, ok).role = host
    BY <1>7, EventsMade DEF UserReplies, Reply
  <2>2. ~NotAsked /\ NotAsked' /\ host' = "recv" /\ UNCHANGED <<toHost, pc>>
    BY <1>7 DEF UserReplies, NotAsked
  <2>3. CASE AtReply
    <3>1. host = Awaited /\ NoReply /\ NoWaits
      BY <2>2, <2>3 DEF PromptInv, NoWaits
    <3>2. \A i \in 1 .. Len(toGuest') : toGuest'[i].type = "user_reply"
             => i = Len(toGuest') /\ toGuest'[i].role = Awaited
      BY <1>7, <2>1, <3>1, GuestGets DEF UserReplies, NoReply
    <3>3. NoWaits' /\ AtReply' /\ Awaited' = Awaited /\ Busy' /\ ~Working'
      BY <2>2, <2>3, <3>1 DEF NoWaits, Waits, WaitsForReply, AtReply, Awaited, Busy, Working
    <3> QED
      BY <2>2, <3>2, <3>3 DEF PromptInv, NoWaits
  <2>4. CASE ~Busy
    BY <2>2, <2>4, Rests, TypeStep DEF PromptInv, Busy, Waits, WaitsForReply
  <2> QED
    BY <2>2, <2>3, <2>4, Stages DEF PromptInv
<1>8. ASSUME Serve PROVE PromptInv'
  <2>1. toHost # <<>> /\ toHost' = Tail(toHost) /\ NotAsked /\ NotAsked' /\ UNCHANGED <<toGuest, pc>>
    BY <1>8 DEF Serve, Received, NotAsked
  <2> QED
    BY <2>1, PromptTaken
<1>9. ASSUME NEW ok \in BOOLEAN, Answer(ok) PROVE PromptInv'
  <2>1. Response(serving, ok) \in GuestEvents /\ Response(serving, ok).type = "broker_response"
    BY <1>9, EventsMade DEF Answer, Response, TypeInv, WorkerTypes
  <2>2. NotAsked /\ NotAsked' /\ UNCHANGED <<toHost, pc>>
    BY <1>9 DEF Answer, NotAsked
  <2>3. /\ Len(toGuest') = Len(toGuest) + 1
        /\ \A i \in 1 .. Len(toGuest') :
              toGuest'[i].type = "user_reply" => i + 0 \in 1 .. Len(toGuest) /\ toGuest'[i] = toGuest[i + 0]
    BY <1>9, <2>1, GuestGets DEF Answer
  <2> QED
    BY <2>2, <2>3, PromptKept DEF NotAsked
<1>10. ASSUME Show PROVE PromptInv'
  <2>1. toHost # <<>> /\ toHost' = Tail(toHost) /\ Head(toHost).type = "message" /\ NotAsked /\ UNCHANGED <<toGuest, pc>>
    BY <1>10 DEF Show, Received, NotAsked
  <2>2. CASE Waits(Head(toHost))
    <3>1. Len(toHost) \in Nat \ {0} /\ Waits(toHost[1]) /\ toHost[1] = Head(toHost) /\ Len(toHost') = Len(toHost) - 1
      BY <2>1, <2>2, HostReads
    <3>2. ~Working
      BY <3>1 DEF PromptInv, NoWaits
    <3>3. CASE AtReply
      <4>1. Len(toHost) = 1 /\ toHost[1].role = Awaited /\ NoReply
        BY <3>1, <3>3 DEF PromptInv
      <4>2. host' = Awaited
        BY <1>10, <2>2, <3>1, <4>1 DEF Show, Waits
      <4>3. Len(toHost') = 0 /\ AtReply' /\ Awaited' = Awaited /\ Busy' /\ ~Working' /\ NoReply'
        BY <2>1, <3>1, <3>3, <4>1 DEF AtReply, Awaited, Busy, Working, NoReply
      <4> QED
        BY <4>2, <4>3 DEF PromptInv, NoReply
    <3>4. CASE ~Busy
      <4>1. \A i \in 1 .. Len(toHost') : i + 1 \in 1 .. Len(toHost) /\ toHost'[i] = toHost[i + 1]
        BY <2>1, HostReads
      <4>2. host' # "plan"
        <5>1. 1 \in 1 .. Len(toHost)
          BY <3>1
        <5>2. Head(toHost).role = "clarification"
          BY <3>1, <3>4, <5>1 DEF PromptInv
        <5> QED
          BY <1>10, <5>2 DEF Show
      <4> QED
        BY <2>1, <3>4, <4>1, <4>2, Rests, TypeStep DEF PromptInv, Busy, Waits, WaitsForReply
    <3> QED
      BY <3>2, <3>3, <3>4, Stages
  <2>3. CASE ~Waits(Head(toHost))
    <3>1. NotAsked'
      BY <1>10, <2>1, <2>3 DEF Show, Waits, NotAsked
    <3> QED
      BY <2>1, <3>1, PromptTaken
  <2> QED
    BY <2>2, <2>3
<1>11. ASSUME TaskDone PROVE PromptInv'
  <2>1. toHost # <<>> /\ toHost' = Tail(toHost) /\ NotAsked /\ NotAsked' /\ UNCHANGED <<toGuest, pc>>
    BY <1>11 DEF TaskDone, Received, NotAsked
  <2> QED
    BY <2>1, PromptTaken
<1>12. ASSUME TakeTask PROVE PromptInv'
  <2>1. toGuest # <<>> /\ toGuest' = Tail(toGuest) /\ Head(toGuest).type = "task"
    BY <1>12 DEF TakeTask
  <2>2. Len(toGuest) = 1 /\ host = "recv" /\ toHost = <<>>
    <3>1. 1 \in 1 .. Len(toGuest) /\ toGuest[1].type = "task"
      BY <2>1, GuestReads
    <3> QED
      BY <3>1 DEF TaskInv
  <2>3. Len(toGuest') = 0 /\ Len(toHost') = 0
    BY <1>12, <2>1, <2>2, GuestReads DEF TakeTask
  <2>4. Working' /\ NotAsked'
    BY <1>12, <2>2 DEF TakeTask, Goto, Put, TypeInv, AgentTypes, Agents, Working, NotAsked
  <2> QED
    BY <2>3, <2>4, Works, TypeStep DEF NoWaits, NoReply
<1>13. ASSUME Drop PROVE PromptInv'
  <2>1. toGuest # <<>> /\ toGuest' = Tail(toGuest) /\ UNCHANGED <<host, toHost, pc>>
    BY <1>13 DEF Drop
  <2>2. \A i \in 1 .. Len(toGuest') : i + 1 \in 1 .. Len(toGuest) /\ toGuest'[i] = toGuest[i + 1]
    BY <2>1, GuestReads
  <2> QED
    BY <2>1, <2>2, PromptKept DEF NotAsked
<1>14. ASSUME NEW ok \in BOOLEAN, PlanReply(ok) PROVE PromptInv'
  <2>1. /\ toGuest # <<>> /\ toGuest' = Tail(toGuest) /\ UNCHANGED <<host, toHost>>
        /\ Head(toGuest).type = "user_reply" /\ AtReply /\ Working'
    BY <1>14 DEF PlanReply, At, Replied, Accept, Observe, Goto, Put, TypeInv, AgentTypes, Agents, AtReply, Working
  <2>2. /\ 1 \in 1 .. Len(toGuest) /\ toGuest[1].type = "user_reply"
        /\ \A i \in 1 .. Len(toGuest') : i + 1 \in 1 .. Len(toGuest) /\ toGuest'[i] = toGuest[i + 1]
    BY <2>1, GuestReads
  <2>3. ~NoReply
    BY <2>2 DEF NoReply
  <2>4. NoWaits' /\ NotAsked'
    BY <2>1, <2>3 DEF PromptInv, NoWaits, NotAsked, Waits, WaitsForReply
  <2>5. NoReply'
    <3>1. \A i \in 1 .. Len(toGuest) : toGuest[i].type = "user_reply" => i = 1
      BY <2>1, <2>2 DEF PromptInv
    <3> QED
      BY <2>2, <3>1 DEF NoReply
  <2> QED
    BY <2>1, <2>4, <2>5, Works, TypeStep
<1>15. ASSUME NEW ok \in BOOLEAN, ClarifyReply(ok) PROVE PromptInv'
  <2>1. /\ toGuest # <<>> /\ toGuest' = Tail(toGuest) /\ UNCHANGED <<host, toHost>>
        /\ Head(toGuest).type = "user_reply" /\ AtReply /\ Working'
    BY <1>15 DEF ClarifyReply, At, Replied, Accept, Observe, Goto, Put, TypeInv, AgentTypes, Agents, AtReply, Working
  <2>2. /\ 1 \in 1 .. Len(toGuest) /\ toGuest[1].type = "user_reply"
        /\ \A i \in 1 .. Len(toGuest') : i + 1 \in 1 .. Len(toGuest) /\ toGuest'[i] = toGuest[i + 1]
    BY <2>1, GuestReads
  <2>3. ~NoReply
    BY <2>2 DEF NoReply
  <2>4. NoWaits' /\ NotAsked'
    BY <2>1, <2>3 DEF PromptInv, NoWaits, NotAsked, Waits, WaitsForReply
  <2>5. NoReply'
    <3>1. \A i \in 1 .. Len(toGuest) : toGuest[i].type = "user_reply" => i = 1
      BY <2>1, <2>2 DEF PromptInv
    <3> QED
      BY <2>2, <3>1 DEF NoReply
  <2> QED
    BY <2>1, <2>4, <2>5, Works, TypeStep
<1>16. CASE UNCHANGED vars
  BY <1>16 DEF vars, PromptInv, NoWaits, NotAsked, NoReply, Waits, WaitsForReply, AtReply, Awaited, Working, Busy
<1> QED
  BY <1>1, <1>2, <1>3, <1>4, <1>5, <1>6, <1>7, <1>8, <1>9, <1>10, <1>11, <1>12, <1>13,
     <1>14, <1>15, <1>16, AgentKinds DEF Kinds, Next, HostStep, GuestStep, ParentStep

\* Prompts and replies meet in every behaviour.
LEMMA AlwaysPrompts == Spec => [](TypeInv /\ TaskInv /\ PromptInv)
<1>1. Init => TypeInv /\ TaskInv /\ PromptInv
  BY TypeInit, TaskInit, PromptInit
<1>2. TypeInv /\ TaskInv /\ PromptInv /\ [Next]_vars => (TypeInv /\ TaskInv /\ PromptInv)'
  BY TypeStep, TaskStep, PromptStep
<1> QED
  BY <1>1, <1>2, PTL DEF Spec

\* A reply of the user finds the agent waiting for that reply; one that comes
\* after the limit of its task has been reached is dropped before the next task
\* is taken (_wait_for_user_reply, _wait_for_task_event).
THEOREM RepliesMeetTheirPrompt == Spec => []ReplyMeetsPrompt
<1>1. TypeInv /\ TaskInv /\ PromptInv => ReplyMeetsPrompt
  <2> SUFFICES ASSUME TypeInv, TaskInv, PromptInv,
                      NEW i \in 1 .. Len(toGuest), toGuest[i].type = "user_reply"
               PROVE  \/ Waiting(toGuest[i].role)
                      \/ ~Busy /\ \A j \in 1 .. i - 1 : toGuest[j].type # "task"
    BY DEF ReplyMeetsPrompt, TypeInv, StreamTypes
  <2>1. ~Working
    BY DEF PromptInv, NoReply
  <2>2. CASE AtReply
    <3>1. toGuest[i].role = Awaited
      BY <2>2 DEF PromptInv
    <3>2. cur = "parent"
      BY <2>2 DEF AtReply, TypeInv, CurInv, AgentTypes, Agents
    <3> QED
      BY <2>2, <3>1, <3>2 DEF AtReply, Awaited, Waiting, At
  <2>3. CASE ~Busy
    <3>1. \A j \in 1 .. Len(toGuest) : toGuest[j].type = "task" => j = Len(toGuest)
      BY DEF TaskInv
    <3>2. Len(toGuest) \in Nat
      BY DEF TypeInv, StreamTypes
    <3> QED
      BY <2>3, <3>1, <3>2
  <2> QED
    BY <2>1, <2>2, <2>3, Stages
<1> QED
  BY <1>1, AlwaysPrompts, PTL

\* "child events never reach adapters" (subagents.py): while a child runs the
\* worker gets nothing that it would show and wait for, and no done event.
THEOREM ChildrenAreSilent == Spec => []ChildrenSilent
<1>1. TypeInv /\ TaskInv /\ PromptInv => ChildrenSilent
  <2> SUFFICES ASSUME TypeInv, TaskInv, PromptInv, cur = "child" PROVE ChildrenSilent
    BY DEF ChildrenSilent
  <2>1. Working /\ Busy
    BY DEF Working, Busy, TypeInv, CurInv
  <2>2. NotAsked /\ NoWaits
    BY <2>1 DEF PromptInv
  <2>3. ASSUME NEW i \in 1 .. Len(toHost)
        PROVE  toHost[i].type = "broker_request" \/ (~Review /\ toHost[i] = Prompt("plan"))
    <3>1. toHost[i] \in HostEvents /\ toHost[i].type # "done" /\ ~Waits(toHost[i])
      BY <2>1, <2>2, <2>3, NoneUnderWay, ElementOfSeq DEF NoWaits, TypeInv, StreamTypes
    <3>2. toHost[i].type = "message" => toHost[i] = Prompt(toHost[i].role)
      BY <3>1, HostEventIs
    <3>3. toHost[i].type = "message" => toHost[i].role = "plan" /\ ~Review
      BY <3>1, HostEventIs DEF Waits, WaitsForReply
    <3> QED
      BY <3>1, <3>2, <3>3, HostEventIs
  <2>4. DOMAIN toHost = 1 .. Len(toHost)
    BY LenProperties DEF TypeInv, StreamTypes
  <2> QED
    BY <2>2, <2>3, <2>4 DEF NotAsked, ChildrenSilent
<1> QED
  BY <1>1, AlwaysPrompts, PTL

----------------------------------------------------------------------------
(* The plan that the parent works by.                                      *)

\* A task begins without a plan, and in review mode the plan whose skills are
\* looked at has been approved.
PlanInv ==
    /\ pc["parent"] = "integrations" => plan["parent"] = None /\ draft["parent"] = None
    /\ Review /\ pc["parent"] = "activate" => draft["parent"].approved
    /\ ApprovedPlan

\* No step lets the parent work by a plan that the user has not approved.
LEMMA PlanStep ==
    ASSUME TypeInv, TaskInv, PlanInv, [Next]_vars
    PROVE  PlanInv'
<1> USE DEF PlanInv, ApprovedPlan, TypeInv, AgentTypes, CurInv, Agents, CallStages, stream, worker, locals
<1>1. ASSUME StartTask PROVE PlanInv'
  BY <1>1, PlansMade DEF StartTask, StateForFollowUp, Task
<1>2. ASSUME NEW ok \in BOOLEAN, UserReplies(ok) PROVE PlanInv'
  BY <1>2, PlansMade DEF UserReplies, Reply
<1>3. ASSUME Serve PROVE PlanInv'
  BY <1>3, PlansMade DEF Serve, Received
<1>4. ASSUME NEW ok \in BOOLEAN, Answer(ok) PROVE PlanInv'
  BY <1>4, PlansMade DEF Answer, Response
<1>5. ASSUME Show PROVE PlanInv'
  BY <1>5, PlansMade DEF Show, Received, WaitsForReply
<1>6. ASSUME TaskDone PROVE PlanInv'
  BY <1>6, PlansMade DEF TaskDone, Received
<1>7. ASSUME TakeTask PROVE PlanInv'
  <2>1. toGuest # <<>> /\ Head(toGuest).type = "task" /\ toGuest' = Tail(toGuest)
    BY <1>7 DEF TakeTask
  <2>2. Head(toGuest).plan = None
    <3>1. 1 \in 1 .. Len(toGuest) /\ toGuest[1].type = "task" /\ Head(toGuest) = toGuest[1]
      BY <2>1, GuestReads
    <3> QED
      BY <3>1 DEF TaskInv
  <2> QED
    BY <1>7, <2>2, PlansMade DEF TakeTask, Goto, Put
<1>8. ASSUME Drop PROVE PlanInv'
  BY <1>8, PlansMade DEF Drop, At
<1>9. ASSUME NEW ok \in BOOLEAN, PlanReply(ok) PROVE PlanInv'
  BY <1>9, PlansMade DEF PlanReply, At, Replied, Accept, Put, Goto
<1>10. ASSUME NEW ok \in BOOLEAN, ClarifyReply(ok) PROVE PlanInv'
  BY <1>10, PlansMade DEF ClarifyReply, At, Replied, Observe, Put, Goto
<1>11. ASSUME ChooseClarify PROVE PlanInv'
  BY <1>11, PlansMade DEF ChooseClarify, At, Returns, Emit, Prompt, Goto, Put
<1>12. ASSUME ChooseSpawn PROVE PlanInv'
  BY <1>12, PlansMade DEF ChooseSpawn, At, Returns
<1>13. ASSUME ChildTimeout PROVE PlanInv'
  BY <1>13, PlansMade DEF ChildTimeout, At, End, Forget, Emit, Put, Goto
<1>14. ASSUME NEW a \in Agents, NEW r \in Ids, Call(a, r) PROVE PlanInv'
  BY <1>14, PlansMade DEF Call, Request
<1>15. ASSUME NEW a \in Agents, Discard(a) PROVE PlanInv'
  BY <1>15, PlansMade DEF Discard
<1>16. ASSUME NEW a \in Agents, NEW ok \in BOOLEAN, IntegrationsLoaded(a, ok) PROVE PlanInv'
  BY <1>16, PlansMade DEF IntegrationsLoaded, At, Returns, Goto, Put
<1>17. ASSUME NEW a \in Agents, NEW k \in {"known", "unknown"}, PlanMade(a, k) PROVE PlanInv'
  <2>1. cur = a /\ pc[a] = "plan" /\ cur' = cur
    BY <1>17 DEF PlanMade, At
  <2>2. CASE a = "child"
    <3>1. UNCHANGED <<pc["parent"], plan["parent"], draft["parent"]>>
      BY <1>17, <2>1, <2>2, PlansMade DEF PlanMade, Accept, Goto, Put, Asks
    <3> QED
      BY <3>1
  <2>3. CASE a = "parent"
    <3>1. pc'["parent"] = IF Review THEN "planReply" ELSE "activate"
      BY <1>17, <2>3 DEF PlanMade, Accept, Goto, Put, Asks
    <3> QED
      BY <3>1
  <2> QED
    BY <2>2, <2>3
<1>18. ASSUME NEW a \in Agents, PlanFails(a) PROVE PlanInv'
  BY <1>18, PlansMade DEF PlanFails, At, Returns, Fail, Finish, End, Forget, Emit, Done,
     Goto, Put
<1>19. ASSUME NEW a \in Agents, Activate(a) PROVE PlanInv'
  BY <1>19, PlansMade DEF Activate, At, Put, Goto
<1>20. ASSUME NEW a \in Agents, ActivationFails(a) PROVE PlanInv'
  BY <1>20, PlansMade DEF ActivationFails, At, Fail, Finish, End, Forget, Emit, Done, Goto,
     Put
<1>21. ASSUME NEW a \in Agents, NEW ok \in BOOLEAN, PromptBuilt(a, ok) PROVE PlanInv'
  BY <1>21, PlansMade DEF PromptBuilt, At, Returns, Goto, Put
<1>22. ASSUME NEW a \in Agents, SummaryFails(a) PROVE PlanInv'
  BY <1>22, PlansMade DEF SummaryFails, At, Returns, Observe, Goto, Put
<1>23. ASSUME NEW a \in Agents, NEW ok \in BOOLEAN, Observation(a, ok) PROVE PlanInv'
  BY <1>23, PlansMade DEF Observation, At, Returns, Observe, Goto, Put
<1>24. ASSUME NEW a \in Agents, ChooseTool(a) PROVE PlanInv'
  BY <1>24, PlansMade DEF ChooseTool, At, Returns, Goto, Put
<1>25. ASSUME NEW a \in Agents, NEW ok \in BOOLEAN, ToolReturns(a, ok) PROVE PlanInv'
  BY <1>25, PlansMade DEF ToolReturns, At, Returns, Observe, Goto, Put
<1>26. ASSUME NEW a \in Agents, ChooseDone(a) PROVE PlanInv'
  BY <1>26, PlansMade DEF ChooseDone, At, Returns, Finish, End, Forget, Emit, Done, Goto,
     Put
<1>27. ASSUME NEW a \in Agents, ChooseReplan(a) PROVE PlanInv'
  BY <1>27, PlansMade DEF ChooseReplan, At, Returns, Goto, Put
<1>28. ASSUME NEW a \in Agents, Limit(a) PROVE PlanInv'
  BY <1>28, PlansMade DEF Limit, At, End, Forget, Emit, Prompt, Done, Goto, Put
<1>29. CASE UNCHANGED vars
  BY <1>29 DEF vars
<1> QED
  BY <1>1, <1>2, <1>3, <1>4, <1>5, <1>6, <1>7, <1>8, <1>9, <1>10, <1>11, <1>12, <1>13,
     <1>14, <1>15, <1>16, <1>17, <1>18, <1>19, <1>20, <1>21, <1>22, <1>23, <1>24, <1>25,
     <1>26, <1>27, <1>28, <1>29 DEF Next, HostStep, GuestStep, ParentStep, AgentStep

\* In approval mode "review" the parent works only by a plan that the user has
\* approved in this task, after a resume, a replan or an unknown skill too
\* (_planning_phase, _run_task, _handle_control_decision).
THEOREM OnlyApprovedPlans == Spec => []ApprovedPlan
<1>1. Init => TypeInv /\ TaskInv /\ PlanInv
  BY TypeInit, TaskInit DEF Init, PlanInv, ApprovedPlan, Agents
<1>2. TypeInv /\ TaskInv /\ PlanInv /\ [Next]_vars => (TypeInv /\ TaskInv /\ PlanInv)'
  BY TypeStep, TaskStep, PlanStep
<1>3. PlanInv => ApprovedPlan
  BY DEF PlanInv
<1> QED
  BY <1>1, <1>2, <1>3, PTL DEF Spec

----------------------------------------------------------------------------
(* Requests to the host's services and their answers.                      *)

\* A request is on its way, or the host serves it, or its answer is on its way,
\* and no two of these have one id.
IdInv ==
    /\ \A i, j \in 1 .. Len(toHost) :
          toHost[i].type = "broker_request" /\ toHost[j].type = "broker_request"
             /\ toHost[i].id = toHost[j].id => i = j
    /\ \A i, j \in 1 .. Len(toGuest) :
          toGuest[i].type = "broker_response" /\ toGuest[j].type = "broker_response"
             /\ toGuest[i].id = toGuest[j].id => i = j
    /\ \A i \in 1 .. Len(toHost), j \in 1 .. Len(toGuest) :
          toHost[i].type = "broker_request" /\ toGuest[j].type = "broker_response"
             => toHost[i].id # toGuest[j].id
    /\ \A i \in 1 .. Len(toHost) : toHost[i].type = "broker_request" => toHost[i].id # serving
    /\ \A i \in 1 .. Len(toGuest) : toGuest[i].type = "broker_response" => toGuest[i].id # serving

\* At the start no request is under way.
LEMMA IdInit == Init => IdInv
BY DEF Init, IdInv

\* A fresh id is that of no request and of no answer.
LEMMA FreshIs ==
    ASSUME TypeInv, NEW r \in Ids
    PROVE  Fresh(r) <=>
              /\ r # serving
              /\ \A i \in 1 .. Len(toHost) : toHost[i].type = "broker_request" => toHost[i].id # r
              /\ \A i \in 1 .. Len(toGuest) : toGuest[i].type = "broker_response" => toGuest[i].id # r
<1>1. DOMAIN toHost = 1 .. Len(toHost) /\ DOMAIN toGuest = 1 .. Len(toGuest)
  BY LenProperties DEF TypeInv, StreamTypes
<1>2. ASSUME NEW i \in 1 .. Len(toHost)
      PROVE  toHost[i] = Request(r) <=> toHost[i].type = "broker_request" /\ toHost[i].id = r
  <2>1. toHost[i] \in HostEvents
    BY <1>2, ElementOfSeq DEF TypeInv, StreamTypes
  <2>2. Request(r).type = "broker_request" /\ Request(r).id = r
    BY DEF Request
  <2> QED
    BY <2>1, <2>2, HostEventIs
<1>3. ASSUME NEW i \in 1 .. Len(toGuest)
      PROVE  (\E ok \in BOOLEAN : toGuest[i] = Response(r, ok))
                <=> toGuest[i].type = "broker_response" /\ toGuest[i].id = r
  <2>1. toGuest[i] \in GuestEvents
    BY <1>3, ElementOfSeq DEF TypeInv, StreamTypes
  <2>2. \A ok \in BOOLEAN : Response(r, ok).type = "broker_response" /\ Response(r, ok).id = r
    BY DEF Response
  <2> QED
    BY <2>1, <2>2, GuestEventIs
<1> QED
  BY <1>1, <1>2, <1>3, Zenon DEF Fresh

\* The requests, and the answers, under way after a step were under way before
\* it, in the same order.
GuestShift ==
    \E d \in Nat : \A i \in 1 .. Len(toGuest') : toGuest'[i].type = "broker_response" =>
       i + d \in 1 .. Len(toGuest) /\ toGuest'[i] = toGuest[i + d]

HostShift ==
    \E d \in Nat : \A i \in 1 .. Len(toHost') : toHost'[i].type = "broker_request" =>
       i + d \in 1 .. Len(toHost) /\ toHost'[i] = toHost[i + d]

\* What is read, or added without being an answer, moves the answers at most.
LEMMA GuestShifts ==
    ASSUME TypeInv
    PROVE  /\ UNCHANGED toGuest => GuestShift
           /\ toGuest # <<>> /\ toGuest' = Tail(toGuest) => GuestShift
           /\ Reads => GuestShift
           /\ \A e \in GuestEvents :
                 e.type # "broker_response" /\ toGuest' = Append(toGuest, e) => GuestShift
<1>1. ASSUME UNCHANGED toGuest PROVE GuestShift
  <2>1. \A i \in 1 .. Len(toGuest') : i + 0 \in 1 .. Len(toGuest) /\ toGuest'[i] = toGuest[i + 0]
    BY <1>1
  <2> QED
    BY <2>1 DEF GuestShift
<1>2. ASSUME toGuest # <<>>, toGuest' = Tail(toGuest) PROVE GuestShift
  BY <1>2, GuestReads DEF GuestShift
<1>3. ASSUME NEW e \in GuestEvents, e.type # "broker_response", toGuest' = Append(toGuest, e)
      PROVE  GuestShift
  <2>1. \A i \in 1 .. Len(toGuest') : toGuest'[i].type = "broker_response" =>
           i + 0 \in 1 .. Len(toGuest) /\ toGuest'[i] = toGuest[i + 0]
    BY <1>3, GuestGets
  <2> QED
    BY <2>1 DEF GuestShift
<1> QED
  BY <1>1, <1>2, <1>3 DEF Reads

\* What is read, or added without being a request, moves the requests at most.
LEMMA HostShifts ==
    ASSUME TypeInv
    PROVE  /\ UNCHANGED toHost => HostShift
           /\ toHost # <<>> /\ toHost' = Tail(toHost) => HostShift
           /\ \A e \in HostEvents :
                 e.type # "broker_request" /\ toHost' = Append(toHost, e) => HostShift
           /\ \A e, f \in HostEvents :
                 e.type # "broker_request" /\ f.type # "broker_request"
                    /\ toHost' = Append(Append(toHost, e), f) => HostShift
<1>1. ASSUME UNCHANGED toHost PROVE HostShift
  <2>1. \A i \in 1 .. Len(toHost') : i + 0 \in 1 .. Len(toHost) /\ toHost'[i] = toHost[i + 0]
    BY <1>1
  <2> QED
    BY <2>1 DEF HostShift
<1>2. ASSUME toHost # <<>>, toHost' = Tail(toHost) PROVE HostShift
  BY <1>2, HostReads DEF HostShift
<1>3. ASSUME NEW e \in HostEvents, e.type # "broker_request", toHost' = Append(toHost, e)
      PROVE  HostShift
  <2>1. \A i \in 1 .. Len(toHost') : toHost'[i].type = "broker_request" =>
           i + 0 \in 1 .. Len(toHost) /\ toHost'[i] = toHost[i + 0]
    BY <1>3, HostGets
  <2> QED
    BY <2>1 DEF HostShift
<1>4. ASSUME NEW e \in HostEvents, e.type # "broker_request",
             NEW f \in HostEvents, f.type # "broker_request",
             toHost' = Append(Append(toHost, e), f)
      PROVE  HostShift
  <2>1. \A i \in 1 .. Len(toHost') : toHost'[i].type = "broker_request" =>
           i + 0 \in 1 .. Len(toHost) /\ toHost'[i] = toHost[i + 0]
    BY <1>4, HostGetsTwo
  <2> QED
    BY <2>1 DEF HostShift
<1> QED
  BY <1>1, <1>2, <1>3, <1>4

\* Steps that make neither a request nor an answer
LEMMA IdKept ==
    ASSUME IdInv, UNCHANGED serving, GuestShift, HostShift
    PROVE  IdInv'
<1>1. PICK d \in Nat : \A i \in 1 .. Len(toGuest') : toGuest'[i].type = "broker_response" =>
         i + d \in 1 .. Len(toGuest) /\ toGuest'[i] = toGuest[i + d]
  BY DEF GuestShift
<1>2. PICK e \in Nat : \A i \in 1 .. Len(toHost') : toHost'[i].type = "broker_request" =>
         i + e \in 1 .. Len(toHost) /\ toHost'[i] = toHost[i + e]
  BY DEF HostShift
<1>3. \A i, j \in 1 .. Len(toHost') :
         toHost'[i].type = "broker_request" /\ toHost'[j].type = "broker_request"
            /\ toHost'[i].id = toHost'[j].id => i = j
  <2>1. \A i, j \in 1 .. Len(toHost) :
           toHost[i].type = "broker_request" /\ toHost[j].type = "broker_request"
              /\ toHost[i].id = toHost[j].id => i = j
    BY DEF IdInv
  <2> QED
    BY <1>2, <2>1
<1>4. \A i, j \in 1 .. Len(toGuest') :
         toGuest'[i].type = "broker_response" /\ toGuest'[j].type = "broker_response"
            /\ toGuest'[i].id = toGuest'[j].id => i = j
  <2>1. \A i, j \in 1 .. Len(toGuest) :
           toGuest[i].type = "broker_response" /\ toGuest[j].type = "broker_response"
              /\ toGuest[i].id = toGuest[j].id => i = j
    BY DEF IdInv
  <2>2. ASSUME NEW i \in 1 .. Len(toGuest'), NEW j \in 1 .. Len(toGuest'),
               toGuest'[i].type = "broker_response", toGuest'[j].type = "broker_response",
               toGuest'[i].id = toGuest'[j].id
        PROVE  i = j
    <3>1. /\ i + d \in 1 .. Len(toGuest) /\ toGuest'[i] = toGuest[i + d]
          /\ j + d \in 1 .. Len(toGuest) /\ toGuest'[j] = toGuest[j + d]
      BY <1>1, <2>2
    <3>2. i + d = j + d
      BY <2>1, <2>2, <3>1
    <3> QED
      BY <2>2, <3>2
  <2> QED
    BY <2>2
<1>5. \A i \in 1 .. Len(toHost'), j \in 1 .. Len(toGuest') :
         toHost'[i].type = "broker_request" /\ toGuest'[j].type = "broker_response"
            => toHost'[i].id # toGuest'[j].id
  <2>1. \A i \in 1 .. Len(toHost), j \in 1 .. Len(toGuest) :
           toHost[i].type = "broker_request" /\ toGuest[j].type = "broker_response"
              => toHost[i].id # toGuest[j].id
    BY DEF IdInv
  <2>2. ASSUME NEW i \in 1 .. Len(toHost'), NEW j \in 1 .. Len(toGuest'),
               toHost'[i].type = "broker_request", toGuest'[j].type = "broker_response"
        PROVE  toHost'[i].id # toGuest'[j].id
    <3>1. /\ i + e \in 1 .. Len(toHost) /\ toHost'[i] = toHost[i + e]
          /\ j + d \in 1 .. Len(toGuest) /\ toGuest'[j] = toGuest[j + d]
      BY <1>1, <1>2, <2>2
    <3> QED
      BY <2>1, <2>2, <3>1
  <2> QED
    BY <2>2
<1>6. /\ \A i \in 1 .. Len(toHost') : toHost'[i].type = "broker_request" => toHost'[i].id # serving'
      /\ \A i \in 1 .. Len(toGuest') : toGuest'[i].type = "broker_response" => toGuest'[i].id # serving'
  BY <1>1, <1>2 DEF IdInv
<1> QED
  BY <1>3, <1>4, <1>5, <1>6 DEF IdInv

\* No step gives two requests one id.
LEMMA IdStep ==
    ASSUME TypeInv, IdInv, [Next]_vars
    PROVE  IdInv'
<1> USE DEF stream, worker, locals
<1>1. ASSUME GoesOn PROVE IdInv'
  BY <1>1, GuestShifts, HostShifts, IdKept DEF GoesOn
<1>2. ASSUME NEW role \in {"plan", "clarification"}, AsksUser(role) PROVE IdInv'
  <2>1. Prompt(role) \in HostEvents /\ Prompt(role).type = "message"
    BY EventsMade DEF Prompt
  <2> QED
    BY <1>2, <2>1, GuestShifts, HostShifts, IdKept DEF AsksUser
<1>3. ASSUME NEW p \in Plans \cup {None}, Ends(p) PROVE IdInv'
  <2>1. Done(p) \in HostEvents /\ Done(p).type = "done"
    BY EventsMade DEF Done
  <2> QED
    BY <1>3, <2>1, GuestShifts, HostShifts, IdKept DEF Ends
<1>4. ASSUME NEW p \in Plans \cup {None}, EndsAtLimit(p) PROVE IdInv'
  <2>1. /\ Done(p) \in HostEvents /\ Done(p).type = "done"
        /\ Prompt("clarification") \in HostEvents /\ Prompt("clarification").type = "message"
    BY EventsMade DEF Done, Prompt
  <2> QED
    BY <1>4, <2>1, GuestShifts, HostShifts, IdKept DEF EndsAtLimit
<1>5. ASSUME NEW r \in Ids, Calls(r) PROVE IdInv'
  <2>1. Request(r) \in HostEvents /\ Request(r).type = "broker_request" /\ Request(r).id = r
    BY EventsMade DEF Request
  <2>2. /\ Len(toHost) \in Nat /\ Len(toHost') = Len(toHost) + 1
        /\ toHost'[Len(toHost) + 1] = Request(r)
        /\ \A i \in 1 .. Len(toHost) : toHost'[i] = toHost[i]
    BY <1>5, <2>1, HostGets DEF Calls
  <2>3. /\ r # serving
        /\ \A i \in 1 .. Len(toHost) : toHost[i].type = "broker_request" => toHost[i].id # r
        /\ \A i \in 1 .. Len(toGuest) : toGuest[i].type = "broker_response" => toGuest[i].id # r
    BY <1>5, FreshIs DEF Calls
  <2>4. UNCHANGED <<toGuest, serving>>
    BY <1>5 DEF Calls
  <2>5. \A i, j \in 1 .. Len(toHost') :
           toHost'[i].type = "broker_request" /\ toHost'[j].type = "broker_request"
              /\ toHost'[i].id = toHost'[j].id => i = j
    BY <2>1, <2>2, <2>3 DEF IdInv
  <2>6. \A i \in 1 .. Len(toHost'), j \in 1 .. Len(toGuest) :
           toHost'[i].type = "broker_request" /\ toGuest[j].type = "broker_response"
              => toHost'[i].id # toGuest[j].id
    BY <2>1, <2>2, <2>3 DEF IdInv
  <2>7. \A i \in 1 .. Len(toHost') : toHost'[i].type = "broker_request" => toHost'[i].id # serving
    BY <2>1, <2>2, <2>3 DEF IdInv
  <2> QED
    BY <2>4, <2>5, <2>6, <2>7 DEF IdInv
<1>6. ASSUME StartTask PROVE IdInv'
  <2>1. Task(None) \in GuestEvents /\ Task(None).type = "task"
    BY EventsMade DEF Task
  <2> QED
    BY <1>6, <2>1, GuestShifts, HostShifts, IdKept DEF StartTask, StateForFollowUp
<1>7. ASSUME NEW ok \in BOOLEAN, UserReplies(ok) PROVE IdInv'
  <2>1. Reply(host, ok) \in GuestEvents /\ Reply(host, ok).type = "user_reply"
    BY <1>7, EventsMade DEF UserReplies, Reply
  <2> QED
    BY <1>7, <2>1, GuestShifts, HostShifts, IdKept DEF UserReplies
<1>8. ASSUME Serve PROVE IdInv'
  <2>1. /\ toHost # <<>> /\ toHost' = Tail(toHost) /\ Head(toHost).type = "broker_request"
        /\ serving' = Head(toHost).id /\ UNCHANGED toGuest
    BY <1>8 DEF Serve, Received
  <2>2. /\ 1 \in 1 .. Len(toHost) /\ Head(toHost) = toHost[1]
        /\ \A i \in 1 .. Len(toHost') : i + 1 \in 1 .. Len(toHost) /\ toHost'[i] = toHost[i + 1]
    BY <2>1, HostReads
  <2>3. \A i, j \in 1 .. Len(toHost') :
           toHost'[i].type = "broker_request" /\ toHost'[j].type = "broker_request"
              /\ toHost'[i].id = toHost'[j].id => i = j
    BY <2>2 DEF IdInv
  <2>4. \A i \in 1 .. Len(toHost'), j \in 1 .. Len(toGuest) :
           toHost'[i].type = "broker_request" /\ toGuest[j].type = "broker_response"
              => toHost'[i].id # toGuest[j].id
    BY <2>2 DEF IdInv
  <2>5. \A i \in 1 .. Len(toHost') : toHost'[i].type = "broker_request" => toHost'[i].id # serving'
    <3>1. ASSUME NEW i \in 1 .. Len(toHost'), toHost'[i].type = "broker_request", toHost'[i].id = serving'
          PROVE  FALSE
      <4>1. i + 1 = 1
        BY <2>1, <2>2, <3>1 DEF IdInv
      <4> QED
        BY <3>1, <4>1
    <3> QED
      BY <3>1
  <2>6. \A i \in 1 .. Len(toGuest) : toGuest[i].type = "broker_response" => toGuest[i].id # serving'
    BY <2>1, <2>2 DEF IdInv
  <2> QED
    BY <2>1, <2>3, <2>4, <2>5, <2>6 DEF IdInv
<1>9. ASSUME NEW ok \in BOOLEAN, Answer(ok) PROVE IdInv'
  <2>1. /\ Response(serving, ok) \in GuestEvents /\ serving \in Ids
        /\ Response(serving, ok).type = "broker_response" /\ Response(serving, ok).id = serving
    BY <1>9, EventsMade DEF Answer, Response, TypeInv, WorkerTypes
  <2>2. /\ Len(toGuest) \in Nat /\ Len(toGuest') = Len(toGuest) + 1
        /\ toGuest'[Len(toGuest) + 1] = Response(serving, ok)
        /\ \A i \in 1 .. Len(toGuest) : toGuest'[i] = toGuest[i]
    BY <1>9, <2>1, GuestGets DEF Answer
  <2>3. UNCHANGED toHost /\ serving' = None
    BY <1>9 DEF Answer
  <2>4. \A i, j \in 1 .. Len(toGuest') :
           toGuest'[i].type = "broker_response" /\ toGuest'[j].type = "broker_response"
              /\ toGuest'[i].id = toGuest'[j].id => i = j
    BY <2>1, <2>2 DEF IdInv
  <2>5. \A i \in 1 .. Len(toHost), j \in 1 .. Len(toGuest') :
           toHost[i].type = "broker_request" /\ toGuest'[j].type = "broker_response"
              => toHost[i].id # toGuest'[j].id
    BY <2>1, <2>2 DEF IdInv
  <2>6. \A i \in 1 .. Len(toHost) : toHost[i].type = "broker_request" => toHost[i].id # None
    BY ElementOfSeq, HostEventIs DEF TypeInv, StreamTypes
  <2>7. \A i \in 1 .. Len(toGuest') : toGuest'[i].type = "broker_response" => toGuest'[i].id # None
    <3>1. toGuest' \in Seq(GuestEvents)
      BY TypeStep DEF TypeInv, StreamTypes
    <3> QED
      BY <3>1, ElementOfSeq, GuestEventIs
  <2> QED
    BY <2>3, <2>4, <2>5, <2>6, <2>7 DEF IdInv
<1>10. ASSUME Show PROVE IdInv'
  BY <1>10, GuestShifts, HostShifts, IdKept DEF Show, Received
<1>11. ASSUME TaskDone PROVE IdInv'
  BY <1>11, GuestShifts, HostShifts, IdKept DEF TaskDone, Received
<1>12. ASSUME TakeTask PROVE IdInv'
  BY <1>12, GuestShifts, HostShifts, IdKept DEF TakeTask
<1>13. ASSUME Drop PROVE IdInv'
  BY <1>13, GuestShifts, HostShifts, IdKept DEF Drop
<1>14. ASSUME NEW ok \in BOOLEAN, PlanReply(ok) PROVE IdInv'
  BY <1>14, GuestShifts, HostShifts, IdKept DEF PlanReply, Replied
<1>15. ASSUME NEW ok \in BOOLEAN, ClarifyReply(ok) PROVE IdInv'
  BY <1>15, GuestShifts, HostShifts, IdKept DEF ClarifyReply, Replied
<1>16. CASE UNCHANGED vars
  BY <1>16 DEF vars, IdInv
<1> QED
  BY <1>1, <1>2, <1>3, <1>4, <1>5, <1>6, <1>7, <1>8, <1>9, <1>10, <1>11, <1>12, <1>13,
     <1>14, <1>15, <1>16, AgentKinds DEF Kinds, Next, HostStep, GuestStep, ParentStep

\* An id of which nothing is left is fresh.
LEMMA FreshPrime ==
    ASSUME TypeInv', NEW r \in Ids, r # serving',
           \A i \in 1 .. Len(toHost') : toHost'[i].type = "broker_request" => toHost'[i].id # r,
           \A i \in 1 .. Len(toGuest') : toGuest'[i].type = "broker_response" => toGuest'[i].id # r
    PROVE  Fresh(r)'
<1>1. DOMAIN toHost' = 1 .. Len(toHost') /\ DOMAIN toGuest' = 1 .. Len(toGuest')
  BY LenProperties DEF TypeInv, StreamTypes
<1>2. Request(r).type = "broker_request" /\ Request(r).id = r
  BY DEF Request
<1>3. \A ok \in BOOLEAN : Response(r, ok).type = "broker_response" /\ Response(r, ok).id = r
  BY DEF Response
<1> QED
  BY <1>1, <1>2, <1>3, Zenon DEF Fresh

\* A call that takes an event off the stream as its answer leaves nothing of its
\* request behind, in spite of the answers that come late to calls that were
\* given up (BrokerClient._call_fire).
THEOREM AnswersAreOwn == Spec => OwnAnswer
<1>1. Init => TypeInv /\ IdInv
  BY TypeInit, IdInit
<1>2. TypeInv /\ IdInv /\ [Next]_vars => (TypeInv /\ IdInv)'
  BY TypeStep, IdStep
<1>3. ASSUME TypeInv, IdInv, [Next]_vars, NEW r \in Ids, req = r, req' = None, toGuest' # toGuest
      PROVE  ~Outstanding(r)'
  <2>1. req # None /\ req' # req
    BY <1>3
  <2>2. Kinds
    <3>1. CASE StartTask
      BY <2>1, <3>1 DEF StartTask
    <3>2. ASSUME NEW ok \in BOOLEAN, UserReplies(ok) \/ Answer(ok) PROVE FALSE
      BY <2>1, <3>2 DEF UserReplies, Answer
    <3>3. CASE Serve \/ Show \/ TaskDone
      BY <2>1, <3>3 DEF Serve, Show, TaskDone
    <3>4. CASE TakeTask \/ Drop
      BY <2>1, <3>4 DEF TakeTask, Drop
    <3>5. ASSUME NEW ok \in BOOLEAN, PlanReply(ok) \/ ClarifyReply(ok) PROVE FALSE
      BY <2>1, <3>5 DEF PlanReply, ClarifyReply
    <3>6. CASE UNCHANGED vars
      BY <2>1, <3>6 DEF vars
    <3> QED
      BY <1>3, <3>1, <3>2, <3>3, <3>4, <3>5, <3>6, AgentKinds
         DEF Next, HostStep, GuestStep, ParentStep
  <2>3. Reads /\ UNCHANGED serving
    BY <1>3, <2>2 DEF Kinds, GoesOn, AsksUser, Ends, EndsAtLimit, Calls, worker
  <2>4. PICK ok \in BOOLEAN : toGuest # <<>> /\ toGuest' = Tail(toGuest) /\ Head(toGuest) = Response(r, ok)
    BY <1>3, <2>1, <2>3 DEF Reads
  <2>5. /\ 1 \in 1 .. Len(toGuest) /\ toGuest[1].type = "broker_response" /\ toGuest[1].id = r
        /\ \A i \in 1 .. Len(toGuest') : i + 1 \in 1 .. Len(toGuest) /\ toGuest'[i] = toGuest[i + 1]
    <3>1. Response(r, ok).type = "broker_response" /\ Response(r, ok).id = r
      BY DEF Response
    <3>2. /\ Len(toGuest) \in Nat \ {0} /\ Head(toGuest) = toGuest[1]
          /\ \A i \in 1 .. Len(toGuest') : i + 1 \in 1 .. Len(toGuest) /\ toGuest'[i] = toGuest[i + 1]
      BY <1>3, <2>4, GuestReads
    <3> QED
      BY <2>4, <3>1, <3>2
  <2>6. \A i \in 1 .. Len(toGuest') : toGuest'[i].type = "broker_response" => toGuest'[i].id # r
    <3>1. ASSUME NEW i \in 1 .. Len(toGuest'), toGuest'[i].type = "broker_response", toGuest'[i].id = r
          PROVE  FALSE
      <4>1. i + 1 = 1
        BY <1>3, <2>5, <3>1 DEF IdInv
      <4> QED
        BY <3>1, <4>1
    <3> QED
      BY <3>1
  <2>7. \A i \in 1 .. Len(toHost) : toHost[i].type = "broker_request" => toHost[i].id # r
    BY <1>3, <2>5 DEF IdInv
  <2>8. r # serving
    BY <1>3, <2>5 DEF IdInv
  <2>9. \A i \in 1 .. Len(toHost') : toHost'[i].type = "broker_request" => toHost'[i].id # r
    <3>1. CASE GoesOn
      BY <2>7, <3>1 DEF GoesOn
    <3>2. ASSUME NEW e \in HostEvents, e.type # "broker_request", toHost' = Append(toHost, e)
          PROVE  \A i \in 1 .. Len(toHost') : toHost'[i].type = "broker_request" => toHost'[i].id # r
      BY <1>3, <2>7, <3>2, HostGets
    <3>3. ASSUME NEW role \in {"plan", "clarification"}, AsksUser(role)
          PROVE  \A i \in 1 .. Len(toHost') : toHost'[i].type = "broker_request" => toHost'[i].id # r
      <4>1. Prompt(role) \in HostEvents /\ Prompt(role).type = "message"
        BY EventsMade DEF Prompt
      <4> QED
        BY <3>2, <3>3, <4>1 DEF AsksUser
    <3>4. ASSUME NEW p \in Plans \cup {None}, Ends(p) \/ EndsAtLimit(p)
          PROVE  \A i \in 1 .. Len(toHost') : toHost'[i].type = "broker_request" => toHost'[i].id # r
      <4>1. /\ Done(p) \in HostEvents /\ Done(p).type = "done"
            /\ Prompt("clarification") \in HostEvents /\ Prompt("clarification").type = "message"
        BY EventsMade DEF Done, Prompt
      <4>2. CASE Ends(p)
        BY <3>2, <4>1, <4>2 DEF Ends
      <4>3. CASE EndsAtLimit(p)
        <5>1. toHost' = Append(Append(toHost, Prompt("clarification")), Done(p))
          BY <4>3 DEF EndsAtLimit
        <5> QED
          BY <1>3, <2>7, <4>1, <5>1, HostGetsTwo
      <4> QED
        BY <3>4, <4>2, <4>3
    <3>5. ASSUME NEW q \in Ids, Calls(q) PROVE FALSE
      BY <1>3, <3>5 DEF Calls
    <3> QED
      BY <2>2, <3>1, <3>3, <3>4, <3>5 DEF Kinds
  <2>10. Fresh(r)'
    <3>1. TypeInv'
      BY <1>3, TypeStep
    <3>2. r # serving' /\ r \in Ids
      BY <2>3, <2>8
    <3> QED
      BY <2>6, <2>9, <3>1, <3>2, FreshPrime
  <2> QED
    BY <2>10 DEF Outstanding
<1>4. TypeInv /\ IdInv /\ [Next]_vars =>
         [\A r \in Ids : req = r /\ req' = None /\ toGuest' # toGuest => ~Outstanding(r)']_vars
  BY <1>3
<1> QED
  BY <1>1, <1>2, <1>4, PTL DEF Spec, OwnAnswer

----------------------------------------------------------------------------
(* The session that the user sees.                                         *)

\* Work, questions about it and the user's approval on its way need the user's
\* consent.
ConsentInv ==
    /\ consent \in BOOLEAN
    /\ Review /\ pc["parent"] \in {"activate", "prompt", "choose", "tool", "clarifyReply"} => consent
    /\ Review /\ pc["parent"] = "planReply" =>
          \A i \in 1 .. Len(toGuest) :
             toGuest[i].type = "user_reply" /\ toGuest[i].approved => consent
    /\ Review =>
          \A i \in 1 .. Len(toHost) :
             toHost[i].type = "message" /\ toHost[i].role = "clarification" => consent

\* When the user's consent changes
LEMMA ConsentMoves ==
    ASSUME MCNext
    PROVE  /\ Next
           /\ host' = host => consent' = consent
           /\ host = "plan" /\ host' # host => consent' = UserReplies(TRUE)
           /\ host # "plan" /\ host' = "plan" => consent' = FALSE
           /\ host = "idle" /\ host' # host => consent' = FALSE
           /\ host \notin {"plan", "idle"} /\ host' # "plan" => consent' = consent
BY DEF MCNext

\* At the start the user has consented to nothing.
LEMMA ConsentInit == MCInit => ConsentInv
<1> SUFFICES ASSUME MCInit PROVE ConsentInv
  OBVIOUS
<1>1. pc["parent"] = "idle" /\ consent = FALSE /\ Len(toHost) = 0
  BY DEF MCInit, Init, Agents
<1>2. \A i \in 1 .. Len(toHost) : FALSE
  BY <1>1
<1> QED
  BY <1>1, <1>2 DEF ConsentInv

\* Steps that ask nothing and tell the agent of no approval
LEMMA ConsentKept ==
    ASSUME ConsentInv, UNCHANGED consent,
           Review /\ pc'["parent"] \in {"activate", "prompt", "choose", "tool", "clarifyReply"}
               => consent,
           Review /\ pc'["parent"] = "planReply" =>
              \A i \in 1 .. Len(toGuest') : toGuest'[i].type = "user_reply" /\ toGuest'[i].approved
                 => consent,
           Review =>
              \A i \in 1 .. Len(toHost') : toHost'[i].type = "message" /\ toHost'[i].role = "clarification"
                 => consent
    PROVE  ConsentInv'
BY DEF ConsentInv

\* No step lets the agent work, or ask about its work, without consent.
LEMMA ConsentStep ==
    ASSUME TypeInv, TaskInv, PromptInv, PlanInv, ConsentInv, MCNext
    PROVE  ConsentInv'
<1> USE DEF stream, worker, locals
<1>1. ASSUME GoesOn PROVE ConsentInv'
  <2>1. UNCHANGED consent
    BY <1>1, ConsentMoves DEF GoesOn
  <2>2. Review /\ pc'["parent"] \in {"activate", "prompt", "choose", "tool", "clarifyReply"} => consent
    BY <1>1 DEF GoesOn, Working, ConsentInv, PlanInv
  <2>3. Review /\ pc'["parent"] = "planReply" =>
           \A i \in 1 .. Len(toGuest') : toGuest'[i].type = "user_reply" /\ toGuest'[i].approved => consent
    BY <1>1 DEF GoesOn, Working
  <2>4. Review =>
           \A i \in 1 .. Len(toHost') : toHost'[i].type = "message" /\ toHost'[i].role = "clarification" => consent
    BY <1>1 DEF GoesOn, ConsentInv
  <2> QED
    BY <2>1, <2>2, <2>3, <2>4, ConsentKept
<1>2. ASSUME NEW role \in {"plan", "clarification"}, AsksUser(role) PROVE ConsentInv'
  <2>1. UNCHANGED consent
    BY <1>2, ConsentMoves DEF AsksUser
  <2>2. Prompt(role) \in HostEvents /\ Prompt(role).type = "message" /\ Prompt(role).role = role
    BY EventsMade DEF Prompt
  <2>3. Working
    BY <1>2 DEF AsksUser, Working
  <2>4. Review /\ role = "clarification" => consent
    BY <1>2 DEF AsksUser, ConsentInv
  <2>5. Review /\ pc'["parent"] \in {"activate", "prompt", "choose", "tool", "clarifyReply"} => consent
    BY <1>2, <2>4 DEF AsksUser, WaitsForReply
  <2>6. Review /\ pc'["parent"] = "planReply" =>
           \A i \in 1 .. Len(toGuest') : toGuest'[i].type = "user_reply" /\ toGuest'[i].approved => consent
    BY <1>2, <2>3, ReadsOnly DEF AsksUser, PromptInv, NoReply
  <2>7. Review =>
           \A i \in 1 .. Len(toHost') : toHost'[i].type = "message" /\ toHost'[i].role = "clarification" => consent
    BY <1>2, <2>2, <2>4, HostGets DEF AsksUser, ConsentInv
  <2> QED
    BY <2>1, <2>5, <2>6, <2>7, ConsentKept
<1>3. ASSUME NEW p \in Plans \cup {None}, Ends(p) PROVE ConsentInv'
  <2>1. UNCHANGED consent
    BY <1>3, ConsentMoves DEF Ends
  <2>2. Done(p) \in HostEvents /\ Done(p).type = "done"
    BY EventsMade DEF Done
  <2>3. Review /\ pc'["parent"] \in {"activate", "prompt", "choose", "tool", "clarifyReply"} => consent
    BY <1>3 DEF Ends
  <2>4. Review /\ pc'["parent"] = "planReply" =>
           \A i \in 1 .. Len(toGuest') : toGuest'[i].type = "user_reply" /\ toGuest'[i].approved => consent
    BY <1>3 DEF Ends
  <2>5. Review =>
           \A i \in 1 .. Len(toHost') : toHost'[i].type = "message" /\ toHost'[i].role = "clarification" => consent
    BY <1>3, <2>2, HostGets DEF Ends, ConsentInv
  <2> QED
    BY <2>1, <2>3, <2>4, <2>5, ConsentKept
<1>4. ASSUME NEW p \in Plans \cup {None}, EndsAtLimit(p) PROVE ConsentInv'
  <2>1. UNCHANGED consent
    BY <1>4, ConsentMoves DEF EndsAtLimit
  <2>2. /\ Done(p) \in HostEvents /\ Done(p).type = "done"
        /\ Prompt("clarification") \in HostEvents
    BY EventsMade DEF Done
  <2>3. Review => consent
    BY <1>4 DEF EndsAtLimit, ConsentInv
  <2>4. Review /\ pc'["parent"] \in {"activate", "prompt", "choose", "tool", "clarifyReply"} => consent
    BY <1>4 DEF EndsAtLimit
  <2>5. Review /\ pc'["parent"] = "planReply" =>
           \A i \in 1 .. Len(toGuest') : toGuest'[i].type = "user_reply" /\ toGuest'[i].approved => consent
    BY <1>4 DEF EndsAtLimit
  <2>6. Review =>
           \A i \in 1 .. Len(toHost') : toHost'[i].type = "message" /\ toHost'[i].role = "clarification" => consent
    BY <1>4, <2>3
  <2> QED
    BY <2>1, <2>4, <2>5, <2>6, ConsentKept
<1>5. ASSUME NEW r \in Ids, Calls(r) PROVE ConsentInv'
  <2>1. UNCHANGED consent
    BY <1>5, ConsentMoves DEF Calls
  <2>2. Request(r) \in HostEvents /\ Request(r).type = "broker_request"
    BY EventsMade DEF Request
  <2>3. Review /\ pc'["parent"] \in {"activate", "prompt", "choose", "tool", "clarifyReply"} => consent
    BY <1>5 DEF Calls, ConsentInv
  <2>4. Review /\ pc'["parent"] = "planReply" =>
           \A i \in 1 .. Len(toGuest') : toGuest'[i].type = "user_reply" /\ toGuest'[i].approved => consent
    BY <1>5 DEF Calls, Working
  <2>5. Review =>
           \A i \in 1 .. Len(toHost') : toHost'[i].type = "message" /\ toHost'[i].role = "clarification" => consent
    BY <1>5, <2>2, HostGets DEF Calls, ConsentInv
  <2> QED
    BY <2>1, <2>3, <2>4, <2>5, ConsentKept
<1>6. ASSUME StartTask PROVE ConsentInv'
  <2>1. ~Busy /\ toHost = <<>>
    BY <1>6 DEF StartTask, TaskInv
  <2>2. consent' = FALSE
    BY <1>6, ConsentMoves DEF StartTask
  <2>3. pc'["parent"] = "idle" /\ Len(toHost') = 0
    BY <1>6, <2>1 DEF StartTask, Busy
  <2>4. \A i \in 1 .. Len(toHost') : FALSE
    BY <2>3
  <2> QED
    BY <2>2, <2>3, <2>4 DEF ConsentInv
<1>7. ASSUME NEW ok \in BOOLEAN, UserReplies(ok) PROVE ConsentInv'
  <2>1. Reply(host, ok) \in GuestEvents /\ Reply(host, ok).type = "user_reply" /\ Reply(host, ok).approved = ok
    BY <1>7, EventsMade DEF UserReplies, Reply
  <2>2. ~NotAsked /\ UNCHANGED <<toHost, pc>> /\ host' = "recv"
    BY <1>7 DEF UserReplies, NotAsked
  <2>3. CASE host = "plan"
    <3>1. AtReply /\ Awaited = "plan" /\ NoReply
      BY <2>2, <2>3, Stages DEF PromptInv
    <3>2. pc["parent"] = "planReply" /\ NoWaits
      BY <2>2, <3>1 DEF AtReply, Awaited, PromptInv, NoWaits
    <3>3. consent' = UserReplies(TRUE)
      BY <2>2, <2>3, ConsentMoves
    <3>4. consent' \in BOOLEAN
      BY <3>3 DEF UserReplies
    <3>5. ok => consent'
      BY <1>7, <3>3
    <3>6. \A i \in 1 .. Len(toGuest') :
             toGuest'[i].type = "user_reply" /\ toGuest'[i].approved => consent'
      BY <1>7, <2>1, <3>1, <3>5, GuestGets DEF UserReplies, NoReply
    <3>7. Review => \A i \in 1 .. Len(toHost') :
             ~(toHost'[i].type = "message" /\ toHost'[i].role = "clarification")
      BY <2>2, <3>2 DEF NoWaits, Waits, WaitsForReply
    <3> QED
      BY <2>2, <3>2, <3>4, <3>6, <3>7 DEF ConsentInv
  <2>4. CASE host = "clarification"
    <3>1. consent' = consent
      BY <2>2, <2>4, ConsentMoves
    <3>2. pc["parent"] # "planReply"
      BY <2>2, <2>4 DEF PromptInv, AtReply, Awaited
    <3> QED
      BY <2>2, <3>1, <3>2 DEF ConsentInv
  <2> QED
    BY <1>7, <2>3, <2>4 DEF UserReplies
<1>8. ASSUME Serve PROVE ConsentInv'
  <2>1. toHost # <<>> /\ toHost' = Tail(toHost) /\ UNCHANGED <<toGuest, pc, consent>>
    BY <1>8, ConsentMoves DEF Serve, Received
  <2>2. \A i \in 1 .. Len(toHost') : i + 1 \in 1 .. Len(toHost) /\ toHost'[i] = toHost[i + 1]
    BY <2>1, HostReads
  <2> QED
    BY <2>1, <2>2 DEF ConsentInv
<1>9. ASSUME NEW ok \in BOOLEAN, Answer(ok) PROVE ConsentInv'
  <2>1. Response(serving, ok) \in GuestEvents /\ Response(serving, ok).type = "broker_response"
    BY <1>9, EventsMade DEF Answer, Response, TypeInv, WorkerTypes
  <2>2. UNCHANGED <<toHost, pc, consent>>
    BY <1>9, ConsentMoves DEF Answer
  <2>3. \A i \in 1 .. Len(toGuest') :
           toGuest'[i].type = "user_reply" => i \in 1 .. Len(toGuest) /\ toGuest'[i] = toGuest[i]
    BY <1>9, <2>1, GuestGets DEF Answer
  <2> QED
    BY <2>2, <2>3 DEF ConsentInv
<1>10. ASSUME Show PROVE ConsentInv'
  <2>1. toHost # <<>> /\ toHost' = Tail(toHost) /\ host = "recv" /\ UNCHANGED <<toGuest, pc>>
    BY <1>10 DEF Show, Received
  <2>2. /\ Len(toHost) \in Nat \ {0} /\ Head(toHost) = toHost[1] /\ Len(toHost') = Len(toHost) - 1
        /\ \A i \in 1 .. Len(toHost') : i + 1 \in 1 .. Len(toHost) /\ toHost'[i] = toHost[i + 1]
    BY <2>1, HostReads
  <2>3. CASE host' = "plan"
    <3>1. consent' = FALSE
      BY <2>1, <2>3, ConsentMoves
    <3>2. Waits(toHost[1]) /\ toHost[1].role = "plan" /\ 1 \in 1 .. Len(toHost)
      BY <1>10, <2>2, <2>3 DEF Show, Received, Waits
    <3>3. AtReply /\ Busy
      BY <3>2, Stages DEF PromptInv, NoWaits
    <3>4. Len(toHost) = 1 /\ Awaited = "plan" /\ NoReply
      BY <3>2, <3>3 DEF PromptInv
    <3>5. pc'["parent"] = "planReply" /\ Len(toHost') = 0 /\ NoReply'
      BY <2>1, <2>2, <3>3, <3>4 DEF AtReply, Awaited, NoReply
    <3>6. \A i \in 1 .. Len(toHost') : FALSE
      BY <3>5
    <3> QED
      BY <3>1, <3>5, <3>6 DEF ConsentInv, NoReply
  <2>4. CASE host' # "plan"
    <3>1. consent' = consent
      BY <2>1, <2>4, ConsentMoves
    <3> QED
      BY <2>1, <2>2, <3>1 DEF ConsentInv
  <2> QED
    BY <2>3, <2>4
<1>11. ASSUME TaskDone PROVE ConsentInv'
  <2>1. toHost # <<>> /\ toHost' = Tail(toHost) /\ UNCHANGED <<toGuest, pc, consent>>
    BY <1>11, ConsentMoves DEF TaskDone, Received
  <2>2. \A i \in 1 .. Len(toHost') : i + 1 \in 1 .. Len(toHost) /\ toHost'[i] = toHost[i + 1]
    BY <2>1, HostReads
  <2> QED
    BY <2>1, <2>2 DEF ConsentInv
<1>12. ASSUME TakeTask PROVE ConsentInv'
  <2>1. UNCHANGED <<toHost, consent>> /\ pc'["parent"] = "integrations"
    BY <1>12, ConsentMoves DEF TakeTask, Goto, Put, TypeInv, AgentTypes, Agents
  <2> QED
    BY <2>1 DEF ConsentInv
<1>13. ASSUME Drop PROVE ConsentInv'
  <2>1. toGuest # <<>> /\ toGuest' = Tail(toGuest) /\ UNCHANGED <<toHost, pc, consent>>
    BY <1>13, ConsentMoves DEF Drop
  <2>2. \A i \in 1 .. Len(toGuest') : i + 1 \in 1 .. Len(toGuest) /\ toGuest'[i] = toGuest[i + 1]
    BY <2>1, GuestReads
  <2> QED
    BY <2>1, <2>2 DEF ConsentInv
<1>14. ASSUME NEW ok \in BOOLEAN, PlanReply(ok) PROVE ConsentInv'
  <2>1. /\ toGuest # <<>> /\ Head(toGuest).type = "user_reply" /\ Head(toGuest).approved = ok
        /\ pc["parent"] = "planReply" /\ toGuest' = Tail(toGuest) /\ UNCHANGED <<toHost, consent>>
    BY <1>14, ConsentMoves DEF PlanReply, At, Replied
  <2>2. pc'["parent"] = IF ok THEN "activate" ELSE "plan"
    BY <1>14 DEF PlanReply, Accept, Goto, Put, TypeInv, AgentTypes, Agents
  <2>3. 1 \in 1 .. Len(toGuest) /\ Head(toGuest) = toGuest[1]
    BY <2>1, GuestReads
  <2>4. Review /\ ok => consent
    BY <2>1, <2>3 DEF ConsentInv
  <2> QED
    BY <2>1, <2>2, <2>4 DEF ConsentInv
<1>15. ASSUME NEW ok \in BOOLEAN, ClarifyReply(ok) PROVE ConsentInv'
  <2>1. pc["parent"] = "clarifyReply" /\ pc'["parent"] = "prompt" /\ UNCHANGED <<toHost, consent>>
    BY <1>15, ConsentMoves DEF ClarifyReply, At, Observe, Goto, Put, TypeInv, AgentTypes, Agents
  <2> QED
    BY <2>1 DEF ConsentInv
<1> QED
  BY <1>1, <1>2, <1>3, <1>4, <1>5, <1>6, <1>7, <1>8, <1>9, <1>10, <1>11, <1>12, <1>13,
     <1>14, <1>15, ConsentMoves, AgentKinds DEF Kinds, Next, HostStep, GuestStep, ParentStep

SessionInv == TypeInv /\ TaskInv /\ PromptInv /\ PlanInv /\ ConsentInv

\* All of the invariants hold at the start ...
LEMMA SessionInit == MCInit => SessionInv
BY TypeInit, TaskInit, PromptInit, ConsentInit
   DEF MCInit, SessionInv, Init, PlanInv, ApprovedPlan, Agents

\* ... every step of agent, worker and streams keeps them ...
LEMMA SessionStep == SessionInv /\ [MCNext]_<<vars, consent>> => SessionInv'
<1> SUFFICES ASSUME SessionInv, [MCNext]_<<vars, consent>> PROVE SessionInv'
  OBVIOUS
<1>1. [Next]_vars
  BY DEF MCNext
<1>2. (TypeInv /\ TaskInv /\ PromptInv /\ PlanInv)'
  BY <1>1, TypeStep, TaskStep, PromptStep, PlanStep DEF SessionInv
<1>3. CASE MCNext
  BY <1>2, <1>3, ConsentStep DEF SessionInv
<1>4. CASE UNCHANGED <<vars, consent>>
  BY <1>2, <1>4 DEF SessionInv, ConsentInv, vars, stream
<1> QED
  BY <1>3, <1>4

\* ... and so they hold in every behaviour.
LEMMA AlwaysSession == MCSpec => []SessionInv
BY SessionInit, SessionStep, PTL DEF MCSpec

\* The agent's steps are not seen in the session.
LEMMA HostSteps ==
    ASSUME TypeInv, Next, host' # host
    PROVE  \/ StartTask \/ Serve \/ Show \/ TaskDone
           \/ \E ok \in BOOLEAN : UserReplies(ok) \/ Answer(ok)
<1>1. Kinds => UNCHANGED host
  BY DEF Kinds, GoesOn, AsksUser, Ends, EndsAtLimit, Calls, worker
<1>2. TakeTask \/ Drop => UNCHANGED host
  BY DEF TakeTask, Drop, worker
<1>3. ASSUME NEW ok \in BOOLEAN, PlanReply(ok) \/ ClarifyReply(ok) PROVE UNCHANGED host
  BY <1>3 DEF PlanReply, ClarifyReply, worker
<1> QED
  BY <1>1, <1>2, <1>3, AgentKinds DEF Next, HostStep, GuestStep, ParentStep

\* Every step of agent and worker is a step of the session that the user sees,
\* or does not show: a turn of the user begins only with a prompt and ends with
\* the reply to it, a task ends in the agent's turn, and in review mode no
\* question about the work is asked before the plan shown last has been approved
\* (WAIT_ROLES of _SessionWorker, _planning_phase).  It is the safety part of
\* IsSession.
THEOREM ShowsSession == MCSpec => S!Init /\ [][S!Next]_(S!vars)
<1>1. MCInit => S!Init
  BY DEF MCInit, Init, S!Init
<1>2. SessionInv /\ [MCNext]_<<vars, consent>> => [S!Next]_(S!vars)
  <2>1. ASSUME SessionInv, MCNext PROVE S!Next \/ UNCHANGED S!vars
    <3>1. CASE host' = host
      <4>1. consent' = consent
        BY <2>1, <3>1, ConsentMoves
      <4> QED
        BY <3>1, <4>1 DEF S!vars
    <3>2. CASE host' # host
      <4>1. CASE StartTask
        <5>1. host = "idle" /\ host' = "recv" /\ consent' = FALSE
          BY <2>1, <4>1, ConsentMoves DEF StartTask
        <5> QED
          BY <5>1 DEF S!Next, S!Start
      <4>2. ASSUME NEW ok \in BOOLEAN, UserReplies(ok) PROVE S!Next
        <5>1. host \in {"plan", "clarification"} /\ host' = "recv"
          BY <4>2 DEF UserReplies
        <5>2. consent' \in BOOLEAN
          BY <2>1, SessionStep DEF SessionInv, ConsentInv
        <5>3. host = "clarification" => consent' = consent
          BY <2>1, <5>1, ConsentMoves
        <5>4. S!Reply(consent')
          BY <5>1, <5>3 DEF S!Reply, S!Roles
        <5> QED
          BY <5>2, <5>4 DEF S!Next
      <4>3. CASE Serve
        <5>1. host = "recv" /\ host' = "serve" /\ consent' = consent
          BY <2>1, <4>3, ConsentMoves DEF Serve, Received
        <5> QED
          BY <5>1 DEF S!vars
      <4>4. ASSUME NEW ok \in BOOLEAN, Answer(ok) PROVE UNCHANGED S!vars
        <5>1. host = "serve" /\ host' = "recv" /\ consent' = consent
          BY <2>1, <4>4, ConsentMoves DEF Answer
        <5> QED
          BY <5>1 DEF S!vars
      <4>5. CASE Show
        <5>1. host = "recv" /\ toHost # <<>> /\ Head(toHost).type = "message"
          BY <4>5 DEF Show, Received
        <5>2. host' = Head(toHost).role /\ WaitsForReply(Head(toHost).role)
          BY <3>2, <4>5, <5>1 DEF Show
        <5>3. CASE host' = "plan"
          <6>1. Review /\ consent' = FALSE
            BY <2>1, <5>1, <5>2, <5>3, ConsentMoves DEF WaitsForReply
          <6> QED
            BY <5>1, <5>3, <6>1 DEF S!Next, S!AgentMoves, S!AskPlan
        <5>4. CASE host' = "clarification"
          <6>1. consent' = consent
            BY <2>1, <5>1, <5>4, ConsentMoves
          <6>2. 1 \in 1 .. Len(toHost) /\ Head(toHost) = toHost[1]
            BY <2>1, <4>5, <5>1, HostReads DEF Show, SessionInv
          <6>3. Review => consent
            BY <2>1, <5>1, <5>2, <5>4, <6>2 DEF SessionInv, ConsentInv
          <6> QED
            BY <5>1, <5>4, <6>1, <6>3 DEF S!Next, S!AgentMoves, S!AskClarification
        <5> QED
          BY <5>2, <5>3, <5>4 DEF WaitsForReply
      <4>6. CASE TaskDone
        <5>1. host = "recv" /\ host' = "idle" /\ consent' = consent
          BY <2>1, <4>6, ConsentMoves DEF TaskDone, Received
        <5> QED
          BY <5>1 DEF S!Next, S!AgentMoves, S!Finish
      <4>7. TypeInv /\ Next
        BY <2>1, ConsentMoves DEF SessionInv
      <4> QED
        BY <3>2, <4>1, <4>2, <4>3, <4>4, <4>5, <4>6, <4>7, HostSteps
    <3> QED
      BY <3>1, <3>2
  <2>2. ASSUME UNCHANGED <<vars, consent>> PROVE UNCHANGED S!vars
    BY <2>2 DEF vars, worker, S!vars
  <2> QED
    BY <2>1, <2>2
<1> QED
  BY <1>1, <1>2, AlwaysSession, PTL DEF MCSpec

============================================================================
