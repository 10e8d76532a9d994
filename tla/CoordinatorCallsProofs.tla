----------------------- MODULE CoordinatorCallsProofs -----------------------
(***************************************************************************)
(* Theorems about who drives and who answers a session's task, for the     *)
(* program as main() assembles it while it runs: each session is used by   *)
(* one adapter thread, and a session that is stopped is a Yolo session     *)
(* (the adapters stop a session only when they end).  The last one: each   *)
(* session is then a SessionWorker, whatever the others do.                *)
(***************************************************************************)
EXTENDS CoordinatorProofs, CoordinatorEvents, SequenceTheorems

\* No stop that a worker may outlive: stop_all is not reached, and sessions
\* are stopped in Yolo only.
JoinsEnd == ~Shutdown /\ (Fire => Stoppable = {})

\* Each session is used by one adapter thread at a time: the CLI's thread, or
\* the event loop of a chat.
CallsApart == \A t, u \in Callers : t # u /\ arg[t] # None => arg[t] # arg[u]

\* A stop_session has taken w from its session's record and waits for it.
Joined(w) == \E t \in Callers : pc[t] = "join" /\ w \in held[t] /\ arg[t] = wsess[w]

\* The locals of a call: the session of a stop or of a starting task has no
\* worker, and a thread that stops it has captured its sandbox.
CallLocal(t) ==
    /\ op[t] # "stopall" /\ (t = Main => pc[t] = "idle")
    /\ pc[t] = "join" => t \in Callers /\ op[t] = "stop" /\ ~Fire
    /\ held[t] # {} => pc[t] \in {"put", "join"}
    /\ op[t] = "stop" \/ pc[t] = "failed" \/ pc[t] \in LockStages =>
           t \in Callers /\ arg[t] \in Sessions /\ worker[arg[t]] = None
    /\ pc[t] \in LockStages => ~stopping[arg[t]]
    /\ t \in Callers /\ pc[t] \in StopStages =>
           /\ arg[t] \in Sessions
           /\ left[t] \subseteq {arg[t]}
           /\ sandbox[arg[t]] \in {tgt[t][arg[t]], None}

\* A worker's session refers to it, or is being stopped and waits for it; only
\* a prompt has a reply in its queue.
WorkerLocal(w) ==
    /\ wpc[w] = "free" => wsess[w] = None /\ inbox[w] = <<>> /\ ~wstop[w] /\ wbox[w] = None
    /\ wpc[w] # "free" => wsess[w] \in Sessions /\ (worker[wsess[w]] = w \/ Joined(w))
    /\ wstop[w] => Joined(w)
    /\ ~wstop[w] => inbox[w] \in {<<>>, <<"reply">>}
    /\ wstop[w] => inbox[w] \in {<<>>, <<"pill">>, <<"reply", "pill">>}
    /\ inbox[w] = <<"reply">> => wpc[w] = "prompt"

\* A reply of thread t is on its way to worker w.
PutUnderWay(t, w) == pc[t] = "put" /\ w \in held[t]

\* A record's worker works for its session, and waits for the reply to the
\* prompt that is pending.
RecLocal(s) ==
    worker[s] # None =>
        /\ Alive(worker[s]) /\ wsess[worker[s]] = s
        /\ pending[s] # "none" =>
               /\ wpc[worker[s]] = "prompt" /\ inbox[worker[s]] = <<>>
               /\ \A t \in Threads : ~PutUnderWay(t, worker[s])

\* The worker that a stop waits for is its session's; the worker to which a
\* reply is on its way waits for it.
HeldLocal(t, w) ==
    /\ pc[t] = "join" /\ w \in held[t] /\ Alive(w) => arg[t] = wsess[w]
    /\ PutUnderWay(t, w) =>
           /\ t \in Callers /\ arg[t] = wsess[w] /\ held[t] = {w}
           /\ Alive(w) /\ worker[wsess[w]] = w
           /\ wpc[w] = "prompt" /\ inbox[w] = <<>>

CallInv ==
    /\ \A t \in Threads : CallLocal(t)
    /\ \A w \in Workers : WorkerLocal(w)
    /\ \A s \in Sessions : RecLocal(s)
    /\ \A t \in Threads, w \in Workers : HeldLocal(t, w)

BaseInv == TypeInv /\ LockInv /\ StopLocals

\* The queues that a worker can have: at most one reply, then at most one pill.
LEMMA QueueFacts ==
    /\ Tail(<<"reply">>) = <<>> /\ Tail(<<"pill">>) = <<>> /\ Tail(<<"reply", "pill">>) = <<"pill">>
    /\ Append(<<>>, "reply") = <<"reply">>
    /\ Append(<<>>, "pill") = <<"pill">> /\ Append(<<"reply">>, "pill") = <<"reply", "pill">>
    /\ <<>> # <<"reply">> /\ <<"pill">> # <<"reply">> /\ <<"reply", "pill">> # <<"reply">>
    /\ <<"pill">> # <<>> /\ <<"reply", "pill">> # <<>>
<1>1. /\ Tail(<<"reply">>) = <<>> /\ Tail(<<"pill">>) = <<>>
      /\ Append(<<>>, "reply") = <<"reply">> /\ Append(<<>>, "pill") = <<"pill">>
  OBVIOUS
<1>2. Tail(<<"reply", "pill">>) = <<"pill">>
  OBVIOUS
<1>3. Append(<<"reply">>, "pill") = <<"reply", "pill">>
  <2>1. /\ <<"reply">> \in Seq({"reply", "pill"}) /\ <<"reply", "pill">> \in Seq({"reply", "pill"})
        /\ Len(<<"reply">>) = 1 /\ Len(<<"reply", "pill">>) = 2
        /\ <<"reply">>[1] = "reply"
        /\ <<"reply", "pill">>[1] = "reply" /\ <<"reply", "pill">>[2] = "pill"
    OBVIOUS
  <2>2. /\ Append(<<"reply">>, "pill") \in Seq({"reply", "pill"})
        /\ Len(Append(<<"reply">>, "pill")) = 2
        /\ Append(<<"reply">>, "pill")[1] = "reply"
        /\ Append(<<"reply">>, "pill")[2] = "pill"
    BY <2>1, AppendProperties
  <2>3. \A i \in 1 .. 2 : Append(<<"reply">>, "pill")[i] = <<"reply", "pill">>[i]
    BY <2>1, <2>2
  <2> QED
    BY <2>1, <2>2, <2>3, SeqEqual
<1>4. <<>> # <<"reply">> /\ <<"pill">> # <<"reply">> /\ <<"pill">> # <<>>
  OBVIOUS
<1>5. <<"reply", "pill">> # <<"reply">> /\ <<"reply", "pill">> # <<>>
  <2>1. Len(<<"reply", "pill">>) = 2 /\ Len(<<"reply">>) = 1 /\ Len(<<>>) = 0
    OBVIOUS
  <2> QED
    BY <2>1
<1> QED
  BY <1>1, <1>2, <1>3, <1>4, <1>5

\* No step breaks what the locals of a call say.
LEMMA CallStep ==
    JoinsEnd /\ BaseInv /\ CallInv /\ CallsApart /\ CallsApart' /\ [Next]_vars
        => \A u \in Threads : CallLocal(u)'
<1> SUFFICES ASSUME JoinsEnd, BaseInv, CallInv, CallsApart, CallsApart', [Next]_vars,
                    NEW u \in Threads
             PROVE  CallLocal(u)'
  OBVIOUS
<1>0. /\ TypeOK /\ ArgOK /\ BaseInv /\ CallInv /\ ~Shutdown /\ (Fire => Stoppable = {})
      /\ Callers \subseteq Threads /\ Main \in Threads /\ Reaper \in Threads
      /\ Main \notin Callers /\ Reaper \notin Callers /\ Main # Reaper
      /\ Stoppable \subseteq Sessions /\ None \notin Sandboxes
      /\ None \notin Sessions /\ None \notin Workers /\ None \notin Threads
  BY CoordinatorAssumption DEF BaseInv, TypeInv, JoinsEnd, Threads
<1>a. CallLocal(u) /\ StopLocal(u) /\ (pc[u] \in LockStages <=> lock = u)
  BY <1>0 DEF CallInv, BaseInv, StopLocals, LockInv
<1> USE <1>0, <1>a DEF TypeOK, ArgOK, OrNone, CallLocal, StopLocal, LockStages, StopStages
<1>1. ASSUME UNCHANGED <<worker, stopping, sandbox, op, pc, arg, tgt, left, held>> PROVE CallLocal(u)'
  BY <1>1
<1>2. ASSUME NEW t \in Callers, NEW s \in Sessions, StartRetiring(t, s) PROVE CallLocal(u)'
  BY <1>2 DEF StartRetiring, Call, rec, thr
<1>3. ASSUME NEW t \in Callers, NEW s \in Sessions, StartTask(t, s) PROVE CallLocal(u)'
  BY <1>3 DEF StartTask, Call, rec, thr
<1>4. ASSUME NEW t \in Callers, NEW s \in Sessions, SubmitReply(t, s) PROVE CallLocal(u)'
  BY <1>4 DEF SubmitReply, Call, rec, thr
<1>5. ASSUME NEW t \in Callers, NEW s \in Stoppable, StopSession(t, s) PROVE CallLocal(u)'
  BY <1>5 DEF StopSession, Call, rec, thr
<1>6. ASSUME NEW t \in Callers, Refuse(t) PROVE CallLocal(u)'
  BY <1>6 DEF Refuse, Return, rec, thr
<1>7. ASSUME NEW t \in Callers, Admit(t) PROVE CallLocal(u)'
  <2>1. worker[arg[t]] = None /\ ~stopping[arg[t]]
    BY <1>7 DEF Admit, Busy, LiveWorker, CallInv, RecLocal
  <2> QED
    BY <1>7, <2>1 DEF Admit, Goto, rec
<1>8. ASSUME NEW t \in Callers, BootReuse(t) PROVE CallLocal(u)'
  BY <1>8 DEF BootReuse, Goto, rec, thr
<1>9. ASSUME NEW t \in Callers, NEW b \in Sandboxes, BootFresh(t, b) PROVE CallLocal(u)'
  <2>1. u # t /\ u \in Callers => arg[u] # arg[t]
    BY <1>9 DEF BootFresh, CallsApart
  <2> QED
    BY <1>9, <2>1 DEF BootFresh, Goto
<1>10. ASSUME NEW t \in Callers, BootFails(t) PROVE CallLocal(u)'
  BY <1>10 DEF BootFails, AbortStart, Goto, rec, thr
<1>11. ASSUME NEW t \in Callers, NEW w \in Workers, SendTask(t, w) PROVE CallLocal(u)'
  <2>1. u # t /\ u \in Callers => arg[u] # arg[t]
    BY <1>11 DEF SendTask, CallsApart
  <2> QED
    BY <1>11, <2>1 DEF SendTask, Return
<1>12. ASSUME NEW t \in Callers, SendTaskFails(t) PROVE CallLocal(u)'
  BY <1>12 DEF SendTaskFails, AbortStart, Goto, rec, thr
<1>13. ASSUME NEW t \in Callers, NEW o \in ErrorOutcomes, ReportStartError(t, o) PROVE CallLocal(u)'
  BY <1>13 DEF ReportStartError, PersistDone, Return, rec, thr
<1>14. ASSUME NEW t \in Callers, NEW w \in Workers, PutReply(t, w) PROVE CallLocal(u)'
  BY <1>14 DEF PutReply, Return, rec, thr
<1>15. ASSUME NEW t \in Threads, NEW w \in Workers, JoinReturns(t, w) PROVE CallLocal(u)'
  BY <1>15 DEF JoinReturns, rec, thr
<1>16. ASSUME NEW t \in Threads, AllJoined(t) PROVE CallLocal(u)'
  BY <1>16 DEF AllJoined, Goto, rec, thr
<1>17. ASSUME NEW t \in Threads, NEW s \in Sessions, StopReturnsAtOnce(t, s) PROVE CallLocal(u)'
  BY <1>17 DEF StopReturnsAtOnce, AfterStop, Goto, rec, thr
<1>18. ASSUME NEW t \in Threads, NEW s \in Sessions, StopSandbox(t, s) PROVE CallLocal(u)'
  BY <1>18 DEF StopSandbox, rec, thr
<1>19. ASSUME NEW t \in Threads, TearDownEnds(t) PROVE CallLocal(u)'
  BY <1>19 DEF TearDownEnds, AfterStop, Goto, rec, thr
<1>20. ASSUME NEW t \in Threads, Clear(t) PROVE CallLocal(u)'
  BY <1>20 DEF Clear, ClearRecords, Goto, Return, rec, thr
<1>21. ASSUME StopAll PROVE CallLocal(u)'
  BY <1>21 DEF StopAll, Call, rec, thr
<1>22. ASSUME ClearAll PROVE CallLocal(u)'
  BY <1>22 DEF ClearAll, ClearRecords, Return, rec, thr
<1>23. ASSUME Reap PROVE CallLocal(u)'
  BY <1>23 DEF Reap, Call, rec, thr
<1>24. ASSUME NEW w \in Workers, WorkerExit(w) PROVE CallLocal(u)'
  BY <1>24 DEF WorkerExit, rec, thr
<1>25. ASSUME NEW t \in Threads, NEW w \in Workers, WorkerStop(t, w)
      PROVE  UNCHANGED <<worker, stopping, sandbox, op, pc, arg, tgt, left, held>>
  BY <1>25 DEF WorkerStop, rec, box, wrk, thr
<1>26. ASSUME NEW w \in Workers, NEW e \in Roles \cup {"done"}, Receive(w, e)
      PROVE  UNCHANGED <<worker, stopping, sandbox, op, pc, arg, tgt, left, held>>
  BY <1>26 DEF Receive, WorkerGoes, Quiet, rec, box, wrk, thr
<1>27. ASSUME NEW w \in Workers, ServeRequest(w) \/ ServeEnds(w) \/ ReceiveFails(w) \/
   TakeReply(w) \/ SendReply(w) \/ SeeStop(w) \/ HandlePrompt(w)
      PROVE  UNCHANGED <<worker, stopping, sandbox, op, pc, arg, tgt, left, held>>
  BY <1>27 DEF ServeRequest, WorkerGoes, Quiet, ServeEnds, ReceiveFails, TakeReply, SendReply,
     SeeStop, HandlePrompt, rec, box, wrk, thr
<1>28. ASSUME NEW w \in Workers, NEW o \in DoneOutcomes, HandleDone(w, o)
      PROVE  UNCHANGED <<worker, stopping, sandbox, op, pc, arg, tgt, left, held>>
  BY <1>28 DEF HandleDone, PersistDone, rec, box, wrk, thr
<1>29. ASSUME NEW w \in Workers, NEW o \in ErrorOutcomes, ReportError(w, o)
      PROVE  UNCHANGED <<worker, stopping, sandbox, op, pc, arg, tgt, left, held>>
  BY <1>29 DEF ReportError, PersistDone, rec, box, wrk, thr
<1>30. ASSUME NEW s \in Sessions, SeedState(s) \/ Age(s)
      PROVE  UNCHANGED <<worker, stopping, sandbox, op, pc, arg, tgt, left, held>>
  BY <1>30 DEF SeedState, Age, rec, box, wrk, thr
<1>31. ASSUME NEW b \in Sandboxes, Crash(b)
      PROVE  UNCHANGED <<worker, stopping, sandbox, op, pc, arg, tgt, left, held>>
  BY <1>31 DEF Crash, rec, box, wrk, thr
<1>32. CASE UNCHANGED vars
  BY <1>1, <1>32 DEF vars, rec, box, wrk, thr
<1> QED
  BY <1>1, <1>2, <1>3, <1>4, <1>5, <1>6, <1>7, <1>8, <1>9, <1>10, <1>11, <1>12, <1>13, <1>14,
     <1>15, <1>16, <1>17, <1>18, <1>19, <1>20, <1>21, <1>22, <1>23, <1>24, <1>25, <1>26, <1>27,
     <1>28, <1>29, <1>30, <1>31, <1>32, Zenon
  DEF Next, CallerStep, StarterStep, StopperStep, WorkerStep, LockedWorkerStep

\* No step separates a worker from its session, but for a stop that waits for it.
LEMMA WorkerLocalStep ==
    JoinsEnd /\ BaseInv /\ CallInv /\ CallsApart /\ CallsApart' /\ [Next]_vars
        => \A x \in Workers : WorkerLocal(x)'
<1> SUFFICES ASSUME JoinsEnd, BaseInv, CallInv, CallsApart, CallsApart', [Next]_vars,
                    NEW x \in Workers
             PROVE  WorkerLocal(x)'
  OBVIOUS
<1>0. /\ TypeOK /\ ArgOK /\ BaseInv /\ CallInv /\ ~Shutdown /\ (Fire => Stoppable = {})
      /\ Callers \subseteq Threads /\ Main \in Threads /\ Reaper \in Threads
      /\ Main \notin Callers /\ Reaper \notin Callers /\ Main # Reaper
      /\ Stoppable \subseteq Sessions /\ None \notin Sandboxes
      /\ None \notin Sessions /\ None \notin Workers /\ None \notin Threads
  BY CoordinatorAssumption DEF BaseInv, TypeInv, JoinsEnd, Threads
<1>a. WorkerLocal(x) /\ \A t \in Threads : CallLocal(t)
  BY <1>0 DEF CallInv
<1> USE <1>0, <1>a DEF TypeOK, ArgOK, OrNone, WorkerLocal, Alive
<1>1. ASSUME UNCHANGED <<worker, wpc, wsess, wbox, wstop, inbox, pc, arg, held>> PROVE WorkerLocal(x)'
  BY <1>1 DEF Joined
<1>2. ASSUME NEW t \in Callers, NEW s \in Sessions, StartRetiring(t, s) PROVE WorkerLocal(x)'
  <2>1. Joined(x) => Joined(x)'
    BY <1>2 DEF StartRetiring, Call, Joined, wrk
  <2> QED
    BY <1>2, <2>1 DEF StartRetiring, Call, rec, wrk
<1>3. ASSUME NEW t \in Callers, NEW s \in Sessions, StartTask(t, s) PROVE WorkerLocal(x)'
  <2>1. Joined(x) => Joined(x)'
    BY <1>3 DEF StartTask, Call, Joined, wrk
  <2> QED
    BY <1>3, <2>1 DEF StartTask, Call, rec, wrk
<1>4. ASSUME NEW t \in Callers, NEW s \in Sessions, SubmitReply(t, s) PROVE WorkerLocal(x)'
  <2>1. Joined(x) => Joined(x)'
    BY <1>4 DEF SubmitReply, Call, Joined, wrk
  <2> QED
    BY <1>4, <2>1 DEF SubmitReply, Call, rec, wrk
<1>5. ASSUME NEW t \in Callers, NEW s \in Stoppable, StopSession(t, s) PROVE WorkerLocal(x)'
  <2>1. Joined(x) => Joined(x)'
    BY <1>5 DEF StopSession, Call, Joined, wrk
  <2>2. worker[s] = x /\ wsess[x] = s => Joined(x)'
    BY <1>5 DEF StopSession, Call, Joined, wrk
  <2> QED
    BY <1>5, <2>1, <2>2 DEF StopSession, wrk
<1>6. ASSUME NEW t \in Callers, Refuse(t) PROVE WorkerLocal(x)'
  <2>1. Joined(x) => Joined(x)'
    BY <1>6 DEF Refuse, Return, Joined, wrk
  <2> QED
    BY <1>6, <2>1 DEF Refuse, Return, rec, wrk
<1>7. ASSUME NEW t \in Callers, Admit(t) PROVE WorkerLocal(x)'
  <2>1. Joined(x) => Joined(x)'
    BY <1>7 DEF Admit, Goto, Joined, wrk
  <2> QED
    BY <1>7, <2>1 DEF Admit, Goto, rec, wrk
<1>8. ASSUME NEW t \in Callers, BootReuse(t) PROVE WorkerLocal(x)'
  <2>1. Joined(x) => Joined(x)'
    BY <1>8 DEF BootReuse, Goto, Joined, wrk
  <2> QED
    BY <1>8, <2>1 DEF BootReuse, Goto, rec, wrk
<1>9. ASSUME NEW t \in Callers, NEW b \in Sandboxes, BootFresh(t, b) PROVE WorkerLocal(x)'
  <2>1. Joined(x) => Joined(x)'
    BY <1>9 DEF BootFresh, Goto, Joined, wrk
  <2> QED
    BY <1>9, <2>1 DEF BootFresh, Goto, rec, wrk
<1>10. ASSUME NEW t \in Callers, BootFails(t) PROVE WorkerLocal(x)'
  <2>1. Joined(x) => Joined(x)'
    BY <1>10 DEF BootFails, AbortStart, Goto, Joined, wrk
  <2>2. worker' = worker
    BY <1>10 DEF BootFails, AbortStart, CallLocal, LockStages
  <2> QED
    BY <1>10, <2>1, <2>2 DEF BootFails, AbortStart, Goto, wrk
<1>11. ASSUME NEW t \in Callers, NEW w \in Workers, SendTask(t, w) PROVE WorkerLocal(x)'
  <2>1. x # w => (Joined(x) => Joined(x)')
    BY <1>11 DEF SendTask, Return, Joined
  <2>2. wpc[w] = "free" /\ worker[arg[t]] = None /\ arg[t] \in Sessions
    BY <1>11 DEF SendTask, UnusedWorker, CallLocal, LockStages
  <2>3. CASE x = w
    BY <1>11, <2>2, <2>3 DEF SendTask
  <2>4. CASE x # w
    BY <1>11, <2>1, <2>2, <2>4 DEF SendTask
  <2> QED
    BY <2>3, <2>4
<1>12. ASSUME NEW t \in Callers, SendTaskFails(t) PROVE WorkerLocal(x)'
  <2>1. Joined(x) => Joined(x)'
    BY <1>12 DEF SendTaskFails, AbortStart, Goto, Joined, wrk
  <2>2. worker' = worker
    BY <1>12 DEF SendTaskFails, AbortStart, CallLocal, LockStages
  <2> QED
    BY <1>12, <2>1, <2>2 DEF SendTaskFails, AbortStart, Goto, wrk
<1>13. ASSUME NEW t \in Callers, NEW o \in ErrorOutcomes, ReportStartError(t, o) PROVE WorkerLocal(x)'
  <2>1. Joined(x) => Joined(x)'
    BY <1>13 DEF ReportStartError, PersistDone, Return, Joined, wrk
  <2> QED
    BY <1>13, <2>1 DEF ReportStartError, PersistDone, Return, rec, wrk
<1>14. ASSUME NEW t \in Callers, NEW w \in Workers, PutReply(t, w) PROVE WorkerLocal(x)'
  <2>1. Joined(x) => Joined(x)'
    BY <1>14 DEF PutReply, Return, Joined
  <2>2. wpc[w] = "prompt" /\ inbox[w] = <<>> /\ worker[wsess[w]] = w
    BY <1>14 DEF PutReply, CallInv, HeldLocal, PutUnderWay
  <2>3. x = w => ~Joined(x)
    BY <2>2 DEF CallLocal, Joined
  <2> QED
    BY <1>14, <2>1, <2>2, <2>3 DEF PutReply, rec
<1>15. ASSUME NEW t \in Threads, NEW w \in Workers, WorkerStop(t, w) PROVE WorkerLocal(x)'
  <2>1. Joined(x) => Joined(x)'
    BY <1>15 DEF WorkerStop, Joined, thr
  <2>2. ~wstop[w] /\ WorkerLocal(w) /\ t \in Callers /\ op[t] = "stop"
    BY <1>15 DEF WorkerStop, CallInv, CallLocal
  <2>3. Joined(w)'
    BY <1>15, <2>2 DEF WorkerStop, CallInv, HeldLocal, Joined, thr
  <2> QED
    BY <1>15, <2>1, <2>2, <2>3, QueueFacts DEF WorkerStop, rec
<1>16. ASSUME NEW t \in Threads, NEW w \in Workers, JoinReturns(t, w) PROVE WorkerLocal(x)'
  <2>1. wpc[w] = "free"
    BY <1>16 DEF JoinReturns, MayOutliveJoin, CallLocal
  <2>2. x # w => (Joined(x) => Joined(x)')
    BY <1>16 DEF JoinReturns, Joined, wrk
  <2> QED
    BY <1>16, <2>1, <2>2 DEF JoinReturns, rec, wrk
<1>17. ASSUME NEW t \in Threads, AllJoined(t) PROVE WorkerLocal(x)'
  <2>1. Joined(x) => Joined(x)'
    BY <1>17 DEF AllJoined, Goto, Joined, wrk
  <2> QED
    BY <1>17, <2>1 DEF AllJoined, Goto, rec, wrk
<1>18. ASSUME NEW t \in Threads, NEW s \in Sessions, StopReturnsAtOnce(t, s) PROVE WorkerLocal(x)'
  <2>1. Joined(x) => Joined(x)'
    BY <1>18 DEF StopReturnsAtOnce, AfterStop, Goto, Joined, wrk
  <2> QED
    BY <1>18, <2>1 DEF StopReturnsAtOnce, AfterStop, Goto, rec, wrk
<1>19. ASSUME NEW t \in Threads, NEW s \in Sessions, StopSandbox(t, s) PROVE WorkerLocal(x)'
  <2>1. Joined(x) => Joined(x)'
    BY <1>19 DEF StopSandbox, Joined, wrk
  <2> QED
    BY <1>19, <2>1 DEF StopSandbox, rec, wrk
<1>20. ASSUME NEW t \in Threads, TearDownEnds(t) PROVE WorkerLocal(x)'
  <2>1. Joined(x) => Joined(x)'
    BY <1>20 DEF TearDownEnds, AfterStop, Goto, Joined, wrk
  <2> QED
    BY <1>20, <2>1 DEF TearDownEnds, AfterStop, Goto, rec, wrk
<1>21. ASSUME NEW t \in Threads, Clear(t) PROVE WorkerLocal(x)'
  <2>1. Joined(x) => Joined(x)'
    BY <1>21 DEF Clear, ClearRecords, Goto, Return, Joined, wrk
  <2> QED
    BY <1>21, <2>1 DEF Clear, ClearRecords, Goto, Return, rec, wrk
<1>22. ASSUME StopAll PROVE WorkerLocal(x)'
  <2>1. Joined(x) => Joined(x)'
    BY <1>22 DEF StopAll, Call, Joined, wrk
  <2> QED
    BY <1>22, <2>1 DEF StopAll, Call, rec, wrk
<1>23. ASSUME ClearAll PROVE WorkerLocal(x)'
  <2>1. Joined(x) => Joined(x)'
    BY <1>23 DEF ClearAll, ClearRecords, Return, Joined, wrk
  <2> QED
    BY <1>23, <2>1 DEF ClearAll, ClearRecords, Return, rec, wrk
<1>24. ASSUME Reap PROVE WorkerLocal(x)'
  <2>1. Joined(x) => Joined(x)'
    BY <1>24 DEF Reap, Call, Joined, wrk
  <2> QED
    BY <1>24, <2>1 DEF Reap, Call, rec, wrk
<1>25. ASSUME NEW w \in Workers, NEW e \in Roles \cup {"done"}, Receive(w, e) PROVE WorkerLocal(x)'
  BY <1>25 DEF Receive, WorkerGoes, Quiet, Joined, rec, thr
<1>26. ASSUME NEW w \in Workers, ServeRequest(w) PROVE WorkerLocal(x)'
  BY <1>26 DEF ServeRequest, WorkerGoes, Quiet, Joined, rec, thr
<1>27. ASSUME NEW w \in Workers, ServeEnds(w) PROVE WorkerLocal(x)'
  BY <1>27 DEF ServeEnds, WorkerGoes, Quiet, Joined, rec, thr
<1>28. ASSUME NEW w \in Workers, ReceiveFails(w) PROVE WorkerLocal(x)'
  BY <1>28 DEF ReceiveFails, WorkerGoes, Quiet, Joined, rec, thr
<1>29. ASSUME NEW w \in Workers, TakeReply(w) PROVE WorkerLocal(x)'
  <2>1. Joined(x) => Joined(x)'
    BY <1>29 DEF TakeReply, WorkerGoes, Quiet, Joined, thr
  <2>2. inbox[w] \in {<<"reply">>, <<"pill">>, <<"reply", "pill">>} /\ WorkerLocal(w)
    BY <1>29 DEF TakeReply, CallInv
  <2> QED
    BY <1>29, <2>1, <2>2, QueueFacts DEF TakeReply, WorkerGoes, Quiet, rec
<1>30. ASSUME NEW w \in Workers, SendReply(w) PROVE WorkerLocal(x)'
  BY <1>30 DEF SendReply, WorkerGoes, Quiet, Joined, rec, thr
<1>31. ASSUME NEW w \in Workers, SeeStop(w) PROVE WorkerLocal(x)'
  <2>1. Joined(x) => Joined(x)'
    BY <1>31 DEF SeeStop, WorkerGoes, Quiet, Joined, thr
  <2>2. inbox[w] # <<"reply">>
    BY <1>31, QueueFacts DEF SeeStop, CallInv
  <2> QED
    BY <1>31, <2>1, <2>2 DEF SeeStop, WorkerGoes, Quiet, rec
<1>32. ASSUME NEW w \in Workers, HandlePrompt(w) PROVE WorkerLocal(x)'
  BY <1>32 DEF HandlePrompt, WorkerGoes, Joined, rec, thr
<1>33. ASSUME NEW w \in Workers, NEW o \in DoneOutcomes, HandleDone(w, o) PROVE WorkerLocal(x)'
  BY <1>33 DEF HandleDone, PersistDone, Joined, rec, thr
<1>34. ASSUME NEW w \in Workers, NEW o \in ErrorOutcomes, ReportError(w, o) PROVE WorkerLocal(x)'
  BY <1>34 DEF ReportError, PersistDone, Joined, rec, thr
<1>35. ASSUME NEW w \in Workers, WorkerExit(w) PROVE WorkerLocal(x)'
  <2>1. x # w => (Joined(x) => Joined(x)')
    BY <1>35 DEF WorkerExit, Joined, thr
  <2>2. WorkerLocal(w)
    BY <1>0 DEF CallInv
  <2>3. x # w /\ worker[wsess[x]] = x => wsess[x] # wsess[w]
    BY <1>35, <2>2 DEF WorkerExit, Joined, CallLocal
  <2> QED
    BY <1>35, <2>1, <2>3 DEF WorkerExit
<1>36. ASSUME NEW s \in Sessions, SeedState(s) \/ Age(s)
      PROVE  UNCHANGED <<worker, wpc, wsess, wbox, wstop, inbox, pc, arg, held>>
  BY <1>36 DEF SeedState, Age, rec, box, wrk, thr
<1>37. ASSUME NEW b \in Sandboxes, Crash(b)
      PROVE  UNCHANGED <<worker, wpc, wsess, wbox, wstop, inbox, pc, arg, held>>
  BY <1>37 DEF Crash, rec, box, wrk, thr
<1>38. CASE UNCHANGED vars
  BY <1>1, <1>38 DEF vars, rec, box, wrk, thr
<1> QED
  BY <1>1, <1>2, <1>3, <1>4, <1>5, <1>6, <1>7, <1>8, <1>9, <1>10, <1>11, <1>12, <1>13, <1>14,
     <1>15, <1>16, <1>17, <1>18, <1>19, <1>20, <1>21, <1>22, <1>23, <1>24, <1>25, <1>26, <1>27,
     <1>28, <1>29, <1>30, <1>31, <1>32, <1>33, <1>34, <1>35, <1>36, <1>37, <1>38, Zenon
  DEF Next, CallerStep, StarterStep, StopperStep, WorkerStep, LockedWorkerStep

\* No step gives a record a worker of another session, or a prompt that nobody
\* waits at.
LEMMA RecLocalStep ==
    JoinsEnd /\ BaseInv /\ CallInv /\ CallsApart /\ CallsApart' /\ [Next]_vars
        => \A r \in Sessions : RecLocal(r)'
<1> SUFFICES ASSUME JoinsEnd, BaseInv, CallInv, CallsApart, CallsApart', [Next]_vars,
                    NEW r \in Sessions
             PROVE  RecLocal(r)'
  OBVIOUS
<1>0. /\ TypeOK /\ ArgOK /\ BaseInv /\ CallInv /\ ~Shutdown /\ (Fire => Stoppable = {})
      /\ Callers \subseteq Threads /\ Main \in Threads /\ Reaper \in Threads
      /\ Main \notin Callers /\ Reaper \notin Callers /\ Main # Reaper
      /\ Stoppable \subseteq Sessions /\ None \notin Sandboxes
      /\ None \notin Sessions /\ None \notin Workers /\ None \notin Threads
  BY CoordinatorAssumption DEF BaseInv, TypeInv, JoinsEnd, Threads
<1>a. RecLocal(r)
  BY <1>0 DEF CallInv
<1> USE <1>0, <1>a DEF TypeOK, ArgOK, OrNone, RecLocal, Alive, PutUnderWay
<1>1. ASSUME UNCHANGED <<worker, pending, wpc, wsess, inbox, pc, held>> PROVE RecLocal(r)'
  BY <1>1
<1>2. ASSUME NEW t \in Callers, NEW s \in Sessions, StartRetiring(t, s) PROVE RecLocal(r)'
  BY <1>2 DEF StartRetiring, Call, rec, wrk
<1>3. ASSUME NEW t \in Callers, NEW s \in Sessions, StartTask(t, s) PROVE RecLocal(r)'
  BY <1>3 DEF StartTask, Call, rec, wrk
<1>4. ASSUME NEW t \in Callers, NEW s \in Sessions, SubmitReply(t, s) PROVE RecLocal(r)'
  <2>1. worker[r] # None /\ r # s => worker[r] # worker[s]
    BY <1>4 DEF SubmitReply, CallInv, RecLocal
  <2> QED
    BY <1>4, <2>1 DEF SubmitReply, Call, wrk
<1>5. ASSUME NEW t \in Callers, NEW s \in Stoppable, StopSession(t, s) PROVE RecLocal(r)'
  BY <1>5 DEF StopSession, Call, rec, wrk
<1>6. ASSUME NEW t \in Callers, Refuse(t) PROVE RecLocal(r)'
  BY <1>6 DEF Refuse, Return, rec, wrk
<1>7. ASSUME NEW t \in Callers, Admit(t) PROVE RecLocal(r)'
  BY <1>7 DEF Admit, Goto, rec, wrk
<1>8. ASSUME NEW t \in Callers, BootReuse(t) PROVE RecLocal(r)'
  BY <1>8 DEF BootReuse, Goto, rec, wrk
<1>9. ASSUME NEW t \in Callers, NEW b \in Sandboxes, BootFresh(t, b) PROVE RecLocal(r)'
  BY <1>9 DEF BootFresh, Goto, rec, wrk
<1>10. ASSUME NEW t \in Callers, BootFails(t) PROVE RecLocal(r)'
  <2>1. worker' = worker
    BY <1>10 DEF BootFails, AbortStart, CallInv, CallLocal, LockStages
  <2> QED
    BY <1>10, <2>1 DEF BootFails, AbortStart, Goto, wrk
<1>11. ASSUME NEW t \in Callers, NEW w \in Workers, SendTask(t, w) PROVE RecLocal(r)'
  <2>1. worker[r] # w
    BY <1>11 DEF SendTask, UnusedWorker
  <2> QED
    BY <1>11, <2>1 DEF SendTask, Return
<1>12. ASSUME NEW t \in Callers, SendTaskFails(t) PROVE RecLocal(r)'
  <2>1. worker' = worker
    BY <1>12 DEF SendTaskFails, AbortStart, CallInv, CallLocal, LockStages
  <2> QED
    BY <1>12, <2>1 DEF SendTaskFails, AbortStart, Goto, wrk
<1>13. ASSUME NEW t \in Callers, NEW o \in ErrorOutcomes, ReportStartError(t, o) PROVE RecLocal(r)'
  BY <1>13 DEF ReportStartError, PersistDone, Return, rec, wrk
<1>14. ASSUME NEW t \in Callers, NEW w \in Workers, PutReply(t, w) PROVE RecLocal(r)'
  BY <1>14 DEF PutReply, Return, rec, wrk
<1>15. ASSUME NEW t \in Threads, NEW w \in Workers, WorkerStop(t, w) PROVE RecLocal(r)'
  <2>1. worker[r] # w
    BY <1>15 DEF WorkerStop, CallInv, HeldLocal, WorkerLocal, Joined, CallLocal
  <2> QED
    BY <1>15, <2>1 DEF WorkerStop, rec, thr
<1>16. ASSUME NEW t \in Threads, NEW w \in Workers, JoinReturns(t, w) PROVE RecLocal(r)'
  BY <1>16 DEF JoinReturns, rec, wrk
<1>17. ASSUME NEW t \in Threads, AllJoined(t) PROVE RecLocal(r)'
  BY <1>17 DEF AllJoined, Goto, rec, wrk
<1>18. ASSUME NEW t \in Threads, NEW s \in Sessions, StopReturnsAtOnce(t, s) PROVE RecLocal(r)'
  BY <1>18 DEF StopReturnsAtOnce, AfterStop, Goto, rec, wrk
<1>19. ASSUME NEW t \in Threads, NEW s \in Sessions, StopSandbox(t, s) PROVE RecLocal(r)'
  BY <1>19 DEF StopSandbox, rec, wrk
<1>20. ASSUME NEW t \in Threads, TearDownEnds(t) PROVE RecLocal(r)'
  BY <1>20 DEF TearDownEnds, AfterStop, Goto, rec, wrk
<1>21. ASSUME NEW t \in Threads, Clear(t) PROVE RecLocal(r)'
  BY <1>21 DEF Clear, ClearRecords, Goto, Return, rec, wrk
<1>22. ASSUME StopAll PROVE RecLocal(r)'
  BY <1>22 DEF StopAll, Call, rec, wrk
<1>23. ASSUME ClearAll PROVE RecLocal(r)'
  BY <1>23 DEF ClearAll, ClearRecords, Return, rec, wrk
<1>24. ASSUME Reap PROVE RecLocal(r)'
  BY <1>24 DEF Reap, Call, rec, wrk
<1>25. ASSUME NEW w \in Workers, NEW e \in Roles \cup {"done"}, Receive(w, e) PROVE RecLocal(r)'
  BY <1>25 DEF Receive, WorkerGoes, Quiet, rec, thr
<1>26. ASSUME NEW w \in Workers, ServeRequest(w) PROVE RecLocal(r)'
  BY <1>26 DEF ServeRequest, WorkerGoes, Quiet, rec, thr
<1>27. ASSUME NEW w \in Workers, ServeEnds(w) PROVE RecLocal(r)'
  BY <1>27 DEF ServeEnds, WorkerGoes, Quiet, rec, thr
<1>28. ASSUME NEW w \in Workers, ReceiveFails(w) PROVE RecLocal(r)'
  BY <1>28 DEF ReceiveFails, WorkerGoes, Quiet, rec, thr
<1>29. ASSUME NEW w \in Workers, TakeReply(w) PROVE RecLocal(r)'
  BY <1>29 DEF TakeReply, WorkerGoes, Quiet, rec, thr
<1>30. ASSUME NEW w \in Workers, SendReply(w) PROVE RecLocal(r)'
  BY <1>30 DEF SendReply, WorkerGoes, Quiet, rec, thr
<1>31. ASSUME NEW w \in Workers, SeeStop(w) PROVE RecLocal(r)'
  <2>1. worker[r] # w
    BY <1>31 DEF SeeStop, CallInv, HeldLocal, WorkerLocal, Joined, CallLocal
  <2> QED
    BY <1>31, <2>1 DEF SeeStop, WorkerGoes, Quiet, rec, thr
<1>32. ASSUME NEW w \in Workers, HandlePrompt(w) PROVE RecLocal(r)'
  <2>1. worker[wsess[w]] # None => worker[wsess[w]] = w /\ inbox[w] = <<>>
    <3>1. WorkerLocal(w) /\ (Joined(w) => worker[wsess[w]] = None)
      BY <1>0 DEF CallInv, CallLocal, Joined
    <3> QED
      BY <1>32, <3>1 DEF HandlePrompt, WorkerLocal
  <2>2. \A t \in Threads : ~PutUnderWay(t, w)
    BY <1>32 DEF HandlePrompt, CallInv, HeldLocal
  <2> QED
    BY <1>32, <2>1, <2>2 DEF HandlePrompt, WorkerGoes, thr, PutUnderWay
<1>33. ASSUME NEW w \in Workers, NEW o \in DoneOutcomes, HandleDone(w, o) PROVE RecLocal(r)'
  <2>1. pending'[r] # "none" => pending'[r] = pending[r]
    BY <1>33 DEF HandleDone, PersistDone
  <2>2. worker[r] = w => pending[r] = "none"
    BY <1>33 DEF HandleDone
  <2> QED
    BY <1>33, <2>1, <2>2 DEF HandleDone, PersistDone, thr
<1>34. ASSUME NEW w \in Workers, NEW o \in ErrorOutcomes, ReportError(w, o) PROVE RecLocal(r)'
  <2>1. pending'[r] # "none" => pending'[r] = pending[r]
    BY <1>34 DEF ReportError, PersistDone
  <2>2. worker[r] = w => pending[r] = "none"
    BY <1>34 DEF ReportError
  <2> QED
    BY <1>34, <2>1, <2>2 DEF ReportError, PersistDone, thr
<1>35. ASSUME NEW w \in Workers, WorkerExit(w) PROVE RecLocal(r)'
  BY <1>35 DEF WorkerExit, rec, thr
<1>36. ASSUME NEW s \in Sessions, SeedState(s) \/ Age(s)
      PROVE  UNCHANGED <<worker, pending, wpc, wsess, inbox, pc, held>>
  BY <1>36 DEF SeedState, Age, rec, box, wrk, thr
<1>37. ASSUME NEW b \in Sandboxes, Crash(b)
      PROVE  UNCHANGED <<worker, pending, wpc, wsess, inbox, pc, held>>
  BY <1>37 DEF Crash, rec, box, wrk, thr
<1>38. CASE UNCHANGED vars
  BY <1>1, <1>38 DEF vars, rec, box, wrk, thr
<1> QED
  BY <1>1, <1>2, <1>3, <1>4, <1>5, <1>6, <1>7, <1>8, <1>9, <1>10, <1>11, <1>12, <1>13, <1>14,
     <1>15, <1>16, <1>17, <1>18, <1>19, <1>20, <1>21, <1>22, <1>23, <1>24, <1>25, <1>26, <1>27,
     <1>28, <1>29, <1>30, <1>31, <1>32, <1>33, <1>34, <1>35, <1>36, <1>37, <1>38, Zenon
  DEF Next, CallerStep, StarterStep, StopperStep, WorkerStep, LockedWorkerStep

\* No step takes a prompt away from the reply that is on its way to it.
LEMMA HeldLocalStep ==
    JoinsEnd /\ BaseInv /\ CallInv /\ CallsApart /\ CallsApart' /\ [Next]_vars
        => \A u \in Threads, x \in Workers : HeldLocal(u, x)'
<1> SUFFICES ASSUME JoinsEnd, BaseInv, CallInv, CallsApart, CallsApart', [Next]_vars,
                    NEW u \in Threads, NEW x \in Workers
             PROVE  HeldLocal(u, x)'
  OBVIOUS
<1>0. /\ TypeOK /\ ArgOK /\ BaseInv /\ CallInv /\ ~Shutdown /\ (Fire => Stoppable = {})
      /\ Callers \subseteq Threads /\ Main \in Threads /\ Reaper \in Threads
      /\ Main \notin Callers /\ Reaper \notin Callers /\ Main # Reaper
      /\ Stoppable \subseteq Sessions /\ None \notin Sandboxes
      /\ None \notin Sessions /\ None \notin Workers /\ None \notin Threads
  BY CoordinatorAssumption DEF BaseInv, TypeInv, JoinsEnd, Threads
<1>a. HeldLocal(u, x)
  BY <1>0 DEF CallInv
<1> USE <1>0, <1>a DEF TypeOK, ArgOK, OrNone, HeldLocal, Alive, PutUnderWay
<1>1. ASSUME UNCHANGED <<worker, wpc, wsess, inbox, pc, arg, held>> PROVE HeldLocal(u, x)'
  BY <1>1
<1>2. ASSUME NEW t \in Callers, NEW s \in Sessions, StartRetiring(t, s) PROVE HeldLocal(u, x)'
  BY <1>2 DEF StartRetiring, Call, rec, wrk
<1>3. ASSUME NEW t \in Callers, NEW s \in Sessions, StartTask(t, s) PROVE HeldLocal(u, x)'
  BY <1>3 DEF StartTask, Call, rec, wrk
<1>4. ASSUME NEW t \in Callers, NEW s \in Sessions, SubmitReply(t, s) PROVE HeldLocal(u, x)'
  <2>1. RecLocal(s)
    BY <1>4 DEF CallInv
  <2> QED
    BY <1>4, <2>1 DEF SubmitReply, Call, wrk, RecLocal
<1>5. ASSUME NEW t \in Callers, NEW s \in Stoppable, StopSession(t, s) PROVE HeldLocal(u, x)'
  <2>1. PutUnderWay(u, x) => wsess[x] # s
    BY <1>5 DEF StopSession, Call, CallsApart
  <2>2. worker[s] # None => wsess[worker[s]] = s
    BY <1>5 DEF StopSession, CallInv, RecLocal
  <2> QED
    BY <1>5, <2>1, <2>2 DEF StopSession, Call, wrk
<1>6. ASSUME NEW t \in Callers, Refuse(t) PROVE HeldLocal(u, x)'
  BY <1>6 DEF Refuse, Return, rec, wrk
<1>7. ASSUME NEW t \in Callers, Admit(t) PROVE HeldLocal(u, x)'
  BY <1>7 DEF Admit, Goto, rec, wrk
<1>8. ASSUME NEW t \in Callers, BootReuse(t) PROVE HeldLocal(u, x)'
  BY <1>8 DEF BootReuse, Goto, rec, wrk
<1>9. ASSUME NEW t \in Callers, NEW b \in Sandboxes, BootFresh(t, b) PROVE HeldLocal(u, x)'
  BY <1>9 DEF BootFresh, Goto, rec, wrk
<1>10. ASSUME NEW t \in Callers, BootFails(t) PROVE HeldLocal(u, x)'
  <2>1. worker' = worker
    BY <1>10 DEF BootFails, AbortStart, CallInv, CallLocal, LockStages
  <2> QED
    BY <1>10, <2>1 DEF BootFails, AbortStart, Goto, wrk
<1>11. ASSUME NEW t \in Callers, NEW w \in Workers, SendTask(t, w) PROVE HeldLocal(u, x)'
  <2>1. worker[arg[t]] = None /\ w \notin held[u] /\ pc[t] \notin {"put", "join"}
    BY <1>11 DEF SendTask, UnusedWorker, CallInv, CallLocal, LockStages
  <2> QED
    BY <1>11, <2>1 DEF SendTask, Return
<1>12. ASSUME NEW t \in Callers, SendTaskFails(t) PROVE HeldLocal(u, x)'
  <2>1. worker' = worker
    BY <1>12 DEF SendTaskFails, AbortStart, CallInv, CallLocal, LockStages
  <2> QED
    BY <1>12, <2>1 DEF SendTaskFails, AbortStart, Goto, wrk
<1>13. ASSUME NEW t \in Callers, NEW o \in ErrorOutcomes, ReportStartError(t, o) PROVE HeldLocal(u, x)'
  BY <1>13 DEF ReportStartError, PersistDone, Return, rec, wrk
<1>14. ASSUME NEW t \in Callers, NEW w \in Workers, PutReply(t, w) PROVE HeldLocal(u, x)'
  <2>1. u # t => ~(pc[u] = "put" /\ w \in held[u])
    <3>1. HeldLocal(t, w) /\ HeldLocal(u, w)
      BY <1>0 DEF CallInv
    <3> QED
      BY <1>14, <3>1 DEF PutReply, HeldLocal, CallsApart
  <2> QED
    BY <1>14, <2>1 DEF PutReply, Return, rec
<1>15. ASSUME NEW t \in Threads, NEW w \in Workers, WorkerStop(t, w) PROVE HeldLocal(u, x)'
  <2>1. ~PutUnderWay(u, w)
    BY <1>15 DEF WorkerStop, CallInv, HeldLocal, WorkerLocal, Joined, CallLocal
  <2> QED
    BY <1>15, <2>1 DEF WorkerStop, rec, thr
<1>16. ASSUME NEW t \in Threads, NEW w \in Workers, JoinReturns(t, w) PROVE HeldLocal(u, x)'
  BY <1>16 DEF JoinReturns, rec, wrk
<1>17. ASSUME NEW t \in Threads, AllJoined(t) PROVE HeldLocal(u, x)'
  BY <1>17 DEF AllJoined, Goto, rec, wrk
<1>18. ASSUME NEW t \in Threads, NEW s \in Sessions, StopReturnsAtOnce(t, s) PROVE HeldLocal(u, x)'
  BY <1>18 DEF StopReturnsAtOnce, AfterStop, Goto, rec, wrk
<1>19. ASSUME NEW t \in Threads, NEW s \in Sessions, StopSandbox(t, s) PROVE HeldLocal(u, x)'
  BY <1>19 DEF StopSandbox, rec, wrk
<1>20. ASSUME NEW t \in Threads, TearDownEnds(t) PROVE HeldLocal(u, x)'
  BY <1>20 DEF TearDownEnds, AfterStop, Goto, rec, wrk
<1>21. ASSUME NEW t \in Threads, Clear(t) PROVE HeldLocal(u, x)'
  BY <1>21 DEF Clear, ClearRecords, Goto, Return, rec, wrk
<1>22. ASSUME StopAll PROVE HeldLocal(u, x)'
  BY <1>22 DEF StopAll, Call, rec, wrk
<1>23. ASSUME ClearAll PROVE HeldLocal(u, x)'
  BY <1>23 DEF ClearAll, ClearRecords, Return, rec, wrk
<1>24. ASSUME Reap PROVE HeldLocal(u, x)'
  BY <1>24 DEF Reap, Call, rec, wrk
<1>25. ASSUME NEW w \in Workers, NEW e \in Roles \cup {"done"}, Receive(w, e) PROVE HeldLocal(u, x)'
  BY <1>25 DEF Receive, WorkerGoes, Quiet, rec, thr
<1>26. ASSUME NEW w \in Workers, ServeRequest(w) PROVE HeldLocal(u, x)'
  BY <1>26 DEF ServeRequest, WorkerGoes, Quiet, rec, thr
<1>27. ASSUME NEW w \in Workers, ServeEnds(w) PROVE HeldLocal(u, x)'
  BY <1>27 DEF ServeEnds, WorkerGoes, Quiet, rec, thr
<1>28. ASSUME NEW w \in Workers, ReceiveFails(w) PROVE HeldLocal(u, x)'
  BY <1>28 DEF ReceiveFails, WorkerGoes, Quiet, rec, thr
<1>29. ASSUME NEW w \in Workers, TakeReply(w) PROVE HeldLocal(u, x)'
  <2>1. ~PutUnderWay(u, w)
    BY <1>29 DEF TakeReply, CallInv, HeldLocal, WorkerLocal, Joined, CallLocal
  <2> QED
    BY <1>29, <2>1 DEF TakeReply, WorkerGoes, Quiet, rec, thr
<1>30. ASSUME NEW w \in Workers, SendReply(w) PROVE HeldLocal(u, x)'
  BY <1>30 DEF SendReply, WorkerGoes, Quiet, rec, thr
<1>31. ASSUME NEW w \in Workers, SeeStop(w) PROVE HeldLocal(u, x)'
  <2>1. ~PutUnderWay(u, w)
    BY <1>31 DEF SeeStop, CallInv, HeldLocal, WorkerLocal, Joined, CallLocal
  <2> QED
    BY <1>31, <2>1 DEF SeeStop, WorkerGoes, Quiet, rec, thr
<1>32. ASSUME NEW w \in Workers, HandlePrompt(w) PROVE HeldLocal(u, x)'
  BY <1>32 DEF HandlePrompt, WorkerGoes, rec, thr
<1>33. ASSUME NEW w \in Workers, NEW o \in DoneOutcomes, HandleDone(w, o) PROVE HeldLocal(u, x)'
  BY <1>33 DEF HandleDone, PersistDone, rec, thr
<1>34. ASSUME NEW w \in Workers, NEW o \in ErrorOutcomes, ReportError(w, o) PROVE HeldLocal(u, x)'
  BY <1>34 DEF ReportError, PersistDone, rec, thr
<1>35. ASSUME NEW w \in Workers, WorkerExit(w) PROVE HeldLocal(u, x)'
  <2>1. WorkerLocal(w) /\ (Joined(w) => worker[wsess[w]] = None)
    BY <1>0 DEF CallInv, CallLocal, Joined
  <2>2. x # w /\ worker[wsess[x]] = x => wsess[x] # wsess[w]
    BY <1>35, <2>1 DEF WorkerExit, WorkerLocal
  <2> QED
    BY <1>35, <2>2 DEF WorkerExit, thr
<1>36. ASSUME NEW s \in Sessions, SeedState(s) \/ Age(s)
      PROVE  UNCHANGED <<worker, wpc, wsess, inbox, pc, arg, held>>
  BY <1>36 DEF SeedState, Age, rec, box, wrk, thr
<1>37. ASSUME NEW b \in Sandboxes, Crash(b)
      PROVE  UNCHANGED <<worker, wpc, wsess, inbox, pc, arg, held>>
  BY <1>37 DEF Crash, rec, box, wrk, thr
<1>38. CASE UNCHANGED vars
  BY <1>1, <1>38 DEF vars, rec, box, wrk, thr
<1> QED
  BY <1>1, <1>2, <1>3, <1>4, <1>5, <1>6, <1>7, <1>8, <1>9, <1>10, <1>11, <1>12, <1>13, <1>14,
     <1>15, <1>16, <1>17, <1>18, <1>19, <1>20, <1>21, <1>22, <1>23, <1>24, <1>25, <1>26, <1>27,
     <1>28, <1>29, <1>30, <1>31, <1>32, <1>33, <1>34, <1>35, <1>36, <1>37, <1>38, Zenon
  DEF Next, CallerStep, StarterStep, StopperStep, WorkerStep, LockedWorkerStep

\* CallInv holds at first, and every step of a program whose calls are apart
\* keeps it.
LEMMA CallInvInit == Init => BaseInv /\ CallInv
<1> SUFFICES ASSUME Init PROVE BaseInv /\ CallInv
  OBVIOUS
<1>1. TypeInv /\ StopLocals
  BY TypeInit, StopLocalsInit
<1>2. LockInv
  BY CoordinatorAssumption DEF Init, LockInv, LockStages, Threads
<1>3. CallInv
  BY CoordinatorAssumption
  DEF Init, CallInv, CallLocal, WorkerLocal, RecLocal, HeldLocal, PutUnderWay, LockStages,
      StopStages, Nobody, Threads
<1> QED
  BY <1>1, <1>2, <1>3 DEF BaseInv

\* Every step keeps the invariant as long as calls are apart.
LEMMA CallInvStep ==
    JoinsEnd /\ BaseInv /\ CallInv /\ CallsApart /\ CallsApart' /\ [Next]_vars
        => (BaseInv /\ CallInv)'
<1> SUFFICES ASSUME JoinsEnd, BaseInv, CallInv, CallsApart, CallsApart', [Next]_vars
             PROVE  (BaseInv /\ CallInv)'
  OBVIOUS
<1>1. BaseInv'
  BY TypeStep, LockStep, StopLocalsStep DEF BaseInv
<1>2. \A t \in Threads : CallLocal(t)'
  BY CallStep
<1>3. \A w \in Workers : WorkerLocal(w)'
  BY WorkerLocalStep
<1>4. \A s \in Sessions : RecLocal(s)'
  BY RecLocalStep
<1>5. \A t \in Threads, w \in Workers : HeldLocal(t, w)'
  BY HeldLocalStep
<1> QED
  BY <1>1, <1>2, <1>3, <1>4, <1>5 DEF CallInv

\* A worker that drives a task is its session's.
LEMMA DrivingOwned == CallInv => OneWorkerPerSession
<1> SUFFICES ASSUME CallInv, NEW w \in Workers, Driving(w) PROVE worker[wsess[w]] = w
  BY DEF OneWorkerPerSession
<1>1. WorkerLocal(w) /\ ~Joined(w)
  BY DEF CallInv, Driving, Joined, Threads
<1> QED
  BY <1>1 DEF Driving, Alive, WorkerLocal

\* No task goes on behind its session's record, and no two workers drive one
\* session: each session is used by one thread, and no worker outlives a stop.
THEOREM OneWorkerDrives ==
    ASSUME JoinsEnd
    PROVE  Spec /\ []CallsApart => []OneWorkerPerSession
<1>1. JoinsEnd
  OBVIOUS
<1>2. BaseInv /\ CallInv /\ CallsApart /\ CallsApart' /\ [Next]_vars => (BaseInv /\ CallInv)'
  BY <1>1, CallInvStep
<1> QED
  BY <1>2, CallInvInit, DrivingOwned, PTL DEF Spec

\* When a stop clears its record, the session has no sandbox and no worker left.
LEMMA StopClears ==
    BaseInv /\ CallInv /\ CallsApart /\ [Next]_vars =>
        \A t \in Callers, s \in Sessions :
            op[t] = "stop" /\ arg[t] = s /\ pc[t] = "clear" /\ pc'[t] = "idle" =>
                sandbox'[s] = None /\ \A w \in Workers : wsess'[w] # s
<1> SUFFICES ASSUME BaseInv, CallInv, CallsApart, [Next]_vars, NEW t \in Callers,
                    NEW s \in Sessions,
                    op[t] = "stop", arg[t] = s, pc[t] = "clear", pc'[t] = "idle"
             PROVE  sandbox'[s] = None /\ \A w \in Workers : wsess'[w] # s
  OBVIOUS
<1>0. /\ TypeOK /\ t \in Threads /\ Callers \subseteq Threads /\ Main \notin Callers
      /\ Reaper \notin Callers /\ None \notin Sessions /\ None \notin Workers
      /\ Main \in Threads /\ Reaper \in Threads
  BY CoordinatorAssumption DEF BaseInv, TypeInv, Threads
<1>1. /\ worker[s] = None /\ sandbox[s] \in {tgt[t][s], None}
      /\ \A w \in Workers : ~(Joined(w) /\ wsess[w] = s)
  <2>1. CallLocal(t)
    BY <1>0 DEF CallInv
  <2>2. ASSUME NEW w \in Workers, NEW u \in Callers,
               pc[u] = "join", arg[u] = wsess[w], wsess[w] = s
        PROVE  FALSE
    BY <1>0, <2>2 DEF CallsApart
  <2> QED
    BY <1>0, <2>1, <2>2 DEF CallLocal, StopStages, Joined
<1>2. ASSUME NEW w \in Workers, wsess[w] = s PROVE FALSE
  <2>1. WorkerLocal(w) /\ ~Joined(w)
    BY <1>1, <1>2 DEF CallInv
  <2> QED
    BY <1>0, <1>1, <1>2, <2>1 DEF WorkerLocal
<1>3. CASE Clear(t)
  BY <1>0, <1>1, <1>2, <1>3 DEF Clear, ClearRecords, wrk
<1>4. ASSUME ~Clear(t) PROVE FALSE
  <2> USE <1>0 DEF TypeOK
  <2>1. ASSUME UNCHANGED thr PROVE FALSE
    BY <2>1 DEF thr
  <2>a. ASSUME NEW u \in Threads, pc[u] # "clear", NEW stage, pc' = [pc EXCEPT ![u] = stage]
        PROVE  FALSE
    BY <2>a
  <2>2. ASSUME NEW u \in Callers, CallerStep(u) PROVE FALSE
    <3>1. pc[u] = "idle"
      BY <2>2 DEF CallerStep, StartRetiring, StartTask, SubmitReply, StopSession
    <3>2. \E stage \in {"next", "admit", "put", "join"} : pc' = [pc EXCEPT ![u] = stage]
      BY <2>2 DEF CallerStep, StartRetiring, StartTask, SubmitReply, StopSession, Call
    <3> QED
      BY <2>a, <3>1, <3>2
  <2>3. ASSUME NEW u \in Callers, StarterStep(u) PROVE FALSE
    <3>1. pc[u] # "clear"
      BY <2>3 DEF StarterStep, Refuse, Admit, BootReuse, BootFresh, BootFails, SendTask,
          SendTaskFails, ReportStartError, PutReply
    <3>2. \E stage \in {"idle", "boot", "sendOld", "sendNew", "failed"} :
             pc' = [pc EXCEPT ![u] = stage]
      BY <2>3 DEF StarterStep, Refuse, Admit, BootReuse, BootFresh, BootFails, AbortStart,
          SendTask, SendTaskFails, ReportStartError, PutReply, Return, Goto
    <3> QED
      BY <2>a, <3>1, <3>2
  <2>4. ASSUME NEW u \in Threads, StopperStep(u) PROVE FALSE
    <3>1. ASSUME NEW w \in Workers, WorkerStop(u, w) \/ JoinReturns(u, w) PROVE FALSE
      BY <3>1 DEF WorkerStop, JoinReturns, thr
    <3>2. CASE AllJoined(u)
      BY <2>a, <3>2 DEF AllJoined, Goto
    <3>3. ASSUME NEW r \in Sessions, StopReturnsAtOnce(u, r) PROVE FALSE
      BY <2>a, <3>3 DEF StopReturnsAtOnce, AfterStop, Goto
    <3>4. ASSUME NEW r \in Sessions, StopSandbox(u, r) PROVE FALSE
      BY <2>a, <3>4 DEF StopSandbox
    <3>5. CASE TearDownEnds(u)
      BY <2>a, <3>5 DEF TearDownEnds, AfterStop, Goto
    <3>6. CASE Clear(u)
      <4>1. u # t
        BY <1>4, <3>6
      <4> QED
        BY <3>6, <4>1 DEF Clear, Goto, Return
    <3> QED
      BY <2>4, <3>1, <3>2, <3>3, <3>4, <3>5, <3>6, Zenon DEF StopperStep
  <2>5. ASSUME StopAll \/ ClearAll \/ Reap PROVE FALSE
    <3>1. CASE StopAll \/ ClearAll
      BY <2>a, <3>1 DEF StopAll, ClearAll, Call, Return
    <3>2. CASE Reap
      BY <2>a, <3>2 DEF Reap, Call
    <3> QED
      BY <2>5, <3>1, <3>2
  <2>6. ASSUME NEW w \in Workers, WorkerStep(w) PROVE FALSE
    BY <2>1, <2>6 DEF WorkerStep, LockedWorkerStep, Receive, ServeRequest, ServeEnds, ReceiveFails,
        TakeReply, SendReply, SeeStop, HandlePrompt, HandleDone, ReportError, WorkerExit, Quiet
  <2>7. ASSUME NEW r \in Sessions, SeedState(r) \/ Age(r) PROVE FALSE
    BY <2>1, <2>7 DEF SeedState, Age
  <2>8. ASSUME NEW b \in Sandboxes, Crash(b) PROVE FALSE
    BY <2>1, <2>8 DEF Crash
  <2>9. CASE UNCHANGED vars
    BY <2>1, <2>9 DEF vars
  <2> QED
    BY <2>2, <2>3, <2>4, <2>5, <2>6, <2>7, <2>8, <2>9, Zenon DEF Next
<1> QED
  BY <1>3, <1>4

\* When stop_session returns, nothing of the session is left, whatever the
\* reaper and crashes have done to its sandbox meanwhile.
THEOREM StopsAreFinal ==
    ASSUME JoinsEnd
    PROVE  Spec /\ []CallsApart => StopIsFinal
<1>1. JoinsEnd
  OBVIOUS
<1>2. BaseInv /\ CallInv /\ CallsApart /\ CallsApart' /\ [Next]_vars => (BaseInv /\ CallInv)'
  BY <1>1, CallInvStep
<1>3. BaseInv /\ CallInv /\ CallsApart /\ [Next]_vars =>
          [\A t \in Callers, s \in Sessions :
              op[t] = "stop" /\ arg[t] = s /\ pc[t] = "clear" /\ pc'[t] = "idle" =>
                  sandbox'[s] = None /\ \A w \in Workers : wsess'[w] # s]_vars
  BY StopClears
<1> QED
  BY <1>2, <1>3, CallInvInit, PTL DEF Spec, StopIsFinal

----------------------------------------------------------------------------
(* Prompts and replies.                                                    *)

\* A reply of some thread is on its way to w.
ReplyUnderWay(w) == \E t \in Threads : PutUnderWay(t, w)

\* The session's worker waits for a reply that can be given, or is coming.
PromptOpen(w) ==
    wpc[w] = "prompt" /\ worker[wsess[w]] = w =>
        pending[wsess[w]] # "none" \/ inbox[w] # <<>> \/ ReplyUnderWay(w)

PromptInv == \A w \in Workers : PromptOpen(w)

\* No step forgets a prompt that waits for its reply.
LEMMA PromptStep ==
    JoinsEnd /\ BaseInv /\ CallInv /\ PromptInv /\ CallsApart /\ [Next]_vars
        => PromptInv'
<1> SUFFICES ASSUME JoinsEnd, BaseInv, CallInv, PromptInv, CallsApart, [Next]_vars,
                    NEW x \in Workers
             PROVE  PromptOpen(x)'
  BY DEF PromptInv
<1>0. /\ TypeOK /\ ArgOK /\ BaseInv /\ CallInv /\ ~Shutdown /\ (Fire => Stoppable = {})
      /\ Callers \subseteq Threads /\ Main \in Threads /\ Reaper \in Threads
      /\ Main \notin Callers /\ Reaper \notin Callers /\ Main # Reaper
      /\ Stoppable \subseteq Sessions /\ None \notin Sandboxes
      /\ None \notin Sessions /\ None \notin Workers /\ None \notin Threads
  BY CoordinatorAssumption DEF BaseInv, TypeInv, JoinsEnd, Threads
<1>a. PromptOpen(x)
  BY DEF PromptInv
<1> USE <1>0, <1>a DEF TypeOK, ArgOK, OrNone, PromptOpen
<1>1. ASSUME UNCHANGED <<worker, pending, wpc, wsess, inbox, pc, held>> PROVE PromptOpen(x)'
  BY <1>1 DEF ReplyUnderWay, PutUnderWay
<1>2. ASSUME NEW t \in Callers, NEW s \in Sessions, StartRetiring(t, s) PROVE PromptOpen(x)'
  <2>1. ReplyUnderWay(x) => ReplyUnderWay(x)'
    BY <1>2 DEF StartRetiring, Call, ReplyUnderWay, PutUnderWay
  <2> QED
    BY <1>2, <2>1 DEF StartRetiring, Call, rec, wrk
<1>3. ASSUME NEW t \in Callers, NEW s \in Sessions, StartTask(t, s) PROVE PromptOpen(x)'
  <2>1. ReplyUnderWay(x) => ReplyUnderWay(x)'
    BY <1>3 DEF StartTask, Call, ReplyUnderWay, PutUnderWay
  <2> QED
    BY <1>3, <2>1 DEF StartTask, Call, rec, wrk
<1>4. ASSUME NEW t \in Callers, NEW s \in Sessions, SubmitReply(t, s) PROVE PromptOpen(x)'
  <2>1. ReplyUnderWay(x) => ReplyUnderWay(x)'
    BY <1>4 DEF SubmitReply, Call, ReplyUnderWay, PutUnderWay
  <2>2. worker[s] = x => ReplyUnderWay(x)'
    BY <1>4 DEF SubmitReply, Call, ReplyUnderWay, PutUnderWay
  <2> QED
    BY <1>4, <2>1, <2>2 DEF SubmitReply, wrk
<1>5. ASSUME NEW t \in Callers, NEW s \in Stoppable, StopSession(t, s) PROVE PromptOpen(x)'
  <2>1. ReplyUnderWay(x) => ReplyUnderWay(x)'
    BY <1>5 DEF StopSession, Call, ReplyUnderWay, PutUnderWay
  <2> QED
    BY <1>5, <2>1 DEF StopSession, Call, rec, wrk
<1>6. ASSUME NEW t \in Callers, Refuse(t) PROVE PromptOpen(x)'
  <2>1. ReplyUnderWay(x) => ReplyUnderWay(x)'
    BY <1>6 DEF Refuse, Return, ReplyUnderWay, PutUnderWay
  <2> QED
    BY <1>6, <2>1 DEF Refuse, Return, rec, wrk
<1>7. ASSUME NEW t \in Callers, Admit(t) PROVE PromptOpen(x)'
  <2>1. ReplyUnderWay(x) => ReplyUnderWay(x)'
    BY <1>7 DEF Admit, Goto, ReplyUnderWay, PutUnderWay
  <2> QED
    BY <1>7, <2>1 DEF Admit, Goto, rec, wrk
<1>8. ASSUME NEW t \in Callers, BootReuse(t) PROVE PromptOpen(x)'
  <2>1. ReplyUnderWay(x) => ReplyUnderWay(x)'
    BY <1>8 DEF BootReuse, Goto, ReplyUnderWay, PutUnderWay
  <2> QED
    BY <1>8, <2>1 DEF BootReuse, Goto, rec, wrk
<1>9. ASSUME NEW t \in Callers, NEW b \in Sandboxes, BootFresh(t, b) PROVE PromptOpen(x)'
  <2>1. ReplyUnderWay(x) => ReplyUnderWay(x)'
    BY <1>9 DEF BootFresh, Goto, ReplyUnderWay, PutUnderWay
  <2> QED
    BY <1>9, <2>1 DEF BootFresh, Goto, rec, wrk
<1>10. ASSUME NEW t \in Callers, BootFails(t) PROVE PromptOpen(x)'
  <2>1. ReplyUnderWay(x) => ReplyUnderWay(x)'
    BY <1>10 DEF BootFails, AbortStart, Goto, ReplyUnderWay, PutUnderWay
  <2>2. worker[arg[t]] = None /\ worker' = worker
    BY <1>10 DEF BootFails, AbortStart, CallInv, CallLocal, LockStages
  <2> QED
    BY <1>10, <2>1, <2>2 DEF BootFails, AbortStart, wrk
<1>11. ASSUME NEW t \in Callers, NEW w \in Workers, SendTask(t, w) PROVE PromptOpen(x)'
  <2>1. ReplyUnderWay(x) => ReplyUnderWay(x)'
    BY <1>11 DEF SendTask, Return, ReplyUnderWay, PutUnderWay
  <2> QED
    BY <1>11, <2>1 DEF SendTask, Return, rec, wrk
<1>12. ASSUME NEW t \in Callers, SendTaskFails(t) PROVE PromptOpen(x)'
  <2>1. ReplyUnderWay(x) => ReplyUnderWay(x)'
    BY <1>12 DEF SendTaskFails, AbortStart, Goto, ReplyUnderWay, PutUnderWay
  <2>2. worker[arg[t]] = None /\ worker' = worker
    BY <1>12 DEF SendTaskFails, AbortStart, CallInv, CallLocal, LockStages
  <2> QED
    BY <1>12, <2>1, <2>2 DEF SendTaskFails, AbortStart, wrk
<1>13. ASSUME NEW t \in Callers, NEW o \in ErrorOutcomes, ReportStartError(t, o) PROVE PromptOpen(x)'
  <2>1. ReplyUnderWay(x) => ReplyUnderWay(x)'
    BY <1>13 DEF ReportStartError, Return, ReplyUnderWay, PutUnderWay
  <2>2. worker[arg[t]] = None
    BY <1>13 DEF ReportStartError, CallInv, CallLocal
  <2> QED
    BY <1>13, <2>1, <2>2 DEF ReportStartError, PersistDone, wrk
<1>14. ASSUME NEW t \in Callers, NEW w \in Workers, PutReply(t, w) PROVE PromptOpen(x)'
  <2>1. ReplyUnderWay(x) /\ x # w => ReplyUnderWay(x)'
    BY <1>14 DEF PutReply, Return, ReplyUnderWay, PutUnderWay, CallInv, HeldLocal
  <2>2. inbox'[w] = <<"reply">>
    <3>1. HeldLocal(t, w)
      BY <1>14 DEF PutReply, CallInv
    <3> QED
      BY <1>14, <3>1, QueueFacts DEF PutReply, PutUnderWay, HeldLocal
  <2> QED
    BY <1>14, <2>1, <2>2, QueueFacts DEF PutReply, rec
<1>15. ASSUME NEW t \in Threads, NEW w \in Workers, WorkerStop(t, w) PROVE PromptOpen(x)'
  <2>1. ReplyUnderWay(x) => ReplyUnderWay(x)'
    BY <1>15 DEF WorkerStop, ReplyUnderWay, PutUnderWay, thr
  <2>2. inbox[x] # <<>> => inbox'[x] # <<>>
    <3>1. inbox[w] \in {<<>>, <<"reply">>}
      BY <1>15 DEF WorkerStop, CallInv, WorkerLocal
    <3> QED
      BY <1>15, <3>1, QueueFacts DEF WorkerStop
  <2> QED
    BY <1>15, <2>1, <2>2 DEF WorkerStop, rec
<1>16. ASSUME NEW t \in Threads, NEW w \in Workers, JoinReturns(t, w) PROVE PromptOpen(x)'
  <2>1. ReplyUnderWay(x) => ReplyUnderWay(x)'
    BY <1>16 DEF JoinReturns, ReplyUnderWay, PutUnderWay
  <2> QED
    BY <1>16, <2>1 DEF JoinReturns, rec, wrk
<1>17. ASSUME NEW t \in Threads, AllJoined(t) PROVE PromptOpen(x)'
  <2>1. ReplyUnderWay(x) => ReplyUnderWay(x)'
    BY <1>17 DEF AllJoined, Goto, ReplyUnderWay, PutUnderWay
  <2> QED
    BY <1>17, <2>1 DEF AllJoined, Goto, rec, wrk
<1>18. ASSUME NEW t \in Threads, NEW s \in Sessions, StopReturnsAtOnce(t, s) PROVE PromptOpen(x)'
  <2>1. ReplyUnderWay(x) => ReplyUnderWay(x)'
    BY <1>18 DEF StopReturnsAtOnce, AfterStop, Goto, ReplyUnderWay, PutUnderWay
  <2> QED
    BY <1>18, <2>1 DEF StopReturnsAtOnce, AfterStop, Goto, rec, wrk
<1>19. ASSUME NEW t \in Threads, NEW s \in Sessions, StopSandbox(t, s) PROVE PromptOpen(x)'
  <2>1. ReplyUnderWay(x) => ReplyUnderWay(x)'
    BY <1>19 DEF StopSandbox, ReplyUnderWay, PutUnderWay
  <2> QED
    BY <1>19, <2>1 DEF StopSandbox, rec, wrk
<1>20. ASSUME NEW t \in Threads, TearDownEnds(t) PROVE PromptOpen(x)'
  <2>1. ReplyUnderWay(x) => ReplyUnderWay(x)'
    BY <1>20 DEF TearDownEnds, AfterStop, Goto, ReplyUnderWay, PutUnderWay
  <2> QED
    BY <1>20, <2>1 DEF TearDownEnds, AfterStop, Goto, rec, wrk
<1>21. ASSUME NEW t \in Threads, Clear(t) PROVE PromptOpen(x)'
  <2>1. ReplyUnderWay(x) => ReplyUnderWay(x)'
    BY <1>21 DEF Clear, ClearRecords, Goto, Return, ReplyUnderWay, PutUnderWay
  <2> QED
    BY <1>21, <2>1 DEF Clear, ClearRecords, Goto, Return, rec, wrk
<1>22. ASSUME StopAll PROVE PromptOpen(x)'
  <2>1. ReplyUnderWay(x) => ReplyUnderWay(x)'
    BY <1>22 DEF StopAll, Call, ReplyUnderWay, PutUnderWay
  <2> QED
    BY <1>22, <2>1 DEF StopAll, Call, rec, wrk
<1>23. ASSUME ClearAll PROVE PromptOpen(x)'
  <2>1. ReplyUnderWay(x) => ReplyUnderWay(x)'
    BY <1>23 DEF ClearAll, ClearRecords, Return, ReplyUnderWay, PutUnderWay
  <2> QED
    BY <1>23, <2>1 DEF ClearAll, ClearRecords, Return, rec, wrk
<1>24. ASSUME Reap PROVE PromptOpen(x)'
  <2>1. ReplyUnderWay(x) => ReplyUnderWay(x)'
    BY <1>24 DEF Reap, Call, ReplyUnderWay, PutUnderWay
  <2> QED
    BY <1>24, <2>1 DEF Reap, Call, rec, wrk
<1>25. ASSUME NEW w \in Workers, NEW e \in Roles \cup {"done"}, Receive(w, e) PROVE PromptOpen(x)'
  <2>1. ReplyUnderWay(x) => ReplyUnderWay(x)'
    BY <1>25 DEF Receive, WorkerGoes, Quiet, ReplyUnderWay, PutUnderWay, thr
  <2> QED
    BY <1>25, <2>1 DEF Receive, WorkerGoes, Quiet, rec
<1>26. ASSUME NEW w \in Workers, ServeRequest(w) PROVE PromptOpen(x)'
  <2>1. ReplyUnderWay(x) => ReplyUnderWay(x)'
    BY <1>26 DEF ServeRequest, WorkerGoes, Quiet, ReplyUnderWay, PutUnderWay, thr
  <2> QED
    BY <1>26, <2>1 DEF ServeRequest, WorkerGoes, Quiet, rec
<1>27. ASSUME NEW w \in Workers, ServeEnds(w) PROVE PromptOpen(x)'
  <2>1. ReplyUnderWay(x) => ReplyUnderWay(x)'
    BY <1>27 DEF ServeEnds, WorkerGoes, Quiet, ReplyUnderWay, PutUnderWay, thr
  <2> QED
    BY <1>27, <2>1 DEF ServeEnds, WorkerGoes, Quiet, rec
<1>28. ASSUME NEW w \in Workers, ReceiveFails(w) PROVE PromptOpen(x)'
  <2>1. ReplyUnderWay(x) => ReplyUnderWay(x)'
    BY <1>28 DEF ReceiveFails, WorkerGoes, Quiet, ReplyUnderWay, PutUnderWay, thr
  <2> QED
    BY <1>28, <2>1 DEF ReceiveFails, WorkerGoes, Quiet, rec
<1>29. ASSUME NEW w \in Workers, TakeReply(w) PROVE PromptOpen(x)'
  <2>1. ReplyUnderWay(x) => ReplyUnderWay(x)'
    BY <1>29 DEF TakeReply, WorkerGoes, Quiet, ReplyUnderWay, PutUnderWay, thr
  <2> QED
    BY <1>29, <2>1 DEF TakeReply, WorkerGoes, Quiet, rec
<1>30. ASSUME NEW w \in Workers, SendReply(w) PROVE PromptOpen(x)'
  <2>1. ReplyUnderWay(x) => ReplyUnderWay(x)'
    BY <1>30 DEF SendReply, WorkerGoes, Quiet, ReplyUnderWay, PutUnderWay, thr
  <2> QED
    BY <1>30, <2>1 DEF SendReply, WorkerGoes, Quiet, rec
<1>31. ASSUME NEW w \in Workers, SeeStop(w) PROVE PromptOpen(x)'
  <2>1. ReplyUnderWay(x) => ReplyUnderWay(x)'
    BY <1>31 DEF SeeStop, WorkerGoes, Quiet, ReplyUnderWay, PutUnderWay, thr
  <2> QED
    BY <1>31, <2>1 DEF SeeStop, WorkerGoes, Quiet, rec
<1>32. ASSUME NEW w \in Workers, HandlePrompt(w) PROVE PromptOpen(x)'
  <2>1. ReplyUnderWay(x) => ReplyUnderWay(x)'
    BY <1>32 DEF HandlePrompt, ReplyUnderWay, PutUnderWay, thr
  <2>2. wsess[w] \in Sessions
    BY <1>32 DEF HandlePrompt, CallInv, WorkerLocal
  <2>3. wevt[w] # "none"
    BY <1>32 DEF HandlePrompt, Roles
  <2> QED
    BY <1>32, <2>1, <2>2, <2>3 DEF HandlePrompt, WorkerGoes
<1>33. ASSUME NEW w \in Workers, NEW o \in DoneOutcomes, HandleDone(w, o) PROVE PromptOpen(x)'
  <2>1. ReplyUnderWay(x) => ReplyUnderWay(x)'
    BY <1>33 DEF HandleDone, ReplyUnderWay, PutUnderWay, thr
  <2>2. WorkerLocal(w) /\ (Joined(w) => worker[wsess[w]] = None)
    BY <1>0 DEF CallInv, CallLocal, Joined
  <2>3. x # w /\ worker[wsess[x]] = x => wsess[x] # wsess[w]
    BY <1>33, <2>2 DEF HandleDone, WorkerLocal
  <2> QED
    BY <1>33, <2>1, <2>3 DEF HandleDone, PersistDone
<1>34. ASSUME NEW w \in Workers, NEW o \in ErrorOutcomes, ReportError(w, o) PROVE PromptOpen(x)'
  <2>1. ReplyUnderWay(x) => ReplyUnderWay(x)'
    BY <1>34 DEF ReportError, ReplyUnderWay, PutUnderWay, thr
  <2>2. WorkerLocal(w) /\ (Joined(w) => worker[wsess[w]] = None)
    BY <1>0 DEF CallInv, CallLocal, Joined
  <2>3. x # w /\ worker[wsess[x]] = x => wsess[x] # wsess[w]
    BY <1>34, <2>2 DEF ReportError, WorkerLocal
  <2> QED
    BY <1>34, <2>1, <2>3 DEF ReportError, PersistDone
<1>35. ASSUME NEW w \in Workers, WorkerExit(w) PROVE PromptOpen(x)'
  <2>1. ReplyUnderWay(x) => ReplyUnderWay(x)'
    BY <1>35 DEF WorkerExit, ReplyUnderWay, PutUnderWay, thr
  <2>2. WorkerLocal(w) /\ (Joined(w) => worker[wsess[w]] = None)
    BY <1>0 DEF CallInv, CallLocal, Joined
  <2>3. x # w /\ worker[wsess[x]] = x => wsess[x] # wsess[w]
    BY <1>35, <2>2 DEF WorkerExit, WorkerLocal
  <2> QED
    BY <1>35, <2>1, <2>3 DEF WorkerExit
<1>36. ASSUME NEW s \in Sessions, SeedState(s) \/ Age(s)
      PROVE  UNCHANGED <<worker, pending, wpc, wsess, inbox, pc, held>>
  BY <1>36 DEF SeedState, Age, rec, box, wrk, thr
<1>37. ASSUME NEW b \in Sandboxes, Crash(b)
      PROVE  UNCHANGED <<worker, pending, wpc, wsess, inbox, pc, held>>
  BY <1>37 DEF Crash, rec, box, wrk, thr
<1>38. CASE UNCHANGED vars
  BY <1>1, <1>38 DEF vars, rec, box, wrk, thr
<1> QED
  BY <1>1, <1>2, <1>3, <1>4, <1>5, <1>6, <1>7, <1>8, <1>9, <1>10, <1>11, <1>12, <1>13, <1>14,
     <1>15, <1>16, <1>17, <1>18, <1>19, <1>20, <1>21, <1>22, <1>23, <1>24, <1>25, <1>26, <1>27,
     <1>28, <1>29, <1>30, <1>31, <1>32, <1>33, <1>34, <1>35, <1>36, <1>37, <1>38, Zenon
  DEF Next, CallerStep, StarterStep, StopperStep, WorkerStep, LockedWorkerStep

\* Whenever an agent waits for its user, the user can answer: the prompt is
\* pending, or an answer is on its way to it.
THEOREM PromptsStayOpen ==
    ASSUME JoinsEnd
    PROVE  Spec /\ []CallsApart => []PromptAnswerable
<1>1. JoinsEnd
  OBVIOUS
<1>2. BaseInv /\ CallInv /\ PromptInv /\ CallsApart /\ CallsApart' /\ [Next]_vars
          => (BaseInv /\ CallInv /\ PromptInv)'
  BY <1>1, CallInvStep, PromptStep
<1>3. Init => BaseInv /\ CallInv /\ PromptInv
  BY CallInvInit DEF Init, PromptInv, PromptOpen
<1>4. CallInv /\ PromptInv => PromptAnswerable
  <2> SUFFICES ASSUME CallInv, PromptInv, NEW w \in Workers, wpc[w] = "prompt", Driving(w)
               PROVE  \/ worker[wsess[w]] = w /\ pending[wsess[w]] # "none"
                      \/ inbox[w] # <<>>
                      \/ \E t \in Threads : pc[t] = "put" /\ w \in held[t]
    BY DEF PromptAnswerable
  <2>1. worker[wsess[w]] = w
    BY DrivingOwned DEF OneWorkerPerSession
  <2> QED
    BY <2>1 DEF PromptInv, PromptOpen, ReplyUnderWay, PutUnderWay
<1> QED
  BY <1>2, <1>3, <1>4, PTL DEF Spec

\* One reply at most is queued or under way, and its worker waits for it.
LEMMA OneReply == CallInv /\ CallsApart /\ TypeInv => ReplyAnswersPrompt
<1> SUFFICES ASSUME CallInv, CallsApart, TypeInv, NEW w \in Workers
             PROVE  Replies(w) <= 1 /\ (Replies(w) = 1 /\ ~wstop[w] => wpc[w] = "prompt")
  BY DEF ReplyAnswersPrompt
<1> DEFINE Queued == {i \in DOMAIN inbox[w] : inbox[w][i] = "reply"}
           Coming == {t \in Threads : pc[t] = "put" /\ w \in held[t]}
<1>0. Replies(w) = Cardinality(Queued) + Cardinality(Coming)
  BY DEF Replies
<1>1. ASSUME NEW t \in Coming
      PROVE  Queued = {} /\ Coming = {t} /\ wpc[w] = "prompt"
  <2>1. /\ inbox[w] = <<>> /\ wpc[w] = "prompt"
        /\ t \in Callers /\ arg[t] = wsess[w] /\ arg[t] \in Sessions
    BY <1>1 DEF CallInv, HeldLocal, PutUnderWay, TypeInv, ArgOK
  <2>2. ASSUME NEW u \in Coming PROVE u = t
    <3>1. u \in Callers /\ arg[u] = wsess[w]
      BY <2>2 DEF CallInv, HeldLocal, PutUnderWay
    <3> QED
      BY <2>1, <3>1, CoordinatorAssumption DEF CallsApart
  <2> QED
    BY <1>1, <2>1, <2>2
<1>2. CASE Coming # {}
  <2>1. PICK t \in Coming : TRUE
    BY <1>2
  <2>2. Cardinality(Queued) = 0 /\ Cardinality(Coming) = 1
    BY <1>1, <2>1, FS_EmptySet, FS_Singleton
  <2> QED
    BY <1>0, <1>1, <2>1, <2>2
<1>3. CASE Coming = {}
  <2>1. WorkerLocal(w) /\ Cardinality(Coming) = 0
    BY <1>3, FS_EmptySet DEF CallInv
  <2>2. inbox[w] \in {<<>>, <<"reply">>, <<"pill">>, <<"reply", "pill">>}
    BY <2>1 DEF WorkerLocal
  <2>3. Queued = {} \/ Queued = {1}
    <3>1. CASE inbox[w] = <<>>
      BY <3>1
    <3>2. CASE inbox[w] = <<"reply">>
      BY <3>2
    <3>3. CASE inbox[w] = <<"pill">>
      BY <3>3
    <3>4. CASE inbox[w] = <<"reply", "pill">>
      BY <3>4
    <3> QED
      BY <2>2, <3>1, <3>2, <3>3, <3>4
  <2>4. Cardinality(Queued) = 0 \/ (Cardinality(Queued) = 1 /\ Queued # {})
    BY <2>3, FS_EmptySet, FS_Singleton
  <2>5. Queued # {} /\ ~wstop[w] => wpc[w] = "prompt"
    <3>1. Queued # {} => inbox[w] # <<>>
      OBVIOUS
    <3> QED
      BY <2>1, <3>1 DEF WorkerLocal
  <2> QED
    BY <1>0, <2>1, <2>4, <2>5
<1> QED
  BY <1>2, <1>3

\* A reply only goes to the prompt that it answers: none waits in a queue for
\* a prompt still to come, and no prompt is answered twice.
THEOREM RepliesMeetPrompts ==
    ASSUME JoinsEnd
    PROVE  Spec /\ []CallsApart => []ReplyAnswersPrompt
<1>1. JoinsEnd
  OBVIOUS
<1>2. BaseInv /\ CallInv /\ CallsApart /\ CallsApart' /\ [Next]_vars => (BaseInv /\ CallInv)'
  BY <1>1, CallInvStep
<1>3. BaseInv /\ CallInv /\ CallsApart => ReplyAnswersPrompt
  BY OneReply DEF BaseInv
<1> QED
  BY <1>2, <1>3, CallInvInit, PTL DEF Spec

----------------------------------------------------------------------------
(* The reaper.                                                             *)

\* A sandbox is one session's: of its record, of a thread that stops it and of
\* the worker that uses it.
RefInv ==
    /\ \A s, r \in Sessions : s # r /\ sandbox[s] # None => sandbox[s] # sandbox[r]
    /\ \A t \in Threads, s, r \in Sessions : tgt[t][s] # None /\ sandbox[r] = tgt[t][s] => r = s
    /\ \A w \in Workers, s \in Sessions : wbox[w] # None /\ wbox[w] = sandbox[s] => wsess[w] = s

\* A session on the reaper's list gets no worker until its sandbox is gone.
ReapLocal(s) ==
    s \in left[Reaper] =>
        /\ tgt[Reaper][s] # None
        /\ sandbox[s] = tgt[Reaper][s] => stopping[s]
        /\ \A w \in Workers : wbox[w] = tgt[Reaper][s] => Joined(w)

ReapInv == \A s \in Sessions : ReapLocal(s)

\* No step lets two sessions share a sandbox.
LEMMA RefStep == TypeInv /\ RefInv /\ [Next]_vars => RefInv'
<1> SUFFICES ASSUME TypeInv, RefInv, [Next]_vars, NEW s \in Sessions, NEW q \in Sessions
             PROVE  /\ s # q /\ sandbox'[s] # None => sandbox'[s] # sandbox'[q]
                    /\ \A u \in Threads : tgt'[u][s] # None /\ sandbox'[q] = tgt'[u][s] => q = s
                    /\ \A x \in Workers : wbox'[x] # None /\ wbox'[x] = sandbox'[s] => wsess'[x] = s
  BY DEF RefInv
<1> DEFINE Refs == /\ s # q /\ sandbox[s] # None => sandbox[s] # sandbox[q]
                   /\ \A u \in Threads : tgt[u][s] # None /\ sandbox[q] = tgt[u][s] => q = s
                   /\ \A x \in Workers : wbox[x] # None /\ wbox[x] = sandbox[s] => wsess[x] = s
<1>0. /\ TypeOK /\ ArgOK /\ Refs /\ RefInv
      /\ Callers \subseteq Threads /\ Main \in Threads /\ Reaper \in Threads
      /\ Stoppable \subseteq Sessions /\ None \notin Sandboxes
  BY CoordinatorAssumption DEF TypeInv, RefInv, Threads
<1> USE <1>0 DEF TypeOK, ArgOK, OrNone
<1>1. ASSUME UNCHANGED <<sandbox, tgt, wbox, wsess>> PROVE Refs'
  BY <1>1
<1>2. ASSUME NEW t \in Callers, NEW r \in Sessions, StartRetiring(t, r) PROVE Refs'
  BY <1>2 DEF StartRetiring, Call, wrk, RefInv
<1>3. ASSUME NEW t \in Callers, NEW r \in Stoppable, StopSession(t, r) PROVE Refs'
  BY <1>3 DEF StopSession, Call, wrk, RefInv
<1>4. ASSUME NEW t \in Callers, NEW b \in Sandboxes, BootFresh(t, b) PROVE Refs'
  <2>1. /\ sandbox[s] # b /\ sandbox[q] # b
        /\ \A u \in Threads : tgt[u][s] # b
        /\ \A x \in Workers : wbox[x] # b
    BY <1>4 DEF BootFresh, UnusedSandbox
  <2> QED
    BY <1>4, <2>1 DEF BootFresh, wrk
<1>5. ASSUME NEW t \in Callers, NEW w \in Workers, SendTask(t, w) PROVE Refs'
  <2>1. arg[t] \in Sessions /\ sandbox[arg[t]] # None
    BY <1>5 DEF SendTask, LiveSandbox
  <2>2. sandbox[s] = sandbox[arg[t]] => s = arg[t]
    BY <2>1 DEF RefInv
  <2> QED
    BY <1>5, <2>1, <2>2 DEF SendTask
<1>6. ASSUME NEW t \in Callers, SendTaskFails(t) PROVE Refs'
  BY <1>6 DEF SendTaskFails, AbortStart, Goto, wrk, RefInv
<1>7. ASSUME NEW t \in Threads, Clear(t) PROVE Refs'
  BY <1>7 DEF Clear, ClearRecords, Goto, Return, wrk, RefInv
<1>8. ASSUME StopAll PROVE Refs'
  BY <1>8 DEF StopAll, Call, wrk, RefInv
<1>9. ASSUME ClearAll PROVE Refs'
  BY <1>9 DEF ClearAll, ClearRecords, Return, wrk, RefInv
<1>10. ASSUME Reap PROVE Refs'
  BY <1>10 DEF Reap, Call, wrk, RefInv
<1>11. ASSUME NEW w \in Workers, WorkerExit(w) PROVE Refs'
  BY <1>11 DEF WorkerExit, thr
<1>12. ASSUME NEW t \in Callers, NEW r \in Sessions, StartTask(t, r) \/ SubmitReply(t, r)
      PROVE  UNCHANGED <<sandbox, tgt, wbox, wsess>>
  BY <1>12 DEF StartTask, Call, SubmitReply, rec, box, wrk, thr
<1>13. ASSUME NEW t \in Callers, Refuse(t) \/ Admit(t) \/ BootReuse(t) \/ BootFails(t)
      PROVE  UNCHANGED <<sandbox, tgt, wbox, wsess>>
  BY <1>13 DEF Refuse, Return, Admit, Goto, BootReuse, BootFails, AbortStart, rec, box, wrk, thr
<1>14. ASSUME NEW t \in Callers, NEW o \in ErrorOutcomes, ReportStartError(t, o)
      PROVE  UNCHANGED <<sandbox, tgt, wbox, wsess>>
  BY <1>14 DEF ReportStartError, PersistDone, Return, rec, box, wrk, thr
<1>15. ASSUME NEW t \in Callers, NEW w \in Workers, PutReply(t, w)
      PROVE  UNCHANGED <<sandbox, tgt, wbox, wsess>>
  BY <1>15 DEF PutReply, Return, rec, box, wrk, thr
<1>16. ASSUME NEW t \in Threads, NEW w \in Workers, WorkerStop(t, w) \/ JoinReturns(t, w)
      PROVE  UNCHANGED <<sandbox, tgt, wbox, wsess>>
  BY <1>16 DEF WorkerStop, JoinReturns, rec, box, wrk, thr
<1>17. ASSUME NEW t \in Threads, AllJoined(t) \/ TearDownEnds(t)
      PROVE  UNCHANGED <<sandbox, tgt, wbox, wsess>>
  BY <1>17 DEF AllJoined, Goto, TearDownEnds, AfterStop, rec, box, wrk, thr
<1>18. ASSUME NEW t \in Threads, NEW r \in Sessions, StopReturnsAtOnce(t, r) \/ StopSandbox(t, r)
      PROVE  UNCHANGED <<sandbox, tgt, wbox, wsess>>
  BY <1>18 DEF StopReturnsAtOnce, AfterStop, Goto, StopSandbox, rec, box, wrk, thr
<1>19. ASSUME NEW w \in Workers, NEW e \in Roles \cup {"done"}, Receive(w, e)
      PROVE  UNCHANGED <<sandbox, tgt, wbox, wsess>>
  BY <1>19 DEF Receive, WorkerGoes, Quiet, rec, box, wrk, thr
<1>20. ASSUME NEW w \in Workers, ServeRequest(w) \/ ServeEnds(w) \/ ReceiveFails(w) \/
   TakeReply(w) \/ SendReply(w) \/ SeeStop(w) \/ HandlePrompt(w)
      PROVE  UNCHANGED <<sandbox, tgt, wbox, wsess>>
  BY <1>20 DEF ServeRequest, WorkerGoes, Quiet, ServeEnds, ReceiveFails, TakeReply, SendReply,
     SeeStop, HandlePrompt, rec, box, wrk, thr
<1>21. ASSUME NEW w \in Workers, NEW o \in DoneOutcomes, HandleDone(w, o)
      PROVE  UNCHANGED <<sandbox, tgt, wbox, wsess>>
  BY <1>21 DEF HandleDone, PersistDone, rec, box, wrk, thr
<1>22. ASSUME NEW w \in Workers, NEW o \in ErrorOutcomes, ReportError(w, o)
      PROVE  UNCHANGED <<sandbox, tgt, wbox, wsess>>
  BY <1>22 DEF ReportError, PersistDone, rec, box, wrk, thr
<1>23. ASSUME NEW r \in Sessions, SeedState(r) \/ Age(r)
      PROVE  UNCHANGED <<sandbox, tgt, wbox, wsess>>
  BY <1>23 DEF SeedState, Age, rec, box, wrk, thr
<1>24. ASSUME NEW b \in Sandboxes, Crash(b)
      PROVE  UNCHANGED <<sandbox, tgt, wbox, wsess>>
  BY <1>24 DEF Crash, rec, box, wrk, thr
<1>25. CASE UNCHANGED vars
  BY <1>1, <1>25 DEF vars, rec, box, wrk, thr
<1> QED
  BY <1>1, <1>2, <1>3, <1>4, <1>5, <1>6, <1>7, <1>8, <1>9, <1>10, <1>11, <1>12, <1>13, <1>14,
     <1>15, <1>16, <1>17, <1>18, <1>19, <1>20, <1>21, <1>22, <1>23, <1>24, <1>25, Zenon
  DEF Next, CallerStep, StarterStep, StopperStep, WorkerStep, LockedWorkerStep

\* No step lets a task start in a sandbox that the reaper is going to stop.
LEMMA ReapStep ==
    JoinsEnd /\ BaseInv /\ CallInv /\ RefInv /\ ReapInv /\ [Next]_vars => ReapInv'
<1> SUFFICES ASSUME JoinsEnd, BaseInv, CallInv, RefInv, ReapInv, [Next]_vars, NEW s \in Sessions
             PROVE  ReapLocal(s)'
  BY DEF ReapInv
<1>0. /\ TypeOK /\ ArgOK /\ BaseInv /\ CallInv /\ ~Shutdown /\ (Fire => Stoppable = {})
      /\ Callers \subseteq Threads /\ Main \in Threads /\ Reaper \in Threads
      /\ Main \notin Callers /\ Reaper \notin Callers /\ Main # Reaper
      /\ Stoppable \subseteq Sessions /\ None \notin Sandboxes
      /\ None \notin Sessions /\ None \notin Workers /\ None \notin Threads
  BY CoordinatorAssumption DEF BaseInv, TypeInv, JoinsEnd, Threads
<1>a. ReapLocal(s) /\ StopLocal(Reaper) /\ CallLocal(Reaper)
  BY <1>0 DEF ReapInv, BaseInv, StopLocals, CallInv
<1> USE <1>0, <1>a DEF TypeOK, ArgOK, OrNone, ReapLocal
<1>1. ASSUME UNCHANGED <<sandbox, stopping, wbox, wsess, pc, arg, tgt, left, held>> PROVE ReapLocal(s)'
  BY <1>1 DEF Joined
<1>2. ASSUME NEW t \in Callers, NEW r \in Sessions, StartRetiring(t, r) PROVE ReapLocal(s)'
  <2>1. \A x \in Workers : Joined(x) => Joined(x)'
    BY <1>2 DEF StartRetiring, Call, Joined, wrk, thr
  <2> QED
    BY <1>2, <2>1 DEF StartRetiring, Call, rec, wrk, thr
<1>3. ASSUME NEW t \in Callers, NEW r \in Sessions, StartTask(t, r) PROVE ReapLocal(s)'
  <2>1. \A x \in Workers : Joined(x) => Joined(x)'
    BY <1>3 DEF StartTask, Call, Joined, wrk, thr
  <2> QED
    BY <1>3, <2>1 DEF StartTask, Call, rec, wrk, thr
<1>4. ASSUME NEW t \in Callers, NEW r \in Sessions, SubmitReply(t, r) PROVE ReapLocal(s)'
  <2>1. \A x \in Workers : Joined(x) => Joined(x)'
    BY <1>4 DEF SubmitReply, Call, Joined, wrk, thr
  <2> QED
    BY <1>4, <2>1 DEF SubmitReply, Call, rec, wrk, thr
<1>5. ASSUME NEW t \in Callers, NEW r \in Stoppable, StopSession(t, r) PROVE ReapLocal(s)'
  <2>1. \A x \in Workers : Joined(x) => Joined(x)'
    BY <1>5 DEF StopSession, Call, Joined, wrk, thr
  <2> QED
    BY <1>5, <2>1 DEF StopSession, Call, rec, wrk, thr
<1>6. ASSUME NEW t \in Callers, Refuse(t) PROVE ReapLocal(s)'
  <2>1. \A x \in Workers : Joined(x) => Joined(x)'
    BY <1>6 DEF Refuse, Return, Joined, wrk, thr
  <2> QED
    BY <1>6, <2>1 DEF Refuse, Return, rec, wrk, thr
<1>7. ASSUME NEW t \in Callers, Admit(t) PROVE ReapLocal(s)'
  <2>1. \A x \in Workers : Joined(x) => Joined(x)'
    BY <1>7 DEF Admit, Goto, Joined, wrk, thr
  <2> QED
    BY <1>7, <2>1 DEF Admit, Goto, rec, wrk, thr
<1>8. ASSUME NEW t \in Callers, BootReuse(t) PROVE ReapLocal(s)'
  <2>1. \A x \in Workers : Joined(x) => Joined(x)'
    BY <1>8 DEF BootReuse, Goto, Joined, wrk, thr
  <2> QED
    BY <1>8, <2>1 DEF BootReuse, Goto, rec, wrk, thr
<1>9. ASSUME NEW t \in Callers, NEW b \in Sandboxes, BootFresh(t, b) PROVE ReapLocal(s)'
  <2>1. \A x \in Workers : Joined(x) => Joined(x)'
    BY <1>9 DEF BootFresh, Goto, Joined, wrk
  <2>2. tgt[Reaper][s] # b
    BY <1>9 DEF BootFresh, UnusedSandbox
  <2> QED
    BY <1>9, <2>1, <2>2 DEF BootFresh, Goto, wrk
<1>10. ASSUME NEW t \in Callers, BootFails(t) PROVE ReapLocal(s)'
  <2>1. \A x \in Workers : Joined(x) => Joined(x)'
    BY <1>10 DEF BootFails, AbortStart, Goto, Joined, wrk, thr
  <2> QED
    BY <1>10, <2>1 DEF BootFails, AbortStart, Goto, rec, wrk, thr
<1>11. ASSUME NEW t \in Callers, NEW w \in Workers, SendTask(t, w) PROVE ReapLocal(s)'
  <2>1. \A x \in Workers \ {w} : Joined(x) => Joined(x)'
    BY <1>11 DEF SendTask, Return, Joined
  <2>2. s \in left[Reaper] => sandbox[arg[t]] # tgt[Reaper][s]
    <3>1. arg[t] \in Sessions /\ ~stopping[arg[t]]
      BY <1>11 DEF SendTask, CallInv, CallLocal, LockStages
    <3>2. tgt[Reaper][s] # None /\ sandbox[arg[t]] = tgt[Reaper][s] => arg[t] = s
      BY <3>1 DEF RefInv
    <3> QED
      BY <3>1, <3>2
  <2> QED
    BY <1>11, <2>1, <2>2 DEF SendTask, Return
<1>12. ASSUME NEW t \in Callers, SendTaskFails(t) PROVE ReapLocal(s)'
  <2>1. \A x \in Workers : Joined(x) => Joined(x)'
    BY <1>12 DEF SendTaskFails, AbortStart, Goto, Joined, wrk, thr
  <2> QED
    BY <1>12, <2>1 DEF SendTaskFails, AbortStart, Goto, rec, wrk, thr
<1>13. ASSUME NEW t \in Callers, NEW o \in ErrorOutcomes, ReportStartError(t, o) PROVE ReapLocal(s)'
  <2>1. \A x \in Workers : Joined(x) => Joined(x)'
    BY <1>13 DEF ReportStartError, PersistDone, Return, Joined, wrk, thr
  <2> QED
    BY <1>13, <2>1 DEF ReportStartError, PersistDone, Return, rec, wrk, thr
<1>14. ASSUME NEW t \in Callers, NEW w \in Workers, PutReply(t, w) PROVE ReapLocal(s)'
  <2>1. \A x \in Workers : Joined(x) => Joined(x)'
    BY <1>14 DEF PutReply, Return, Joined, wrk, thr
  <2> QED
    BY <1>14, <2>1 DEF PutReply, Return, rec, wrk, thr
<1>15. ASSUME NEW t \in Threads, NEW w \in Workers, JoinReturns(t, w) PROVE ReapLocal(s)'
  <2>1. wbox[w] = None
    BY <1>15 DEF JoinReturns, MayOutliveJoin, CallInv, CallLocal, WorkerLocal, Alive
  <2>2. \A x \in Workers \ {w} : Joined(x) => Joined(x)'
    BY <1>15 DEF JoinReturns, Joined, wrk
  <2> QED
    BY <1>15, <2>1, <2>2 DEF JoinReturns, rec, wrk
<1>16. ASSUME NEW t \in Threads, AllJoined(t) PROVE ReapLocal(s)'
  <2>1. \A x \in Workers : Joined(x) => Joined(x)'
    BY <1>16 DEF AllJoined, Goto, Joined, wrk, thr
  <2> QED
    BY <1>16, <2>1 DEF AllJoined, Goto, rec, wrk, thr
<1>17. ASSUME NEW t \in Threads, NEW r \in Sessions, StopReturnsAtOnce(t, r) PROVE ReapLocal(s)'
  <2>1. \A x \in Workers : Joined(x) => Joined(x)'
    BY <1>17 DEF StopReturnsAtOnce, AfterStop, Goto, Joined, wrk, thr
  <2> QED
    BY <1>17, <2>1 DEF StopReturnsAtOnce, AfterStop, Goto, rec, wrk, thr
<1>18. ASSUME NEW t \in Threads, NEW r \in Sessions, StopSandbox(t, r) PROVE ReapLocal(s)'
  <2>1. \A x \in Workers : Joined(x) => Joined(x)'
    BY <1>18 DEF StopSandbox, Joined, wrk, thr
  <2> QED
    BY <1>18, <2>1 DEF StopSandbox, rec, wrk, thr
<1>19. ASSUME NEW t \in Threads, TearDownEnds(t) PROVE ReapLocal(s)'
  <2>1. \A x \in Workers : Joined(x) => Joined(x)'
    BY <1>19 DEF TearDownEnds, AfterStop, Goto, Joined, wrk
  <2>2. op[t] # "stopall"
    BY <1>19 DEF CallInv, CallLocal
  <2> QED
    BY <1>19, <2>1, <2>2 DEF TearDownEnds, AfterStop, rec, wrk
<1>20. ASSUME NEW t \in Threads, Clear(t) PROVE ReapLocal(s)'
  <2>1. \A x \in Workers : Joined(x) => Joined(x)'
    <3>1. /\ UNCHANGED <<wsess, held>> /\ pc[t] = "clear"
          /\ \A u \in Threads : u # t => pc'[u] = pc[u] /\ arg'[u] = arg[u]
      BY <1>20 DEF Clear, Goto, Return, wrk
    <3> QED
      BY <3>1 DEF Joined
  <2>2. UNCHANGED wbox
    BY <1>20 DEF Clear, wrk
  <2>3. CASE t = Reaper
    BY <1>20, <2>1, <2>2, <2>3 DEF Clear, ClearRecords
  <2>4. CASE t # Reaper /\ arg[t] # s
    BY <1>20, <2>1, <2>2, <2>4 DEF Clear, ClearRecords
  <2>5. CASE t # Reaper /\ arg[t] = s
    <3>1. t \in Callers
      BY <1>20, <2>5 DEF Clear, CallInv, CallLocal, BaseInv, StopLocals, StopLocal, Threads
    <3>2. sandbox[s] \in {tgt[t][s], None}
      BY <1>20, <2>5, <3>1 DEF Clear, CallInv, CallLocal, StopStages
    <3>3. sandbox'[s] = None
      BY <1>20, <2>5, <3>2 DEF Clear, ClearRecords
    <3>4. left'[Reaper] = left[Reaper] /\ tgt'[Reaper] = tgt[Reaper]
      BY <1>20, <2>5 DEF Clear, ClearRecords
    <3> QED
      BY <2>1, <2>2, <3>3, <3>4
  <2> QED
    BY <2>3, <2>4, <2>5
<1>21. ASSUME StopAll PROVE ReapLocal(s)'
  <2>1. \A x \in Workers : Joined(x) => Joined(x)'
    BY <1>21 DEF StopAll, Call, Joined, wrk, thr
  <2> QED
    BY <1>21, <2>1 DEF StopAll, Call, rec, wrk, thr
<1>22. ASSUME ClearAll PROVE ReapLocal(s)'
  <2>1. op[Main] # "stopall"
    BY <1>0 DEF CallInv, CallLocal
  <2> QED
    BY <1>22, <2>1 DEF ClearAll
<1>23. ASSUME Reap PROVE ReapLocal(s)'
  <2>1. \A x \in Workers : Joined(x) => Joined(x)'
    BY <1>23 DEF Reap, Call, Joined, wrk
  <2>2. s \in left'[Reaper] => /\ LiveSandbox(s) /\ ~LiveWorker(s)
                              /\ tgt'[Reaper][s] = sandbox[s] /\ stopping'[s]
    BY <1>23 DEF Reap, Expired
  <2>3. ASSUME NEW x \in Workers, s \in left'[Reaper], wbox[x] = sandbox[s]
        PROVE  Joined(x)
    <3>1. sandbox[s] # None /\ (worker[s] = None \/ ~Alive(worker[s]))
      BY <2>2, <2>3 DEF LiveSandbox, LiveWorker
    <3>2. wsess[x] = s
      BY <2>3, <3>1 DEF RefInv
    <3>3. WorkerLocal(x)
      BY DEF CallInv
    <3>4. Alive(x)
      BY <2>3, <3>1, <3>3 DEF WorkerLocal, Alive
    <3> QED
      BY <3>1, <3>2, <3>3, <3>4 DEF WorkerLocal, Alive
  <2> QED
    BY <1>23, <2>1, <2>2, <2>3 DEF Reap, LiveSandbox, wrk
<1>24. ASSUME NEW w \in Workers, HandlePrompt(w) PROVE ReapLocal(s)'
  <2>1. \A x \in Workers : Joined(x) => Joined(x)'
    BY <1>24 DEF HandlePrompt, WorkerGoes, Joined, wrk, thr
  <2> QED
    BY <1>24, <2>1 DEF HandlePrompt, WorkerGoes, rec, wrk, thr
<1>25. ASSUME NEW w \in Workers, NEW o \in DoneOutcomes, HandleDone(w, o) PROVE ReapLocal(s)'
  <2>1. \A x \in Workers : Joined(x) => Joined(x)'
    BY <1>25 DEF HandleDone, PersistDone, Joined, wrk, thr
  <2> QED
    BY <1>25, <2>1 DEF HandleDone, PersistDone, rec, wrk, thr
<1>26. ASSUME NEW w \in Workers, NEW o \in ErrorOutcomes, ReportError(w, o) PROVE ReapLocal(s)'
  <2>1. \A x \in Workers : Joined(x) => Joined(x)'
    BY <1>26 DEF ReportError, PersistDone, Joined, wrk, thr
  <2> QED
    BY <1>26, <2>1 DEF ReportError, PersistDone, rec, wrk, thr
<1>27. ASSUME NEW w \in Workers, WorkerExit(w) PROVE ReapLocal(s)'
  <2>1. \A x \in Workers \ {w} : Joined(x) => Joined(x)'
    BY <1>27 DEF WorkerExit, Joined, thr
  <2> QED
    BY <1>27, <2>1 DEF WorkerExit, thr
<1>28. ASSUME NEW t \in Threads, NEW w \in Workers, WorkerStop(t, w)
      PROVE  UNCHANGED <<sandbox, stopping, wbox, wsess, pc, arg, tgt, left, held>>
  BY <1>28 DEF WorkerStop, rec, box, wrk, thr
<1>29. ASSUME NEW w \in Workers, NEW e \in Roles \cup {"done"}, Receive(w, e)
      PROVE  UNCHANGED <<sandbox, stopping, wbox, wsess, pc, arg, tgt, left, held>>
  BY <1>29 DEF Receive, WorkerGoes, Quiet, rec, box, wrk, thr
<1>30. ASSUME NEW w \in Workers, ServeRequest(w) \/ ServeEnds(w) \/ ReceiveFails(w) \/
   TakeReply(w) \/ SendReply(w) \/ SeeStop(w)
      PROVE  UNCHANGED <<sandbox, stopping, wbox, wsess, pc, arg, tgt, left, held>>
  BY <1>30 DEF ServeRequest, WorkerGoes, Quiet, ServeEnds, ReceiveFails, TakeReply, SendReply,
     SeeStop, rec, box, wrk, thr
<1>31. ASSUME NEW r \in Sessions, SeedState(r) \/ Age(r)
      PROVE  UNCHANGED <<sandbox, stopping, wbox, wsess, pc, arg, tgt, left, held>>
  BY <1>31 DEF SeedState, Age, rec, box, wrk, thr
<1>32. ASSUME NEW b \in Sandboxes, Crash(b)
      PROVE  UNCHANGED <<sandbox, stopping, wbox, wsess, pc, arg, tgt, left, held>>
  BY <1>32 DEF Crash, rec, box, wrk, thr
<1>33. CASE UNCHANGED vars
  BY <1>1, <1>33 DEF vars, rec, box, wrk, thr
<1> QED
  BY <1>1, <1>2, <1>3, <1>4, <1>5, <1>6, <1>7, <1>8, <1>9, <1>10, <1>11, <1>12, <1>13, <1>14,
     <1>15, <1>16, <1>17, <1>18, <1>19, <1>20, <1>21, <1>22, <1>23, <1>24, <1>25, <1>26, <1>27,
     <1>28, <1>29, <1>30, <1>31, <1>32, <1>33, Zenon
  DEF Next, CallerStep, StarterStep, StopperStep, WorkerStep, LockedWorkerStep

\* The reaper never stops a sandbox under a task: what it has taken to be idle
\* stays so, since start_task refuses a session that is stopping.
THEOREM ReaperSparesTasks ==
    ASSUME JoinsEnd
    PROVE  Spec /\ []CallsApart => []ReaperSparesActiveTasks
<1>1. JoinsEnd
  OBVIOUS
<1>2. BaseInv /\ CallInv /\ RefInv /\ ReapInv /\ CallsApart /\ CallsApart' /\ [Next]_vars
          => (BaseInv /\ CallInv /\ RefInv /\ ReapInv)'
  BY <1>1, CallInvStep, RefStep, ReapStep DEF BaseInv
<1>3. Init => BaseInv /\ CallInv /\ RefInv /\ ReapInv
  BY CallInvInit DEF Init, RefInv, ReapInv, ReapLocal, Nobody, Threads
<1>4. BaseInv /\ CallInv /\ ReapInv => ReaperSparesActiveTasks
  <2> SUFFICES ASSUME BaseInv, CallInv, ReapInv, NEW s \in left[Reaper], NEW w \in Workers,
                      wbox[w] = tgt[Reaper][s]
               PROVE  ~Driving(w)
    BY DEF ReaperSparesActiveTasks
  <2>1. s \in Sessions
    BY DEF BaseInv, TypeInv, TypeOK, Threads
  <2>2. Joined(w)
    BY <2>1 DEF ReapInv, ReapLocal
  <2> QED
    BY <2>2 DEF Driving, Joined, Threads
<1> QED
  BY <1>2, <1>3, <1>4, PTL DEF Spec

----------------------------------------------------------------------------
(* Each session is the one that its adapter is checked with: the           *)
(* invariants of what a stop leaves and of what a sink is told.            *)

\* The steps that a session's adapter may see something of, and the others
LEMMA StepKinds ==
    ~Shutdown /\ [Next]_vars =>
        \/ \E w \in Workers : WorkerStep(w)
        \/ \E t \in Callers, w \in Workers : SendTask(t, w) \/ PutReply(t, w)
        \/ \E t \in Callers, s \in Sessions : SubmitReply(t, s)
        \/ \E t \in Callers, s \in Stoppable : StopSession(t, s)
        \/ \E t \in Callers : BootFails(t) \/ SendTaskFails(t)
        \/ \E t \in Callers, o \in ErrorOutcomes : ReportStartError(t, o)
        \/ \E t \in Threads, w \in Workers : WorkerStop(t, w)
        \/ UNCHANGED <<worker, pending, wpc, wsess, wevt, wstop, inbox>>
<1> SUFFICES ASSUME ~Shutdown, [Next]_vars,
                    ~UNCHANGED <<worker, pending, wpc, wsess, wevt, wstop, inbox>>
             PROVE  \/ \E w \in Workers : WorkerStep(w)
                    \/ \E t \in Callers, w \in Workers : SendTask(t, w) \/ PutReply(t, w)
                    \/ \E t \in Callers, s \in Sessions : SubmitReply(t, s)
                    \/ \E t \in Callers, s \in Stoppable : StopSession(t, s)
                    \/ \E t \in Callers : BootFails(t) \/ SendTaskFails(t)
                    \/ \E t \in Callers, o \in ErrorOutcomes : ReportStartError(t, o)
                    \/ \E t \in Threads, w \in Workers : WorkerStop(t, w)
  OBVIOUS
<1> DEFINE Unseen == UNCHANGED <<worker, pending, wpc, wsess, wevt, wstop, inbox>>
<1>1. ASSUME NEW t \in Callers, NEW s \in Sessions, StartRetiring(t, s) \/ StartTask(t, s)
      PROVE  Unseen
  BY <1>1 DEF StartRetiring, StartTask, rec, wrk
<1>2. ASSUME NEW t \in Callers, Refuse(t) \/ Admit(t) \/ BootReuse(t) PROVE Unseen
  BY <1>2 DEF Refuse, Admit, BootReuse, rec, wrk
<1>3. ASSUME NEW t \in Callers, NEW b \in Sandboxes, BootFresh(t, b) PROVE Unseen
  BY <1>3 DEF BootFresh, wrk
<1>4. ASSUME NEW t \in Threads, NEW w \in Workers, JoinReturns(t, w) PROVE Unseen
  BY <1>4 DEF JoinReturns, rec, wrk
<1>5. ASSUME NEW t \in Threads, AllJoined(t) \/ TearDownEnds(t) PROVE Unseen
  BY <1>5 DEF AllJoined, TearDownEnds, rec, wrk
<1>6. ASSUME NEW t \in Threads, NEW s \in Sessions, StopReturnsAtOnce(t, s) \/ StopSandbox(t, s)
      PROVE  Unseen
  BY <1>6 DEF StopReturnsAtOnce, StopSandbox, rec, wrk
<1>7. ASSUME NEW t \in Threads, Clear(t) PROVE Unseen
  BY <1>7 DEF Clear, ClearRecords, wrk
<1>8. ClearAll \/ Reap => Unseen
  BY DEF ClearAll, ClearRecords, Reap, wrk
<1>9. ~StopAll
  BY DEF StopAll
<1>10. ASSUME NEW s \in Sessions, SeedState(s) \/ Age(s) PROVE Unseen
  BY <1>10 DEF SeedState, Age, wrk
<1>11. ASSUME NEW b \in Sandboxes, Crash(b) PROVE Unseen
  BY <1>11 DEF Crash, rec, wrk
<1>12. CASE UNCHANGED vars
  BY <1>12 DEF vars, rec, wrk
<1> QED
  BY <1>1, <1>2, <1>3, <1>4, <1>5, <1>6, <1>7, <1>8, <1>9, <1>10, <1>11, <1>12, Zenon
  DEF Next, CallerStep, StarterStep, StopperStep

\* A stop waits for one worker at most.
HeldOnce(t) == pc[t] = "join" => \A w, x \in held[t] : w = x

\* A worker that left a prompt pending waits for a reply that is not in its
\* queue, or ends.
LeftPrompt(w) == wpc[w] = "exit" \/ (wpc[w] = "prompt" /\ inbox[w] \in {<<>>, <<"pill">>})

\* What a stop leaves of a worker: it ends with the reply that it has got, and
\* a prompt that is pending is its session's worker's, stopped or not.
LeaveInv ==
    /\ \A t \in Threads : HeldOnce(t)
    /\ \A w \in Workers : inbox[w] = <<"reply", "pill">> => wpc[w] \in {"prompt", "exit"}
    /\ \A s \in Sessions :
          pending[s] # "none" => \E w \in Workers : wsess[w] = s /\ LeftPrompt(w)

\* A session has one worker thread at a time, a stopped one included.
LEMMA OneThread ==
    ASSUME CallInv, LeaveInv, CallsApart, TypeInv,
           NEW w \in Workers, NEW x \in Workers, Alive(w), Alive(x), wsess[w] = wsess[x]
    PROVE  w = x
<1>0. None \notin Sessions /\ None \notin Workers /\ Callers \subseteq Threads
  BY CoordinatorAssumption DEF Threads
<1>1. /\ wsess[w] \in Sessions /\ (worker[wsess[w]] = w \/ Joined(w))
      /\ wsess[x] \in Sessions /\ (worker[wsess[x]] = x \/ Joined(x))
  BY DEF CallInv, WorkerLocal, Alive
<1>2. ASSUME NEW y \in Workers, Joined(y) PROVE worker[wsess[y]] = None
  BY <1>0, <1>2 DEF CallInv, CallLocal, Joined
<1>3. CASE Joined(w)
  <2>1. Joined(x)
    BY <1>0, <1>1, <1>2, <1>3
  <2>2. PICK t \in Callers : pc[t] = "join" /\ w \in held[t] /\ arg[t] = wsess[w]
    BY <1>3 DEF Joined
  <2>3. PICK u \in Callers : pc[u] = "join" /\ x \in held[u] /\ arg[u] = wsess[x]
    BY <2>1 DEF Joined
  <2>4. t = u
    BY <1>0, <1>1, <2>2, <2>3 DEF CallsApart
  <2> QED
    BY <1>0, <2>2, <2>3, <2>4 DEF LeaveInv, HeldOnce
<1>4. CASE ~Joined(w)
  BY <1>0, <1>1, <1>2, <1>4
<1> QED
  BY <1>3, <1>4

\* No step lets a stop wait for two workers.
LEMMA HeldOnceStep ==
    ~Shutdown /\ TypeInv /\ LeaveInv /\ [Next]_vars => \A u \in Threads : HeldOnce(u)'
<1> SUFFICES ASSUME ~Shutdown, TypeInv, LeaveInv, [Next]_vars, NEW u \in Threads
             PROVE  HeldOnce(u)'
  OBVIOUS
<1>0. HeldOnce(u) /\ Callers \subseteq Threads /\ Reaper \in Threads /\ Main \in Threads
  BY DEF LeaveInv, Threads
<1> USE <1>0 DEF HeldOnce, TypeInv, TypeOK
<1>1. ASSUME UNCHANGED <<pc, held>> PROVE HeldOnce(u)'
  BY <1>1
<1>2. ASSUME NEW t \in Threads, NEW stage, stage # "join",
             pc' = [pc EXCEPT ![t] = stage], UNCHANGED held
      PROVE  HeldOnce(u)'
  BY <1>2
<1>3. ASSUME NEW t \in Callers, CallerStep(t) PROVE HeldOnce(u)'
  BY <1>2, <1>3 DEF CallerStep, StartRetiring, StartTask, SubmitReply, StopSession, Call
<1>4. ASSUME NEW t \in Callers, StarterStep(t) PROVE HeldOnce(u)'
  <2>1. CASE \E w \in Workers : PutReply(t, w)
    BY <2>1 DEF PutReply, Return
  <2>2. CASE ~\E w \in Workers : PutReply(t, w)
    <3>1. /\ UNCHANGED held
          /\ \E stage \in {"idle", "boot", "sendOld", "sendNew", "failed"} :
                pc' = [pc EXCEPT ![t] = stage]
      BY <1>4, <2>2 DEF StarterStep, Refuse, Admit, BootReuse, BootFresh, BootFails, AbortStart,
          SendTask, SendTaskFails, ReportStartError, Return, Goto
    <3> QED
      BY <1>2, <3>1
  <2> QED
    BY <2>1, <2>2
<1>5. ASSUME NEW t \in Threads, StopperStep(t) PROVE HeldOnce(u)'
  <2>1. ASSUME NEW w \in Workers, WorkerStop(t, w) \/ JoinReturns(t, w) PROVE HeldOnce(u)'
    <3>1. CASE WorkerStop(t, w)
      BY <1>1, <3>1 DEF WorkerStop, thr
    <3>2. CASE JoinReturns(t, w)
      <4>1. pc' = pc /\ held' = [held EXCEPT ![t] = held[t] \ {w}]
        BY <3>2 DEF JoinReturns
      <4> QED
        BY <4>1
    <3> QED
      BY <2>1, <3>1, <3>2
  <2>2. ASSUME AllJoined(t) \/ TearDownEnds(t) \/ Clear(t) PROVE HeldOnce(u)'
    BY <1>2, <2>2 DEF AllJoined, TearDownEnds, Clear, AfterStop, Goto, Return
  <2>3. ASSUME NEW s \in Sessions, StopReturnsAtOnce(t, s) \/ StopSandbox(t, s) PROVE HeldOnce(u)'
    BY <1>2, <2>3 DEF StopReturnsAtOnce, StopSandbox, AfterStop, Goto
  <2> QED
    BY <1>5, <2>1, <2>2, <2>3, Zenon DEF StopperStep
<1>6. ASSUME StopAll \/ ClearAll \/ Reap PROVE HeldOnce(u)'
  BY <1>2, <1>6 DEF StopAll, ClearAll, Reap, Call, Return
<1>7. ASSUME NEW w \in Workers, WorkerStep(w) PROVE HeldOnce(u)'
  BY <1>1, <1>7 DEF WorkerStep, LockedWorkerStep, Receive, ServeRequest, ServeEnds, ReceiveFails,
      TakeReply, SendReply, SeeStop, HandlePrompt, HandleDone, ReportError, WorkerExit, Quiet, thr
<1>8. ASSUME NEW s \in Sessions, SeedState(s) \/ Age(s) PROVE HeldOnce(u)'
  BY <1>1, <1>8 DEF SeedState, Age, thr
<1>9. ASSUME NEW b \in Sandboxes, Crash(b) PROVE HeldOnce(u)'
  BY <1>1, <1>9 DEF Crash, thr
<1>10. CASE UNCHANGED vars
  BY <1>1, <1>10 DEF vars, thr
<1> QED
  BY <1>3, <1>4, <1>5, <1>6, <1>7, <1>8, <1>9, <1>10, Zenon DEF Next

\* A worker's queue and its place in the loop, after any step of its own
LEMMA QueueStep ==
    JoinsEnd /\ BaseInv /\ CallInv /\ LeaveInv /\ CallsApart /\ [Next]_vars =>
        \A x \in Workers : inbox'[x] = <<"reply", "pill">> => wpc'[x] \in {"prompt", "exit"}
<1> SUFFICES ASSUME JoinsEnd, BaseInv, CallInv, LeaveInv, CallsApart, [Next]_vars,
                    NEW x \in Workers, inbox'[x] = <<"reply", "pill">>
             PROVE  wpc'[x] \in {"prompt", "exit"}
  OBVIOUS
<1>0. /\ TypeOK /\ ~Shutdown /\ WorkerLocal(x)
      /\ inbox[x] = <<"reply", "pill">> => wpc[x] \in {"prompt", "exit"}
  BY DEF BaseInv, TypeInv, JoinsEnd, LeaveInv, CallInv
<1> USE <1>0 DEF TypeOK
<1>1. CASE UNCHANGED <<wpc, inbox>>
  BY <1>1
<1>2. ASSUME NEW w \in Workers, WorkerStep(w) PROVE wpc'[x] \in {"prompt", "exit"}
  <2>1. ASSUME x # w PROVE UNCHANGED <<wpc[x], inbox[x]>>
    BY <1>2, <2>1 DEF WorkerStep, LockedWorkerStep, Receive, ServeRequest, ServeEnds, ReceiveFails,
        TakeReply, SendReply, SeeStop, HandlePrompt, HandleDone, ReportError, WorkerExit, WorkerGoes
  <2>2. CASE TakeReply(w) /\ x = w
    BY <2>2, QueueFacts DEF TakeReply, WorkerLocal
  <2>3. CASE WorkerExit(w) /\ x = w
    BY <2>3, QueueFacts DEF WorkerExit
  <2>4. CASE SeeStop(w) /\ x = w
    BY <2>4 DEF SeeStop, WorkerGoes
  <2>5. CASE ~TakeReply(w) /\ ~WorkerExit(w) /\ ~SeeStop(w)
    <3>1. inbox' = inbox /\ wpc[w] \notin {"prompt", "exit"}
      BY <1>2, <2>5 DEF WorkerStep, LockedWorkerStep, Receive, ServeRequest, ServeEnds, ReceiveFails,
          SendReply, HandlePrompt, HandleDone, ReportError
    <3> QED
      BY <2>1, <3>1
  <2> QED
    BY <2>1, <2>2, <2>3, <2>4, <2>5
<1>3. ASSUME NEW t \in Callers, NEW w \in Workers, SendTask(t, w)
      PROVE  wpc'[x] \in {"prompt", "exit"}
  <2>1. inbox' = inbox /\ wpc[w] = "free" /\ (x # w => wpc'[x] = wpc[x])
    BY <1>3 DEF SendTask, UnusedWorker, Alive
  <2> QED
    BY <2>1
<1>4. ASSUME NEW t \in Callers, NEW w \in Workers, PutReply(t, w)
      PROVE  wpc'[x] \in {"prompt", "exit"}
  <2>1. PutUnderWay(t, w) /\ t \in Threads
    BY <1>4 DEF PutReply, PutUnderWay, Threads
  <2>2. inbox[w] = <<>> /\ wpc[w] = "prompt"
    BY <2>1 DEF CallInv, HeldLocal
  <2> QED
    BY <1>4, <2>2, QueueFacts DEF PutReply
<1>5. ASSUME NEW t \in Threads, NEW w \in Workers, WorkerStop(t, w)
      PROVE  wpc'[x] \in {"prompt", "exit"}
  <2>1. wpc' = wpc /\ inbox' = [inbox EXCEPT ![w] = Append(inbox[w], "pill")] /\ ~wstop[w]
    BY <1>5 DEF WorkerStop
  <2>2. x = w => inbox[x] = <<"reply">>
    BY <2>1, QueueFacts DEF WorkerLocal
  <2> QED
    BY <2>1, <2>2 DEF WorkerLocal
<1>6. ASSUME NEW t \in Callers,
             \/ \E s \in Sessions : SubmitReply(t, s)
             \/ \E s \in Stoppable : StopSession(t, s)
             \/ BootFails(t) \/ SendTaskFails(t)
             \/ \E o \in ErrorOutcomes : ReportStartError(t, o)
      PROVE  UNCHANGED <<wpc, inbox>>
  BY <1>6 DEF SubmitReply, StopSession, BootFails, SendTaskFails, AbortStart, ReportStartError, wrk
<1> QED
  BY <1>1, <1>2, <1>3, <1>4, <1>5, <1>6, StepKinds

\* A prompt that is pending stays its session's worker's.
LEMMA LeftPromptStep ==
    JoinsEnd /\ BaseInv /\ CallInv /\ LeaveInv /\ CallsApart /\ [Next]_vars =>
        \A s \in Sessions :
            pending'[s] # "none" => \E w \in Workers : wsess'[w] = s /\ LeftPrompt(w)'
<1> SUFFICES ASSUME JoinsEnd, BaseInv, CallInv, LeaveInv, CallsApart, [Next]_vars,
                    NEW s \in Sessions, pending'[s] # "none"
             PROVE  \E w \in Workers : wsess'[w] = s /\ LeftPrompt(w)'
  OBVIOUS
<1>0. /\ TypeOK /\ ArgOK /\ ~Shutdown /\ Callers \subseteq Threads /\ None \notin Sessions
      /\ None \notin Workers
  BY CoordinatorAssumption DEF BaseInv, TypeInv, JoinsEnd, Threads
<1> USE <1>0 DEF TypeOK
<1>1. ASSUME NEW w \in Workers, HandlePrompt(w), wsess[w] = s
      PROVE  \E x \in Workers : wsess'[x] = s /\ LeftPrompt(x)'
  <2>1. WorkerLocal(w) /\ wpc[w] = "event" /\ inbox[w] # <<"reply", "pill">>
    BY <1>1 DEF CallInv, LeaveInv, HandlePrompt
  <2>2. inbox[w] \in {<<>>, <<"pill">>}
    BY <2>1 DEF WorkerLocal
  <2> QED
    BY <1>1, <2>2 DEF HandlePrompt, WorkerGoes, LeftPrompt
<1>2. CASE ~\E w \in Workers : HandlePrompt(w) /\ wsess[w] = s
  <2>1. pending[s] # "none" /\ pending'[s] = pending[s]
    <3>1. ASSUME NEW w \in Workers, WorkerStep(w)
          PROVE  pending[s] # "none" /\ pending'[s] = pending[s]
      BY <1>2, <3>1 DEF WorkerStep, LockedWorkerStep, Receive, ServeRequest, ServeEnds, ReceiveFails,
          TakeReply, SendReply, SeeStop, HandlePrompt, HandleDone, ReportError, WorkerExit,
          PersistDone, Quiet, rec
    <3>2. ASSUME NEW t \in Callers, NEW w \in Workers, SendTask(t, w) \/ PutReply(t, w)
          PROVE  pending[s] # "none" /\ pending'[s] = pending[s]
      BY <3>2 DEF SendTask, PutReply, rec
    <3>3. ASSUME NEW t \in Callers,
                 \/ \E r \in Sessions : SubmitReply(t, r)
                 \/ \E r \in Stoppable : StopSession(t, r)
                 \/ BootFails(t) \/ SendTaskFails(t)
                 \/ \E o \in ErrorOutcomes : ReportStartError(t, o)
          PROVE  pending[s] # "none" /\ pending'[s] = pending[s]
      BY <3>3 DEF SubmitReply, StopSession, BootFails, SendTaskFails, AbortStart,
          ReportStartError, PersistDone
    <3>4. ASSUME NEW t \in Threads, NEW w \in Workers, WorkerStop(t, w)
          PROVE  pending[s] # "none" /\ pending'[s] = pending[s]
      BY <3>4 DEF WorkerStop, rec
    <3> QED
      BY <3>1, <3>2, <3>3, <3>4, StepKinds
  <2>2. PICK x \in Workers : wsess[x] = s /\ LeftPrompt(x)
    BY <2>1 DEF LeaveInv
  <2>3. Alive(x)
    BY <2>2 DEF LeftPrompt, Alive
  <2>4. wsess'[x] = s /\ LeftPrompt(x)'
    <3>1. CASE UNCHANGED <<wpc, wsess, inbox>>
      BY <2>2, <3>1 DEF LeftPrompt
    <3>2. ASSUME NEW w \in Workers, WorkerStep(w) PROVE wsess'[x] = s /\ LeftPrompt(x)'
      <4>1. CASE x # w
        BY <2>2, <3>2, <4>1 DEF WorkerStep, LockedWorkerStep, Receive, ServeRequest, ServeEnds,
            ReceiveFails, TakeReply, SendReply, SeeStop, HandlePrompt, HandleDone, ReportError,
            WorkerExit, WorkerGoes, LeftPrompt
      <4>2. CASE TakeReply(w) /\ x = w
        <5>1. inbox[w] = <<"pill">>
          BY <2>2, <4>2 DEF TakeReply, LeftPrompt
        <5>2. Head(<<"pill">>) # "reply"
          OBVIOUS
        <5> QED
          BY <2>2, <4>2, <5>1, <5>2 DEF TakeReply, WorkerGoes, LeftPrompt
      <4>3. CASE SeeStop(w) /\ x = w
        BY <2>2, <4>3 DEF SeeStop, WorkerGoes, LeftPrompt
      <4>4. CASE WorkerExit(w) /\ x = w
        BY <2>1, <2>2, <4>4 DEF WorkerExit
      <4>5. CASE ~TakeReply(w) /\ ~SeeStop(w) /\ ~WorkerExit(w)
        <5>1. wpc[w] \notin {"prompt", "exit"}
          BY <3>2, <4>5 DEF WorkerStep, LockedWorkerStep, Receive, ServeRequest, ServeEnds,
              ReceiveFails, SendReply, HandlePrompt, HandleDone, ReportError
        <5> QED
          BY <2>2, <4>1, <5>1 DEF LeftPrompt
      <4> QED
        BY <4>1, <4>2, <4>3, <4>4, <4>5
    <3>3. ASSUME NEW t \in Callers, NEW w \in Workers, SendTask(t, w)
          PROVE  wsess'[x] = s /\ LeftPrompt(x)'
      <4>1. x # w
        BY <2>3, <3>3 DEF SendTask, UnusedWorker
      <4> QED
        BY <2>2, <3>3, <4>1 DEF SendTask, LeftPrompt
    <3>4. ASSUME NEW t \in Callers, NEW w \in Workers, PutReply(t, w)
          PROVE  wsess'[x] = s /\ LeftPrompt(x)'
      <4>1. PutUnderWay(t, w) /\ t \in Threads
        BY <3>4 DEF PutReply, PutUnderWay
      <4>2. worker[wsess[w]] = w
        BY <4>1 DEF CallInv, HeldLocal
      <4>3. x # w
        BY <2>1, <2>2, <4>1, <4>2 DEF CallInv, RecLocal
      <4> QED
        BY <2>2, <3>4, <4>3 DEF PutReply, LeftPrompt
    <3>5. ASSUME NEW t \in Threads, NEW w \in Workers, WorkerStop(t, w)
          PROVE  wsess'[x] = s /\ LeftPrompt(x)'
      <4>1. /\ UNCHANGED <<wpc, wsess>> /\ ~wstop[w]
            /\ inbox' = [inbox EXCEPT ![w] = Append(inbox[w], "pill")]
        BY <3>5 DEF WorkerStop
      <4>2. x = w /\ inbox[x] # <<>> => wpc[x] = "exit"
        BY <2>2, <4>1, QueueFacts DEF LeftPrompt, CallInv, WorkerLocal
      <4> QED
        BY <2>2, <4>1, <4>2, QueueFacts DEF LeftPrompt
    <3>6. ASSUME NEW t \in Callers,
                 \/ \E r \in Sessions : SubmitReply(t, r)
                 \/ \E r \in Stoppable : StopSession(t, r)
                 \/ BootFails(t) \/ SendTaskFails(t)
                 \/ \E o \in ErrorOutcomes : ReportStartError(t, o)
          PROVE  UNCHANGED <<wpc, wsess, inbox>>
      BY <3>6 DEF SubmitReply, StopSession, BootFails, SendTaskFails, AbortStart,
          ReportStartError, wrk
    <3> QED
      BY <3>1, <3>2, <3>3, <3>4, <3>5, <3>6, StepKinds
  <2> QED
    BY <2>4
<1> QED
  BY <1>1, <1>2

\* A clarification that a worker has received may be shown.
ConsentInv ==
    \A w \in Workers :
        wpc[w] = "event" /\ wevt[w] = "clarification" /\ Review => consent[wsess[w]]

Starting(t) == pc[t] \in LockStages \cup {"failed"}

\* No event of the session is left when a task of it starts, or fails to.
SinkInv == \A t \in Callers : Starting(t) => out[arg[t]] = "none"

SeenType ==
    /\ out \in [Sessions -> Roles \cup {"none", "done"}]
    /\ consent \in [Sessions -> BOOLEAN]

\* A step of the Coordinator with its adapters is one of the Coordinator.
LEMMA EventsAreSteps == [EventsNext]_eventVars => [Next]_vars
<1> SUFFICES ASSUME EventsNext PROVE Next \/ UNCHANGED vars
  BY DEF eventVars
<1>1. ASSUME NEW w \in Workers, WorkerTells(w) PROVE Next
  BY <1>1 DEF WorkerTells, TellPrompt, Next, WorkerStep, LockedWorkerStep
<1>2. ASSUME NEW t \in Callers, CallerTells(t) PROVE Next
  BY <1>2 DEF CallerTells, Answer, Next, CallerStep
<1>3. ASSUME NEW t \in Callers, StarterTells(t) PROVE Next
  BY <1>3 DEF StarterTells, Next, StarterStep
<1>4. ASSUME NEW s \in Sessions, Emit(s) PROVE UNCHANGED vars
  BY <1>4 DEF Emit
<1> QED
  BY <1>1, <1>2, <1>3, <1>4 DEF EventsNext, Next

\* A worker that tells a sink something, or nothing, makes a step of its own.
LEMMA TellsAreSteps == \A w \in Workers : WorkerTells(w) => WorkerStep(w)
BY DEF WorkerTells, TellPrompt, WorkerStep, LockedWorkerStep

\* While a thread starts a task of a session, the session has no worker.
LEMMA StartingAlone ==
    ASSUME BaseInv, CallInv, CallsApart, NEW t \in Callers, Starting(t),
           NEW w \in Workers, Alive(w), wsess[w] = arg[t]
    PROVE  FALSE
<1>0. None \notin Sessions /\ None \notin Workers /\ Callers \subseteq Threads
  BY CoordinatorAssumption DEF Threads
<1>1. worker[arg[t]] = None /\ arg[t] \in Sessions /\ pc[t] # "join"
  BY <1>0 DEF CallInv, CallLocal, Starting, LockStages
<1>2. PICK u \in Callers : pc[u] = "join" /\ arg[u] = wsess[w]
  BY <1>0, <1>1 DEF CallInv, WorkerLocal, Alive, Joined
<1> QED
  BY <1>0, <1>1, <1>2 DEF CallsApart

\* What a worker tells a sink
LEMMA WorkerTellsOwn ==
    ASSUME CallInv, SeenType, NEW w \in Workers, WorkerTells(w)
    PROVE  /\ Alive(w)
           /\ \A s \in Sessions : s # wsess[w] => out'[s] = out[s] /\ consent'[s] = consent[s]
<1>1. Alive(w)
  BY DEF WorkerTells, TellPrompt, Alive, Receive, ServeRequest, ServeEnds, ReceiveFails, TakeReply,
     SendReply, SeeStop, HandlePrompt, HandleDone, ReportError, WorkerExit
<1>2. wsess[w] \in Sessions
  BY <1>1 DEF CallInv, WorkerLocal, Alive
<1> QED
  BY <1>1, <1>2 DEF WorkerTells, TellPrompt, TellDone, seen, Put, SeenType

EventsInv == BaseInv /\ CallInv /\ LeaveInv /\ SeenType /\ ConsentInv /\ SinkInv

\* Every step keeps the types of what adapters see.
LEMMA SeenTypeStep == EventsInv /\ EventsNext => SeenType'
<1> SUFFICES ASSUME EventsInv, EventsNext PROVE SeenType'
  OBVIOUS
<1>0. TypeOK /\ ArgOK /\ Callers \subseteq Threads
  BY DEF EventsInv, BaseInv, TypeInv, Threads
<1> USE <1>0 DEF EventsInv, SeenType, TypeOK, Put, seen
<1>1. ASSUME NEW s \in Sessions, Emit(s) PROVE SeenType'
  BY <1>1 DEF Emit
<1>2. ASSUME NEW w \in Workers, WorkerTells(w) PROVE SeenType'
  <2>1. CASE TellPrompt(w)
    BY <2>1 DEF TellPrompt, HandlePrompt
  <2>2. ASSUME NEW s, NEW o, TellDone(s, o) PROVE SeenType'
    BY <2>2 DEF TellDone
  <2>3. CASE UNCHANGED seen
    BY <2>3
  <2> QED
    BY <1>2, <2>1, <2>2, <2>3, Zenon DEF WorkerTells
<1>3. ASSUME NEW t \in Callers, CallerTells(t) PROVE SeenType'
  BY <1>3 DEF CallerTells, Answer
<1>4. ASSUME NEW t \in Callers, StarterTells(t) PROVE SeenType'
  BY <1>4 DEF StarterTells, TellDone
<1> QED
  BY <1>1, <1>2, <1>3, <1>4 DEF EventsNext

\* An agent that asks about its work has had its plan approved, and has not
\* shown another one since.
LEMMA ConsentStep == EventsInv /\ CallsApart /\ EventsNext => ConsentInv'
<1> SUFFICES ASSUME EventsInv, CallsApart, EventsNext, NEW x \in Workers,
                    wpc'[x] = "event", wevt'[x] = "clarification", Review
             PROVE  consent'[wsess'[x]]
  BY DEF ConsentInv
<1>0. /\ TypeOK /\ ArgOK /\ Callers \subseteq Threads /\ BaseInv /\ CallInv /\ LeaveInv /\ SeenType
      /\ TypeInv
      /\ wpc[x] = "event" /\ wevt[x] = "clarification" => consent[wsess[x]]
  BY DEF EventsInv, BaseInv, TypeInv, Threads, ConsentInv
<1>a. wpc[x] # "free" => wsess[x] \in Sessions
  BY <1>0 DEF CallInv, WorkerLocal
<1> USE <1>0, <1>a DEF TypeOK, SeenType
<1>1. CASE UNCHANGED <<wpc, wevt, wsess, consent>>
  BY <1>1
<1>2. ASSUME NEW s \in Sessions, Emit(s) PROVE UNCHANGED <<wpc, wevt, wsess, consent>>
  BY <1>2 DEF Emit, vars, wrk
<1>3. ASSUME NEW w \in Workers, WorkerTells(w) PROVE consent'[wsess'[x]]
  <2>1. CASE x # w
    <3>1. UNCHANGED <<wpc[x], wevt[x], wsess[x]>>
      <4>1. WorkerStep(w)
        BY <1>3, TellsAreSteps
      <4>2. ASSUME NEW stage, wpc' = [wpc EXCEPT ![w] = stage], UNCHANGED wsess,
                   wevt' = wevt \/ \E e : wevt' = [wevt EXCEPT ![w] = e]
            PROVE  UNCHANGED <<wpc[x], wevt[x], wsess[x]>>
        BY <2>1, <4>2
      <4>3. CASE WorkerExit(w)
        BY <2>1, <4>3 DEF WorkerExit
      <4> QED
        BY <4>1, <4>2, <4>3
      DEF WorkerStep, LockedWorkerStep, Receive, ServeRequest, ServeEnds, ReceiveFails,
          TakeReply, SendReply, SeeStop, HandlePrompt, HandleDone, ReportError, WorkerGoes
    <3>2. Alive(w) /\ (wsess[x] # wsess[w] => consent'[wsess[x]] = consent[wsess[x]])
      BY <1>3, <3>1, WorkerTellsOwn
    <3>3. wsess[x] # wsess[w]
      BY <2>1, <3>1, <3>2, OneThread DEF Alive
    <3> QED
      BY <3>1, <3>2, <3>3
  <2>2. CASE x = w
    <3>1. ASSUME NEW e \in Roles \cup {"done"}, Receive(w, e), MaySay(wsess[w], e), UNCHANGED seen
          PROVE  consent'[wsess'[x]]
      BY <2>2, <3>1 DEF Receive, WorkerGoes, MaySay, seen
    <3>2. ASSUME NEW o, HandleDone(w, o) \/ ReportError(w, o) PROVE FALSE
      BY <2>2, <3>2 DEF HandleDone, ReportError
    <3>3. ASSUME NEW stage, stage # "event", wpc' = [wpc EXCEPT ![w] = stage] PROVE FALSE
      BY <2>2, <3>3
    <3>4. ~TellPrompt(w) /\ ~WorkerExit(w) /\ ~ServeRequest(w) /\ ~ReceiveFails(w) /\ ~SeeStop(w)
      BY <3>3 DEF TellPrompt, HandlePrompt, WorkerExit, ServeRequest, ReceiveFails, SeeStop, WorkerGoes
    <3>5. ~ServeEnds(w) /\ ~TakeReply(w) /\ ~SendReply(w)
      BY <3>3 DEF ServeEnds, TakeReply, SendReply, WorkerGoes
    <3> QED
      BY <1>3, <3>1, <3>2, <3>4, <3>5, Zenon DEF WorkerTells
  <2> QED
    BY <2>1, <2>2
<1>4. ASSUME NEW t \in Callers, NEW s \in Sessions, NEW ok \in BOOLEAN, Answer(t, s, ok)
      PROVE  consent'[wsess'[x]]
  <2>1. UNCHANGED <<wpc, wevt, wsess>> /\ pending[s] # "none"
    BY <1>4 DEF Answer, SubmitReply, wrk
  <2>2. PICK w \in Workers : wsess[w] = s /\ LeftPrompt(w)
    BY <2>1 DEF LeaveInv
  <2>3. wsess[x] # s
    <3>1. Alive(w) /\ Alive(x) /\ w # x
      BY <2>1, <2>2 DEF LeftPrompt, Alive
    <3> QED
      BY <2>2, <3>1, OneThread
  <2> QED
    BY <1>4, <2>1, <2>3 DEF Answer, Put
<1>5. ASSUME NEW t \in Callers, CallerTells(t), UNCHANGED seen
      PROVE  UNCHANGED <<wpc, wevt, wsess, consent>>
  BY <1>5 DEF CallerTells, Answer, SubmitReply, StartRetiring, StartTask, StopSession, wrk, seen
<1>6. ASSUME NEW t \in Callers, NEW w \in Workers, SendTask(t, w),
             consent' = Put(consent, arg[t], FALSE)
      PROVE  consent'[wsess'[x]]
  <2>1. Starting(t) /\ wevt' = wevt /\ x # w /\ UNCHANGED <<wpc[x], wsess[x]>>
    BY <1>6 DEF SendTask, Starting, LockStages
  <2>2. wsess[x] # arg[t]
    BY <2>1, StartingAlone DEF Alive
  <2> QED
    BY <1>6, <2>1, <2>2 DEF Put
<1>7. ASSUME NEW t \in Callers, StarterTells(t), UNCHANGED consent,
             ~\E w \in Workers : SendTask(t, w)
      PROVE  UNCHANGED <<wpc, wevt, wsess, consent>>
  BY <1>7 DEF StarterTells, Admit, ReportStartError, Refuse, BootReuse, BootFails, SendTaskFails,
      AbortStart, BootFresh, PutReply, wrk
<1>8. ASSUME \/ \E t \in Threads : StopperStep(t)
             \/ StopAll \/ ClearAll \/ Reap
             \/ \E s \in Sessions : SeedState(s) \/ Age(s)
             \/ \E b \in Sandboxes : Crash(b),
             UNCHANGED seen
      PROVE  UNCHANGED <<wpc, wevt, wsess, consent>>
  BY <1>8 DEF StopperStep, WorkerStop, JoinReturns, AllJoined, StopReturnsAtOnce, StopSandbox,
      TearDownEnds, Clear, StopAll, ClearAll, Reap, SeedState, Age, Crash, wrk, seen
<1>9. ASSUME NEW t \in Callers, CallerTells(t) PROVE consent'[wsess'[x]]
  <2>1. UNCHANGED seen \/ \E s \in Sessions, ok \in BOOLEAN : Answer(t, s, ok)
    BY <1>9 DEF CallerTells
  <2> QED
    BY <1>1, <1>4, <1>5, <1>9, <2>1
<1>10. ASSUME NEW t \in Callers, StarterTells(t) PROVE consent'[wsess'[x]]
  <2>1. (\E w \in Workers : SendTask(t, w)) => pc[t] \in {"sendOld", "sendNew"} /\ pc'[t] = "idle"
    BY DEF SendTask, Return
  <2>2. Refuse(t) \/ BootReuse(t) \/ BootFails(t) \/ SendTaskFails(t) \/ Admit(t)
            => pc[t] \notin {"sendOld", "sendNew"} \/ pc'[t] # "idle"
    BY DEF Refuse, BootReuse, BootFails, SendTaskFails, AbortStart, Admit, Goto
  <2>3. (\E o \in ErrorOutcomes : ReportStartError(t, o)) \/ (\E b \in Sandboxes : BootFresh(t, b))
            \/ (\E w \in Workers : PutReply(t, w))
            => pc[t] \notin {"sendOld", "sendNew"}
    BY DEF ReportStartError, BootFresh, PutReply
  <2>4. \/ UNCHANGED consent /\ ~\E w \in Workers : SendTask(t, w)
        \/ \E w \in Workers : SendTask(t, w) /\ consent' = Put(consent, arg[t], FALSE)
    BY <1>10, <2>1, <2>2, <2>3 DEF StarterTells, TellDone, seen
  <2> QED
    BY <1>1, <1>6, <1>7, <1>10, <2>4
<1> QED
  BY <1>1, <1>2, <1>3, <1>8, <1>9, <1>10, Zenon DEF EventsNext

\* A task starts with nothing left in the sink's way.
LEMMA SinkStep == EventsInv /\ CallsApart /\ CallsApart' /\ EventsNext => SinkInv'
<1> SUFFICES ASSUME EventsInv, CallsApart, CallsApart', EventsNext,
                    NEW u \in Callers, Starting(u)'
             PROVE  out'[arg'[u]] = "none"
  BY DEF SinkInv
<1>0. /\ TypeOK /\ ArgOK /\ u \in Threads /\ Callers \subseteq Threads /\ BaseInv /\ CallInv
      /\ SeenType /\ None \notin Sessions /\ Reaper \notin Callers /\ Main \notin Callers
      /\ Starting(u) => arg[u] \in Sessions /\ out[arg[u]] = "none"
  BY CoordinatorAssumption
  DEF EventsInv, BaseInv, TypeInv, Threads, SinkInv, Starting, LockStages, ArgOK
<1> USE <1>0 DEF TypeOK, SeenType
<1>1. ASSUME UNCHANGED <<pc, arg, out>> PROVE out'[arg'[u]] = "none"
  BY <1>1 DEF Starting
<1>2. ASSUME NEW t \in Threads, NEW stage, stage \notin LockStages \cup {"failed"},
             pc' = [pc EXCEPT ![t] = stage], arg' = arg \/ \E a : arg' = [arg EXCEPT ![t] = a],
             UNCHANGED out
      PROVE  out'[arg'[u]] = "none"
  <2>1. u # t
    BY <1>2 DEF Starting
  <2> QED
    BY <1>2, <2>1 DEF Starting
<1>3. ASSUME NEW t \in Callers, NEW stage, Starting(t), pc' = [pc EXCEPT ![t] = stage], UNCHANGED <<arg, out>>
      PROVE  out'[arg'[u]] = "none"
  BY <1>3 DEF Starting
<1>4. ASSUME NEW s \in Sessions, Emit(s) PROVE out'[arg'[u]] = "none"
  <2>1. UNCHANGED <<pc, arg>> /\ out' = [out EXCEPT ![s] = "none"]
    BY <1>4 DEF Emit, vars, thr, Put
  <2> QED
    BY <2>1 DEF Starting
<1>5. ASSUME NEW w \in Workers, WorkerTells(w) PROVE out'[arg'[u]] = "none"
  <2>1. UNCHANGED <<pc, arg>>
    BY <1>5, TellsAreSteps
    DEF WorkerStep, LockedWorkerStep, Receive, ServeRequest, ServeEnds, ReceiveFails,
        TakeReply, SendReply, SeeStop, HandlePrompt, HandleDone, ReportError, WorkerExit, Quiet, thr
  <2>2. Starting(u) /\ Alive(w) /\ (arg[u] # wsess[w] => out'[arg[u]] = out[arg[u]])
    BY <1>5, <2>1, WorkerTellsOwn DEF Starting
  <2>3. arg[u] # wsess[w]
    BY <2>2, StartingAlone
  <2> QED
    BY <2>1, <2>2, <2>3
<1>6. ASSUME NEW t \in Callers, CallerTells(t) PROVE out'[arg'[u]] = "none"
  <2>1. /\ UNCHANGED out
        /\ \E stage \in {"next", "admit", "put", "join"} : \E a :
              pc' = [pc EXCEPT ![t] = stage] /\ arg' = [arg EXCEPT ![t] = a]
    BY <1>6 DEF CallerTells, Answer, StartRetiring, StartTask, SubmitReply, StopSession, Call, seen
  <2> QED
    BY <1>2, <2>1 DEF LockStages
<1>7. ASSUME NEW t \in Callers, StarterTells(t) PROVE out'[arg'[u]] = "none"
  <2>1. CASE Admit(t) /\ out[arg[t]] = "none" /\ UNCHANGED seen
    BY <2>1 DEF Admit, Goto, seen, Starting
  <2>2. ASSUME NEW o \in ErrorOutcomes, ReportStartError(t, o), TellDone(arg[t], o)
        PROVE  out'[arg'[u]] = "none"
    <3>1. /\ pc' = [pc EXCEPT ![t] = "idle"] /\ arg' = [arg EXCEPT ![t] = None]
          /\ Starting(t) /\ arg[t] \in Sessions
      BY <2>2 DEF ReportStartError, Return, Starting, ArgOK
    <3>2. u # t
      BY <3>1 DEF Starting, LockStages
    <3>3. Starting(u) /\ arg'[u] = arg[u] /\ arg[u] # arg[t]
      BY <3>1, <3>2 DEF Starting, CallsApart
    <3> QED
      BY <2>2, <3>3 DEF TellDone, Put
  <2>3. ASSUME NEW w \in Workers, SendTask(t, w) \/ PutReply(t, w), UNCHANGED out
        PROVE  out'[arg'[u]] = "none"
    <3>1. pc' = [pc EXCEPT ![t] = "idle"] /\ arg' = [arg EXCEPT ![t] = None]
      BY <2>3 DEF SendTask, PutReply, Return
    <3> QED
      BY <1>2, <2>3, <3>1 DEF LockStages
  <2>4. ASSUME Refuse(t), UNCHANGED seen PROVE out'[arg'[u]] = "none"
    BY <1>2, <2>4 DEF Refuse, Return, LockStages, seen
  <2>5. ASSUME BootReuse(t) \/ BootFails(t) \/ SendTaskFails(t) \/ \E b \in Sandboxes : BootFresh(t, b),
               UNCHANGED seen
        PROVE  out'[arg'[u]] = "none"
    <3>1. /\ Starting(t) /\ UNCHANGED <<arg, out>>
          /\ \E stage \in {"sendOld", "failed", "sendNew"} : pc' = [pc EXCEPT ![t] = stage]
      BY <2>5 DEF BootReuse, BootFails, SendTaskFails, BootFresh, AbortStart, Goto, Starting,
          LockStages, seen
    <3> QED
      BY <1>3, <3>1
  <2>6. ASSUME NEW w \in Workers, SendTask(t, w), consent' = Put(consent, arg[t], FALSE), UNCHANGED out
        PROVE  out'[arg'[u]] = "none"
    BY <2>3, <2>6
  <2>7. ASSUME NEW w \in Workers, PutReply(t, w), UNCHANGED seen PROVE out'[arg'[u]] = "none"
    BY <2>3, <2>7 DEF seen
  <2> QED
    BY <1>7, <2>1, <2>2, <2>4, <2>5, <2>6, <2>7, Zenon DEF StarterTells
<1>8. ASSUME NEW t \in Threads, StopperStep(t), UNCHANGED seen PROVE out'[arg'[u]] = "none"
  <2>1. ASSUME NEW w \in Workers, WorkerStop(t, w) \/ JoinReturns(t, w) PROVE UNCHANGED <<pc, arg, out>>
    BY <1>8, <2>1 DEF WorkerStop, JoinReturns, thr, seen
  <2>2. ASSUME AllJoined(t) \/ TearDownEnds(t) \/ Clear(t) PROVE out'[arg'[u]] = "none"
    <3>1. \E stage \in {"next", "clear", "admit", "idle"} : pc' = [pc EXCEPT ![t] = stage]
      BY <2>2 DEF AllJoined, TearDownEnds, Clear, AfterStop, Goto, Return
    <3>2. arg' = arg \/ \E a : arg' = [arg EXCEPT ![t] = a]
      BY <2>2 DEF AllJoined, TearDownEnds, Clear, AfterStop, Goto, Return
    <3> QED
      BY <1>2, <1>8, <3>1, <3>2 DEF seen, LockStages
  <2>3. ASSUME NEW s \in Sessions, StopReturnsAtOnce(t, s) \/ StopSandbox(t, s)
        PROVE  out'[arg'[u]] = "none"
    <3>1. \E stage \in {"next", "clear", "tear"} : pc' = [pc EXCEPT ![t] = stage]
      BY <2>3 DEF StopReturnsAtOnce, StopSandbox, AfterStop, Goto
    <3>2. arg' = arg \/ \E a : arg' = [arg EXCEPT ![t] = a]
      BY <2>3 DEF StopReturnsAtOnce, StopSandbox, AfterStop, Goto
    <3> QED
      BY <1>2, <1>8, <3>1, <3>2 DEF seen, LockStages
  <2> QED
    BY <1>1, <1>8, <2>1, <2>2, <2>3, Zenon DEF StopperStep
<1>9. ASSUME StopAll \/ ClearAll \/ Reap, UNCHANGED seen PROVE out'[arg'[u]] = "none"
  <2>1. \E t \in {Main, Reaper}, stage \in {"join", "idle", "next"} : \E a :
           pc' = [pc EXCEPT ![t] = stage] /\ arg' = [arg EXCEPT ![t] = a]
    BY <1>9 DEF StopAll, ClearAll, Reap, Call, Return
  <2> QED
    BY <1>2, <1>9, <2>1 DEF seen, LockStages, Threads
<1>10. ASSUME (\E s \in Sessions : SeedState(s) \/ Age(s)) \/ (\E b \in Sandboxes : Crash(b)),
              UNCHANGED seen
       PROVE  out'[arg'[u]] = "none"
  BY <1>1, <1>10 DEF SeedState, Age, Crash, thr, seen
<1> QED
  BY <1>4, <1>5, <1>6, <1>7, <1>8, <1>9, <1>10, Zenon DEF EventsNext

\* Every step of the Coordinator with its adapters keeps the invariant.
LEMMA EventsInvStep ==
    JoinsEnd /\ EventsInv /\ CallsApart /\ CallsApart' /\ [EventsNext]_eventVars => EventsInv'
<1> SUFFICES ASSUME JoinsEnd, EventsInv, CallsApart, CallsApart', [EventsNext]_eventVars
             PROVE  EventsInv'
  OBVIOUS
<1>1. [Next]_vars
  BY EventsAreSteps
<1>2. BaseInv' /\ CallInv' /\ LeaveInv'
  BY <1>1, CallInvStep, HeldOnceStep, QueueStep, LeftPromptStep
  DEF EventsInv, LeaveInv, BaseInv, JoinsEnd
<1>3. CASE EventsNext
  BY <1>2, <1>3, SeenTypeStep, ConsentStep, SinkStep DEF EventsInv
<1>4. CASE UNCHANGED eventVars
  BY <1>2, <1>4 DEF EventsInv, SeenType, ConsentInv, SinkInv, Starting, eventVars, seen, vars, wrk, thr
<1> QED
  BY <1>3, <1>4

----------------------------------------------------------------------------
(* What adapters see of a session, told by its thread.                     *)

\* Adapters see of a session what the thread w of it does.
SeenOfThread(r, w) ==
    /\ worker[r] \in {w, None}
    /\ LiveWorker(r) = (worker[r] = w)
    /\ LeavingOf(r) = (worker[r] = None /\ (wpc[w] # "exit" \/ pending[r] # "none"))
    /\ TurnOf(r) = IF pending[r] # "none" THEN pending[r]
                   ELSE IF worker[r] = w /\ wpc[w] # "exit" THEN "agent" ELSE "idle"
    /\ pending[r] # "none" => LeftPrompt(w)
    /\ worker[r] = w /\ pending[r] # "none" => wpc[w] = "prompt"
    /\ wstop[w] => worker[r] = None

\* Adapters see a session in which nothing goes on.
SeenIdle(r) ==
    /\ worker[r] = None /\ pending[r] = "none"
    /\ LiveWorker(r) = FALSE /\ LeavingOf(r) = FALSE /\ TurnOf(r) = "idle"

SeenInv ==
    \A r \in Sessions :
        /\ \A w \in Workers : Alive(w) /\ wsess[w] = r => SeenOfThread(r, w)
        /\ (\A w \in Workers : Alive(w) => wsess[w] # r) => SeenIdle(r)

\* What adapters see of a session is what its one thread does, if it has one.
LEMMA SeenByThread == BaseInv /\ CallInv /\ LeaveInv /\ CallsApart => SeenInv
<1> SUFFICES ASSUME BaseInv, CallInv, LeaveInv, CallsApart, NEW r \in Sessions
             PROVE  /\ \A w \in Workers : Alive(w) /\ wsess[w] = r => SeenOfThread(r, w)
                    /\ (\A w \in Workers : Alive(w) => wsess[w] # r) => SeenIdle(r)
  BY DEF SeenInv
<1>0. None \notin Workers /\ None \notin Sessions /\ TypeOK /\ TypeInv /\ Callers \subseteq Threads
  BY CoordinatorAssumption DEF BaseInv, TypeInv, Threads
<1>a. ASSUME NEW w \in Workers, Alive(w), wsess[w] = r PROVE SeenOfThread(r, w)
  <2>1. ASSUME NEW x \in Workers, Alive(x), wsess[x] = r PROVE x = w
    BY <1>0, <1>a, <2>1, OneThread
  <2>2. worker[r] # None => Alive(worker[r]) /\ wsess[worker[r]] = r /\ worker[r] \in Workers
    BY <1>0 DEF CallInv, RecLocal, TypeOK, OrNone
  <2>3. worker[r] \in {w, None}
    BY <2>1, <2>2
  <2>4. LiveWorker(r) = (worker[r] = w)
    BY <1>0, <1>a, <2>3 DEF LiveWorker
  <2>5. LeavingOf(r) = (worker[r] = None /\ (wpc[w] # "exit" \/ pending[r] # "none"))
    BY <1>0, <1>a, <2>1, <2>3 DEF LeavingOf
  <2>6. pending[r] # "none" => LeftPrompt(w)
    <3> SUFFICES ASSUME pending[r] # "none" PROVE LeftPrompt(w)
      OBVIOUS
    <3>1. PICK x \in Workers : wsess[x] = r /\ LeftPrompt(x)
      BY DEF LeaveInv
    <3>2. Alive(x)
      BY <3>1 DEF LeftPrompt, Alive
    <3> QED
      BY <2>1, <3>1, <3>2
  <2>7. wstop[w] => worker[r] = None
    BY <1>0, <1>a DEF CallInv, WorkerLocal, CallLocal, Joined
  <2>8. worker[r] = w /\ pending[r] # "none" => wpc[w] = "prompt"
    BY <1>0 DEF CallInv, RecLocal
  <2>9. TurnOf(r) = IF pending[r] # "none" THEN pending[r]
                    ELSE IF worker[r] = w /\ wpc[w] # "exit" THEN "agent" ELSE "idle"
    BY <1>0, <1>a, <2>3, <2>4 DEF TurnOf
  <2> QED
    BY <2>3, <2>4, <2>5, <2>6, <2>7, <2>8, <2>9 DEF SeenOfThread
<1>b. ASSUME \A w \in Workers : Alive(w) => wsess[w] # r PROVE SeenIdle(r)
  <2>1. worker[r] = None
    BY <1>0, <1>b DEF CallInv, RecLocal, TypeOK, OrNone
  <2>2. pending[r] = "none"
    BY <1>b DEF LeaveInv, LeftPrompt, Alive
  <2> QED
    BY <1>b, <2>1, <2>2 DEF SeenIdle, LiveWorker, LeavingOf, TurnOf
<1> QED
  BY <1>a, <1>b

\* What adapters see of a session stays as it is when its record's worker and
\* prompt do, and its threads are as near to their end as before.
LEMMA SameView ==
    ASSUME CallInv, TypeInv, NEW r \in Sessions,
           worker'[r] = worker[r], pending'[r] = pending[r],
           \A w \in Workers : wsess[w] = r \/ wsess'[w] = r =>
               /\ wsess'[w] = wsess[w]
               /\ wpc'[w] = "free" <=> wpc[w] = "free"
               /\ wpc'[w] = "exit" <=> wpc[w] = "exit"
    PROVE  UNCHANGED <<TurnOf(r), LiveWorker(r), LeavingOf(r)>>
<1>1. worker[r] # None => wsess[worker[r]] = r /\ worker[r] \in Workers
  BY DEF CallInv, RecLocal, TypeInv, TypeOK, OrNone
<1>2. LiveWorker(r)' = LiveWorker(r)
  BY <1>1 DEF LiveWorker, Alive
<1>3. LeavingOf(r)' = LeavingOf(r)
  BY DEF LeavingOf, Alive
<1>4. TurnOf(r)' = TurnOf(r)
  BY <1>1, <1>2 DEF TurnOf, LiveWorker
<1> QED
  BY <1>2, <1>3, <1>4

\* What the step of a session's own worker is for its adapter
SessionStep(r) == [SessionOf(r)!WorkerNext]_(SessionOf(r)!workerVars)

\* All that holds before a step and after it
Around ==
    /\ JoinsEnd /\ StateIsSaved
    /\ EventsInv /\ EventsInv' /\ CallsApart /\ CallsApart' /\ SeenInv /\ SeenInv'

\* A step of one of these kinds is a session's step.
LEMMA SessionSteps ==
    ASSUME NEW r,
           \/ UNCHANGED <<TurnOf(r), consent[r], LiveWorker(r), LeavingOf(r), out[r]>>
           \/ SessionOf(r)!StartTask \/ SessionOf(r)!StartFails
           \/ SessionOf(r)!Asks \/ SessionOf(r)!Ends \/ SessionOf(r)!Exits
           \/ SessionOf(r)!LatePrompt \/ SessionOf(r)!LateEnd \/ SessionOf(r)!Leaves
           \/ SessionOf(r)!Emitted \/ SessionOf(r)!StopTask
           \/ \E ok \in BOOLEAN : SessionOf(r)!Submit(ok)
    PROVE  SessionStep(r)
BY DEF SessionStep, SessionOf!WorkerNext, SessionOf!WorkerMoves, SessionOf!workerVars,
   SessionOf!worker, SessionOf!vars

\* A worker's step is a step of its session, or of nothing.
LEMMA WorkerImplements ==
    ASSUME Around, NEW w \in Workers, WorkerTells(w), NEW r \in Sessions, wsess[w] = r
    PROVE  SessionStep(r)
<1>0. /\ TypeOK /\ TypeOK' /\ SeenType /\ Alive(w)
      /\ None \notin Workers /\ None \notin Sessions
      /\ SeenOfThread(r, w) /\ WorkerLocal(w) /\ out[r] = "none"
      /\ pending[r] \in Roles \cup {"none"} /\ Roles \subseteq {"plan", "clarification"}
      /\ wpc[w] = "event" /\ wevt[w] = "clarification" /\ Review => consent[r]
  <2>1. Alive(w)
    BY WorkerTellsOwn DEF Around, EventsInv
  <2> QED
    BY <2>1, CoordinatorAssumption
    DEF Around, EventsInv, BaseInv, TypeInv, SeenInv, CallInv, TypeOK, WorkerTells, Roles, ConsentInv
<1>a. Alive(w)' /\ wsess'[w] = r => SeenOfThread(r, w)'
  BY <1>0 DEF Around, SeenInv
<1> USE <1>0, <1>a
<1>1. CASE TellPrompt(w)
  <2>1. /\ wpc[w] = "event" /\ wevt[w] \in Roles /\ wevt[w] # "none"
        /\ pending'[r] = wevt[w] /\ wpc'[w] = "prompt" /\ UNCHANGED <<worker, wsess>>
        /\ out'[r] = wevt[w]
        /\ consent'[r] = IF wevt[w] = "plan" THEN FALSE ELSE consent[r]
    BY <1>1 DEF TellPrompt, HandlePrompt, WorkerGoes, Put, Roles, TypeOK, SeenType
  <2>2. SeenOfThread(r, w)'
    BY <2>1 DEF Alive
  <2>3. pending[r] = "none"
    BY <2>1 DEF SeenOfThread, LeftPrompt
  <2>4. TurnOf(r)' = wevt[w] /\ LiveWorker(r)' = LiveWorker(r) /\ LeavingOf(r)' = LeavingOf(r)
    BY <2>1, <2>2, <2>3 DEF SeenOfThread
  <2>5. CASE worker[r] = w
    <3>1. LiveWorker(r) /\ TurnOf(r) = "agent"
      BY <2>1, <2>3, <2>5 DEF SeenOfThread
    <3>2. SessionOf(r)!Asks
      BY <2>1, <2>4, <3>1
      DEF SessionOf!Asks, SessionOf!AskPlan, SessionOf!AskClarification, Roles
    <3> QED
      BY <3>2, SessionSteps
  <2>6. CASE worker[r] = None
    <3>1. LeavingOf(r) /\ TurnOf(r) = "idle"
      BY <2>1, <2>3, <2>6 DEF SeenOfThread
    <3>2. SessionOf(r)!LatePrompt
      BY <2>1, <2>4, <3>1 DEF SessionOf!LatePrompt, Roles
    <3> QED
      BY <3>2, SessionSteps
  <2> QED
    BY <2>5, <2>6 DEF SeenOfThread
<1>2. ASSUME wpc[w] \in {"event", "error"}, wpc'[w] = "exit", pending'[r] = "none",
             UNCHANGED <<worker, wsess, consent>>, out'[r] = "done"
      PROVE  SessionStep(r)
  <2>1. SeenOfThread(r, w)'
    BY <1>2 DEF Alive
  <2>2. pending[r] = "none"
    BY <1>2 DEF SeenOfThread, LeftPrompt
  <2>3. TurnOf(r)' = "idle" /\ LiveWorker(r)' = LiveWorker(r) /\ LeavingOf(r)' = FALSE
    BY <1>2, <2>1, <2>2 DEF SeenOfThread
  <2>4. CASE worker[r] = w
    <3>1. LiveWorker(r) /\ TurnOf(r) = "agent"
      BY <1>2, <2>2, <2>4 DEF SeenOfThread
    <3>3. worker[r] # None
      BY <2>4
    <3>4. LeavingOf(r) = FALSE
      BY <3>3 DEF SeenOfThread
    <3>2. SessionOf(r)!Ends
      BY <1>2, <2>3, <3>1, <3>4 DEF SessionOf!Ends, SessionOf!Finish
    <3> QED
      BY <3>2, SessionSteps
  <2>5. CASE worker[r] = None
    <3>1. LeavingOf(r) /\ TurnOf(r) = "idle"
      BY <1>2, <2>2, <2>5 DEF SeenOfThread
    <3>2. SessionOf(r)!LateEnd
      BY <1>2, <2>3, <3>1 DEF SessionOf!LateEnd, SessionOf!vars
    <3> QED
      BY <3>2, SessionSteps
  <2> QED
    BY <2>4, <2>5 DEF SeenOfThread
<1>3. ASSUME UNCHANGED <<worker, wsess, seen>>, pending'[r] = pending[r],
             wpc[w] # "exit", wpc'[w] \notin {"exit", "free"}
      PROVE  SessionStep(r)
  <2>1. SeenOfThread(r, w)'
    BY <1>3 DEF Alive
  <2>2. UNCHANGED <<TurnOf(r), LiveWorker(r), LeavingOf(r)>>
    BY <1>3, <2>1 DEF SeenOfThread
  <2> QED
    BY <1>3, <2>2, SessionSteps DEF seen
<1>4. ASSUME UNCHANGED <<worker, pending, wsess, seen>>, wstop[w],
             wpc[w] # "exit", wpc'[w] = "exit"
      PROVE  SessionStep(r)
  <2>1. SeenOfThread(r, w)' /\ worker[r] = None
    BY <1>4 DEF Alive, SeenOfThread
  <2>2. LiveWorker(r) = FALSE /\ LiveWorker(r)' = FALSE /\ TurnOf(r)' = TurnOf(r)
    BY <1>4, <2>1 DEF SeenOfThread
  <2>3. LeavingOf(r) /\ LeavingOf(r)' = (pending[r] # "none")
    BY <1>4, <2>1 DEF SeenOfThread
  <2>4. CASE pending[r] = "none"
    <3>1. TurnOf(r)' = "idle"
      BY <1>4, <2>1, <2>4 DEF SeenOfThread
    <3>2. SessionOf(r)!Leaves
      BY <1>4, <2>2, <2>3, <2>4, <3>1 DEF SessionOf!Leaves, seen
    <3> QED
      BY <3>2, SessionSteps
  <2>5. CASE pending[r] # "none"
    <3>1. LeavingOf(r) = TRUE /\ LeavingOf(r)' = TRUE
      BY <1>4, <2>1, <2>5 DEF SeenOfThread
    <3> QED
      BY <1>4, <2>2, <3>1, SessionSteps DEF seen
  <2> QED
    BY <2>4, <2>5
<1>5. CASE WorkerExit(w) /\ UNCHANGED seen
  <2>1. \A x \in Workers : Alive(x)' => wsess'[x] # r
    <3>1. \A x \in Workers : x # w /\ Alive(x) => wsess[x] # r
      BY OneThread DEF Around, EventsInv, BaseInv
    <3>2. wpc'[w] = "free" /\ \A x \in Workers : x # w => wpc'[x] = wpc[x] /\ wsess'[x] = wsess[x]
      BY <1>5 DEF WorkerExit, TypeOK
    <3> QED
      BY <3>1, <3>2 DEF Alive
  <2>2. SeenIdle(r)'
    BY <2>1 DEF Around, SeenInv
  <2>3. CASE worker[r] = w
    <3>1. LiveWorker(r) /\ TurnOf(r) = "idle" /\ LeavingOf(r) = FALSE
      BY <1>5, <2>3 DEF SeenOfThread, WorkerExit
    <3>2. SessionOf(r)!Exits
      BY <1>5, <2>2, <3>1 DEF SessionOf!Exits, SessionOf!vars, SeenIdle, seen
    <3> QED
      BY <3>2, SessionSteps
  <2>4. CASE worker[r] = None /\ pending[r] # "none"
    <3>1. LeavingOf(r) /\ LiveWorker(r) = FALSE
      BY <1>5, <2>4 DEF SeenOfThread
    <3>2. SessionOf(r)!Leaves
      BY <1>5, <2>2, <3>1 DEF SessionOf!Leaves, SeenIdle, seen
    <3> QED
      BY <3>2, SessionSteps
  <2>5. CASE worker[r] = None /\ pending[r] = "none"
    <3>1. LeavingOf(r) = FALSE /\ LiveWorker(r) = FALSE /\ TurnOf(r) = "idle"
      BY <1>5, <2>5 DEF SeenOfThread, WorkerExit
    <3> QED
      BY <1>5, <2>2, <3>1, SessionSteps DEF SeenIdle, seen
  <2> QED
    BY <2>3, <2>4, <2>5 DEF SeenOfThread
<1>6. ASSUME NEW o \in DoneOutcomes, HandleDone(w, o), TellDone(r, o) PROVE SessionStep(r)
  <2>1. o \in {"ok", "nofiles"}
    BY CoordinatorAssumption DEF DoneOutcomes, Around, StateIsSaved
  <2>2. /\ wpc[w] = "event" /\ pending'[r] = "none" /\ UNCHANGED <<worker, wsess, consent>>
        /\ wpc'[w] = IF o = "ok" THEN "exit" ELSE "error"
        /\ IF o = "ok" THEN out'[r] = "done" ELSE out' = out
    BY <1>6 DEF HandleDone, PersistDone, TellDone, Put, TypeOK, SeenType
  <2>3. pending[r] = "none"
    BY <2>2 DEF SeenOfThread, LeftPrompt
  <2> QED
    BY <1>2, <1>3, <2>1, <2>2, <2>3 DEF seen
<1>7. ASSUME NEW o \in ErrorOutcomes, ReportError(w, o), TellDone(r, o) PROVE SessionStep(r)
  <2>1. o = "ok"
    BY DEF ErrorOutcomes, Around, StateIsSaved
  <2> QED
    BY <1>2, <1>7, <2>1 DEF ReportError, PersistDone, TellDone, Put, TypeOK, SeenType
<1>8. CASE UNCHANGED seen /\ \/ \E e \in Roles \cup {"done"} : Receive(w, e)
                             \/ ServeRequest(w) \/ ServeEnds(w) \/ ReceiveFails(w) \/ SendReply(w)
  BY <1>3, <1>8
  DEF Receive, ServeRequest, ServeEnds, ReceiveFails, SendReply, WorkerGoes, Quiet, rec, TypeOK
<1>9. CASE TakeReply(w) /\ UNCHANGED seen
  <2>1. /\ wpc[w] = "prompt" /\ UNCHANGED <<worker, pending, wsess>>
        /\ wpc'[w] = IF Head(inbox[w]) = "reply" THEN "send" ELSE "exit"
    BY <1>9 DEF TakeReply, WorkerGoes, Quiet, rec, TypeOK
  <2>2. CASE Head(inbox[w]) = "reply"
    BY <1>3, <1>9, <2>1, <2>2
  <2>3. CASE Head(inbox[w]) # "reply"
    <3>1. Head(<<"reply">>) = "reply"
      OBVIOUS
    <3>2. wstop[w]
      BY <1>9, <2>3, <3>1 DEF TakeReply, WorkerLocal
    <3> QED
      BY <1>4, <1>9, <2>1, <2>3, <3>2
  <2> QED
    BY <2>2, <2>3
<1>10. CASE SeeStop(w) /\ UNCHANGED seen
  BY <1>4, <1>10 DEF SeeStop, WorkerGoes, Quiet, rec, TypeOK
<1> QED
  BY <1>1, <1>5, <1>6, <1>7, <1>8, <1>9, <1>10, Zenon DEF WorkerTells

\* A step that no thread of the session makes, and that leaves its record's
\* worker and prompt alone, is not seen of it.
LEMMA UnseenStep ==
    ASSUME CallInv, TypeInv, NEW r \in Sessions,
           worker'[r] = worker[r], pending'[r] = pending[r],
           UNCHANGED <<wpc, wsess>>, out'[r] = out[r], consent'[r] = consent[r]
    PROVE  SessionStep(r)
BY SameView, SessionSteps

\* The step of another session's worker is not seen of this one.
LEMMA OtherWorkers ==
    ASSUME Around, NEW w \in Workers, WorkerTells(w), NEW r \in Sessions, wsess[w] # r
    PROVE  SessionStep(r)
<1>0. TypeOK /\ CallInv /\ TypeInv /\ SeenType /\ WorkerStep(w) /\ Alive(w) /\ wsess[w] \in Sessions
  BY WorkerTellsOwn, TellsAreSteps DEF Around, EventsInv, BaseInv, TypeInv, CallInv, WorkerLocal, Alive
<1>1. worker'[r] = worker[r] /\ pending'[r] = pending[r]
  BY <1>0
  DEF TypeOK, WorkerStep, LockedWorkerStep, Receive, ServeRequest, ServeEnds, ReceiveFails,
      TakeReply, SendReply, SeeStop, HandlePrompt, HandleDone, ReportError, WorkerExit, WorkerGoes,
      PersistDone, Quiet, rec
<1>2. wsess' = wsess \/ wsess' = [wsess EXCEPT ![w] = None]
  BY <1>0
  DEF WorkerStep, LockedWorkerStep, Receive, ServeRequest, ServeEnds, ReceiveFails,
      TakeReply, SendReply, SeeStop, HandlePrompt, HandleDone, ReportError, WorkerExit, WorkerGoes
<1>3. \A x \in Workers : x # w => wpc'[x] = wpc[x]
  BY <1>0
  DEF TypeOK, WorkerStep, LockedWorkerStep, Receive, ServeRequest, ServeEnds, ReceiveFails,
      TakeReply, SendReply, SeeStop, HandlePrompt, HandleDone, ReportError, WorkerExit, WorkerGoes
<1>4. None # r
  BY CoordinatorAssumption
<1>5. \A x \in Workers : wsess[x] = r \/ wsess'[x] = r =>
          /\ wsess'[x] = wsess[x]
          /\ wpc'[x] = "free" <=> wpc[x] = "free"
          /\ wpc'[x] = "exit" <=> wpc[x] = "exit"
  BY <1>0, <1>2, <1>3, <1>4 DEF TypeOK
<1>6. out'[r] = out[r] /\ consent'[r] = consent[r]
  BY <1>0, WorkerTellsOwn
<1> QED
  BY <1>0, <1>1, <1>5, <1>6, SameView, SessionSteps

\* An adapter's answer
LEMMA AnswerImplements ==
    ASSUME Around, NEW t \in Callers, NEW s \in Sessions, NEW ok \in BOOLEAN, Answer(t, s, ok),
           NEW r \in Sessions
    PROVE  SessionStep(r)
<1>0. /\ TypeOK /\ TypeInv /\ CallInv /\ SeenType /\ None \notin Workers
      /\ worker[s] # None /\ pending[s] # "none" /\ UNCHANGED <<worker, wpc, wsess, wstop, out>>
      /\ pending' = [pending EXCEPT ![s] = "none"]
      /\ consent' = IF pending[s] = "plan" THEN [consent EXCEPT ![s] = ok] ELSE consent
  BY CoordinatorAssumption
  DEF Around, EventsInv, BaseInv, TypeInv, Answer, SubmitReply, Put, wrk
<1> USE <1>0
<1>1. CASE r # s
  BY <1>1, UnseenStep DEF TypeOK, SeenType
<1>2. CASE r = s
  <2>1. PICK w \in Workers : worker[r] = w /\ Alive(w) /\ wsess[w] = r /\ wpc[w] = "prompt"
    BY <1>2 DEF CallInv, RecLocal, TypeOK, OrNone
  <2>2. SeenOfThread(r, w)
    BY <2>1 DEF Around, SeenInv
  <2>3. worker[r] = w /\ worker'[r] = w
    BY <2>1
  <2>4. SeenOfThread(r, w)'
    BY <2>1 DEF Around, SeenInv, Alive
  <2>5. /\ TurnOf(r) = pending[r] /\ LiveWorker(r) = TRUE /\ LeavingOf(r) = FALSE
        /\ TurnOf(r)' = "agent" /\ LiveWorker(r)' = TRUE /\ LeavingOf(r)' = FALSE
    <3>1. worker[r] # None /\ worker'[r] # None /\ pending'[r] = "none" /\ wpc'[w] = "prompt"
      BY <1>2, <2>1, <2>3 DEF TypeOK
    <3>2. TurnOf(r) = pending[r] /\ TurnOf(r)' = "agent"
      BY <1>2, <2>2, <2>3, <2>4, <3>1 DEF SeenOfThread
    <3>3. LiveWorker(r) = TRUE /\ LiveWorker(r)' = TRUE
      BY <2>2, <2>3, <2>4 DEF SeenOfThread
    <3>4. LeavingOf(r) = FALSE /\ LeavingOf(r)' = FALSE
      BY <2>2, <2>4, <3>1 DEF SeenOfThread
    <3> QED
      BY <3>2, <3>3, <3>4
  <2>6. pending[r] \in {"plan", "clarification"}
    BY <1>2 DEF TypeOK, Roles
  <2>7. consent'[r] = IF pending[r] = "plan" THEN ok ELSE consent[r]
    BY <1>2 DEF SeenType
  <2>8. SessionOf(r)!Submit(ok)
    BY <2>5, <2>6, <2>7
    DEF SessionOf!Submit, SessionOf!Answerable, SessionOf!Reply, SessionOf!Roles, SessionOf!worker
  <2> QED
    BY <2>8, SessionSteps
<1> QED
  BY <1>1, <1>2

\* A session that a thread starts a task of has nothing going on.
LEMMA StartsIdle ==
    ASSUME Around, NEW t \in Callers, Starting(t)
    PROVE  arg[t] \in Sessions /\ SeenIdle(arg[t]) /\ out[arg[t]] = "none"
<1>1. arg[t] \in Sessions /\ out[arg[t]] = "none"
  BY DEF Around, EventsInv, SinkInv, CallInv, CallLocal, Starting, Threads
<1>2. \A w \in Workers : Alive(w) => wsess[w] # arg[t]
  BY StartingAlone DEF Around, EventsInv
<1> QED
  BY <1>1, <1>2 DEF Around, SeenInv

\* The delivery of a task
LEMMA SendImplements ==
    ASSUME Around, NEW t \in Callers, NEW w \in Workers, SendTask(t, w),
           consent' = Put(consent, arg[t], FALSE), UNCHANGED out, NEW r \in Sessions
    PROVE  SessionStep(r)
<1>0. /\ TypeOK /\ TypeInv /\ CallInv /\ SeenType /\ None \notin Workers /\ None # r
      /\ worker' = [worker EXCEPT ![arg[t]] = w] /\ pending' = [pending EXCEPT ![arg[t]] = "none"]
      /\ wpc' = [wpc EXCEPT ![w] = "loop"] /\ wsess' = [wsess EXCEPT ![w] = arg[t]]
      /\ consent' = [consent EXCEPT ![arg[t]] = FALSE]
      /\ wsess[w] = None /\ Starting(t)
  BY CoordinatorAssumption
  DEF Around, EventsInv, BaseInv, TypeInv, SendTask, Put, UnusedWorker, Alive, CallInv, WorkerLocal,
      Starting, LockStages
<1>1. arg[t] \in Sessions /\ SeenIdle(arg[t])
  BY <1>0, StartsIdle
<1> USE <1>0
<1>2. CASE r # arg[t]
  <2>1. \A x \in Workers : wsess[x] = r \/ wsess'[x] = r => wsess'[x] = wsess[x] /\ wpc'[x] = wpc[x]
    BY <1>2 DEF TypeOK
  <2> QED
    <3>1. /\ worker'[r] = worker[r] /\ pending'[r] = pending[r]
          /\ consent'[r] = consent[r] /\ out'[r] = out[r]
      BY <1>2 DEF TypeOK, SeenType
    <3>2. UNCHANGED <<TurnOf(r), LiveWorker(r), LeavingOf(r)>>
      BY <2>1, <3>1, SameView
    <3> QED
      BY <3>1, <3>2, SessionSteps
<1>3. CASE r = arg[t]
  <2>1. wsess'[w] = r /\ wpc'[w] = "loop" /\ worker'[r] = w /\ pending'[r] = "none" /\ ~consent'[r]
        /\ consent'[r] = FALSE
    BY <1>3 DEF TypeOK, SeenType
  <2>2. SeenOfThread(r, w)'
    BY <2>1 DEF Around, SeenInv, Alive
  <2>3. worker'[r] # None
    BY <2>1
  <2>4. LiveWorker(r)' = TRUE /\ LeavingOf(r)' = FALSE
    BY <2>1, <2>2, <2>3 DEF SeenOfThread
  <2>5. TurnOf(r)' = "agent"
    BY <2>1, <2>2 DEF SeenOfThread
  <2>6. SessionOf(r)!StartTask
    BY <1>1, <1>3, <2>1, <2>4, <2>5
    DEF SessionOf!StartTask, SessionOf!CanStart, SessionOf!Start, SeenIdle
  <2> QED
    BY <2>6, SessionSteps
<1> QED
  BY <1>2, <1>3

\* A start that fails, up to the report of it
LEMMA AbortImplements ==
    ASSUME Around, NEW t \in Callers, BootFails(t) \/ SendTaskFails(t), UNCHANGED seen,
           NEW r \in Sessions
    PROVE  SessionStep(r)
<1>1. /\ TypeOK /\ TypeInv /\ CallInv /\ Starting(t) /\ UNCHANGED <<wpc, wsess>>
      /\ worker' = [worker EXCEPT ![arg[t]] = None] /\ pending' = [pending EXCEPT ![arg[t]] = "none"]
  BY DEF Around, EventsInv, BaseInv, TypeInv, BootFails, SendTaskFails, AbortStart, Starting,
     LockStages, wrk
<1>2. SeenIdle(arg[t])
  BY <1>1, StartsIdle
<1> QED
  BY <1>1, <1>2, UnseenStep DEF SeenIdle, TypeOK, seen

\* ... and the report
LEMMA FailImplements ==
    ASSUME Around, NEW t \in Callers, NEW o \in ErrorOutcomes, ReportStartError(t, o),
           TellDone(arg[t], o), NEW r \in Sessions
    PROVE  SessionStep(r)
<1>0. o = "ok"
  BY DEF ErrorOutcomes, Around, StateIsSaved
<1>1. /\ TypeOK /\ TypeInv /\ CallInv /\ SeenType /\ Starting(t)
      /\ UNCHANGED <<worker, wpc, wsess, consent>>
      /\ pending' = [pending EXCEPT ![arg[t]] = "none"] /\ out' = [out EXCEPT ![arg[t]] = "done"]
  BY <1>0
  DEF Around, EventsInv, BaseInv, TypeInv, ReportStartError, PersistDone, TellDone, Put, Starting, wrk
<1>2. arg[t] \in Sessions /\ SeenIdle(arg[t]) /\ out[arg[t]] = "none"
  BY <1>1, StartsIdle
<1>3. CASE r # arg[t]
  BY <1>1, <1>3, UnseenStep DEF TypeOK, SeenType
<1>4. CASE r = arg[t]
  <2>1. UNCHANGED <<TurnOf(r), LiveWorker(r), LeavingOf(r)>>
    BY <1>1, <1>2, <1>4, SameView DEF SeenIdle, TypeOK
  <2>2. out'[r] = "done" /\ consent'[r] = consent[r] /\ out[r] = "none"
    BY <1>1, <1>2, <1>4 DEF SeenType
  <2>3. SessionOf(r)!StartFails
    BY <1>2, <1>4, <2>1, <2>2
    DEF SessionOf!StartFails, SessionOf!CanStart, SessionOf!vars, SeenIdle
  <2> QED
    BY <2>3, SessionSteps
<1> QED
  BY <1>3, <1>4

\* stop_session's first section
LEMMA StopImplements ==
    ASSUME Around, NEW t \in Callers, NEW s \in Stoppable, StopSession(t, s), UNCHANGED seen,
           NEW r \in Sessions
    PROVE  SessionStep(r)
<1>0. /\ TypeOK /\ TypeInv /\ CallInv /\ None \notin Workers /\ s \in Sessions /\ None # r
      /\ t \in Threads /\ Callers \subseteq Threads
      /\ UNCHANGED <<wpc, wsess, seen>> /\ pc[t] = "idle" /\ arg'[t] = s
      /\ worker' = [worker EXCEPT ![s] = None] /\ pending' = [pending EXCEPT ![s] = "none"]
      /\ \A u \in Callers : u # t => arg'[u] = arg[u]
  BY CoordinatorAssumption
  DEF Around, EventsInv, BaseInv, TypeInv, TypeOK, StopSession, Call, wrk, Threads
<1> USE <1>0
<1>1. CASE r # s
  BY <1>1, UnseenStep DEF TypeOK, seen
<1>2. CASE r = s
  <2>1. worker'[r] = None /\ pending'[r] = "none"
    BY <1>2 DEF TypeOK
  <2>2. ASSUME NEW w \in Workers, Alive(w), wsess[w] = r PROVE SessionStep(r)
    <3>1. SeenOfThread(r, w) /\ SeenOfThread(r, w)'
      BY <2>2 DEF Around, SeenInv, Alive
    <3>2. worker[r] = w
      <4>1. SUFFICES ASSUME Joined(w) PROVE FALSE
        BY <2>2 DEF CallInv, WorkerLocal, Alive
      <4>2. PICK u \in Callers : pc[u] = "join" /\ arg[u] = r
        BY <2>2, <4>1 DEF Joined
      <4> QED
        BY <1>2, <4>2 DEF Around, CallsApart
    <3>3. worker[r] # None
      BY <3>2
    <3>4. LiveWorker(r) = TRUE /\ LeavingOf(r) = FALSE
      BY <3>1, <3>2, <3>3 DEF SeenOfThread
    <3>5. LiveWorker(r)' = FALSE /\ LeavingOf(r)' = (wpc[w] # "exit") /\ TurnOf(r)' = "idle"
      BY <2>1, <3>1 DEF SeenOfThread
    <3>6. TurnOf(r) # "idle" <=> wpc[w] # "exit"
      BY <3>1, <3>2 DEF SeenOfThread, TypeOK, Roles
    <3>7. SessionOf(r)!StopTask
      BY <3>4, <3>5, <3>6 DEF SessionOf!StopTask, seen
    <3> QED
      BY <3>7, SessionSteps
  <2>3. ASSUME \A w \in Workers : Alive(w) => wsess[w] # r PROVE SessionStep(r)
    <3>1. SeenIdle(r) /\ SeenIdle(r)'
      BY <2>3 DEF Around, SeenInv, Alive
    <3> QED
      BY <3>1, SessionSteps DEF SeenIdle, seen
  <2> QED
    BY <2>2, <2>3
<1> QED
  BY <1>1, <1>2

\* Every step of the Coordinator with its adapters is a step of each session,
\* or one that its adapter sees nothing of.
LEMMA EventsImplement ==
    ASSUME Around, EventsNext, NEW r \in Sessions
    PROVE  SessionStep(r)
<1>0. TypeOK /\ TypeInv /\ CallInv /\ SeenType /\ ~Shutdown
  BY DEF Around, EventsInv, BaseInv, TypeInv, JoinsEnd
<1>1. ASSUME UNCHANGED <<worker, pending, wpc, wsess, seen>> PROVE SessionStep(r)
  BY <1>0, <1>1, UnseenStep DEF seen
<1>2. ASSUME NEW s \in Sessions, Emit(s) PROVE SessionStep(r)
  <2>1. /\ UNCHANGED <<worker, pending, wpc, wsess, consent>> /\ out[s] # "none"
        /\ out' = [out EXCEPT ![s] = "none"]
    BY <1>2 DEF Emit, vars, rec, wrk, Put
  <2>2. CASE r # s
    BY <1>0, <2>1, <2>2, UnseenStep DEF SeenType
  <2>3. CASE r = s
    <3>1. UNCHANGED <<TurnOf(r), LiveWorker(r), LeavingOf(r)>>
      BY <1>0, <2>1, SameView
    <3>2. SessionOf(r)!Emitted
      BY <1>0, <2>1, <2>3, <3>1 DEF SeenType, SessionOf!Emitted, SessionOf!vars
    <3> QED
      BY <3>2, SessionSteps
  <2> QED
    BY <2>2, <2>3
<1>3. ASSUME NEW w \in Workers, WorkerTells(w) PROVE SessionStep(r)
  BY <1>3, WorkerImplements, OtherWorkers
<1>4. ASSUME NEW t \in Callers, CallerTells(t) PROVE SessionStep(r)
  <2>1. ASSUME NEW s \in Sessions, StartRetiring(t, s) \/ StartTask(t, s), UNCHANGED seen
        PROVE  SessionStep(r)
    BY <1>1, <2>1 DEF StartRetiring, StartTask, rec, wrk
  <2> QED
    BY <1>4, <2>1, AnswerImplements, StopImplements DEF CallerTells
<1>5. ASSUME NEW t \in Callers, StarterTells(t) PROVE SessionStep(r)
  <2>1. CASE UNCHANGED seen /\ (Refuse(t) \/ BootReuse(t) \/ Admit(t) \/ \E w \in Workers : PutReply(t, w))
    BY <1>1, <2>1 DEF Refuse, BootReuse, Admit, PutReply, rec, wrk
  <2>2. CASE UNCHANGED seen /\ \E b \in Sandboxes : BootFresh(t, b)
    BY <1>1, <2>2 DEF BootFresh, wrk
  <2>3. CASE UNCHANGED seen /\ (BootFails(t) \/ SendTaskFails(t))
    BY <2>3, AbortImplements
  <2> QED
    BY <1>5, <2>1, <2>2, <2>3, SendImplements, FailImplements, Zenon DEF StarterTells, seen
<1>6. ASSUME NEW t \in Threads, StopperStep(t), UNCHANGED seen PROVE SessionStep(r)
  BY <1>1, <1>6
  DEF StopperStep, WorkerStop, JoinReturns, AllJoined, StopReturnsAtOnce, StopSandbox, TearDownEnds,
      Clear, ClearRecords, rec, wrk
<1>7. ASSUME StopAll \/ ClearAll \/ Reap, UNCHANGED seen PROVE SessionStep(r)
  BY <1>0, <1>1, <1>7 DEF StopAll, ClearAll, ClearRecords, Reap, wrk
<1>8. ASSUME \/ \E s \in Sessions : SeedState(s) \/ Age(s)
             \/ \E b \in Sandboxes : Crash(b),
             UNCHANGED seen
      PROVE  SessionStep(r)
  BY <1>1, <1>8 DEF SeedState, Age, Crash, rec, wrk
<1> QED
  BY <1>2, <1>3, <1>4, <1>5, <1>6, <1>7, <1>8, Zenon DEF EventsNext

\* The start: nobody works, nothing is pending, nothing is to be told.
LEMMA EventsStart ==
    EventsInit => EventsInv /\ \A s \in Sessions : SessionOf(s)!WorkerInit
<1> SUFFICES ASSUME EventsInit PROVE EventsInv /\ \A s \in Sessions : SessionOf(s)!WorkerInit
  OBVIOUS
<1>1. Init /\ BaseInv /\ CallInv
  BY CallInvInit DEF EventsInit
<1>2. LeaveInv
  BY <1>1, QueueFacts DEF Init, LeaveInv, HeldOnce
<1>3. SeenType /\ ConsentInv /\ SinkInv
  BY <1>1 DEF EventsInit, Init, SeenType, ConsentInv, SinkInv, Starting, LockStages, Threads
<1>4. ASSUME NEW s \in Sessions PROVE SessionOf(s)!WorkerInit
  BY <1>1
  DEF EventsInit, Init, Nobody, SessionOf!WorkerInit, SessionOf!Init, TurnOf, LeavingOf, LiveWorker, Alive
<1> QED
  BY <1>1, <1>2, <1>3, <1>4 DEF EventsInv

\* The events and the consents are only added: what holds of the Coordinator's
\* behaviours holds of the Coordinator with its adapters.
THEOREM EventsKeepSpec == EventsSpec => Spec
<1>1. EventsInit => Init
  BY DEF EventsInit
<1> QED
  BY <1>1, EventsAreSteps, PTL DEF EventsSpec, Spec

\* Each session of the Coordinator is the SessionWorker that the adapters are
\* checked with: the worker's events, the caller's answers and stops, and the
\* starts that fail keep its order, whatever else goes on.
THEOREM SessionsImplemented ==
    ASSUME JoinsEnd, StateIsSaved
    PROVE  EventsSpec /\ []CallsApart => SessionsAreWorkers
<1>1. JoinsEnd /\ StateIsSaved
  OBVIOUS
<1>2. EventsInv /\ CallsApart /\ CallsApart' /\ [EventsNext]_eventVars => EventsInv'
  BY <1>1, EventsInvStep
<1>3. EventsInv /\ CallsApart => SeenInv
  BY SeenByThread DEF EventsInv
<1>4. /\ EventsInv /\ EventsInv' /\ CallsApart /\ CallsApart' /\ SeenInv /\ SeenInv'
      /\ [EventsNext]_eventVars
      => [\A s \in Sessions : [SessionOf(s)!WorkerNext]_(SessionOf(s)!workerVars)]_eventVars
  BY <1>1, EventsImplement DEF Around, SessionStep
<1> QED
  BY <1>2, <1>3, <1>4, EventsStart, PTL DEF EventsSpec, SessionsAreWorkers

=============================================================================
