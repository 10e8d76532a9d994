-------------------------- MODULE CoordinatorProofs --------------------------
(***************************************************************************)
(* Theorems about Coordinator, for every set of sessions, sandboxes,       *)
(* workers and adapter threads and every setting of the other constants.   *)
(***************************************************************************)
EXTENDS Coordinator, FiniteSetTheorems, TLAPS

\* A call that has chosen a session has a session as its argument.
ArgOK ==
    \A t \in Threads :
        pc[t] \in {"admit", "boot", "sendOld", "sendNew", "failed", "tear", "clear", "put"}
            => arg[t] \in Sessions

TypeInv == TypeOK /\ ArgOK

\* state.json can be written (an output file need not be).
StateIsSaved == "nosave" \notin StoreFaults

----------------------------------------------------------------------------
(* Types.                                                                  *)

\* The first state is well typed.
LEMMA TypeInit == Init => TypeInv
<1> SUFFICES ASSUME Init PROVE TypeInv
  OBVIOUS
<1> USE DEF Init, OrNone
<1>1. disk \in [Sessions -> StateValues]
  <2>1. CASE Fire
    BY <2>1 DEF StateValues
  <2>2. CASE ~Fire
    BY <2>2 DEF StateValues
  <2> QED
    BY <2>1, <2>2
<1>2. inbox \in [Workers -> Seq({"reply", "pill"})]
  OBVIOUS
<1>3. ArgOK
  BY DEF ArgOK
<1>4. tgt \in [Threads -> [Sessions -> OrNone(Sandboxes)]]
  BY DEF Nobody
<1> QED
  BY <1>1, <1>2, <1>3, <1>4 DEF TypeInv, TypeOK, Nobody, StateValues

\* The types of the variables of the records.
RecTypeOK ==
    /\ worker \in [Sessions -> OrNone(Workers)]
    /\ pending \in [Sessions -> Roles \cup {"none"}]
    /\ sandbox \in [Sessions -> OrNone(Sandboxes)]
    /\ stopping \in [Sessions -> BOOLEAN]
    /\ idle \in [Sessions -> {"unset", "fresh", "expired"}]
    /\ latest \in [Sessions -> StateValues]
    /\ disk \in [Sessions -> StateValues]

\* Saving a done event keeps the records well typed.
LEMMA PersistDoneType ==
    ASSUME TypeInv, NEW s, NEW state \in StateValues, NEW outcome,
           PersistDone(s, state, outcome)
    PROVE  RecTypeOK'
<1> USE DEF TypeInv, TypeOK, PersistDone
<1>1. disk' \in [Sessions -> StateValues]
  OBVIOUS
<1>2. latest' \in [Sessions -> StateValues] /\ idle' \in [Sessions -> {"unset", "fresh", "expired"}]
  <2>1. CASE outcome = "ok"
    BY <2>1
  <2>2. CASE outcome # "ok"
    BY <2>2
  <2> QED
    BY <2>1, <2>2
<1>3. pending' \in [Sessions -> Roles \cup {"none"}]
  OBVIOUS
<1> QED
  BY <1>1, <1>2, <1>3 DEF RecTypeOK

\* Clearing records keeps them, and the thread's locals, well typed.
LEMMA ClearRecordsType ==
    ASSUME TypeInv, NEW t \in Threads, NEW S, ClearRecords(t, S)
    PROVE  RecTypeOK' /\ tgt' \in [Threads -> [Sessions -> OrNone(Sandboxes)]]
<1> USE DEF TypeInv, TypeOK, ClearRecords, OrNone
<1>1. sandbox' \in [Sessions -> OrNone(Sandboxes)]
  OBVIOUS
<1>2. stopping' \in [Sessions -> BOOLEAN]
  OBVIOUS
<1>3. tgt' \in [Threads -> [Sessions -> OrNone(Sandboxes)]]
  OBVIOUS
<1> QED
  BY <1>1, <1>2, <1>3 DEF RecTypeOK

\* No step of an adapter, the reaper, a worker or a VM breaks a type.
LEMMA TypeStep == TypeInv /\ [Next]_vars => TypeInv'
<1> SUFFICES ASSUME TypeInv, [Next]_vars PROVE TypeInv'
  OBVIOUS
<1> USE CoordinatorAssumption DEF TypeInv, TypeOK, ArgOK, OrNone, Threads, rec, box, wrk, thr
<1>1. ASSUME NEW t \in Callers, NEW s \in Sessions, StartRetiring(t, s) PROVE TypeInv'
  BY <1>1 DEF StartRetiring, Call
<1>2. ASSUME NEW t \in Callers, NEW s \in Sessions, StartTask(t, s) PROVE TypeInv'
  BY <1>2 DEF StartTask, Call
<1>3. ASSUME NEW t \in Callers, NEW s \in Sessions, SubmitReply(t, s) PROVE TypeInv'
  BY <1>3 DEF SubmitReply, Call
<1>4. ASSUME NEW t \in Callers, NEW s \in Stoppable, StopSession(t, s) PROVE TypeInv'
  BY <1>4 DEF StopSession, Call
<1>5. ASSUME NEW t \in Callers, Refuse(t) PROVE TypeInv'
  BY <1>5 DEF Refuse, Return
<1>6. ASSUME NEW t \in Callers, Admit(t) PROVE TypeInv'
  BY <1>6 DEF Admit, Goto
<1>7. ASSUME NEW t \in Callers, BootReuse(t) PROVE TypeInv'
  BY <1>7 DEF BootReuse, Goto
<1>8. ASSUME NEW t \in Callers, NEW b \in Sandboxes, BootFresh(t, b) PROVE TypeInv'
  BY <1>8 DEF BootFresh, Goto
<1>9. ASSUME NEW t \in Callers, BootFails(t) PROVE TypeInv'
  BY <1>9 DEF BootFails, AbortStart, Goto
<1>10. ASSUME NEW t \in Callers, NEW w \in Workers, SendTask(t, w) PROVE TypeInv'
  BY <1>10 DEF SendTask, Return, LiveSandbox
<1>11. ASSUME NEW t \in Callers, SendTaskFails(t) PROVE TypeInv'
  <2>1. CASE pc[t] = "sendOld"
    BY <1>11, <2>1 DEF SendTaskFails, AbortStart, Goto
  <2>2. CASE pc[t] = "sendNew"
    <3>1. /\ vm' = [vm EXCEPT ![sandbox[arg[t]]] = "none"]
          /\ home' = [home EXCEPT ![sandbox[arg[t]]] = None]
      BY <1>11, <2>2 DEF SendTaskFails
    <3>2. /\ vm' \in [Sandboxes -> {"none", "running", "crashed", "stopping"}]
          /\ home' \in [Sandboxes -> OrNone(Sessions)]
      BY <3>1
    <3>3. RecTypeOK'
      BY <1>11, <2>2 DEF SendTaskFails, AbortStart, RecTypeOK
    <3> QED
      BY <1>11, <2>2, <3>2, <3>3 DEF SendTaskFails, AbortStart, Goto, RecTypeOK
  <2> QED
    BY <1>11, <2>1, <2>2 DEF SendTaskFails
<1>12. ASSUME NEW t \in Callers, NEW o \in ErrorOutcomes, ReportStartError(t, o) PROVE TypeInv'
  <2>1. RecTypeOK'
    BY <1>12, PersistDoneType DEF ReportStartError, StateValues
  <2> QED
    BY <1>12, <2>1 DEF ReportStartError, Return, RecTypeOK
<1>13. ASSUME NEW t \in Callers, NEW w \in Workers, PutReply(t, w) PROVE TypeInv'
  BY <1>13 DEF PutReply, Return
<1>14. ASSUME NEW t \in Threads, NEW w \in Workers, WorkerStop(t, w) PROVE TypeInv'
  BY <1>14 DEF WorkerStop
<1>15. ASSUME NEW t \in Threads, NEW w \in Workers, JoinReturns(t, w) PROVE TypeInv'
  BY <1>15 DEF JoinReturns
<1>16. ASSUME NEW t \in Threads, AllJoined(t) PROVE TypeInv'
  BY <1>16 DEF AllJoined, Goto
<1>17. ASSUME NEW t \in Threads, NEW s \in Sessions, StopReturnsAtOnce(t, s) PROVE TypeInv'
  BY <1>17 DEF StopReturnsAtOnce, AfterStop, Goto
<1>18. ASSUME NEW t \in Threads, NEW s \in Sessions, StopSandbox(t, s) PROVE TypeInv'
  BY <1>18 DEF StopSandbox
<1>19. ASSUME NEW t \in Threads, TearDownEnds(t) PROVE TypeInv'
  <2>1. /\ vm' = [vm EXCEPT ![tgt[t][arg[t]]] = "none"]
        /\ home' = [home EXCEPT ![tgt[t][arg[t]]] = None]
    BY <1>19 DEF TearDownEnds
  <2>2. /\ vm' \in [Sandboxes -> {"none", "running", "crashed", "stopping"}]
        /\ home' \in [Sandboxes -> OrNone(Sessions)]
    BY <2>1
  <2>3. CASE op[t] = "stopall"
    <3>1. /\ left' \in [Threads -> SUBSET Sessions]
          /\ pc' = [pc EXCEPT ![t] = "next"]
          /\ UNCHANGED <<op, arg>>
      BY <1>19, <2>3 DEF TearDownEnds, AfterStop, Goto
    <3> QED
      BY <1>19, <2>2, <3>1 DEF TearDownEnds
  <2>4. CASE op[t] # "stopall"
    <3>1. /\ UNCHANGED <<op, left>>
          /\ pc' = [pc EXCEPT ![t] = "clear"]
          /\ arg' = [arg EXCEPT ![t] = arg[t]]
      BY <1>19, <2>4 DEF TearDownEnds, AfterStop
    <3> QED
      BY <1>19, <2>2, <3>1 DEF TearDownEnds
  <2> QED
    BY <2>3, <2>4
<1>20. ASSUME NEW t \in Threads, Clear(t) PROVE TypeInv'
  <2>a. RecTypeOK' /\ tgt' \in [Threads -> [Sessions -> OrNone(Sandboxes)]]
    BY <1>20, ClearRecordsType DEF Clear
  <2>b. /\ left' \in [Threads -> SUBSET Sessions]
        /\ UNCHANGED <<lock, shut, box, wrk, held>>
    BY <1>20 DEF Clear
  <2>1. CASE Goto(t, "next")
    BY <1>20, <2>1, <2>a, <2>b DEF Clear, Goto, RecTypeOK
  <2>2. CASE Goto(t, "admit")
    BY <1>20, <2>2, <2>a, <2>b DEF Clear, Goto, RecTypeOK
  <2>3. CASE Return(t)
    BY <2>3, <2>a, <2>b DEF Return, RecTypeOK
  <2> QED
    BY <1>20, <2>1, <2>2, <2>3 DEF Clear
<1>21. ASSUME StopAll PROVE TypeInv'
  BY <1>21 DEF StopAll, Call, Nobody
<1>22. ASSUME ClearAll PROVE TypeInv'
  BY <1>22 DEF ClearAll, ClearRecords, Return
<1>23. ASSUME Reap PROVE TypeInv'
  BY <1>23 DEF Reap, Call
<1>24. ASSUME NEW s \in Sessions, SeedState(s) PROVE TypeInv'
  BY <1>24 DEF SeedState
<1>25. ASSUME NEW s \in Sessions, Age(s) PROVE TypeInv'
  BY <1>25 DEF Age
<1>26. ASSUME NEW b \in Sandboxes, Crash(b) PROVE TypeInv'
  BY <1>26 DEF Crash
<1>27. ASSUME NEW w \in Workers, NEW e \in Roles \cup {"done"}, Receive(w, e) PROVE TypeInv'
  BY <1>27 DEF Receive, WorkerGoes, Quiet
<1>28. ASSUME NEW w \in Workers, ServeRequest(w) PROVE TypeInv'
  BY <1>28 DEF ServeRequest, WorkerGoes, Quiet
<1>29. ASSUME NEW w \in Workers, ServeEnds(w) PROVE TypeInv'
  <2>1. CASE WorkerGoes(w, "loop")
    BY <1>29, <2>1 DEF ServeEnds, WorkerGoes, Quiet
  <2>2. CASE WorkerGoes(w, "error")
    BY <1>29, <2>2 DEF ServeEnds, WorkerGoes, Quiet
  <2> QED
    BY <1>29, <2>1, <2>2 DEF ServeEnds
<1>30. ASSUME NEW w \in Workers, ReceiveFails(w) PROVE TypeInv'
  BY <1>30 DEF ReceiveFails, WorkerGoes, Quiet
<1>31. ASSUME NEW w \in Workers, TakeReply(w) PROVE TypeInv'
  BY <1>31 DEF TakeReply, WorkerGoes, Quiet
<1>32. ASSUME NEW w \in Workers, SendReply(w) PROVE TypeInv'
  <2>1. CASE WorkerGoes(w, "loop")
    BY <1>32, <2>1 DEF SendReply, WorkerGoes, Quiet
  <2>2. CASE WorkerGoes(w, "error")
    BY <1>32, <2>2 DEF SendReply, WorkerGoes, Quiet
  <2> QED
    BY <1>32, <2>1, <2>2 DEF SendReply
<1>33. ASSUME NEW w \in Workers, SeeStop(w) PROVE TypeInv'
  BY <1>33 DEF SeeStop, WorkerGoes, Quiet
<1>34. ASSUME NEW w \in Workers, HandlePrompt(w) PROVE TypeInv'
  BY <1>34 DEF HandlePrompt, WorkerGoes
<1>35. ASSUME NEW w \in Workers, NEW o \in DoneOutcomes, HandleDone(w, o) PROVE TypeInv'
  <2>1. RecTypeOK'
    BY <1>35, PersistDoneType DEF HandleDone, StateValues
  <2>2. /\ wpc' \in [Workers -> {"free", "loop", "serving", "event", "prompt", "send", "error", "exit"}]
        /\ told' \in [Workers -> Nat]
        /\ wevt' \in [Workers -> Roles \cup {"none", "done"}]
    BY <1>35 DEF HandleDone
  <2> QED
    BY <1>35, <2>1, <2>2 DEF HandleDone, RecTypeOK
<1>36. ASSUME NEW w \in Workers, NEW o \in ErrorOutcomes, ReportError(w, o) PROVE TypeInv'
  <2>1. RecTypeOK'
    BY <1>36, PersistDoneType DEF ReportError, StateValues
  <2>2. told' \in [Workers -> Nat]
    BY <1>36 DEF ReportError
  <2> QED
    BY <1>36, <2>1, <2>2 DEF ReportError, RecTypeOK
<1>37. ASSUME NEW w \in Workers, WorkerExit(w) PROVE TypeInv'
  <2>1. RecTypeOK'
    BY <1>37 DEF WorkerExit, RecTypeOK
  <2>2. inbox' \in [Workers -> Seq({"reply", "pill"})]
    BY <1>37 DEF WorkerExit
  <2>3. /\ wpc' \in [Workers -> {"free", "loop", "serving", "event", "prompt", "send", "error", "exit"}]
        /\ wsess' \in [Workers -> OrNone(Sessions)]
        /\ wbox' \in [Workers -> OrNone(Sandboxes)]
        /\ wstop' \in [Workers -> BOOLEAN]
        /\ wevt' \in [Workers -> Roles \cup {"none", "done"}]
        /\ told' \in [Workers -> Nat]
    BY <1>37 DEF WorkerExit
  <2> QED
    BY <1>37, <2>1, <2>2, <2>3 DEF WorkerExit, RecTypeOK
<1>38. CASE UNCHANGED vars
  BY <1>38 DEF vars
<1> QED
  BY <1>1, <1>2, <1>3, <1>4, <1>5, <1>6, <1>7, <1>8, <1>9, <1>10, <1>11, <1>12, <1>13, <1>14,
     <1>15, <1>16, <1>17, <1>18, <1>19, <1>20, <1>21, <1>22, <1>23, <1>24, <1>25, <1>26, <1>27,
     <1>28, <1>29, <1>30, <1>31, <1>32, <1>33, <1>34, <1>35, <1>36, <1>37, <1>38
  DEF Next, CallerStep, StarterStep, StopperStep, WorkerStep, LockedWorkerStep

\* Every variable of the coordinator keeps its type: in particular a worker is
\* only ever given a sandbox and a session that exist.
THEOREM TypeCorrect == Spec => []TypeOK
<1>1. Spec => []TypeInv
  BY TypeInit, TypeStep, PTL DEF Spec
<1> QED
  BY <1>1, PTL DEF TypeInv

----------------------------------------------------------------------------
(* Stopping.                                                               *)

StopStages == {"join", "next", "tear", "clear"}

\* The locals of a thread that stops sandboxes: outside these stages it has
\* captured nothing; every sandbox that it has captured is on its list, which
\* stop_all alone shortens before it clears the records.
StopLocal(t) ==
    /\ pc[t] \notin StopStages => left[t] = {} /\ \A s \in Sessions : tgt[t][s] = None
    /\ op[t] # "stopall" => \A s \in Sessions : tgt[t][s] # None => s \in left[t]
    /\ op[t] = "stopall" => /\ t = Main
                            /\ pc[t] \in {"join", "next", "tear"}
                            /\ \A s \in left[t] : tgt[t][s] # None
    /\ pc[t] \in {"tear", "clear"} => arg[t] \in left[t]
    /\ pc[t] = "tear" => tgt[t][arg[t]] # None

StopLocals == \A t \in Threads : StopLocal(t)

\* What a thread is about to forget, it has stopped.
StoppedTargets ==
    \A t \in Threads, s \in Sessions :
        /\ tgt[t][s] # None
        /\ s \notin left[t] \/ (pc[t] = "clear" /\ arg[t] = s)
        => ~IsRunning(tgt[t][s])

\* No stop is under way in the first state.
LEMMA StopLocalsInit == Init => StopLocals
BY DEF Init, StopLocals, StopLocal, StopStages, Nobody

\* The locals of a stop keep saying what it has still to do.
LEMMA StopLocalsStep == TypeInv /\ StopLocals /\ [Next]_vars => StopLocals'
<1> SUFFICES ASSUME TypeInv, StopLocals, [Next]_vars PROVE StopLocals'
  OBVIOUS
<1>0. Callers \subseteq Threads /\ Main \in Threads /\ Reaper \in Threads
  BY DEF Threads
<1> USE <1>0 DEF TypeInv, TypeOK, StopLocals, StopLocal, StopStages
<1>1. ASSUME NEW t \in Threads, NEW s \in Sessions, StartRetiring(t, s) PROVE StopLocals'
  BY <1>1 DEF StartRetiring, Call
<1>2. ASSUME NEW t \in Threads, NEW s \in Sessions, StartTask(t, s) PROVE StopLocals'
  BY <1>2 DEF StartTask, Call
<1>3. ASSUME NEW t \in Threads, NEW s \in Sessions, SubmitReply(t, s) PROVE StopLocals'
  BY <1>3 DEF SubmitReply, Call
<1>4. ASSUME NEW t \in Threads, NEW s \in Stoppable, StopSession(t, s) PROVE StopLocals'
  BY <1>4 DEF StopSession, Call
<1>5. ASSUME NEW t \in Threads, Refuse(t) PROVE StopLocals'
  BY <1>5 DEF Refuse, Return
<1>6. ASSUME NEW t \in Threads, Admit(t) PROVE StopLocals'
  BY <1>6 DEF Admit, Goto
<1>7. ASSUME NEW t \in Threads, BootReuse(t) PROVE StopLocals'
  BY <1>7 DEF BootReuse, Goto
<1>8. ASSUME NEW t \in Threads, NEW b \in Sandboxes, BootFresh(t, b) PROVE StopLocals'
  BY <1>8 DEF BootFresh, Goto
<1>9. ASSUME NEW t \in Threads, BootFails(t) PROVE StopLocals'
  BY <1>9 DEF BootFails, AbortStart, Goto
<1>10. ASSUME NEW t \in Threads, NEW w \in Workers, SendTask(t, w) PROVE StopLocals'
  BY <1>10 DEF SendTask, Return
<1>11. ASSUME NEW t \in Threads, SendTaskFails(t) PROVE StopLocals'
  BY <1>11 DEF SendTaskFails, AbortStart, Goto
<1>12. ASSUME NEW t \in Threads, NEW o \in ErrorOutcomes, ReportStartError(t, o) PROVE StopLocals'
  BY <1>12 DEF ReportStartError, Return
<1>13. ASSUME NEW t \in Threads, NEW w \in Workers, PutReply(t, w) PROVE StopLocals'
  BY <1>13 DEF PutReply, Return
<1>14. ASSUME NEW t \in Threads, NEW w \in Workers, JoinReturns(t, w) PROVE StopLocals'
  BY <1>14 DEF JoinReturns
<1>15. ASSUME NEW t \in Threads, AllJoined(t) PROVE StopLocals'
  BY <1>15 DEF AllJoined, Goto
<1>16. ASSUME NEW t \in Threads, NEW s \in Sessions, StopReturnsAtOnce(t, s) PROVE StopLocals'
  <2>1. CASE op[t] = "stopall"
    BY <1>16, <2>1 DEF StopReturnsAtOnce, AfterStop, Goto
  <2>2. CASE op[t] # "stopall"
    <3>1. /\ s \in left[t]
          /\ pc' = [pc EXCEPT ![t] = "clear"]
          /\ arg' = [arg EXCEPT ![t] = s]
          /\ UNCHANGED <<op, left, tgt>>
      BY <1>16, <2>2 DEF StopReturnsAtOnce, AfterStop
    <3> QED
      BY <2>2, <3>1
  <2> QED
    BY <2>1, <2>2
<1>17. ASSUME NEW t \in Threads, NEW s \in Sessions, StopSandbox(t, s) PROVE StopLocals'
  BY <1>17 DEF StopSandbox
<1>18. ASSUME NEW t \in Threads, TearDownEnds(t) PROVE StopLocals'
  BY <1>18 DEF TearDownEnds, AfterStop, Goto
<1>19. ASSUME NEW t \in Threads, Clear(t) PROVE StopLocals'
  BY <1>19 DEF Clear, ClearRecords, Goto, Return
<1>20. ASSUME StopAll PROVE StopLocals'
  BY <1>20 DEF StopAll, Call
<1>21. ASSUME ClearAll PROVE StopLocals'
  BY <1>21 DEF ClearAll, ClearRecords, Return
<1>22. ASSUME Reap PROVE StopLocals'
  BY <1>22 DEF Reap, Call
<1>23. CASE UNCHANGED thr
  BY <1>23 DEF thr
<1> QED
  BY <1>1, <1>2, <1>3, <1>4, <1>5, <1>6, <1>7, <1>8, <1>9, <1>10, <1>11, <1>12, <1>13, <1>14,
     <1>15, <1>16, <1>17, <1>18, <1>19, <1>20, <1>21, <1>22, <1>23
  DEF Next, CallerStep, StarterStep, StopperStep, WorkerStep, LockedWorkerStep, vars, Quiet,
      WorkerStop, SeedState, Age, Crash, Receive, ServeRequest, ServeEnds, ReceiveFails,
      TakeReply, SendReply, SeeStop, HandlePrompt, HandleDone, ReportError, WorkerExit

\* A step that sets sandbox_stopping makes its thread the one to clear it, and
\* a step that takes a session from a stopper has cleared it.
LEMMA StoppingStep ==
    TypeInv /\ StopLocals /\ StoppingHasStopper /\ [Next]_vars => StoppingHasStopper'
<1> SUFFICES ASSUME TypeInv, StopLocals, StoppingHasStopper, [Next]_vars,
                    NEW s \in Sessions, stopping'[s]
             PROVE  \E u \in Threads : s \in left'[u] \/ tgt'[u][s] # None
  BY DEF StoppingHasStopper
<1>0. Callers \subseteq Threads /\ Main \in Threads /\ Reaper \in Threads
  BY DEF Threads
<1> USE <1>0 DEF TypeInv, TypeOK, StopLocals, StopLocal, StopStages
<1> DEFINE Stopper(u) == s \in left[u] \/ tgt[u][s] # None
<1>1. stopping[s] => \E u \in Threads : Stopper(u)
  BY DEF StoppingHasStopper
<1>2. ASSUME NEW t \in Threads, NEW x \in Sessions, StartRetiring(t, x)
      PROVE  \E u \in Threads : Stopper(u)'
  <2>1. CASE stopping[s]
    <3>1. PICK u \in Threads : Stopper(u)
      BY <1>1, <2>1
    <3>2. u # t
      BY <1>2, <3>1 DEF StartRetiring
    <3>3. left'[u] = left[u] /\ tgt'[u][s] = tgt[u][s]
      BY <1>2, <3>2 DEF StartRetiring
    <3> QED
      BY <3>1, <3>3
  <2>2. CASE ~stopping[s]
    BY <1>2, <2>2 DEF StartRetiring
  <2> QED
    BY <2>1, <2>2
<1>3. ASSUME NEW t \in Threads, NEW x \in Sessions, StopSession(t, x)
      PROVE  \E u \in Threads : Stopper(u)'
  <2>1. CASE stopping[s]
    <3>1. PICK u \in Threads : Stopper(u)
      BY <1>1, <2>1
    <3>2. u # t
      BY <1>3, <3>1 DEF StopSession
    <3>3. left'[u] = left[u] /\ tgt'[u][s] = tgt[u][s]
      BY <1>3, <3>2 DEF StopSession
    <3> QED
      BY <3>1, <3>3
  <2>2. CASE ~stopping[s]
    BY <1>3, <2>2 DEF StopSession
  <2> QED
    BY <2>1, <2>2
<1>4. ASSUME StopAll
      PROVE  \E u \in Threads : Stopper(u)'
  <2>1. CASE stopping[s]
    <3>1. PICK u \in Threads : Stopper(u)
      BY <1>1, <2>1
    <3>2. u # Main
      BY <1>4, <3>1 DEF StopAll
    <3>3. left'[u] = left[u] /\ tgt'[u][s] = tgt[u][s]
      BY <1>4, <3>2 DEF StopAll
    <3> QED
      BY <3>1, <3>3
  <2>2. CASE ~stopping[s]
    BY <1>4, <2>2 DEF StopAll
  <2> QED
    BY <2>1, <2>2
<1>5. ASSUME Reap
      PROVE  \E u \in Threads : Stopper(u)'
  <2>1. CASE stopping[s]
    <3>1. PICK u \in Threads : Stopper(u)
      BY <1>1, <2>1
    <3>2. u # Reaper
      BY <1>5, <3>1 DEF Reap
    <3>3. left'[u] = left[u] /\ tgt'[u][s] = tgt[u][s]
      BY <1>5, <3>2 DEF Reap
    <3> QED
      BY <3>1, <3>3
  <2>2. CASE ~stopping[s]
    BY <1>5, <2>2 DEF Reap
  <2> QED
    BY <2>1, <2>2
<1>6. ASSUME NEW t \in Threads, Clear(t)
      PROVE  \E u \in Threads : Stopper(u)'
  BY <1>1, <1>6 DEF Clear, ClearRecords
<1>7. ASSUME ClearAll
      PROVE  \E u \in Threads : Stopper(u)'
  BY <1>1, <1>7 DEF ClearAll, ClearRecords
<1>8. ASSUME NEW t \in Threads, NEW x \in Sessions, StopReturnsAtOnce(t, x)
      PROVE  \E u \in Threads : Stopper(u)'
  <2>1. PICK u \in Threads : Stopper(u)
    BY <1>1, <1>8 DEF StopReturnsAtOnce, rec
  <2>2. tgt' = tgt
    BY <1>8 DEF StopReturnsAtOnce
  <2>3. CASE op[t] = "stopall"
    <3>1. left' = [left EXCEPT ![t] = @ \ {x}] /\ tgt[t][x] # None
      BY <1>8, <2>3 DEF StopReturnsAtOnce, AfterStop
    <3> QED
      BY <2>1, <2>2, <3>1
  <2>4. CASE op[t] # "stopall"
    BY <1>8, <2>1, <2>2, <2>4 DEF StopReturnsAtOnce, AfterStop
  <2> QED
    BY <2>3, <2>4
<1>9. ASSUME NEW t \in Threads, TearDownEnds(t)
      PROVE  \E u \in Threads : Stopper(u)'
  <2>1. PICK u \in Threads : Stopper(u)
    BY <1>1, <1>9 DEF TearDownEnds, rec
  <2>2. tgt' = tgt
    BY <1>9 DEF TearDownEnds
  <2>3. CASE op[t] = "stopall"
    <3>1. left' = [left EXCEPT ![t] = @ \ {arg[t]}] /\ tgt[t][arg[t]] # None
      BY <1>9, <2>3 DEF TearDownEnds, AfterStop
    <3> QED
      BY <2>1, <2>2, <3>1
  <2>4. CASE op[t] # "stopall"
    BY <1>9, <2>1, <2>2, <2>4 DEF TearDownEnds, AfterStop
  <2> QED
    BY <2>3, <2>4
<1>10. CASE UNCHANGED <<stopping, tgt, left>>
  BY <1>1, <1>10
<1>11. ASSUME NEW t \in Callers, StarterStep(t)
       PROVE  UNCHANGED <<stopping, tgt, left>>
  BY <1>11 DEF StarterStep, rec, Refuse, Admit, BootReuse, BootFresh, BootFails, AbortStart,
      SendTask, SendTaskFails, ReportStartError, PersistDone, PutReply
<1>12. ASSUME NEW w \in Workers, WorkerStep(w)
       PROVE  UNCHANGED <<stopping, tgt, left>>
  BY <1>12 DEF WorkerStep, LockedWorkerStep, rec, thr, Quiet, Receive, ServeRequest, ServeEnds,
      ReceiveFails, TakeReply, SendReply, SeeStop, HandlePrompt, HandleDone, ReportError,
      PersistDone, WorkerExit
<1>13. ASSUME NEW t \in Threads, NEW x \in Workers, WorkerStop(t, x) \/ JoinReturns(t, x)
       PROVE  UNCHANGED <<stopping, tgt, left>>
  BY <1>13 DEF WorkerStop, JoinReturns, rec, thr
<1>14. ASSUME NEW t \in Threads, AllJoined(t) \/ (\E x \in Sessions : StopSandbox(t, x))
       PROVE  UNCHANGED <<stopping, tgt, left>>
  BY <1>14 DEF AllJoined, StopSandbox, rec
<1>15. ASSUME NEW t \in Callers, NEW x \in Sessions, StartTask(t, x) \/ SubmitReply(t, x)
       PROVE  UNCHANGED <<stopping, tgt, left>>
  BY <1>15 DEF StartTask, SubmitReply, rec
<1>16. ASSUME NEW x \in Sessions, SeedState(x) \/ Age(x)
       PROVE  UNCHANGED <<stopping, tgt, left>>
  BY <1>16 DEF SeedState, Age, thr
<1>17. ASSUME NEW x \in Sandboxes, Crash(x)
       PROVE  UNCHANGED <<stopping, tgt, left>>
  BY <1>17 DEF Crash, rec, thr
<1>18. CASE UNCHANGED vars
  BY <1>10, <1>18 DEF vars, rec, thr
<1>19. Stoppable \subseteq Sessions
  BY CoordinatorAssumption
<1> QED
  BY <1>2, <1>3, <1>4, <1>5, <1>6, <1>7, <1>8, <1>9, <1>10, <1>11, <1>12, <1>13, <1>14, <1>15,
     <1>16, <1>17, <1>18, <1>19, Zenon
  DEF Next, CallerStep, StopperStep

\* No session is left "busy" by a stop that nobody finishes: in every mixture of
\* starts, stops, shutdown and reaper passes, the flag belongs to a thread that
\* is on its way to clear it.
THEOREM NoSessionWedged == Spec => []StoppingHasStopper
<1>1. Init => StoppingHasStopper
  BY DEF Init, StoppingHasStopper
<1> QED
  BY <1>1, TypeInit, TypeStep, StopLocalsInit, StopLocalsStep, StoppingStep, PTL DEF Spec

----------------------------------------------------------------------------
(* Running sandboxes.                                                      *)

\* A sandbox that a stop has dealt with does not run again before the stop
\* clears the session's record.
LEMMA StoppedTargetsStep ==
    TypeInv /\ StopLocals /\ StoppedTargets /\ [Next]_vars => StoppedTargets'
<1> SUFFICES ASSUME TypeInv, StopLocals, StoppedTargets, [Next]_vars,
                    NEW u \in Threads, NEW s \in Sessions,
                    tgt'[u][s] # None,
                    s \notin left'[u] \/ (pc'[u] = "clear" /\ arg'[u] = s)
             PROVE  vm'[tgt'[u][s]] # "running"
  BY DEF StoppedTargets, IsRunning
<1>0. Callers \subseteq Threads /\ Main \in Threads /\ Reaper \in Threads
  BY DEF Threads
<1>a. Stoppable \subseteq Sessions /\ None \notin Sandboxes
  BY CoordinatorAssumption
<1> USE <1>0, <1>a
    DEF TypeInv, TypeOK, OrNone, StopLocals, StopLocal, StopStages, StoppedTargets, IsRunning
<1>1. ASSUME tgt'[u][s] = tgt[u][s], left'[u] = left[u],
             vm'[tgt[u][s]] = "running" => vm[tgt[u][s]] = "running",
             pc'[u] = "clear" => pc[u] = "clear" /\ arg'[u] = arg[u]
      PROVE  vm'[tgt'[u][s]] # "running"
  BY <1>1
<1>2. ASSUME NEW t \in Callers, CallerStep(t)
      PROVE  vm'[tgt'[u][s]] # "running"
  <2>1. ASSUME NEW x \in Sessions, StartRetiring(t, x)
        PROVE  vm'[tgt'[u][s]] # "running"
    <3>1. CASE u = t
      <4>1. pc[t] = "idle" /\ pc'[t] # "clear" /\ left'[t] = {x} /\ (s # x => tgt'[t][s] = tgt[t][s])
        BY <2>1 DEF StartRetiring, Call
      <4> QED
        BY <3>1, <4>1
    <3>2. CASE u # t
      BY <1>1, <2>1, <3>2 DEF StartRetiring, Call, box
    <3> QED
      BY <3>1, <3>2
  <2>2. ASSUME NEW x \in Sessions, StartTask(t, x)
        PROVE  vm'[tgt'[u][s]] # "running"
    BY <1>1, <2>2 DEF StartTask, Call, box
  <2>3. ASSUME NEW x \in Sessions, SubmitReply(t, x)
        PROVE  vm'[tgt'[u][s]] # "running"
    BY <1>1, <2>3 DEF SubmitReply, Call, box
  <2>4. ASSUME NEW x \in Sessions, StopSession(t, x)
        PROVE  vm'[tgt'[u][s]] # "running"
    <3>1. CASE u = t
      <4>1. pc[t] = "idle" /\ pc'[t] # "clear" /\ left'[t] = {x} /\ (s # x => tgt'[t][s] = tgt[t][s])
        BY <2>4 DEF StopSession, Call
      <4> QED
        BY <3>1, <4>1
    <3>2. CASE u # t
      BY <1>1, <2>4, <3>2 DEF StopSession, Call, box
    <3> QED
      BY <3>1, <3>2
  <2> QED
    BY <1>2, <2>1, <2>2, <2>3, <2>4, Zenon DEF CallerStep
<1>3. ASSUME NEW t \in Callers, StarterStep(t)
      PROVE  vm'[tgt'[u][s]] # "running"
  <2>0. pc'[u] = "clear" => pc[u] = "clear" /\ arg'[u] = arg[u]
    BY <1>3 DEF StarterStep, Refuse, Admit, BootReuse, BootFresh, BootFails, AbortStart, SendTask,
        SendTaskFails, ReportStartError, PutReply, Return, Goto
  <2>1. UNCHANGED <<tgt, left>>
    BY <1>3 DEF StarterStep, Refuse, Admit, BootReuse, BootFresh, BootFails, AbortStart, SendTask,
        SendTaskFails, ReportStartError, PutReply
  <2>2. ASSUME NEW b \in Sandboxes, BootFresh(t, b)
        PROVE  vm'[tgt'[u][s]] # "running"
    <3>1. tgt[u][s] # b
      BY <2>2 DEF BootFresh, UnusedSandbox
    <3> QED
      BY <1>1, <2>0, <2>1, <2>2, <3>1 DEF BootFresh
  <2>3. CASE SendTaskFails(t)
    <3>1. vm'[tgt[u][s]] = "running" => vm[tgt[u][s]] = "running"
      BY <2>1, <2>3 DEF SendTaskFails, box
    <3> QED
      BY <1>1, <2>0, <2>1, <3>1
  <2>4. CASE UNCHANGED vm
    BY <1>1, <2>0, <2>1, <2>4
  <2> QED
    BY <1>3, <2>2, <2>3, <2>4 DEF StarterStep, Refuse, Admit, BootReuse, BootFails, SendTask,
        ReportStartError, PutReply, box
<1>4. ASSUME NEW t \in Threads, StopperStep(t)
      PROVE  vm'[tgt'[u][s]] # "running"
  <2>1. ASSUME NEW w \in Workers, WorkerStop(t, w) \/ JoinReturns(t, w)
        PROVE  vm'[tgt'[u][s]] # "running"
    BY <1>1, <2>1 DEF WorkerStop, JoinReturns, box, thr
  <2>2. CASE AllJoined(t)
    BY <1>1, <2>2 DEF AllJoined, Goto, box
  <2>3. ASSUME NEW x \in Sessions, StopReturnsAtOnce(t, x)
        PROVE  vm'[tgt'[u][s]] # "running"
    <3>1. /\ UNCHANGED <<tgt, vm>>
          /\ tgt[t][x] # None => vm[tgt[t][x]] = "stopping"
          /\ \A r \in Threads : r # t => left'[r] = left[r] /\ pc'[r] = pc[r] /\ arg'[r] = arg[r]
      BY <2>3 DEF StopReturnsAtOnce, AfterStop, Goto, box
    <3>2. s \in left[t] => s \in left'[t] \/ s = x
      BY <2>3 DEF StopReturnsAtOnce, AfterStop, Goto
    <3>3. pc'[t] = "clear" => arg'[t] = x
      BY <2>3 DEF StopReturnsAtOnce, AfterStop, Goto
    <3>4. CASE u # t
      BY <1>1, <3>1, <3>4
    <3>5. CASE u = t /\ s = x
      BY <3>1, <3>5
    <3>6. CASE u = t /\ s # x
      BY <3>1, <3>2, <3>3, <3>6
    <3> QED
      BY <3>4, <3>5, <3>6
  <2>4. ASSUME NEW x \in Sessions, StopSandbox(t, x)
        PROVE  vm'[tgt'[u][s]] # "running"
    <3>1. vm'[tgt[u][s]] = "running" => vm[tgt[u][s]] = "running"
      BY <2>4 DEF StopSandbox
    <3> QED
      BY <1>1, <2>4, <3>1 DEF StopSandbox
  <2>5. CASE TearDownEnds(t)
    <3>1. /\ UNCHANGED tgt
          /\ vm' = [vm EXCEPT ![tgt[t][arg[t]]] = "none"]
          /\ \A r \in Threads : r # t => left'[r] = left[r] /\ pc'[r] = pc[r] /\ arg'[r] = arg[r]
      BY <2>5 DEF TearDownEnds, AfterStop, Goto
    <3>2. s \in left[t] => s \in left'[t] \/ s = arg[t]
      BY <2>5 DEF TearDownEnds, AfterStop, Goto
    <3>3. pc[t] = "tear" /\ arg'[t] = arg[t]
      BY <2>5 DEF TearDownEnds, AfterStop, Goto
    <3>4. vm'[tgt[u][s]] = "running" => vm[tgt[u][s]] = "running"
      BY <3>1
    <3>5. CASE u # t
      BY <1>1, <3>1, <3>4, <3>5
    <3>6. CASE u = t /\ s = arg[t]
      BY <3>1, <3>6
    <3>7. CASE u = t /\ s # arg[t]
      BY <3>1, <3>2, <3>3, <3>4, <3>7
    <3> QED
      BY <3>5, <3>6, <3>7
  <2>6. CASE Clear(t)
    <3>1. /\ tgt'[u][s] = tgt[u][s]
          /\ UNCHANGED vm
          /\ u = t => s # arg[t]
      BY <2>6 DEF Clear, ClearRecords, box
    <3>2. u = t => (s \in left'[t] <=> s \in left[t]) /\ pc'[t] # "clear"
      BY <2>6, <3>1 DEF Clear, Goto, Return
    <3>3. u # t => left'[u] = left[u] /\ pc'[u] = pc[u] /\ arg'[u] = arg[u]
      BY <2>6 DEF Clear, Goto, Return
    <3> QED
      BY <3>1, <3>2, <3>3
  <2> QED
    BY <1>4, <2>1, <2>2, <2>3, <2>4, <2>5, <2>6, Zenon DEF StopperStep
<1>5. ASSUME StopAll
      PROVE  vm'[tgt'[u][s]] # "running"
  BY <1>5 DEF StopAll, Call, box
<1>6. ASSUME ClearAll
      PROVE  vm'[tgt'[u][s]] # "running"
  BY <1>6 DEF ClearAll, ClearRecords, Return, box
<1>7. ASSUME Reap
      PROVE  vm'[tgt'[u][s]] # "running"
  BY <1>7 DEF Reap, Call, box
<1>8. ASSUME NEW w \in Workers, WorkerStep(w)
      PROVE  vm'[tgt'[u][s]] # "running"
  <2>1. UNCHANGED <<vm, thr>>
    BY <1>8 DEF WorkerStep, LockedWorkerStep, box, Quiet, Receive, ServeRequest, ServeEnds,
        ReceiveFails, TakeReply, SendReply, SeeStop, HandlePrompt, HandleDone, ReportError,
        WorkerExit
  <2> QED
    BY <1>1, <2>1 DEF thr
<1>9. ASSUME NEW x \in Sessions, SeedState(x) \/ Age(x)
      PROVE  vm'[tgt'[u][s]] # "running"
  BY <1>1, <1>9 DEF SeedState, Age, box, thr
<1>10. ASSUME NEW b \in Sandboxes, Crash(b)
       PROVE  vm'[tgt'[u][s]] # "running"
  BY <1>1, <1>10 DEF Crash, thr
<1>11. CASE UNCHANGED vars
  BY <1>1, <1>11 DEF vars, box, thr
<1> QED
  BY <1>2, <1>3, <1>4, <1>5, <1>6, <1>7, <1>8, <1>9, <1>10, <1>11, Zenon DEF Next

\* A step that drops a sandbox from a record drops one that does not run.
LEMMA RunningStep ==
    TypeInv /\ StopLocals /\ StoppedTargets /\ NoRunningOrphan /\ [Next]_vars
        => NoRunningOrphan'
<1> SUFFICES ASSUME TypeInv, StopLocals, StoppedTargets, NoRunningOrphan, [Next]_vars,
                    NEW c \in Sandboxes, vm'[c] = "running"
             PROVE  \E s \in Sessions : sandbox'[s] = c
  BY DEF NoRunningOrphan, IsRunning
<1>0. Callers \subseteq Threads /\ Main \in Threads
  BY DEF Threads
<1>a. None \notin Sandboxes
  BY CoordinatorAssumption
<1> USE <1>0, <1>a DEF TypeInv, TypeOK, ArgOK, OrNone, StopLocals, StopLocal, StoppedTargets, IsRunning
<1>1. vm[c] = "running" => \E s \in Sessions : sandbox[s] = c
  BY DEF NoRunningOrphan
<1>2. ASSUME NEW t \in Callers, NEW b \in Sandboxes, BootFresh(t, b)
      PROVE  \E s \in Sessions : sandbox'[s] = c
  <2>1. CASE c = b
    BY <1>2, <2>1 DEF BootFresh
  <2>2. CASE c # b
    <3>1. PICK s \in Sessions : sandbox[s] = c
      BY <1>1, <1>2, <2>2 DEF BootFresh
    <3>2. s # arg[t]
      BY <1>2, <2>2, <3>1 DEF BootFresh, LiveSandbox
    <3> QED
      BY <1>2, <3>1, <3>2 DEF BootFresh
  <2> QED
    BY <2>1, <2>2
<1>3. ASSUME NEW t \in Callers, SendTaskFails(t)
      PROVE  \E s \in Sessions : sandbox'[s] = c
  <2>1. CASE pc[t] = "sendOld"
    BY <1>1, <1>3, <2>1 DEF SendTaskFails, box
  <2>2. CASE pc[t] = "sendNew"
    <3>1. /\ vm' = [vm EXCEPT ![sandbox[arg[t]]] = "none"]
          /\ sandbox' = [sandbox EXCEPT ![arg[t]] = None]
      BY <1>3, <2>2 DEF SendTaskFails
    <3>2. c # sandbox[arg[t]] /\ vm[c] = "running"
      BY <3>1
    <3> QED
      BY <1>1, <3>1, <3>2
  <2> QED
    BY <1>3, <2>1, <2>2 DEF SendTaskFails
<1>4. ASSUME NEW t \in Threads, Clear(t)
      PROVE  \E s \in Sessions : sandbox'[s] = c
  <2>1. PICK s \in Sessions : sandbox[s] = c
    BY <1>1, <1>4 DEF Clear, box
  <2>2. s = arg[t] => sandbox[s] # tgt[t][s]
    BY <1>4, <2>1 DEF Clear, box
  <2> QED
    BY <1>4, <2>1, <2>2 DEF Clear, ClearRecords
<1>5. ASSUME ClearAll
      PROVE  \E s \in Sessions : sandbox'[s] = c
  <2>1. PICK s \in Sessions : sandbox[s] = c
    BY <1>1, <1>5 DEF ClearAll, box
  <2>2. sandbox[s] # tgt[Main][s]
    BY <1>5, <2>1 DEF ClearAll, box
  <2> QED
    BY <1>5, <2>1, <2>2 DEF ClearAll, ClearRecords
<1>6. ASSUME UNCHANGED sandbox, vm[c] = "running"
      PROVE  \E s \in Sessions : sandbox'[s] = c
  BY <1>1, <1>6
<1>7. ASSUME NEW t \in Threads, NEW s \in Sessions, StopSandbox(t, s)
      PROVE  \E x \in Sessions : sandbox'[x] = c
  BY <1>6, <1>7 DEF StopSandbox, rec
<1>8. ASSUME NEW t \in Threads, TearDownEnds(t)
      PROVE  \E x \in Sessions : sandbox'[x] = c
  BY <1>6, <1>8 DEF TearDownEnds, rec
<1>9. ASSUME NEW b \in Sandboxes, Crash(b)
      PROVE  \E x \in Sessions : sandbox'[x] = c
  BY <1>6, <1>9 DEF Crash, rec
<1>10. ASSUME NEW t \in Callers, CallerStep(t)
       PROVE  UNCHANGED <<sandbox, vm>>
  BY <1>10 DEF CallerStep, StartRetiring, StartTask, SubmitReply, StopSession, rec, box
<1>11. ASSUME NEW t \in Callers, StarterStep(t), ~SendTaskFails(t), \A b \in Sandboxes : ~BootFresh(t, b)
       PROVE  UNCHANGED <<sandbox, vm>>
  BY <1>11 DEF StarterStep, Refuse, Admit, BootReuse, BootFails, SendTask, ReportStartError,
      PersistDone, PutReply, rec, box
<1>12. ASSUME NEW t \in Threads, StopperStep(t), ~Clear(t), ~TearDownEnds(t),
              \A s \in Sessions : ~StopSandbox(t, s)
       PROVE  UNCHANGED <<sandbox, vm>>
  BY <1>12 DEF StopperStep, WorkerStop, JoinReturns, AllJoined, StopReturnsAtOnce, rec, box
<1>13. ASSUME NEW w \in Workers, WorkerStep(w)
       PROVE  UNCHANGED <<sandbox, vm>>
  BY <1>13 DEF WorkerStep, LockedWorkerStep, rec, box, Quiet, Receive, ServeRequest, ServeEnds,
      ReceiveFails, TakeReply, SendReply, SeeStop, HandlePrompt, HandleDone, ReportError,
      PersistDone, WorkerExit
<1>14. ASSUME StopAll \/ Reap \/ \E s \in Sessions : SeedState(s) \/ Age(s)
       PROVE  UNCHANGED <<sandbox, vm>>
  BY <1>14 DEF StopAll, Reap, SeedState, Age, box
<1>15. CASE UNCHANGED <<sandbox, vm>>
  BY <1>6, <1>15
<1>16. CASE UNCHANGED vars
  BY <1>6, <1>16 DEF vars, rec, box
<1> QED
  BY <1>2, <1>3, <1>4, <1>5, <1>7, <1>8, <1>9, <1>10, <1>11, <1>12, <1>13, <1>14, <1>15, <1>16,
     Zenon DEF Next

\* A running sandbox is never lost: whoever clears or replaces a record's
\* sandbox has seen it dead or has stopped it.
THEOREM RunningSandboxesOwned == Spec => []NoRunningOrphan
<1>1. Init => StoppedTargets /\ NoRunningOrphan
  BY DEF Init, StoppedTargets, NoRunningOrphan, IsRunning, Nobody
<1> QED
  BY <1>1, TypeInit, TypeStep, StopLocalsInit, StopLocalsStep, StoppedTargetsStep, RunningStep,
     PTL DEF Spec

----------------------------------------------------------------------------
(* Capacity.                                                               *)

LockStages == {"boot", "sendOld", "sendNew"}

\* The lock is kept by the thread that boots a sandbox or sends it its task.
LockInv == \A t \in Threads : pc[t] \in LockStages <=> lock = t

\* The sessions that use capacity, and the one that has been promised some
Holders == Active \cup IF lock = None THEN {} ELSE {arg[lock]}

CapacityInv == Cardinality(Holders) <= MaxActive

\* start_task takes the lock when it admits a task and gives it up when it
\* has a worker or has failed; no other call keeps it.
LEMMA LockStep == TypeInv /\ LockInv /\ [Next]_vars => LockInv'
<1> SUFFICES ASSUME TypeInv, LockInv, [Next]_vars, NEW u \in Threads
             PROVE  pc'[u] \in LockStages <=> lock' = u
  BY DEF LockInv
<1>0. Callers \subseteq Threads /\ Main \in Threads /\ Reaper \in Threads /\ None \notin Threads
  BY CoordinatorAssumption DEF Threads
<1> USE <1>0 DEF TypeInv, TypeOK
<1>1. pc[u] \in LockStages <=> lock = u
  BY DEF LockInv
<1>2. ASSUME NEW t \in Threads, pc[t] \notin LockStages, NEW stage, stage \notin LockStages,
             pc' = [pc EXCEPT ![t] = stage], lock' = lock
      PROVE  pc'[u] \in LockStages <=> lock' = u
  BY <1>1, <1>2
<1>3. ASSUME NEW t \in Threads, pc[t] \in LockStages, NEW stage \in LockStages,
             pc' = [pc EXCEPT ![t] = stage], lock' = lock
      PROVE  pc'[u] \in LockStages <=> lock' = u
  BY <1>1, <1>3
<1>4. ASSUME NEW t \in Threads, pc[t] \in LockStages, NEW stage, stage \notin LockStages,
             pc' = [pc EXCEPT ![t] = stage], lock' = None
      PROVE  pc'[u] \in LockStages <=> lock' = u
  <2>1. lock = t
    BY <1>4 DEF LockInv
  <2> QED
    BY <1>1, <1>4, <2>1
<1>5. ASSUME NEW t \in Callers, CallerStep(t)
      PROVE  pc'[u] \in LockStages <=> lock' = u
  <2>1. pc[t] \notin LockStages /\ lock' = lock
    BY <1>5 DEF CallerStep, StartRetiring, StartTask, SubmitReply, StopSession, LockStages
  <2>2. \E stage \in {"next", "admit", "put", "join"} : pc' = [pc EXCEPT ![t] = stage]
    BY <1>5 DEF CallerStep, StartRetiring, StartTask, SubmitReply, StopSession, Call
  <2> QED
    BY <1>2, <2>1, <2>2 DEF LockStages
<1>6. ASSUME NEW t \in Callers, StarterStep(t)
      PROVE  pc'[u] \in LockStages <=> lock' = u
  <2>1. CASE Refuse(t)
    BY <1>2, <2>1 DEF Refuse, Return, LockStages
  <2>2. CASE Admit(t)
    BY <1>1, <2>2 DEF Admit, Goto, LockStages
  <2>3. CASE BootReuse(t)
    BY <1>3, <2>3 DEF BootReuse, Goto, LockStages
  <2>4. ASSUME NEW b \in Sandboxes, BootFresh(t, b)
        PROVE  pc'[u] \in LockStages <=> lock' = u
    BY <1>3, <2>4 DEF BootFresh, Goto, LockStages
  <2>5. CASE BootFails(t)
    BY <1>4, <2>5 DEF BootFails, AbortStart, Goto, LockStages
  <2>6. ASSUME NEW w \in Workers, SendTask(t, w)
        PROVE  pc'[u] \in LockStages <=> lock' = u
    BY <1>4, <2>6 DEF SendTask, Return, LockStages
  <2>7. CASE SendTaskFails(t)
    <3>1. pc[t] \in LockStages
      BY <2>7 DEF SendTaskFails, LockStages
    <3>2. lock' = None /\ pc' = [pc EXCEPT ![t] = "failed"]
      BY <2>7 DEF SendTaskFails, AbortStart, Goto
    <3> QED
      BY <1>4, <3>1, <3>2 DEF LockStages
  <2>8. ASSUME NEW o \in ErrorOutcomes, ReportStartError(t, o)
        PROVE  pc'[u] \in LockStages <=> lock' = u
    BY <1>2, <2>8 DEF ReportStartError, Return, LockStages
  <2>9. ASSUME NEW w \in Workers, PutReply(t, w)
        PROVE  pc'[u] \in LockStages <=> lock' = u
    BY <1>2, <2>9 DEF PutReply, Return, LockStages
  <2> QED
    BY <1>6, <2>1, <2>2, <2>3, <2>4, <2>5, <2>6, <2>7, <2>8, <2>9, Zenon DEF StarterStep
<1>7. ASSUME NEW t \in Threads, StopperStep(t)
      PROVE  pc'[u] \in LockStages <=> lock' = u
  <2>1. ASSUME NEW w \in Workers, WorkerStop(t, w) \/ JoinReturns(t, w)
        PROVE  pc'[u] \in LockStages <=> lock' = u
    BY <1>1, <2>1 DEF WorkerStop, JoinReturns, thr
  <2>2. CASE AllJoined(t)
    BY <1>2, <2>2 DEF AllJoined, Goto, LockStages
  <2>3. ASSUME NEW s \in Sessions, StopReturnsAtOnce(t, s)
        PROVE  pc'[u] \in LockStages <=> lock' = u
    <3>1. \E stage \in {"next", "clear"} : pc' = [pc EXCEPT ![t] = stage]
      BY <2>3 DEF StopReturnsAtOnce, AfterStop, Goto
    <3> QED
      BY <1>2, <2>3, <3>1 DEF StopReturnsAtOnce, LockStages
  <2>4. ASSUME NEW s \in Sessions, StopSandbox(t, s)
        PROVE  pc'[u] \in LockStages <=> lock' = u
    BY <1>2, <2>4 DEF StopSandbox, LockStages
  <2>5. CASE TearDownEnds(t)
    <3>1. \E stage \in {"next", "clear"} : pc' = [pc EXCEPT ![t] = stage]
      BY <2>5 DEF TearDownEnds, AfterStop, Goto
    <3> QED
      BY <1>2, <2>5, <3>1 DEF TearDownEnds, LockStages
  <2>6. CASE Clear(t)
    <3>1. \E stage \in {"next", "admit", "idle"} : pc' = [pc EXCEPT ![t] = stage]
      BY <2>6 DEF Clear, Goto, Return
    <3> QED
      BY <1>2, <2>6, <3>1 DEF Clear, LockStages
  <2> QED
    BY <1>7, <2>1, <2>2, <2>3, <2>4, <2>5, <2>6, Zenon DEF StopperStep
<1>8. CASE StopAll
  BY <1>2, <1>8 DEF StopAll, Call, LockStages
<1>9. CASE ClearAll
  BY <1>2, <1>9 DEF ClearAll, Return, LockStages
<1>10. CASE Reap
  BY <1>2, <1>10 DEF Reap, Call, LockStages
<1>11. ASSUME NEW w \in Workers, WorkerStep(w)
       PROVE  UNCHANGED <<pc, lock>>
  BY <1>11 DEF WorkerStep, LockedWorkerStep, thr, Quiet, Receive, ServeRequest, ServeEnds,
      ReceiveFails, TakeReply, SendReply, SeeStop, HandlePrompt, HandleDone, ReportError, WorkerExit
<1>12. ASSUME \/ \E s \in Sessions : SeedState(s) \/ Age(s)
              \/ \E b \in Sandboxes : Crash(b)
       PROVE  UNCHANGED <<pc, lock>>
  BY <1>12 DEF SeedState, Age, Crash, thr
<1>13. CASE UNCHANGED <<pc, lock>>
  BY <1>1, <1>13
<1>14. CASE UNCHANGED vars
  BY <1>1, <1>14 DEF vars, thr
<1> QED
  BY <1>5, <1>6, <1>7, <1>8, <1>9, <1>10, <1>11, <1>12, <1>13, <1>14, Zenon DEF Next

\* A step that makes no worker live and no sandbox run, and does not take the
\* lock, gives no session capacity that it did not have.
NoNewHolder ==
    /\ \A s \in Sessions : worker'[s] \in {worker[s], None}
    /\ \A w \in Workers : wpc'[w] # "free" => wpc[w] # "free"
    /\ \A s \in Sessions : sandbox'[s] \in {sandbox[s], None}
    /\ \A b \in Sandboxes : vm'[b] = "running" => vm[b] = "running"
    /\ lock' # None => lock' = lock /\ arg'[lock] = arg[lock]

\* The sessions that hold capacity are sessions, and finitely many.
LEMMA HoldersFinite ==
    ASSUME TypeInv, LockInv
    PROVE  Holders \subseteq Sessions /\ IsFiniteSet(Holders) /\ Cardinality(Holders) \in Nat
<1>0. Callers \subseteq Threads /\ None \notin Threads
  BY CoordinatorAssumption DEF Threads
<1>1. Active \subseteq Sessions
  BY DEF Active
<1>2. lock # None => arg[lock] \in Sessions
  BY <1>0 DEF TypeInv, TypeOK, ArgOK, OrNone, LockInv, LockStages
<1>3. Holders \subseteq Sessions
  BY <1>1, <1>2 DEF Holders
<1> QED
  BY <1>3, FS_Subset, FS_CardinalityType, CoordinatorAssumption

\* Without a new holder, the capacity in use does not grow.
LEMMA NoNewHolderKeepsCapacity ==
    ASSUME TypeInv, LockInv, NoNewHolder, CapacityInv
    PROVE  CapacityInv'
<1>1. Active' \subseteq Active
  <2> SUFFICES ASSUME NEW s \in Sessions, LiveWorker(s)' \/ (Fire /\ LiveSandbox(s)')
               PROVE  LiveWorker(s) \/ (Fire /\ LiveSandbox(s))
    BY DEF Active
  <2> USE DEF NoNewHolder, TypeInv, TypeOK, OrNone
  <2>1. LiveWorker(s)' => LiveWorker(s)
    BY DEF LiveWorker, Alive
  <2>2. LiveSandbox(s)' => LiveSandbox(s)
    BY DEF LiveSandbox, IsRunning
  <2> QED
    BY <2>1, <2>2
<1>2. Holders' \subseteq Holders
  BY <1>1 DEF Holders, NoNewHolder
<1>3. Cardinality(Holders') <= Cardinality(Holders) /\ Cardinality(Holders') \in Nat
  BY <1>2, HoldersFinite, FS_Subset, FS_CardinalityType
<1> QED
  BY <1>3, HoldersFinite, CoordinatorAssumption DEF CapacityInv

\* Admission, under the lock, leaves room for the session it admits: what it
\* counts includes every session that holds capacity.
LEMMA AdmitKeepsCapacity ==
    ASSUME TypeInv, LockInv, CapacityInv, NEW t \in Callers, Admit(t)
    PROVE  CapacityInv'
<1> DEFINE counted == {s \in Sessions : CountsTowardCapacity(s)}
<1>0. Callers \subseteq Threads /\ None \notin Threads
  BY CoordinatorAssumption DEF Threads
<1>1. Active' = Active
  BY DEF Admit, Active, LiveWorker, LiveSandbox, Alive, IsRunning, rec, box, wrk
<1>2. Holders = Active /\ Holders' = Active \cup {arg[t]}
  BY <1>0, <1>1 DEF Admit, Holders, Goto
<1>3. arg[t] \in Sessions
  BY <1>0 DEF Admit, TypeInv, ArgOK
<1>4. CASE CountsTowardCapacity(arg[t])
  <2>1. arg[t] \in Active
    BY <1>3, <1>4 DEF Admit, Busy, CountsTowardCapacity, Active
  <2> QED
    BY <1>2, <2>1 DEF CapacityInv
<1>5. CASE ~CountsTowardCapacity(arg[t])
  <2>1. Active \subseteq counted /\ arg[t] \notin counted /\ counted \subseteq Sessions
    BY <1>5 DEF Active, CountsTowardCapacity
  <2>2. IsFiniteSet(counted) /\ Cardinality(counted) \in Nat
    BY <2>1, FS_Subset, FS_CardinalityType, CoordinatorAssumption
  <2>3. ~(Cardinality(counted) >= MaxActive)
    BY <1>5 DEF Admit, AtCapacity, ActiveSessionCount
  <2>4. IsFiniteSet(counted \cup {arg[t]})
        /\ Cardinality(counted \cup {arg[t]}) = Cardinality(counted) + 1
    BY <2>1, <2>2, FS_AddElement
  <2>5. Active \cup {arg[t]} \subseteq counted \cup {arg[t]}
    BY <2>1
  <2>6. Cardinality(Holders') <= Cardinality(counted) + 1
    BY <1>2, <2>4, <2>5, FS_Subset
  <2>7. Cardinality(Holders') \in Nat
    BY <1>2, <2>4, <2>5, FS_Subset, FS_CardinalityType
  <2> QED
    BY <2>2, <2>3, <2>6, <2>7, CoordinatorAssumption DEF CapacityInv
<1> QED
  BY <1>4, <1>5

\* A booted sandbox and a new worker belong to the admitted session.
LEMMA BootKeepsCapacity ==
    ASSUME TypeInv, LockInv, CapacityInv, NEW t \in Callers,
           \/ \E b \in Sandboxes : BootFresh(t, b)
           \/ \E w \in Workers : SendTask(t, w)
    PROVE  CapacityInv'
<1>0. Callers \subseteq Threads /\ None \notin Threads /\ None \notin Workers /\ None \notin Sandboxes
  BY CoordinatorAssumption DEF Threads
<1>1. lock = t /\ t # None
  BY <1>0 DEF LockInv, LockStages, BootFresh, SendTask
<1>2. arg[t] \in Holders /\ Active \subseteq Holders
  BY <1>1 DEF Holders
<1>3. \A s \in Sessions : s # arg[t] /\ s \in Active' => s \in Active
  <2> SUFFICES ASSUME NEW s \in Sessions, s # arg[t], LiveWorker(s)' \/ (Fire /\ LiveSandbox(s)')
               PROVE  LiveWorker(s) \/ (Fire /\ LiveSandbox(s))
    BY DEF Active
  <2> USE <1>0 DEF TypeInv, TypeOK, ArgOK, OrNone, LiveWorker, LiveSandbox, Alive, IsRunning
  <2>1. ASSUME NEW b \in Sandboxes, BootFresh(t, b)
        PROVE  LiveWorker(s) \/ (Fire /\ LiveSandbox(s))
    BY <2>1 DEF BootFresh, UnusedSandbox, wrk
  <2>2. ASSUME NEW w \in Workers, SendTask(t, w)
        PROVE  LiveWorker(s) \/ (Fire /\ LiveSandbox(s))
    BY <2>2 DEF SendTask, UnusedWorker, box
  <2> QED
    BY <2>1, <2>2
<1>4. lock' # None => lock' = t /\ arg'[t] = arg[t]
  BY <1>1 DEF BootFresh, SendTask, Goto
<1>5. Active' \subseteq Sessions
  BY DEF Active
<1>6. Holders' \subseteq Holders
  BY <1>2, <1>3, <1>4, <1>5 DEF Holders
<1>7. Cardinality(Holders') <= Cardinality(Holders) /\ Cardinality(Holders') \in Nat
  BY <1>6, HoldersFinite, FS_Subset, FS_CardinalityType
<1> QED
  BY <1>7, HoldersFinite, CoordinatorAssumption DEF CapacityInv

\* No step takes the capacity beyond its bound.
LEMMA CapacityStep == TypeInv /\ LockInv /\ CapacityInv /\ [Next]_vars => CapacityInv'
<1> SUFFICES ASSUME TypeInv, LockInv, CapacityInv, [Next]_vars
             PROVE  CapacityInv'
  OBVIOUS
<1>0. /\ Callers \subseteq Threads /\ Main \in Threads /\ Reaper \in Threads
      /\ None \notin Threads /\ Main # lock /\ Reaper # lock
  BY CoordinatorAssumption DEF Threads, TypeInv, TypeOK, OrNone
<1>1. ASSUME NEW t \in Callers, CallerStep(t)
      PROVE  NoNewHolder
  BY <1>0, <1>1 DEF NoNewHolder, CallerStep, StartRetiring, StartTask, SubmitReply, StopSession,
      TypeInv, TypeOK, rec, box, wrk
<1>2. ASSUME NEW t \in Callers, StarterStep(t), ~Admit(t),
             \A b \in Sandboxes : ~BootFresh(t, b), \A w \in Workers : ~SendTask(t, w)
      PROVE  NoNewHolder
  <2> USE <1>0 DEF NoNewHolder, TypeInv, TypeOK
  <2>1. CASE Refuse(t)
    BY <2>1 DEF Refuse, rec, box, wrk
  <2>2. CASE BootReuse(t)
    BY <2>2 DEF BootReuse, Goto, rec, box, wrk
  <2>3. CASE BootFails(t)
    BY <2>3 DEF BootFails, AbortStart, box, wrk
  <2>4. CASE SendTaskFails(t)
    BY <2>4 DEF SendTaskFails, AbortStart, box, wrk
  <2>5. ASSUME NEW o \in ErrorOutcomes, ReportStartError(t, o)
        PROVE  NoNewHolder
    BY <2>5 DEF ReportStartError, PersistDone, box, wrk
  <2>6. ASSUME NEW w \in Workers, PutReply(t, w)
        PROVE  NoNewHolder
    <3>1. lock # t
      BY <2>6 DEF PutReply, LockInv, LockStages
    <3> QED
      BY <2>6, <3>1 DEF PutReply, Return, rec, box
  <2> QED
    BY <1>2, <2>1, <2>2, <2>3, <2>4, <2>5, <2>6, Zenon DEF StarterStep
<1>3. ASSUME NEW t \in Threads, StopperStep(t)
      PROVE  NoNewHolder
  <2> USE <1>0 DEF NoNewHolder, TypeInv, TypeOK
  <2>1. lock # None => lock # t /\ lock \in Threads
    BY <1>3 DEF LockInv, LockStages, StopperStep, WorkerStop, JoinReturns, AllJoined,
        StopReturnsAtOnce, StopSandbox, TearDownEnds, Clear, OrNone
  <2>2. lock' = lock /\ (lock # None => arg'[lock] = arg[lock])
    BY <1>3, <2>1 DEF StopperStep, WorkerStop, JoinReturns, AllJoined, StopReturnsAtOnce,
        StopSandbox, TearDownEnds, Clear, AfterStop, Goto, Return, thr
  <2>3. UNCHANGED worker /\ UNCHANGED wpc
    BY <1>3 DEF StopperStep, WorkerStop, JoinReturns, AllJoined, StopReturnsAtOnce,
        StopSandbox, TearDownEnds, Clear, ClearRecords, rec, wrk
  <2>4. ASSUME NEW s \in Sessions
        PROVE  sandbox'[s] \in {sandbox[s], None}
    <3>1. CASE Clear(t)
      BY <3>1 DEF Clear, ClearRecords
    <3>2. CASE UNCHANGED sandbox
      BY <3>2
    <3> QED
      BY <1>3, <3>1, <3>2 DEF StopperStep, WorkerStop, JoinReturns, AllJoined, StopReturnsAtOnce,
          StopSandbox, TearDownEnds, rec
  <2>5. ASSUME NEW b \in Sandboxes, vm'[b] = "running"
        PROVE  vm[b] = "running"
    <3>1. CASE UNCHANGED vm
      BY <2>5, <3>1
    <3>2. ASSUME NEW s \in Sessions, StopSandbox(t, s)
          PROVE  vm[b] = "running"
      <4>1. vm'[b] = vm[b] \/ vm'[b] = "stopping"
        BY <3>2 DEF StopSandbox
      <4> QED
        BY <2>5, <4>1
    <3>3. CASE TearDownEnds(t)
      <4>1. vm'[b] = vm[b] \/ vm'[b] = "none"
        BY <3>3 DEF TearDownEnds
      <4> QED
        BY <2>5, <4>1
    <3> QED
      BY <1>3, <3>1, <3>2, <3>3 DEF StopperStep, WorkerStop, JoinReturns, AllJoined,
          StopReturnsAtOnce, Clear, box
  <2> QED
    BY <2>2, <2>3, <2>4, <2>5
<1>4. ASSUME StopAll \/ ClearAll \/ Reap
      PROVE  NoNewHolder
  <2> USE <1>0 DEF TypeInv, TypeOK
  <2>1. UNCHANGED <<wpc, vm, lock>>
    BY <1>4 DEF StopAll, ClearAll, Reap, box, wrk
  <2>2. lock # None => arg'[lock] = arg[lock]
    BY <1>4 DEF StopAll, ClearAll, Reap, Call, Return, OrNone
  <2>3. ASSUME NEW s \in Sessions
        PROVE  worker'[s] \in {worker[s], None} /\ sandbox'[s] \in {sandbox[s], None}
    <3>1. CASE StopAll
      BY <3>1 DEF StopAll, Nobody
    <3>2. CASE ClearAll
      BY <3>2 DEF ClearAll, ClearRecords
    <3>3. CASE Reap
      BY <3>3 DEF Reap
    <3> QED
      BY <1>4, <3>1, <3>2, <3>3
  <2> QED
    BY <2>1, <2>2, <2>3 DEF NoNewHolder
<1>5. ASSUME NEW w \in Workers, WorkerStep(w)
      PROVE  NoNewHolder
  <2>1. UNCHANGED <<sandbox, vm, lock, arg>> /\ \A s \in Sessions : worker'[s] \in {worker[s], None}
    BY <1>5 DEF WorkerStep, LockedWorkerStep, rec, box, thr, Quiet, Receive, ServeRequest, ServeEnds,
        ReceiveFails, TakeReply, SendReply, SeeStop, HandlePrompt, HandleDone, ReportError,
        PersistDone, WorkerExit, TypeInv, TypeOK
  <2>2. wpc[w] # "free" /\ \A v \in Workers : v # w => wpc'[v] = wpc[v]
    BY <1>5 DEF WorkerStep, LockedWorkerStep, Receive, ServeRequest, ServeEnds, WorkerGoes,
        ReceiveFails, TakeReply, SendReply, SeeStop, HandlePrompt, HandleDone, ReportError,
        WorkerExit, TypeInv, TypeOK
  <2> QED
    BY <2>1, <2>2 DEF NoNewHolder
<1>6. ASSUME \/ \E s \in Sessions : SeedState(s) \/ Age(s)
             \/ \E b \in Sandboxes : Crash(b)
             \/ UNCHANGED vars
      PROVE  NoNewHolder
  BY <1>6 DEF NoNewHolder, SeedState, Age, Crash, TypeInv, TypeOK, vars, rec, box, wrk, thr
<1>7. ASSUME NEW t \in Callers, Admit(t)
      PROVE  CapacityInv'
  BY <1>7, AdmitKeepsCapacity
<1>8. ASSUME NEW t \in Callers,
             (\E b \in Sandboxes : BootFresh(t, b)) \/ (\E w \in Workers : SendTask(t, w))
      PROVE  CapacityInv'
  BY <1>8, BootKeepsCapacity
<1>9. CASE NoNewHolder
  BY <1>9, NoNewHolderKeepsCapacity
<1> QED
  BY <1>1, <1>2, <1>3, <1>4, <1>5, <1>6, <1>7, <1>8, <1>9, Zenon DEF Next

\* The coordinator never has more than max_active_sessions sessions with a
\* worker or a VM, for any number of sessions and adapter threads: the lock
\* that start_task keeps from its count to its new worker is what it takes.
THEOREM CapacityBounded == Spec => []CapacityRespected
<1>1. Init => LockInv /\ CapacityInv
  <2> SUFFICES ASSUME Init PROVE LockInv /\ CapacityInv
    OBVIOUS
  <2>1. LockInv
    BY CoordinatorAssumption DEF Init, LockInv, LockStages
  <2>2. Holders = {}
    BY DEF Init, Holders, Active, LiveWorker, LiveSandbox, Nobody
  <2> QED
    BY <2>1, <2>2, FS_EmptySet, CoordinatorAssumption DEF CapacityInv
<1>2. TypeInv /\ LockInv /\ CapacityInv => CapacityRespected
  <2> SUFFICES ASSUME TypeInv, LockInv, CapacityInv PROVE CapacityRespected
    OBVIOUS
  <2>1. Active \subseteq Holders
    BY DEF Holders
  <2> QED
    BY <2>1, HoldersFinite, FS_Subset, FS_CardinalityType, CoordinatorAssumption
    DEF CapacityInv, CapacityRespected
<1> QED
  BY <1>1, <1>2, TypeInit, TypeStep, LockStep, CapacityStep, PTL DEF Spec


=============================================================================
