------------------------ MODULE CoordinatorTaskProofs ------------------------
(***************************************************************************)
(* Theorems about the tasks that the coordinator runs: how their ends are  *)
(* reported, what stays of their sandboxes, and who may answer them.       *)
(***************************************************************************)
EXTENDS CoordinatorProofs

----------------------------------------------------------------------------
(* The end of a task.                                                      *)

\* A worker has told the adapter of the end of its task when it leaves of its
\* own accord, and not before; only a worker that was stopped has a pill.
WorkerTells(w) ==
    /\ wpc[w] = "free" => inbox[w] = <<>> /\ ~wstop[w]
    /\ told[w] = 0 \/ (told[w] = 1 /\ wpc[w] = "exit")
    /\ wpc[w] = "exit" /\ ~wstop[w] => told[w] = 1
    /\ wstop[w] \/ inbox[w] \in Seq({"reply"})

TellInv == \A w \in Workers : WorkerTells(w)

\* No step makes a worker leave silently, or tell of an end twice.
LEMMA TellStep == StateIsSaved /\ TypeInv /\ TellInv /\ [Next]_vars => TellInv'
<1> SUFFICES ASSUME StateIsSaved, TypeInv, TellInv, [Next]_vars, NEW w \in Workers
             PROVE  WorkerTells(w)'
  BY DEF TellInv
<1>0. TypeOK /\ WorkerTells(w) /\ ErrorOutcomes = {"ok"}
  BY DEF TypeInv, TellInv, StateIsSaved, ErrorOutcomes
<1> USE <1>0 DEF TypeOK, WorkerTells
<1>1. ASSUME UNCHANGED <<wpc, wstop, inbox, told>> PROVE WorkerTells(w)'
  BY <1>1
<1>2. ASSUME NEW t \in Callers, NEW x \in Workers, SendTask(t, x) PROVE WorkerTells(w)'
  BY <1>2 DEF SendTask, Return, UnusedWorker, Alive
<1>3. ASSUME NEW t \in Callers, NEW x \in Workers, PutReply(t, x) PROVE WorkerTells(w)'
  <2>1. CASE x = w /\ Alive(w)
    BY <1>3, <2>1 DEF PutReply, Alive
  <2>2. CASE x # w \/ ~Alive(w)
    BY <1>3, <2>2 DEF PutReply
  <2> QED
    BY <2>1, <2>2
<1>4. ASSUME NEW t \in Threads, NEW x \in Workers, WorkerStop(t, x) PROVE WorkerTells(w)'
  BY <1>4 DEF WorkerStop, Alive
<1>5. ASSUME NEW x \in Workers, NEW e \in Roles \cup {"done"}, Receive(x, e) PROVE WorkerTells(w)'
  BY <1>5 DEF Receive, WorkerGoes, Quiet
<1>6. ASSUME NEW x \in Workers, ServeRequest(x) PROVE WorkerTells(w)'
  BY <1>6 DEF ServeRequest, WorkerGoes, Quiet
<1>7. ASSUME NEW x \in Workers, ServeEnds(x) PROVE WorkerTells(w)'
  BY <1>7 DEF ServeEnds, WorkerGoes, Quiet
<1>8. ASSUME NEW x \in Workers, ReceiveFails(x) PROVE WorkerTells(w)'
  BY <1>8 DEF ReceiveFails, WorkerGoes, Quiet
<1>9. ASSUME NEW x \in Workers, TakeReply(x) PROVE WorkerTells(w)'
  <2>1. CASE x = w
    BY <1>9, <2>1 DEF TakeReply, WorkerGoes
  <2>2. CASE x # w
    BY <1>9, <2>2 DEF TakeReply, WorkerGoes
  <2> QED
    BY <2>1, <2>2
<1>10. ASSUME NEW x \in Workers, SendReply(x) PROVE WorkerTells(w)'
  BY <1>10 DEF SendReply, WorkerGoes, Quiet
<1>11. ASSUME NEW x \in Workers, SeeStop(x) PROVE WorkerTells(w)'
  BY <1>11 DEF SeeStop, WorkerGoes, Quiet
<1>12. ASSUME NEW x \in Workers, HandlePrompt(x) PROVE WorkerTells(w)'
  BY <1>12 DEF HandlePrompt, WorkerGoes
<1>13. ASSUME NEW x \in Workers, NEW o \in DoneOutcomes, HandleDone(x, o) PROVE WorkerTells(w)'
  BY <1>13 DEF HandleDone, PersistDone
<1>14. ASSUME NEW x \in Workers, NEW o \in ErrorOutcomes, ReportError(x, o) PROVE WorkerTells(w)'
  BY <1>14 DEF ReportError, PersistDone
<1>15. ASSUME NEW x \in Workers, WorkerExit(x) PROVE WorkerTells(w)'
  BY <1>15 DEF WorkerExit
<1>16. ASSUME NEW t \in Callers, NEW s \in Sessions, StartRetiring(t, s) \/ StartTask(t, s) \/
   SubmitReply(t, s)
      PROVE  UNCHANGED <<wpc, wstop, inbox, told>>
  BY <1>16 DEF StartRetiring, Call, StartTask, SubmitReply, rec, box, wrk, thr
<1>17. ASSUME NEW t \in Callers, NEW s \in Stoppable, StopSession(t, s)
      PROVE  UNCHANGED <<wpc, wstop, inbox, told>>
  BY <1>17 DEF StopSession, Call, rec, box, wrk, thr
<1>18. ASSUME NEW t \in Callers, Refuse(t) \/ Admit(t) \/ BootReuse(t) \/ BootFails(t) \/
   SendTaskFails(t)
      PROVE  UNCHANGED <<wpc, wstop, inbox, told>>
  BY <1>18 DEF Refuse, Return, Admit, Goto, BootReuse, BootFails, AbortStart, SendTaskFails, rec,
     box, wrk, thr
<1>19. ASSUME NEW t \in Callers, NEW b \in Sandboxes, BootFresh(t, b)
      PROVE  UNCHANGED <<wpc, wstop, inbox, told>>
  BY <1>19 DEF BootFresh, Goto, rec, box, wrk, thr
<1>20. ASSUME NEW t \in Callers, NEW o \in ErrorOutcomes, ReportStartError(t, o)
      PROVE  UNCHANGED <<wpc, wstop, inbox, told>>
  BY <1>20 DEF ReportStartError, PersistDone, Return, rec, box, wrk, thr
<1>21. ASSUME NEW t \in Threads, NEW x \in Workers, JoinReturns(t, x)
      PROVE  UNCHANGED <<wpc, wstop, inbox, told>>
  BY <1>21 DEF JoinReturns, rec, box, wrk, thr
<1>22. ASSUME NEW t \in Threads, AllJoined(t) \/ TearDownEnds(t) \/ Clear(t)
      PROVE  UNCHANGED <<wpc, wstop, inbox, told>>
  BY <1>22 DEF AllJoined, Goto, TearDownEnds, AfterStop, Clear, ClearRecords, Return, rec, box,
     wrk, thr
<1>23. ASSUME NEW t \in Threads, NEW s \in Sessions, StopReturnsAtOnce(t, s) \/ StopSandbox(t, s)
      PROVE  UNCHANGED <<wpc, wstop, inbox, told>>
  BY <1>23 DEF StopReturnsAtOnce, AfterStop, Goto, StopSandbox, rec, box, wrk, thr
<1>24. ASSUME StopAll \/ ClearAll \/ Reap
      PROVE  UNCHANGED <<wpc, wstop, inbox, told>>
  BY <1>24 DEF StopAll, Call, ClearAll, ClearRecords, Return, Reap, rec, box, wrk, thr
<1>25. ASSUME NEW s \in Sessions, SeedState(s) \/ Age(s)
      PROVE  UNCHANGED <<wpc, wstop, inbox, told>>
  BY <1>25 DEF SeedState, Age, rec, box, wrk, thr
<1>26. ASSUME NEW b \in Sandboxes, Crash(b)
      PROVE  UNCHANGED <<wpc, wstop, inbox, told>>
  BY <1>26 DEF Crash, rec, box, wrk, thr
<1>27. CASE UNCHANGED vars
  BY <1>1, <1>27 DEF vars, rec, box, wrk, thr
<1> QED
  BY <1>1, <1>2, <1>3, <1>4, <1>5, <1>6, <1>7, <1>8, <1>9, <1>10, <1>11, <1>12, <1>13, <1>14,
     <1>15, <1>16, <1>17, <1>18, <1>19, <1>20, <1>21, <1>22, <1>23, <1>24, <1>25, <1>26, <1>27,
     Zenon
  DEF Next, CallerStep, StarterStep, StopperStep, WorkerStep, LockedWorkerStep

\* A task that has a worker is ended for the adapter exactly once: whatever
\* fails on the way, as long as state.json can be written, and however the
\* worker is stopped meanwhile.
THEOREM EveryEndToldOnce ==
    ASSUME StateIsSaved
    PROVE  Spec => []DoneOnce
<1>1. Init => TellInv
  BY DEF Init, TellInv, WorkerTells
<1>2. TellInv => DoneOnce
  BY DEF TellInv, WorkerTells, DoneOnce
<1>3. StateIsSaved
  OBVIOUS
<1>4. TypeInv /\ TellInv /\ [Next]_vars => (TypeInv /\ TellInv)'
  BY <1>3, TypeStep, TellStep
<1> QED
  BY <1>1, <1>2, <1>4, TypeInit, PTL DEF Spec

\* One session's share of MemoryMatchesDisk
Matches(s) == latest[s] # "none" /\ ~ErrorDue(s) => latest[s] = disk[s]

\* What a done event leaves in memory is on disk, or an error is due.
LEMMA PersistDoneMatches ==
    ASSUME TypeInv, NEW r, NEW state, NEW outcome, PersistDone(r, state, outcome), NEW s \in Sessions
    PROVE  /\ s = r /\ outcome = "ok" => latest'[s] = disk'[s]
           /\ s # r => latest'[s] = latest[s] /\ disk'[s] = disk[s]
BY DEF TypeInv, TypeOK, PersistDone

\* No step lets memory and disk part without an error that is due.
LEMMA MatchesStep ==
    StateIsSaved /\ TypeInv /\ MemoryMatchesDisk /\ [Next]_vars => MemoryMatchesDisk'
<1> SUFFICES ASSUME StateIsSaved, TypeInv, MemoryMatchesDisk, [Next]_vars, NEW s \in Sessions
             PROVE  Matches(s)'
  BY DEF MemoryMatchesDisk, Matches
<1>0. /\ TypeOK /\ Matches(s) /\ ErrorOutcomes = {"ok"} /\ DoneOutcomes \subseteq {"ok", "nofiles"}
      /\ Callers \subseteq Threads
  BY CoordinatorAssumption
  DEF TypeInv, MemoryMatchesDisk, Matches, StateIsSaved, ErrorOutcomes, DoneOutcomes, Threads
<1> USE <1>0 DEF TypeOK, Matches, ErrorDue
<1>1. ASSUME UNCHANGED <<latest, disk, wpc, wsess, pc, arg>> PROVE Matches(s)'
  BY <1>1
<1>2. ASSUME NEW t \in Callers, NEW r \in Sessions, StartRetiring(t, r) PROVE Matches(s)'
  BY <1>2 DEF StartRetiring, Call, wrk
<1>3. ASSUME NEW t \in Callers, NEW r \in Sessions, StartTask(t, r) PROVE Matches(s)'
  BY <1>3 DEF StartTask, Call, rec, wrk
<1>4. ASSUME NEW t \in Callers, NEW r \in Sessions, SubmitReply(t, r) PROVE Matches(s)'
  BY <1>4 DEF SubmitReply, Call, wrk
<1>5. ASSUME NEW t \in Callers, NEW r \in Stoppable, StopSession(t, r) PROVE Matches(s)'
  BY <1>5 DEF StopSession, Call, wrk
<1>6. ASSUME NEW t \in Callers, Refuse(t) PROVE Matches(s)'
  BY <1>6 DEF Refuse, Return, rec, wrk
<1>7. ASSUME NEW t \in Callers, Admit(t) PROVE Matches(s)'
  BY <1>7 DEF Admit, Goto, rec, wrk
<1>8. ASSUME NEW t \in Callers, BootReuse(t) PROVE Matches(s)'
  BY <1>8 DEF BootReuse, Goto, rec, wrk
<1>9. ASSUME NEW t \in Callers, NEW b \in Sandboxes, BootFresh(t, b) PROVE Matches(s)'
  BY <1>9 DEF BootFresh, Goto, wrk
<1>10. ASSUME NEW t \in Callers, BootFails(t) PROVE Matches(s)'
  BY <1>10 DEF BootFails, AbortStart, Goto, wrk
<1>11. ASSUME NEW t \in Callers, NEW w \in Workers, SendTask(t, w) PROVE Matches(s)'
  BY <1>11 DEF SendTask, Return, UnusedWorker, Alive
<1>12. ASSUME NEW t \in Callers, SendTaskFails(t) PROVE Matches(s)'
  BY <1>12 DEF SendTaskFails, AbortStart, Goto, wrk
<1>13. ASSUME NEW t \in Callers, NEW o \in ErrorOutcomes, ReportStartError(t, o) PROVE Matches(s)'
  <2>1. /\ s = arg[t] => latest'[s] = disk'[s]
        /\ s # arg[t] => latest'[s] = latest[s] /\ disk'[s] = disk[s]
    BY <1>13, PersistDoneMatches DEF ReportStartError
  <2> QED
    BY <1>13, <2>1 DEF ReportStartError, Return, wrk
<1>14. ASSUME NEW t \in Callers, NEW w \in Workers, PutReply(t, w) PROVE Matches(s)'
  BY <1>14 DEF PutReply, Return, rec
<1>15. ASSUME NEW t \in Threads, AllJoined(t) PROVE Matches(s)'
  BY <1>15 DEF AllJoined, Goto, rec, wrk
<1>16. ASSUME NEW t \in Threads, NEW r \in Sessions, StopReturnsAtOnce(t, r) PROVE Matches(s)'
  BY <1>16 DEF StopReturnsAtOnce, AfterStop, Goto, rec, wrk
<1>17. ASSUME NEW t \in Threads, NEW r \in Sessions, StopSandbox(t, r) PROVE Matches(s)'
  BY <1>17 DEF StopSandbox, rec, wrk
<1>18. ASSUME NEW t \in Threads, TearDownEnds(t) PROVE Matches(s)'
  BY <1>18 DEF TearDownEnds, AfterStop, Goto, rec, wrk
<1>19. ASSUME NEW t \in Threads, Clear(t) PROVE Matches(s)'
  BY <1>19 DEF Clear, ClearRecords, Goto, Return, wrk
<1>20. ASSUME StopAll PROVE Matches(s)'
  BY <1>20 DEF StopAll, Call, wrk
<1>21. ASSUME ClearAll PROVE Matches(s)'
  BY <1>21 DEF ClearAll, ClearRecords, Return, wrk
<1>22. ASSUME Reap PROVE Matches(s)'
  BY <1>22 DEF Reap, Call, wrk
<1>23. ASSUME NEW w \in Workers, NEW e \in Roles \cup {"done"}, Receive(w, e) PROVE Matches(s)'
  BY <1>23 DEF Receive, WorkerGoes, Quiet, rec, thr
<1>24. ASSUME NEW w \in Workers, ServeRequest(w) PROVE Matches(s)'
  BY <1>24 DEF ServeRequest, WorkerGoes, Quiet, rec, thr
<1>25. ASSUME NEW w \in Workers, ServeEnds(w) PROVE Matches(s)'
  BY <1>25 DEF ServeEnds, WorkerGoes, Quiet, rec, thr
<1>26. ASSUME NEW w \in Workers, ReceiveFails(w) PROVE Matches(s)'
  BY <1>26 DEF ReceiveFails, WorkerGoes, Quiet, rec, thr
<1>27. ASSUME NEW w \in Workers, TakeReply(w) PROVE Matches(s)'
  BY <1>27 DEF TakeReply, WorkerGoes, Quiet, rec, thr
<1>28. ASSUME NEW w \in Workers, SendReply(w) PROVE Matches(s)'
  BY <1>28 DEF SendReply, WorkerGoes, Quiet, rec, thr
<1>29. ASSUME NEW w \in Workers, SeeStop(w) PROVE Matches(s)'
  BY <1>29 DEF SeeStop, WorkerGoes, Quiet, rec, thr
<1>30. ASSUME NEW w \in Workers, HandlePrompt(w) PROVE Matches(s)'
  BY <1>30 DEF HandlePrompt, WorkerGoes, thr
<1>31. ASSUME NEW w \in Workers, NEW o \in DoneOutcomes, HandleDone(w, o) PROVE Matches(s)'
  <2>1. /\ s = wsess[w] /\ o = "ok" => latest'[s] = disk'[s]
        /\ s # wsess[w] => latest'[s] = latest[s] /\ disk'[s] = disk[s]
    BY <1>31, PersistDoneMatches DEF HandleDone
  <2> QED
    BY <1>31, <2>1 DEF HandleDone, thr
<1>32. ASSUME NEW w \in Workers, NEW o \in ErrorOutcomes, ReportError(w, o) PROVE Matches(s)'
  <2>1. /\ s = wsess[w] => latest'[s] = disk'[s]
        /\ s # wsess[w] => latest'[s] = latest[s] /\ disk'[s] = disk[s]
    BY <1>32, PersistDoneMatches DEF ReportError
  <2> QED
    BY <1>32, <2>1 DEF ReportError, thr
<1>33. ASSUME NEW w \in Workers, WorkerExit(w) PROVE Matches(s)'
  BY <1>33 DEF WorkerExit, thr
<1>34. ASSUME NEW r \in Sessions, SeedState(r) PROVE Matches(s)'
  BY <1>34 DEF SeedState, wrk, thr
<1>35. ASSUME NEW t \in Threads, NEW w \in Workers, WorkerStop(t, w) \/ JoinReturns(t, w)
      PROVE  UNCHANGED <<latest, disk, wpc, wsess, pc, arg>>
  BY <1>35 DEF WorkerStop, JoinReturns, rec, box, wrk, thr
<1>36. ASSUME NEW r \in Sessions, Age(r)
      PROVE  UNCHANGED <<latest, disk, wpc, wsess, pc, arg>>
  BY <1>36 DEF Age, rec, box, wrk, thr
<1>37. ASSUME NEW b \in Sandboxes, Crash(b)
      PROVE  UNCHANGED <<latest, disk, wpc, wsess, pc, arg>>
  BY <1>37 DEF Crash, rec, box, wrk, thr
<1>38. CASE UNCHANGED vars
  BY <1>1, <1>38 DEF vars, rec, box, wrk, thr
<1> QED
  BY <1>1, <1>2, <1>3, <1>4, <1>5, <1>6, <1>7, <1>8, <1>9, <1>10, <1>11, <1>12, <1>13, <1>14,
     <1>15, <1>16, <1>17, <1>18, <1>19, <1>20, <1>21, <1>22, <1>23, <1>24, <1>25, <1>26, <1>27,
     <1>28, <1>29, <1>30, <1>31, <1>32, <1>33, <1>34, <1>35, <1>36, <1>37, <1>38, Zenon
  DEF Next, CallerStep, StarterStep, StopperStep, WorkerStep, LockedWorkerStep

\* What the next task is told of the past is what --resume would read from
\* state.json, as soon as the errors of the session have been reported.
THEOREM MemoryIsOnDisk ==
    ASSUME StateIsSaved
    PROVE  Spec => []MemoryMatchesDisk
<1>1. Init => MemoryMatchesDisk
  BY DEF Init, MemoryMatchesDisk
<1>2. StateIsSaved
  OBVIOUS
<1>3. TypeInv /\ MemoryMatchesDisk /\ [Next]_vars => (TypeInv /\ MemoryMatchesDisk)'
  BY <1>2, TypeStep, MatchesStep
<1> QED
  BY <1>1, <1>3, TypeInit, PTL DEF Spec

----------------------------------------------------------------------------
(* Sandboxes that hold host resources.                                     *)

\* FireSandbox.stop() is under way in a thread that will finish it.
TearInv ==
    \A b \in Sandboxes :
        vm[b] = "stopping" => \E t \in Threads : pc[t] = "tear" /\ tgt[t][arg[t]] = b

\* A sandbox with resources is its own session's, for everyone who refers to it.
HomeInv ==
    \A b \in Sandboxes, s \in Sessions :
        /\ vm[b] # "none"
        /\ sandbox[s] = b \/ \E t \in Threads : tgt[t][s] = b
        => home[b] = s

\* What a thread is about to forget has no resources, or another thread is
\* taking them away.
GoneInv ==
    \A t \in Threads, s \in Sessions :
        /\ tgt[t][s] # None
        /\ s \notin left[t] \/ (pc[t] = "clear" /\ arg[t] = s)
        => vm[tgt[t][s]] \in {"none", "stopping"}

\* A sandbox that is being stopped stays with a thread that stops it.
LEMMA TearStep == TypeInv /\ TearInv /\ [Next]_vars => TearInv'
<1> SUFFICES ASSUME TypeInv, TearInv, [Next]_vars, NEW b \in Sandboxes, vm'[b] = "stopping"
             PROVE  (\E t \in Threads : pc[t] = "tear" /\ tgt[t][arg[t]] = b)'
  BY DEF TearInv
<1> DEFINE Stopped == \E t \in Threads : pc[t] = "tear" /\ tgt[t][arg[t]] = b
<1>0. /\ TypeOK /\ ArgOK /\ (vm[b] = "stopping" => Stopped)
      /\ Callers \subseteq Threads /\ Main \in Threads /\ Reaper \in Threads
      /\ Stoppable \subseteq Sessions
  BY CoordinatorAssumption DEF TypeInv, TearInv, Threads
<1> USE <1>0 DEF TypeOK, ArgOK
<1>1. ASSUME UNCHANGED <<vm, pc, tgt, arg>> PROVE Stopped'
  BY <1>1
<1>2. ASSUME NEW t \in Callers, NEW s \in Sessions, StartRetiring(t, s) PROVE Stopped'
  BY <1>2 DEF StartRetiring, Call, box
<1>3. ASSUME NEW t \in Callers, NEW s \in Sessions, StartTask(t, s) PROVE Stopped'
  BY <1>3 DEF StartTask, Call, box
<1>4. ASSUME NEW t \in Callers, NEW s \in Sessions, SubmitReply(t, s) PROVE Stopped'
  BY <1>4 DEF SubmitReply, Call, box
<1>5. ASSUME NEW t \in Callers, NEW s \in Stoppable, StopSession(t, s) PROVE Stopped'
  BY <1>5 DEF StopSession, Call, box
<1>6. ASSUME NEW t \in Callers, Refuse(t) PROVE Stopped'
  BY <1>6 DEF Refuse, Return, box
<1>7. ASSUME NEW t \in Callers, Admit(t) PROVE Stopped'
  BY <1>7 DEF Admit, Goto, box
<1>8. ASSUME NEW t \in Callers, BootReuse(t) PROVE Stopped'
  BY <1>8 DEF BootReuse, Goto, box
<1>9. ASSUME NEW t \in Callers, NEW c \in Sandboxes, BootFresh(t, c) PROVE Stopped'
  BY <1>9 DEF BootFresh, Goto, box
<1>10. ASSUME NEW t \in Callers, BootFails(t) PROVE Stopped'
  BY <1>10 DEF BootFails, AbortStart, Goto, box
<1>11. ASSUME NEW t \in Callers, NEW w \in Workers, SendTask(t, w) PROVE Stopped'
  BY <1>11 DEF SendTask, Return, box
<1>12. ASSUME NEW t \in Callers, SendTaskFails(t) PROVE Stopped'
  BY <1>12 DEF SendTaskFails, AbortStart, Goto, box
<1>13. ASSUME NEW t \in Callers, NEW o \in ErrorOutcomes, ReportStartError(t, o) PROVE Stopped'
  BY <1>13 DEF ReportStartError, PersistDone, Return, box
<1>14. ASSUME NEW t \in Callers, NEW w \in Workers, PutReply(t, w) PROVE Stopped'
  BY <1>14 DEF PutReply, Return, box
<1>15. ASSUME NEW t \in Threads, AllJoined(t) PROVE Stopped'
  BY <1>15 DEF AllJoined, Goto, box
<1>16. ASSUME NEW t \in Threads, NEW s \in Sessions, StopReturnsAtOnce(t, s) PROVE Stopped'
  <2>1. UNCHANGED vm
    BY <1>16 DEF StopReturnsAtOnce, box
  <2>2. PICK u \in Threads : pc[u] = "tear" /\ tgt[u][arg[u]] = b
    BY <2>1
  <2>3. u # t
    BY <1>16, <2>2 DEF StopReturnsAtOnce
  <2>4. pc'[u] = pc[u] /\ arg'[u] = arg[u] /\ tgt'[u] = tgt[u]
    BY <1>16, <2>3 DEF StopReturnsAtOnce, AfterStop, Goto
  <2> QED
    BY <2>2, <2>4
<1>17. ASSUME NEW t \in Threads, NEW s \in Sessions, StopSandbox(t, s) PROVE Stopped'
  BY <1>17 DEF StopSandbox, box
<1>18. ASSUME NEW t \in Threads, TearDownEnds(t) PROVE Stopped'
  BY <1>18 DEF TearDownEnds, AfterStop, Goto, box
<1>19. ASSUME NEW t \in Threads, Clear(t) PROVE Stopped'
  <2>1. UNCHANGED vm
    BY <1>19 DEF Clear, box
  <2>2. PICK u \in Threads : pc[u] = "tear" /\ tgt[u][arg[u]] = b
    BY <2>1
  <2>3. u # t
    BY <1>19, <2>2 DEF Clear
  <2>4. pc'[u] = pc[u] /\ arg'[u] = arg[u] /\ tgt'[u] = tgt[u]
    BY <1>19, <2>3 DEF Clear, ClearRecords, Goto, Return
  <2> QED
    BY <2>2, <2>4
<1>20. ASSUME StopAll PROVE Stopped'
  BY <1>20 DEF StopAll, Call, box
<1>21. ASSUME ClearAll PROVE Stopped'
  BY <1>21 DEF ClearAll, ClearRecords, Return, box
<1>22. ASSUME Reap PROVE Stopped'
  BY <1>22 DEF Reap, Call, box
<1>23. ASSUME NEW c \in Sandboxes, Crash(c) PROVE Stopped'
  BY <1>23 DEF Crash, thr
<1>24. ASSUME NEW t \in Threads, NEW w \in Workers, WorkerStop(t, w) \/ JoinReturns(t, w)
      PROVE  UNCHANGED <<vm, pc, tgt, arg>>
  BY <1>24 DEF WorkerStop, JoinReturns, rec, box, wrk, thr
<1>25. ASSUME NEW w \in Workers, NEW e \in Roles \cup {"done"}, Receive(w, e)
      PROVE  UNCHANGED <<vm, pc, tgt, arg>>
  BY <1>25 DEF Receive, WorkerGoes, Quiet, rec, box, wrk, thr
<1>26. ASSUME NEW w \in Workers, ServeRequest(w) \/ ServeEnds(w) \/ ReceiveFails(w) \/
   TakeReply(w) \/ SendReply(w) \/ SeeStop(w) \/ HandlePrompt(w) \/ WorkerExit(w)
      PROVE  UNCHANGED <<vm, pc, tgt, arg>>
  BY <1>26 DEF ServeRequest, WorkerGoes, Quiet, ServeEnds, ReceiveFails, TakeReply, SendReply,
     SeeStop, HandlePrompt, WorkerExit, rec, box, wrk, thr
<1>27. ASSUME NEW w \in Workers, NEW o \in DoneOutcomes, HandleDone(w, o)
      PROVE  UNCHANGED <<vm, pc, tgt, arg>>
  BY <1>27 DEF HandleDone, PersistDone, rec, box, wrk, thr
<1>28. ASSUME NEW w \in Workers, NEW o \in ErrorOutcomes, ReportError(w, o)
      PROVE  UNCHANGED <<vm, pc, tgt, arg>>
  BY <1>28 DEF ReportError, PersistDone, rec, box, wrk, thr
<1>29. ASSUME NEW s \in Sessions, SeedState(s) \/ Age(s)
      PROVE  UNCHANGED <<vm, pc, tgt, arg>>
  BY <1>29 DEF SeedState, Age, rec, box, wrk, thr
<1>30. CASE UNCHANGED vars
  BY <1>1, <1>30 DEF vars, rec, box, wrk, thr
<1> QED
  BY <1>1, <1>2, <1>3, <1>4, <1>5, <1>6, <1>7, <1>8, <1>9, <1>10, <1>11, <1>12, <1>13, <1>14,
     <1>15, <1>16, <1>17, <1>18, <1>19, <1>20, <1>21, <1>22, <1>23, <1>24, <1>25, <1>26, <1>27,
     <1>28, <1>29, <1>30, Zenon
  DEF Next, CallerStep, StarterStep, StopperStep, WorkerStep, LockedWorkerStep

\* No step gives a sandbox with resources to another session.
LEMMA HomeStep == TypeInv /\ StopLocals /\ HomeInv /\ [Next]_vars => HomeInv'
<1> SUFFICES ASSUME TypeInv, StopLocals, HomeInv, [Next]_vars, NEW b \in Sandboxes, NEW s \in Sessions,
                    vm'[b] # "none",
                    sandbox'[s] = b \/ \E t \in Threads : tgt'[t][s] = b
             PROVE  home'[b] = s
  BY DEF HomeInv
<1>0. /\ TypeOK /\ ArgOK
      /\ vm[b] # "none" /\ (sandbox[s] = b \/ \E t \in Threads : tgt[t][s] = b) => home[b] = s
      /\ Callers \subseteq Threads /\ Main \in Threads /\ Reaper \in Threads
      /\ Stoppable \subseteq Sessions /\ None \notin Sandboxes
  BY CoordinatorAssumption DEF TypeInv, HomeInv, Threads
<1> USE <1>0 DEF TypeOK, ArgOK
<1>1. ASSUME UNCHANGED <<vm, home, sandbox, tgt>> PROVE home'[b] = s
  BY <1>1
<1>2. ASSUME NEW t \in Callers, NEW r \in Sessions, StartRetiring(t, r) PROVE home'[b] = s
  BY <1>2 DEF StartRetiring, Call, box
<1>3. ASSUME NEW t \in Callers, NEW r \in Stoppable, StopSession(t, r) PROVE home'[b] = s
  BY <1>3 DEF StopSession, Call, box
<1>4. ASSUME NEW t \in Callers, NEW c \in Sandboxes, BootFresh(t, c) PROVE home'[b] = s
  BY <1>4 DEF BootFresh, UnusedSandbox
<1>5. ASSUME NEW t \in Callers, SendTaskFails(t) PROVE home'[b] = s
  BY <1>5 DEF SendTaskFails, AbortStart, Goto, box
<1>6. ASSUME NEW t \in Threads, NEW r \in Sessions, StopSandbox(t, r) PROVE home'[b] = s
  <2>1. UNCHANGED <<home, sandbox, tgt>> /\ (vm'[b] # "none" => vm[b] # "none")
    BY <1>6 DEF StopSandbox, rec
  <2> QED
    BY <2>1
<1>7. ASSUME NEW t \in Threads, TearDownEnds(t) PROVE home'[b] = s
  <2>1. UNCHANGED <<sandbox, tgt>>
    BY <1>7 DEF TearDownEnds, rec
  <2>2. /\ vm' = [vm EXCEPT ![tgt[t][arg[t]]] = "none"]
        /\ home' = [home EXCEPT ![tgt[t][arg[t]]] = None]
    BY <1>7 DEF TearDownEnds
  <2>3. b # tgt[t][arg[t]]
    BY <2>2
  <2> QED
    BY <2>1, <2>2, <2>3
<1>8. ASSUME NEW t \in Threads, Clear(t) PROVE home'[b] = s
  BY <1>8 DEF Clear, ClearRecords, Goto, Return, box
<1>9. ASSUME StopAll PROVE home'[b] = s
  BY <1>9 DEF StopAll, Call, box
<1>10. ASSUME ClearAll PROVE home'[b] = s
  BY <1>10 DEF ClearAll, ClearRecords, Return, box
<1>11. ASSUME Reap PROVE home'[b] = s
  BY <1>11 DEF Reap, Call, box
<1>12. ASSUME NEW c \in Sandboxes, Crash(c) PROVE home'[b] = s
  <2>1. UNCHANGED <<home, sandbox, tgt>> /\ (vm'[b] # "none" => vm[b] # "none")
    BY <1>12 DEF Crash, IsRunning, rec, thr
  <2> QED
    BY <2>1
<1>13. ASSUME NEW t \in Callers, NEW r \in Sessions, StartTask(t, r) \/ SubmitReply(t, r)
      PROVE  UNCHANGED <<vm, home, sandbox, tgt>>
  BY <1>13 DEF StartTask, Call, SubmitReply, rec, box, wrk, thr
<1>14. ASSUME NEW t \in Callers, Refuse(t) \/ Admit(t) \/ BootReuse(t) \/ BootFails(t)
      PROVE  UNCHANGED <<vm, home, sandbox, tgt>>
  BY <1>14 DEF Refuse, Return, Admit, Goto, BootReuse, BootFails, AbortStart, rec, box, wrk, thr
<1>15. ASSUME NEW t \in Callers, NEW w \in Workers, SendTask(t, w) \/ PutReply(t, w)
      PROVE  UNCHANGED <<vm, home, sandbox, tgt>>
  BY <1>15 DEF SendTask, Return, PutReply, rec, box, wrk, thr
<1>16. ASSUME NEW t \in Callers, NEW o \in ErrorOutcomes, ReportStartError(t, o)
      PROVE  UNCHANGED <<vm, home, sandbox, tgt>>
  BY <1>16 DEF ReportStartError, PersistDone, Return, rec, box, wrk, thr
<1>17. ASSUME NEW t \in Threads, NEW w \in Workers, WorkerStop(t, w) \/ JoinReturns(t, w)
      PROVE  UNCHANGED <<vm, home, sandbox, tgt>>
  BY <1>17 DEF WorkerStop, JoinReturns, rec, box, wrk, thr
<1>18. ASSUME NEW t \in Threads, AllJoined(t)
      PROVE  UNCHANGED <<vm, home, sandbox, tgt>>
  BY <1>18 DEF AllJoined, Goto, rec, box, wrk, thr
<1>19. ASSUME NEW t \in Threads, NEW r \in Sessions, StopReturnsAtOnce(t, r)
      PROVE  UNCHANGED <<vm, home, sandbox, tgt>>
  BY <1>19 DEF StopReturnsAtOnce, AfterStop, Goto, rec, box, wrk, thr
<1>20. ASSUME NEW w \in Workers, NEW e \in Roles \cup {"done"}, Receive(w, e)
      PROVE  UNCHANGED <<vm, home, sandbox, tgt>>
  BY <1>20 DEF Receive, WorkerGoes, Quiet, rec, box, wrk, thr
<1>21. ASSUME NEW w \in Workers, ServeRequest(w) \/ ServeEnds(w) \/ ReceiveFails(w) \/
   TakeReply(w) \/ SendReply(w) \/ SeeStop(w) \/ HandlePrompt(w) \/ WorkerExit(w)
      PROVE  UNCHANGED <<vm, home, sandbox, tgt>>
  BY <1>21 DEF ServeRequest, WorkerGoes, Quiet, ServeEnds, ReceiveFails, TakeReply, SendReply,
     SeeStop, HandlePrompt, WorkerExit, rec, box, wrk, thr
<1>22. ASSUME NEW w \in Workers, NEW o \in DoneOutcomes, HandleDone(w, o)
      PROVE  UNCHANGED <<vm, home, sandbox, tgt>>
  BY <1>22 DEF HandleDone, PersistDone, rec, box, wrk, thr
<1>23. ASSUME NEW w \in Workers, NEW o \in ErrorOutcomes, ReportError(w, o)
      PROVE  UNCHANGED <<vm, home, sandbox, tgt>>
  BY <1>23 DEF ReportError, PersistDone, rec, box, wrk, thr
<1>24. ASSUME NEW r \in Sessions, SeedState(r) \/ Age(r)
      PROVE  UNCHANGED <<vm, home, sandbox, tgt>>
  BY <1>24 DEF SeedState, Age, rec, box, wrk, thr
<1>25. CASE UNCHANGED vars
  BY <1>1, <1>25 DEF vars, rec, box, wrk, thr
<1> QED
  BY <1>1, <1>2, <1>3, <1>4, <1>5, <1>6, <1>7, <1>8, <1>9, <1>10, <1>11, <1>12, <1>13, <1>14,
     <1>15, <1>16, <1>17, <1>18, <1>19, <1>20, <1>21, <1>22, <1>23, <1>24, <1>25, Zenon
  DEF Next, CallerStep, StarterStep, StopperStep, WorkerStep, LockedWorkerStep

\* What a stop has dealt with gets no resources before it is forgotten.
LEMMA GoneStep ==
    Fire /\ TypeInv /\ StopLocals /\ StoppedTargets /\ GoneInv /\ [Next]_vars => GoneInv'
<1> SUFFICES ASSUME Fire, TypeInv, StopLocals, StoppedTargets, GoneInv, [Next]_vars,
                    NEW u \in Threads, NEW s \in Sessions,
                    tgt'[u][s] # None,
                    s \notin left'[u] \/ (pc'[u] = "clear" /\ arg'[u] = s)
             PROVE  vm'[tgt'[u][s]] \in {"none", "stopping"}
  BY DEF GoneInv
<1> DEFINE Gone == vm[tgt[u][s]] \in {"none", "stopping"}
<1>0. /\ TypeOK /\ ArgOK /\ StopLocal(u)
      /\ tgt[u][s] # None /\ (s \notin left[u] \/ (pc[u] = "clear" /\ arg[u] = s))
             => Gone /\ vm[tgt[u][s]] # "running"
      /\ Callers \subseteq Threads /\ Main \in Threads /\ Reaper \in Threads
      /\ Stoppable \subseteq Sessions /\ None \notin Sandboxes
  BY CoordinatorAssumption
  DEF TypeInv, StopLocals, StoppedTargets, IsRunning, GoneInv, Threads
<1> USE <1>0 DEF TypeOK, ArgOK, StopLocal, StopStages
<1>1. ASSUME UNCHANGED <<vm, pc, tgt, left, arg>> PROVE Gone'
  BY <1>1
<1>2. ASSUME NEW t \in Callers, NEW r \in Sessions, StartRetiring(t, r) PROVE Gone'
  BY <1>2 DEF StartRetiring, Call, box
<1>3. ASSUME NEW t \in Callers, NEW r \in Sessions, StartTask(t, r) PROVE Gone'
  BY <1>3 DEF StartTask, Call, box
<1>4. ASSUME NEW t \in Callers, NEW r \in Sessions, SubmitReply(t, r) PROVE Gone'
  BY <1>4 DEF SubmitReply, Call, box
<1>5. ASSUME NEW t \in Callers, NEW r \in Stoppable, StopSession(t, r) PROVE Gone'
  BY <1>5 DEF StopSession, Call, box
<1>6. ASSUME NEW t \in Callers, Refuse(t) PROVE Gone'
  BY <1>6 DEF Refuse, Return, box
<1>7. ASSUME NEW t \in Callers, Admit(t) PROVE Gone'
  BY <1>7 DEF Admit, Goto, box
<1>8. ASSUME NEW t \in Callers, BootReuse(t) PROVE Gone'
  BY <1>8 DEF BootReuse, Goto, box
<1>9. ASSUME NEW t \in Callers, NEW b \in Sandboxes, BootFresh(t, b) PROVE Gone'
  BY <1>9 DEF BootFresh, UnusedSandbox, Goto
<1>10. ASSUME NEW t \in Callers, BootFails(t) PROVE Gone'
  BY <1>10 DEF BootFails, AbortStart, Goto, box
<1>11. ASSUME NEW t \in Callers, NEW w \in Workers, SendTask(t, w) PROVE Gone'
  BY <1>11 DEF SendTask, Return, box
<1>12. ASSUME NEW t \in Callers, SendTaskFails(t) PROVE Gone'
  <2>1. /\ UNCHANGED <<tgt, left>>
        /\ pc'[u] = "clear" => pc[u] = "clear" /\ arg'[u] = arg[u]
    BY <1>12 DEF SendTaskFails, AbortStart, Goto
  <2>2. tgt[u][s] \in Sandboxes => vm'[tgt[u][s]] \in {vm[tgt[u][s]], "none"}
    BY <1>12 DEF SendTaskFails, box
  <2> QED
    BY <2>1, <2>2 DEF OrNone
<1>13. ASSUME NEW t \in Callers, NEW o \in ErrorOutcomes, ReportStartError(t, o) PROVE Gone'
  BY <1>13 DEF ReportStartError, PersistDone, Return, box
<1>14. ASSUME NEW t \in Callers, NEW w \in Workers, PutReply(t, w) PROVE Gone'
  BY <1>14 DEF PutReply, Return, box
<1>15. ASSUME NEW t \in Threads, AllJoined(t) PROVE Gone'
  BY <1>15 DEF AllJoined, Goto, box
<1>16. ASSUME NEW t \in Threads, NEW r \in Sessions, StopReturnsAtOnce(t, r) PROVE Gone'
  <2>1. /\ UNCHANGED <<tgt, vm>>
        /\ tgt[t][r] # None => vm[tgt[t][r]] = "stopping"
        /\ u # t => left'[u] = left[u] /\ pc'[u] = pc[u] /\ arg'[u] = arg[u]
    BY <1>16 DEF StopReturnsAtOnce, AfterStop, Goto, box
  <2>2. s \in left[t] => s \in left'[t] \/ s = r
    BY <1>16 DEF StopReturnsAtOnce, AfterStop, Goto
  <2>3. pc'[t] = "clear" => arg'[t] = r
    BY <1>16 DEF StopReturnsAtOnce, AfterStop, Goto
  <2>4. CASE u # t
    BY <2>1, <2>4
  <2>5. CASE u = t /\ s = r
    BY <2>1, <2>5
  <2>6. CASE u = t /\ s # r
    BY <2>1, <2>2, <2>3, <2>6
  <2> QED
    BY <2>4, <2>5, <2>6
<1>17. ASSUME NEW t \in Threads, NEW r \in Sessions, StopSandbox(t, r) PROVE Gone'
  BY <1>17 DEF StopSandbox, box
<1>18. ASSUME NEW t \in Threads, TearDownEnds(t) PROVE Gone'
  <2>1. /\ UNCHANGED tgt
        /\ vm' = [vm EXCEPT ![tgt[t][arg[t]]] = "none"]
        /\ u # t => left'[u] = left[u] /\ pc'[u] = pc[u] /\ arg'[u] = arg[u]
    BY <1>18 DEF TearDownEnds, AfterStop, Goto
  <2>2. s \in left[t] => s \in left'[t] \/ s = arg[t]
    BY <1>18 DEF TearDownEnds, AfterStop, Goto
  <2>3. pc[t] = "tear" /\ arg'[t] = arg[t]
    BY <1>18 DEF TearDownEnds, AfterStop, Goto
  <2>4. tgt[u][s] \in Sandboxes => vm'[tgt[u][s]] \in {vm[tgt[u][s]], "none"}
    BY <2>1
  <2>5. tgt[u][s] \in Sandboxes
    BY <2>1 DEF OrNone
  <2>6. CASE u # t
    BY <2>1, <2>4, <2>5, <2>6
  <2>7. CASE u = t /\ s = arg[t]
    BY <2>1, <2>5, <2>7
  <2>8. CASE u = t /\ s # arg[t]
    BY <2>1, <2>2, <2>3, <2>4, <2>5, <2>8
  <2> QED
    BY <2>6, <2>7, <2>8
<1>19. ASSUME NEW t \in Threads, Clear(t) PROVE Gone'
  BY <1>19 DEF Clear, ClearRecords, Goto, Return, box
<1>20. ASSUME StopAll PROVE Gone'
  BY <1>20 DEF StopAll, Call, box
<1>21. ASSUME ClearAll PROVE Gone'
  BY <1>21 DEF ClearAll, ClearRecords, Return, box
<1>22. ASSUME Reap PROVE Gone'
  BY <1>22 DEF Reap, Call, box
<1>23. ASSUME NEW b \in Sandboxes, Crash(b) PROVE Gone'
  BY <1>23 DEF Crash, IsRunning, thr
<1>24. ASSUME NEW t \in Threads, NEW w \in Workers, WorkerStop(t, w) \/ JoinReturns(t, w)
      PROVE  UNCHANGED <<vm, pc, tgt, left, arg>>
  BY <1>24 DEF WorkerStop, JoinReturns, rec, box, wrk, thr
<1>25. ASSUME NEW w \in Workers, NEW e \in Roles \cup {"done"}, Receive(w, e)
      PROVE  UNCHANGED <<vm, pc, tgt, left, arg>>
  BY <1>25 DEF Receive, WorkerGoes, Quiet, rec, box, wrk, thr
<1>26. ASSUME NEW w \in Workers, ServeRequest(w) \/ ServeEnds(w) \/ ReceiveFails(w) \/
   TakeReply(w) \/ SendReply(w) \/ SeeStop(w) \/ HandlePrompt(w) \/ WorkerExit(w)
      PROVE  UNCHANGED <<vm, pc, tgt, left, arg>>
  BY <1>26 DEF ServeRequest, WorkerGoes, Quiet, ServeEnds, ReceiveFails, TakeReply, SendReply,
     SeeStop, HandlePrompt, WorkerExit, rec, box, wrk, thr
<1>27. ASSUME NEW w \in Workers, NEW o \in DoneOutcomes, HandleDone(w, o)
      PROVE  UNCHANGED <<vm, pc, tgt, left, arg>>
  BY <1>27 DEF HandleDone, PersistDone, rec, box, wrk, thr
<1>28. ASSUME NEW w \in Workers, NEW o \in ErrorOutcomes, ReportError(w, o)
      PROVE  UNCHANGED <<vm, pc, tgt, left, arg>>
  BY <1>28 DEF ReportError, PersistDone, rec, box, wrk, thr
<1>29. ASSUME NEW r \in Sessions, SeedState(r) \/ Age(r)
      PROVE  UNCHANGED <<vm, pc, tgt, left, arg>>
  BY <1>29 DEF SeedState, Age, rec, box, wrk, thr
<1>30. CASE UNCHANGED vars
  BY <1>1, <1>30 DEF vars, rec, box, wrk, thr
<1> QED
  BY <1>1, <1>2, <1>3, <1>4, <1>5, <1>6, <1>7, <1>8, <1>9, <1>10, <1>11, <1>12, <1>13, <1>14,
     <1>15, <1>16, <1>17, <1>18, <1>19, <1>20, <1>21, <1>22, <1>23, <1>24, <1>25, <1>26, <1>27,
     <1>28, <1>29, <1>30, Zenon
  DEF Next, CallerStep, StarterStep, StopperStep, WorkerStep, LockedWorkerStep

\* No step forgets a sandbox that has resources.
LEMMA LeakStep ==
    Fire /\ TypeInv /\ StopLocals /\ TearInv /\ HomeInv /\ GoneInv /\ NoLeakedSandbox /\ [Next]_vars
        => NoLeakedSandbox'
<1> SUFFICES ASSUME Fire, TypeInv, StopLocals, TearInv, HomeInv, GoneInv, NoLeakedSandbox, [Next]_vars,
                    NEW b \in Sandboxes, vm'[b] # "none"
             PROVE  (\/ \E s \in Sessions : sandbox[s] = b
                     \/ \E t \in Threads, s \in Sessions : tgt[t][s] = b)'
  BY DEF NoLeakedSandbox
<1> DEFINE Known == \/ \E s \in Sessions : sandbox[s] = b
                    \/ \E t \in Threads, s \in Sessions : tgt[t][s] = b
<1>0. /\ TypeOK /\ ArgOK /\ StopLocals
      /\ vm[b] # "none" => Known
      /\ Callers \subseteq Threads /\ Main \in Threads /\ Reaper \in Threads
      /\ Stoppable \subseteq Sessions /\ None \notin Sandboxes
  BY CoordinatorAssumption DEF TypeInv, NoLeakedSandbox, Threads
<1> USE <1>0 DEF TypeOK, ArgOK, StopLocals, StopLocal, StopStages
<1>1. ASSUME UNCHANGED <<vm, sandbox, tgt>> PROVE Known'
  BY <1>1
<1>2. ASSUME NEW t \in Callers, NEW s \in Sessions, StartRetiring(t, s) PROVE Known'
  <2>1. UNCHANGED <<vm, sandbox>> /\ \A u \in Threads : u # t => tgt'[u] = tgt[u]
    BY <1>2 DEF StartRetiring, box
  <2>2. \A r \in Sessions : tgt[t][r] = None
    BY <1>2 DEF StartRetiring
  <2>3. CASE \E r \in Sessions : sandbox[r] = b
    BY <2>1, <2>3
  <2>4. ASSUME NEW u \in Threads, NEW r \in Sessions, tgt[u][r] = b PROVE Known'
    <3>1. u # t
      BY <2>2, <2>4
    <3> QED
      BY <2>1, <2>4, <3>1
  <2> QED
    BY <2>1, <2>3, <2>4
<1>3. ASSUME NEW t \in Callers, NEW s \in Stoppable, StopSession(t, s) PROVE Known'
  <2>1. UNCHANGED <<vm, sandbox>> /\ \A u \in Threads : u # t => tgt'[u] = tgt[u]
    BY <1>3 DEF StopSession, box
  <2>2. \A r \in Sessions : tgt[t][r] = None
    BY <1>3 DEF StopSession
  <2>3. CASE \E r \in Sessions : sandbox[r] = b
    BY <2>1, <2>3
  <2>4. ASSUME NEW u \in Threads, NEW r \in Sessions, tgt[u][r] = b PROVE Known'
    <3>1. u # t
      BY <2>2, <2>4
    <3> QED
      BY <2>1, <2>4, <3>1
  <2> QED
    BY <2>1, <2>3, <2>4
<1>4. ASSUME NEW t \in Callers, NEW c \in Sandboxes, BootFresh(t, c) PROVE Known'
  BY <1>4 DEF BootFresh, TapFree, HomeInv
<1>5. ASSUME NEW t \in Callers, SendTaskFails(t) PROVE Known'
  BY <1>5 DEF SendTaskFails, AbortStart, box
<1>6. ASSUME NEW t \in Threads, NEW s \in Sessions, StopSandbox(t, s) PROVE Known'
  BY <1>6 DEF StopSandbox, rec
<1>7. ASSUME NEW t \in Threads, TearDownEnds(t) PROVE Known'
  BY <1>7 DEF TearDownEnds, rec
<1>8. ASSUME NEW t \in Threads, Clear(t) PROVE Known'
  <2>1. CASE vm[b] # "stopping"
    <3>1. \A s \in Sessions : s = arg[t] => tgt[t][s] # b
      BY <1>8, <2>1 DEF Clear, GoneInv, box
    <3> QED
      BY <1>8, <3>1 DEF Clear, ClearRecords, box
  <2>2. CASE vm[b] = "stopping"
    <3>1. PICK u \in Threads : pc[u] = "tear" /\ tgt[u][arg[u]] = b
      BY <2>2 DEF TearInv
    <3>2. u # t
      BY <1>8, <3>1 DEF Clear
    <3> QED
      BY <1>8, <3>1, <3>2 DEF Clear, ClearRecords
  <2> QED
    BY <2>1, <2>2
<1>9. ASSUME StopAll PROVE Known'
  <2>1. UNCHANGED <<vm, sandbox>> /\ \A u \in Threads : u # Main => tgt'[u] = tgt[u]
    BY <1>9 DEF StopAll, box
  <2>2. \A r \in Sessions : tgt[Main][r] = None
    BY <1>9 DEF StopAll
  <2>3. CASE \E r \in Sessions : sandbox[r] = b
    BY <2>1, <2>3
  <2>4. ASSUME NEW u \in Threads, NEW r \in Sessions, tgt[u][r] = b PROVE Known'
    <3>1. u # Main
      BY <2>2, <2>4
    <3> QED
      BY <2>1, <2>4, <3>1
  <2> QED
    BY <2>1, <2>3, <2>4
<1>10. ASSUME ClearAll PROVE Known'
  <2>1. CASE vm[b] # "stopping"
    <3>1. vm'[b] = vm[b] /\ left[Main] = {}
      BY <1>10 DEF ClearAll, box
    <3>2. ASSUME NEW s \in Sessions, tgt[Main][s] = b PROVE FALSE
      <4>1. vm[tgt[Main][s]] \in {"none", "stopping"}
        BY <3>1, <3>2 DEF GoneInv
      <4> QED
        BY <2>1, <3>1, <3>2, <4>1
    <3> QED
      BY <1>10, <3>1, <3>2 DEF ClearAll, ClearRecords
  <2>2. CASE vm[b] = "stopping"
    <3>1. PICK u \in Threads : pc[u] = "tear" /\ tgt[u][arg[u]] = b
      BY <2>2 DEF TearInv
    <3>2. u # Main
      BY <1>10, <3>1 DEF ClearAll
    <3> QED
      BY <1>10, <3>1, <3>2 DEF ClearAll, ClearRecords
  <2> QED
    BY <2>1, <2>2
<1>11. ASSUME Reap PROVE Known'
  <2>1. UNCHANGED <<vm, sandbox>> /\ \A u \in Threads : u # Reaper => tgt'[u] = tgt[u]
    BY <1>11 DEF Reap, box
  <2>2. \A r \in Sessions : tgt[Reaper][r] = None
    BY <1>11 DEF Reap
  <2>3. CASE \E r \in Sessions : sandbox[r] = b
    BY <2>1, <2>3
  <2>4. ASSUME NEW u \in Threads, NEW r \in Sessions, tgt[u][r] = b PROVE Known'
    <3>1. u # Reaper
      BY <2>2, <2>4
    <3> QED
      BY <2>1, <2>4, <3>1
  <2> QED
    BY <2>1, <2>3, <2>4
<1>12. ASSUME NEW c \in Sandboxes, Crash(c) PROVE Known'
  BY <1>12 DEF Crash, IsRunning, rec, thr
<1>13. ASSUME NEW t \in Callers, NEW s \in Sessions, StartTask(t, s) \/ SubmitReply(t, s)
      PROVE  UNCHANGED <<vm, sandbox, tgt>>
  BY <1>13 DEF StartTask, Call, SubmitReply, rec, box, wrk, thr
<1>14. ASSUME NEW t \in Callers, Refuse(t) \/ Admit(t) \/ BootReuse(t) \/ BootFails(t)
      PROVE  UNCHANGED <<vm, sandbox, tgt>>
  BY <1>14 DEF Refuse, Return, Admit, Goto, BootReuse, BootFails, AbortStart, rec, box, wrk, thr
<1>15. ASSUME NEW t \in Callers, NEW w \in Workers, SendTask(t, w) \/ PutReply(t, w)
      PROVE  UNCHANGED <<vm, sandbox, tgt>>
  BY <1>15 DEF SendTask, Return, PutReply, rec, box, wrk, thr
<1>16. ASSUME NEW t \in Callers, NEW o \in ErrorOutcomes, ReportStartError(t, o)
      PROVE  UNCHANGED <<vm, sandbox, tgt>>
  BY <1>16 DEF ReportStartError, PersistDone, Return, rec, box, wrk, thr
<1>17. ASSUME NEW t \in Threads, NEW w \in Workers, WorkerStop(t, w) \/ JoinReturns(t, w)
      PROVE  UNCHANGED <<vm, sandbox, tgt>>
  BY <1>17 DEF WorkerStop, JoinReturns, rec, box, wrk, thr
<1>18. ASSUME NEW t \in Threads, AllJoined(t)
      PROVE  UNCHANGED <<vm, sandbox, tgt>>
  BY <1>18 DEF AllJoined, Goto, rec, box, wrk, thr
<1>19. ASSUME NEW t \in Threads, NEW s \in Sessions, StopReturnsAtOnce(t, s)
      PROVE  UNCHANGED <<vm, sandbox, tgt>>
  BY <1>19 DEF StopReturnsAtOnce, AfterStop, Goto, rec, box, wrk, thr
<1>20. ASSUME NEW w \in Workers, NEW e \in Roles \cup {"done"}, Receive(w, e)
      PROVE  UNCHANGED <<vm, sandbox, tgt>>
  BY <1>20 DEF Receive, WorkerGoes, Quiet, rec, box, wrk, thr
<1>21. ASSUME NEW w \in Workers, ServeRequest(w) \/ ServeEnds(w) \/ ReceiveFails(w) \/
   TakeReply(w) \/ SendReply(w) \/ SeeStop(w) \/ HandlePrompt(w) \/ WorkerExit(w)
      PROVE  UNCHANGED <<vm, sandbox, tgt>>
  BY <1>21 DEF ServeRequest, WorkerGoes, Quiet, ServeEnds, ReceiveFails, TakeReply, SendReply,
     SeeStop, HandlePrompt, WorkerExit, rec, box, wrk, thr
<1>22. ASSUME NEW w \in Workers, NEW o \in DoneOutcomes, HandleDone(w, o)
      PROVE  UNCHANGED <<vm, sandbox, tgt>>
  BY <1>22 DEF HandleDone, PersistDone, rec, box, wrk, thr
<1>23. ASSUME NEW w \in Workers, NEW o \in ErrorOutcomes, ReportError(w, o)
      PROVE  UNCHANGED <<vm, sandbox, tgt>>
  BY <1>23 DEF ReportError, PersistDone, rec, box, wrk, thr
<1>24. ASSUME NEW s \in Sessions, SeedState(s) \/ Age(s)
      PROVE  UNCHANGED <<vm, sandbox, tgt>>
  BY <1>24 DEF SeedState, Age, rec, box, wrk, thr
<1>25. CASE UNCHANGED vars
  BY <1>1, <1>25 DEF vars, rec, box, wrk, thr
<1> QED
  BY <1>1, <1>2, <1>3, <1>4, <1>5, <1>6, <1>7, <1>8, <1>9, <1>10, <1>11, <1>12, <1>13, <1>14,
     <1>15, <1>16, <1>17, <1>18, <1>19, <1>20, <1>21, <1>22, <1>23, <1>24, <1>25, Zenon
  DEF Next, CallerStep, StarterStep, StopperStep, WorkerStep, LockedWorkerStep

\* A Firecracker sandbox that holds a process, a device or a lease is known to
\* its session or to a thread that is stopping it, however stops, retirements,
\* the reaper, the shutdown and crashes overlap.
THEOREM NoSandboxForgotten ==
    ASSUME Fire
    PROVE  Spec => []NoLeakedSandbox
<1> DEFINE Inv == /\ TypeInv /\ StopLocals /\ StoppedTargets
                  /\ TearInv /\ HomeInv /\ GoneInv /\ NoLeakedSandbox
<1>1. Init => Inv
  <2>1. Init => StoppedTargets /\ TearInv /\ HomeInv /\ GoneInv /\ NoLeakedSandbox
    BY DEF Init, StoppedTargets, TearInv, HomeInv, GoneInv, NoLeakedSandbox, Nobody
  <2> QED
    BY <2>1, TypeInit, StopLocalsInit
<1>2. Fire
  OBVIOUS
<1>3. Inv /\ [Next]_vars => Inv'
  BY <1>2, TypeStep, StopLocalsStep, StoppedTargetsStep, TearStep, HomeStep, GoneStep, LeakStep
<1> QED
  BY <1>1, <1>3, PTL DEF Spec

=============================================================================
