---------------------------- MODULE Coordinator ----------------------------
(***************************************************************************)
(* The host's control plane (coordinator.py): one record per session, one  *)
(* lock, worker threads that drive a task each, the idle reaper, and the   *)
(* adapter threads that call start_task, submit_reply, stop_session and    *)
(* stop_all.  A section of code under the lock is one step, except         *)
(* start_task, which keeps the lock while a sandbox boots; everything the  *)
(* code does between two lock sections (sandbox.stop(), worker.stop(), the *)
(* queue's put) is a step of its own and may be interleaved.               *)
(***************************************************************************)
EXTENDS Naturals, Sequences, FiniteSets

CONSTANTS
    Sessions,       \* session ids
    Sandboxes,      \* sandbox objects; an unreferenced one is used again
    Workers,        \* _SessionWorker objects; an unreferenced one is used again
    Callers,        \* adapter threads (CLI, the Telegram event loop)
    Reaper,         \* the coordinator-idle-reaper thread
    Main,           \* the thread that runs main()'s finally block
    None,           \* Python's None
    Fire,           \* the sandboxes are FireSandboxes (else YoloSandboxes)
    Review,         \* approval_mode = "review": a plan waits for a reply
    MaxActive,      \* max_active_sessions
    Stoppable,      \* sessions whose adapter calls stop_session
    Shutdown,       \* main() reaches coordinator.stop_all()
    IdleTimeout,    \* session_idle_timeout_seconds # 0
    Crashes,        \* a sandbox may die by itself
    StoreFaults     \* how persist_done_event may raise: "nosave", "nofiles"

Threads == Callers \cup {Reaper, Main}

ASSUME CoordinatorAssumption ==
    /\ None \notin Sessions \cup Sandboxes \cup Workers \cup Threads
    /\ Reaper \notin Callers /\ Main \notin Callers /\ Reaper # Main
    /\ IsFiniteSet(Sessions)
    /\ {Fire, Review, Shutdown, IdleTimeout, Crashes} \subseteq BOOLEAN
    /\ MaxActive \in Nat \ {0}
    /\ Stoppable \subseteq Sessions
    /\ StoreFaults \subseteq {"nosave", "nofiles"}

VARIABLES
    worker, pending, sandbox, stopping, idle, latest,   \* _SessionRecord
    disk,                       \* the session's state.json
    lock,                       \* who keeps Coordinator._lock while booting
    shut,                       \* _idle_reaper_stop
    vm, home,                   \* the sandbox objects
    wpc, wsess, wbox, wstop, wevt, inbox, told,         \* _SessionWorker
    op, pc, arg, tgt, left, held                        \* locals of a call

rec == <<worker, pending, sandbox, stopping, idle, latest, disk>>
box == <<vm, home>>
wrk == <<wpc, wsess, wbox, wstop, wevt, inbox, told>>
thr == <<op, pc, arg, tgt, left, held>>
vars == <<rec, lock, shut, box, wrk, thr>>

Roles == IF Review THEN {"plan", "clarification"} ELSE {"clarification"}
StateValues == {"none", "empty", "saved"}
Nobody == [s \in Sessions |-> None]

Init ==
    /\ worker = Nobody /\ sandbox = Nobody
    /\ pending = [s \in Sessions |-> "none"]
    /\ stopping = [s \in Sessions |-> FALSE]
    /\ idle = [s \in Sessions |-> "unset"]
    /\ latest = [s \in Sessions |-> "none"]
    /\ disk \in [Sessions -> IF Fire THEN {"none"} ELSE {"none", "saved"}]
    /\ lock = None /\ shut = FALSE
    /\ vm = [b \in Sandboxes |-> "none"]
    /\ home = [b \in Sandboxes |-> None]
    /\ wpc = [w \in Workers |-> "free"]
    /\ wsess = [w \in Workers |-> None]
    /\ wbox = [w \in Workers |-> None]
    /\ wstop = [w \in Workers |-> FALSE]
    /\ wevt = [w \in Workers |-> "none"]
    /\ inbox = [w \in Workers |-> <<>>]
    /\ told = [w \in Workers |-> 0]
    /\ op = [t \in Threads |-> "none"]
    /\ pc = [t \in Threads |-> "idle"]
    /\ arg = [t \in Threads |-> None]
    /\ tgt = [t \in Threads |-> Nobody]
    /\ left = [t \in Threads |-> {}]
    /\ held = [t \in Threads |-> {}]

----------------------------------------------------------------------------
(* What the code asks of a record, of a sandbox and of a worker.           *)

\* _SessionWorker.is_running
Alive(w) == wpc[w] # "free"

\* is_running() of the sandbox: FireSandbox has its vsock closed as the first
\* thing stop() does, YoloSandbox clears _started as the last.
IsRunning(b) == vm[b] = "running"

LiveWorker(s) == worker[s] # None /\ Alive(worker[s])
LiveSandbox(s) == sandbox[s] # None /\ IsRunning(sandbox[s])

\* Mutant: an idle VM takes no capacity.
CountsOnlyWorkers(s) == stopping[s] \/ LiveWorker(s)

CountsTowardCapacity(s) ==
    stopping[s] \/ LiveWorker(s) \/ (Fire /\ LiveSandbox(s))

ActiveSessionCount == Cardinality({s \in Sessions : CountsTowardCapacity(s)})

Stale(s) == ~stopping[s] /\ sandbox[s] # None /\ ~IsRunning(sandbox[s])

\* Mutant: start_task does not look for a live worker.
BusyIfStopping(s) == stopping[s]

Busy(s) == LiveWorker(s) \/ stopping[s]

AtCapacity(s) == ActiveSessionCount >= MaxActive /\ ~CountsTowardCapacity(s)

\* send() and receive() still reach the guest: a dead VM's socket may yet hold
\* data, but a failed Yolo agent thread is reported at once.
Connected(b) == vm[b] = "running" \/ (Fire /\ vm[b] = "crashed")

\* The object of an id that nobody refers to any more has been collected.
UnusedSandbox(b) ==
    /\ vm[b] = "none"
    /\ \A s \in Sessions : sandbox[s] # b /\ \A t \in Threads : tgt[t][s] # b
    /\ \A w \in Workers : wbox[w] # b

UnusedWorker(w) ==
    /\ ~Alive(w)
    /\ \A s \in Sessions : worker[s] # w
    /\ \A t \in Threads : w \notin held[t]

\* A call returns.
Return(t) ==
    /\ op' = [op EXCEPT ![t] = "none"]
    /\ pc' = [pc EXCEPT ![t] = "idle"]
    /\ arg' = [arg EXCEPT ![t] = None]

Goto(t, stage) == pc' = [pc EXCEPT ![t] = stage] /\ UNCHANGED <<op, arg>>

Call(t, name, s, stage) ==
    /\ op' = [op EXCEPT ![t] = name]
    /\ pc' = [pc EXCEPT ![t] = stage]
    /\ arg' = [arg EXCEPT ![t] = s]

\* The done branch of _handle_worker_event: persist_done_event saves
\* state.json, then writes the output files; either may raise, which skips
\* what follows.
PersistDone(s, state, outcome) ==
    /\ pending' = [pending EXCEPT ![s] = "none"]
    /\ disk' = IF outcome = "nosave" THEN disk ELSE [disk EXCEPT ![s] = state]
    /\ IF outcome = "ok"
       THEN /\ latest' = [latest EXCEPT ![s] = state]
            /\ idle' = [idle EXCEPT ![s] = "fresh"]
       ELSE UNCHANGED <<latest, idle>>
    /\ UNCHANGED <<worker, sandbox, stopping>>

----------------------------------------------------------------------------
(* start_task                                                              *)

\* _retire_stale_sandbox finds a sandbox that is not running any more: it is
\* stopped (outside the lock) before the task is considered.
StartRetiring(t, s) ==
    /\ pc[t] = "idle" /\ lock = None
    /\ Stale(s)
    /\ stopping' = [stopping EXCEPT ![s] = TRUE]
    /\ tgt' = [tgt EXCEPT ![t][s] = sandbox[s]]
    /\ left' = [left EXCEPT ![t] = {s}]
    /\ Call(t, "start", s, "next")
    /\ UNCHANGED <<worker, pending, sandbox, idle, latest, disk, lock, shut, box, wrk, held>>

\* _retire_stale_sandbox has nothing to do.
StartTask(t, s) ==
    /\ pc[t] = "idle" /\ lock = None
    /\ ~Stale(s)
    /\ Call(t, "start", s, "admit")
    /\ UNCHANGED <<rec, lock, shut, box, wrk, tgt, left, held>>

\* "busy" or "capacity"
Refuse(t) ==
    /\ pc[t] = "admit" /\ lock = None
    /\ Busy(arg[t]) \/ AtCapacity(arg[t])
    /\ Return(t)
    /\ UNCHANGED <<rec, lock, shut, box, wrk, tgt, left, held>>

Admit(t) ==
    /\ pc[t] = "admit" /\ lock = None
    /\ ~Busy(arg[t]) /\ ~AtCapacity(arg[t])
    /\ lock' = t
    /\ Goto(t, "boot")
    /\ UNCHANGED <<rec, shut, box, wrk, tgt, left, held>>

BootReuse(t) ==
    /\ pc[t] = "boot"
    /\ LiveSandbox(arg[t])
    /\ Goto(t, "sendOld")
    /\ UNCHANGED <<rec, lock, shut, box, wrk, tgt, left, held>>

\* Mutant: every sandbox has a TAP device of its own name.
TapPerSandbox(s) == TRUE

\* TapDeviceManager.create: the name of a TAP device is the session's, so
\* "ip tuntap add" fails while an older sandbox of the session, dead or being
\* stopped, has not given it back.
TapFree(s) == \A b \in Sandboxes : home[b] = s => vm[b] = "none"

\* A new sandbox becomes the record's.
BootFresh(t, b) ==
    /\ pc[t] = "boot"
    /\ ~LiveSandbox(arg[t])
    /\ UnusedSandbox(b)
    /\ Fire => TapFree(arg[t])
    /\ vm' = [vm EXCEPT ![b] = "running"]
    /\ home' = [home EXCEPT ![b] = arg[t]]
    /\ sandbox' = [sandbox EXCEPT ![arg[t]] = b]
    /\ Goto(t, "sendNew")
    /\ UNCHANGED <<worker, pending, stopping, idle, latest, disk, lock, shut, wrk, tgt, left, held>>

\* The except branch: no worker, and the lock is released before the error is
\* reported.
AbortStart(t) ==
    /\ worker' = [worker EXCEPT ![arg[t]] = None]
    /\ pending' = [pending EXCEPT ![arg[t]] = "none"]
    /\ lock' = None
    /\ Goto(t, "failed")
    /\ UNCHANGED <<stopping, idle, latest, disk, shut, wrk, tgt, left, held>>

\* sandbox.start() raises, after it has cleaned up after itself.
BootFails(t) ==
    /\ pc[t] = "boot"
    /\ ~LiveSandbox(arg[t])
    /\ AbortStart(t)
    /\ UNCHANGED <<sandbox, box>>

SendTask(t, w) ==
    /\ pc[t] \in {"sendOld", "sendNew"}
    /\ LiveSandbox(arg[t])
    /\ UnusedWorker(w)
    /\ worker' = [worker EXCEPT ![arg[t]] = w]
    /\ pending' = [pending EXCEPT ![arg[t]] = "none"]
    /\ wpc' = [wpc EXCEPT ![w] = "loop"]
    /\ wsess' = [wsess EXCEPT ![w] = arg[t]]
    /\ wbox' = [wbox EXCEPT ![w] = sandbox[arg[t]]]
    /\ lock' = None
    /\ Return(t)
    /\ UNCHANGED <<sandbox, stopping, idle, latest, disk, shut, box>>
    /\ UNCHANGED <<wstop, wevt, inbox, told, tgt, left, held>>

\* sandbox.send_task() raises; only a sandbox started by this call is stopped.
SendTaskFails(t) ==
    /\ \/ /\ pc[t] = "sendOld"
          /\ UNCHANGED <<sandbox, box>>
       \/ /\ pc[t] = "sendNew"
          /\ vm' = [vm EXCEPT ![sandbox[arg[t]]] = "none"]
          /\ home' = [home EXCEPT ![sandbox[arg[t]]] = None]
          /\ sandbox' = [sandbox EXCEPT ![arg[t]] = None]
    /\ AbortStart(t)

\* _handle_worker_error for a task that never got a worker.
ReportStartError(t, outcome) ==
    /\ pc[t] = "failed" /\ lock = None
    /\ PersistDone(arg[t], "empty", outcome)
    /\ Return(t)
    /\ UNCHANGED <<lock, shut, box, wrk, tgt, left, held>>

----------------------------------------------------------------------------
(* seed_state, submit_reply                                                *)

\* main() --resume: the state on disk becomes the session's state before its
\* first task.  Only Yolo sessions can be resumed.
SeedState(s) ==
    /\ ~Fire /\ lock = None
    /\ latest[s] = "none" /\ worker[s] = None /\ sandbox[s] = None
    /\ disk[s] # "none"
    /\ latest' = [latest EXCEPT ![s] = disk[s]]
    /\ UNCHANGED <<worker, pending, sandbox, stopping, idle, disk, lock, shut, box, wrk, thr>>

\* Mutant: the prompt stays pending after a reply.
SubmitReplyKeepsPending(t, s) ==
    /\ pc[t] = "idle" /\ lock = None
    /\ worker[s] # None /\ pending[s] # "none"
    /\ held' = [held EXCEPT ![t] = {worker[s]}]
    /\ Call(t, "reply", s, "put")
    /\ UNCHANGED <<rec, lock, shut, box, wrk, tgt, left>>

SubmitReply(t, s) ==
    /\ pc[t] = "idle" /\ lock = None
    /\ worker[s] # None /\ pending[s] # "none"
    /\ pending' = [pending EXCEPT ![s] = "none"]
    /\ held' = [held EXCEPT ![t] = {worker[s]}]
    /\ Call(t, "reply", s, "put")
    /\ UNCHANGED <<worker, sandbox, stopping, idle, latest, disk, lock, shut, box, wrk, tgt, left>>

\* worker.submit_reply, after the lock has been released
PutReply(t, w) ==
    /\ pc[t] = "put" /\ w \in held[t]
    /\ inbox' = [inbox EXCEPT ![w] = IF Alive(w) THEN Append(@, "reply") ELSE @]
    /\ held' = [held EXCEPT ![t] = {}]
    /\ Return(t)
    /\ UNCHANGED <<rec, lock, shut, box, wpc, wsess, wbox, wstop, wevt, told, tgt, left>>

----------------------------------------------------------------------------
(* stop_session, stop_all, the reaper, and what they share with            *)
(* _retire_stale_sandbox: stop the workers, stop the sandboxes, clear the  *)
(* records.                                                                *)

StopSession(t, s) ==
    /\ pc[t] = "idle" /\ lock = None
    /\ worker' = [worker EXCEPT ![s] = None]
    /\ pending' = [pending EXCEPT ![s] = "none"]
    /\ stopping' = [stopping EXCEPT ![s] = @ \/ sandbox[s] # None]
    /\ idle' = [idle EXCEPT ![s] = "unset"]
    /\ held' = [held EXCEPT ![t] = {worker[s]} \ {None}]
    /\ tgt' = [tgt EXCEPT ![t][s] = sandbox[s]]
    /\ left' = [left EXCEPT ![t] = {s}]
    /\ Call(t, "stop", s, "join")
    /\ UNCHANGED <<sandbox, latest, disk, lock, shut, box, wrk>>

StopAll ==
    /\ Shutdown /\ ~shut /\ pc[Main] = "idle" /\ lock = None
    /\ shut' = TRUE
    /\ worker' = Nobody
    /\ pending' = [s \in Sessions |-> "none"]
    /\ stopping' = [s \in Sessions |-> stopping[s] \/ sandbox[s] # None]
    /\ idle' = [s \in Sessions |-> "unset"]
    /\ held' = [held EXCEPT ![Main] = {worker[s] : s \in Sessions} \ {None}]
    /\ tgt' = [tgt EXCEPT ![Main] = sandbox]
    /\ left' = [left EXCEPT ![Main] = {s \in Sessions : sandbox[s] # None}]
    /\ Call(Main, "stopall", None, "join")
    /\ UNCHANGED <<sandbox, latest, disk, lock, box, wrk>>

\* worker.stop() up to the join
WorkerStop(t, w) ==
    /\ pc[t] = "join" /\ w \in held[t] /\ Alive(w)
    /\ \A x \in held[t] : ~wstop[x]
    /\ wstop' = [wstop EXCEPT ![w] = TRUE]
    /\ inbox' = [inbox EXCEPT ![w] = Append(@, "pill")]
    /\ UNCHANGED <<rec, lock, shut, box, wpc, wsess, wbox, wevt, told, thr>>

\* Mutant: worker.stop() does not wait for the thread.
NoJoin(w) == TRUE

\* A Fire worker outlives the two seconds of the join while it serves a
\* request of the guest or waits for the lock that a booting start_task keeps;
\* a Yolo worker does neither for so long.
MayOutliveJoin(w) ==
    /\ Fire
    /\ wpc[w] = "serving" \/ (lock # None /\ wpc[w] \in {"event", "error", "exit"})

JoinReturns(t, w) ==
    /\ pc[t] = "join" /\ w \in held[t]
    /\ ~Alive(w) \/ (wstop[w] /\ MayOutliveJoin(w))
    /\ held' = [held EXCEPT ![t] = @ \ {w}]
    /\ UNCHANGED <<rec, lock, shut, box, wrk, op, pc, arg, tgt, left>>

AllJoined(t) ==
    /\ pc[t] = "join" /\ held[t] = {}
    /\ Goto(t, "next")
    /\ UNCHANGED <<rec, lock, shut, box, wrk, tgt, left, held>>

\* Where a thread goes when sandbox.stop() has returned for session s:
\* stop_all clears its records in one section at the end, the others one by one.
AfterStop(t, s) ==
    IF op[t] = "stopall"
    THEN /\ left' = [left EXCEPT ![t] = @ \ {s}]
         /\ Goto(t, "next")
    ELSE /\ pc' = [pc EXCEPT ![t] = "clear"]
         /\ arg' = [arg EXCEPT ![t] = s]
         /\ UNCHANGED <<op, left>>

\* There is no sandbox to stop, or FireSandbox.stop() finds that another
\* thread is already in stop() and returns at once.
StopReturnsAtOnce(t, s) ==
    /\ pc[t] = "next" /\ s \in left[t]
    /\ tgt[t][s] # None => (Fire /\ vm[tgt[t][s]] = "stopping")
    /\ AfterStop(t, s)
    /\ UNCHANGED <<rec, lock, shut, box, wrk, tgt, held>>

\* sandbox.stop() is entered ...
StopSandbox(t, s) ==
    /\ pc[t] = "next" /\ s \in left[t] /\ tgt[t][s] # None
    /\ ~(Fire /\ vm[tgt[t][s]] = "stopping")
    /\ vm' = [vm EXCEPT ![tgt[t][s]] = IF Fire /\ @ # "none" THEN "stopping" ELSE @]
    /\ pc' = [pc EXCEPT ![t] = "tear"]
    /\ arg' = [arg EXCEPT ![t] = s]
    /\ UNCHANGED <<rec, lock, shut, home, wrk, op, tgt, left, held>>

\* ... and returns: processes, devices and transports are gone.
TearDownEnds(t) ==
    /\ pc[t] = "tear"
    /\ vm' = [vm EXCEPT ![tgt[t][arg[t]]] = "none"]
    /\ home' = [home EXCEPT ![tgt[t][arg[t]]] = None]
    /\ AfterStop(t, arg[t])
    /\ UNCHANGED <<rec, lock, shut, wrk, tgt, held>>

\* Mutant: the sandbox is forgotten, the flag is not reset.
ClearKeepsFlag(t, S) ==
    /\ sandbox' = [s \in Sessions |->
                     IF s \in S /\ sandbox[s] = tgt[t][s] THEN None ELSE sandbox[s]]
    /\ tgt' = [tgt EXCEPT ![t] = [s \in Sessions |-> IF s \in S THEN None ELSE @[s]]]
    /\ UNCHANGED <<worker, pending, stopping, idle, latest, disk>>

\* Mutant: the record's sandbox is forgotten whichever it is.
ClearWhateverIsThere(t, S) ==
    /\ sandbox' = [s \in Sessions |-> IF s \in S THEN None ELSE sandbox[s]]
    /\ stopping' = [s \in Sessions |-> IF s \in S THEN FALSE ELSE stopping[s]]
    /\ tgt' = [tgt EXCEPT ![t] = [s \in Sessions |-> IF s \in S THEN None ELSE @[s]]]
    /\ UNCHANGED <<worker, pending, idle, latest, disk>>

\* Every record-clearing section: only the sandbox that was stopped is
\* forgotten, and the session stops being "stopping".
ClearRecords(t, S) ==
    /\ sandbox' = [s \in Sessions |->
                     IF s \in S /\ sandbox[s] = tgt[t][s] THEN None ELSE sandbox[s]]
    /\ stopping' = [s \in Sessions |-> IF s \in S THEN FALSE ELSE stopping[s]]
    /\ tgt' = [tgt EXCEPT ![t] = [s \in Sessions |-> IF s \in S THEN None ELSE @[s]]]
    /\ UNCHANGED <<worker, pending, idle, latest, disk>>

Clear(t) ==
    /\ pc[t] = "clear" /\ lock = None
    /\ ClearRecords(t, {arg[t]})
    /\ left' = [left EXCEPT ![t] = @ \ {arg[t]}]
    /\ \/ left[t] # {arg[t]} /\ Goto(t, "next")
       \/ left[t] = {arg[t]} /\ op[t] = "start" /\ Goto(t, "admit")
       \/ left[t] = {arg[t]} /\ op[t] # "start" /\ Return(t)
    /\ UNCHANGED <<lock, shut, box, wrk, held>>

ClearAll ==
    /\ op[Main] = "stopall" /\ pc[Main] = "next" /\ left[Main] = {} /\ lock = None
    /\ ClearRecords(Main, {s \in Sessions : tgt[Main][s] # None})
    /\ Return(Main)
    /\ UNCHANGED <<lock, shut, box, wrk, left, held>>

\* Mutant: the reaper does not look for a live worker.
ExpiredWithWorker(s) ==
    LiveSandbox(s) /\ ~stopping[s] /\ idle[s] = "expired"

Expired(s) ==
    /\ LiveSandbox(s) /\ ~stopping[s] /\ ~LiveWorker(s)
    /\ idle[s] = "expired"

\* One pass of _run_idle_reaper
Reap ==
    LET due == {s \in Sessions : Expired(s)} IN
    /\ pc[Reaper] = "idle" /\ lock = None /\ ~shut /\ due # {}
    /\ stopping' = [s \in Sessions |-> stopping[s] \/ s \in due]
    /\ idle' = [s \in Sessions |-> IF s \in due THEN "unset" ELSE idle[s]]
    /\ tgt' = [tgt EXCEPT ![Reaper] = [s \in Sessions |-> IF s \in due THEN sandbox[s] ELSE None]]
    /\ left' = [left EXCEPT ![Reaper] = due]
    /\ Call(Reaper, "reap", None, "next")
    /\ UNCHANGED <<worker, pending, sandbox, latest, disk, lock, shut, box, wrk, held>>

\* session_idle_timeout_seconds have passed since last_task_completed_at.
Age(s) ==
    /\ IdleTimeout /\ idle[s] = "fresh"
    /\ idle' = [idle EXCEPT ![s] = "expired"]
    /\ UNCHANGED <<worker, pending, sandbox, stopping, latest, disk, lock, shut, box, wrk, thr>>

----------------------------------------------------------------------------
(* _SessionWorker._run.  Events that change nothing here (status messages, *)
(* action events, a plan that needs no approval) are not steps.  A receive *)
(* that began before the stop event was set and ends after it commutes     *)
(* with the setting, so the loop's check and the receive are one step.     *)

WorkerGoes(w, stage) ==
    /\ wpc' = [wpc EXCEPT ![w] = stage]
    /\ UNCHANGED <<wsess, wbox, wstop, told>>

Quiet == UNCHANGED <<rec, lock, shut, box, thr>>

Receive(w, event) ==
    /\ wpc[w] = "loop" /\ ~wstop[w] /\ Connected(wbox[w])
    /\ wevt' = [wevt EXCEPT ![w] = event]
    /\ WorkerGoes(w, "event")
    /\ Quiet /\ UNCHANGED inbox

\* receive() answers the guest's broker and LLM requests itself.
ServeRequest(w) ==
    /\ Fire
    /\ wpc[w] = "loop" /\ ~wstop[w] /\ Connected(wbox[w])
    /\ WorkerGoes(w, "serving")
    /\ Quiet /\ UNCHANGED <<wevt, inbox>>

\* Mutant: a request in flight is not given up when the sandbox is stopped.
ServeHangs(w) ==
    /\ wpc[w] = "serving" /\ Connected(wbox[w])
    /\ WorkerGoes(w, "loop")
    /\ Quiet /\ UNCHANGED <<wevt, inbox>>

ServeEnds(w) ==
    /\ wpc[w] = "serving"
    /\ \/ Connected(wbox[w]) /\ WorkerGoes(w, "loop")
       \/ ~IsRunning(wbox[w]) /\ WorkerGoes(w, "error")
    /\ Quiet /\ UNCHANGED <<wevt, inbox>>

\* Mutant: the loop goes on when receive() raises.
ReceiveAgain(w) ==
    /\ wpc[w] = "loop" /\ ~wstop[w] /\ ~IsRunning(wbox[w])
    /\ WorkerGoes(w, "loop")
    /\ Quiet /\ UNCHANGED <<wevt, inbox>>

\* Mutant: a dead sandbox ends the worker without an error report.
ReceiveFailsSilently(w) ==
    /\ wpc[w] = "loop" /\ ~wstop[w] /\ ~IsRunning(wbox[w])
    /\ WorkerGoes(w, "exit")
    /\ Quiet /\ UNCHANGED <<wevt, inbox>>

ReceiveFails(w) ==
    /\ wpc[w] = "loop" /\ ~wstop[w] /\ ~IsRunning(wbox[w])
    /\ WorkerGoes(w, "error")
    /\ Quiet /\ UNCHANGED <<wevt, inbox>>

\* Mutant: any event waits for a reply.
EveryEventPrompts(w) ==
    /\ wpc[w] = "event" /\ lock = None
    /\ pending' = [pending EXCEPT ![wsess[w]] = wevt[w]]
    /\ wevt' = [wevt EXCEPT ![w] = "none"]
    /\ WorkerGoes(w, "prompt")
    /\ UNCHANGED <<worker, sandbox, stopping, idle, latest, disk, lock, shut, box, thr, inbox>>

\* Mutant: a clarification is shown but not recorded as pending.
PromptNotRecorded(w) ==
    /\ wpc[w] = "event" /\ wevt[w] \in Roles /\ lock = None
    /\ wevt' = [wevt EXCEPT ![w] = "none"]
    /\ WorkerGoes(w, "prompt")
    /\ UNCHANGED <<rec, lock, shut, box, thr, inbox>>

\* _handle_worker_event of a prompt, after which the worker waits for a reply
HandlePrompt(w) ==
    /\ wpc[w] = "event" /\ wevt[w] \in Roles /\ lock = None
    /\ pending' = [pending EXCEPT ![wsess[w]] = wevt[w]]
    /\ wevt' = [wevt EXCEPT ![w] = "none"]
    /\ WorkerGoes(w, "prompt")
    /\ UNCHANGED <<worker, sandbox, stopping, idle, latest, disk, lock, shut, box, thr, inbox>>

\* _handle_worker_event of the agent's done event
HandleDone(w, outcome) ==
    /\ wpc[w] = "event" /\ wevt[w] = "done" /\ lock = None
    /\ PersistDone(wsess[w], "saved", outcome)
    /\ wevt' = [wevt EXCEPT ![w] = "none"]
    /\ wpc' = [wpc EXCEPT ![w] = IF outcome = "ok" THEN "exit" ELSE "error"]
    /\ told' = [told EXCEPT ![w] = IF outcome = "ok" THEN @ + 1 ELSE @]
    /\ UNCHANGED <<wsess, wbox, wstop, inbox, lock, shut, box, thr>>

\* _wait_for_reply gets an item of the queue.
TakeReply(w) ==
    /\ wpc[w] = "prompt" /\ inbox[w] # <<>>
    /\ inbox' = [inbox EXCEPT ![w] = Tail(@)]
    /\ WorkerGoes(w, IF Head(inbox[w]) = "reply" THEN "send" ELSE "exit")
    /\ Quiet /\ UNCHANGED wevt

SendReply(w) ==
    /\ wpc[w] = "send"
    /\ \/ Connected(wbox[w]) /\ WorkerGoes(w, "loop")
       \/ ~IsRunning(wbox[w]) /\ WorkerGoes(w, "error")
    /\ Quiet /\ UNCHANGED <<wevt, inbox>>

\* The loop of _run or of _wait_for_reply sees the stop event.
SeeStop(w) ==
    /\ wpc[w] \in {"loop", "prompt"} /\ wstop[w]
    /\ WorkerGoes(w, "exit")
    /\ Quiet /\ UNCHANGED <<wevt, inbox>>

\* Mutant: an error is shown to the adapter but not persisted.
ReportErrorUnsaved(w, outcome) ==
    /\ wpc[w] = "error" /\ lock = None
    /\ wpc' = [wpc EXCEPT ![w] = "exit"]
    /\ told' = [told EXCEPT ![w] = IF outcome = "ok" THEN @ + 1 ELSE @]
    /\ UNCHANGED <<rec, wsess, wbox, wstop, wevt, inbox, lock, shut, box, thr>>

\* _handle_worker_error: a done event with an empty state, which may itself
\* fail to be saved
ReportError(w, outcome) ==
    /\ wpc[w] = "error" /\ lock = None
    /\ PersistDone(wsess[w], "empty", outcome)
    /\ wpc' = [wpc EXCEPT ![w] = "exit"]
    /\ told' = [told EXCEPT ![w] = IF outcome = "ok" THEN @ + 1 ELSE @]
    /\ UNCHANGED <<wsess, wbox, wstop, wevt, inbox, lock, shut, box, thr>>

\* _handle_worker_exit, and the thread is dead
WorkerExit(w) ==
    /\ wpc[w] = "exit" /\ lock = None
    /\ worker' = [worker EXCEPT ![wsess[w]] = None]
    /\ pending' = [pending EXCEPT ![wsess[w]] = "none"]
    /\ wpc' = [wpc EXCEPT ![w] = "free"]
    /\ wsess' = [wsess EXCEPT ![w] = None]
    /\ wbox' = [wbox EXCEPT ![w] = None]
    /\ wstop' = [wstop EXCEPT ![w] = FALSE]
    /\ wevt' = [wevt EXCEPT ![w] = "none"]
    /\ inbox' = [inbox EXCEPT ![w] = <<>>]
    /\ told' = [told EXCEPT ![w] = 0]
    /\ UNCHANGED <<sandbox, stopping, idle, latest, disk, lock, shut, box, thr>>

\* The VM exits, or the Yolo agent thread fails.
Crash(b) ==
    /\ Crashes /\ IsRunning(b)
    /\ vm' = [vm EXCEPT ![b] = "crashed"]
    /\ UNCHANGED <<rec, lock, shut, home, wrk, thr>>

----------------------------------------------------------------------------
DoneOutcomes == {"ok"} \cup StoreFaults
ErrorOutcomes == {"ok"} \cup (StoreFaults \cap {"nosave"})

CallerStep(t) ==
    \/ \E s \in Sessions :
          \/ StartRetiring(t, s)
          \/ StartTask(t, s)
          \/ SubmitReply(t, s)
    \/ \E s \in Stoppable : StopSession(t, s)

StarterStep(t) ==
    \/ Refuse(t)
    \/ Admit(t)
    \/ BootReuse(t)
    \/ \E b \in Sandboxes : BootFresh(t, b)
    \/ BootFails(t)
    \/ \E w \in Workers : SendTask(t, w)
    \/ SendTaskFails(t)
    \/ \E o \in ErrorOutcomes : ReportStartError(t, o)
    \/ \E w \in Workers : PutReply(t, w)

StopperStep(t) ==
    \/ \E w \in Workers : WorkerStop(t, w) \/ JoinReturns(t, w)
    \/ AllJoined(t)
    \/ \E s \in Sessions : StopReturnsAtOnce(t, s) \/ StopSandbox(t, s)
    \/ TearDownEnds(t)
    \/ Clear(t)

LockedWorkerStep(w) ==
    \/ HandlePrompt(w)
    \/ \E o \in DoneOutcomes : HandleDone(w, o)
    \/ \E o \in ErrorOutcomes : ReportError(w, o)
    \/ WorkerExit(w)

WorkerStep(w) ==
    \/ \E e \in Roles \cup {"done"} : Receive(w, e)
    \/ ServeRequest(w)
    \/ ServeEnds(w)
    \/ ReceiveFails(w)
    \/ TakeReply(w)
    \/ SendReply(w)
    \/ SeeStop(w)
    \/ LockedWorkerStep(w)

Next ==
    \/ \E t \in Callers : CallerStep(t) \/ StarterStep(t)
    \/ \E t \in Threads : StopperStep(t)
    \/ StopAll
    \/ ClearAll
    \/ Reap
    \/ \E w \in Workers : WorkerStep(w)
    \/ \E s \in Sessions : SeedState(s) \/ Age(s)
    \/ \E b \in Sandboxes : Crash(b)

Spec == Init /\ [][Next]_vars

----------------------------------------------------------------------------
(* Invariants.                                                             *)

OrNone(S) == S \cup {None}

\* Every variable keeps its type: records refer to known workers and
\* sandboxes, and a thread's stage is one of the stages of the code.
TypeOK ==
    /\ worker \in [Sessions -> OrNone(Workers)]
    /\ pending \in [Sessions -> Roles \cup {"none"}]
    /\ sandbox \in [Sessions -> OrNone(Sandboxes)]
    /\ stopping \in [Sessions -> BOOLEAN]
    /\ idle \in [Sessions -> {"unset", "fresh", "expired"}]
    /\ latest \in [Sessions -> StateValues]
    /\ disk \in [Sessions -> StateValues]
    /\ lock \in OrNone(Callers)
    /\ shut \in BOOLEAN
    /\ vm \in [Sandboxes -> {"none", "running", "crashed", "stopping"}]
    /\ home \in [Sandboxes -> OrNone(Sessions)]
    /\ wpc \in [Workers -> {"free", "loop", "serving", "event", "prompt", "send", "error", "exit"}]
    /\ wsess \in [Workers -> OrNone(Sessions)]
    /\ wbox \in [Workers -> OrNone(Sandboxes)]
    /\ wstop \in [Workers -> BOOLEAN]
    /\ wevt \in [Workers -> Roles \cup {"none", "done"}]
    /\ inbox \in [Workers -> Seq({"reply", "pill"})]
    /\ told \in [Workers -> Nat]
    /\ op \in [Threads -> {"none", "start", "reply", "stop", "stopall", "reap"}]
    /\ pc \in [Threads -> {"idle", "join", "next", "tear", "clear", "admit", "boot",
                           "sendOld", "sendNew", "failed", "put"}]
    /\ arg \in [Threads -> OrNone(Sessions)]
    /\ tgt \in [Threads -> [Sessions -> OrNone(Sandboxes)]]
    /\ left \in [Threads -> SUBSET Sessions]
    /\ held \in [Threads -> SUBSET Workers]

\* A session that answers "busy" because it is stopping has a thread that is
\* going to clear the flag, whatever mixture of start_task, stop_session,
\* stop_all and reaper passes stops its sandbox: no session is wedged.
StoppingHasStopper ==
    \A s \in Sessions : stopping[s] => \E t \in Threads : s \in left[t] \/ tgt[t][s] # None

\* A sandbox that runs is the sandbox of a session's record: no thread clears
\* or replaces the only reference to a VM that has not been stopped.
NoRunningOrphan ==
    \A b \in Sandboxes : IsRunning(b) => \E s \in Sessions : sandbox[s] = b

\* Sessions that use capacity: a live worker, or (Fire) a running VM
Active == {s \in Sessions : LiveWorker(s) \/ (Fire /\ LiveSandbox(s))}

\* max_active_sessions bounds the sessions with a worker or a VM at all times,
\* although the admission looks at other sessions' sandboxes that may crash or
\* be stopped, without the lock, while the new one boots.
CapacityRespected == Cardinality(Active) <= MaxActive

\* The worker has neither finished nor been taken over by a stop.
Driving(w) ==
    /\ Alive(w) /\ wpc[w] # "exit" /\ ~wstop[w]
    /\ \A t \in Threads : pc[t] = "join" => w \notin held[t]

\* A session has one worker that drives a task, the record's: no worker works
\* on behind the record's back, and no two take the events of one sandbox.
OneWorkerPerSession ==
    \A w \in Workers : Driving(w) => worker[wsess[w]] = w

\* A worker that waits for the user can be answered: its session shows a
\* pending prompt, or the answer is on its way to it.
PromptAnswerable ==
    \A w \in Workers :
        wpc[w] = "prompt" /\ Driving(w) =>
            \/ worker[wsess[w]] = w /\ pending[wsess[w]] # "none"
            \/ inbox[w] # <<>>
            \/ \E t \in Threads : pc[t] = "put" /\ w \in held[t]

\* How many replies are on their way to w
Replies(w) ==
    Cardinality({i \in DOMAIN inbox[w] : inbox[w][i] = "reply"})
        + Cardinality({t \in Threads : pc[t] = "put" /\ w \in held[t]})

\* A reply only ever goes to the prompt it answers: none is queued for a
\* prompt that has not been shown yet, nor two for the same one.
ReplyAnswersPrompt ==
    \A w \in Workers :
        /\ Replies(w) <= 1
        /\ Replies(w) = 1 /\ ~wstop[w] => wpc[w] = "prompt"

\* The sandbox that the reaper stops has no worker with a task in it.
ReaperSparesActiveTasks ==
    \A s \in left[Reaper], w \in Workers :
        wbox[w] = tgt[Reaper][s] => ~Driving(w)

\* The adapter hears of the end of a task exactly once: from a worker that
\* leaves without having been stopped, even if the output files or the VM
\* failed on the way.
DoneOnce ==
    \A w \in Workers :
        /\ told[w] <= 1
        /\ wpc[w] = "exit" /\ ~wstop[w] => told[w] = 1

\* Some error report of session s is still to come.
ErrorDue(s) ==
    \/ \E w \in Workers : wsess[w] = s /\ wpc[w] = "error"
    \/ \E t \in Threads : arg[t] = s /\ pc[t] = "failed"

\* What the next task is told of the past is what --resume would read:
\* latest_state and state.json agree once the session's errors are reported.
MemoryMatchesDisk ==
    \A s \in Sessions :
        latest[s] # "none" /\ ~ErrorDue(s) => latest[s] = disk[s]

\* Whatever sandbox holds host resources is its session's, or a thread is
\* about to stop it: a dead VM that start_task has not retired, because it died
\* after the look at it, is not replaced and forgotten.
NoLeakedSandbox ==
    \A b \in Sandboxes :
        vm[b] # "none" => \/ \E s \in Sessions : sandbox[s] = b
                          \/ \E t \in Threads, s \in Sessions : tgt[t][s] = b

----------------------------------------------------------------------------
(* Action properties and liveness.                                         *)

\* When stop_session returns, nothing of the session is left: no sandbox in
\* its record and no worker thread, even if the reaper or a crash got there
\* first.
StopIsFinal ==
    [][\A t \in Callers, s \in Sessions :
          op[t] = "stop" /\ arg[t] = s /\ pc[t] = "clear" /\ pc'[t] = "idle" =>
              sandbox'[s] = None /\ \A w \in Workers : wsess'[w] # s]_vars

\* Host threads run; a thread that waits for the lock gets it if it is free
\* again and again (start_task gives it up after a bounded boot); the agent
\* finishes the tasks it works on (its loop is bounded) or its sandbox fails;
\* the user need not answer, nor send anything.
Fairness ==
    /\ \A t \in Threads :
         /\ WF_vars(StopperStep(t)) /\ SF_vars(Clear(t))
         /\ SF_vars(StarterStep(t))
    /\ SF_vars(ClearAll)
    /\ \A w \in Workers :
         /\ WF_vars(ServeEnds(w) \/ TakeReply(w) \/ SendReply(w) \/ SeeStop(w))
         /\ SF_vars(LockedWorkerStep(w))
         /\ SF_vars(Receive(w, "done")) /\ WF_vars(ReceiveFails(w))

FairSpec == Spec /\ Fairness

\* A session does not stay "busy" because of a stop: every stop, retirement
\* and reaper pass comes to its end.
StoppingEnds == \A s \in Sessions : stopping[s] ~> ~stopping[s]

\* A worker with a task comes to its end or to a question for the user, also
\* when its VM dies under it or it is stopped in the middle of a request.
TaskSettles == \A w \in Workers : wpc[w] = "loop" ~> wpc[w] \in {"free", "prompt"}

\* A worker that was told to stop does so, waiting for the user or not.
StopReachesWorker == \A w \in Workers : wstop[w] ~> ~wstop[w]

=============================================================================
