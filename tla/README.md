# strangeClaw: TLA+ models, model checking and proofs

strangeClaw runs an LLM agent for a user who talks to it over a terminal or Telegram. The agent
works in a sandbox: a Firecracker microVM ("Fire") or a thread of the host program ("Yolo"). This
directory holds TLA+ models of the program's control logic, the TLC runs that check them on small
instances, and TLAPS proofs of the results that hold for every instance.

## The system

| Part | Source | State | Operations | Hard behaviour |
|---|---|---|---|---|
| Coordinator | `coordinator.py` | one record per session (worker, pending prompt, sandbox, `sandbox_stopping`, latest state, time of the last task), one lock | `start_task`, `submit_reply`, `stop_session`, `stop_all`, `seed_state`, idle reaper | sections under the lock with slow calls (boot, stop, join) between or inside them; several threads stop one sandbox |
| Session worker | `coordinator.py` | one thread per task: stop flag, queue of replies | receive, prompt and reply, done, error, exit | joins with a timeout; a host request runs inside `receive`; persisting may fail |
| Fire sandbox | `sandbox/fire.py` | TAP device, iptables rules, CID lease, temp directory, process, vsock connection | `start`, `stop`, `send_task`, `receive`, signal and exit handlers | a dozen acquisitions, each of which can fail; resources shared by programs; kills and signals |
| Cleanup script | `scripts/cleanup-fire.sh` | none | removes what dead programs left | has to recognise what is whose |
| Yolo sandbox | `sandbox/yolo.py` | agent thread, queue pair | `start`, `stop`, `receive` | the agent thread fails by itself |
| Session store | `session.py`, `adapters/session_persistence.py` | `state.json`, output files, event journal | save a done event, append to the journal | one write of several fails; journal bound |
| Adapters | `adapters/cli.py`, `adapters/telegram.py` | queue of events; event loop, typing tasks | user input to coordinator calls, events to output | prompts and ends of tasks come from worker threads, coroutines overtake each other, polling fails |
| Entry point | `main.py` | adapters, coordinator | start, ordered shutdown | adapters still run while `stop_all` does |
| Agent loop | `agent/agent.py`, `agent/protocol.py` | messages, phase, iteration, pending control calls | plan, execute, ask, finish | budgets, malformed answers, stop in the middle |
| Subagents | `agent/subagents.py` | nested loop with its own budget | run, report | limits of depth, time and iterations |
| Tools, skills | `agent/tools.py`, `agent/skills.py` | loaded skills | shell, files, load | truncation, bounds |
| Host services | `agent/broker_client.py`, `agent/llm_proxy.py`, `agent/transport.py`, `sandbox/host_services.py`, `sandbox/llm_service.py` | request ids | call, serve, answer | timeouts, late answers, events that arrive while waiting |
| Request broker | `sandbox/broker.py`, `host_secrets.py` | token bucket, credentials | check, forward, redirect, redact | redirects across policies, truncation, rate limit |
| LLM client | `agent/llm.py` | whether native tool calls have been probed, and the mode found | complete, probe | the probe is counted before it has ended |
| Configuration, scripts | `config.py`, `scripts/` | none | validate, set up | none |

An adapter thread calls the coordinator. `start_task` boots or reuses the session's sandbox, sends the
task and starts a worker thread. The worker receives the agent's events, records prompts and the
end of the task under the coordinator's lock and calls the adapter's sink. Host requests of a Fire guest are
served inside the worker's `receive`. The reaper stops idle sandboxes. `main()` ends with `stop_all`.

What makes each part right:

* Coordinator: at most `max_active_sessions` sessions with a worker or VM; one worker per session; a
  reply reaches the prompt it answers; every task has one end; a stop leaves nothing behind, never
  loses a VM and never leaves a session "busy"; what is in memory is what is on disk.
* Fire sandbox: a guest never runs without its isolation, never shares a subnet or CID, and nothing
  of it outlives `stop()`, at whichever step `start()` fails.
* Agent loop: every task ends in one done event within its budgets; control messages are obeyed.
* Host services: an answer goes to its own request; a lost answer ends in a timeout.
* Broker: no request beyond the policy, redirects included; no secret in an answer.
* LLM client: a mode is used only if the provider has taken it.
* Adapters: a reply answers the prompt that waits, no event is taken for one of another task, every
  turn of the user is announced, the shutdown ends with no task left.
* Store: a journal within its bound; memory and `state.json` agree.

## Modules

| Module | Contents |
|---|---|
| `Session` | abstract: whose turn it is in a session, and what the user has consented to |
| `Coordinator`, `MCCoordinator` | coordinator, workers, reaper, adapter threads, sandboxes as the coordinator sees them; symmetry for TLC |
| `CoordinatorEvents` | `Coordinator` with the events that its sinks are given and the user's consents; the refinement of `SessionWorker` |
| `CoordinatorProofs` | theorems about `Coordinator`: types, stops, running sandboxes, capacity |
| `CoordinatorTaskProofs` | more of them: ends of tasks, memory and disk, sandboxes with resources |
| `CoordinatorCallsProofs` | more of them: workers, prompts and replies, the reaper; each session is a `SessionWorker` |
| `FireHost`, `MCFireHost` | host resources of Fire sandboxes of several programs; which sandbox belongs to which session, who may be killed or signalled |
| `FireHostProofs` | theorems about `FireHost` while guests run: isolation, distinct guests |
| `FireHostCleanupProofs` | theorems about what is left: answers, guests and devices, rules, leases |
| `AgentLoop`, `MCAgentLoop` | a Fire guest's agent, its child and the worker that drives it, over their event streams; request ids and the refinement of `Session` |
| `AgentLoopProofs` | theorems about `AgentLoop` and the safety half of its refinement of `Session` |
| `Broker` | the request broker: policies, redirects, rate limits |
| `LlmClient` | the probe of native tool calls and what completions use |
| `HostServices`, `MCHostServices` | broker and LLM client of one host together, and redaction; policies, URLs and texts for TLC |
| `BrokerProofs` | theorems about `Broker`, `LlmClient` and the host that has both |
| `SessionWorker` | a session as an adapter meets it: `Session` with the worker thread that hands events to a sink, and what stops and failed starts leave |
| `CliAdapter`, `TelegramAdapter` | the adapters, each over a `SessionWorker` |
| `Program` | both adapters in one program, and its shutdown |
| `ProgramProofs` | theorems about `Program` |
| `Journal` | the event journal of a session |
| `ExitHandlers` | the SIGINT handlers of several Fire sandboxes in one program |

Definitions marked "Mutant" are plausible bugs. Each replaces the definition that follows it (as
listed in `PROJECT.json`) to show that the property it is listed with can fail; the specifications do not use them.

### Coordinator

| Variables | Code |
|---|---|
| `worker, pending, sandbox, stopping, idle, latest` | fields of `_SessionRecord` (`idle` abstracts `last_task_completed_at`: unset, recent, older than the timeout) |
| `disk` | `state.json` (`none`, `empty` = `{}`, `saved`) |
| `lock` | who holds `_lock` across a boot; every other section under the lock is one step |
| `shut` | `_idle_reaper_stop` |
| `vm, home` | sandbox objects: not started, running, dead with its resources still there, in `stop()`; and the session they are for |
| `wpc, wsess, wbox, wstop, wevt, inbox, told` | a worker's stage, session, sandbox, stop flag, received event, reply queue (`pill` is the `None` that `stop()` puts), done events delivered |
| `op, pc, arg, tgt, left, held` | locals of a call: which call, stage, session, sandboxes to stop, sessions left, workers to join |

`start_task` is `StartRetiring` (when the old sandbox is dead: flag it, stop it, clear it) or
`StartTask`, then `Refuse` or `Admit`, `BootReuse`, `BootFresh` or `BootFails`, and `SendTask` or
`SendTaskFails`, all under the lock from `Admit` on, and `ReportStartError`. Stops are `StopSession`,
`StopAll` or `Reap`, then `WorkerStop` and `JoinReturns` for each worker, `StopSandbox` with
`TearDownEnds` or `StopReturnsAtOnce` for each sandbox, and `Clear` or `ClearAll`. A Fire worker in
`ServeRequest` may outlive the join (`MayOutliveJoin`), since a broker or LLM call may take longer than two seconds.
A Fire `stop()` returns at once when another is under way. A new VM needs the TAP name of its
session (`TapFree`). `Crash` is a VM that exits or a Yolo agent thread that fails. Persisting may
fail before the state is saved (`nosave`) or after it, at the output files (`nofiles`).

`CoordinatorEvents` adds what adapters meet of it. `out` is the event that a thread has recorded under the
lock and is handing to its session's sink (`Emit`): the thread does nothing else meanwhile, other threads do.
A `done` whose lock section raises is not emitted. `consent` is a history variable: the user has approved the plan shown last.
An event that `receive` brings is any that the agent may send (`MaySay`): in review mode it asks about
its work only after an approval, which is what `ShowsSession` proves of the agent. `SessionsAreWorkers` maps
each session to `SessionWorker`: `turn` is the pending role, "agent" while the record's worker is at work, or "idle";
`alive` is that worker's thread; `leaving` is a thread that a stop has taken from the record and that
may still hand on an event or has left a prompt pending.

### FireHost

| Variables | Code |
|---|---|
| `tap` | subnet of the device named after each session, or None |
| `nat, fwd, inp` | copies of the MASQUERADE, FORWARD ACCEPT and INPUT DROP rules |
| `ct` | copies of the shared conntrack rule |
| `leases, counter` | the CID file and the TAP counter file (modulo the number of subnets) |
| `vm` | the firecracker processes, with the network and CID they were configured with |
| `pc` | the next command of `start()` or `stop()` |
| `made` | result of `create()` or `allocate()` that has not been assigned yet |
| `alloc, cid, tmp` | `_allocation`, `_guest_cid`, `_session_temp_dir` |
| `back` | where `start()` goes on when the signal handler has returned |

There is one action per command that changes the host. `StartFails`, `CreateTapFails` and
`SetUpTapFails` are the error paths; all lead to `stop()`, which looks at the fields only.
`Interrupt` is SIGINT in the thread that runs `start()`: `_handle_exit_signal` runs `stop()`, which puts
the previous handlers back and forgets them, so that the previous one is not called. No KeyboardInterrupt is raised;
`start()` goes on where it was (`back`), with its fields cleared, until a step that needs one of
them raises. A signal inside `IptablesManager.apply` thus makes `stop()` delete the rules that are there, and
`apply` then adds the rest, which nobody deletes. That is why `NoRuleLeftUnlessSignalled` (in
`MCFireHost`) excepts it. A second SIGINT ends `start()` as `Kill` does.
`Kill` is the death of a program without handlers: guest and resources
stay. `Cleanup` is the script, run when no program is up. Deleting a rule that does not exist does
nothing (`Less`). Drawing a subnet, looking at the addresses in use and creating the device are one step:
for another program to take the same subnet in between, the counter would have to go through all
16384 subnets.

### AgentLoop

| Variables | Code |
|---|---|
| `toGuest, toHost` | the vsock stream in each direction, in order |
| `host, serving` | what `_SessionWorker._run` is doing: no task, `receive`, a request inside `receive`, waiting for the user's reply to a plan or a clarification |
| `saved` | the plan in the session's latest state |
| `cur, pc` | whether the parent or its child runs, and the stage of each: the service call or reply it is at |
| `phase` | before or in the loop of `_run_task`: decides who handles an `AgentError` |
| `iter, errs, tries, kids` | iteration, `llm_runtime_error_count`, looks at the plan's skills, children spawned |
| `draft, plan` | the plan that planning works on, and the task's plan |
| `req` | the request `BrokerClient._call_fire` waits for |

An LLM completion, a token count, a list of integrations and a web tool are all requests (`Call`)
on the stream that also brings tasks and replies. `Discard` and `Drop` are the events that the
code throws away while it waits for something else. `Returns` is the answer, or a timeout, which
needs an empty stream. The host serves a request even when the guest has given it up, and its
answer comes late. What a decision says is a choice among the actions `Choose...`; every malformed
or refused one is an `Observation`. Status and action events are only passed on and are left out.
One call stands for the several that building a prompt may make. A plan is known by whether its
skills exist and whether the user has approved it in the task that runs.

`Session` is the specification of what a user of a session may rely on. `MCAgentLoop` maps
`AgentLoop` to it: `turn` from the prompts and ends of tasks that the worker has seen, `consent` from a history variable
that follows the replies to plans. `IsSession` says that every step of guest, child, worker and
streams is a step of `Session` or none, and that the agent's turns end, in a bounded loop with
timeouts, errors, replans and a child. `SessionWorker` extends the same `Session`.

### Broker, LlmClient, HostServices

| Variables | Code |
|---|---|
| `call` | the request that is served, its current URL and `redirects_followed` |
| `sent` | the requests of the call that went out, with the integration whose token they carry and the addresses that `_ssrf_check` saw |
| `answer, body` | what the handler returned |
| `tokens, since, admitted` | `_tokens`, the time since `_last_refill`, and as history the ages of what was let through |
| `config, ran, resolved, left, using, found` | of the LLM client: its configuration, `_native_probe_ran`, `_native_tool_choice_resolved`, modes still to probe, what the completion uses, and as history what was found |

`Begin` is a handler up to the first `_execute`; `Deny` and `Limit` are its early returns; `Redirected`,
`HopFails` and `HopAnswers` are the ends of one round of `_execute_with_redirects`. URLs are scheme,
host and path; Location headers may lack any of scheme and host, as in `urljoin`. A host resolves to any set of public
and private addresses, anew for each hop. The patterns of hosts, paths and methods in a policy are
the sets of what they match. The limiter counts in whole units (`Requests` of them come back in a tick, a
request costs `Period`), which leaves out the rounding of floats. `HostServices` takes broker and LLM client in
turns, as `handle_incoming` does, and adds `_redact_value` on the texts that servers return.

Two things that the code does and no document settles: with `native_fallback_to_prompt` off, the
first completion fails when no mode works, but all later ones use the prompt (`_native_probe_ran` is
set and the resolved mode is None); and `web_search` is not rate-limited, since it passes no
`rate_limit_key`.

### SessionWorker, CliAdapter, TelegramAdapter, Program

`SessionWorker` is the coordinator as an adapter meets it: a worker's event changes the session's turn under the
lock (`Asks`, `Ends`), reaches the sink in a later step (`Emitted`), and the thread goes after
that (`Exits`), so that a `start_task` in between is "busy". A start that fails tells of an end
without a worker (`StartFails`). A stop ends the task for the record (`StopTask`); its worker may still hand on one event
(`LatePrompt`, `LateEnd`) before it is gone (`Leaves`), and a prompt that it leaves pending cannot be answered (`Answerable`).

The models of the layers meet here. The agent's stream (`AgentLoop`) implements `Session`; each session of the
coordinator (`CoordinatorEvents`) implements `SessionWorker`, if the agent keeps to `Session`; the adapters
and `Program` are checked over `SessionWorker` and know no more of coordinator and agent. One step of this chain is by reading alone: that `stop_all` of
the shutdown is the `StopTask` of each session (the refinement covers `stop_session`).

`CliAdapter` is one thread (`at` is where
it is in `_run_with_coordinator`) and a queue. In `TelegramAdapter` the handler of a text is three
steps without an await: the look at the pending role, `submit_reply` or `start_task`, and the typing task; the loop does nothing else
meanwhile (`LoopFree`), but worker threads do. Events are scheduled on the loop in order and shown in any order, since their coroutines
wait for the network; a send may fail. `run_polling` may fail and is called again, on the same event
loop: that is how the library is taken to behave, and what the loop had to do may or may not survive it.
`Program` puts both next to each other, with Ctrl-C and the `finally` of `main()`. A chat's handler that
starts a task after `stop_all` (`late`) leaves it running; `NothingLeftRunning` excepts exactly that.
`stop()` during the pause of a reconnect finds no application and has no effect; the program ends
because the thread is a daemon.

### Journal, ExitHandlers

A journal is the sequence of its lines' lengths; `AppendLine` is the whole of
`append_session_event_journal`, with the cut in bytes and the search for a newline. In `ExitHandlers`,
`handler` is what `signal.getsignal` returns, `previous` the dictionary of each sandbox. `Start` and the stops come in two
forms, in the main thread and elsewhere, since `signal.signal` raises elsewhere.

## Runs

| Run | Checks | Instance |
|---|---|---|
| `coordinator_tasks` | one worker per session, prompts answerable, reaper | two Yolo sessions side by side, three sandboxes, crashes, reaper, saved states to resume, no outside stop |
| `coordinator_yolo` | replies to their prompt, memory = disk, stop is final, the session is a `SessionWorker` | `CoordinatorEvents` with one session, review mode, stop_session, reaper, crashes, unwritable output files, a saved state to resume |
| `coordinator_stop` | types, capacity, no session wedged, no running orphan, no leaked sandbox | two Fire sessions, one place, `stop_session` and `stop_all` against starts, reaper and crashes |
| `coordinator_live` | every stop ends, every task settles, every stopped worker ends | one session, stops, reaper, crashes, disk full |
| `firehost` | isolation, distinct guests, answers pass; no guest, rule, directory or lease left beyond what signals and kills account for | three sandboxes, two for one session, two subnets, two CIDs, failures, SIGINT, kills, the script |
| `agent_task` | one done per task, no lost task or reply, only approved plans, silent children, answers to their own calls; every task is a `Session`, in safety and liveness | review mode, three iterations, one child with two, three looks at the skills, four request ids |
| `host_services` | requests within policy, redirects included; bounded; rate limits neither exceeded nor lost; no token in answers; native tool calls only where they work | one limited integration, the search integration and public requests, two URLs, five Locations, every text of up to three characters, three nested tokens |
| `adapters` | replies to their prompts, no stale event, typing that ends, nothing left running; the CLI comes to every turn, the shutdown ends | review mode, two events under way to the chat |

Bounds. Two sessions and one place make admission compete, a VM that idles included; a second sandbox object lets a new VM
meet the old one, a third an abandoned one; two workers let an old worker meet its successor. Objects
that nothing refers to are used again, so behaviours are not bounded in length. Two subnets with three sandboxes make
the counter wrap and every draw fail; two CIDs with three sandboxes make a lease wait for a release. Two
requests unread (`Backlog`), one served and a fresh one let an answer come up to three calls late;
three iterations make room for a child, a replan and a clarification in one task. Ids that are nowhere in
use are used again, and tasks follow each other without bound.
Two subnets and CIDs also stand for the 16384 and the file of leases. `MaxRedirects` is 3 where the code has
5; three redirects go to each host and back. Three characters are enough for a token that contains
another one and for what is left and right of them; tokens that overlap themselves or each other
without containment are left out, and so is a token that `max_response_bytes` cuts in two, whose first part stays in the answer.
`adapters` stops without a deadlock check, since a program ends; all other runs check deadlock, but `exit_signal`.

Fairness. In `adapters` the main thread runs (it reads events and shuts down) and so does the step in which the CLI's worker fills the queue;
nothing is assumed of the user, the agent, the network or the chat's thread. In `agent_task` the guest's one thread and the worker run (weak fairness of each); the user
need not answer, so that a task ends or waits for the user. In `coordinator_live`, threads of the host run (weak fairness of stops and of a worker's own steps). A
thread that waits for the lock gets it if it is free again and again (strong fairness), because
`start_task` gives it up after a boot bounded by `boot_timeout`. The agent finishes a task
(`Receive(w, "done")`), since its loop is bounded by `max_iterations`, or its sandbox fails.
Nothing is assumed of the user, of VMs or of new calls.

### Disagreements found

| Run | Property | What the code does |
|---|---|---|
| `firehost_conntrack` | `ConntrackRemoved` | `stop()` looks for TAP devices before it destroys its own, so the shared rule is never removed |
| `agent_limit` | `PromptAwaited` | at the iteration limit the agent sends a clarification and then done; the worker waits for the user's answer before it reads on, so the session stays busy and unsaved until the user has answered an agent that drops the answer |
| `journal_bound` | `JournalBounded` | a line of exactly `max_bytes` leaves a budget of 0, and `existing[-0:]` is the whole journal: all of it but its first line stays |
| `exit_signal` | `IdleInterruptEnds` | a sandbox built by the main thread and stopped by the reaper keeps its SIGINT handler installed, without a previous one to call: Ctrl-C is swallowed from then on |

Behaviour at the edge of what the assembled program reaches, which the runs leave out on purpose:

* A Fire worker that outlives the two-second join of `stop_session` clears the worker of the session's next task
  when it exits (`_handle_worker_exit` does not look whose exit it is). The adapters of this
  repository stop a session only when they end, so that no run combines a stop of a session with Fire, a join that times out and a new start of it.
* A `start_task` that gets the lock after `stop_all` took its list leaves a VM that only the
  exit handler stops (`late` in `Program`).
* A second stop of one sandbox returns at once and clears `sandbox_stopping` while the first is at
  work: the task it lets in fails on the TAP device (`TapFree`), so that `coordinator_stop` loses no sandbox by it.
* A text that is sent to the bot before the plan has been shown counts as the reply to it.

## Proofs

All theorems hold for every value of the constants that satisfies the named assumptions
(`CoordinatorAssumption`: None is no object, threads are distinct, sessions are finitely many, capacity is at least one;
`FireHostAssumption`: every sandbox has a session, at least one subnet and one retry, None is no CID or number;
`BrokerAssumption`: policies are made of the methods, hosts, paths and headers there are, None names no integration,
a rate limit is at least one request per unit of time; `NoneAssumption`: None is no mode of the LLM client;
`AgentLoopAssumption`: limits are natural numbers, None is no request id). `Program` and the adapters assume nothing.
The invariants of the runs are not inductive; the strengthenings named below were checked with TLC on the
instances of the runs before they were proved.

### Coordinator

| Theorem | Statement | Argument |
|---|---|---|
| `TypeCorrect` | `TypeOK` | with `ArgOK`: a call past its first section has a session |
| `NoSessionWedged` | `StoppingHasStopper` | `StopLocals`: what a stop has still to do is in its locals, so that a thread drops a session only by clearing it |
| `RunningSandboxesOwned` | `NoRunningOrphan` | `StoppedTargets`: a sandbox that a stop has dealt with does not run when the record is cleared; no step restarts it |
| `CapacityBounded` | `CapacityRespected` | `Holders`: sessions with a worker or VM and the session being booted. Only the lock's owner adds to them, from the count that includes them all; crashes and stops only take away |
| `EveryEndToldOnce` | `DoneOnce` (a worker that has gone without a stop has told of one end), if `StateIsSaved` | `TellInv`: a worker that leaves of its own accord has told of the end, and no other worker has; only a stop puts a pill into a queue |
| `MemoryIsOnDisk` | `MemoryMatchesDisk`, if `StateIsSaved` | inductive as it is, given the types: memory and disk are written by one section each, and a session in error keeps the difference until it is reported |
| `NoSandboxForgotten` | `NoLeakedSandbox`, if `Fire` | `TearInv`: a `stop()` under way has a thread that ends it; `HomeInv`: whoever refers to a sandbox with resources does so for its own session; `GoneInv`: what a thread is about to forget has none |
| `OneWorkerDrives` | `OneWorkerPerSession`, in the setting below | `CallInv`: per thread, worker, session and pair of thread and worker, what a call that is under way has captured and what nobody else then has |
| `StopsAreFinal` | `StopIsFinal` (a step property) | `CallInv` |
| `PromptsStayOpen` | `PromptAnswerable` | `PromptInv`: a prompt waits in the record, its answer in the queue, or a `submit_reply` is between the two |
| `RepliesMeetPrompts` | `ReplyAnswersPrompt` | `CallInv`: it knows of the queue of every worker |
| `ReaperSparesTasks` | `ReaperSparesActiveTasks` | `RefInv` (a sandbox is one session's) and `ReapInv` (what the reaper has captured is flagged, or let go by the session) |
| `EventsKeepSpec` | `EventsSpec => Spec` | each step with events and consents is one of the coordinator or leaves it alone: all of the above holds of `CoordinatorEvents` |
| `SessionsImplemented` | `SessionsAreWorkers`, if `StateIsSaved` | `EventsInv`: `CallInv`; `LeaveInv` (what a stop leaves of a worker: a prompt that is pending belongs to a thread that waits for it or ends); `ConsentInv` (a clarification that has been received may be shown); `SinkInv` (nothing is left for the sink when a task starts). From it `OneThread`: a session has one worker thread, a stopped one included, and `SeenInv`: what adapters see is what this thread does. Every step is then one of `SessionWorker`'s for its session, and none for the others |

`StateIsSaved` says that `state.json` can be written. Without it the first two statements are false, as they should be: a task
whose state cannot be saved ends in an error event, and disk and memory differ; and the end of a task whose error cannot be saved either is never
emitted, which is not what a `SessionWorker` does. `Fire` is there because a Yolo
sandbox holds no resources of the host.

`OneWorkerDrives` to `ReaperSparesTasks` and `SessionsImplemented` are of a setting, `JoinsEnd` and `CallsApart`. `CallsApart` says that two calls with one
session never overlap: the CLI's session is used by the CLI's thread, and a chat's by the one thread of its event loop,
whose handlers call the coordinator without an await in between. `JoinsEnd` leaves out the program's shutdown and, with
Fire, `stop_session`: there, as the section above says of the edges, a worker may outlive the two seconds of its join, and a
`start_task` may come after `stop_all`; then two workers can in fact drive one session. The adapters stop their session
when they end, and not before. The shutdown is left out for a reason: with `Shutdown`, TLC finds `StopIsFinal` violated by
a worker of a crashed and retired sandbox, which `stop_all` is still joining when a late `start_task` of the session begins.
`coordinator_tasks` and `coordinator_yolo` are instances of the setting. The statement is `Spec /\ []CallsApart => ...`,
so that nothing is assumed of the coordinator itself.

### FireHost

| Theorem | Statement | Argument |
|---|---|---|
| `HostTypeCorrect` | `TypeOK` | with `LocalInv`: which fields are set at which stage |
| `GuestsIsolated` | `GuestIsolated` | `DeviceInv`: a session's device has one owner (a sandbox with an allocation, in `create()` or with a guest), and the owner's device and rule are there. A second sandbox of the session cannot create the device, so it never comes to own and delete it |
| `GuestsNeverShare` | `GuestsDistinct` | `DeviceInv`, `SubnetsDistinct` (devices have distinct subnets) and `ClaimsLeased` (a CID in use, kept by a killed program's guest included, is leased and claimed once) |
| `AnswersAlwaysPass` | `AnswersPass` | `ConntrackInv`: a sandbox past `_ensure_conntrack_rule` counts on the rule; whoever deletes it has seen no device, and the device of such a sandbox is there |
| `NothingStaysRunning` | `NothingRuns` | `CleanInv`: each device has a sandbox that answers for it (`DevicesInv`), an idle sandbox has no directory (`TempInv`) |
| `NoRuleOutlives` | `NoRuleLeftUnlessSignalled` | `RuleInv`: for each session, subnet and stage, how many copies of each rule there are; never two. As long as no signal has arrived |
| `NoLeaseLost` | `LeasesHeldUnlessKilled` | `LeaseInv`: each lease is in the field of a sandbox or about to be. As long as no program has been killed |

`GuestIsolated`, for instance, says nothing of the sandbox that is about to delete a device; the proof needs to know that
it is the device's only owner. The proofs follow a signal as well: `StartAt` says which stage `start()` is at when
`stop()` runs inside it, and `Applying` which rules it has still to add when it goes on.

### AgentLoop and Session

| Theorem | Statement | Argument |
|---|---|---|
| `AgentTypeCorrect` | `TypeOK` | `TypeInv`: the contents of both streams, the agent's locals and who runs |
| `EveryTaskAnswered` | `TaskAnswered` | `TaskInv`: the worker has a task exactly as long as the task event, the working agent or the done event exists, one of them at a time; done is the last event of the stream |
| `RepliesMeetTheirPrompt` | `ReplyMeetsPrompt` | `PromptInv`: a prompt that waits is the last of the stream and its role is the agent's stage; the question at the iteration limit is followed by done, and its reply by the next task |
| `ChildrenAreSilent` | `ChildrenSilent` | `PromptInv` again |
| `OnlyApprovedPlans` | `ApprovedPlan` | `PlanInv`: past planning the parent's plan is approved; a replan or a refused skill takes it back to planning |
| `AnswersAreOwn` | `OwnAnswer` (a step property) | `IdInv`: the id of the request under way is in one place at most: request in the stream, request being served or answer in the stream. Its answer is therefore the last trace of it |
| `ShowsSession` | `MCSpec => S!Init /\ [][S!Next]_(S!vars)` | `ConsentInv`: approvals under way and questions under way agree with the consent that the history variable keeps |

The theorems hold for every limit of iterations, children and looks, every stock of request ids and streams of any length.
`AgentKinds` says of every step of the agent which of five kinds it is (goes on, asks the user, ends, ends at the
limit, calls), with what it does to the streams; the invariants are proved for the kinds. `ShowsSession` is the safety
half of the refinement that `agent_task` checks as `IsSession`.

### Broker, LLM client, Program

| Theorem | Statement | Argument |
|---|---|---|
| `RequestsWithinPolicy` | `Broker`'s `SentWithinPolicy` | `CallCounts`: what has been sent belongs to a call of a configured, well-formed request. `PassesIsAllowed`: what passes `_validate` and `_ssrf_check` may go out, at the first hop and at each redirect alike |
| `RequestsBounded` | `SentBounded` | `CallCounts` again: as many requests as `redirects_followed` says and one, and no redirect but of a GET |
| `RateIsKept` | `RateLimited` | `LimiterInv`: of each limiter, what is missing from its capacity is at least what the requests since any of those remembered have cost less what came back since that one, and at most what those after it have cost and what had not come back by then (`Accounted`). `AgedIsAccounted` and `AdmittedIsAccounted` carry it over a tick and a request |
| `CompletionsWork` | `CompletionUsesWhatWorks` | `ProbeInv`: the mode that was resolved is the one found to work, none works unless one was resolved, and no completion runs while a probe does |
| `HostServesAsBroker` | `ServicesSpec => Spec` | each step of the host is one of the broker or leaves it alone: the theorems about `Broker` hold of the host |
| `CliInStep` | `CliFollowsSession` | `CliInv`: of what has happened since the CLI last asked, one event at most is in the worker's hands or the queue; a stopped worker is about only when the CLI has left |
| `ChatReplyFits`, `TypingComesToEnd` | `TextReplyFits`, `TypingEnds` | `ChatKept`: until `stop_all`, a text read as a reply has its prompt, one pulse runs at most and is known to `_typing_tasks`, and while one runs the task or its end is under way; no stopped worker is about |
| `NothingRunsAtEnd` | `NothingLeftRunning` | `DownInv`: after `stop_all` only the chat's thread can start a task |

### Only model-checked

* Liveness, since fairness and ENABLED are out of the prover's reach: `StoppingEnds`, `TaskSettles` and `StopReachesWorker`
  of `Coordinator`, `CliTurnReachesUser` and `ShutdownEnds` of `Program`, the fairness of `IsSession`.
* `ShowsNoToken`: it is about what folds and recursive functions over texts compute, which needs induction over data.
* `Coordinator` with a stop of a Fire session or the shutdown, and workers or calls that overlap there: `coordinator_stop` and `coordinator_live`.

## Not modelled

* In `AgentLoop`: a stop and a broken connection (the guest ends with its session; `Coordinator`
  has both), approval mode "auto" of the parent (its child has it), Yolo (no stream is shared there).
* Event contents, rendering, chunking of messages, logging and the diagnostics of failed boots.
* In `FireHost`: SIGTERM (it runs the same handler), and SIGINT while `stop()` runs by itself, which
  raises KeyboardInterrupt inside it. A signal inside `Popen` may leave a process that no field names.
* `iptables` that fails because another program holds its lock: deletions are unchecked in the code.
* Two threads inside `FireSandbox.stop()` between the test and the setting of `_stopping`.
* A CID lease of a killed program is never returned (the script does not know leases) and a
  directory without files is skipped by the script; `NoRuleLeftUnlessSignalled` leaves both out.
* The connection that follows `_ssrf_check` resolves the host again (the code says so at the
  place); the model knows only the addresses that were looked at.
* The retries of an LLM call are litellm's; the conversion of provider formats has no state.
* `CLIAdapter.run` without a coordinator: `main.py` never uses it.
* More than one chat: chats share nothing in the adapter but the loop and, in the coordinator, the
  capacity, which `coordinator_stop` has.
* `config.py`, the build and set-up scripts: one document checked or one host set up, with no state
  to interleave; a property would restate a check. Output files and `shell`: I/O.
* The Yolo agent thread and its pair of queues: `Coordinator` has its start, failure and end.

## Plan

1. History and summary of `AgentLoop`: what a prompt shows of a resumed history, and what an error
   in a replan loses of it; a stop while the agent waits or calls.
2. `SessionsAreWorkers` and `StopIsFinal` with `stop_all` and stops of Fire sessions: what is left of them when a worker
   outlives its join, and a `SessionWorker` that says so.
