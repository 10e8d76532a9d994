------------------------------ MODULE Program ------------------------------
(***************************************************************************)
(* The program (main.py) with both adapters: the CLI in the foreground,    *)
(* Telegram in a daemon thread, each with its session of one Coordinator,  *)
(* and the way down: the user quits or interrupts, background adapters are *)
(* stopped, then all sessions, then each adapter.                          *)
(***************************************************************************)
EXTENDS Naturals, Sequences

CONSTANTS
    Review,         \* approval_mode = "review"
    Pending         \* bound: events on their way to the chat

VARIABLES
    main,           \* what main() does
    late,           \* history: a task was started after stop_all
    asked,          \* stop_running has been called
    turn, consent, alive, leaving, out,                 \* the CLI's session
    events, at,                                         \* the CLI adapter
    chatTurn, chatConsent, chatAlive, chatLeaving, chatOut,     \* the chat's session
    handler, shows, typing, pulses, lost, up            \* the Telegram adapter

Cli == INSTANCE CliAdapter

Telegram == INSTANCE TelegramAdapter WITH
    turn <- chatTurn, consent <- chatConsent,
    alive <- chatAlive, leaving <- chatLeaving, out <- chatOut

control == <<main, late, asked>>
cliState == <<turn, consent, alive, leaving, out, events, at>>
chatState == <<chatTurn, chatConsent, chatAlive, chatLeaving, chatOut,
               handler, shows, typing, pulses, lost, up>>
vars == <<control, cliState, chatState>>

Init ==
    /\ Cli!CliInit /\ Telegram!TelegramInit
    /\ main = "run" /\ late = FALSE /\ asked = FALSE

----------------------------------------------------------------------------
\* The main thread runs the CLI; the worker goes on when the CLI has left.
CliRuns == Cli!CliNext /\ UNCHANGED <<control, chatState>>

\* The daemon thread; stop_running ends run_polling when the loop is free.
TelegramRuns ==
    /\ Telegram!TelegramNext
    /\ asked => up' = up
    /\ late' = (late \/ (main \in {"stopEach", "join", "ended"} /\ ~chatAlive /\ chatAlive'))
    /\ UNCHANGED <<main, asked, cliState>>

TelegramLeaves ==
    /\ asked /\ Telegram!LoopFree
    /\ up' = FALSE
    /\ Telegram!CancelTyping
    /\ UNCHANGED <<control, cliState, chatTurn, chatConsent, chatAlive, chatLeaving, chatOut,
                   handler, shows, lost>>

----------------------------------------------------------------------------
(* main()                                                                  *)

\* run() of the foreground adapter returns.
CliLeft ==
    /\ main = "run" /\ at = "left"
    /\ main' = "stopBackground"
    /\ UNCHANGED <<late, asked, cliState, chatState>>

\* KeyboardInterrupt in the CLI, whatever it waits for
Interrupt ==
    /\ main = "run"
    /\ main' = "stopBackground"
    /\ at' = "left"
    /\ UNCHANGED <<late, asked, turn, consent, alive, leaving, out, events, chatState>>

\* TelegramAdapter.stop: without an application there is nothing to stop.
StopTelegram ==
    /\ Telegram!CancelTyping
    /\ asked' = (asked \/ up)
    /\ UNCHANGED <<late, cliState, chatTurn, chatConsent, chatAlive, chatLeaving, chatOut,
                   handler, shows, lost, up>>

StopBackground == main = "stopBackground" /\ main' = "stopAll" /\ StopTelegram

\* Mutant: only the sessions of the foreground adapter are stopped.
StopForeground ==
    /\ main = "stopAll" /\ main' = "stopEach"
    /\ Cli!StopTask
    /\ UNCHANGED <<late, asked, events, at, chatState>>

\* Coordinator.stop_all
StopAll ==
    /\ main = "stopAll" /\ main' = "stopEach"
    /\ Cli!StopTask /\ Telegram!StopTask
    /\ UNCHANGED <<late, asked, events, at, handler, shows, typing, pulses, lost, up>>

\* Each adapter again: CLIAdapter.stop finds its session stopped already.
StopEach == main = "stopEach" /\ main' = "join" /\ StopTelegram

\* Mutant: the daemon thread is waited for.
JoinWaits ==
    /\ main = "join" /\ main' = "ended"
    /\ ~up
    /\ UNCHANGED <<late, asked, cliState, chatState>>

\* thread.join(timeout=1.0)
Join ==
    /\ main = "join" /\ main' = "ended"
    /\ UNCHANGED <<late, asked, cliState, chatState>>

Shutdown == CliLeft \/ StopBackground \/ StopAll \/ StopEach \/ Join

Next == CliRuns \/ TelegramRuns \/ TelegramLeaves \/ Interrupt \/ Shutdown

\* The main thread runs, and so does the CLI's worker; the CLI waits for the
\* user when it reads a task or a reply, and nothing is asked of the network.
Spec ==
    /\ Init /\ [][Next]_vars
    /\ WF_vars(Shutdown)
    /\ WF_vars(CliRuns /\ Cli!CliReads)
    /\ WF_vars(CliRuns /\ Cli!PutEvent)

----------------------------------------------------------------------------
(* Properties                                                              *)

\* The reply that the CLI reads answers the prompt that waits: neither a
\* prompt of an earlier task nor one that has been answered (get_reply).  A
\* task is read only when everything of the one before has been read (the
\* queue of events is never emptied in between).
CliFollowsSession == Cli!CliReplyFits /\ Cli!NoStaleEvent

\* A text that the chat's handler read as a reply is one to the prompt that
\* waits when it is submitted (pending_role and submit_reply take the lock one
\* after the other), unless a shutdown has ended the task.
TextReplyFits == main \notin {"stopEach", "join", "ended"} => Telegram!TextReplyFits

\* The bot does not type on when the user has been shown the end of a task,
\* through tasks that follow each other, events that overtake each other,
\* failures and reconnects: no pulse escapes _typing_tasks.
TypingEnds == main \notin {"stopEach", "join", "ended"} => Telegram!TypingEnds

\* When main() has ended no session has a task, except one that a handler of
\* the chat has started after stop_all had looked.
NothingLeftRunning == main = "ended" /\ ~late => ~alive /\ ~chatAlive

\* When it is the user's turn at the CLI, the CLI comes to ask the user: no
\* prompt and no end of a task stays unread in the queue.
CliTurnReachesUser == turn # "agent" /\ at = "events" ~> at # "events"

\* A shutdown comes to its end, whatever the chat's thread is doing.
ShutdownEnds == main # "run" ~> main = "ended"

=============================================================================
