-------------------------- MODULE TelegramAdapter --------------------------
(***************************************************************************)
(* The Telegram adapter (adapters/telegram.py) for one chat: its event     *)
(* loop runs the handler of a text, the coroutines that show events, which *)
(* wait for their sends and overtake each other, and the pulse that shows  *)
(* that the bot is typing; worker threads go on meanwhile.  Polling may    *)
(* fail and is started again, on the same loop.                            *)
(***************************************************************************)
EXTENDS SessionWorker, Naturals, Sequences

CONSTANT Pending    \* bound: events on their way to the chat

VARIABLES
    handler,        \* the handler of a text: free, or what it has come to
    shows,          \* scheduled _show_and_track_event
    typing,         \* _typing_tasks[chat_id]: none, runs or ended
    pulses,         \* the typing pulses that run
    lost,           \* history: the done event of the last task was not shown
    up              \* the application is polling

chat == <<handler, shows, typing, pulses, lost, up>>
telegramVars == <<workerVars, chat>>

Texts == {"approve", "feedback"}

TelegramInit ==
    /\ WorkerInit
    /\ handler = <<"free">> /\ shows = <<>> /\ typing = "none" /\ pulses = 0
    /\ lost = FALSE /\ up = TRUE

\* The loop runs something else when the handler awaits nothing in between.
LoopFree == up /\ handler[1] = "free"

\* _cancel_typing_task
CancelTyping ==
    /\ typing' = "none"
    /\ pulses' = IF typing = "runs" THEN pulses - 1 ELSE pulses

----------------------------------------------------------------------------
(* _on_text_message                                                        *)

\* Up to pending_role: a text is read as a reply to what was pending then.
\* The handler knows the role and the text, or that nothing is pending.
ReadPending(text) ==
    /\ LoopFree
    /\ handler' = IF turn \in Roles THEN <<turn, text>> ELSE <<"task">>
    /\ UNCHANGED <<workerVars, shows, typing, pulses, lost, up>>

\* _parse_plan_reply
Approves(text) == text = "approve"

\* submit_reply, or "No prompt is waiting for a reply right now."
SubmitText ==
    /\ handler[1] \in Roles
    /\ \/ Submit(handler[1] = "plan" => Approves(handler[2]))
       \/ ~Answerable /\ UNCHANGED workerVars
    /\ handler' = <<"free">>
    /\ UNCHANGED <<shows, typing, pulses, lost, up>>

\* start_task; "busy" and "capacity" are said, and nothing else is done.
StartFromText ==
    /\ handler[1] = "task"
    /\ \/ /\ StartTask \/ StartFails
          /\ handler' = <<"typing">> /\ lost' = FALSE
       \/ UNCHANGED <<workerVars, lost>> /\ handler' = <<"free">>
    /\ UNCHANGED <<shows, typing, pulses, up>>

\* _ensure_typing_task
EnsureTyping ==
    /\ handler[1] = "typing" /\ handler' = <<"free">>
    /\ typing' = "runs"
    /\ pulses' = IF typing = "runs" THEN pulses ELSE pulses + 1
    /\ UNCHANGED <<workerVars, shows, lost, up>>

----------------------------------------------------------------------------
(* Events                                                                  *)

\* _emit_from_coordinator, in the worker's thread
Schedule ==
    /\ Len(shows) < Pending
    /\ Emitted
    /\ shows' = Append(shows, out)
    /\ UNCHANGED <<handler, typing, pulses, lost, up>>

Without(s, i) == SubSeq(s, 1, i - 1) \o SubSeq(s, i + 1, Len(s))

\* Mutant: typing is over when the user is asked.
ShownCancelsAtPrompt(i) ==
    /\ LoopFree
    /\ shows' = Without(shows, i)
    /\ IF shows[i] \in Roles THEN CancelTyping ELSE UNCHANGED <<typing, pulses>>
    /\ UNCHANGED <<workerVars, handler, lost, up>>

\* _show_and_track_event ends: after the sends of a done event typing ends.
Shown(i) ==
    /\ LoopFree
    /\ shows' = Without(shows, i)
    /\ IF shows[i] = "done" THEN CancelTyping ELSE UNCHANGED <<typing, pulses>>
    /\ UNCHANGED <<workerVars, handler, lost, up>>

\* A send fails in both ways: the coroutine ends with its exception, which
\* nobody looks at.
ShowFails(i) ==
    /\ LoopFree
    /\ shows' = Without(shows, i)
    /\ lost' = (lost \/ shows[i] = "done")
    /\ UNCHANGED <<workerVars, handler, typing, pulses, up>>

----------------------------------------------------------------------------
(* run()                                                                   *)

\* run_polling raises; what the loop had to do may be lost.
PollingFails ==
    /\ LoopFree /\ up' = FALSE
    /\ CancelTyping
    /\ \/ shows' = <<>> /\ lost' = (lost \/ \E i \in DOMAIN shows : shows[i] = "done")
       \/ UNCHANGED <<shows, lost>>
    /\ UNCHANGED <<workerVars, handler>>

Reconnect ==
    /\ ~up /\ up' = TRUE
    /\ UNCHANGED <<workerVars, handler, shows, typing, pulses, lost>>

HandlerMoves == SubmitText \/ StartFromText \/ EnsureTyping

LoopMoves == HandlerMoves \/ \E i \in DOMAIN shows : Shown(i) \/ ShowFails(i)

TelegramNext ==
    \/ \E text \in Texts : ReadPending(text)
    \/ LoopMoves
    \/ Schedule
    \/ PollingFails \/ Reconnect
    \/ WorkerMoves /\ UNCHANGED chat

----------------------------------------------------------------------------
\* A text that is taken for a reply was read as one to the prompt that waits.
TextReplyFits == handler[1] \in Roles => turn = handler[1]

\* Between tasks the bot types only until the end of the last one has been
\* shown, in whatever order events are shown, unless the showing failed.
TypingEnds ==
    pulses > 0 /\ turn = "idle" /\ ~lost =>
        out = "done" \/ \E i \in DOMAIN shows : shows[i] = "done"

=============================================================================
