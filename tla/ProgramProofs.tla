--------------------------- MODULE ProgramProofs ---------------------------
(***************************************************************************)
(* What the adapters and the shutdown of the program keep, for any bound   *)
(* on the events under way to the chat and in both approval modes.         *)
(***************************************************************************)
EXTENDS Program, SequenceTheorems, TLAPS

Roles == {"plan", "clarification"}

\* stop_all has been called.
Down == main \in {"stopEach", "join", "ended"}

----------------------------------------------------------------------------
(* The CLI.                                                                *)

\* The event by which the CLI learns of the session's turn
Announces(t) == IF t = "idle" THEN "done" ELSE t

\* Of what has happened since the CLI last asked the user, at most one event
\* is under way: in the worker's hands or in the queue.
OneUnderWay ==
    IF turn = "agent"
    THEN events = <<>> /\ out = "none"
    ELSE \/ events = <<>> /\ out = Announces(turn)
         \/ events = <<Announces(turn)>> /\ out = "none"

\* A task has a worker, stopped or not, and a worker of the CLI's session is
\* stopped only when the CLI has left.
CliInv ==
    /\ turn \in Roles \cup {"idle", "agent"}
    /\ at \in Roles \cup {"task", "events", "stop", "left"}
    /\ at = "task" => events = <<>> /\ turn = "idle" /\ out = "none"
    /\ at \in Roles => events = <<>> /\ turn = at /\ out = "none"
    /\ at = "events" => OneUnderWay
    /\ turn # "idle" => alive \/ leaving
    /\ leaving => at = "left"
    /\ main # "run" => at = "left"

\* The CLI starts with an empty queue and no task.
LEMMA CliStarts == Init => CliInv
BY DEF Init, CliInv, Cli!CliInit, Cli!WorkerInit, Cli!Init, Roles

\* No step of the worker or of the CLI brings the queue out of step with the
\* session.
LEMMA CliSteps == CliInv /\ CliRuns => CliInv'
<1> SUFFICES ASSUME CliInv, CliRuns PROVE CliInv'
    OBVIOUS
<1> USE DEF CliInv, OneUnderWay, Announces, Roles, Cli!Roles, Cli!vars, Cli!worker, Cli!workerVars,
        Cli!cli, control
<1>0. UNCHANGED main
    BY DEF CliRuns
<1>1. CASE Cli!ReadTask
    BY <1>0, <1>1 DEF Cli!ReadTask, Cli!StartTask, Cli!StartFails, Cli!Start
<1>2. CASE Cli!QuitAtTask
    BY <1>0, <1>2 DEF Cli!QuitAtTask
<1>3. CASE Cli!QuitAtReply
    BY <1>0, <1>3 DEF Cli!QuitAtReply
<1>4. ASSUME NEW ok \in BOOLEAN, Cli!ReadReply(ok) PROVE CliInv'
    BY <1>0, <1>4 DEF Cli!ReadReply, Cli!Submit, Cli!Answerable, Cli!Reply
<1>5. CASE Cli!ReadEvent
    <2>1. /\ events = <<Announces(turn)>> /\ out = "none" /\ turn # "agent"
          /\ events' = Tail(events) /\ UNCHANGED <<turn, out>>
          /\ at' = IF Head(events) = "done" THEN "task" ELSE Head(events)
        BY <1>5 DEF Cli!ReadEvent
    <2>2. Head(events) = Announces(turn) /\ Tail(events) = <<>>
        BY <2>1
    <2>3. /\ events' = <<>> /\ out = "none" /\ UNCHANGED <<turn, out>>
          /\ IF turn = "idle" THEN at' = "task" ELSE turn \in Roles /\ at' = turn
        BY <2>1, <2>2
    <2> QED
        BY <1>0, <1>5, <2>3 DEF Cli!ReadEvent
<1>6. CASE Cli!StopOwnSession
    BY <1>0, <1>6 DEF Cli!StopOwnSession, Cli!StopTask
<1>7. CASE Cli!PutEvent
    <2>1. /\ out # "none" /\ out' = "none"
          /\ events' = Append(events, out) /\ UNCHANGED <<turn, at, alive, leaving>>
        BY <1>7 DEF Cli!PutEvent, Cli!Emitted
    <2>2. at = "events" => events = <<>> /\ out = Announces(turn) /\ turn # "agent"
        BY <2>1
    <2>3. at = "events" => events' = <<Announces(turn)>>
        BY <2>1, <2>2
    <2> QED
        BY <1>0, <2>1, <2>2, <2>3
<1>8. CASE Cli!Asks /\ UNCHANGED <<events, at>>
    BY <1>0, <1>8 DEF Cli!Asks, Cli!AskPlan, Cli!AskClarification
<1>9. CASE Cli!Ends /\ UNCHANGED <<events, at>>
    BY <1>0, <1>9 DEF Cli!Ends, Cli!Finish
<1>10. CASE Cli!Exits /\ UNCHANGED <<events, at>>
    BY <1>0, <1>10 DEF Cli!Exits
<1>11. CASE (Cli!LatePrompt \/ Cli!LateEnd \/ Cli!Leaves) /\ UNCHANGED <<events, at>>
    BY <1>0, <1>11 DEF Cli!LatePrompt, Cli!LateEnd, Cli!Leaves
<1> QED
    BY <1>1, <1>2, <1>3, <1>4, <1>5, <1>6, <1>7, <1>8, <1>9, <1>10, <1>11
    DEF CliRuns, Cli!CliNext, Cli!CliReads, Cli!WorkerMoves

\* Nor does any other step of the program.
LEMMA CliStep == CliInv /\ [Next]_vars => CliInv'
<1> SUFFICES ASSUME CliInv, [Next]_vars PROVE CliInv'
    OBVIOUS
<1> USE DEF CliInv, OneUnderWay, Announces, Roles
<1>1. CASE CliRuns
    BY <1>1, CliSteps
<1>2. CASE TelegramRuns \/ TelegramLeaves
    BY <1>2 DEF TelegramRuns, TelegramLeaves, cliState, control
<1>3. CASE Interrupt
    BY <1>3 DEF Interrupt
<1>4. CASE CliLeft \/ Join
    BY <1>4 DEF CliLeft, Join, cliState
<1>5. CASE StopBackground \/ StopEach
    BY <1>5 DEF StopBackground, StopEach, StopTelegram, cliState
<1>6. CASE StopAll
    BY <1>6 DEF StopAll, Cli!StopTask
<1>7. CASE UNCHANGED vars
    BY <1>7 DEF vars, control, cliState
<1> QED
    BY <1>1, <1>2, <1>3, <1>4, <1>5, <1>6, <1>7 DEF Next, Shutdown

\* The CLI asks the user for a reply when exactly that prompt waits, and for a
\* task when nothing of the one before is left in its queue
\* (_run_with_coordinator and the coordinator's order of turn and sink).
THEOREM CliInStep == Spec => []CliFollowsSession
<1>1. CliInv => CliFollowsSession
    BY DEF CliInv, CliFollowsSession, Cli!CliReplyFits, Cli!NoStaleEvent, Roles, Cli!Roles
<1> QED
    BY <1>1, CliStarts, CliStep, PTL DEF Spec

----------------------------------------------------------------------------
(* The chat.                                                               *)

Events == Roles \cup {"done"}

Handlers == {<<"free">>, <<"task">>, <<"typing">>} \cup (Roles \X Telegram!Texts)

\* The end of the chat's task is in the worker's hands or on its way.
EndIsDue == chatOut = "done" \/ \E i \in DOMAIN shows : shows[i] = "done"

ChatType ==
    /\ chatTurn \in Roles \cup {"idle", "agent"}
    /\ handler \in Handlers
    /\ shows \in Seq(Events)
    /\ chatOut \in Events \cup {"none"}

\* Until stop_all no worker of the chat is stopped, a text was read as a reply
\* to the prompt that still waits, one pulse runs at most and is known to _typing_tasks, and it does not run,
\* nor is the handler about to start it, when the task's end has been shown.
ChatKept ==
    /\ ~chatLeaving
    /\ handler[1] \in Roles => chatTurn = handler[1]
    /\ typing \in {"none", "runs"}
    /\ pulses = IF typing = "runs" THEN 1 ELSE 0
    /\ typing = "runs" \/ handler[1] = "typing" =>
           chatTurn # "idle" \/ lost \/ EndIsDue

ChatInv == ChatType /\ (~Down => ChatKept)

\* A sequence without its i-th element is one of the same set, and keeps what
\* was not its i-th element.
LEMMA WithoutKeeps ==
    ASSUME NEW S, NEW s \in Seq(S), NEW i \in DOMAIN s
    PROVE  /\ Telegram!Without(s, i) \in Seq(S)
           /\ \A j \in DOMAIN s : s[j] # s[i] =>
                  \E k \in DOMAIN Telegram!Without(s, i) :
                      Telegram!Without(s, i)[k] = s[j]
<1> DEFINE front == SubSeq(s, 1, i - 1)
           back == SubSeq(s, i + 1, Len(s))
<1>1. i \in 1..Len(s) /\ Len(s) \in Nat
    OBVIOUS
<1>2. front \in Seq(S) /\ Len(front) = i - 1 /\ \A j \in 1..(i - 1) : front[j] = s[j]
    BY <1>1
<1>3. back \in Seq(S) /\ Len(back) = Len(s) - i
      /\ \A j \in 1..(Len(s) - i) : back[j] = s[i + j]
    BY <1>1
<1>4. Telegram!Without(s, i) = front \o back
    BY DEF Telegram!Without
<1> HIDE DEF front, back
<1>5. front \o back \in Seq(S) /\ Len(front \o back) = Len(s) - 1
    BY <1>1, <1>2, <1>3
<1>6. ASSUME NEW j \in DOMAIN s, s[j] # s[i]
      PROVE  \E k \in DOMAIN (front \o back) : (front \o back)[k] = s[j]
    <2>1. CASE j < i
        <3>1. j \in 1..(i - 1) /\ j \in 1..(Len(s) - 1)
            BY <1>1, <2>1
        <3>2. (front \o back)[j] = s[j]
            BY <1>2, <1>3, <3>1
        <3> QED
            BY <1>5, <3>1, <3>2
    <2>2. CASE j > i
        <3>1. j - 1 \in i..(Len(s) - 1) /\ j - i \in 1..(Len(s) - i)
            BY <1>1, <2>2
        <3>2. (front \o back)[j - 1] = back[j - i]
            <4>1. j \in Nat /\ i \in Nat /\ Len(front) = i - 1 /\ Len(back) = Len(s) - i
                BY <1>1, <1>2, <1>3
            <4>2. j - 1 > Len(front) /\ (j - 1) - Len(front) = j - i
                BY <2>2, <4>1
            <4>3. j - 1 \in 1..(Len(front) + Len(back))
                BY <1>1, <3>1, <4>1
            <4>4. (front \o back)[j - 1] = IF j - 1 <= Len(front) THEN front[j - 1]
                                           ELSE back[(j - 1) - Len(front)]
                BY <1>2, <1>3, <4>3, ConcatProperties
            <4> QED
                BY <4>1, <4>2, <4>4
        <3>3. back[j - i] = s[j]
            BY <1>1, <1>3, <3>1
        <3>4. j - 1 \in DOMAIN (front \o back)
            BY <1>1, <1>5, <3>1
        <3> QED
            BY <3>2, <3>3, <3>4
    <2> QED
        BY <1>1, <1>6, <2>1, <2>2
<1> QED
    BY <1>4, <1>5, <1>6

\* The chat starts without a task.
LEMMA ChatStarts == Init => ChatInv
BY DEF Init, ChatInv, ChatType, ChatKept, Telegram!TelegramInit, Telegram!WorkerInit,
   Telegram!Init, Roles, Handlers, Events

\* What typing ends with leaves no pulse behind.
LEMMA CancelTypingEnds ==
    ASSUME ChatKept, Telegram!CancelTyping
    PROVE  typing' = "none" /\ pulses' = 0
BY DEF ChatKept, Telegram!CancelTyping

\* No step of the chat's handler, of the coroutines that show its events or of
\* its worker leaves a pulse behind or a reply without its prompt.
LEMMA ChatSteps == ChatInv /\ TelegramRuns => ChatInv'
<1> SUFFICES ASSUME ChatInv, TelegramRuns PROVE ChatInv'
    OBVIOUS
<1> USE DEF ChatInv, ChatType, ChatKept, EndIsDue, Roles, Events, Handlers, Down,
        Telegram!Roles, Telegram!vars, Telegram!worker, Telegram!workerVars, Telegram!chat
<1>0. UNCHANGED main
    BY DEF TelegramRuns
<1>1. ASSUME NEW text \in Telegram!Texts, Telegram!ReadPending(text) PROVE ChatInv'
    BY <1>0, <1>1 DEF Telegram!ReadPending, Telegram!LoopFree
<1>2. CASE Telegram!SubmitText
    BY <1>0, <1>2 DEF Telegram!SubmitText, Telegram!Submit, Telegram!Reply
<1>3. CASE Telegram!StartFromText
    BY <1>0, <1>3 DEF Telegram!StartFromText, Telegram!StartTask, Telegram!StartFails, Telegram!Start
<1>4. CASE Telegram!EnsureTyping
    BY <1>0, <1>4 DEF Telegram!EnsureTyping
<1>5. ASSUME NEW i \in DOMAIN shows, Telegram!Shown(i) PROVE ChatInv'
    BY <1>0, <1>5, WithoutKeeps, CancelTypingEnds DEF Telegram!Shown, Telegram!LoopFree
<1>6. ASSUME NEW i \in DOMAIN shows, Telegram!ShowFails(i) PROVE ChatInv'
    <2>1. shows' = Telegram!Without(shows, i) /\ lost' = (lost \/ shows[i] = "done")
          /\ UNCHANGED <<chatTurn, chatLeaving, chatOut, handler, typing, pulses>>
        BY <1>6 DEF Telegram!ShowFails
    <2>2. shows' \in Seq(Events)
        BY <2>1, WithoutKeeps
    <2>3. ASSUME NEW j \in DOMAIN shows, shows[j] = "done", shows[i] # "done"
          PROVE  \E k \in DOMAIN shows' : shows'[k] = "done"
        BY <2>1, <2>3, WithoutKeeps
    <2>4. lost => lost'
        BY <2>1
    <2> QED
        BY <1>0, <2>1, <2>2, <2>3, <2>4
<1>7. CASE Telegram!Schedule
    BY <1>0, <1>7 DEF Telegram!Schedule, Telegram!Emitted
<1>8. CASE Telegram!PollingFails
    <2>1. /\ handler = <<"free">> /\ Telegram!CancelTyping
          /\ shows' = <<>> \/ shows' = shows
          /\ UNCHANGED <<chatTurn, chatLeaving, chatOut, handler>>
        BY <1>8 DEF Telegram!PollingFails, Telegram!LoopFree
    <2>2. ~Down => typing' = "none" /\ pulses' = 0
        BY <2>1, CancelTypingEnds
    <2>3. ChatType'
        <3>1. <<>> \in Seq(Events)
            OBVIOUS
        <3>2. shows' \in Seq(Events)
            BY <2>1, <3>1
        <3> QED
            BY <2>1, <3>2
    <2>4. handler'[1] = "free" /\ chatLeaving' = chatLeaving
        BY <2>1
    <2> QED
        BY <1>0, <2>2, <2>3, <2>4
<1>9. CASE Telegram!Reconnect
    BY <1>0, <1>9 DEF Telegram!Reconnect
<1>10. CASE Telegram!Asks /\ UNCHANGED <<handler, shows, typing, pulses, lost, up>>
    BY <1>0, <1>10 DEF Telegram!Asks, Telegram!AskPlan, Telegram!AskClarification
<1>11. CASE Telegram!Ends /\ UNCHANGED <<handler, shows, typing, pulses, lost, up>>
    BY <1>0, <1>11 DEF Telegram!Ends, Telegram!Finish
<1>12. CASE Telegram!Exits /\ UNCHANGED <<handler, shows, typing, pulses, lost, up>>
    BY <1>0, <1>12 DEF Telegram!Exits
<1>13. CASE /\ Telegram!LatePrompt \/ Telegram!LateEnd \/ Telegram!Leaves
            /\ UNCHANGED <<handler, shows, typing, pulses, lost, up>>
    BY <1>0, <1>13 DEF Telegram!LatePrompt, Telegram!LateEnd, Telegram!Leaves
<1> QED
    BY <1>1, <1>2, <1>3, <1>4, <1>5, <1>6, <1>7, <1>8, <1>9, <1>10, <1>11, <1>12, <1>13
    DEF TelegramRuns, Telegram!TelegramNext, Telegram!LoopMoves, Telegram!HandlerMoves,
        Telegram!WorkerMoves

\* Nor does any other step of the program.
LEMMA ChatStep == ChatInv /\ [Next]_vars => ChatInv'
<1> SUFFICES ASSUME ChatInv, [Next]_vars PROVE ChatInv'
    OBVIOUS
<1> USE DEF ChatInv, ChatType, Down
<1>1. CASE TelegramRuns
    BY <1>1, ChatSteps
<1>2. CASE TelegramLeaves
    BY <1>2, CancelTypingEnds
    DEF TelegramLeaves, ChatKept, EndIsDue, Telegram!LoopFree, control, cliState
<1>3. CASE StopBackground
    BY <1>3, CancelTypingEnds DEF StopBackground, StopTelegram, ChatKept, EndIsDue
<1>4. CASE StopEach
    BY <1>4 DEF StopEach, StopTelegram
<1>5. CASE StopAll
    BY <1>5 DEF StopAll, Telegram!StopTask
<1>6. CASE CliRuns \/ Interrupt \/ CliLeft \/ Join \/ UNCHANGED vars
    <2>1. UNCHANGED chatState /\ (Down => Down')
        BY <1>6 DEF CliRuns, Interrupt, CliLeft, Join, vars, control
    <2> QED
        BY <2>1 DEF chatState, ChatKept, EndIsDue
<1> QED
    BY <1>1, <1>2, <1>3, <1>4, <1>5, <1>6 DEF Next, Shutdown

\* A text that was read as a reply to a prompt is submitted while that prompt
\* waits, unless stop_all has ended the task (_on_text_message).
THEOREM ChatReplyFits == Spec => []TextReplyFits
<1>1. ChatInv => TextReplyFits
    BY DEF ChatInv, ChatKept, TextReplyFits, Down, Roles, Telegram!TextReplyFits, Telegram!Roles
<1> QED
    BY <1>1, ChatStarts, ChatStep, PTL DEF Spec

\* When the end of a task has been shown the bot types no more, in whatever
\* order events are shown and however often polling fails (_typing_tasks).
THEOREM TypingComesToEnd == Spec => []TypingEnds
<1>1. ChatInv => TypingEnds
    BY DEF ChatInv, ChatKept, EndIsDue, TypingEnds, Down, Telegram!TypingEnds
<1> QED
    BY <1>1, ChatStarts, ChatStep, PTL DEF Spec

----------------------------------------------------------------------------
(* The way down.                                                           *)

\* stop_all has ended both sessions; the CLI is gone by then, and the chat's
\* thread may start a task again, which late records.
DownInv == Down => ~alive /\ (~late => ~chatAlive)

\* No step after stop_all starts a task of the CLI, or one of the chat that
\* late does not tell of.
LEMMA DownStep == CliInv /\ DownInv /\ [Next]_vars => DownInv'
<1> SUFFICES ASSUME CliInv, DownInv, [Next]_vars PROVE DownInv'
    OBVIOUS
<1> USE DEF DownInv, Down
<1>1. CASE CliRuns
    <2>1. Down => at = "left"
        BY DEF CliInv
    <2> QED
        BY <1>1, <2>1
        DEF CliRuns, chatState, control, Cli!CliNext, Cli!CliReads, Cli!ReadTask, Cli!QuitAtTask,
            Cli!QuitAtReply, Cli!ReadReply, Cli!ReadEvent, Cli!StopOwnSession, Cli!PutEvent,
            Cli!WorkerMoves, Cli!Asks, Cli!Ends, Cli!Exits, Cli!LatePrompt, Cli!LateEnd, Cli!Leaves,
            Cli!Emitted, Cli!worker, Cli!workerVars, Cli!vars, Cli!Roles
<1>2. CASE TelegramRuns
    BY <1>2 DEF TelegramRuns, cliState
<1>3. CASE TelegramLeaves
    BY <1>3 DEF TelegramLeaves, cliState, control
<1>4. CASE Interrupt
    BY <1>4 DEF Interrupt
<1>5. CASE CliLeft \/ Join
    BY <1>5 DEF CliLeft, Join, cliState, chatState
<1>6. CASE StopBackground \/ StopEach
    BY <1>6 DEF StopBackground, StopEach, StopTelegram, cliState
<1>7. CASE StopAll
    BY <1>7 DEF StopAll, Cli!StopTask, Telegram!StopTask
<1>8. CASE UNCHANGED vars
    BY <1>8 DEF vars, control, cliState, chatState
<1> QED
    BY <1>1, <1>2, <1>3, <1>4, <1>5, <1>6, <1>7, <1>8 DEF Next, Shutdown

\* When main() has ended no session has a task, except one that the chat's
\* thread has started after stop_all had looked (Coordinator.stop_all).
THEOREM NothingRunsAtEnd == Spec => []NothingLeftRunning
<1>1. Init => DownInv
    BY DEF Init, DownInv, Down
<1>2. DownInv => NothingLeftRunning
    BY DEF DownInv, Down, NothingLeftRunning
<1> QED
    BY <1>1, <1>2, CliStarts, CliStep, DownStep, PTL DEF Spec

=============================================================================
