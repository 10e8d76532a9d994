------------------------------ MODULE Session ------------------------------
(***************************************************************************)
(* What a session promises to the user, whatever runs it: it is always     *)
(* clear whose turn it is, every turn of the agent ends, and in review     *)
(* mode the agent asks nothing about its work before the user has approved *)
(* the plan that was shown last.                                           *)
(***************************************************************************)
CONSTANT Review     \* approval_mode = "review"

VARIABLES
    turn,           \* no task, the agent's turn, or the prompt that waits
    consent         \* the user has approved the plan shown last in the task

vars == <<turn, consent>>

Roles == {"plan", "clarification"}

Init == turn = "idle" /\ consent = FALSE

Start ==
    /\ turn = "idle" /\ turn' = "agent"
    /\ consent' = FALSE

AskPlan ==
    /\ Review
    /\ turn = "agent" /\ turn' = "plan"
    /\ consent' = FALSE

AskClarification ==
    /\ Review => consent
    /\ turn = "agent" /\ turn' = "clarification"
    /\ UNCHANGED consent

Reply(ok) ==
    /\ turn \in Roles /\ turn' = "agent"
    /\ consent' = IF turn = "plan" THEN ok ELSE consent

\* Mutant: a task may end while its prompt waits.
FinishAnytime ==
    /\ turn # "idle" /\ turn' = "idle"
    /\ UNCHANGED consent

\* The task ends, with a result or with an error.
Finish ==
    /\ turn = "agent" /\ turn' = "idle"
    /\ UNCHANGED consent

AgentMoves == AskPlan \/ AskClarification \/ Finish

Next == Start \/ AgentMoves \/ \E ok \in BOOLEAN : Reply(ok)

Spec == Init /\ [][Next]_vars /\ WF_vars(AgentMoves)

=============================================================================
