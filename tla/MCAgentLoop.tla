---------------------------- MODULE MCAgentLoop ----------------------------
(* The instances of AgentLoop that TLC checks, and the session that the    *)
(* user sees of them. *)
EXTENDS AgentLoop

CONSTANTS r1, r2, r3, r4

VARIABLE consent    \* history: the user's answer to the plan shown last

\* Backlog requests unread, one served and one that is fresh
FourIds == {r1, r2, r3, r4}

MCInit == Init /\ consent = FALSE

MCNext ==
    /\ Next
    /\ consent' = CASE host = "plan" /\ host' # host -> UserReplies(TRUE)
                    [] host # "plan" /\ host' = "plan" -> FALSE
                    [] host = "idle" /\ host' # host -> FALSE
                    [] OTHER -> consent

MCSpec == MCInit /\ [][MCNext]_<<vars, consent>> /\ Fairness

S == INSTANCE Session WITH
        turn <- IF host \in {"recv", "serve"} THEN "agent" ELSE host

\* The agent, its stream and the worker together are a session: with requests
\* to host services that time out and answers that come late, with children,
\* replans, unknown skills and LLM errors, each turn of the agent ends (no
\* prompt is lost, agent and worker do not wait for each other), and in review
\* mode no question about the work is shown before a plan has been approved
\* (WAIT_ROLES of _SessionWorker, _planning_phase).
IsSession == S!Spec

=============================================================================
