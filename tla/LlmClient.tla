----------------------------- MODULE LlmClient -----------------------------
(***************************************************************************)
(* The LLM client of a session (agent/llm.py): how it finds out, once, in  *)
(* which way the provider takes tool calls, and what it uses afterwards.   *)
(***************************************************************************)
EXTENDS Sequences

CONSTANT None       \* Python's None

VARIABLES
    config,         \* structured_output, native_tool_choice, native_probe and
                    \* native_fallback_to_prompt of this session
    ran, resolved,  \* _native_probe_ran, _native_tool_choice_resolved
    left,           \* modes that the probe that runs has still to try
    using,          \* how the completion under way asks for an action, or None
    found           \* history: what was found out about each mode

vars == <<config, ran, resolved, left, using, found>>

Modes == {"required", "forced_function"}

\* _required_action_tool_choice_mode makes any other choice "required".
Configs == [structured : {"native", "prompt"}, choice : Modes, probe : BOOLEAN,
            fallback : BOOLEAN]

Init ==
    /\ config \in Configs
    /\ ran = FALSE /\ resolved = None
    /\ left = <<>> /\ using = None
    /\ found = [m \in Modes |-> "unknown"]

Idle == left = <<>> /\ using = None

\* _native_tool_choice_probe_order
ProbeOrder(mode) ==
    IF mode = "forced_function" THEN <<"forced_function", "required">> ELSE <<mode>>

\* complete() without an action schema
CompleteText ==
    /\ Idle
    /\ using' = "text"
    /\ UNCHANGED <<config, ran, resolved, left, found>>

\* ... and with one, when nothing has to be probed
CompleteAction ==
    /\ Idle
    /\ \/ config.structured = "prompt" /\ using' = "prompt"
       \/ /\ config.structured = "native" /\ ~config.probe
          /\ using' = config.choice
       \/ /\ config.structured = "native" /\ config.probe /\ ran
          /\ using' = IF resolved = None THEN "prompt" ELSE resolved
    /\ UNCHANGED <<config, ran, resolved, left, found>>

\* The probe counts before it runs ("probe native compatibility once per
\* session", config.example.yaml).
StartProbe ==
    /\ Idle /\ config.structured = "native" /\ config.probe /\ ~ran
    /\ ran' = TRUE
    /\ left' = ProbeOrder(config.choice)
    /\ UNCHANGED <<config, resolved, using, found>>

\* _probe_native_mode: the provider returns a native tool call ...
ProbeWorks ==
    /\ left # <<>> /\ left' = <<>>
    /\ found' = [found EXCEPT ![Head(left)] = "works"]
    /\ resolved' = Head(left) /\ using' = Head(left)
    /\ UNCHANGED <<config, ran>>

\* Mutant: a mode that the provider refuses is taken all the same.
ProbeRefusedTaken ==
    /\ left # <<>> /\ left' = <<>>
    /\ found' = [found EXCEPT ![Head(left)] = "refused"]
    /\ resolved' = Head(left) /\ using' = Head(left)
    /\ UNCHANGED <<config, ran>>

\* ... none, or a client error: the next mode is tried.  Without any left it
\* is the prompt, or the call fails.
ProbeRefused ==
    /\ left # <<>> /\ left' = Tail(left)
    /\ found' = [found EXCEPT ![Head(left)] = "refused"]
    /\ using' = IF Len(left) = 1 /\ config.fallback THEN "prompt" ELSE None
    /\ UNCHANGED <<config, ran, resolved>>

\* ... or another error, which is raised
ProbeRaises ==
    /\ left # <<>> /\ left' = <<>>
    /\ found' = [found EXCEPT ![Head(left)] = "error"]
    /\ UNCHANGED <<config, ran, resolved, using>>

\* The completion returns or raises.
CompletionEnds ==
    /\ using # None /\ using' = None
    /\ UNCHANGED <<config, ran, resolved, left, found>>

Next ==
    \/ CompleteText \/ CompleteAction
    \/ StartProbe \/ ProbeWorks \/ ProbeRefused \/ ProbeRaises
    \/ CompletionEnds

Spec == Init /\ [][Next]_vars

----------------------------------------------------------------------------
\* A completion uses a mode that the provider took when it was probed, and
\* the prompt after a probe that found no such mode or did not end.
UsesWhatWorks ==
    config.probe =>
        /\ using \in Modes => found[using] = "works"
        /\ using = "prompt" /\ config.structured = "native" =>
               \A m \in Modes : found[m] # "works"

=============================================================================
