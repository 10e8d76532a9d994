---------------------------- MODULE HostServices ----------------------------
(***************************************************************************)
(* The host services of a sandbox (sandbox/host_services.py): its broker   *)
(* and its LLM client, which serve one request at a time, and the          *)
(* redaction of what the broker answers.                                   *)
(***************************************************************************)
EXTENDS Broker, SequencesExt

CONSTANTS
    Tokens,         \* the credentials' tokens, as sequences of characters
    Redacted        \* "[REDACTED]", taken as one character

ASSUME TokensAssumption == \A t \in Tokens : t # <<>>
ASSUME NoneAssumption == None \notin {"required", "forced_function", "prompt", "text"}

VARIABLES config, ran, resolved, left, using, found     \* of the LLM client

Llm == INSTANCE LlmClient

llm == <<config, ran, resolved, left, using, found>>

ServicesInit == Init /\ Llm!Init

\* HostServiceServer.handle_incoming runs a handler to its end.
BrokerServes == Llm!Idle /\ Next /\ UNCHANGED llm
LlmServes == call = None /\ Llm!Next /\ UNCHANGED vars

ServicesNext == BrokerServes \/ LlmServes

ServicesSpec == ServicesInit /\ [][ServicesNext]_<<vars, llm>>

----------------------------------------------------------------------------
(* Redaction                                                               *)

OccursAt(token, text, i) ==
    /\ i + Len(token) - 1 <= Len(text)
    /\ SubSeq(text, i, i + Len(token) - 1) = token

\* str.replace: from the left, no occurrence overlaps the one before it.
Replace(text, token) ==
    LET from[i \in 1 .. Len(text) + Len(token)] ==
            IF i > Len(text) THEN <<>>
            ELSE IF OccursAt(token, text, i) THEN <<Redacted>> \o from[i + Len(token)]
            ELSE <<text[i]>> \o from[i + 1]
    IN  from[1]

\* Mutant: shorter tokens first
ShorterFirst(s, t) == Len(s) <= Len(t)

\* _collect_credential_tokens sorts them by their length.
LongerFirst(s, t) == Len(s) >= Len(t)

\* _redact_string
Redact(text) == FoldLeft(Replace, text, SetToSortSeq(Tokens, LongerFirst))

\* What an answer shows of a text is what is part of no token in it, all of
\* it and in its order: a token that contains another one leaves no rest.
\* (No token here overlaps a copy of itself or of another that it is not in.)
ShowsNoToken ==
    LET secret(i) == \E t \in Tokens, k \in DOMAIN body :
                        k <= i /\ i < k + Len(t) /\ OccursAt(t, body, k)
        open == SelectSeq([i \in DOMAIN body |-> i], LAMBDA i : ~secret(i))
    IN  SelectSeq(Redact(body), LAMBDA c : c # Redacted) = [k \in DOMAIN open |-> body[open[k]]]

\* A completion asks for actions in a mode that the provider took when it was
\* probed (_resolve_native_tool_choice_mode), whatever came in between.
CompletionUsesWhatWorks == Llm!UsesWhatWorks

=============================================================================
