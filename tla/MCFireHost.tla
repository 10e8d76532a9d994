----------------------------- MODULE MCFireHost -----------------------------
(* FireHost with two programs that may start sandboxes of one session.     *)
EXTENDS FireHost, TLC

CONSTANTS b1, b2, b3, s1, s2

VARIABLE harm   \* history: what has happened to a program so far

SharedSession == b1 :> s1 @@ b2 :> s1 @@ b3 :> s2
OneSession == b1 :> s1

MCInit == Init /\ harm = {}

MCNext ==
    /\ Next
    /\ harm' = harm \cup (IF \E b \in Sandboxes : Interrupt(b) THEN {"signal"} ELSE {})
                    \cup (IF \E b \in Sandboxes : Kill(b) THEN {"kill"} ELSE {})

MCSpec == MCInit /\ [][MCNext]_<<vars, harm>>

\* Without a signal, no rule outlives the sandboxes (IptablesManager.cleanup),
\* whatever fails, whoever is killed and whoever shares the session.  A signal
\* during apply() makes stop() delete rules and start() add the others.
NoRuleLeftUnlessSignalled == "signal" \notin harm => NoRuleLeft

\* Without a kill, no lease is lost (CidLeaseManager), signals included.
LeasesHeldUnlessKilled == "kill" \notin harm => LeasesHeld

Symmetry == Permutations(Cids)
=============================================================================
