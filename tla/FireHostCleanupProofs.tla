----------------------- MODULE FireHostCleanupProofs -----------------------
(***************************************************************************)
(* What is left on the host when sandboxes stop, fail, are interrupted or  *)
(* are killed, for any number of sandboxes, sessions, CIDs and subnets.    *)
(***************************************************************************)
EXTENDS MCFireHost, FireHostProofs

----------------------------------------------------------------------------
(* The shared conntrack rule.                                              *)

\* Stages of start() after _ensure_conntrack_rule
Answering == {"masquerade", "forward", "input", "cid", "guestCid", "launch", "boot", "up"}

\* A sandbox that has seen or added the rule counts on it, unless a signal
\* handler has taken its paths away: then it starts no guest.
ConntrackInv ==
    \A b \in Sandboxes :
        /\ vm[b] # None => ct > 0
        /\ pc[b] \in Answering => ct > 0 \/ tmp[b] = "none"

\* No step takes the rule away from a sandbox that counts on it: the one that
\* deletes it finds at least its own device.
LEMMA ConntrackStep == HostInv /\ ConntrackInv /\ [Next]_vars => ConntrackInv'
<1> SUFFICES ASSUME HostInv, ConntrackInv, [Next]_vars, NEW d \in Sandboxes
             PROVE  (/\ vm[d] # None => ct > 0
                     /\ pc[d] \in Answering => ct > 0 \/ tmp[d] = "none")'
  BY DEF ConntrackInv
<1> DEFINE Kept == /\ vm[d] # None => ct > 0
                   /\ pc[d] \in Answering => ct > 0 \/ tmp[d] = "none"
<1>0. TypeOK /\ Local(d) /\ Kept
  BY DEF HostInv, LocalInv, ConntrackInv
<1> USE FireHostAssumption, <1>0 DEF TypeOK, At, Goto, net, ids, locals, fields, Local, StartHeld, StopHeld,
   StartAt, Applying, Answering
<1>1. ASSUME NEW b \in Sandboxes, PreparePaths(b) PROVE Kept'
  BY <1>1 DEF PreparePaths
<1>2. ASSUME NEW b \in Sandboxes, CopyRootfs(b) PROVE Kept'
  BY <1>2 DEF CopyRootfs
<1>3. ASSUME NEW b \in Sandboxes, CreateTap(b) PROVE Kept'
  BY <1>3 DEF CreateTap
<1>4. ASSUME NEW b \in Sandboxes, CreateTapFails(b) PROVE Kept'
  BY <1>4 DEF CreateTapFails
<1>5. ASSUME NEW b \in Sandboxes, SetUpTapFails(b) PROVE Kept'
  BY <1>5 DEF SetUpTapFails
<1>6. ASSUME NEW b \in Sandboxes, KeepAllocation(b) PROVE Kept'
  BY <1>6 DEF KeepAllocation
<1>7. ASSUME NEW b \in Sandboxes, CheckConntrack(b) PROVE Kept'
  BY <1>7 DEF CheckConntrack
<1>8. ASSUME NEW b \in Sandboxes, AddConntrack(b) PROVE Kept'
  BY <1>8 DEF AddConntrack
<1>9. ASSUME NEW b \in Sandboxes, AddMasquerade(b) PROVE Kept'
  BY <1>9 DEF AddMasquerade
<1>10. ASSUME NEW b \in Sandboxes, AddForward(b) PROVE Kept'
  BY <1>10 DEF AddForward
<1>11. ASSUME NEW b \in Sandboxes, AddInput(b) PROVE Kept'
  BY <1>11 DEF AddInput
<1>12. ASSUME NEW b \in Sandboxes, NEW c \in Cids, AllocateCid(b, c) PROVE Kept'
  BY <1>12 DEF AllocateCid
<1>13. ASSUME NEW b \in Sandboxes, KeepCid(b) PROVE Kept'
  BY <1>13 DEF KeepCid
<1>14. ASSUME NEW b \in Sandboxes, Launch(b) PROVE Kept'
  BY <1>14 DEF Launch
<1>15. ASSUME NEW b \in Sandboxes, BootDone(b) PROVE Kept'
  BY <1>15 DEF BootDone
<1>16. ASSUME NEW b \in Sandboxes, StartFails(b) PROVE Kept'
  BY <1>16 DEF StartFails
<1>17. ASSUME NEW b \in Sandboxes, Interrupt(b) PROVE Kept'
  BY <1>17 DEF Interrupt
<1>18. ASSUME NEW b \in Sandboxes, Stop(b) PROVE Kept'
  BY <1>18 DEF Stop
<1>19. ASSUME NEW b \in Sandboxes, ShutDownProcess(b) PROVE Kept'
  BY <1>19 DEF ShutDownProcess
<1>20. ASSUME NEW b \in Sandboxes, DelMasquerade(b) PROVE Kept'
  BY <1>20 DEF DelMasquerade
<1>21. ASSUME NEW b \in Sandboxes, DelForward(b) PROVE Kept'
  BY <1>21 DEF DelForward
<1>22. ASSUME NEW b \in Sandboxes, DelInput(b) PROVE Kept'
  BY <1>22 DEF DelInput
<1>23. ASSUME NEW b \in Sandboxes, DelConntrack(b) PROVE Kept'
  <2>1. tap[SessionOf[b]] # None
    BY <1>23 DEF DelConntrack, HostInv, LocalInv, DeviceInv, Device
  <2>2. ct' = ct
    BY <1>23, <2>1 DEF DelConntrack
  <2> QED
    BY <1>23, <2>2 DEF DelConntrack
<1>24. ASSUME NEW b \in Sandboxes, DestroyTap(b) PROVE Kept'
  BY <1>24 DEF DestroyTap
<1>25. ASSUME NEW b \in Sandboxes, ReleaseCid(b) PROVE Kept'
  BY <1>25 DEF ReleaseCid
<1>26. ASSUME NEW b \in Sandboxes, RemoveTemp(b) PROVE Kept'
  BY <1>26 DEF RemoveTemp
<1>27. ASSUME NEW b \in Sandboxes, Crash(b) PROVE Kept'
  BY <1>27 DEF Crash
<1>28. ASSUME NEW b \in Sandboxes, Kill(b) PROVE Kept'
  BY <1>28 DEF Kill
<1>29. ASSUME Cleanup PROVE Kept'
  BY <1>29 DEF Cleanup, CleanupTapsAndFirewall
<1>30. CASE UNCHANGED vars
  BY <1>30 DEF vars
<1> QED
  BY <1>1, <1>2, <1>3, <1>4, <1>5, <1>6, <1>7, <1>8, <1>9, <1>10, <1>11, <1>12, <1>13, <1>14, <1>15,
     <1>16, <1>17, <1>18, <1>19, <1>20, <1>21, <1>22, <1>23, <1>24, <1>25, <1>26, <1>27, <1>28,
     <1>29, <1>30, Zenon DEF Next, StartStep, StopStep

\* Whoever stops, fails or is killed, the rule that lets answers in to the
\* guests is there as long as one runs (_has_active_fire_taps).
THEOREM AnswersAlwaysPass == Spec => []AnswersPass
<1>1. Init => ConntrackInv
  BY DEF Init, ConntrackInv, Answering
<1>2. ConntrackInv => AnswersPass
  BY DEF ConntrackInv, AnswersPass
<1> QED
  BY <1>1, <1>2, HostInit, HostStep, ConntrackStep, PTL DEF Spec

----------------------------------------------------------------------------
(* Devices and directories.                                                *)

\* Some sandbox will give the session's device back, or is lost, and the
\* operator's script will.
Answerable(s) ==
    \E b \in Sandboxes :
        /\ SessionOf[b] = s
        /\ alloc[b] # None \/ StartAt(b, {"allocation"}) \/ pc[b] = "lost"

DevicesInv == \A s \in Sessions : tap[s] # None => Answerable(s)

TempInv == \A b \in Sandboxes : Idle(b) => tmp[b] # "full"

\* No step leaves a device without a sandbox that answers for it.
LEMMA DevicesStep == TypeOK /\ LocalInv /\ DevicesInv /\ [Next]_vars => DevicesInv'
<1> SUFFICES ASSUME TypeOK, LocalInv, DevicesInv, [Next]_vars, NEW s \in Sessions, tap'[s] # None
             PROVE  Answerable(s)'
  BY DEF DevicesInv
<1>0. /\ tap[s] # None => Answerable(s)
      /\ \A b \in Sandboxes : Local(b)
  BY DEF DevicesInv, LocalInv
<1> USE FireHostAssumption, <1>0 DEF TypeOK, At, Goto, net, ids, locals, fields, Local, StartHeld, StopHeld,
   StartAt, Applying, Answerable
<1>1. ASSUME NEW b \in Sandboxes, PreparePaths(b) PROVE Answerable(s)'
  BY <1>1 DEF PreparePaths
<1>2. ASSUME NEW b \in Sandboxes, CopyRootfs(b) PROVE Answerable(s)'
  BY <1>2 DEF CopyRootfs
<1>3. ASSUME NEW b \in Sandboxes, CreateTap(b) PROVE Answerable(s)'
  BY <1>3 DEF CreateTap
<1>4. ASSUME NEW b \in Sandboxes, CreateTapFails(b) PROVE Answerable(s)'
  BY <1>4 DEF CreateTapFails
<1>5. ASSUME NEW b \in Sandboxes, SetUpTapFails(b) PROVE Answerable(s)'
  BY <1>5 DEF SetUpTapFails
<1>6. ASSUME NEW b \in Sandboxes, KeepAllocation(b) PROVE Answerable(s)'
  <2>1. made[b] # None
    BY <1>6 DEF KeepAllocation, Index
  <2> QED
    BY <1>6, <2>1 DEF KeepAllocation
<1>7. ASSUME NEW b \in Sandboxes, CheckConntrack(b) PROVE Answerable(s)'
  BY <1>7 DEF CheckConntrack
<1>8. ASSUME NEW b \in Sandboxes, AddConntrack(b) PROVE Answerable(s)'
  BY <1>8 DEF AddConntrack
<1>9. ASSUME NEW b \in Sandboxes, AddMasquerade(b) PROVE Answerable(s)'
  BY <1>9 DEF AddMasquerade
<1>10. ASSUME NEW b \in Sandboxes, AddForward(b) PROVE Answerable(s)'
  BY <1>10 DEF AddForward
<1>11. ASSUME NEW b \in Sandboxes, AddInput(b) PROVE Answerable(s)'
  BY <1>11 DEF AddInput
<1>12. ASSUME NEW b \in Sandboxes, NEW c \in Cids, AllocateCid(b, c) PROVE Answerable(s)'
  BY <1>12 DEF AllocateCid
<1>13. ASSUME NEW b \in Sandboxes, KeepCid(b) PROVE Answerable(s)'
  BY <1>13 DEF KeepCid
<1>14. ASSUME NEW b \in Sandboxes, Launch(b) PROVE Answerable(s)'
  BY <1>14 DEF Launch
<1>15. ASSUME NEW b \in Sandboxes, BootDone(b) PROVE Answerable(s)'
  BY <1>15 DEF BootDone
<1>16. ASSUME NEW b \in Sandboxes, StartFails(b) PROVE Answerable(s)'
  BY <1>16 DEF StartFails
<1>17. ASSUME NEW b \in Sandboxes, Interrupt(b) PROVE Answerable(s)'
  BY <1>17 DEF Interrupt
<1>18. ASSUME NEW b \in Sandboxes, Stop(b) PROVE Answerable(s)'
  BY <1>18 DEF Stop
<1>19. ASSUME NEW b \in Sandboxes, ShutDownProcess(b) PROVE Answerable(s)'
  BY <1>19 DEF ShutDownProcess
<1>20. ASSUME NEW b \in Sandboxes, DelMasquerade(b) PROVE Answerable(s)'
  BY <1>20 DEF DelMasquerade
<1>21. ASSUME NEW b \in Sandboxes, DelForward(b) PROVE Answerable(s)'
  BY <1>21 DEF DelForward
<1>22. ASSUME NEW b \in Sandboxes, DelInput(b) PROVE Answerable(s)'
  BY <1>22 DEF DelInput
<1>23. ASSUME NEW b \in Sandboxes, DelConntrack(b) PROVE Answerable(s)'
  BY <1>23 DEF DelConntrack
<1>24. ASSUME NEW b \in Sandboxes, DestroyTap(b) PROVE Answerable(s)'
  BY <1>24 DEF DestroyTap
<1>25. ASSUME NEW b \in Sandboxes, ReleaseCid(b) PROVE Answerable(s)'
  BY <1>25 DEF ReleaseCid
<1>26. ASSUME NEW b \in Sandboxes, RemoveTemp(b) PROVE Answerable(s)'
  BY <1>26 DEF RemoveTemp
<1>27. ASSUME NEW b \in Sandboxes, Crash(b) PROVE Answerable(s)'
  BY <1>27 DEF Crash
<1>28. ASSUME NEW b \in Sandboxes, Kill(b) PROVE Answerable(s)'
  BY <1>28 DEF Kill
<1>29. ASSUME Cleanup PROVE Answerable(s)'
  BY <1>29 DEF Cleanup, CleanupTapsAndFirewall
<1>30. CASE UNCHANGED vars
  BY <1>30 DEF vars
<1> QED
  BY <1>1, <1>2, <1>3, <1>4, <1>5, <1>6, <1>7, <1>8, <1>9, <1>10, <1>11, <1>12, <1>13, <1>14, <1>15,
     <1>16, <1>17, <1>18, <1>19, <1>20, <1>21, <1>22, <1>23, <1>24, <1>25, <1>26, <1>27, <1>28,
     <1>29, <1>30, Zenon DEF Next, StartStep, StopStep

\* stop() takes the directory away; the script takes that of a lost sandbox.
LEMMA TempStep == TypeOK /\ TempInv /\ [Next]_vars => TempInv'
<1> SUFFICES ASSUME TypeOK, TempInv, [Next]_vars PROVE TempInv'
  OBVIOUS
<1> USE DEF TypeOK, At, Goto, net, ids, locals, fields, TempInv, Idle
<1>1. ASSUME NEW b \in Sandboxes, PreparePaths(b) PROVE TempInv'
  BY <1>1 DEF PreparePaths
<1>2. ASSUME NEW b \in Sandboxes, CopyRootfs(b) PROVE TempInv'
  BY <1>2 DEF CopyRootfs
<1>3. ASSUME NEW b \in Sandboxes, CreateTap(b) PROVE TempInv'
  BY <1>3 DEF CreateTap
<1>4. ASSUME NEW b \in Sandboxes, CreateTapFails(b) PROVE TempInv'
  BY <1>4 DEF CreateTapFails
<1>5. ASSUME NEW b \in Sandboxes, SetUpTapFails(b) PROVE TempInv'
  BY <1>5 DEF SetUpTapFails
<1>6. ASSUME NEW b \in Sandboxes, KeepAllocation(b) PROVE TempInv'
  BY <1>6 DEF KeepAllocation
<1>7. ASSUME NEW b \in Sandboxes, CheckConntrack(b) PROVE TempInv'
  BY <1>7 DEF CheckConntrack
<1>8. ASSUME NEW b \in Sandboxes, AddConntrack(b) PROVE TempInv'
  BY <1>8 DEF AddConntrack
<1>9. ASSUME NEW b \in Sandboxes, AddMasquerade(b) PROVE TempInv'
  BY <1>9 DEF AddMasquerade
<1>10. ASSUME NEW b \in Sandboxes, AddForward(b) PROVE TempInv'
  BY <1>10 DEF AddForward
<1>11. ASSUME NEW b \in Sandboxes, AddInput(b) PROVE TempInv'
  BY <1>11 DEF AddInput
<1>12. ASSUME NEW b \in Sandboxes, NEW c \in Cids, AllocateCid(b, c) PROVE TempInv'
  BY <1>12 DEF AllocateCid
<1>13. ASSUME NEW b \in Sandboxes, KeepCid(b) PROVE TempInv'
  BY <1>13 DEF KeepCid
<1>14. ASSUME NEW b \in Sandboxes, Launch(b) PROVE TempInv'
  BY <1>14 DEF Launch
<1>15. ASSUME NEW b \in Sandboxes, BootDone(b) PROVE TempInv'
  BY <1>15 DEF BootDone
<1>16. ASSUME NEW b \in Sandboxes, StartFails(b) PROVE TempInv'
  BY <1>16 DEF StartFails
<1>17. ASSUME NEW b \in Sandboxes, Interrupt(b) PROVE TempInv'
  BY <1>17 DEF Interrupt
<1>18. ASSUME NEW b \in Sandboxes, Stop(b) PROVE TempInv'
  BY <1>18 DEF Stop
<1>19. ASSUME NEW b \in Sandboxes, ShutDownProcess(b) PROVE TempInv'
  BY <1>19 DEF ShutDownProcess
<1>20. ASSUME NEW b \in Sandboxes, DelMasquerade(b) PROVE TempInv'
  BY <1>20 DEF DelMasquerade
<1>21. ASSUME NEW b \in Sandboxes, DelForward(b) PROVE TempInv'
  BY <1>21 DEF DelForward
<1>22. ASSUME NEW b \in Sandboxes, DelInput(b) PROVE TempInv'
  BY <1>22 DEF DelInput
<1>23. ASSUME NEW b \in Sandboxes, DelConntrack(b) PROVE TempInv'
  BY <1>23 DEF DelConntrack
<1>24. ASSUME NEW b \in Sandboxes, DestroyTap(b) PROVE TempInv'
  BY <1>24 DEF DestroyTap
<1>25. ASSUME NEW b \in Sandboxes, ReleaseCid(b) PROVE TempInv'
  BY <1>25 DEF ReleaseCid
<1>26. ASSUME NEW b \in Sandboxes, RemoveTemp(b) PROVE TempInv'
  BY <1>26 DEF RemoveTemp
<1>27. ASSUME NEW b \in Sandboxes, Crash(b) PROVE TempInv'
  BY <1>27 DEF Crash
<1>28. ASSUME NEW b \in Sandboxes, Kill(b) PROVE TempInv'
  BY <1>28 DEF Kill
<1>29. ASSUME Cleanup PROVE TempInv'
  BY <1>29 DEF Cleanup
<1>30. CASE UNCHANGED vars
  BY <1>30 DEF vars
<1> QED
  BY <1>1, <1>2, <1>3, <1>4, <1>5, <1>6, <1>7, <1>8, <1>9, <1>10, <1>11, <1>12, <1>13, <1>14, <1>15,
     <1>16, <1>17, <1>18, <1>19, <1>20, <1>21, <1>22, <1>23, <1>24, <1>25, <1>26, <1>27, <1>28,
     <1>29, <1>30, Zenon DEF Next, StartStep, StopStep

CleanInv == HostInv /\ DevicesInv /\ TempInv

\* An empty host is clean.
LEMMA CleanInit == Init => CleanInv
BY HostInit DEF Init, CleanInv, DevicesInv, TempInv

\* Every step keeps the account of what is left.
LEMMA CleanStep == CleanInv /\ [Next]_vars => CleanInv'
BY HostStep, DevicesStep, TempStep DEF CleanInv, HostInv

\* When nothing runs and no sandbox is lost, no device is left.
LEMMA NoDeviceLeft ==
    ASSUME CleanInv, AllIdle, NEW s \in Sessions
    PROVE  tap[s] = None
BY DEF CleanInv, HostInv, LocalInv, Local, DevicesInv, Answerable, AllIdle, Idle, StartAt,
       StartHeld, StopHeld

\* When every sandbox has stopped, and the script has been run after a kill, no
\* guest, device or directory with files is left, whatever start() came to.
THEOREM NothingStaysRunning == Spec => []NothingRuns
<1>1. CleanInv => NothingRuns
  <2> SUFFICES ASSUME CleanInv, AllIdle
               PROVE  /\ \A b \in Sandboxes : vm[b] = None /\ tmp[b] # "full"
                      /\ \A s \in Sessions : tap[s] = None
    BY DEF NothingRuns
  <2>1. ASSUME NEW b \in Sandboxes PROVE vm[b] = None /\ tmp[b] # "full"
    BY DEF CleanInv, HostInv, LocalInv, Local, TempInv, AllIdle, Idle
  <2> QED
    BY <2>1, NoDeviceLeft
<1> QED
  BY <1>1, CleanInit, CleanStep, PTL DEF Spec

----------------------------------------------------------------------------
(* Rules, as long as no signal arrives.                                    *)

\* Stages at which the device is there and a rule is not
Unmasked == {"allocation", "conntrack", "addConntrack", "masquerade"}
Unforwarded == Unmasked \cup {"forward", "delInput", "delConntrack", "destroyTap"}
Unguarded == Unmasked \cup {"forward", "input", "delConntrack", "destroyTap"}

\* A session has one copy of its rules at most, and only with its device.
SessionRules(s) ==
    /\ fwd[s] <= 1 /\ inp[s] <= 1
    /\ fwd[s] > 0 \/ inp[s] > 0 => tap[s] # None

\* So has a subnet.
SubnetRules(i) == nat[i] <= 1 /\ (nat[i] > 0 => \E s \in Sessions : tap[s] = i)

\* At every stage of a sandbox, what has been added has not been before, and
\* what has been deleted is gone.
StageRules(b) ==
    /\ back[b] = "none"
    /\ pc[b] \in Applying => alloc[b] = made[b]
    /\ pc[b] \in Unmasked => nat[made[b]] = 0
    /\ pc[b] \in {"delForward", "delInput", "delConntrack", "destroyTap"} => nat[alloc[b]] = 0
    /\ pc[b] \in Unforwarded => fwd[SessionOf[b]] = 0
    /\ pc[b] \in Unguarded => inp[SessionOf[b]] = 0

RuleInv ==
    /\ \A s \in Sessions : SessionRules(s)
    /\ \A i \in Index : SubnetRules(i)
    /\ \A b \in Sandboxes : StageRules(b)

Uninterrupted == \A b \in Sandboxes : ~Interrupt(b)

\* A sandbox that is about to add a rule, or has deleted it, has its session's
\* device, with the subnet that the rule is for.
LEMMA RuleDevice ==
    ASSUME HostInv, RuleInv, NEW b \in Sandboxes,
           pc[b] \in Unforwarded \cup Unguarded \cup {"delForward"}
    PROVE  /\ Owns(b)
           /\ pc[b] \in Unmasked \cup Applying => tap[SessionOf[b]] = made[b] /\ made[b] \in Index
           /\ pc[b] \in StopHeld => tap[SessionOf[b]] = alloc[b] /\ alloc[b] \in Index
           /\ tap[SessionOf[b]] # None
<1>1. TypeOK /\ Local(b) /\ Device(b) /\ StageRules(b)
  BY DEF HostInv, LocalInv, DeviceInv, RuleInv
<1> QED
  BY <1>1, FireHostAssumption
  DEF TypeOK, Local, Device, StageRules, Owns, StartAt, Unforwarded, Unguarded, Unmasked, Applying,
      StopHeld, Index

\* No step gives a session a second copy, or takes the device from its rules.
LEMMA SessionRulesStep ==
    ASSUME HostInv, RuleInv, [Next]_vars, Uninterrupted, NEW s \in Sessions
    PROVE  SessionRules(s)'
<1>0. TypeOK /\ SessionRules(s)
  BY DEF HostInv, RuleInv
<1> USE FireHostAssumption, <1>0
    DEF TypeOK, At, Goto, net, ids, locals, fields, SessionRules
<1>1. ASSUME NEW b \in Sandboxes, PreparePaths(b) PROVE SessionRules(s)'
  BY <1>1 DEF PreparePaths
<1>2. ASSUME NEW b \in Sandboxes, CopyRootfs(b) PROVE SessionRules(s)'
  BY <1>2 DEF CopyRootfs
<1>3. ASSUME NEW b \in Sandboxes, CreateTap(b) PROVE SessionRules(s)'
  <2>1. fwd' = fwd /\ inp' = inp /\ (tap[s] # None => tap'[s] # None)
    BY <1>3 DEF CreateTap
  <2> QED
    BY <2>1
<1>4. ASSUME NEW b \in Sandboxes, CreateTapFails(b) PROVE SessionRules(s)'
  BY <1>4 DEF CreateTapFails
<1>5. ASSUME NEW b \in Sandboxes, SetUpTapFails(b) PROVE SessionRules(s)'
  <2>1. fwd[SessionOf[b]] = 0 /\ inp[SessionOf[b]] = 0
    BY <1>5 DEF SetUpTapFails, RuleInv, StageRules, Unforwarded, Unguarded, Unmasked
  <2> QED
    BY <1>5, <2>1 DEF SetUpTapFails
<1>6. ASSUME NEW b \in Sandboxes, KeepAllocation(b) PROVE SessionRules(s)'
  BY <1>6 DEF KeepAllocation
<1>7. ASSUME NEW b \in Sandboxes, CheckConntrack(b) PROVE SessionRules(s)'
  BY <1>7 DEF CheckConntrack
<1>8. ASSUME NEW b \in Sandboxes, AddConntrack(b) PROVE SessionRules(s)'
  BY <1>8 DEF AddConntrack
<1>9. ASSUME NEW b \in Sandboxes, AddMasquerade(b) PROVE SessionRules(s)'
  BY <1>9 DEF AddMasquerade
<1>10. ASSUME NEW b \in Sandboxes, AddForward(b) PROVE SessionRules(s)'
  <2>1. fwd[SessionOf[b]] = 0 /\ tap[SessionOf[b]] # None
    BY <1>10, RuleDevice DEF AddForward, RuleInv, StageRules, Unforwarded
  <2> QED
    BY <1>10, <2>1 DEF AddForward
<1>11. ASSUME NEW b \in Sandboxes, AddInput(b) PROVE SessionRules(s)'
  <2>1. inp[SessionOf[b]] = 0 /\ tap[SessionOf[b]] # None
    BY <1>11, RuleDevice DEF AddInput, RuleInv, StageRules, Unguarded
  <2> QED
    BY <1>11, <2>1 DEF AddInput
<1>12. ASSUME NEW b \in Sandboxes, NEW c \in Cids, AllocateCid(b, c) PROVE SessionRules(s)'
  BY <1>12 DEF AllocateCid
<1>13. ASSUME NEW b \in Sandboxes, KeepCid(b) PROVE SessionRules(s)'
  BY <1>13 DEF KeepCid
<1>14. ASSUME NEW b \in Sandboxes, Launch(b) PROVE SessionRules(s)'
  BY <1>14 DEF Launch
<1>15. ASSUME NEW b \in Sandboxes, BootDone(b) PROVE SessionRules(s)'
  BY <1>15 DEF BootDone
<1>16. ASSUME NEW b \in Sandboxes, StartFails(b) PROVE SessionRules(s)'
  BY <1>16 DEF StartFails
<1>17. ASSUME NEW b \in Sandboxes, Interrupt(b) PROVE SessionRules(s)'
  BY <1>17 DEF Uninterrupted
<1>18. ASSUME NEW b \in Sandboxes, Stop(b) PROVE SessionRules(s)'
  BY <1>18 DEF Stop
<1>19. ASSUME NEW b \in Sandboxes, ShutDownProcess(b) PROVE SessionRules(s)'
  BY <1>19 DEF ShutDownProcess
<1>20. ASSUME NEW b \in Sandboxes, DelMasquerade(b) PROVE SessionRules(s)'
  BY <1>20 DEF DelMasquerade
<1>21. ASSUME NEW b \in Sandboxes, DelForward(b) PROVE SessionRules(s)'
  BY <1>21 DEF DelForward, Less
<1>22. ASSUME NEW b \in Sandboxes, DelInput(b) PROVE SessionRules(s)'
  BY <1>22 DEF DelInput, Less
<1>23. ASSUME NEW b \in Sandboxes, DelConntrack(b) PROVE SessionRules(s)'
  BY <1>23 DEF DelConntrack
<1>24. ASSUME NEW b \in Sandboxes, DestroyTap(b) PROVE SessionRules(s)'
  <2>1. fwd[SessionOf[b]] = 0 /\ inp[SessionOf[b]] = 0
    BY <1>24 DEF DestroyTap, RuleInv, StageRules, Unforwarded, Unguarded
  <2> QED
    BY <1>24, <2>1 DEF DestroyTap
<1>25. ASSUME NEW b \in Sandboxes, ReleaseCid(b) PROVE SessionRules(s)'
  BY <1>25 DEF ReleaseCid
<1>26. ASSUME NEW b \in Sandboxes, RemoveTemp(b) PROVE SessionRules(s)'
  BY <1>26 DEF RemoveTemp
<1>27. ASSUME NEW b \in Sandboxes, Crash(b) PROVE SessionRules(s)'
  BY <1>27 DEF Crash
<1>28. ASSUME NEW b \in Sandboxes, Kill(b) PROVE SessionRules(s)'
  BY <1>28 DEF Kill
<1>29. ASSUME Cleanup PROVE SessionRules(s)'
  BY <1>29 DEF Cleanup, CleanupTapsAndFirewall
<1>30. CASE UNCHANGED vars
  BY <1>30 DEF vars
<1> QED
  BY <1>1, <1>2, <1>3, <1>4, <1>5, <1>6, <1>7, <1>8, <1>9, <1>10, <1>11, <1>12, <1>13, <1>14, <1>15,
     <1>16, <1>17, <1>18, <1>19, <1>20, <1>21, <1>22, <1>23, <1>24, <1>25, <1>26, <1>27, <1>28,
     <1>29, <1>30, Zenon DEF Next, StartStep, StopStep

\* Nor a subnet.
LEMMA SubnetRulesStep ==
    ASSUME HostInv, RuleInv, [Next]_vars, Uninterrupted, NEW i \in Index
    PROVE  SubnetRules(i)'
<1>0. TypeOK /\ SubnetRules(i)
  BY DEF HostInv, RuleInv
<1> USE FireHostAssumption, <1>0
    DEF TypeOK, At, Goto, net, ids, locals, fields, SubnetRules
<1>1. ASSUME NEW b \in Sandboxes, PreparePaths(b) PROVE SubnetRules(i)'
  BY <1>1 DEF PreparePaths
<1>2. ASSUME NEW b \in Sandboxes, CopyRootfs(b) PROVE SubnetRules(i)'
  BY <1>2 DEF CopyRootfs
<1>3. ASSUME NEW b \in Sandboxes, CreateTap(b) PROVE SubnetRules(i)'
  <2>1. PICK n : tap[SessionOf[b]] = None /\ tap' = [tap EXCEPT ![SessionOf[b]] = n]
                 /\ nat' = nat
    BY <1>3 DEF CreateTap
  <2>2. i # None
    BY DEF Index
  <2>3. \A s \in Sessions : tap[s] = i => tap'[s] = i
    BY <2>1, <2>2
  <2> QED
    BY <2>1, <2>3
<1>4. ASSUME NEW b \in Sandboxes, CreateTapFails(b) PROVE SubnetRules(i)'
  BY <1>4 DEF CreateTapFails
<1>5. ASSUME NEW b \in Sandboxes, SetUpTapFails(b) PROVE SubnetRules(i)'
  <2>1. nat[made[b]] = 0 /\ tap[SessionOf[b]] = made[b]
    BY <1>5, RuleDevice DEF SetUpTapFails, RuleInv, StageRules, Unmasked, Unforwarded
  <2>2. \A s \in Sessions : nat[i] > 0 /\ tap[s] = i => tap'[s] = i
    BY <1>5, <2>1 DEF SetUpTapFails
  <2> QED
    BY <1>5, <2>2 DEF SetUpTapFails
<1>6. ASSUME NEW b \in Sandboxes, KeepAllocation(b) PROVE SubnetRules(i)'
  BY <1>6 DEF KeepAllocation
<1>7. ASSUME NEW b \in Sandboxes, CheckConntrack(b) PROVE SubnetRules(i)'
  BY <1>7 DEF CheckConntrack
<1>8. ASSUME NEW b \in Sandboxes, AddConntrack(b) PROVE SubnetRules(i)'
  BY <1>8 DEF AddConntrack
<1>9. ASSUME NEW b \in Sandboxes, AddMasquerade(b) PROVE SubnetRules(i)'
  <2>1. nat[made[b]] = 0 /\ tap[SessionOf[b]] = made[b]
    BY <1>9, RuleDevice DEF AddMasquerade, RuleInv, StageRules, Unmasked, Unforwarded
  <2> QED
    BY <1>9, <2>1 DEF AddMasquerade
<1>10. ASSUME NEW b \in Sandboxes, AddForward(b) PROVE SubnetRules(i)'
  BY <1>10 DEF AddForward
<1>11. ASSUME NEW b \in Sandboxes, AddInput(b) PROVE SubnetRules(i)'
  BY <1>11 DEF AddInput
<1>12. ASSUME NEW b \in Sandboxes, NEW c \in Cids, AllocateCid(b, c) PROVE SubnetRules(i)'
  BY <1>12 DEF AllocateCid
<1>13. ASSUME NEW b \in Sandboxes, KeepCid(b) PROVE SubnetRules(i)'
  BY <1>13 DEF KeepCid
<1>14. ASSUME NEW b \in Sandboxes, Launch(b) PROVE SubnetRules(i)'
  BY <1>14 DEF Launch
<1>15. ASSUME NEW b \in Sandboxes, BootDone(b) PROVE SubnetRules(i)'
  BY <1>15 DEF BootDone
<1>16. ASSUME NEW b \in Sandboxes, StartFails(b) PROVE SubnetRules(i)'
  BY <1>16 DEF StartFails
<1>17. ASSUME NEW b \in Sandboxes, Interrupt(b) PROVE SubnetRules(i)'
  BY <1>17 DEF Uninterrupted
<1>18. ASSUME NEW b \in Sandboxes, Stop(b) PROVE SubnetRules(i)'
  BY <1>18 DEF Stop
<1>19. ASSUME NEW b \in Sandboxes, ShutDownProcess(b) PROVE SubnetRules(i)'
  BY <1>19 DEF ShutDownProcess
<1>20. ASSUME NEW b \in Sandboxes, DelMasquerade(b) PROVE SubnetRules(i)'
  BY <1>20 DEF DelMasquerade, Less
<1>21. ASSUME NEW b \in Sandboxes, DelForward(b) PROVE SubnetRules(i)'
  BY <1>21 DEF DelForward
<1>22. ASSUME NEW b \in Sandboxes, DelInput(b) PROVE SubnetRules(i)'
  BY <1>22 DEF DelInput
<1>23. ASSUME NEW b \in Sandboxes, DelConntrack(b) PROVE SubnetRules(i)'
  BY <1>23 DEF DelConntrack
<1>24. ASSUME NEW b \in Sandboxes, DestroyTap(b) PROVE SubnetRules(i)'
  <2>1. nat[alloc[b]] = 0 /\ tap[SessionOf[b]] = alloc[b]
    BY <1>24, RuleDevice DEF DestroyTap, RuleInv, StageRules, StopHeld, Unforwarded
  <2>2. \A s \in Sessions : nat[i] > 0 /\ tap[s] = i => tap'[s] = i
    BY <1>24, <2>1 DEF DestroyTap
  <2> QED
    BY <1>24, <2>2 DEF DestroyTap
<1>25. ASSUME NEW b \in Sandboxes, ReleaseCid(b) PROVE SubnetRules(i)'
  BY <1>25 DEF ReleaseCid
<1>26. ASSUME NEW b \in Sandboxes, RemoveTemp(b) PROVE SubnetRules(i)'
  BY <1>26 DEF RemoveTemp
<1>27. ASSUME NEW b \in Sandboxes, Crash(b) PROVE SubnetRules(i)'
  BY <1>27 DEF Crash
<1>28. ASSUME NEW b \in Sandboxes, Kill(b) PROVE SubnetRules(i)'
  BY <1>28 DEF Kill
<1>29. ASSUME Cleanup PROVE SubnetRules(i)'
  BY <1>29 DEF Cleanup, CleanupTapsAndFirewall
<1>30. CASE UNCHANGED vars
  BY <1>30 DEF vars
<1> QED
  BY <1>1, <1>2, <1>3, <1>4, <1>5, <1>6, <1>7, <1>8, <1>9, <1>10, <1>11, <1>12, <1>13, <1>14, <1>15,
     <1>16, <1>17, <1>18, <1>19, <1>20, <1>21, <1>22, <1>23, <1>24, <1>25, <1>26, <1>27, <1>28,
     <1>29, <1>30, Zenon DEF Next, StartStep, StopStep

\* No step, of the sandbox or of another, adds a rule that a sandbox is about
\* to add or has deleted.
LEMMA StageRulesStep ==
    ASSUME HostInv, RuleInv, [Next]_vars, Uninterrupted, NEW d \in Sandboxes
    PROVE  StageRules(d)'
<1>0. TypeOK /\ StageRules(d) /\ Local(d)
  BY DEF HostInv, RuleInv, LocalInv
<1> USE FireHostAssumption, <1>0
    DEF TypeOK, At, Goto, net, ids, locals, fields, StageRules, Local, StartAt, StartHeld, StopHeld,
        Applying, Unmasked, Unforwarded, Unguarded
<1>1. ASSUME NEW b \in Sandboxes, PreparePaths(b) PROVE StageRules(d)'
  BY <1>1 DEF PreparePaths
<1>2. ASSUME NEW b \in Sandboxes, CopyRootfs(b) PROVE StageRules(d)'
  BY <1>2 DEF CopyRootfs
<1>3. ASSUME NEW b \in Sandboxes, CreateTap(b) PROVE StageRules(d)'
  <2>1. CASE d # b
    BY <1>3, <2>1 DEF CreateTap
  <2>2. CASE d = b
    <3>1. PICK k \in 0 .. Retries - 1 :
              /\ FreeSubnet((counter + k) % Subnets)
              /\ made' = [made EXCEPT ![b] = (counter + k) % Subnets]
      BY <1>3 DEF CreateTap, Draws
    <3>2. (counter + k) % Subnets \in Index
      <4>1. counter + k \in Nat
        BY DEF Index
      <4> QED
        BY <4>1, IndexClosed
    <3>3. nat[(counter + k) % Subnets] = 0
      BY <3>1, <3>2 DEF FreeSubnet, RuleInv, SubnetRules
    <3>4. fwd[SessionOf[b]] = 0 /\ inp[SessionOf[b]] = 0
      BY <1>3 DEF CreateTap, RuleInv, SessionRules
    <3> QED
      BY <1>3, <2>2, <3>1, <3>3, <3>4 DEF CreateTap
  <2> QED
    BY <2>1, <2>2
<1>4. ASSUME NEW b \in Sandboxes, CreateTapFails(b) PROVE StageRules(d)'
  BY <1>4 DEF CreateTapFails
<1>5. ASSUME NEW b \in Sandboxes, SetUpTapFails(b) PROVE StageRules(d)'
  BY <1>5 DEF SetUpTapFails
<1>6. ASSUME NEW b \in Sandboxes, KeepAllocation(b) PROVE StageRules(d)'
  BY <1>6 DEF KeepAllocation
<1>7. ASSUME NEW b \in Sandboxes, CheckConntrack(b) PROVE StageRules(d)'
  BY <1>7 DEF CheckConntrack
<1>8. ASSUME NEW b \in Sandboxes, AddConntrack(b) PROVE StageRules(d)'
  BY <1>8 DEF AddConntrack
<1>9. ASSUME NEW b \in Sandboxes, AddMasquerade(b) PROVE StageRules(d)'
  <2>1. CASE d = b
    BY <1>9, <2>1 DEF AddMasquerade
  <2>2. CASE d # b /\ pc[d] \in Unforwarded \cup Unguarded \cup {"delForward"}
    <3>1. /\ Owns(b) /\ Owns(d)
          /\ tap[SessionOf[b]] = made[b] /\ tap[SessionOf[b]] # None
          /\ pc[d] \in Unmasked => tap[SessionOf[d]] = made[d]
          /\ pc[d] \in StopHeld => tap[SessionOf[d]] = alloc[d]
      BY <1>9, <2>2, RuleDevice DEF AddMasquerade
    <3>2. SessionOf[d] # SessionOf[b]
      BY <2>2, <3>1 DEF HostInv, DeviceInv, Exclusive
    <3>3. tap[SessionOf[b]] # tap[SessionOf[d]]
      BY <3>1, <3>2 DEF HostInv, SubnetsDistinct
    <3> QED
      BY <1>9, <2>2, <3>1, <3>3 DEF AddMasquerade
  <2>3. CASE d # b /\ pc[d] \notin Unforwarded \cup Unguarded \cup {"delForward"}
    BY <1>9, <2>3 DEF AddMasquerade
  <2> QED
    BY <2>1, <2>2, <2>3
<1>10. ASSUME NEW b \in Sandboxes, AddForward(b) PROVE StageRules(d)'
  <2>1. CASE d = b
    BY <1>10, <2>1 DEF AddForward
  <2>2. CASE d # b /\ pc[d] \in Unforwarded \cup Unguarded \cup {"delForward"}
    <3>1. SessionOf[d] # SessionOf[b]
      <4>1. Owns(b) /\ Owns(d)
        BY <1>10, <2>2, RuleDevice DEF AddForward
      <4> QED
        BY <2>2, <4>1 DEF HostInv, DeviceInv, Exclusive
    <3> QED
      BY <1>10, <2>2, <3>1 DEF AddForward
  <2>3. CASE d # b /\ pc[d] \notin Unforwarded \cup Unguarded \cup {"delForward"}
    BY <1>10, <2>3 DEF AddForward
  <2> QED
    BY <2>1, <2>2, <2>3
<1>11. ASSUME NEW b \in Sandboxes, AddInput(b) PROVE StageRules(d)'
  <2>1. CASE d = b
    BY <1>11, <2>1 DEF AddInput
  <2>2. CASE d # b /\ pc[d] \in Unforwarded \cup Unguarded \cup {"delForward"}
    <3>1. SessionOf[d] # SessionOf[b]
      <4>1. Owns(b) /\ Owns(d)
        BY <1>11, <2>2, RuleDevice DEF AddInput
      <4> QED
        BY <2>2, <4>1 DEF HostInv, DeviceInv, Exclusive
    <3> QED
      BY <1>11, <2>2, <3>1 DEF AddInput
  <2>3. CASE d # b /\ pc[d] \notin Unforwarded \cup Unguarded \cup {"delForward"}
    BY <1>11, <2>3 DEF AddInput
  <2> QED
    BY <2>1, <2>2, <2>3
<1>12. ASSUME NEW b \in Sandboxes, NEW c \in Cids, AllocateCid(b, c) PROVE StageRules(d)'
  BY <1>12 DEF AllocateCid
<1>13. ASSUME NEW b \in Sandboxes, KeepCid(b) PROVE StageRules(d)'
  BY <1>13 DEF KeepCid
<1>14. ASSUME NEW b \in Sandboxes, Launch(b) PROVE StageRules(d)'
  BY <1>14 DEF Launch
<1>15. ASSUME NEW b \in Sandboxes, BootDone(b) PROVE StageRules(d)'
  BY <1>15 DEF BootDone
<1>16. ASSUME NEW b \in Sandboxes, StartFails(b) PROVE StageRules(d)'
  BY <1>16 DEF StartFails
<1>17. ASSUME NEW b \in Sandboxes, Interrupt(b) PROVE StageRules(d)'
  BY <1>17 DEF Uninterrupted
<1>18. ASSUME NEW b \in Sandboxes, Stop(b) PROVE StageRules(d)'
  BY <1>18 DEF Stop
<1>19. ASSUME NEW b \in Sandboxes, ShutDownProcess(b) PROVE StageRules(d)'
  BY <1>19 DEF ShutDownProcess
<1>20. ASSUME NEW b \in Sandboxes, DelMasquerade(b) PROVE StageRules(d)'
  <2>1. alloc[b] \in Index
    BY <1>20 DEF DelMasquerade, HostInv, LocalInv
  <2>2. \A i \in Index : nat'[i] = IF i = alloc[b] THEN Less(nat[i]) ELSE nat[i]
    BY <1>20, <2>1 DEF DelMasquerade
  <2>3. \A i \in Index : nat[i] = 0 => nat'[i] = 0
    BY <2>2 DEF Less
  <2>4. nat'[alloc[b]] = 0
    BY <2>1, <2>2 DEF Less, RuleInv, SubnetRules
  <2> QED
    BY <1>20, <2>3, <2>4 DEF DelMasquerade
<1>21. ASSUME NEW b \in Sandboxes, DelForward(b) PROVE StageRules(d)'
  <2>1. \A s \in Sessions : fwd[s] = 0 => fwd'[s] = 0
    BY <1>21 DEF DelForward, Less
  <2>2. fwd'[SessionOf[b]] = 0
    BY <1>21 DEF DelForward, Less, RuleInv, SessionRules
  <2> QED
    BY <1>21, <2>1, <2>2 DEF DelForward
<1>22. ASSUME NEW b \in Sandboxes, DelInput(b) PROVE StageRules(d)'
  <2>1. \A s \in Sessions : inp[s] = 0 => inp'[s] = 0
    BY <1>22 DEF DelInput, Less
  <2>2. inp'[SessionOf[b]] = 0
    BY <1>22 DEF DelInput, Less, RuleInv, SessionRules
  <2> QED
    BY <1>22, <2>1, <2>2 DEF DelInput
<1>23. ASSUME NEW b \in Sandboxes, DelConntrack(b) PROVE StageRules(d)'
  BY <1>23 DEF DelConntrack
<1>24. ASSUME NEW b \in Sandboxes, DestroyTap(b) PROVE StageRules(d)'
  BY <1>24 DEF DestroyTap
<1>25. ASSUME NEW b \in Sandboxes, ReleaseCid(b) PROVE StageRules(d)'
  BY <1>25 DEF ReleaseCid
<1>26. ASSUME NEW b \in Sandboxes, RemoveTemp(b) PROVE StageRules(d)'
  BY <1>26 DEF RemoveTemp
<1>27. ASSUME NEW b \in Sandboxes, Crash(b) PROVE StageRules(d)'
  BY <1>27 DEF Crash
<1>28. ASSUME NEW b \in Sandboxes, Kill(b) PROVE StageRules(d)'
  BY <1>28 DEF Kill
<1>29. ASSUME Cleanup PROVE StageRules(d)'
  BY <1>29 DEF Cleanup, CleanupTapsAndFirewall
<1>30. CASE UNCHANGED vars
  BY <1>30 DEF vars
<1> QED
  BY <1>1, <1>2, <1>3, <1>4, <1>5, <1>6, <1>7, <1>8, <1>9, <1>10, <1>11, <1>12, <1>13, <1>14, <1>15,
     <1>16, <1>17, <1>18, <1>19, <1>20, <1>21, <1>22, <1>23, <1>24, <1>25, <1>26, <1>27, <1>28,
     <1>29, <1>30, Zenon DEF Next, StartStep, StopStep

UnsignalledInv == CleanInv /\ ("signal" \notin harm => RuleInv)

\* The first state has no rules and no signal.
LEMMA UnsignalledInit == MCInit => UnsignalledInv
<1> SUFFICES ASSUME MCInit PROVE UnsignalledInv
  OBVIOUS
<1>1. Init
  BY DEF MCInit
<1>2. \A s \in Sessions : SessionRules(s)
  BY <1>1 DEF Init, SessionRules
<1>3. \A i \in Index : SubnetRules(i)
  BY <1>1 DEF Init, SubnetRules
<1>4. \A b \in Sandboxes : StageRules(b)
  BY <1>1 DEF Init, StageRules, Applying, Unmasked, Unforwarded, Unguarded
<1> QED
  BY <1>1, <1>2, <1>3, <1>4, CleanInit DEF UnsignalledInv, RuleInv

\* Every step keeps the rules in step with the devices until a signal arrives.
LEMMA UnsignalledStep == UnsignalledInv /\ [MCNext]_<<vars, harm>> => UnsignalledInv'
<1> SUFFICES ASSUME UnsignalledInv, [MCNext]_<<vars, harm>> PROVE UnsignalledInv'
  OBVIOUS
<1>1. [Next]_vars
  BY DEF MCNext
<1>2. CleanInv'
  BY <1>1, CleanStep DEF UnsignalledInv
<1>3. ASSUME "signal" \notin harm' PROVE RuleInv'
  <2>1. CASE UNCHANGED <<vars, harm>>
    BY <1>3, <2>1
    DEF UnsignalledInv, RuleInv, SessionRules, SubnetRules, StageRules, vars, net, ids, locals, fields
  <2>2. CASE MCNext
    <3>1. "signal" \notin harm /\ Uninterrupted
      BY <1>3, <2>2 DEF MCNext, Uninterrupted
    <3>2. HostInv /\ RuleInv
      BY <3>1 DEF UnsignalledInv, CleanInv
    <3>3. \A s \in Sessions : SessionRules(s)'
      BY <1>1, <3>1, <3>2, SessionRulesStep
    <3>4. \A i \in Index : SubnetRules(i)'
      BY <1>1, <3>1, <3>2, SubnetRulesStep
    <3>5. \A b \in Sandboxes : StageRules(b)'
      BY <1>1, <3>1, <3>2, StageRulesStep
    <3> QED
      BY <3>3, <3>4, <3>5 DEF RuleInv
  <2> QED
    BY <2>1, <2>2
<1> QED
  BY <1>2, <1>3 DEF UnsignalledInv

\* Without a signal no rule outlives the sandboxes, whatever fails, whoever is
\* killed and however many programs share a session (IptablesManager.cleanup
\* deletes one copy of each rule, and there is never a second).
THEOREM NoRuleOutlives == MCSpec => []NoRuleLeftUnlessSignalled
<1>1. UnsignalledInv => NoRuleLeftUnlessSignalled
  <2> SUFFICES ASSUME UnsignalledInv, "signal" \notin harm, AllIdle
               PROVE  /\ \A s \in Sessions : fwd[s] = 0 /\ inp[s] = 0
                      /\ \A i \in Index : nat[i] = 0
    BY DEF NoRuleLeftUnlessSignalled, NoRuleLeft
  <2>1. TypeOK /\ RuleInv /\ CleanInv
    BY DEF UnsignalledInv, CleanInv, HostInv
  <2>2. \A s \in Sessions : tap[s] = None
    BY <2>1, NoDeviceLeft
  <2>3. \A s \in Sessions : fwd[s] = 0 /\ inp[s] = 0
    BY <2>1, <2>2 DEF TypeOK, RuleInv, SessionRules
  <2>4. \A i \in Index : i # None
    BY FireHostAssumption DEF Index
  <2>5. \A i \in Index : nat[i] = 0
    BY <2>1, <2>2, <2>4 DEF TypeOK, RuleInv, SubnetRules
  <2> QED
    BY <2>3, <2>5
<1> QED
  BY <1>1, UnsignalledInit, UnsignalledStep, PTL DEF MCSpec

----------------------------------------------------------------------------
(* Leases, as long as no program is killed.                                *)

\* A sandbox has the lease in its field, or start() is about to keep it there.
HoldsLease(b, c) == cid[b] = c \/ (StartAt(b, {"guestCid"}) /\ made[b] = c)

LeaseInv == \A c \in leases : \E b \in Sandboxes : HoldsLease(b, c)

\* No step but a kill loses a lease: a stop() that a signal runs before start()
\* has kept the CID gives nothing back, and a later one does.
LEMMA LeaseStep ==
    ASSUME TypeOK, LocalInv, LeaseInv, [Next]_vars, \A b \in Sandboxes : ~Kill(b)
    PROVE  LeaseInv'
<1> SUFFICES ASSUME NEW e \in leases' PROVE (\E b \in Sandboxes : HoldsLease(b, e))'
  BY DEF LeaseInv
<1> DEFINE Held == \E b \in Sandboxes : HoldsLease(b, e)
<1>0. /\ e \in leases => Held
      /\ \A b \in Sandboxes : Local(b)
  BY DEF LeaseInv, LocalInv
<1> USE FireHostAssumption, <1>0 DEF TypeOK, At, Goto, net, ids, locals, fields, Local, StartHeld, StopHeld,
   StartAt, Applying, HoldsLease
<1>1. ASSUME NEW b \in Sandboxes, PreparePaths(b) PROVE Held'
  BY <1>1 DEF PreparePaths
<1>2. ASSUME NEW b \in Sandboxes, CopyRootfs(b) PROVE Held'
  BY <1>2 DEF CopyRootfs
<1>3. ASSUME NEW b \in Sandboxes, CreateTap(b) PROVE Held'
  BY <1>3 DEF CreateTap
<1>4. ASSUME NEW b \in Sandboxes, CreateTapFails(b) PROVE Held'
  BY <1>4 DEF CreateTapFails
<1>5. ASSUME NEW b \in Sandboxes, SetUpTapFails(b) PROVE Held'
  BY <1>5 DEF SetUpTapFails
<1>6. ASSUME NEW b \in Sandboxes, KeepAllocation(b) PROVE Held'
  BY <1>6 DEF KeepAllocation
<1>7. ASSUME NEW b \in Sandboxes, CheckConntrack(b) PROVE Held'
  BY <1>7 DEF CheckConntrack
<1>8. ASSUME NEW b \in Sandboxes, AddConntrack(b) PROVE Held'
  BY <1>8 DEF AddConntrack
<1>9. ASSUME NEW b \in Sandboxes, AddMasquerade(b) PROVE Held'
  BY <1>9 DEF AddMasquerade
<1>10. ASSUME NEW b \in Sandboxes, AddForward(b) PROVE Held'
  BY <1>10 DEF AddForward
<1>11. ASSUME NEW b \in Sandboxes, AddInput(b) PROVE Held'
  BY <1>11 DEF AddInput
<1>12. ASSUME NEW b \in Sandboxes, NEW c \in Cids, AllocateCid(b, c) PROVE Held'
  BY <1>12 DEF AllocateCid
<1>13. ASSUME NEW b \in Sandboxes, KeepCid(b) PROVE Held'
  BY <1>13 DEF KeepCid
<1>14. ASSUME NEW b \in Sandboxes, Launch(b) PROVE Held'
  BY <1>14 DEF Launch
<1>15. ASSUME NEW b \in Sandboxes, BootDone(b) PROVE Held'
  BY <1>15 DEF BootDone
<1>16. ASSUME NEW b \in Sandboxes, StartFails(b) PROVE Held'
  BY <1>16 DEF StartFails
<1>17. ASSUME NEW b \in Sandboxes, Interrupt(b) PROVE Held'
  BY <1>17 DEF Interrupt
<1>18. ASSUME NEW b \in Sandboxes, Stop(b) PROVE Held'
  BY <1>18 DEF Stop
<1>19. ASSUME NEW b \in Sandboxes, ShutDownProcess(b) PROVE Held'
  BY <1>19 DEF ShutDownProcess
<1>20. ASSUME NEW b \in Sandboxes, DelMasquerade(b) PROVE Held'
  BY <1>20 DEF DelMasquerade
<1>21. ASSUME NEW b \in Sandboxes, DelForward(b) PROVE Held'
  BY <1>21 DEF DelForward
<1>22. ASSUME NEW b \in Sandboxes, DelInput(b) PROVE Held'
  BY <1>22 DEF DelInput
<1>23. ASSUME NEW b \in Sandboxes, DelConntrack(b) PROVE Held'
  BY <1>23 DEF DelConntrack
<1>24. ASSUME NEW b \in Sandboxes, DestroyTap(b) PROVE Held'
  BY <1>24 DEF DestroyTap
<1>25. ASSUME NEW b \in Sandboxes, ReleaseCid(b) PROVE Held'
  BY <1>25 DEF ReleaseCid
<1>26. ASSUME NEW b \in Sandboxes, RemoveTemp(b) PROVE Held'
  BY <1>26 DEF RemoveTemp
<1>27. ASSUME NEW b \in Sandboxes, Crash(b) PROVE Held'
  BY <1>27 DEF Crash
<1>28. ASSUME NEW b \in Sandboxes, Kill(b) PROVE Held'
  BY <1>28
<1>29. ASSUME Cleanup PROVE Held'
  BY <1>29 DEF Cleanup
<1>30. CASE UNCHANGED vars
  BY <1>30 DEF vars
<1> QED
  BY <1>1, <1>2, <1>3, <1>4, <1>5, <1>6, <1>7, <1>8, <1>9, <1>10, <1>11, <1>12, <1>13, <1>14, <1>15,
     <1>16, <1>17, <1>18, <1>19, <1>20, <1>21, <1>22, <1>23, <1>24, <1>25, <1>26, <1>27, <1>28,
     <1>29, <1>30, Zenon DEF Next, StartStep, StopStep

\* No lease is lost without a kill, at whatever step start() and stop() fail
\* or are interrupted (CidLeaseManager, _guest_cid).
THEOREM NoLeaseLost == MCSpec => []LeasesHeldUnlessKilled
<1> DEFINE Inv == HostInv /\ ("kill" \notin harm => LeaseInv)
<1>1. MCInit => Inv
  BY HostInit DEF MCInit, Init, LeaseInv
<1>2. Inv /\ [MCNext]_<<vars, harm>> => Inv'
  <2> SUFFICES ASSUME Inv, [MCNext]_<<vars, harm>> PROVE Inv'
    OBVIOUS
  <2>1. [Next]_vars
    BY DEF MCNext
  <2>2. HostInv'
    BY <2>1, HostStep
  <2>3. ASSUME "kill" \notin harm' PROVE LeaseInv'
    <3>1. CASE UNCHANGED <<vars, harm>>
      BY <2>3, <3>1 DEF LeaseInv, HoldsLease, StartAt, vars, ids, locals, fields
    <3>2. CASE MCNext
      <4>1. "kill" \notin harm /\ \A b \in Sandboxes : ~Kill(b)
        BY <2>3, <3>2 DEF MCNext
      <4> QED
        BY <2>1, <4>1, LeaseStep DEF HostInv
    <3> QED
      BY <3>1, <3>2
  <2> QED
    BY <2>2, <2>3
<1>3. Inv => LeasesHeldUnlessKilled
  BY DEF LeaseInv, HoldsLease, LeasesHeldUnlessKilled, LeasesHeld
<1> QED
  BY <1>1, <1>2, <1>3, PTL DEF MCSpec

=============================================================================
