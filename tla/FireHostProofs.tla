--------------------------- MODULE FireHostProofs ---------------------------
(***************************************************************************)
(* Theorems about FireHost, for any number of sandboxes, sessions, CIDs    *)
(* and subnets, with and without signals and kills.                        *)
(***************************************************************************)
EXTENDS FireHost, TLAPS

\* Stages of start() and of stop() at which the object has its allocation
StartHeld == {"conntrack", "addConntrack", "masquerade", "forward", "input", "cid", "guestCid",
              "launch", "boot", "up"}
StopHeld == {"delMasquerade", "delForward", "delInput", "delConntrack", "destroyTap"}

\* Stages of IptablesManager.apply
Applying == {"conntrack", "addConntrack", "masquerade", "forward", "input"}

\* Stages at which the INPUT rule has been added and not yet deleted
Guarded == {"cid", "guestCid", "launch", "boot", "up"}

\* start() is at a stage, or will be when the signal handler's stop() ends.
StartAt(b, stages) == pc[b] \in stages \/ back[b] \in stages

\* What the fields of a sandbox say at each stage.  Once a signal handler has
\* taken its paths away, start() goes on with less.
Local(b) ==
    /\ alloc[b] # None => pc[b] \in StartHeld \cup StopHeld \cup {"close"}
    /\ pc[b] \in StartHeld => alloc[b] # None \/ tmp[b] = "none"
    /\ pc[b] \in StopHeld => alloc[b] # None
    /\ back[b] # "none" => pc[b] \in StopHeld \cup {"close", "releaseCid", "rmtree"}
    /\ StartAt(b, {"allocation"} \cup Applying) => made[b] \in Index
    /\ StartAt(b, {"guestCid"}) => made[b] \in Cids
    /\ back[b] = "allocation" => alloc[b] = None
    /\ back[b] = "guestCid" => cid[b] = None
    /\ cid[b] # None => pc[b] \in {"launch", "boot", "up", "close", "releaseCid"} \cup StopHeld
    /\ pc[b] \in {"launch", "boot", "up"} => cid[b] # None \/ tmp[b] = "none"
    /\ vm[b] # None => pc[b] \in {"boot", "up", "close", "lost"}
    /\ vm[b] # None /\ pc[b] # "lost" =>
           alloc[b] = vm[b].subnet /\ cid[b] = vm[b].guestCid

\* The device and the rule of a sandbox that counts on them are there.
Device(b) ==
    /\ alloc[b] # None => tap[SessionOf[b]] = alloc[b]
    /\ StartAt(b, {"allocation"}) => tap[SessionOf[b]] = made[b]
    /\ vm[b] # None => tap[SessionOf[b]] = vm[b].subnet /\ inp[SessionOf[b]] > 0
    /\ pc[b] \in Guarded => inp[SessionOf[b]] > 0 \/ tmp[b] = "none"

Owns(b) == alloc[b] # None \/ StartAt(b, {"allocation"}) \/ vm[b] # None

\* The device of a session belongs to one sandbox.
Exclusive ==
    \A b, c \in Sandboxes : b # c /\ Owns(b) /\ Owns(c) => SessionOf[b] # SessionOf[c]

\* Two devices have different subnets.
SubnetsDistinct ==
    \A s, r \in Sessions : s # r /\ tap[s] # None => tap[s] # tap[r]

\* The CIDs that a sandbox uses or is about to use
Claims(b, c) ==
    \/ cid[b] = c
    \/ StartAt(b, {"guestCid"}) /\ made[b] = c
    \/ vm[b] # None /\ vm[b].guestCid = c

\* A CID that a sandbox claims is leased, and claimed by no other.
ClaimsLeased ==
    \A b \in Sandboxes, c \in Cids :
        Claims(b, c) => c \in leases /\ \A d \in Sandboxes : d # b => ~Claims(d, c)

LocalInv == \A b \in Sandboxes : Local(b)
DeviceInv == Exclusive /\ \A b \in Sandboxes : Device(b)

----------------------------------------------------------------------------
(* Types.                                                                  *)

\* The counter of TAP devices wraps around to a subnet.
LEMMA IndexClosed == \A n \in Nat : n % Subnets \in Index
BY FireHostAssumption DEF Index

\* iptables has a number of copies of a rule.
LEMMA LessNat == \A n \in Nat : Less(n) \in Nat
BY DEF Less

\* The first state is well typed, and no sandbox has anything.
LEMMA HostTypeInit == Init => TypeOK /\ LocalInv
BY FireHostAssumption
DEF Init, TypeOK, LocalInv, Local, StartHeld, StopHeld, StartAt, Applying, Index

\* No step of start(), stop() or the script breaks a type.
LEMMA HostTypeStep == TypeOK /\ LocalInv /\ [Next]_vars => TypeOK'
<1> SUFFICES ASSUME TypeOK, LocalInv, [Next]_vars PROVE TypeOK'
  OBVIOUS
<1> USE FireHostAssumption, LessNat DEF TypeOK, At, Goto, net, ids, locals, fields
<1>1. ASSUME NEW b \in Sandboxes, PreparePaths(b) PROVE TypeOK'
  BY <1>1 DEF PreparePaths
<1>2. ASSUME NEW b \in Sandboxes, CopyRootfs(b) PROVE TypeOK'
  BY <1>2 DEF CopyRootfs
<1>3. ASSUME NEW b \in Sandboxes, CreateTap(b) PROVE TypeOK'
  <2>1. PICK k \in 0 .. Retries - 1 :
            /\ counter' = (counter + k + 1) % Subnets
            /\ tap' = [tap EXCEPT ![SessionOf[b]] = (counter + k) % Subnets]
            /\ made' = [made EXCEPT ![b] = (counter + k) % Subnets]
    BY <1>3 DEF CreateTap
  <2>2. (counter + k + 1) % Subnets \in Index /\ (counter + k) % Subnets \in Index
    <3>1. counter \in Nat /\ k \in Nat
      BY DEF Index
    <3>2. counter + k \in Nat /\ counter + k + 1 \in Nat
      BY <3>1, SMT
    <3> QED
      BY <3>2, IndexClosed
  <2> QED
    BY <1>3, <2>1, <2>2 DEF CreateTap
<1>4. ASSUME NEW b \in Sandboxes, CreateTapFails(b) PROVE TypeOK'
  <2>1. PICK k \in 0 .. Retries : counter' = (counter + k) % Subnets
    BY <1>4 DEF CreateTapFails
  <2>2. counter + k \in Nat
    BY DEF Index
  <2>3. counter' \in Index
    BY <2>1, <2>2, IndexClosed
  <2> QED
    BY <1>4, <2>3 DEF CreateTapFails
<1>5. ASSUME NEW b \in Sandboxes, SetUpTapFails(b) PROVE TypeOK'
  BY <1>5 DEF SetUpTapFails
<1>6. ASSUME NEW b \in Sandboxes, KeepAllocation(b) PROVE TypeOK'
  <2>1. made[b] \in Index
    BY <1>6 DEF KeepAllocation, LocalInv, Local, StartAt
  <2> QED
    BY <1>6, <2>1 DEF KeepAllocation
<1>7. ASSUME NEW b \in Sandboxes, CheckConntrack(b) PROVE TypeOK'
  BY <1>7 DEF CheckConntrack
<1>8. ASSUME NEW b \in Sandboxes, AddConntrack(b) PROVE TypeOK'
  BY <1>8 DEF AddConntrack
<1>9. ASSUME NEW b \in Sandboxes, AddMasquerade(b) PROVE TypeOK'
  <2>1. made[b] \in Index
    BY <1>9 DEF AddMasquerade, LocalInv, Local, StartAt, Applying
  <2>2. nat' \in [Index -> Nat]
    BY <1>9, <2>1 DEF AddMasquerade
  <2> QED
    BY <1>9, <2>2 DEF AddMasquerade
<1>10. ASSUME NEW b \in Sandboxes, AddForward(b) PROVE TypeOK'
  BY <1>10 DEF AddForward
<1>11. ASSUME NEW b \in Sandboxes, AddInput(b) PROVE TypeOK'
  <2>1. inp' \in [Sessions -> Nat]
    BY <1>11 DEF AddInput
  <2> QED
    BY <1>11, <2>1 DEF AddInput
<1>12. ASSUME NEW b \in Sandboxes, NEW c \in Cids, AllocateCid(b, c) PROVE TypeOK'
  BY <1>12 DEF AllocateCid
<1>13. ASSUME NEW b \in Sandboxes, KeepCid(b) PROVE TypeOK'
  <2>1. made[b] \in Cids
    BY <1>13 DEF KeepCid, LocalInv, Local, StartAt
  <2> QED
    BY <1>13, <2>1 DEF KeepCid
<1>14. ASSUME NEW b \in Sandboxes, Launch(b) PROVE TypeOK'
  <2>1. alloc[b] # None /\ cid[b] # None
    BY <1>14 DEF Launch, LocalInv, Local, StartHeld
  <2>2. [subnet |-> alloc[b], guestCid |-> cid[b]] \in [subnet : Index, guestCid : Cids]
    BY <2>1
  <2> QED
    BY <1>14, <2>2 DEF Launch
<1>15. ASSUME NEW b \in Sandboxes, BootDone(b) PROVE TypeOK'
  BY <1>15 DEF BootDone
<1>16. ASSUME NEW b \in Sandboxes, StartFails(b) PROVE TypeOK'
  BY <1>16 DEF StartFails
<1>17. ASSUME NEW b \in Sandboxes, Interrupt(b) PROVE TypeOK'
  BY <1>17 DEF Interrupt
<1>18. ASSUME NEW b \in Sandboxes, Stop(b) PROVE TypeOK'
  BY <1>18 DEF Stop
<1>19. ASSUME NEW b \in Sandboxes, ShutDownProcess(b) PROVE TypeOK'
  BY <1>19 DEF ShutDownProcess
<1>20. ASSUME NEW b \in Sandboxes, DelMasquerade(b) PROVE TypeOK'
  BY <1>20 DEF DelMasquerade
<1>21. ASSUME NEW b \in Sandboxes, DelForward(b) PROVE TypeOK'
  BY <1>21 DEF DelForward
<1>22. ASSUME NEW b \in Sandboxes, DelInput(b) PROVE TypeOK'
  BY <1>22 DEF DelInput
<1>23. ASSUME NEW b \in Sandboxes, DelConntrack(b) PROVE TypeOK'
  BY <1>23 DEF DelConntrack
<1>24. ASSUME NEW b \in Sandboxes, DestroyTap(b) PROVE TypeOK'
  BY <1>24 DEF DestroyTap
<1>25. ASSUME NEW b \in Sandboxes, ReleaseCid(b) PROVE TypeOK'
  BY <1>25 DEF ReleaseCid
<1>26. ASSUME NEW b \in Sandboxes, RemoveTemp(b) PROVE TypeOK'
  BY <1>26 DEF RemoveTemp
<1>27. ASSUME NEW b \in Sandboxes, Crash(b) PROVE TypeOK'
  BY <1>27 DEF Crash
<1>28. ASSUME NEW b \in Sandboxes, Kill(b) PROVE TypeOK'
  BY <1>28 DEF Kill
<1>29. ASSUME Cleanup PROVE TypeOK'
  BY <1>29 DEF Cleanup, CleanupTapsAndFirewall
<1>30. CASE UNCHANGED vars
  BY <1>30 DEF vars
<1> QED
  BY <1>1, <1>2, <1>3, <1>4, <1>5, <1>6, <1>7, <1>8, <1>9, <1>10, <1>11, <1>12, <1>13, <1>14, <1>15,
     <1>16, <1>17, <1>18, <1>19, <1>20, <1>21, <1>22, <1>23, <1>24, <1>25, <1>26, <1>27, <1>28,
     <1>29, <1>30, Zenon DEF Next, StartStep, StopStep

\* The fields of a sandbox say at every stage what it has.
LEMMA LocalStep == TypeOK /\ LocalInv /\ [Next]_vars => LocalInv'
<1> SUFFICES ASSUME TypeOK, LocalInv, [Next]_vars, NEW d \in Sandboxes PROVE Local(d)'
  BY DEF LocalInv
<1>0. Local(d)
  BY DEF LocalInv
<1> USE FireHostAssumption, <1>0 DEF TypeOK, At, Goto, net, ids, locals, fields, Local, StartHeld, StopHeld,
   StartAt, Applying
<1>1. ASSUME NEW b \in Sandboxes, PreparePaths(b) PROVE Local(d)'
  BY <1>1 DEF PreparePaths
<1>2. ASSUME NEW b \in Sandboxes, CopyRootfs(b) PROVE Local(d)'
  BY <1>2 DEF CopyRootfs
<1>3. ASSUME NEW b \in Sandboxes, CreateTap(b) PROVE Local(d)'
  <2>1. PICK k \in 0 .. Retries - 1 :
            made' = [made EXCEPT ![b] = (counter + k) % Subnets]
    BY <1>3 DEF CreateTap
  <2>2. counter + k \in Nat
    BY DEF Index
  <2>3. (counter + k) % Subnets \in Index
    BY <2>2, IndexClosed
  <2> QED
    BY <1>3, <2>1, <2>3 DEF CreateTap
<1>4. ASSUME NEW b \in Sandboxes, CreateTapFails(b) PROVE Local(d)'
  BY <1>4 DEF CreateTapFails
<1>5. ASSUME NEW b \in Sandboxes, SetUpTapFails(b) PROVE Local(d)'
  BY <1>5 DEF SetUpTapFails
<1>6. ASSUME NEW b \in Sandboxes, KeepAllocation(b) PROVE Local(d)'
  <2>1. made[b] \in Index /\ made[b] # None
    BY <1>6 DEF KeepAllocation, LocalInv, Index
  <2> QED
    BY <1>6, <2>1 DEF KeepAllocation
<1>7. ASSUME NEW b \in Sandboxes, CheckConntrack(b) PROVE Local(d)'
  BY <1>7 DEF CheckConntrack
<1>8. ASSUME NEW b \in Sandboxes, AddConntrack(b) PROVE Local(d)'
  BY <1>8 DEF AddConntrack
<1>9. ASSUME NEW b \in Sandboxes, AddMasquerade(b) PROVE Local(d)'
  BY <1>9 DEF AddMasquerade
<1>10. ASSUME NEW b \in Sandboxes, AddForward(b) PROVE Local(d)'
  BY <1>10 DEF AddForward
<1>11. ASSUME NEW b \in Sandboxes, AddInput(b) PROVE Local(d)'
  BY <1>11 DEF AddInput
<1>12. ASSUME NEW b \in Sandboxes, NEW c \in Cids, AllocateCid(b, c) PROVE Local(d)'
  BY <1>12 DEF AllocateCid
<1>13. ASSUME NEW b \in Sandboxes, KeepCid(b) PROVE Local(d)'
  BY <1>13 DEF KeepCid
<1>14. ASSUME NEW b \in Sandboxes, Launch(b) PROVE Local(d)'
  BY <1>14 DEF Launch
<1>15. ASSUME NEW b \in Sandboxes, BootDone(b) PROVE Local(d)'
  BY <1>15 DEF BootDone
<1>16. ASSUME NEW b \in Sandboxes, StartFails(b) PROVE Local(d)'
  BY <1>16 DEF StartFails
<1>17. ASSUME NEW b \in Sandboxes, Interrupt(b) PROVE Local(d)'
  BY <1>17 DEF Interrupt
<1>18. ASSUME NEW b \in Sandboxes, Stop(b) PROVE Local(d)'
  BY <1>18 DEF Stop
<1>19. ASSUME NEW b \in Sandboxes, ShutDownProcess(b) PROVE Local(d)'
  BY <1>19 DEF ShutDownProcess
<1>20. ASSUME NEW b \in Sandboxes, DelMasquerade(b) PROVE Local(d)'
  BY <1>20 DEF DelMasquerade
<1>21. ASSUME NEW b \in Sandboxes, DelForward(b) PROVE Local(d)'
  BY <1>21 DEF DelForward
<1>22. ASSUME NEW b \in Sandboxes, DelInput(b) PROVE Local(d)'
  BY <1>22 DEF DelInput
<1>23. ASSUME NEW b \in Sandboxes, DelConntrack(b) PROVE Local(d)'
  BY <1>23 DEF DelConntrack
<1>24. ASSUME NEW b \in Sandboxes, DestroyTap(b) PROVE Local(d)'
  BY <1>24 DEF DestroyTap
<1>25. ASSUME NEW b \in Sandboxes, ReleaseCid(b) PROVE Local(d)'
  BY <1>25 DEF ReleaseCid
<1>26. ASSUME NEW b \in Sandboxes, RemoveTemp(b) PROVE Local(d)'
  BY <1>26 DEF RemoveTemp
<1>27. ASSUME NEW b \in Sandboxes, Crash(b) PROVE Local(d)'
  BY <1>27 DEF Crash
<1>28. ASSUME NEW b \in Sandboxes, Kill(b) PROVE Local(d)'
  BY <1>28 DEF Kill
<1>29. ASSUME Cleanup PROVE Local(d)'
  BY <1>29 DEF Cleanup
<1>30. CASE UNCHANGED vars
  BY <1>30 DEF vars
<1> QED
  BY <1>1, <1>2, <1>3, <1>4, <1>5, <1>6, <1>7, <1>8, <1>9, <1>10, <1>11, <1>12, <1>13, <1>14, <1>15,
     <1>16, <1>17, <1>18, <1>19, <1>20, <1>21, <1>22, <1>23, <1>24, <1>25, <1>26, <1>27, <1>28,
     <1>29, <1>30, Zenon DEF Next, StartStep, StopStep

\* The host's state stays well typed: in particular the fields from which
\* stop() deletes rules and devices name a subnet when it does.
THEOREM HostTypeCorrect == Spec => []TypeOK
<1>1. TypeOK /\ LocalInv /\ [Next]_vars => (TypeOK /\ LocalInv)'
  BY HostTypeStep, LocalStep
<1> QED
  BY HostTypeInit, <1>1, PTL DEF Spec

----------------------------------------------------------------------------
(* Devices.                                                                *)

\* A sandbox that owns a device owns one that exists.
LEMMA OwnsTap ==
    ASSUME TypeOK, DeviceInv, NEW b \in Sandboxes, Owns(b), LocalInv
    PROVE  tap[SessionOf[b]] # None
BY FireHostAssumption DEF TypeOK, DeviceInv, Device, Owns, LocalInv, Local, StartAt, Applying, Index

\* No step makes a second sandbox own a session's device.
LEMMA ExclusiveStep == TypeOK /\ LocalInv /\ DeviceInv /\ [Next]_vars => Exclusive'
<1> SUFFICES ASSUME TypeOK, LocalInv, DeviceInv, [Next]_vars PROVE Exclusive'
  OBVIOUS
<1>0. Exclusive
  BY DEF DeviceInv
<1> USE FireHostAssumption, <1>0 DEF TypeOK, At, Goto, net, ids, locals, fields, Exclusive, Owns, LocalInv,
   Local, StartHeld, StopHeld, StartAt, Applying
<1>1. ASSUME NEW b \in Sandboxes, PreparePaths(b) PROVE Exclusive'
  BY <1>1 DEF PreparePaths
<1>2. ASSUME NEW b \in Sandboxes, CopyRootfs(b) PROVE Exclusive'
  BY <1>2 DEF CopyRootfs
<1>3. ASSUME NEW b \in Sandboxes, CreateTap(b) PROVE Exclusive'
  <2>1. \A c \in Sandboxes : Owns(c) => SessionOf[c] # SessionOf[b]
    BY <1>3, OwnsTap DEF CreateTap
  <2> QED
    BY <1>3, <2>1 DEF CreateTap
<1>4. ASSUME NEW b \in Sandboxes, CreateTapFails(b) PROVE Exclusive'
  BY <1>4 DEF CreateTapFails
<1>5. ASSUME NEW b \in Sandboxes, SetUpTapFails(b) PROVE Exclusive'
  BY <1>5 DEF SetUpTapFails
<1>6. ASSUME NEW b \in Sandboxes, KeepAllocation(b) PROVE Exclusive'
  BY <1>6 DEF KeepAllocation
<1>7. ASSUME NEW b \in Sandboxes, CheckConntrack(b) PROVE Exclusive'
  BY <1>7 DEF CheckConntrack
<1>8. ASSUME NEW b \in Sandboxes, AddConntrack(b) PROVE Exclusive'
  BY <1>8 DEF AddConntrack
<1>9. ASSUME NEW b \in Sandboxes, AddMasquerade(b) PROVE Exclusive'
  BY <1>9 DEF AddMasquerade
<1>10. ASSUME NEW b \in Sandboxes, AddForward(b) PROVE Exclusive'
  BY <1>10 DEF AddForward
<1>11. ASSUME NEW b \in Sandboxes, AddInput(b) PROVE Exclusive'
  BY <1>11 DEF AddInput
<1>12. ASSUME NEW b \in Sandboxes, NEW c \in Cids, AllocateCid(b, c) PROVE Exclusive'
  BY <1>12 DEF AllocateCid
<1>13. ASSUME NEW b \in Sandboxes, KeepCid(b) PROVE Exclusive'
  BY <1>13 DEF KeepCid
<1>14. ASSUME NEW b \in Sandboxes, Launch(b) PROVE Exclusive'
  BY <1>14 DEF Launch
<1>15. ASSUME NEW b \in Sandboxes, BootDone(b) PROVE Exclusive'
  BY <1>15 DEF BootDone
<1>16. ASSUME NEW b \in Sandboxes, StartFails(b) PROVE Exclusive'
  BY <1>16 DEF StartFails
<1>17. ASSUME NEW b \in Sandboxes, Interrupt(b) PROVE Exclusive'
  BY <1>17 DEF Interrupt
<1>18. ASSUME NEW b \in Sandboxes, Stop(b) PROVE Exclusive'
  BY <1>18 DEF Stop
<1>19. ASSUME NEW b \in Sandboxes, ShutDownProcess(b) PROVE Exclusive'
  BY <1>19 DEF ShutDownProcess
<1>20. ASSUME NEW b \in Sandboxes, DelMasquerade(b) PROVE Exclusive'
  BY <1>20 DEF DelMasquerade
<1>21. ASSUME NEW b \in Sandboxes, DelForward(b) PROVE Exclusive'
  BY <1>21 DEF DelForward
<1>22. ASSUME NEW b \in Sandboxes, DelInput(b) PROVE Exclusive'
  BY <1>22 DEF DelInput
<1>23. ASSUME NEW b \in Sandboxes, DelConntrack(b) PROVE Exclusive'
  BY <1>23 DEF DelConntrack
<1>24. ASSUME NEW b \in Sandboxes, DestroyTap(b) PROVE Exclusive'
  BY <1>24 DEF DestroyTap
<1>25. ASSUME NEW b \in Sandboxes, ReleaseCid(b) PROVE Exclusive'
  BY <1>25 DEF ReleaseCid
<1>26. ASSUME NEW b \in Sandboxes, RemoveTemp(b) PROVE Exclusive'
  BY <1>26 DEF RemoveTemp
<1>27. ASSUME NEW b \in Sandboxes, Crash(b) PROVE Exclusive'
  BY <1>27 DEF Crash
<1>28. ASSUME NEW b \in Sandboxes, Kill(b) PROVE Exclusive'
  BY <1>28 DEF Kill
<1>29. ASSUME Cleanup PROVE Exclusive'
  BY <1>29 DEF Cleanup
<1>30. CASE UNCHANGED vars
  BY <1>30 DEF vars
<1> QED
  BY <1>1, <1>2, <1>3, <1>4, <1>5, <1>6, <1>7, <1>8, <1>9, <1>10, <1>11, <1>12, <1>13, <1>14, <1>15,
     <1>16, <1>17, <1>18, <1>19, <1>20, <1>21, <1>22, <1>23, <1>24, <1>25, <1>26, <1>27, <1>28,
     <1>29, <1>30, Zenon DEF Next, StartStep, StopStep

\* No step takes the device or the rule from a sandbox that counts on them.
LEMMA DeviceStep ==
     TypeOK /\ LocalInv /\ DeviceInv /\ [Next]_vars
        => \A d \in Sandboxes : Device(d)'
<1> SUFFICES ASSUME TypeOK, LocalInv, DeviceInv, [Next]_vars, NEW d \in Sandboxes PROVE Device(d)'
  OBVIOUS
<1>0. Device(d) /\ Exclusive /\ Local(d)
  BY DEF DeviceInv, LocalInv
<1> USE FireHostAssumption, <1>0 DEF TypeOK, At, Goto, net, ids, locals, fields, Device, Guarded, Local,
   StartHeld, StopHeld, StartAt, Applying
<1>1. ASSUME NEW b \in Sandboxes, PreparePaths(b) PROVE Device(d)'
  BY <1>1 DEF PreparePaths
<1>2. ASSUME NEW b \in Sandboxes, CopyRootfs(b) PROVE Device(d)'
  BY <1>2 DEF CopyRootfs
<1>3. ASSUME NEW b \in Sandboxes, CreateTap(b) PROVE Device(d)'
  <2>1. CASE d = b
    <3>1. PICK k \in 0 .. Retries - 1 :
              /\ tap' = [tap EXCEPT ![SessionOf[b]] = (counter + k) % Subnets]
              /\ made' = [made EXCEPT ![b] = (counter + k) % Subnets]
      BY <1>3 DEF CreateTap
    <3>2. tap'[SessionOf[b]] = made'[b]
      BY <3>1
    <3>3. alloc[b] = None /\ vm[b] = None
      BY <1>3, <2>1 DEF CreateTap
    <3> QED
      BY <1>3, <2>1, <3>2, <3>3 DEF CreateTap
  <2>2. CASE d # b /\ Owns(d)
    <3>1. SessionOf[d] # SessionOf[b]
      BY <1>3, <2>2, OwnsTap DEF CreateTap
    <3>2. tap'[SessionOf[d]] = tap[SessionOf[d]]
      BY <1>3, <3>1 DEF CreateTap
    <3>3. made'[d] = made[d]
      BY <1>3, <2>2 DEF CreateTap
    <3> QED
      BY <1>3, <2>2, <3>2, <3>3 DEF CreateTap
  <2>3. CASE d # b /\ ~Owns(d)
    BY <1>3, <2>3 DEF CreateTap, Owns
  <2> QED
    BY <2>1, <2>2, <2>3
<1>4. ASSUME NEW b \in Sandboxes, CreateTapFails(b) PROVE Device(d)'
  BY <1>4 DEF CreateTapFails
<1>5. ASSUME NEW b \in Sandboxes, SetUpTapFails(b) PROVE Device(d)'
  <2>1. Owns(b)
    BY <1>5 DEF SetUpTapFails, Owns, LocalInv
  <2>2. CASE d = b
    BY <1>5, <2>2 DEF SetUpTapFails
  <2>3. CASE d # b /\ Owns(d)
    <3>1. SessionOf[d] # SessionOf[b]
      BY <2>1, <2>3 DEF Exclusive
    <3> QED
      BY <1>5, <2>3, <3>1 DEF SetUpTapFails
  <2>4. CASE d # b /\ ~Owns(d)
    BY <1>5, <2>4 DEF SetUpTapFails, Owns
  <2> QED
    BY <2>2, <2>3, <2>4
<1>6. ASSUME NEW b \in Sandboxes, KeepAllocation(b) PROVE Device(d)'
  BY <1>6 DEF KeepAllocation
<1>7. ASSUME NEW b \in Sandboxes, CheckConntrack(b) PROVE Device(d)'
  BY <1>7 DEF CheckConntrack
<1>8. ASSUME NEW b \in Sandboxes, AddConntrack(b) PROVE Device(d)'
  BY <1>8 DEF AddConntrack
<1>9. ASSUME NEW b \in Sandboxes, AddMasquerade(b) PROVE Device(d)'
  BY <1>9 DEF AddMasquerade
<1>10. ASSUME NEW b \in Sandboxes, AddForward(b) PROVE Device(d)'
  BY <1>10 DEF AddForward
<1>11. ASSUME NEW b \in Sandboxes, AddInput(b) PROVE Device(d)'
  BY <1>11 DEF AddInput
<1>12. ASSUME NEW b \in Sandboxes, NEW c \in Cids, AllocateCid(b, c) PROVE Device(d)'
  BY <1>12 DEF AllocateCid
<1>13. ASSUME NEW b \in Sandboxes, KeepCid(b) PROVE Device(d)'
  BY <1>13 DEF KeepCid
<1>14. ASSUME NEW b \in Sandboxes, Launch(b) PROVE Device(d)'
  BY <1>14 DEF Launch
<1>15. ASSUME NEW b \in Sandboxes, BootDone(b) PROVE Device(d)'
  BY <1>15 DEF BootDone
<1>16. ASSUME NEW b \in Sandboxes, StartFails(b) PROVE Device(d)'
  BY <1>16 DEF StartFails
<1>17. ASSUME NEW b \in Sandboxes, Interrupt(b) PROVE Device(d)'
  BY <1>17 DEF Interrupt
<1>18. ASSUME NEW b \in Sandboxes, Stop(b) PROVE Device(d)'
  BY <1>18 DEF Stop
<1>19. ASSUME NEW b \in Sandboxes, ShutDownProcess(b) PROVE Device(d)'
  BY <1>19 DEF ShutDownProcess
<1>20. ASSUME NEW b \in Sandboxes, DelMasquerade(b) PROVE Device(d)'
  BY <1>20 DEF DelMasquerade
<1>21. ASSUME NEW b \in Sandboxes, DelForward(b) PROVE Device(d)'
  BY <1>21 DEF DelForward
<1>22. ASSUME NEW b \in Sandboxes, DelInput(b) PROVE Device(d)'
  <2>1. Owns(b)
    BY <1>22 DEF DelInput, Owns, LocalInv
  <2>2. CASE d = b
    BY <1>22, <2>2 DEF DelInput
  <2>3. CASE d # b /\ Owns(d)
    <3>1. SessionOf[d] # SessionOf[b]
      BY <2>1, <2>3 DEF Exclusive
    <3> QED
      BY <1>22, <2>3, <3>1 DEF DelInput
  <2>4. CASE d # b /\ ~Owns(d)
    BY <1>22, <2>4 DEF DelInput, Owns
  <2> QED
    BY <2>2, <2>3, <2>4
<1>23. ASSUME NEW b \in Sandboxes, DelConntrack(b) PROVE Device(d)'
  BY <1>23 DEF DelConntrack
<1>24. ASSUME NEW b \in Sandboxes, DestroyTap(b) PROVE Device(d)'
  <2>1. Owns(b)
    BY <1>24 DEF DestroyTap, Owns, LocalInv
  <2>2. CASE d = b
    BY <1>24, <2>2 DEF DestroyTap
  <2>3. CASE d # b /\ Owns(d)
    <3>1. SessionOf[d] # SessionOf[b]
      BY <2>1, <2>3 DEF Exclusive
    <3> QED
      BY <1>24, <2>3, <3>1 DEF DestroyTap
  <2>4. CASE d # b /\ ~Owns(d)
    BY <1>24, <2>4 DEF DestroyTap, Owns
  <2> QED
    BY <2>2, <2>3, <2>4
<1>25. ASSUME NEW b \in Sandboxes, ReleaseCid(b) PROVE Device(d)'
  BY <1>25 DEF ReleaseCid
<1>26. ASSUME NEW b \in Sandboxes, RemoveTemp(b) PROVE Device(d)'
  BY <1>26 DEF RemoveTemp
<1>27. ASSUME NEW b \in Sandboxes, Crash(b) PROVE Device(d)'
  BY <1>27 DEF Crash
<1>28. ASSUME NEW b \in Sandboxes, Kill(b) PROVE Device(d)'
  BY <1>28 DEF Kill
<1>29. ASSUME Cleanup PROVE Device(d)'
  BY <1>29 DEF Cleanup
<1>30. CASE UNCHANGED vars
  BY <1>30 DEF vars
<1> QED
  BY <1>1, <1>2, <1>3, <1>4, <1>5, <1>6, <1>7, <1>8, <1>9, <1>10, <1>11, <1>12, <1>13, <1>14, <1>15,
     <1>16, <1>17, <1>18, <1>19, <1>20, <1>21, <1>22, <1>23, <1>24, <1>25, <1>26, <1>27, <1>28,
     <1>29, <1>30, Zenon DEF Next, StartStep, StopStep

\* The draw of a subnet that no device has keeps the subnets distinct.
LEMMA SubnetsStep == TypeOK /\ SubnetsDistinct /\ [Next]_vars => SubnetsDistinct'
<1> SUFFICES ASSUME TypeOK, SubnetsDistinct, [Next]_vars PROVE SubnetsDistinct'
  OBVIOUS
<1> USE FireHostAssumption DEF TypeOK, At, Goto, net, ids, locals, fields, SubnetsDistinct
<1>1. ASSUME NEW b \in Sandboxes, PreparePaths(b) PROVE SubnetsDistinct'
  BY <1>1 DEF PreparePaths
<1>2. ASSUME NEW b \in Sandboxes, CopyRootfs(b) PROVE SubnetsDistinct'
  BY <1>2 DEF CopyRootfs
<1>3. ASSUME NEW b \in Sandboxes, CreateTap(b) PROVE SubnetsDistinct'
  <2>1. PICK k \in 0 .. Retries - 1 :
            /\ Draws(k)
            /\ tap' = [tap EXCEPT ![SessionOf[b]] = (counter + k) % Subnets]
    BY <1>3 DEF CreateTap
  <2>2. \A s \in Sessions : tap[s] # (counter + k) % Subnets
    BY <2>1 DEF Draws, FreeSubnet
  <2> QED
    BY <2>1, <2>2
<1>4. ASSUME NEW b \in Sandboxes, CreateTapFails(b) PROVE SubnetsDistinct'
  BY <1>4 DEF CreateTapFails
<1>5. ASSUME NEW b \in Sandboxes, SetUpTapFails(b) PROVE SubnetsDistinct'
  BY <1>5 DEF SetUpTapFails
<1>6. ASSUME NEW b \in Sandboxes, KeepAllocation(b) PROVE SubnetsDistinct'
  BY <1>6 DEF KeepAllocation
<1>7. ASSUME NEW b \in Sandboxes, CheckConntrack(b) PROVE SubnetsDistinct'
  BY <1>7 DEF CheckConntrack
<1>8. ASSUME NEW b \in Sandboxes, AddConntrack(b) PROVE SubnetsDistinct'
  BY <1>8 DEF AddConntrack
<1>9. ASSUME NEW b \in Sandboxes, AddMasquerade(b) PROVE SubnetsDistinct'
  BY <1>9 DEF AddMasquerade
<1>10. ASSUME NEW b \in Sandboxes, AddForward(b) PROVE SubnetsDistinct'
  BY <1>10 DEF AddForward
<1>11. ASSUME NEW b \in Sandboxes, AddInput(b) PROVE SubnetsDistinct'
  BY <1>11 DEF AddInput
<1>12. ASSUME NEW b \in Sandboxes, NEW c \in Cids, AllocateCid(b, c) PROVE SubnetsDistinct'
  BY <1>12 DEF AllocateCid
<1>13. ASSUME NEW b \in Sandboxes, KeepCid(b) PROVE SubnetsDistinct'
  BY <1>13 DEF KeepCid
<1>14. ASSUME NEW b \in Sandboxes, Launch(b) PROVE SubnetsDistinct'
  BY <1>14 DEF Launch
<1>15. ASSUME NEW b \in Sandboxes, BootDone(b) PROVE SubnetsDistinct'
  BY <1>15 DEF BootDone
<1>16. ASSUME NEW b \in Sandboxes, StartFails(b) PROVE SubnetsDistinct'
  BY <1>16 DEF StartFails
<1>17. ASSUME NEW b \in Sandboxes, Interrupt(b) PROVE SubnetsDistinct'
  BY <1>17 DEF Interrupt
<1>18. ASSUME NEW b \in Sandboxes, Stop(b) PROVE SubnetsDistinct'
  BY <1>18 DEF Stop
<1>19. ASSUME NEW b \in Sandboxes, ShutDownProcess(b) PROVE SubnetsDistinct'
  BY <1>19 DEF ShutDownProcess
<1>20. ASSUME NEW b \in Sandboxes, DelMasquerade(b) PROVE SubnetsDistinct'
  BY <1>20 DEF DelMasquerade
<1>21. ASSUME NEW b \in Sandboxes, DelForward(b) PROVE SubnetsDistinct'
  BY <1>21 DEF DelForward
<1>22. ASSUME NEW b \in Sandboxes, DelInput(b) PROVE SubnetsDistinct'
  BY <1>22 DEF DelInput
<1>23. ASSUME NEW b \in Sandboxes, DelConntrack(b) PROVE SubnetsDistinct'
  BY <1>23 DEF DelConntrack
<1>24. ASSUME NEW b \in Sandboxes, DestroyTap(b) PROVE SubnetsDistinct'
  BY <1>24 DEF DestroyTap
<1>25. ASSUME NEW b \in Sandboxes, ReleaseCid(b) PROVE SubnetsDistinct'
  BY <1>25 DEF ReleaseCid
<1>26. ASSUME NEW b \in Sandboxes, RemoveTemp(b) PROVE SubnetsDistinct'
  BY <1>26 DEF RemoveTemp
<1>27. ASSUME NEW b \in Sandboxes, Crash(b) PROVE SubnetsDistinct'
  BY <1>27 DEF Crash
<1>28. ASSUME NEW b \in Sandboxes, Kill(b) PROVE SubnetsDistinct'
  BY <1>28 DEF Kill
<1>29. ASSUME Cleanup PROVE SubnetsDistinct'
  BY <1>29 DEF Cleanup, CleanupTapsAndFirewall
<1>30. CASE UNCHANGED vars
  BY <1>30 DEF vars
<1> QED
  BY <1>1, <1>2, <1>3, <1>4, <1>5, <1>6, <1>7, <1>8, <1>9, <1>10, <1>11, <1>12, <1>13, <1>14, <1>15,
     <1>16, <1>17, <1>18, <1>19, <1>20, <1>21, <1>22, <1>23, <1>24, <1>25, <1>26, <1>27, <1>28,
     <1>29, <1>30, Zenon DEF Next, StartStep, StopStep

----------------------------------------------------------------------------
(* CIDs.                                                                   *)

\* No step makes two sandboxes claim one CID or gives back a claimed one.
LEMMA ClaimsStep == TypeOK /\ LocalInv /\ ClaimsLeased /\ [Next]_vars => ClaimsLeased'
<1> SUFFICES ASSUME TypeOK, LocalInv, ClaimsLeased, [Next]_vars PROVE ClaimsLeased'
  OBVIOUS
<1> USE FireHostAssumption DEF TypeOK, At, Goto, net, ids, locals, fields, ClaimsLeased, Claims, LocalInv,
   Local, StartHeld, StopHeld, StartAt, Applying
<1>1. ASSUME NEW b \in Sandboxes, PreparePaths(b) PROVE ClaimsLeased'
  BY <1>1 DEF PreparePaths
<1>2. ASSUME NEW b \in Sandboxes, CopyRootfs(b) PROVE ClaimsLeased'
  BY <1>2 DEF CopyRootfs
<1>3. ASSUME NEW b \in Sandboxes, CreateTap(b) PROVE ClaimsLeased'
  BY <1>3 DEF CreateTap
<1>4. ASSUME NEW b \in Sandboxes, CreateTapFails(b) PROVE ClaimsLeased'
  BY <1>4 DEF CreateTapFails
<1>5. ASSUME NEW b \in Sandboxes, SetUpTapFails(b) PROVE ClaimsLeased'
  BY <1>5 DEF SetUpTapFails
<1>6. ASSUME NEW b \in Sandboxes, KeepAllocation(b) PROVE ClaimsLeased'
  BY <1>6 DEF KeepAllocation
<1>7. ASSUME NEW b \in Sandboxes, CheckConntrack(b) PROVE ClaimsLeased'
  BY <1>7 DEF CheckConntrack
<1>8. ASSUME NEW b \in Sandboxes, AddConntrack(b) PROVE ClaimsLeased'
  BY <1>8 DEF AddConntrack
<1>9. ASSUME NEW b \in Sandboxes, AddMasquerade(b) PROVE ClaimsLeased'
  BY <1>9 DEF AddMasquerade
<1>10. ASSUME NEW b \in Sandboxes, AddForward(b) PROVE ClaimsLeased'
  BY <1>10 DEF AddForward
<1>11. ASSUME NEW b \in Sandboxes, AddInput(b) PROVE ClaimsLeased'
  BY <1>11 DEF AddInput
<1>12. ASSUME NEW b \in Sandboxes, NEW c \in Cids, AllocateCid(b, c) PROVE ClaimsLeased'
  BY <1>12 DEF AllocateCid
<1>13. ASSUME NEW b \in Sandboxes, KeepCid(b) PROVE ClaimsLeased'
  BY <1>13 DEF KeepCid
<1>14. ASSUME NEW b \in Sandboxes, Launch(b) PROVE ClaimsLeased'
  BY <1>14 DEF Launch
<1>15. ASSUME NEW b \in Sandboxes, BootDone(b) PROVE ClaimsLeased'
  BY <1>15 DEF BootDone
<1>16. ASSUME NEW b \in Sandboxes, StartFails(b) PROVE ClaimsLeased'
  BY <1>16 DEF StartFails
<1>17. ASSUME NEW b \in Sandboxes, Interrupt(b) PROVE ClaimsLeased'
  BY <1>17 DEF Interrupt
<1>18. ASSUME NEW b \in Sandboxes, Stop(b) PROVE ClaimsLeased'
  BY <1>18 DEF Stop
<1>19. ASSUME NEW b \in Sandboxes, ShutDownProcess(b) PROVE ClaimsLeased'
  BY <1>19 DEF ShutDownProcess
<1>20. ASSUME NEW b \in Sandboxes, DelMasquerade(b) PROVE ClaimsLeased'
  BY <1>20 DEF DelMasquerade
<1>21. ASSUME NEW b \in Sandboxes, DelForward(b) PROVE ClaimsLeased'
  BY <1>21 DEF DelForward
<1>22. ASSUME NEW b \in Sandboxes, DelInput(b) PROVE ClaimsLeased'
  BY <1>22 DEF DelInput
<1>23. ASSUME NEW b \in Sandboxes, DelConntrack(b) PROVE ClaimsLeased'
  BY <1>23 DEF DelConntrack
<1>24. ASSUME NEW b \in Sandboxes, DestroyTap(b) PROVE ClaimsLeased'
  BY <1>24 DEF DestroyTap
<1>25. ASSUME NEW b \in Sandboxes, ReleaseCid(b) PROVE ClaimsLeased'
  BY <1>25 DEF ReleaseCid
<1>26. ASSUME NEW b \in Sandboxes, RemoveTemp(b) PROVE ClaimsLeased'
  BY <1>26 DEF RemoveTemp
<1>27. ASSUME NEW b \in Sandboxes, Crash(b) PROVE ClaimsLeased'
  BY <1>27 DEF Crash
<1>28. ASSUME NEW b \in Sandboxes, Kill(b) PROVE ClaimsLeased'
  BY <1>28 DEF Kill
<1>29. ASSUME Cleanup PROVE ClaimsLeased'
  BY <1>29 DEF Cleanup
<1>30. CASE UNCHANGED vars
  BY <1>30 DEF vars
<1> QED
  BY <1>1, <1>2, <1>3, <1>4, <1>5, <1>6, <1>7, <1>8, <1>9, <1>10, <1>11, <1>12, <1>13, <1>14, <1>15,
     <1>16, <1>17, <1>18, <1>19, <1>20, <1>21, <1>22, <1>23, <1>24, <1>25, <1>26, <1>27, <1>28,
     <1>29, <1>30, Zenon DEF Next, StartStep, StopStep

----------------------------------------------------------------------------
\* The inductive invariant of the host's resources
HostInv == TypeOK /\ LocalInv /\ DeviceInv /\ SubnetsDistinct /\ ClaimsLeased

\* A host without sandboxes satisfies it.
LEMMA HostInit == Init => HostInv
<1> SUFFICES ASSUME Init PROVE HostInv
  OBVIOUS
<1>1. TypeOK /\ LocalInv
  BY HostTypeInit
<1>2. DeviceInv
  BY FireHostAssumption DEF Init, DeviceInv, Exclusive, Owns, Device, Guarded, StartAt
<1>3. SubnetsDistinct
  BY DEF Init, SubnetsDistinct
<1>4. ClaimsLeased
  BY FireHostAssumption DEF Init, ClaimsLeased, Claims
<1> QED
  BY <1>1, <1>2, <1>3, <1>4 DEF HostInv

\* Every step keeps it.
LEMMA HostStep == HostInv /\ [Next]_vars => HostInv'
<1>1. TypeOK /\ LocalInv /\ DeviceInv /\ [Next]_vars => DeviceInv'
  BY ExclusiveStep, DeviceStep DEF DeviceInv
<1> QED
  BY <1>1, HostTypeStep, LocalStep, SubnetsStep, ClaimsStep DEF HostInv

\* A guest runs only on its own session's device and behind the rule that
\* keeps it from the host: not another program's attempt at the session, not
\* a failed or interrupted start() and not a kill takes them away under it.
THEOREM GuestsIsolated == Spec => []GuestIsolated
<1>1. HostInv => GuestIsolated
  BY DEF HostInv, DeviceInv, Device, GuestIsolated
<1> QED
  BY <1>1, HostInit, HostStep, PTL DEF Spec

\* Two guests never have one subnet or one CID, however the counter wraps and
\* the leases are used again.
THEOREM GuestsNeverShare == Spec => []GuestsDistinct
<1>1. HostInv => GuestsDistinct
  <2> SUFFICES ASSUME HostInv, NEW b \in Sandboxes, NEW c \in Sandboxes,
                      b # c, vm[b] # None, vm[c] # None
               PROVE  vm[b].subnet # vm[c].subnet /\ vm[b].guestCid # vm[c].guestCid
    BY DEF GuestsDistinct
  <2>1. SessionOf[b] # SessionOf[c]
    BY DEF HostInv, DeviceInv, Exclusive, Owns
  <2>2. /\ tap[SessionOf[b]] = vm[b].subnet
        /\ tap[SessionOf[c]] = vm[c].subnet
    BY DEF HostInv, DeviceInv, Device
  <2>3. vm[b] \in [subnet : Index, guestCid : Cids] /\ vm[c] \in [subnet : Index, guestCid : Cids]
    BY DEF HostInv, TypeOK
  <2>4. vm[b].subnet # None
    BY <2>3, FireHostAssumption DEF Index
  <2>5. vm[b].subnet # vm[c].subnet
    BY <2>1, <2>2, <2>4, FireHostAssumption DEF HostInv, SubnetsDistinct
  <2>6. Claims(b, vm[b].guestCid) /\ Claims(c, vm[c].guestCid)
    BY DEF Claims
  <2>7. vm[b].guestCid \in Cids /\ vm[c].guestCid \in Cids
    BY <2>3
  <2>8. vm[b].guestCid # vm[c].guestCid
    BY <2>6, <2>7 DEF HostInv, ClaimsLeased
  <2> QED
    BY <2>5, <2>8
<1> QED
  BY <1>1, HostInit, HostStep, PTL DEF Spec

=============================================================================
