------------------------------ MODULE FireHost ------------------------------
(***************************************************************************)
(* The host resources of Firecracker sandboxes (sandbox/fire.py): TAP      *)
(* devices, iptables rules, guest CID leases, temporary directories and    *)
(* firecracker processes, as FireSandbox.start() acquires them one by one  *)
(* and FireSandbox.stop() gives them back, for sandboxes of several        *)
(* programs on one host.  Any step of start() may fail; a signal may make  *)
(* its handler run stop() between any two steps of start(), which goes on  *)
(* afterwards; a program may be killed; the operator may run               *)
(* scripts/cleanup-fire.sh when no program runs.                           *)
(***************************************************************************)
EXTENDS Integers, FiniteSets

CONSTANTS
    Sandboxes,      \* FireSandbox objects; each is started once
    Sessions,       \* session ids; a TAP device is named after its session
    SessionOf,      \* the session that a sandbox is started for
    Cids,           \* the guest CIDs
    Subnets,        \* _MAX_TAP_SUBNETS
    Retries,        \* max_retries of TapDeviceManager.create
    None,           \* Python's None
    Signals,        \* sandboxes during whose start() a signal may arrive
    Kills           \* sandboxes whose program may die without running its handlers

ASSUME FireHostAssumption ==
    /\ SessionOf \in [Sandboxes -> Sessions]
    /\ Subnets \in Nat \ {0} /\ Retries \in Nat \ {0}
    /\ None \notin Cids /\ None \notin Int
    /\ Signals \subseteq Sandboxes /\ Kills \subseteq Sandboxes

VARIABLES
    tap,            \* the TAP devices: the subnet of each session's, or None
    nat, fwd, inp,  \* iptables rules: MASQUERADE, FORWARD ACCEPT, INPUT DROP
    ct,             \* copies of the shared conntrack rule
    leases,         \* firecracker_cids.json
    counter,        \* tap_counter (modulo Subnets)
    vm,             \* the firecracker processes: their network and CID
    pc,             \* where start() or stop() of a sandbox is
    made,           \* start()'s own: a result not yet a field, the allocation in apply
    back,           \* where start() goes on when the signal handler's stop() ends
    alloc, cid, tmp \* fields: _allocation, _guest_cid, _session_temp_dir

net == <<tap, nat, fwd, inp, ct>>
ids == <<leases, counter>>
locals == <<made, back>>
fields == <<alloc, cid, tmp>>
vars == <<net, ids, vm, pc, locals, fields>>

Index == 0 .. Subnets - 1

Init ==
    /\ tap = [s \in Sessions |-> None]
    /\ nat = [i \in Index |-> 0]
    /\ fwd = [s \in Sessions |-> 0]
    /\ inp = [s \in Sessions |-> 0]
    /\ ct = 0
    /\ leases = {}
    /\ counter = 0
    /\ vm = [b \in Sandboxes |-> None]
    /\ pc = [b \in Sandboxes |-> "new"]
    /\ made = [b \in Sandboxes |-> None]
    /\ back = [b \in Sandboxes |-> "none"]
    /\ alloc = [b \in Sandboxes |-> None]
    /\ cid = [b \in Sandboxes |-> None]
    /\ tmp = [b \in Sandboxes |-> "none"]

At(b, stage) == pc[b] = stage
Goto(b, stage) == pc' = [pc EXCEPT ![b] = stage]

----------------------------------------------------------------------------
(* start()                                                                 *)

\* Secrets and host services, then _prepare_runtime_paths
PreparePaths(b) ==
    /\ At(b, "new") /\ Goto(b, "rootfs")
    /\ tmp' = [tmp EXCEPT ![b] = "empty"]
    /\ UNCHANGED <<net, ids, vm, locals, alloc, cid>>

\* Without paths, which stop() takes away, it raises.
CopyRootfs(b) ==
    /\ At(b, "rootfs") /\ Goto(b, "tap")
    /\ tmp[b] # "none"
    /\ tmp' = [tmp EXCEPT ![b] = "full"]
    /\ UNCHANGED <<net, ids, vm, locals, alloc, cid>>

\* A subnet whose addresses no interface has
FreeSubnet(i) == \A s \in Sessions : tap[s] # i

\* k draws of the counter hit subnets in use, the next one does not.
Draws(k) ==
    /\ \A j \in 0 .. k - 1 : ~FreeSubnet((counter + j) % Subnets)
    /\ FreeSubnet((counter + k) % Subnets)

\* TapDeviceManager.create up to the device: "ip tuntap add" fails if the
\* session's device exists.  The look at the addresses in use and the new
\* device are one step: Subnets draws would have to fall between them.
CreateTap(b) ==
    /\ At(b, "tap") /\ Goto(b, "allocation")
    /\ tap[SessionOf[b]] = None
    /\ \E k \in 0 .. Retries - 1 :
         /\ Draws(k)
         /\ counter' = (counter + k + 1) % Subnets
         /\ tap' = [tap EXCEPT ![SessionOf[b]] = (counter + k) % Subnets]
         /\ made' = [made EXCEPT ![b] = (counter + k) % Subnets]
    /\ UNCHANGED <<nat, fwd, inp, ct, leases, vm, fields, back>>

\* Mutant: the device of the session's other sandbox is deleted.
CreateTapFailsAndDeletes(b) ==
    /\ At(b, "tap") /\ Goto(b, "close")
    /\ tap[SessionOf[b]] # None
    /\ tap' = [tap EXCEPT ![SessionOf[b]] = None]
    /\ UNCHANGED <<nat, fwd, inp, ct, ids, vm, locals, fields>>

\* The device exists already, every draw hit a subnet in use, the host has no
\* default route or a command fails.
CreateTapFails(b) ==
    /\ At(b, "tap") /\ Goto(b, "close")
    /\ \E k \in 0 .. Retries : counter' = (counter + k) % Subnets
    /\ UNCHANGED <<net, leases, vm, locals, fields>>

\* Mutant: the device stays when it cannot be set up.
SetUpTapFailsOnly(b) ==
    /\ At(b, "allocation") /\ Goto(b, "close")
    /\ made' = [made EXCEPT ![b] = None]
    /\ UNCHANGED <<net, ids, vm, fields, back>>

\* "ip addr add" or "ip link set" fails: the device is deleted again.
SetUpTapFails(b) ==
    /\ At(b, "allocation") /\ Goto(b, "close")
    /\ tap' = [tap EXCEPT ![SessionOf[b]] = None]
    /\ made' = [made EXCEPT ![b] = None]
    /\ UNCHANGED <<nat, fwd, inp, ct, ids, vm, fields, back>>

KeepAllocation(b) ==
    /\ At(b, "allocation") /\ Goto(b, "conntrack")
    /\ alloc' = [alloc EXCEPT ![b] = made[b]]
    /\ UNCHANGED <<net, ids, vm, locals, cid, tmp>>

\* IptablesManager.apply works by its argument, not by the field.
\* _ensure_conntrack_rule: "iptables -C" ...
CheckConntrack(b) ==
    /\ At(b, "conntrack")
    /\ Goto(b, IF ct > 0 THEN "masquerade" ELSE "addConntrack")
    /\ UNCHANGED <<net, ids, vm, locals, fields>>

\* ... and "iptables -A"
AddConntrack(b) ==
    /\ At(b, "addConntrack") /\ Goto(b, "masquerade")
    /\ ct' = ct + 1
    /\ UNCHANGED <<tap, nat, fwd, inp, ids, vm, locals, fields>>

AddMasquerade(b) ==
    /\ At(b, "masquerade") /\ Goto(b, "forward")
    /\ nat' = [nat EXCEPT ![made[b]] = @ + 1]
    /\ UNCHANGED <<tap, fwd, inp, ct, ids, vm, locals, fields>>

AddForward(b) ==
    /\ At(b, "forward") /\ Goto(b, "input")
    /\ fwd' = [fwd EXCEPT ![SessionOf[b]] = @ + 1]
    /\ UNCHANGED <<tap, nat, inp, ct, ids, vm, locals, fields>>

AddInput(b) ==
    /\ At(b, "input") /\ Goto(b, "cid")
    /\ inp' = [inp EXCEPT ![SessionOf[b]] = @ + 1]
    /\ made' = [made EXCEPT ![b] = None]
    /\ UNCHANGED <<tap, nat, fwd, ct, ids, vm, back, fields>>

\* Mutant: the lock file is not read.
AllocateAnyCid(b, c) ==
    /\ At(b, "cid") /\ Goto(b, "guestCid")
    /\ leases' = leases \cup {c}
    /\ made' = [made EXCEPT ![b] = c]
    /\ UNCHANGED <<net, counter, vm, fields, back>>

\* CidLeaseManager.allocate, under the lock of its file
AllocateCid(b, c) ==
    /\ At(b, "cid") /\ Goto(b, "guestCid")
    /\ c \notin leases
    /\ leases' = leases \cup {c}
    /\ made' = [made EXCEPT ![b] = c]
    /\ UNCHANGED <<net, counter, vm, fields, back>>

KeepCid(b) ==
    /\ At(b, "guestCid") /\ Goto(b, "launch")
    /\ cid' = [cid EXCEPT ![b] = made[b]]
    /\ made' = [made EXCEPT ![b] = None]
    /\ UNCHANGED <<net, ids, vm, alloc, tmp, back>>

\* _launch_firecracker, _configure_microvm; without paths it raises.
Launch(b) ==
    /\ At(b, "launch") /\ Goto(b, "boot")
    /\ tmp[b] # "none"
    /\ vm' = [vm EXCEPT ![b] = [subnet |-> alloc[b], guestCid |-> cid[b]]]
    /\ UNCHANGED <<net, ids, locals, fields>>

\* The vsock handshake and agent_ready
BootDone(b) ==
    /\ At(b, "boot") /\ vm[b] # None
    /\ Goto(b, "up")
    /\ UNCHANGED <<net, ids, vm, locals, fields>>

\* Every other step of start() that raises: start() calls stop().
StartFails(b) ==
    /\ pc[b] \in {"new", "rootfs", "conntrack", "addConntrack", "masquerade", "forward",
                  "input", "cid", "launch", "boot"}
    /\ Goto(b, "close")
    /\ made' = [made EXCEPT ![b] = None]
    /\ UNCHANGED <<net, ids, vm, back, fields>>

\* Mutant: the handler ends start() before it calls stop().
InterruptEndsStart(b) ==
    /\ b \in Signals /\ tmp[b] # "none"
    /\ pc[b] \in {"rootfs", "tap", "allocation", "conntrack", "addConntrack", "masquerade",
                  "forward", "input", "cid", "guestCid", "launch", "boot"}
    /\ Goto(b, "close")
    /\ made' = [made EXCEPT ![b] = None]
    /\ UNCHANGED <<net, ids, vm, back, fields>>

\* _handle_exit_signal in the thread that runs start(): stop() runs at once.
\* It takes the handlers away and forgets the previous one, which is therefore
\* not called: start() goes on where it was, with its fields cleared.
Interrupt(b) ==
    /\ b \in Signals /\ tmp[b] # "none"
    /\ pc[b] \in {"rootfs", "tap", "allocation", "conntrack", "addConntrack", "masquerade",
                  "forward", "input", "cid", "guestCid", "launch", "boot"}
    /\ Goto(b, "close")
    /\ back' = [back EXCEPT ![b] = pc[b]]
    /\ UNCHANGED <<net, ids, vm, made, fields>>

----------------------------------------------------------------------------
(* stop()                                                                  *)

Stop(b) ==
    /\ At(b, "up") /\ Goto(b, "close")
    /\ UNCHANGED <<net, ids, vm, locals, fields>>

\* _close_vsock_conn and _graceful_shutdown_process: SendCtrlAltDel, SIGTERM,
\* SIGKILL until the process has gone
ShutDownProcess(b) ==
    /\ At(b, "close")
    /\ Goto(b, IF alloc[b] = None THEN "releaseCid" ELSE "delMasquerade")
    /\ vm' = [vm EXCEPT ![b] = None]
    /\ UNCHANGED <<net, ids, locals, fields>>

\* Mutant: a rule is counted off that is not there.
OneLess(n) == n - 1

\* "iptables -D" takes away one copy.
Less(n) == IF n > 0 THEN n - 1 ELSE 0

\* IptablesManager.cleanup
DelMasquerade(b) ==
    /\ At(b, "delMasquerade") /\ Goto(b, "delForward")
    /\ nat' = [nat EXCEPT ![alloc[b]] = Less(@)]
    /\ UNCHANGED <<tap, fwd, inp, ct, ids, vm, locals, fields>>

DelForward(b) ==
    /\ At(b, "delForward") /\ Goto(b, "delInput")
    /\ fwd' = [fwd EXCEPT ![SessionOf[b]] = Less(@)]
    /\ UNCHANGED <<tap, nat, inp, ct, ids, vm, locals, fields>>

DelInput(b) ==
    /\ At(b, "delInput") /\ Goto(b, "delConntrack")
    /\ inp' = [inp EXCEPT ![SessionOf[b]] = Less(@)]
    /\ UNCHANGED <<tap, nat, fwd, ct, ids, vm, locals, fields>>

\* Mutant: the shared rule goes with any sandbox.
DelConntrackAlways(b) ==
    /\ At(b, "delConntrack") /\ Goto(b, "destroyTap")
    /\ ct' = Less(ct)
    /\ UNCHANGED <<tap, nat, fwd, inp, ids, vm, locals, fields>>

\* The shared rule goes if _has_active_fire_taps finds no device.
DelConntrack(b) ==
    /\ At(b, "delConntrack") /\ Goto(b, "destroyTap")
    /\ ct' = IF \A s \in Sessions : tap[s] = None THEN Less(ct) ELSE ct
    /\ UNCHANGED <<tap, nat, fwd, inp, ids, vm, locals, fields>>

\* TapDeviceManager.destroy, and _allocation is None again
DestroyTap(b) ==
    /\ At(b, "destroyTap") /\ Goto(b, "releaseCid")
    /\ tap' = [tap EXCEPT ![SessionOf[b]] = None]
    /\ alloc' = [alloc EXCEPT ![b] = None]
    /\ UNCHANGED <<nat, fwd, inp, ct, ids, vm, locals, cid, tmp>>

\* Mutant: the lease is only given back by the sandbox that still has a TAP.
ReleaseCidWithTap(b) ==
    /\ At(b, "releaseCid") /\ Goto(b, "rmtree")
    /\ leases' = IF alloc[b] # None THEN leases \ {cid[b]} ELSE leases
    /\ cid' = [cid EXCEPT ![b] = None]
    /\ UNCHANGED <<net, counter, vm, locals, alloc, tmp>>

ReleaseCid(b) ==
    /\ At(b, "releaseCid") /\ Goto(b, "rmtree")
    /\ leases' = leases \ {cid[b]}
    /\ cid' = [cid EXCEPT ![b] = None]
    /\ UNCHANGED <<net, counter, vm, locals, alloc, tmp>>

\* stop() returns: to its caller, or into start().
RemoveTemp(b) ==
    /\ At(b, "rmtree") /\ Goto(b, IF back[b] = "none" THEN "off" ELSE back[b])
    /\ tmp' = [tmp EXCEPT ![b] = "none"]
    /\ back' = [back EXCEPT ![b] = "none"]
    /\ UNCHANGED <<net, ids, vm, made, alloc, cid>>

----------------------------------------------------------------------------
\* The firecracker process exits by itself.
Crash(b) ==
    /\ vm[b] # None
    /\ vm' = [vm EXCEPT ![b] = None]
    /\ UNCHANGED <<net, ids, pc, locals, fields>>

\* The program of sandbox b dies; the sandbox's resources stay.
Kill(b) ==
    /\ b \in Kills /\ pc[b] \notin {"new", "off", "lost"}
    /\ Goto(b, "lost")
    /\ made' = [made EXCEPT ![b] = None]
    /\ back' = [back EXCEPT ![b] = "none"]
    /\ alloc' = [alloc EXCEPT ![b] = None]
    /\ cid' = [cid EXCEPT ![b] = None]
    /\ UNCHANGED <<net, ids, vm, tmp>>

\* Mutant: the rules of lost sandboxes stay.
CleanupDevices ==
    /\ tap' = [s \in Sessions |-> None]
    /\ UNCHANGED <<nat, fwd, inp>>

CleanupTapsAndFirewall ==
    /\ tap' = [s \in Sessions |-> None]
    /\ nat' = [i \in Index |-> 0]
    /\ fwd' = [s \in Sessions |-> 0]
    /\ inp' = [s \in Sessions |-> 0]

\* scripts/cleanup-fire.sh, run when no program is up.  It does not know of
\* CID leases, nor of a directory without files of a sandbox in it.
Cleanup ==
    /\ \A b \in Sandboxes : pc[b] \in {"new", "off", "lost"}
    /\ vm' = [b \in Sandboxes |-> None]
    /\ CleanupTapsAndFirewall
    /\ ct' = Less(ct)
    /\ tmp' = [b \in Sandboxes |-> IF tmp[b] = "full" THEN "none" ELSE tmp[b]]
    /\ pc' = [b \in Sandboxes |-> IF pc[b] = "lost" THEN "off" ELSE pc[b]]
    /\ UNCHANGED <<ids, locals, alloc, cid>>

StartStep(b) ==
    \/ PreparePaths(b)
    \/ CopyRootfs(b)
    \/ CreateTap(b)
    \/ CreateTapFails(b)
    \/ SetUpTapFails(b)
    \/ KeepAllocation(b)
    \/ CheckConntrack(b)
    \/ AddConntrack(b)
    \/ AddMasquerade(b)
    \/ AddForward(b)
    \/ AddInput(b)
    \/ \E c \in Cids : AllocateCid(b, c)
    \/ KeepCid(b)
    \/ Launch(b)
    \/ BootDone(b)
    \/ StartFails(b)
    \/ Interrupt(b)

StopStep(b) ==
    \/ Stop(b)
    \/ ShutDownProcess(b)
    \/ DelMasquerade(b)
    \/ DelForward(b)
    \/ DelInput(b)
    \/ DelConntrack(b)
    \/ DestroyTap(b)
    \/ ReleaseCid(b)
    \/ RemoveTemp(b)

Next ==
    \/ \E b \in Sandboxes : StartStep(b) \/ StopStep(b) \/ Crash(b) \/ Kill(b)
    \/ Cleanup

Spec == Init /\ [][Next]_vars

----------------------------------------------------------------------------
(* Properties.                                                             *)

Idle(b) == pc[b] \in {"new", "off"}

\* Every variable keeps its type.
TypeOK ==
    /\ tap \in [Sessions -> Index \cup {None}]
    /\ nat \in [Index -> Nat]
    /\ fwd \in [Sessions -> Nat] /\ inp \in [Sessions -> Nat]
    /\ ct \in Nat
    /\ leases \subseteq Cids
    /\ counter \in Index
    /\ vm \in [Sandboxes -> [subnet : Index, guestCid : Cids] \cup {None}]
    /\ pc \in [Sandboxes -> {"new", "rootfs", "tap", "allocation", "conntrack", "addConntrack",
                             "masquerade", "forward", "input", "cid", "guestCid", "launch",
                             "boot", "up", "close", "delMasquerade", "delForward", "delInput",
                             "delConntrack", "destroyTap", "releaseCid", "rmtree", "off", "lost"}]
    /\ made \in [Sandboxes -> Index \cup Cids \cup {None}]
    /\ back \in [Sandboxes -> {"rootfs", "tap", "allocation", "conntrack", "addConntrack",
                               "masquerade", "forward", "input", "cid", "guestCid", "launch",
                               "boot", "none"}]
    /\ alloc \in [Sandboxes -> Index \cup {None}]
    /\ cid \in [Sandboxes -> Cids \cup {None}]
    /\ tmp \in [Sandboxes -> {"none", "empty", "full"}]

\* A guest never runs without the rule that keeps it from the host's own
\* services, on a device that is not its own: not while another program tries
\* to start the same session, nor after its program has been killed.
GuestIsolated ==
    \A b \in Sandboxes :
        vm[b] # None =>
            /\ inp[SessionOf[b]] > 0
            /\ tap[SessionOf[b]] = vm[b].subnet

\* No two guests that run share a subnet or a CID, although subnets and CIDs
\* are used again and guests outlive a killed program.
GuestsDistinct ==
    \A b, c \in Sandboxes :
        b # c /\ vm[b] # None /\ vm[c] # None =>
            vm[b].subnet # vm[c].subnet /\ vm[b].guestCid # vm[c].guestCid

AllIdle == \A b \in Sandboxes : Idle(b)

\* When every sandbox is stopped and the script has been run after a kill, no
\* guest, device or directory is left, whichever step of start() failed, was
\* interrupted by a signal or was the last one of its program: a device that
\* create() has not yet returned when stop() runs in a signal handler included.
NothingRuns ==
    AllIdle =>
        /\ \A b \in Sandboxes : vm[b] = None /\ tmp[b] # "full"
        /\ \A s \in Sessions : tap[s] = None

\* Nor is a rule left.
NoRuleLeft ==
    AllIdle =>
        /\ \A s \in Sessions : fwd[s] = 0 /\ inp[s] = 0
        /\ \A i \in Index : nat[i] = 0

\* A lease is held by a sandbox that uses it or is about to: start() and
\* stop() lose none, at whatever step they fail or are interrupted.
LeasesHeld ==
    \A c \in leases : \E b \in Sandboxes : cid[b] = c \/ made[b] = c

\* As long as a guest runs, the rule that lets answers in to all guests is
\* there, whoever else stops.
AnswersPass ==
    (\E b \in Sandboxes : vm[b] # None) => ct > 0

\* The shared conntrack rule goes with the last sandbox.
ConntrackRemoved ==
    (\A b \in Sandboxes : Idle(b)) => ct = 0

=============================================================================
