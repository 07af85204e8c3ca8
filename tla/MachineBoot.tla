----------------------------- MODULE MachineBoot -----------------------------
(***************************************************************************)
(* From a VM to a running machine: the addresses of its network devices,   *)
(* the cloud-init medium that tells them to the VM, and its start; and the *)
(* way back, on which the addresses are returned.                          *)
(*                                                                         *)
(* The reconciler makes an IPAddressClaim for each pool of a device, which *)
(* an IPAM provider answers, or has SCVMM choose the addresses; it writes  *)
(* what it got into the spec and, with the bootstrap data, into a medium   *)
(* on the library share, has SCVMM attach that to the VM and starts it.    *)
(* It is woken by changes of the machine, its claims and its bootstrap     *)
(* data, and waits for them without a requeue.                             *)
(*                                                                         *)
(* One machine that has its finalizer, name and cluster; its VM is known   *)
(* by its id and created at most once at a time (VmNaming), and its disks  *)
(* are of the right size (PersistentDisks).  The provider is in the map.   *)
(***************************************************************************)
EXTENDS Naturals, FiniteSets

CONSTANTS
    NumClaims,      \* the address claims of the machine, in the order of its devices
    Devices,        \* the network devices
    DeviceOf,       \* claim -> its device
    StaticDevices,  \* the devices whose addresses SCVMM chooses
    GatewayOf,      \* claim or static device -> the gateway that comes with its address
    NoGateway,      \* the empty gateway
    NoMedium,       \* no file on the share, or nothing attached to the VM
    DeviceType,     \* spec.cloudInit.deviceType of the provider
    Scenarios       \* what may go wrong or lag together, and the bound on failures

(* "api": a call that writes a claim fails; "patch": a patch of the machine *)
(* fails; "command": a WinRM command fails, having run or not; "late": it   *)
(* runs on after it was given up; "share": writing the medium fails;        *)
(* "crash": the controller restarts; "stale": caches may lag at the start   *)
(* of a reconcile; "admin": somebody stops or removes the VM.               *)
FaultKinds == {"api", "patch", "command", "late", "share", "crash", "stale", "admin"}

Claims == 1 .. NumClaims

(* An address is known by the claim, or the device, it is for.             *)
Items == Claims \cup StaticDevices

Wanted(d) == {c \in Claims : DeviceOf[c] = d} \cup ({d} \cap StaticDevices)

Gateways == {GatewayOf[i] : i \in Items} \cup {NoGateway}

ASSUME BoundAssumption ==
    /\ NumClaims \in Nat /\ Scenarios \subseteq [kinds : SUBSET FaultKinds, max : Nat]
    /\ StaticDevices \subseteq Devices /\ DeviceOf \in [Claims -> Devices \ StaticDevices]
    /\ DOMAIN GatewayOf = Items
    /\ Devices \cap Claims = {} /\ \A d \in Devices : Wanted(d) # {}
    /\ DeviceType \in {"dvd", "floppy", "scsi", "ide"}

VARIABLES
    obj,      \* the ScvmmMachine in the API server
    claim,    \* the IPAddressClaims in the API server
    cobj,     \* the cached copy of the machine
    cclaim,   \* the cached copies of the claims
    data,     \* whether the Machine names its bootstrap data
    vm,       \* the virtual machine of SCVMM
    share,    \* the cloud-init file on the library share
    purge,    \* whether SCVMM is removing that file
    orphan,   \* whether a command that attaches it runs on
    pc,       \* the next call of the reconcile
    rd,       \* the copy of the machine it has read
    mem,      \* the networking of the copy it works on
    hasData,  \* whether there was bootstrap data when it began
    got,      \* the VM as SCVMM reported it
    at,       \* the claim it has come to
    seen,     \* the claims found answered
    gate,     \* the gateways of their addresses
    bad,      \* whether one of them could not be handled
    queued,   \* whether the machine's key is in the work queue
    failures, \* the failures so far
    scenario  \* what may go wrong in this behaviour

apiVars == <<obj, claim>>
cacheVars == <<cobj, cclaim>>
scvmmVars == <<vm, share, purge, orphan>>
loopVars == <<at, seen, gate, bad>>
workVars == <<rd, mem, hasData, got, loopVars>>
vars == <<apiVars, cacheVars, data, scvmmVars, pc, workVars, queued, failures>>

-----------------------------------------------------------------------------
(* The objects.                                                            *)

Networking == [Devices -> [gateway : Gateways, have : SUBSET Items]]

Machine == [phase : {"live", "deleting", "gone"}, net : Networking]

Claim == [st : {"absent", "open", "deleting"}, final : BOOLEAN, answered : BOOLEAN]

(* A medium that is not whole is being written, or its writing failed.     *)
Medium == [whole : BOOLEAN, addresses : SUBSET Items]

VmStates == {"none", "creating", "off", "running", "stopping", "removing"}

Vm == [st : VmStates, medium : Medium \cup {NoMedium}, static : SUBSET StaticDevices,
       tagged : BOOLEAN]

Labels == {"idle", "get", "claim", "branch", "create", "static", "write", "fill", "starting",
           "attach", "properties", "start", "info", "patch", "wait", "remove", "release",
           "unfinalize"}

NoAddresses == [d \in Devices |-> [gateway |-> NoGateway, have |-> {}]]

NoVm == [st |-> "none", medium |-> NoMedium, static |-> {}, tagged |-> FALSE]

NoClaim == [st |-> "absent", final |-> FALSE, answered |-> FALSE]

NewClaim == [st |-> "open", final |-> TRUE, answered |-> FALSE]

NewMachine == [phase |-> "live", net |-> NoAddresses]

Busy == vm.st \in {"creating", "stopping", "removing"}

(* Variant: some addresses are enough. *)
HasSomeIPAddresses(net) == \E d \in Devices : net[d].have # {}

HasAllIPAddresses(net) ==
    \A d \in Devices : net[d].gateway # NoGateway /\ Wanted(d) \subseteq net[d].have

Addresses(net) == UNION {net[d].have : d \in Devices}

-----------------------------------------------------------------------------
(* Steps of the environment.                                               *)

Idle ==
    /\ pc = "idle" /\ rd = NewMachine /\ mem = NoAddresses /\ hasData = FALSE /\ got = NoVm
    /\ at = 1 /\ seen = {} /\ gate = [d \in Devices |-> NoGateway] /\ bad = FALSE

Init ==
    /\ obj = NewMachine /\ cobj = obj
    /\ claim = [c \in Claims |-> NoClaim] /\ cclaim = claim
    /\ data = FALSE
    /\ vm = NoVm /\ share = NoMedium /\ purge = FALSE /\ orphan = FALSE
    /\ Idle
    /\ queued = TRUE /\ failures = 0 /\ scenario \in Scenarios

DeleteMachine ==
    /\ obj.phase = "live"
    /\ obj' = [obj EXCEPT !.phase = "deleting"]
    /\ UNCHANGED <<claim, cacheVars, data, scvmmVars, pc, workVars, queued, failures>>

(* The bootstrap provider names the secret in the Machine, whose event     *)
(* queues the machine.                                                     *)
SetBootstrapData ==
    /\ ~ data
    /\ data' = TRUE /\ queued' = TRUE
    /\ UNCHANGED <<apiVars, cacheVars, scvmmVars, pc, workVars, failures>>

SyncMachine ==
    /\ cobj # obj
    /\ cobj' = obj /\ queued' = TRUE
    /\ UNCHANGED <<apiVars, cclaim, data, scvmmVars, pc, workVars, failures>>

(* Variant: the claims are not watched. *)
SyncClaimUnwatched(c) ==
    /\ cclaim[c] # claim[c]
    /\ cclaim' = [cclaim EXCEPT ![c] = claim[c]]
    /\ UNCHANGED <<apiVars, cobj, data, scvmmVars, pc, workVars, queued, failures>>

(* The machine owns its claims: their events queue it.                     *)
SyncClaim(c) ==
    /\ cclaim[c] # claim[c]
    /\ cclaim' = [cclaim EXCEPT ![c] = claim[c]] /\ queued' = TRUE
    /\ UNCHANGED <<apiVars, cobj, data, scvmmVars, pc, workVars, failures>>

Answer(c) ==
    /\ claim[c].st = "open" /\ ~ claim[c].answered
    /\ claim' = [claim EXCEPT ![c].answered = TRUE]
    /\ UNCHANGED <<obj, cacheVars, data, scvmmVars, pc, workVars, queued, failures>>

(* A claim whose owner is gone is deleted, and with it the address.        *)
CollectGarbage(c) ==
    /\ claim[c].st = "open" /\ obj.phase = "gone"
    /\ claim' = [claim EXCEPT ![c] = IF @.final THEN [@ EXCEPT !.st = "deleting"] ELSE NoClaim]
    /\ UNCHANGED <<obj, cacheVars, data, scvmmVars, pc, workVars, queued, failures>>

VmTaskDone ==
    /\ Busy
    /\ vm' = IF vm.st = "removing" THEN NoVm ELSE [vm EXCEPT !.st = "off"]
    /\ orphan' = (orphan /\ vm.st # "removing")
    /\ UNCHANGED <<apiVars, cacheVars, data, share, purge, pc, workVars, queued, failures>>

(* Remove-SCISO and its like are not waited for.                           *)
RemoveFile ==
    /\ purge
    /\ share' = NoMedium /\ purge' = FALSE
    /\ UNCHANGED <<apiVars, cacheVars, data, vm, orphan, pc, workVars, queued, failures>>

May(kind) == kind \in scenario.kinds /\ failures < scenario.max

Failed == failures' = failures + 1

AdminActs ==
    /\ May("admin") /\ Failed
    /\ \/ vm.st = "running" /\ vm' = [vm EXCEPT !.st = "off"] /\ UNCHANGED orphan
       \/ vm.st = "off" /\ vm' = NoVm /\ orphan' = FALSE
    /\ UNCHANGED <<apiVars, cacheVars, data, share, purge, pc, workVars, queued>>

Reset ==
    /\ pc' = "idle" /\ rd' = NewMachine /\ mem' = NoAddresses /\ hasData' = FALSE
    /\ got' = NoVm /\ at' = 1 /\ seen' = {} /\ gate' = [d \in Devices |-> NoGateway]
    /\ bad' = FALSE

Crash ==
    /\ May("crash") /\ Failed /\ pc # "idle"
    /\ cobj' = obj /\ cclaim' = claim
    /\ Reset
    /\ queued' = (obj.phase # "gone")
    /\ UNCHANGED <<apiVars, data, scvmmVars>>

-----------------------------------------------------------------------------
(* What the scripts do to SCVMM.                                           *)

(* AddISOToVM, AddFloppyToVM or AddVHDToVM: the file is copied to the VM   *)
(* and removed from the library.                                           *)
AttachMedium ==
    IF /\ ~ Busy /\ vm.st # "none" /\ share # NoMedium
       /\ DeviceType \in {"scsi", "ide"} => vm.medium = NoMedium
    THEN vm' = [vm EXCEPT !.medium = share] /\ purge' = TRUE
    ELSE UNCHANGED <<vm, purge>>

(* SetVMNetwork sees to one adapter at a time.                             *)
SetVMNetwork ==
    vm' \in IF Busy \/ vm.st = "none" \/ vm.static = StaticDevices
            THEN {vm}
            ELSE {[vm EXCEPT !.static = @ \cup {d}] : d \in StaticDevices \ vm.static}

RemoveVM ==
    vm' = CASE vm.st = "running" -> [vm EXCEPT !.st = "stopping"]
            [] vm.st = "off" -> [vm EXCEPT !.st = "removing"]
            [] OTHER -> vm

(* Of a VM's media a report shows DVDs and disks, but no floppies.         *)
Reported ==
    IF vm.st = "none" THEN NoVm
    ELSE [vm EXCEPT !.medium = IF DeviceType = "floppy" THEN NoMedium ELSE @]

LateAttach ==
    /\ orphan
    /\ AttachMedium /\ orphan' = FALSE
    /\ UNCHANGED <<apiVars, cacheVars, data, share, pc, workVars, queued, failures>>

-----------------------------------------------------------------------------
(* The reconcile.                                                          *)

Goto(label) == pc' = label

Return(again) == Reset /\ queued' = (queued \/ again)

Begin ==
    /\ pc = "idle" /\ queued
    /\ "stale" \in scenario.kinds \/ (cobj = obj /\ cclaim = claim)
    /\ queued' = FALSE
    /\ \/ cobj.phase = "gone" /\ UNCHANGED <<pc, rd, mem, hasData>>
       \/ /\ cobj.phase # "gone"
          /\ rd' = cobj /\ mem' = cobj.net /\ hasData' = data
          /\ Goto(IF cobj.phase = "live" THEN "get" ELSE "remove")
    /\ UNCHANGED <<apiVars, cacheVars, data, scvmmVars, got, loopVars, failures>>

(* A command succeeds; or it fails, and then has taken effect or not.      *)
Command(effect) == effect /\ UNCHANGED failures

CommandFails(effect) ==
    /\ May("command") /\ Failed
    /\ effect \/ UNCHANGED vm

(* The patch carries the networking if it differs from what was read; it   *)
(* needs no particular resourceVersion.                                    *)
Patch ==
    /\ obj.phase # "gone"
    /\ obj' = [obj EXCEPT !.net = IF mem # rd.net THEN mem ELSE @]
    /\ UNCHANGED <<claim, failures>>

PatchFails ==
    /\ \/ obj.phase = "gone" /\ UNCHANGED failures
       \/ May("patch") /\ Failed
    /\ UNCHANGED apiVars

(* patchReasonCondition with and without a requeue; a failure of the patch *)
(* is logged and forgotten.                                                *)
PatchReason ==
    /\ pc \in {"patch", "wait"}
    /\ Patch \/ PatchFails
    /\ Return(pc = "patch")
    /\ UNCHANGED <<cacheVars, data, scvmmVars>>

GetVM ==
    /\ pc = "get"
    /\ \/ /\ got' = Reported
          /\ Goto(IF vm.st = "none" THEN "create"
                  ELSE IF NumClaims = 0 THEN "branch" ELSE "claim")
          /\ UNCHANGED <<rd, mem, hasData, loopVars, queued, failures>>
       \/ May("command") /\ Failed /\ Return(TRUE)
    /\ UNCHANGED <<apiVars, cacheVars, data, scvmmVars>>

CreateVM ==
    /\ pc = "create"
    /\ \/ vm' = [NoVm EXCEPT !.st = "creating"] /\ UNCHANGED failures
       \/ May("command") /\ Failed /\ UNCHANGED vm
    /\ Goto("patch")
    /\ UNCHANGED <<apiVars, cacheVars, data, share, purge, orphan, workVars, queued>>

NextClaim ==
    /\ at' = at + 1
    /\ Goto(IF at = NumClaims THEN "branch" ELSE "claim")

SameGateway(c) == gate[DeviceOf[c]] \in {NoGateway, GatewayOf[c]}

(* One round of reconcileIPAddressClaims.  A claim that the cache does not *)
(* show is created; one that it shows is as createOrPatchIPAddressClaim    *)
(* would make it, since only reconcileDelete takes the finalizer off, and  *)
(* is not patched.  The address of one that it shows answered is fetched,  *)
(* from a cache that may not have it yet.                                  *)
ReconcileClaim ==
    /\ pc = "claim"
    /\ \/ /\ cclaim[at].st = "absent" /\ claim[at].st = "absent"
          /\ claim' = [claim EXCEPT ![at] = NewClaim]
          /\ \/ UNCHANGED <<bad, failures>>
             \/ May("api") /\ Failed /\ bad' = TRUE
          /\ UNCHANGED <<seen, gate>>
       \/ /\ cclaim[at].st = "absent"
          /\ \/ claim[at].st # "absent" /\ UNCHANGED failures
             \/ May("api") /\ Failed
          /\ bad' = TRUE
          /\ UNCHANGED <<claim, seen, gate>>
       \/ /\ cclaim[at].st # "absent" /\ ~ cclaim[at].answered
          /\ UNCHANGED <<claim, seen, gate, bad, failures>>
       \/ /\ cclaim[at].answered /\ SameGateway(at)
          /\ gate' = [gate EXCEPT ![DeviceOf[at]] = GatewayOf[at]]
          /\ seen' = seen \cup {at}
          /\ UNCHANGED <<claim, bad, failures>>
       \/ /\ cclaim[at].answered
          /\ ~ SameGateway(at) \/ "stale" \in scenario.kinds
          /\ bad' = TRUE
          /\ UNCHANGED <<claim, seen, gate, failures>>
    /\ NextClaim
    /\ UNCHANGED <<obj, cacheVars, data, scvmmVars, rd, mem, hasData, got, queued>>

(* The addresses found are recorded for the devices that got a gateway.    *)
Recorded ==
    [d \in Devices |->
        IF gate[d] = NoGateway THEN mem[d]
        ELSE [gateway |-> gate[d], have |-> Wanted(d) \cap seen]]

NeedsStaticAddresses == got.static # StaticDevices

(* Variant: whatever medium the VM has will do. *)
NeverNeedsCloudInit == FALSE

(* vmNeedsCloudInit goes by the name of the file.                          *)
NeedsCloudInit == got.medium = NoMedium

(* The branches of reconcileNormal.  An error in the claims ends the       *)
(* reconcile without a patch.  The path of the medium may have to be asked *)
(* for.                                                                    *)
Branch ==
    /\ pc = "branch"
    /\ \/ bad /\ Return(TRUE) /\ UNCHANGED failures
       \/ /\ ~ bad
          /\ mem' = Recorded
          /\ \/ /\ Goto(CASE got.st = "creating" -> "patch"
                          [] got.st # "creating" /\ NeedsStaticAddresses -> "static"
                          [] got.st = "off" /\ ~ NeedsStaticAddresses ->
                                IF ~ HasAllIPAddresses(Recorded) THEN "wait"
                                ELSE IF NeedsCloudInit THEN IF hasData THEN "write" ELSE "wait"
                                ELSE IF ~ got.tagged THEN "properties"
                                ELSE "start"
                          [] got.st \notin {"creating", "off"} /\ ~ NeedsStaticAddresses ->
                                IF ~ got.tagged THEN "properties"
                                ELSE IF got.st = "running" THEN "info"
                                ELSE "patch")
                /\ UNCHANGED failures
             \/ /\ got.st = "off" /\ HasAllIPAddresses(Recorded)
                /\ May("command") /\ Failed /\ Goto("patch")
          /\ UNCHANGED <<rd, hasData, got, loopVars, queued>>
    /\ UNCHANGED <<apiVars, cacheVars, data, scvmmVars>>

(* setStaticAddresses takes over what the answer says of every device,     *)
(* which of a device that is not static is nothing.                        *)
SetStaticAddresses ==
    /\ pc = "static"
    /\ \/ /\ Command(SetVMNetwork)
          /\ mem' = [d \in Devices |->
                        [gateway |-> IF d \in vm'.static THEN GatewayOf[d] ELSE mem[d].gateway,
                         have |-> {d} \cap vm'.static]]
       \/ CommandFails(SetVMNetwork) /\ UNCHANGED mem
    /\ Goto("patch")
    /\ UNCHANGED <<apiVars, cacheVars, data, share, purge, orphan, rd, hasData, got, loopVars,
                   queued>>

(* writeCloudInit opens the file anew and then fills it; when that fails   *)
(* it removes the file, if it still can.                                   *)
CreateFile ==
    /\ pc = "write"
    /\ \/ /\ share' = [whole |-> FALSE, addresses |-> {}]
          /\ Goto("fill")
          /\ UNCHANGED failures
       \/ May("share") /\ Failed /\ Goto("patch") /\ UNCHANGED share
    /\ UNCHANGED <<apiVars, cacheVars, data, vm, purge, orphan, workVars, queued>>

FillFile ==
    /\ pc = "fill"
    /\ \/ /\ share' = [whole |-> TRUE, addresses |-> Addresses(mem)]
          /\ Goto("starting")
          /\ UNCHANGED failures
       \/ /\ May("share") /\ Failed
          /\ Goto("patch")
          /\ share' \in {share, NoMedium}
    /\ UNCHANGED <<apiVars, cacheVars, data, vm, purge, orphan, workVars, queued>>

PatchStarting ==
    /\ pc = "starting"
    /\ \/ Patch /\ Goto("attach") /\ UNCHANGED <<workVars, queued>>
       \/ PatchFails /\ Return(TRUE)
    /\ UNCHANGED <<cacheVars, data, scvmmVars>>

SendAttach ==
    /\ pc = "attach"
    /\ \/ AttachMedium /\ UNCHANGED <<orphan, failures>>
       \/ /\ May("command") /\ Failed
          /\ AttachMedium \/ UNCHANGED <<vm, purge>>
          /\ UNCHANGED orphan
       \/ May("late") /\ Failed /\ orphan' = TRUE /\ UNCHANGED <<vm, purge>>
    /\ Goto("patch")
    /\ UNCHANGED <<apiVars, cacheVars, data, share, workVars, queued>>

SetVMProperties ==
    LET Tag == vm' = IF Busy \/ vm.st = "none" THEN vm ELSE [vm EXCEPT !.tagged = TRUE]
    IN /\ pc = "properties"
       /\ Command(Tag) \/ CommandFails(Tag)
       /\ Goto("patch")
       /\ UNCHANGED <<apiVars, cacheVars, data, share, purge, orphan, workVars, queued>>

StartVM ==
    LET Start == vm' = IF vm.st = "off" THEN [vm EXCEPT !.st = "running"] ELSE vm
    IN /\ pc = "start"
       /\ \/ Command(Start) /\ Goto("patch") /\ UNCHANGED <<workVars, queued>>
          \/ CommandFails(Start) /\ Return(TRUE)
       /\ UNCHANGED <<apiVars, cacheVars, data, share, purge, orphan>>

(* getVMInfo: until the VM has told its own addresses it is asked again.   *)
GetVMInfo ==
    /\ pc = "info"
    /\ \/ Patch /\ \E again \in BOOLEAN : Return(again)
       \/ PatchFails /\ Return(TRUE)
    /\ UNCHANGED <<cacheVars, data, scvmmVars>>

(* Variant: the claims are given up while the VM is being removed. *)
RemovedSoon == vm.st \in {"none", "removing"}

Removed == vm.st = "none"

(* reconcileDelete.                                                        *)
SendRemoveVM ==
    /\ pc = "remove"
    /\ \/ /\ Removed
          /\ Goto(IF NumClaims = 0 THEN "unfinalize" ELSE "release")
          /\ UNCHANGED <<vm, workVars, queued, failures>>
       \/ ~ Removed /\ Command(RemoveVM) /\ Return(TRUE)
       \/ CommandFails(RemoveVM) /\ Return(TRUE)
    /\ UNCHANGED <<apiVars, cacheVars, data, share, purge, orphan>>

(* Variant: the finalizer is taken off the copy only. *)
UnprotectedUnsaved(c) == claim[c]

Unprotected(c) == IF claim[c].st = "deleting" THEN NoClaim ELSE [claim[c] EXCEPT !.final = FALSE]

(* One round of deleteIPAddressClaims.                                     *)
ReleaseClaim ==
    /\ pc = "release"
    /\ \/ /\ ~ cclaim[at].final
          /\ at' = at + 1
          /\ Goto(IF at = NumClaims THEN "unfinalize" ELSE "release")
          /\ UNCHANGED <<claim, rd, mem, hasData, got, seen, gate, bad, queued, failures>>
       \/ /\ cclaim[at].final /\ cclaim[at] = claim[at]
          /\ claim' = [claim EXCEPT ![at] = Unprotected(at)]
          /\ at' = at + 1
          /\ Goto(IF at = NumClaims THEN "unfinalize" ELSE "release")
          /\ UNCHANGED <<rd, mem, hasData, got, seen, gate, bad, queued, failures>>
       \/ /\ cclaim[at].final
          /\ \/ cclaim[at] # claim[at] /\ UNCHANGED failures
             \/ May("api") /\ Failed
          /\ Return(TRUE)
          /\ UNCHANGED claim
    /\ UNCHANGED <<obj, cacheVars, data, scvmmVars>>

RemoveFinalizer ==
    /\ pc = "unfinalize"
    /\ \/ obj' = [obj EXCEPT !.phase = "gone"] /\ Return(FALSE) /\ UNCHANGED failures
       \/ May("patch") /\ Failed /\ Return(TRUE) /\ UNCHANGED obj
    /\ UNCHANGED <<claim, cacheVars, data, scvmmVars>>

Reconcile ==
    \/ Begin \/ PatchReason \/ GetVM \/ CreateVM \/ ReconcileClaim \/ Branch
    \/ SetStaticAddresses \/ CreateFile \/ FillFile \/ PatchStarting \/ SendAttach
    \/ SetVMProperties \/ StartVM \/ GetVMInfo
    \/ SendRemoveVM \/ ReleaseClaim \/ RemoveFinalizer

Next ==
    /\ \/ Reconcile
       \/ DeleteMachine \/ SetBootstrapData \/ SyncMachine
       \/ \E c \in Claims : SyncClaim(c) \/ Answer(c) \/ CollectGarbage(c)
       \/ VmTaskDone \/ RemoveFile \/ LateAttach \/ AdminActs \/ Crash
    /\ UNCHANGED scenario

Spec == Init /\ [][Next]_<<vars, scenario>>

-----------------------------------------------------------------------------
(* Properties.                                                             *)

(* Every variable keeps its type, and the rounds over the claims end in    *)
(* time (reconcileIPAddressClaims, deleteIPAddressClaims).                 *)
TypeOK ==
    /\ obj \in Machine /\ cobj \in Machine /\ rd \in Machine
    /\ claim \in [Claims -> Claim] /\ cclaim \in [Claims -> Claim]
    /\ vm \in Vm /\ got \in Vm /\ share \in Medium \cup {NoMedium}
    /\ data \in BOOLEAN /\ hasData \in BOOLEAN /\ purge \in BOOLEAN /\ orphan \in BOOLEAN
    /\ bad \in BOOLEAN /\ queued \in BOOLEAN
    /\ pc \in Labels /\ mem \in Networking
    /\ at \in 1 .. NumClaims + 1 /\ (pc \in {"claim", "release"} => at \in Claims)
    /\ seen \subseteq Claims /\ gate \in [Devices -> Gateways]
    /\ scenario \in Scenarios /\ failures \in 0 .. scenario.max

(* No address goes back to its pool while a VM exists that was told to use *)
(* it (reconcileDelete, deleteIPAddressClaims).                            *)
AddressHeld ==
    \A c \in Claims :
        vm.medium # NoMedium /\ c \in vm.medium.addresses =>
            claim[c].final /\ claim[c].answered

(* No command runs on after the worker has given up on it.                 *)
Prompt == "late" \notin scenario.kinds

(* Nor does a reconcile begin with copies of what has been.                *)
Calm == Prompt /\ "stale" \notin scenario.kinds

(* A VM starts only with a medium that was written to its end and holds    *)
(* every address of the machine, over however many reconciles it was made  *)
(* (reconcileNormal, addCloudInitToVM).                                    *)
StartsWhole ==
    [][Prompt /\ vm.st = "off" /\ vm'.st = "running" =>
          vm.medium # NoMedium /\ vm.medium.whole /\ vm.medium.addresses = Items]_vars

(* A running VM's addresses can be read off the machine's spec, although   *)
(* patches fail unnoticed and answers about static addresses overwrite it  *)
(* (patchReasonCondition, setStaticAddresses).                             *)
SpecShowsAddresses ==
    Calm /\ vm.st = "running" => HasAllIPAddresses(obj.net) /\ vm.medium.addresses = Addresses(obj.net)

(* The finalizer of a claim stays as long as the machine's VM may need it, *)
(* and a machine that is gone leaves no claim that only it could free      *)
(* (deleteIPAddressClaims).                                                *)
ClaimsFreed ==
    obj.phase = "deleting" /\ Calm ~> \A c \in Claims : claim[c].st = "absent"

(* SCVMM has assigned an address and the answer that told it was lost.     *)
AnswerLost == \E d \in vm.static : d \notin obj.net[d].have

(* A machine gets to run: nothing it waits for comes without waking it,    *)
(* but for the addresses that SCVMM tells only once                        *)
(* (reconcileNormal, SetupWithManager).                                    *)
Starts ==
    Calm /\ "admin" \notin scenario.kinds =>
        <>(vm.st = "running" \/ obj.phase # "live") \/ <>[]AnswerLost

Fairness ==
    /\ WF_vars(Reconcile) /\ WF_vars(SetBootstrapData) /\ WF_vars(SyncMachine)
    /\ \A c \in Claims : WF_vars(SyncClaim(c)) /\ WF_vars(Answer(c)) /\ WF_vars(CollectGarbage(c))
    /\ WF_vars(VmTaskDone) /\ WF_vars(RemoveFile)

FairSpec == Spec /\ Fairness

=============================================================================
