-------------------------- MODULE MachineBoot_proofs --------------------------
(***************************************************************************)
(* Proofs about MachineBoot: an address is not given back while a VM       *)
(* exists that was told to use it, with caches that lag, commands that run *)
(* on, failures and restarts (BootInv); a VM starts with a whole medium    *)
(* with all addresses (MediumInv); and the spec of a running machine shows *)
(* its addresses (CalmInv).                                                *)
(*                                                                         *)
(* The life of a machine has two parts.  In the first no claim is touched  *)
(* but to be made and answered, so that every address on its way to the VM *)
(* is of a claim that is held.  The second begins when a reconcile that    *)
(* has seen the deletion finds no VM: from then on none is made.           *)
(***************************************************************************)
EXTENDS MachineBoot, TLAPS

(* The claims that are held for the machine.                               *)
Held == {c \in Claims : claim[c].final /\ claim[c].answered}

Known(S) == S \cap Claims \subseteq Held

Shapes ==
    /\ obj = [phase |-> obj.phase, net |-> obj.net]
    /\ vm = [st |-> vm.st, medium |-> vm.medium, static |-> vm.static, tagged |-> vm.tagged]
    /\ vm.st = "none" => vm = NoVm
    /\ claim = [c \in Claims |-> claim[c]] /\ cclaim = [c \in Claims |-> cclaim[c]]
    /\ \A c \in Claims :
          claim[c] = [st |-> claim[c].st, final |-> claim[c].final, answered |-> claim[c].answered]

(* Deletion is for good, and who removes a machine has seen it.            *)
PhasesLag ==
    /\ cobj.phase # "live" => obj.phase # "live"
    /\ pc \in {"remove", "release", "unfinalize"} => cobj.phase # "live"

(* A claim that exists is protected, and what a copy shows of it holds.    *)
ClaimsHeld ==
    \A c \in Claims :
        /\ claim[c].st = "absent" => ~ claim[c].answered
        /\ claim[c].st # "absent" => claim[c].final
        /\ cclaim[c].answered => claim[c].answered

(* The first part: whatever may reach the VM is of claims that are held.   *)
Holding ==
    /\ obj.phase # "gone" /\ pc \notin {"release", "unfinalize"}
    /\ ClaimsHeld
    /\ Known(seen)
    /\ \A d \in Devices :
          Known(obj.net[d].have) /\ Known(cobj.net[d].have) /\ Known(mem[d].have)
    /\ vm.medium # NoMedium => Known(vm.medium.addresses)
    /\ share # NoMedium => Known(share.addresses)

(* The second part.                                                        *)
Releasing ==
    /\ obj.phase # "live" /\ cobj.phase # "live"
    /\ vm = NoVm
    /\ pc \in {"idle", "remove", "release", "unfinalize"}

BootInv == Shapes /\ PhasesLag /\ (Holding \/ Releasing)

-----------------------------------------------------------------------------

LEMMA BootInit == Init => BootInv
  BY DEF Init, Idle, BootInv, Shapes, PhasesLag, Holding, ClaimsHeld, Known, Held, NewMachine, NoAddresses,
     NoVm, NoClaim

(* Nothing leads back.                                                     *)
LEMMA ReleasingStays ==
  ASSUME BootInv, Releasing, Next
  PROVE  BootInv'
<1> USE DEF BootInv, Shapes, PhasesLag, Releasing
<1>1. vm.st = "none" /\ ~ Busy
  BY DEF NoVm, Busy
<1>2. CASE Reconcile
  <2>1. Begin \/ SendRemoveVM \/ ReleaseClaim \/ RemoveFinalizer
    BY <1>2 DEF Reconcile, PatchReason, GetVM, CreateVM, ReconcileClaim, Branch, SetStaticAddresses,
       CreateFile, FillFile, PatchStarting, SendAttach, SetVMProperties, StartVM, GetVMInfo
  <2>2. CASE Begin
    BY <2>2 DEF Begin, Goto, apiVars, cacheVars, scvmmVars
  <2>3. CASE SendRemoveVM
    BY <1>1, <2>3 DEF SendRemoveVM, Command, CommandFails, RemoveVM, Return, Reset, Goto, apiVars,
       cacheVars
  <2>4. CASE ReleaseClaim
    <3>1. UNCHANGED <<obj, cacheVars, scvmmVars>> /\ pc' \in {"idle", "release", "unfinalize"}
      BY <2>4 DEF ReleaseClaim, Return, Reset, Goto
    <3>2. claim' = claim \/ claim' = [claim EXCEPT ![at] = Unprotected(at)]
      BY <2>4 DEF ReleaseClaim
    <3>3. claim' = [c \in Claims |-> claim'[c]] /\ \A c \in Claims :
             claim'[c] = [st |-> claim'[c].st, final |-> claim'[c].final, answered |-> claim'[c].answered]
      BY <3>2 DEF Unprotected, NoClaim
    <3>4. QED
      BY <3>1, <3>3, <2>4 DEF ReleaseClaim, cacheVars, scvmmVars
  <2>5. CASE RemoveFinalizer
    BY <2>5 DEF RemoveFinalizer, Return, Reset, cacheVars, scvmmVars
  <2>6. QED
    BY <2>1, <2>2, <2>3, <2>4, <2>5
<1>3. CASE DeleteMachine \/ SetBootstrapData \/ SyncMachine
  BY <1>3 DEF DeleteMachine, SetBootstrapData, SyncMachine, apiVars, cacheVars, scvmmVars
<1>4. ASSUME NEW c \in Claims, SyncClaim(c) \/ Answer(c) \/ CollectGarbage(c)
      PROVE  BootInv'
  <2>1. UNCHANGED <<obj, cobj, vm, pc>>
    BY <1>4 DEF SyncClaim, Answer, CollectGarbage, apiVars, cacheVars, scvmmVars
  <2>2. \/ UNCHANGED claim /\ cclaim' = [cclaim EXCEPT ![c] = claim[c]]
        \/ UNCHANGED cclaim /\ claim' = [claim EXCEPT ![c].answered = TRUE]
        \/ UNCHANGED cclaim /\ claim' = [claim EXCEPT ![c] = IF @.final THEN [@ EXCEPT !.st = "deleting"] ELSE NoClaim]
    BY <1>4 DEF SyncClaim, Answer, CollectGarbage, apiVars, cacheVars
  <2>3. claim' = [b \in Claims |-> claim'[b]] /\ cclaim' = [b \in Claims |-> cclaim'[b]]
    BY <2>2
  <2>4. \A b \in Claims :
          claim'[b] = [st |-> claim'[b].st, final |-> claim'[b].final, answered |-> claim'[b].answered]
    BY <2>2 DEF NoClaim
  <2>5. QED
    BY <2>1, <2>3, <2>4
<1>5. CASE VmTaskDone \/ RemoveFile \/ LateAttach \/ AdminActs
  BY <1>1, <1>5 DEF VmTaskDone, RemoveFile, LateAttach, AttachMedium, AdminActs, apiVars, cacheVars
<1>6. CASE Crash
  BY <1>6 DEF Crash, Reset, apiVars, scvmmVars
<1>7. QED
  BY <1>2, <1>3, <1>4, <1>5, <1>6 DEF Next

-----------------------------------------------------------------------------
(* The first part.                                                         *)

(* Steps that leave claims and their copies alone: what they bring to the  *)
(* machine, the medium and the VM was somewhere before.                    *)
Carries ==
    /\ UNCHANGED <<claim, cclaim>>
    /\ Known(seen') /\ \A d \in Devices :
          Known(obj'.net[d].have) /\ Known(cobj'.net[d].have) /\ Known(mem'[d].have)
    /\ vm'.medium # NoMedium => Known(vm'.medium.addresses)
    /\ share' # NoMedium => Known(share'.addresses)

LEMMA CarriesHolds ==
  ASSUME Holding, Carries, obj'.phase # "gone", pc' \notin {"release", "unfinalize"}
  PROVE  Holding'
<1>1. Held' = Held
  BY DEF Carries, Held
<1>2. ClaimsHeld'
  BY DEF Holding, Carries, ClaimsHeld
<1>3. QED
  BY <1>1, <1>2 DEF Holding, Carries, Known

LEMMA HoldingEnvironment ==
  ASSUME BootInv, Holding,
         \/ DeleteMachine \/ SetBootstrapData \/ SyncMachine
         \/ VmTaskDone \/ RemoveFile \/ LateAttach \/ AdminActs \/ Crash
  PROVE  BootInv'
<1> USE DEF BootInv, Shapes, PhasesLag
<1>1. CASE DeleteMachine \/ SetBootstrapData \/ SyncMachine
  <2> USE <1>1 DEF DeleteMachine, SetBootstrapData, SyncMachine, apiVars, cacheVars, scvmmVars,
          workVars, loopVars
  <2>1. Carries
    BY DEF Carries, Holding
  <2>2. obj'.phase # "gone" /\ pc' \notin {"release", "unfinalize"}
    BY DEF Holding
  <2>3. Shapes' /\ PhasesLag'
    OBVIOUS
  <2>4. QED
    BY <2>1, <2>2, <2>3, CarriesHolds
<1>2. CASE VmTaskDone \/ RemoveFile \/ LateAttach \/ AdminActs
  <2> USE <1>2 DEF VmTaskDone, RemoveFile, LateAttach, AttachMedium, AdminActs, Busy, NoVm, apiVars,
          cacheVars, workVars, loopVars
  <2>1. Carries
    BY DEF Carries, Holding
  <2>2. obj'.phase # "gone" /\ pc' \notin {"release", "unfinalize"}
    BY DEF Holding
  <2>3. Shapes' /\ PhasesLag'
    OBVIOUS
  <2>4. QED
    BY <2>1, <2>2, <2>3, CarriesHolds
<1>3. CASE Crash
  <2>1. /\ UNCHANGED <<obj, claim, vm, share>> /\ cobj' = obj /\ cclaim' = claim
        /\ pc' = "idle" /\ mem' = NoAddresses /\ seen' = {}
    BY <1>3 DEF Crash, Reset, apiVars, scvmmVars
  <2>2. Held' = Held
    BY <2>1 DEF Held
  <2>3. Holding'
    BY <2>1, <2>2 DEF Holding, ClaimsHeld, Known, NoAddresses
  <2>4. Shapes' /\ PhasesLag'
    BY <2>1
  <2>5. QED
    BY <2>3, <2>4
<1>4. QED
  BY <1>1, <1>2, <1>3

LEMMA HoldingClaims ==
  ASSUME BootInv, Holding, NEW c \in Claims, SyncClaim(c) \/ Answer(c) \/ CollectGarbage(c)
  PROVE  BootInv'
<1> USE DEF BootInv, Shapes, PhasesLag
<1>1. /\ UNCHANGED <<obj, cobj, vm, share, pc, mem, seen>>
      /\ \/ UNCHANGED claim /\ cclaim' = [cclaim EXCEPT ![c] = claim[c]]
         \/ /\ claim[c].st = "open"
            /\ UNCHANGED cclaim /\ claim' = [claim EXCEPT ![c].answered = TRUE]
  BY DEF SyncClaim, Answer, CollectGarbage, apiVars, cacheVars, scvmmVars, workVars, loopVars, Holding
<1>2. Held \subseteq Held'
  BY <1>1 DEF Held
<1>3. ClaimsHeld'
  BY <1>1 DEF Holding, ClaimsHeld
<1>4. Holding'
  BY <1>1, <1>2, <1>3 DEF Holding, Known
<1>5. /\ claim' = [b \in Claims |-> claim'[b]] /\ cclaim' = [b \in Claims |-> cclaim'[b]]
      /\ \A b \in Claims :
          claim'[b] = [st |-> claim'[b].st, final |-> claim'[b].final, answered |-> claim'[b].answered]
  BY <1>1
<1>6. QED
  BY <1>1, <1>4, <1>5

(* The steps of a reconcile that patch nothing but what it knows.          *)
LEMMA HoldingPatch ==
  ASSUME BootInv, Holding, Patch \/ PatchFails
  PROVE  /\ UNCHANGED claim /\ obj'.phase = obj.phase
         /\ obj' = [phase |-> obj'.phase, net |-> obj'.net]
         /\ \A d \in Devices : Known(obj'.net[d].have)
<1>1. UNCHANGED claim /\ (UNCHANGED obj \/ obj' = [obj EXCEPT !.net = mem])
  BY DEF Patch, PatchFails, apiVars, BootInv, Shapes
<1>2. QED
  BY <1>1 DEF BootInv, Shapes, Holding

LEMMA RecordedKnown ==
  ASSUME Holding
  PROVE  \A d \in Devices : Known(Recorded[d].have)
  BY DEF Holding, Known, Recorded

LEMMA HoldingReconcile ==
  ASSUME BootInv, Holding, Reconcile
  PROVE  BootInv'
<1> USE DEF BootInv, Shapes, PhasesLag, Goto
<1>1. CASE Begin
  <2> USE <1>1 DEF Begin, apiVars, cacheVars, scvmmVars, loopVars
  <2>1. Carries
    BY DEF Carries, Holding
  <2>2. QED
    BY <2>1, CarriesHolds DEF Holding
<1>2. CASE PatchReason \/ GetVMInfo
  <2>1. /\ Patch \/ PatchFails
        /\ UNCHANGED <<cacheVars, scvmmVars>> /\ pc' = "idle" /\ mem' = NoAddresses /\ seen' = {}
    BY <1>2 DEF PatchReason, GetVMInfo, Return, Reset
  <2>2. Carries
    BY <2>1, HoldingPatch DEF Carries, Holding, cacheVars, scvmmVars, NoAddresses, Known
  <2>3. QED
    BY <2>1, <2>2, HoldingPatch, CarriesHolds DEF Holding, cacheVars, scvmmVars
<1>3. CASE PatchStarting
  <2>1. /\ Patch \/ PatchFails
        /\ UNCHANGED <<cacheVars, scvmmVars>>
        /\ \/ pc' = "idle" /\ mem' = NoAddresses /\ seen' = {}
           \/ pc' = "attach" /\ UNCHANGED <<mem, seen>>
    BY <1>3 DEF PatchStarting, Return, Reset, workVars, loopVars
  <2>2. Carries
    BY <2>1, HoldingPatch DEF Carries, Holding, cacheVars, scvmmVars, NoAddresses, Known
  <2>3. QED
    BY <2>1, <2>2, HoldingPatch, CarriesHolds DEF Holding, cacheVars, scvmmVars
<1>4. CASE GetVM
  <2> USE <1>4 DEF GetVM, Return, Reset, apiVars, cacheVars, scvmmVars, loopVars
  <2>1. Carries
    BY DEF Carries, Holding, NoAddresses, Known
  <2>2. QED
    BY <2>1, CarriesHolds DEF Holding
<1>5. CASE CreateVM \/ SetVMProperties
  <2> USE <1>5 DEF CreateVM, SetVMProperties, Command, CommandFails, NoVm, apiVars, cacheVars,
          workVars, loopVars
  <2>1. Carries
    BY DEF Carries, Holding
  <2>2. QED
    BY <2>1, CarriesHolds DEF Holding
<1>6. CASE ReconcileClaim
  <2>1. /\ UNCHANGED <<obj, cacheVars, scvmmVars, mem>> /\ pc' \in {"branch", "claim"}
    BY <1>6 DEF ReconcileClaim, NextClaim
  <2>2. \/ UNCHANGED claim
        \/ claim[at].st = "absent" /\ claim' = [claim EXCEPT ![at] = NewClaim]
    BY <1>6 DEF ReconcileClaim
  <2>3. Held \subseteq Held' /\ ClaimsHeld'
    BY <2>1, <2>2 DEF Held, Holding, ClaimsHeld, NewClaim, cacheVars
  <2>4. UNCHANGED seen \/ (UNCHANGED claim /\ seen' = seen \cup {at} /\ cclaim[at].answered)
    BY <1>6 DEF ReconcileClaim
  <2>5. Known(seen)'
    BY <2>3, <2>4 DEF Holding, ClaimsHeld, Known, Held
  <2>6. Holding'
    BY <2>1, <2>3, <2>5 DEF Holding, Known, cacheVars, scvmmVars
  <2>7. /\ claim' = [b \in Claims |-> claim'[b]] /\ cclaim' = [b \in Claims |-> cclaim'[b]]
        /\ \A b \in Claims :
          claim'[b] = [st |-> claim'[b].st, final |-> claim'[b].final, answered |-> claim'[b].answered]
    BY <2>1, <2>2 DEF NewClaim, cacheVars
  <2>8. QED
    BY <2>1, <2>6, <2>7 DEF cacheVars, scvmmVars
<1>7. CASE Branch
  <2>1. UNCHANGED <<apiVars, cacheVars, scvmmVars>>
    BY <1>7 DEF Branch
  <2>2. CASE bad
    <3>1. mem' = NoAddresses /\ seen' = {} /\ pc' = "idle"
      BY <1>7, <2>2 DEF Branch, Return, Reset
    <3>2. Carries
      BY <2>1, <3>1 DEF Carries, Holding, NoAddresses, Known, apiVars, cacheVars, scvmmVars
    <3>3. QED
      BY <2>1, <3>1, <3>2, CarriesHolds DEF Holding, apiVars, cacheVars, scvmmVars
  <2>3. CASE ~ bad
    <3>1. mem' = Recorded /\ UNCHANGED seen
      BY <1>7, <2>3 DEF Branch, loopVars
    <3>2. pc' \in {"patch", "static", "wait", "write", "properties", "start", "info"}
      BY <1>7, <2>3 DEF Branch
    <3>3. Carries
      BY <2>1, <3>1, RecordedKnown DEF Carries, Holding, apiVars, cacheVars, scvmmVars
    <3>4. QED
      BY <2>1, <3>2, <3>3, CarriesHolds DEF Holding, apiVars, cacheVars, scvmmVars
  <2>4. QED
    BY <2>2, <2>3
<1>8. CASE SetStaticAddresses
  <2>1. \A d \in Devices : mem'[d].have = mem[d].have \/ mem'[d].have \subseteq {d}
    BY <1>8 DEF SetStaticAddresses
  <2>2. vm'.medium = vm.medium /\ (vm'.st = "none" => vm' = vm)
        /\ vm' = [st |-> vm'.st, medium |-> vm'.medium, static |-> vm'.static, tagged |-> vm'.tagged]
    BY <1>8 DEF SetStaticAddresses, Command, CommandFails, SetVMNetwork
  <2>3. UNCHANGED <<obj, claim, cobj, cclaim, share, seen>> /\ pc' = "patch"
    BY <1>8 DEF SetStaticAddresses, apiVars, cacheVars, loopVars
  <2>4. Carries
    BY <2>1, <2>2, <2>3, BoundAssumption DEF Carries, Holding, Known
  <2>5. QED
    BY <2>2, <2>3, <2>4, CarriesHolds DEF Holding
<1>9. CASE CreateFile \/ FillFile
  <2>1. /\ UNCHANGED <<apiVars, cacheVars, vm, mem, seen>> /\ pc' \in {"fill", "patch", "starting"}
        /\ \/ share' \in {share, NoMedium, [whole |-> FALSE, addresses |-> {}]}
           \/ share' = [whole |-> TRUE, addresses |-> Addresses(mem)]
    BY <1>9 DEF CreateFile, FillFile, workVars, loopVars
  <2>2. Known(Addresses(mem))
    BY DEF Addresses, Known, Holding
  <2>3. share' # NoMedium => Known(share'.addresses)
    BY <2>1, <2>2 DEF Holding, Known
  <2>4. Carries
    BY <2>1, <2>3 DEF Carries, Holding, apiVars, cacheVars
  <2>5. QED
    BY <2>1, <2>4, CarriesHolds DEF Holding, apiVars, cacheVars
<1>10. CASE SendAttach
  <2> USE <1>10 DEF SendAttach, AttachMedium, apiVars, cacheVars, workVars, loopVars
  <2>1. Carries
    BY DEF Carries, Holding
  <2>2. QED
    BY <2>1, CarriesHolds DEF Holding
<1>11. CASE StartVM
  <2> USE <1>11 DEF StartVM, Command, CommandFails, Return, Reset, apiVars, cacheVars, workVars, loopVars
  <2>1. Carries
    BY DEF Carries, Holding, NoAddresses, Known
  <2>2. QED
    BY <2>1, CarriesHolds DEF Holding
<1>12. CASE SendRemoveVM
  <2>1. CASE Removed /\ pc' \in {"release", "unfinalize"}
    <3>1. Releasing' /\ UNCHANGED <<apiVars, cacheVars, vm>>
      BY <1>12, <2>1 DEF SendRemoveVM, Removed, Releasing, apiVars, cacheVars, Command, CommandFails,
         Return, Reset
    <3>2. QED
      BY <3>1 DEF Releasing, apiVars, cacheVars
  <2>2. CASE ~ (Removed /\ pc' \in {"release", "unfinalize"})
    <3>1. UNCHANGED <<apiVars, cacheVars, share>>
      BY <1>12 DEF SendRemoveVM
    <3>2. pc' = "idle" /\ mem' = NoAddresses /\ seen' = {}
      BY <1>12, <2>2 DEF SendRemoveVM, Return, Reset, Command, CommandFails
    <3>3. UNCHANGED vm \/ (vm.st # "none" /\ \E st \in {"stopping", "removing"} : vm' = [vm EXCEPT !.st = st])
      BY <1>12 DEF SendRemoveVM, Command, CommandFails, RemoveVM
    <3>4. Carries
      BY <3>1, <3>2, <3>3 DEF Carries, Holding, NoAddresses, Known, apiVars, cacheVars
    <3>5. QED
      BY <3>1, <3>2, <3>3, <3>4, CarriesHolds DEF Holding, apiVars, cacheVars
  <2>3. QED
    BY <2>1, <2>2
<1>13. CASE ReleaseClaim \/ RemoveFinalizer
  BY <1>13 DEF ReleaseClaim, RemoveFinalizer, Holding
<1>14. QED
  BY <1>1, <1>2, <1>3, <1>4, <1>5, <1>6, <1>7, <1>8, <1>9, <1>10, <1>11, <1>12, <1>13 DEF Reconcile

-----------------------------------------------------------------------------

LEMMA BootStep == BootInv /\ [Next]_<<vars, scenario>> => BootInv'
<1> SUFFICES ASSUME BootInv, [Next]_<<vars, scenario>> PROVE BootInv'
  OBVIOUS
<1>1. CASE UNCHANGED <<vars, scenario>>
  <2>1. UNCHANGED <<obj, claim, cobj, cclaim, vm, share, pc, mem, seen>>
    BY <1>1 DEF vars, apiVars, cacheVars, scvmmVars, workVars, loopVars
  <2>2. QED
    BY <2>1 DEF BootInv, Shapes, PhasesLag, Holding, ClaimsHeld, Known, Held, Releasing
<1>2. CASE Next /\ Releasing
  BY <1>2, ReleasingStays
<1>3. CASE Next /\ Holding
  BY <1>3, HoldingEnvironment, HoldingClaims, HoldingReconcile DEF Next
<1>4. QED
  BY <1>1, <1>2, <1>3 DEF BootInv

(* A machine is either one whose claims nobody touches, or one without a   *)
(* VM that never gets one again (reconcileNormal, reconcileDelete).        *)
THEOREM BootInvAlways == Spec => []BootInv
<1>1. Init => BootInv
  BY BootInit
<1>2. BootInv /\ [Next]_<<vars, scenario>> => BootInv'
  BY BootStep
<1>3. QED
  BY <1>1, <1>2, PTL DEF Spec

(* No address is given back while a VM exists that was told to use it,     *)
(* whatever fails, lags or runs on (reconcileDelete,                       *)
(* deleteIPAddressClaims).                                                 *)
THEOREM AddressAlwaysHeld == Spec => []AddressHeld
<1>1. BootInv => AddressHeld
  BY DEF BootInv, Holding, Releasing, Known, Held, NoVm, AddressHeld
<1>2. QED
  BY <1>1, BootInvAlways, PTL

-----------------------------------------------------------------------------
(* Types.                                                                  *)

(* A round over the claims begins with nothing found.                      *)
Fresh ==
    pc \in {"idle", "get", "remove"} =>
        at = 1 /\ seen = {} /\ gate = [d \in Devices |-> NoGateway] /\ bad = FALSE

Typed == TypeOK /\ Fresh

(* What the objects and the variables are made of.                         *)
LEMMA Values ==
  /\ NoAddresses \in Networking /\ NewMachine \in Machine /\ NoClaim \in Claim /\ NewClaim \in Claim
  /\ NoVm \in Vm /\ NoGateway \in Gateways /\ (NumClaims # 0 => 1 \in Claims)
  /\ \A c \in Claims : DeviceOf[c] \in Devices \ StaticDevices
  /\ \A i \in Items : GatewayOf[i] \in Gateways
  BY BoundAssumption DEF NoAddresses, Networking, NewMachine, Machine, NoClaim, NewClaim, Claim, NoVm, Vm,
     VmStates, Gateways, Claims

LEMMA ResetTyped ==
  ASSUME Reset
  PROVE  /\ rd' \in Machine /\ mem' \in Networking /\ got' \in Vm /\ hasData' = FALSE /\ bad' = FALSE
         /\ pc' = "idle" /\ at' = 1 /\ at' \in 1 .. NumClaims + 1 /\ seen' = {}
         /\ gate' \in [Devices -> Gateways] /\ gate' = [d \in Devices |-> NoGateway]
  BY Values, BoundAssumption DEF Reset

LEMMA TypedInit == Init => Typed
<1> SUFFICES ASSUME Init PROVE Typed
  OBVIOUS
<1>1. scenario \in Scenarios /\ failures \in 0 .. scenario.max
  BY BoundAssumption DEF Init
<1>2. at \in 1 .. NumClaims + 1 /\ gate \in [Devices -> Gateways]
  BY Values, BoundAssumption DEF Init, Idle
<1>3. NewMachine.net \in Networking /\ mem \in Networking
  BY Values DEF Init, Idle, NewMachine
<1>4. QED
  BY <1>1, <1>2, <1>3, Values DEF Init, Idle, Typed, TypeOK, Fresh, Labels

(* The bound on failures.                                                  *)
LEMMA FailuresTyped ==
  ASSUME Typed, UNCHANGED scenario, UNCHANGED failures \/ (Failed /\ \E kind \in FaultKinds : May(kind))
  PROVE  scenario' \in Scenarios /\ failures' \in 0 .. scenario'.max
  BY BoundAssumption DEF Typed, TypeOK, Failed, May

LEMMA TypedEnvironment ==
  ASSUME Typed, UNCHANGED scenario,
         \/ DeleteMachine \/ SetBootstrapData \/ SyncMachine
         \/ \E c \in Claims : SyncClaim(c) \/ Answer(c) \/ CollectGarbage(c)
         \/ VmTaskDone \/ RemoveFile \/ LateAttach \/ AdminActs \/ Crash
  PROVE  Typed'
<1> USE DEF Typed, TypeOK, Fresh, workVars, loopVars, apiVars, cacheVars, scvmmVars
<1>1. scenario' \in Scenarios /\ failures' \in 0 .. scenario'.max
  <2>1. UNCHANGED failures \/ (AdminActs \/ Crash)
    BY DEF DeleteMachine, SetBootstrapData, SyncMachine, SyncClaim, Answer, CollectGarbage, VmTaskDone,
       RemoveFile, LateAttach
  <2>2. AdminActs \/ Crash => Failed /\ \E kind \in FaultKinds : May(kind)
    BY DEF AdminActs, Crash, FaultKinds
  <2>3. QED
    BY <2>1, <2>2, FailuresTyped
<1>2. CASE DeleteMachine \/ SetBootstrapData \/ SyncMachine
  BY <1>1, <1>2 DEF DeleteMachine, SetBootstrapData, SyncMachine, Machine
<1>3. ASSUME NEW c \in Claims, SyncClaim(c) \/ Answer(c) \/ CollectGarbage(c)
      PROVE  Typed'
  <2>1. \/ UNCHANGED claim /\ cclaim' = [cclaim EXCEPT ![c] = claim[c]]
        \/ UNCHANGED cclaim /\ \E new \in Claim : claim' = [claim EXCEPT ![c] = new]
    <3>1. claim[c] \in Claim
      OBVIOUS
    <3>2. /\ [claim[c] EXCEPT !.answered = TRUE] \in Claim
          /\ (IF claim[c].final THEN [claim[c] EXCEPT !.st = "deleting"] ELSE NoClaim) \in Claim
      BY <3>1, Values DEF Claim
    <3>3. Answer(c) => claim' = [claim EXCEPT ![c] = [claim[c] EXCEPT !.answered = TRUE]]
      BY DEF Answer
    <3>4. CollectGarbage(c) =>
            claim' = [claim EXCEPT ![c] = IF claim[c].final THEN [claim[c] EXCEPT !.st = "deleting"]
                                          ELSE NoClaim]
      BY DEF CollectGarbage
    <3>5. QED
      BY <1>3, <3>2, <3>3, <3>4 DEF SyncClaim, Answer, CollectGarbage
  <2>2. claim' \in [Claims -> Claim] /\ cclaim' \in [Claims -> Claim]
    BY <2>1
  <2>3. queued' \in BOOLEAN
    BY <1>3 DEF SyncClaim, Answer, CollectGarbage
  <2>4. UNCHANGED <<obj, cobj, data, scvmmVars, pc, workVars>>
    BY <1>3 DEF SyncClaim, Answer, CollectGarbage
  <2>5. QED
    BY <1>1, <2>2, <2>3, <2>4
<1>4. CASE VmTaskDone \/ RemoveFile \/ AdminActs
  <2>1. vm' \in Vm
    BY <1>4, Values DEF VmTaskDone, RemoveFile, AdminActs, Vm, VmStates
  <2>2. share' \in Medium \cup {NoMedium} /\ purge' \in BOOLEAN /\ orphan' \in BOOLEAN
    BY <1>4 DEF VmTaskDone, RemoveFile, AdminActs
  <2>3. UNCHANGED <<apiVars, cacheVars, data, pc, workVars, queued>>
    BY <1>4 DEF VmTaskDone, RemoveFile, AdminActs
  <2>4. QED
    BY <1>1, <2>1, <2>2, <2>3
<1>5. CASE LateAttach
  <2>1. vm' \in Vm /\ purge' \in BOOLEAN
    BY <1>5 DEF LateAttach, AttachMedium, Vm
  <2>2. QED
    BY <1>1, <1>5, <2>1 DEF LateAttach
<1>6. CASE Crash
  BY <1>1, <1>6, ResetTyped DEF Crash, Labels
<1>7. QED
  BY <1>2, <1>3, <1>4, <1>5, <1>6

LEMMA RecordedTyped == Typed => Recorded \in Networking
  BY DEF Typed, TypeOK, Recorded, Networking, Items, Wanted

(* What a patch leaves.                                                    *)
LEMMA PatchTyped ==
  ASSUME Typed, UNCHANGED scenario, Patch \/ PatchFails
  PROVE  /\ obj' \in Machine /\ UNCHANGED claim
         /\ scenario' \in Scenarios /\ failures' \in 0 .. scenario'.max
<1>1. UNCHANGED claim /\ (UNCHANGED obj \/ \E net \in Networking : obj' = [obj EXCEPT !.net = net])
  BY DEF Patch, PatchFails, apiVars, Typed, TypeOK, Machine
<1>2. UNCHANGED failures \/ (Failed /\ \E kind \in FaultKinds : May(kind))
  BY DEF Patch, PatchFails, FaultKinds
<1>3. QED
  BY <1>1, <1>2, FailuresTyped DEF Typed, TypeOK, Machine

(* Steps of a reconcile on objects other than the claims.                  *)
LEMMA TypedPatches ==
  ASSUME Typed, UNCHANGED scenario, Begin \/ PatchReason \/ PatchStarting \/ GetVMInfo \/ RemoveFinalizer
  PROVE  Typed'
<1> USE DEF Typed, TypeOK, Fresh, workVars, loopVars, apiVars, cacheVars, scvmmVars, Goto
<1>1. CASE Begin
  <2>1. pc' \in Labels /\ rd' \in Machine /\ mem' \in Networking /\ hasData' \in BOOLEAN
    BY <1>1 DEF Begin, Labels, Machine
  <2>2. QED
    BY <1>1, <2>1, FailuresTyped DEF Begin
<1>2. CASE PatchReason \/ GetVMInfo
  <2>1. (Patch \/ PatchFails) /\ Reset /\ queued' \in BOOLEAN
    BY <1>2 DEF PatchReason, GetVMInfo, Return
  <2>2. QED
    BY <1>2, <2>1, PatchTyped, ResetTyped DEF PatchReason, GetVMInfo, Labels
<1>3. CASE PatchStarting
  <2>1. CASE Patch /\ pc' = "attach" /\ UNCHANGED <<workVars, queued>>
    BY <1>3, <2>1, PatchTyped DEF PatchStarting, Labels
  <2>2. CASE PatchFails /\ Return(TRUE)
    BY <1>3, <2>2, PatchTyped, ResetTyped DEF PatchStarting, Return, Labels
  <2>3. QED
    BY <1>3, <2>1, <2>2 DEF PatchStarting
<1>4. CASE RemoveFinalizer
  <2>1. obj' \in Machine /\ Reset /\ queued' \in BOOLEAN
    BY <1>4 DEF RemoveFinalizer, Return, Machine
  <2>2. UNCHANGED failures \/ (Failed /\ \E kind \in FaultKinds : May(kind))
    BY <1>4 DEF RemoveFinalizer, FaultKinds
  <2>3. QED
    BY <1>4, <2>1, <2>2, FailuresTyped, ResetTyped DEF RemoveFinalizer, Labels
<1>5. QED
  BY <1>1, <1>2, <1>3, <1>4

(* The rounds over the claims.                                             *)
LEMMA TypedRounds ==
  ASSUME Typed, UNCHANGED scenario, ReconcileClaim \/ ReleaseClaim
  PROVE  Typed'
<1> USE DEF Typed, TypeOK, Fresh, workVars, loopVars, cacheVars, scvmmVars, Goto
<1>1. at \in Claims
  BY DEF ReconcileClaim, ReleaseClaim
<1>2. at + 1 \in 1 .. NumClaims + 1 /\ (at # NumClaims => at + 1 \in Claims)
  BY <1>1, BoundAssumption DEF Claims
<1>3. UNCHANGED failures \/ (Failed /\ \E kind \in FaultKinds : May(kind))
  BY DEF ReconcileClaim, ReleaseClaim, FaultKinds
<1>4. \E new \in Claim : claim' = [claim EXCEPT ![at] = new]
  <2>1. claim[at] \in Claim /\ NewClaim \in Claim /\ Unprotected(at) \in Claim
    BY <1>1, Values DEF Claim, Unprotected
  <2>2. claim' \in {claim, [claim EXCEPT ![at] = NewClaim], [claim EXCEPT ![at] = Unprotected(at)]}
    BY DEF ReconcileClaim, ReleaseClaim
  <2>3. claim = [claim EXCEPT ![at] = claim[at]]
    OBVIOUS
  <2>4. QED
    BY <2>1, <2>2, <2>3
<1>5. claim' \in [Claims -> Claim] /\ scenario' \in Scenarios /\ failures' \in 0 .. scenario'.max
  BY <1>3, <1>4, FailuresTyped
<1>6. CASE ReconcileClaim
  <2>1. bad' \in BOOLEAN /\ seen' \subseteq Claims
    BY <1>1, <1>6 DEF ReconcileClaim
  <2>2. gate' = gate \/ gate' = [gate EXCEPT ![DeviceOf[at]] = GatewayOf[at]]
    BY <1>6 DEF ReconcileClaim
  <2>3. gate' \in [Devices -> Gateways]
    BY <1>1, <2>2, Values DEF Items
  <2>4. pc' = (IF at = NumClaims THEN "branch" ELSE "claim") /\ at' = at + 1
        /\ UNCHANGED <<obj, cacheVars, data, scvmmVars, rd, mem, hasData, got, queued>>
    BY <1>6 DEF ReconcileClaim, NextClaim
  <2>5. QED
    BY <1>2, <1>5, <2>1, <2>3, <2>4 DEF Labels
<1>7. CASE ReleaseClaim
  <2>1. CASE Return(TRUE)
    BY <1>5, <1>7, <2>1, ResetTyped DEF ReleaseClaim, Return, Labels
  <2>2. CASE ~ Return(TRUE)
    <3>1. pc' = (IF at = NumClaims THEN "unfinalize" ELSE "release") /\ at' = at + 1
          /\ UNCHANGED <<obj, cacheVars, data, scvmmVars, rd, mem, hasData, got, seen, gate, bad, queued>>
      BY <1>7, <2>2 DEF ReleaseClaim
    <3>2. QED
      BY <1>2, <1>5, <3>1 DEF Labels
  <2>3. QED
    BY <2>1, <2>2
<1>8. QED
  BY <1>6, <1>7

(* Steps that act on SCVMM and the share.                                  *)
LEMMA CommandFailures ==
  ASSUME \/ GetVM \/ CreateVM \/ Branch \/ SetStaticAddresses \/ CreateFile \/ FillFile \/ SendAttach
         \/ SetVMProperties \/ StartVM \/ SendRemoveVM
  PROVE  UNCHANGED failures \/ (Failed /\ \E kind \in FaultKinds : May(kind))
<1>1. ASSUME GetVM \/ CreateVM \/ Branch
      PROVE  UNCHANGED failures \/ (Failed /\ May("command"))
  BY <1>1 DEF GetVM, CreateVM, Branch
<1>2. ASSUME SetStaticAddresses \/ SetVMProperties \/ StartVM \/ SendRemoveVM
      PROVE  UNCHANGED failures \/ (Failed /\ May("command"))
  BY <1>2 DEF SetStaticAddresses, SetVMProperties, StartVM, SendRemoveVM, Command, CommandFails
<1>3. ASSUME CreateFile \/ FillFile \/ SendAttach
      PROVE  UNCHANGED failures \/ (Failed /\ \E kind \in {"share", "command", "late"} : May(kind))
  BY <1>3 DEF CreateFile, FillFile, SendAttach
<1>4. QED
  BY <1>1, <1>2, <1>3 DEF FaultKinds

LEMMA TypedCommands ==
  ASSUME Typed, UNCHANGED scenario,
         \/ GetVM \/ CreateVM \/ Branch \/ SetStaticAddresses \/ CreateFile \/ FillFile \/ SendAttach
         \/ SetVMProperties \/ StartVM \/ SendRemoveVM
  PROVE  Typed'
<1> USE DEF Typed, TypeOK, Fresh, workVars, loopVars, apiVars, cacheVars, scvmmVars, Goto
<1>1. scenario' \in Scenarios /\ failures' \in 0 .. scenario'.max
  BY CommandFailures, FailuresTyped
<1>2. CASE GetVM
  <2>1. CASE Return(TRUE)
    BY <1>1, <1>2, <2>1, ResetTyped DEF GetVM, Return, Labels
  <2>2. CASE ~ Return(TRUE)
    <3>1. got' \in Vm
      BY <1>2, <2>2, Values DEF GetVM, Reported, Vm
    <3>2. pc' \in {"create", "branch"} \/ (pc' = "claim" /\ NumClaims # 0)
      BY <1>2, <2>2 DEF GetVM
    <3>3. UNCHANGED <<rd, mem, hasData, loopVars, queued, apiVars, cacheVars, data, scvmmVars>> /\ at = 1
      BY <1>2, <2>2 DEF GetVM
    <3>4. QED
      BY <1>1, <3>1, <3>2, <3>3, Values DEF Labels
  <2>3. QED
    BY <2>1, <2>2
<1>3. CASE CreateVM \/ SetVMProperties
  <2>1. vm' \in Vm
    BY <1>3, Values DEF CreateVM, SetVMProperties, Command, CommandFails, Vm, VmStates, NoVm
  <2>2. /\ UNCHANGED <<apiVars, cacheVars, data, share, purge, orphan, workVars, queued>> /\ pc' = "patch"
    BY <1>3 DEF CreateVM, SetVMProperties
  <2>3. QED
    BY <1>1, <2>1, <2>2 DEF Labels
<1>4. CASE Branch
  <2>1. CASE bad
    BY <1>1, <1>4, <2>1, ResetTyped DEF Branch, Return, Labels
  <2>2. CASE ~ bad
    <3>1. mem' = Recorded /\ UNCHANGED <<rd, hasData, got, loopVars, queued, apiVars, cacheVars, data, scvmmVars>>
      BY <1>4, <2>2 DEF Branch
    <3>2. pc' \in {"patch", "static", "wait", "write", "properties", "start", "info"}
      BY <1>4, <2>2 DEF Branch
    <3>3. QED
      BY <1>1, <3>1, <3>2, RecordedTyped DEF Labels
  <2>3. QED
    BY <2>1, <2>2
<1>5. CASE SetStaticAddresses
  <2>1. vm' \in Vm
    BY <1>5, BoundAssumption DEF SetStaticAddresses, Command, CommandFails, SetVMNetwork, Vm
  <2>2. mem' \in Networking
    <3>1. vm'.static \subseteq StaticDevices
      BY <2>1 DEF Vm
    <3>2. \A d \in Devices : mem[d].gateway \in Gateways
      BY DEF Networking
    <3>3. CASE mem' = [d \in Devices |->
                        [gateway |-> IF d \in vm'.static THEN GatewayOf[d] ELSE mem[d].gateway,
                         have |-> {d} \cap vm'.static]]
      BY <3>1, <3>2, <3>3, Values DEF Networking, Items
    <3>4. QED
      BY <1>5, <3>3 DEF SetStaticAddresses
  <2>3. /\ UNCHANGED <<apiVars, cacheVars, data, share, purge, orphan, rd, hasData, got, loopVars, queued>>
        /\ pc' = "patch"
    BY <1>5 DEF SetStaticAddresses
  <2>4. QED
    BY <1>1, <2>1, <2>2, <2>3 DEF Labels
<1>6. CASE CreateFile \/ FillFile
  <2>1. Addresses(mem) \subseteq Items
    BY DEF Addresses, Networking
  <2>2. share' \in {share, NoMedium, [whole |-> FALSE, addresses |-> {}],
                     [whole |-> TRUE, addresses |-> Addresses(mem)]}
    BY <1>6 DEF CreateFile, FillFile
  <2>3. pc' \in {"fill", "patch", "starting"}
        /\ UNCHANGED <<apiVars, cacheVars, data, vm, purge, orphan, workVars, queued>>
    BY <1>6 DEF CreateFile, FillFile
  <2>4. /\ [whole |-> FALSE, addresses |-> {}] \in Medium
        /\ [whole |-> TRUE, addresses |-> Addresses(mem)] \in Medium
    BY <2>1 DEF Medium
  <2>5. share' \in Medium \cup {NoMedium}
    BY <2>2, <2>4
  <2>6. QED
    BY <1>1, <2>3, <2>5 DEF Labels
<1>7. CASE SendAttach
  <2>1. vm' \in Vm /\ purge' \in BOOLEAN /\ orphan' \in BOOLEAN
    BY <1>7 DEF SendAttach, AttachMedium, Vm
  <2>2. pc' = "patch" /\ UNCHANGED <<apiVars, cacheVars, data, share, workVars, queued>>
    BY <1>7 DEF SendAttach
  <2>3. QED
    BY <1>1, <2>1, <2>2 DEF Labels
<1>8. CASE StartVM
  <2>1. vm' \in Vm
    BY <1>8 DEF StartVM, Command, CommandFails, Vm, VmStates
  <2>2. CASE Return(TRUE)
    BY <1>1, <1>8, <2>1, <2>2, ResetTyped DEF StartVM, Return, Labels
  <2>3. CASE ~ Return(TRUE)
    BY <1>1, <1>8, <2>1, <2>3 DEF StartVM, Labels
  <2>4. QED
    BY <2>2, <2>3
<1>9. CASE SendRemoveVM
  <2>1. vm' \in Vm
    BY <1>9 DEF SendRemoveVM, RemoveVM, Command, CommandFails, Vm, VmStates
  <2>2. CASE Return(TRUE)
    BY <1>1, <1>9, <2>1, <2>2, ResetTyped DEF SendRemoveVM, Return, Labels
  <2>3. CASE ~ Return(TRUE)
    BY <1>1, <1>9, <2>1, <2>3, Values DEF SendRemoveVM, Labels
  <2>4. QED
    BY <2>2, <2>3
<1>10. QED
  BY <1>2, <1>3, <1>4, <1>5, <1>6, <1>7, <1>8, <1>9

LEMMA TypedStep == Typed /\ [Next]_<<vars, scenario>> => Typed'
<1> SUFFICES ASSUME Typed, [Next]_<<vars, scenario>> PROVE Typed'
  OBVIOUS
<1>1. CASE UNCHANGED <<vars, scenario>>
  BY <1>1 DEF vars, apiVars, cacheVars, scvmmVars, workVars, loopVars, Typed, TypeOK, Fresh
<1>2. CASE Next
  BY <1>2, TypedEnvironment, TypedPatches, TypedRounds, TypedCommands DEF Next, Reconcile
<1>3. QED
  BY <1>1, <1>2

(* Every variable keeps its type; the rounds of reconcileIPAddressClaims   *)
(* and deleteIPAddressClaims end in time.                                  *)
THEOREM TypeCorrect == Spec => []TypeOK
<1>1. Init => Typed
  BY TypedInit
<1>2. Typed /\ [Next]_<<vars, scenario>> => Typed'
  BY TypedStep
<1>3. Typed => TypeOK
  BY DEF Typed
<1>4. QED
  BY <1>1, <1>2, <1>3, PTL DEF Spec

-----------------------------------------------------------------------------
(* A start with a whole medium.                                            *)

Complete(m) == m.whole /\ m.addresses = Items

(* What there is of a medium, on the share when it is about to be attached *)
(* and in the VM, is complete; what a reconcile writes into it it has all  *)
(* of; and a report shows the medium of the VM that is there.              *)
MediumInv ==
    Prompt =>
        /\ ~ orphan
        /\ vm.medium # NoMedium => Complete(vm.medium)
        /\ pc \in {"write", "fill", "starting", "attach"} => HasAllIPAddresses(mem)
        /\ pc \in {"starting", "attach"} /\ share # NoMedium => Complete(share)
        /\ pc = "create" => got.medium = NoMedium
        /\ pc = "start" => got.medium # NoMedium
        /\ vm.st # "none" /\ got.medium # NoMedium => vm.medium # NoMedium
        /\ vm.st \in {"running", "stopping"} => vm.medium # NoMedium

(* All addresses in place are those of all claims and static devices.      *)
LEMMA AllAddresses ==
  ASSUME NEW net \in Networking, HasAllIPAddresses(net)
  PROVE  Addresses(net) = Items
<1>1. ASSUME NEW i \in Items
      PROVE  \E d \in Devices : i \in Wanted(d)
  <2>1. CASE i \in Claims
    BY <2>1, Values DEF Wanted
  <2>2. CASE i \in StaticDevices
    BY <2>2, BoundAssumption DEF Wanted
  <2>3. QED
    BY <2>1, <2>2 DEF Items
<1>2. QED
  BY <1>1 DEF Addresses, HasAllIPAddresses, Networking

LEMMA MediumInit == Init => MediumInv
  BY DEF Init, Idle, MediumInv, NoVm

LEMMA MediumEnvironment ==
  ASSUME Typed, MediumInv, UNCHANGED scenario,
         \/ DeleteMachine \/ SetBootstrapData \/ SyncMachine
         \/ \E c \in Claims : SyncClaim(c) \/ Answer(c) \/ CollectGarbage(c)
         \/ VmTaskDone \/ RemoveFile \/ LateAttach \/ AdminActs \/ Crash
  PROVE  MediumInv'
<1> SUFFICES ASSUME Prompt, Prompt' PROVE MediumInv'
  BY DEF Prompt, MediumInv
<1> USE DEF MediumInv, workVars, loopVars, apiVars, cacheVars, scvmmVars
<1>1. CASE DeleteMachine \/ SetBootstrapData \/ SyncMachine
  BY <1>1 DEF DeleteMachine, SetBootstrapData, SyncMachine
<1>2. CASE \E c \in Claims : SyncClaim(c) \/ Answer(c) \/ CollectGarbage(c)
  BY <1>2 DEF SyncClaim, Answer, CollectGarbage
<1>3. CASE RemoveFile \/ LateAttach
  BY <1>3 DEF RemoveFile, LateAttach
<1>4. CASE VmTaskDone \/ AdminActs
  <2>1. UNCHANGED <<share, pc, workVars>> /\ ~ orphan'
    <3>1. ~ orphan
      OBVIOUS
    <3>2. VmTaskDone => ~ orphan'
      BY <3>1 DEF VmTaskDone
    <3>3. AdminActs => ~ orphan'
      BY <3>1 DEF AdminActs
    <3>4. QED
      BY <1>4, <3>2, <3>3 DEF VmTaskDone, AdminActs
  <2>2. vm' = NoVm \/ vm' = [vm EXCEPT !.st = "off"]
    BY <1>4 DEF VmTaskDone, AdminActs
  <2>3. vm.st # "none"
    BY <1>4 DEF VmTaskDone, AdminActs, Busy
  <2>4. QED
    BY <2>1, <2>2, <2>3 DEF NoVm, Typed, TypeOK, Vm
<1>5. CASE Crash
  BY <1>5 DEF Crash, Reset, NoVm
<1>6. QED
  BY <1>1, <1>2, <1>3, <1>4, <1>5

LEMMA MediumReconcile ==
  ASSUME Typed, MediumInv, UNCHANGED scenario, Reconcile
  PROVE  MediumInv'
<1> SUFFICES ASSUME Prompt, Prompt' PROVE MediumInv'
  BY DEF Prompt, MediumInv
<1> USE DEF MediumInv, workVars, loopVars, apiVars, cacheVars, scvmmVars, Goto
<1>1. CASE Begin
  BY <1>1 DEF Begin
<1>2. CASE PatchReason \/ GetVMInfo \/ RemoveFinalizer
  BY <1>2 DEF PatchReason, GetVMInfo, RemoveFinalizer, Return, Reset, NoVm
<1>3. CASE GetVM
  <2>1. UNCHANGED <<vm, share, orphan>>
    BY <1>3 DEF GetVM
  <2>2. CASE Return(TRUE)
    BY <2>1, <2>2 DEF Return, Reset, NoVm
  <2>3. CASE ~ Return(TRUE)
    <3>1. got' = Reported /\ pc' \in {"create", "branch", "claim"} /\ (pc' = "create" => vm.st = "none")
      BY <1>3, <2>3 DEF GetVM
    <3>2. got'.medium # NoMedium => vm.st # "none" /\ vm.medium # NoMedium
      BY <3>1 DEF Reported, NoVm, Typed, TypeOK, Vm
    <3>3. QED
      BY <2>1, <3>1, <3>2
  <2>4. QED
    BY <2>2, <2>3
<1>4. CASE CreateVM
  BY <1>4 DEF CreateVM, NoVm
<1>5. CASE ReconcileClaim
  BY <1>5 DEF ReconcileClaim, NextClaim
<1>6. CASE Branch
  <2>1. UNCHANGED <<apiVars, cacheVars, data, scvmmVars>>
    BY <1>6 DEF Branch
  <2>2. CASE bad
    BY <1>6, <2>1, <2>2 DEF Branch, Return, Reset, NoVm
  <2>3. CASE ~ bad
    <3>1. mem' = Recorded /\ UNCHANGED got
      BY <1>6, <2>3 DEF Branch
    <3>2. \/ pc' \in {"patch", "static", "wait", "properties", "info"}
          \/ pc' = "write" /\ HasAllIPAddresses(Recorded)
          \/ pc' = "start" /\ got.medium # NoMedium
      BY <1>6, <2>3 DEF Branch, NeedsCloudInit
    <3>3. QED
      BY <2>1, <3>1, <3>2 DEF HasAllIPAddresses
  <2>4. QED
    BY <2>2, <2>3
<1>7. CASE SetStaticAddresses \/ SetVMProperties
  <2>1. \/ vm' = vm
        \/ \E S \in SUBSET StaticDevices : vm' = [vm EXCEPT !.static = S]
        \/ vm' = [vm EXCEPT !.tagged = TRUE]
    BY <1>7, BoundAssumption DEF SetStaticAddresses, SetVMProperties, Command, CommandFails, SetVMNetwork, Typed,
       TypeOK, Vm
  <2>2. vm'.st = vm.st /\ vm'.medium = vm.medium
    BY <2>1 DEF Typed, TypeOK, Vm
  <2>3. UNCHANGED <<share, orphan, got>> /\ pc' = "patch"
    BY <1>7 DEF SetStaticAddresses, SetVMProperties
  <2>4. QED
    BY <2>2, <2>3
<1>8. CASE CreateFile
  BY <1>8 DEF CreateFile, HasAllIPAddresses
<1>9. CASE FillFile
  <2>1. Addresses(mem) = Items
    BY <1>9, AllAddresses DEF FillFile, Typed, TypeOK
  <2>2. pc' = "patch" \/ (pc' = "starting" /\ Complete(share'))
    BY <1>9, <2>1 DEF FillFile, Complete
  <2>3. UNCHANGED <<vm, orphan, workVars>> /\ HasAllIPAddresses(mem)
    BY <1>9 DEF FillFile
  <2>4. QED
    BY <2>2, <2>3 DEF HasAllIPAddresses
<1>10. CASE PatchStarting
  BY <1>10 DEF PatchStarting, HasAllIPAddresses, Return, Reset, NoVm
<1>11. CASE SendAttach
  <2>1. UNCHANGED <<share, got, orphan>> /\ pc' = "patch"
    BY <1>11 DEF SendAttach, May, Prompt
  <2>2. vm' = vm \/ (vm' = [vm EXCEPT !.medium = share] /\ share # NoMedium /\ Complete(share))
    BY <1>11 DEF SendAttach, AttachMedium
  <2>3. QED
    BY <2>1, <2>2 DEF Typed, TypeOK, Vm
<1>12. CASE StartVM
  BY <1>12 DEF StartVM, Command, CommandFails, Return, Reset, NoVm, Typed, TypeOK, Vm
<1>13. CASE SendRemoveVM
  BY <1>13 DEF SendRemoveVM, Command, CommandFails, RemoveVM, Return, Reset, NoVm, Typed, TypeOK, Vm
<1>14. CASE ReleaseClaim
  BY <1>14 DEF ReleaseClaim, Return, Reset, NoVm
<1>15. QED
  BY <1>1, <1>2, <1>3, <1>4, <1>5, <1>6, <1>7, <1>8, <1>9, <1>10, <1>11, <1>12, <1>13, <1>14 DEF Reconcile

LEMMA MediumStep == Typed /\ MediumInv /\ [Next]_<<vars, scenario>> => MediumInv'
<1> SUFFICES ASSUME Typed, MediumInv, [Next]_<<vars, scenario>> PROVE MediumInv'
  OBVIOUS
<1>1. CASE UNCHANGED <<vars, scenario>>
  BY <1>1 DEF vars, apiVars, cacheVars, scvmmVars, workVars, loopVars, MediumInv, Prompt, HasAllIPAddresses
<1>2. CASE Next
  BY <1>2, MediumEnvironment, MediumReconcile DEF Next
<1>3. QED
  BY <1>1, <1>2

(* While commands end when the controller learns of them, a medium on the  *)
(* share or in the VM is complete wherever it matters, since a reconcile   *)
(* writes one only once the machine has all its addresses                  *)
(* (hasAllIPAddresses, reconcileNormal, startVM).                          *)
THEOREM MediumAlways == Spec => [](Typed /\ MediumInv)
<1>1. Init => Typed /\ MediumInv
  BY TypedInit, MediumInit
<1>2. (Typed /\ MediumInv) /\ [Next]_<<vars, scenario>> => (Typed /\ MediumInv)'
  BY TypedStep, MediumStep
<1>3. QED
  BY <1>1, <1>2, PTL DEF Spec

(* Only StartVM makes a VM run that was off.                               *)
LEMMA OnlyStarts ==
  ASSUME Next, vm.st = "off", vm'.st = "running", Typed
  PROVE  pc = "start"
<1>1. CASE Reconcile
  <2>1. CreateVM \/ SetStaticAddresses \/ SendAttach \/ SetVMProperties \/ SendRemoveVM => vm'.st # "running"
    <3>1. \A T : [vm EXCEPT !.static = T].st = "off" /\ [vm EXCEPT !.medium = T].st = "off"
                 /\ [vm EXCEPT !.tagged = T].st = "off"
      BY DEF Typed, TypeOK, Vm
    <3>2. CreateVM \/ SetVMProperties \/ SetStaticAddresses => vm'.st # "running"
      BY <3>1 DEF CreateVM, SetVMProperties, SetStaticAddresses, SetVMNetwork, Command, CommandFails, NoVm
    <3>3. SendAttach \/ SendRemoveVM => vm'.st # "running"
      BY <3>1 DEF SendAttach, AttachMedium, SendRemoveVM, RemoveVM, Command, CommandFails, Typed, TypeOK, Vm
    <3>4. QED
      BY <3>2, <3>3
  <2>2. (\/ Begin \/ PatchReason \/ GetVM \/ ReconcileClaim \/ Branch \/ CreateFile \/ FillFile
         \/ PatchStarting \/ GetVMInfo \/ ReleaseClaim \/ RemoveFinalizer) => vm' = vm
    BY DEF Begin, PatchReason, GetVM, ReconcileClaim, Branch, CreateFile, FillFile, PatchStarting,
       GetVMInfo, ReleaseClaim, RemoveFinalizer, scvmmVars
  <2>3. StartVM => pc = "start"
    BY DEF StartVM
  <2>4. QED
    BY <1>1, <2>1, <2>2, <2>3 DEF Reconcile
<1>2. CASE ~ Reconcile
  BY <1>2 DEF Next, DeleteMachine, SetBootstrapData, SyncMachine, SyncClaim, Answer, CollectGarbage, VmTaskDone,
     RemoveFile, LateAttach, AttachMedium, AdminActs, Crash, scvmmVars, Typed, TypeOK, Vm, NoVm
<1>3. QED
  BY <1>1, <1>2

(* A VM starts only with a medium that was written to its end and holds    *)
(* every address of the machine, whatever failures and lagging caches came *)
(* between the reconciles that made it, as long as no command runs on      *)
(* after its call was given up (reconcileNormal, addCloudInitToVM).        *)
THEOREM StartsAlwaysWhole == Spec => StartsWhole
<1> DEFINE Start == Prompt /\ vm.st = "off" /\ vm'.st = "running" =>
                       vm.medium # NoMedium /\ vm.medium.whole /\ vm.medium.addresses = Items
<1>1. (Typed /\ MediumInv) /\ [Next]_<<vars, scenario>> => [Start]_vars
  <2> SUFFICES ASSUME Typed, MediumInv, Next, Prompt, vm.st = "off", vm'.st = "running"
               PROVE  vm.medium # NoMedium /\ vm.medium.whole /\ vm.medium.addresses = Items
    BY DEF vars
  <2>1. pc = "start"
    BY OnlyStarts
  <2>2. QED
    BY <2>1 DEF MediumInv, Complete
<1>2. QED
  BY <1>1, MediumAlways, PTL DEF Spec, StartsWhole

-----------------------------------------------------------------------------
(* The spec of a running VM, when reconciles begin with what is.           *)

(* SCVMM's devices get no gateway from the rounds over the claims.         *)
GateClaims == \A d \in StaticDevices : gate[d] = NoGateway

Beginning == {"get", "claim", "branch"}

(* Nobody else writes the networking while a reconcile is under way, and   *)
(* the medium is attached after the spec has what it holds.                *)
CopiesCurrent ==
    /\ pc \in Beginning => mem = rd.net
    /\ pc \in Beginning \cup {"create", "static", "write", "fill", "starting", "properties", "start",
                           "info", "wait"} => obj.net = rd.net
    /\ pc = "attach" => obj.net = mem

(* A VM with a medium has its static addresses, so that they are not set   *)
(* again.                                                                  *)
StaticFirst ==
    /\ pc \in {"claim", "branch"} /\ vm.st # "none" => got.static = vm.static
    /\ pc \in {"write", "fill", "starting", "attach"} /\ vm.st # "none" => vm.static = StaticDevices
    /\ pc \in {"create", "static"} => vm.medium = NoMedium
    /\ vm.medium # NoMedium => vm.static = StaticDevices

(* Once the VM has a medium every reconcile finds all claims answered, or  *)
(* ends in an error; what it patches is whole.                             *)
Told ==
    vm.medium # NoMedium =>
        /\ HasAllIPAddresses(obj.net)
        /\ pc \in Beginning => \A c \in Claims : cclaim[c].answered
        /\ pc = "claim" => bad \/ 1 .. at - 1 \subseteq seen
        /\ pc = "branch" => bad \/ Claims \subseteq seen
        /\ pc \notin Beginning \cup {"idle", "remove", "release", "unfinalize"} => HasAllIPAddresses(mem)

CalmInv == GateClaims /\ (Calm => CopiesCurrent /\ StaticFirst /\ Told)

(* All that a step of the proof rests on.                                  *)
Facts == Typed /\ BootInv /\ MediumInv /\ CalmInv

LEMMA CalmInit == Init => CalmInv
  BY BoundAssumption DEF Init, Idle, CalmInv, GateClaims, CopiesCurrent, StaticFirst, Told, Beginning, NoVm

(* Every claim of a VM with a medium is answered.                          *)
LEMMA MediumAnswered ==
  ASSUME BootInv, MediumInv, Prompt, vm.medium # NoMedium
  PROVE  Holding /\ \A c \in Claims : claim[c].answered
<1>1. Holding
  BY DEF BootInv, Releasing, NoVm
<1>2. Known(Items)
  BY <1>1 DEF Holding, MediumInv, Complete
<1>3. QED
  BY <1>1, <1>2 DEF Known, Items, Held

LEMMA CalmEnvironment ==
  ASSUME Facts, UNCHANGED scenario,
         \/ DeleteMachine \/ SetBootstrapData \/ SyncMachine
         \/ \E c \in Claims : SyncClaim(c) \/ Answer(c) \/ CollectGarbage(c)
         \/ VmTaskDone \/ RemoveFile \/ LateAttach \/ AdminActs \/ Crash
  PROVE  CalmInv'
<1> USE DEF Facts, workVars, loopVars, apiVars, cacheVars, scvmmVars
<1>1. GateClaims'
  <2>1. UNCHANGED gate \/ Reset
    BY DEF DeleteMachine, SetBootstrapData, SyncMachine, SyncClaim, Answer, CollectGarbage, VmTaskDone, RemoveFile,
       LateAttach, AdminActs, Crash
  <2>2. QED
    BY <2>1, BoundAssumption DEF Reset, GateClaims, CalmInv
<1> SUFFICES ASSUME Calm PROVE CopiesCurrent' /\ StaticFirst' /\ Told'
  BY <1>1 DEF CalmInv, Calm, Prompt
<1>2. Prompt /\ CopiesCurrent /\ StaticFirst /\ Told
  BY DEF CalmInv, Calm
<1> USE <1>2 DEF CopiesCurrent, StaticFirst, Told, HasAllIPAddresses
<1>3. CASE DeleteMachine \/ SetBootstrapData \/ SyncMachine
  <2>1. obj'.net = obj.net
    BY <1>3 DEF DeleteMachine, SetBootstrapData, SyncMachine, Typed, TypeOK, Machine
  <2>2. QED
    BY <1>3, <2>1 DEF DeleteMachine, SetBootstrapData, SyncMachine
<1>4. ASSUME NEW c \in Claims, SyncClaim(c) \/ Answer(c) \/ CollectGarbage(c)
      PROVE  CopiesCurrent' /\ StaticFirst' /\ Told'
  <2>1. UNCHANGED <<obj, vm, pc, workVars>>
    BY <1>4 DEF SyncClaim, Answer, CollectGarbage
  <2>2. cclaim' = cclaim \/ cclaim' = [cclaim EXCEPT ![c] = claim[c]]
    BY <1>4 DEF SyncClaim, Answer, CollectGarbage
  <2>3. vm.medium # NoMedium => claim[c].answered
    BY MediumAnswered
  <2>4. vm.medium # NoMedium /\ pc \in Beginning => \A b \in Claims : cclaim'[b].answered
    BY <2>2, <2>3 DEF Typed, TypeOK
  <2>5. QED
    BY <2>1, <2>4
<1>5. CASE RemoveFile \/ LateAttach
  BY <1>5 DEF RemoveFile, LateAttach, MediumInv
<1>6. CASE VmTaskDone \/ AdminActs
  <2>1. UNCHANGED <<obj, cclaim, pc, workVars>> /\ vm.st # "none"
    BY <1>6 DEF VmTaskDone, AdminActs, Busy
  <2>2. vm' = NoVm \/ vm' = [vm EXCEPT !.st = "off"]
    BY <1>6 DEF VmTaskDone, AdminActs
  <2>3. QED
    BY <2>1, <2>2 DEF NoVm, Typed, TypeOK, Vm
<1>7. CASE Crash
  BY <1>7 DEF Crash, Reset, Beginning
<1>8. QED
  BY <1>3, <1>4, <1>5, <1>6, <1>7

(* The addresses recorded for a VM with a medium are all there are.        *)
LEMMA RecordedWhole ==
  ASSUME Facts, Calm, pc = "branch", vm.medium # NoMedium, ~ bad
  PROVE  HasAllIPAddresses(Recorded)
<1>1. HasAllIPAddresses(mem) /\ Claims \subseteq seen
  BY DEF Facts, CalmInv, CopiesCurrent, Told, Beginning, HasAllIPAddresses
<1>2. ASSUME NEW d \in Devices
      PROVE  Recorded[d].gateway # NoGateway /\ Wanted(d) \subseteq Recorded[d].have
  <2>1. CASE gate[d] = NoGateway
    BY <1>1, <2>1 DEF Recorded, HasAllIPAddresses
  <2>2. CASE gate[d] # NoGateway
    <3>1. Wanted(d) \subseteq Claims
      BY <2>2 DEF Facts, CalmInv, GateClaims, Wanted
    <3>2. QED
      BY <1>1, <2>2, <3>1 DEF Recorded
  <2>3. QED
    BY <2>1, <2>2
<1>3. QED
  BY <1>2 DEF HasAllIPAddresses

LEMMA GatesReconcile ==
  ASSUME Facts, Reconcile
  PROVE  GateClaims'
<1>1. CASE ReconcileClaim
  <2>1. gate' = gate \/ gate' = [gate EXCEPT ![DeviceOf[at]] = GatewayOf[at]]
    BY <1>1 DEF ReconcileClaim
  <2>2. DeviceOf[at] \in Devices \ StaticDevices
    BY <1>1, Values DEF ReconcileClaim, Facts, Typed, TypeOK
  <2>3. QED
    BY <2>1, <2>2, BoundAssumption DEF Facts, CalmInv, GateClaims, Typed, TypeOK
<1>2. CASE ~ ReconcileClaim
  <2>1. UNCHANGED gate \/ Reset
    <3>1. CASE Begin \/ PatchReason \/ GetVM \/ CreateVM \/ Branch \/ SetStaticAddresses \/ CreateFile
      BY <3>1 DEF Begin, PatchReason, GetVM, CreateVM, Branch, SetStaticAddresses, CreateFile, Return,
         workVars, loopVars
    <3>2. CASE ~ (Begin \/ PatchReason \/ GetVM \/ CreateVM \/ Branch \/ SetStaticAddresses \/ CreateFile)
      BY <1>2, <3>2 DEF Reconcile, FillFile, PatchStarting, SendAttach, SetVMProperties, StartVM, GetVMInfo,
         SendRemoveVM, ReleaseClaim, RemoveFinalizer, Return, workVars, loopVars
    <3>3. QED
      BY <3>1, <3>2
  <2>2. QED
    BY <2>1, BoundAssumption DEF Reset, GateClaims, Facts, CalmInv
<1>3. QED
  BY <1>1, <1>2

LEMMA CalmReconcile ==
  ASSUME Facts, UNCHANGED scenario, Reconcile
  PROVE  CalmInv'
<1> SUFFICES ASSUME Calm PROVE CopiesCurrent' /\ StaticFirst' /\ Told'
  BY GatesReconcile DEF CalmInv, Calm, Prompt
<1> USE DEF workVars, loopVars, apiVars, cacheVars, scvmmVars, Goto, Facts
<1>1. Prompt /\ "stale" \notin scenario.kinds /\ CopiesCurrent /\ StaticFirst /\ Told
  BY DEF CalmInv, Calm
<1> USE <1>1 DEF CopiesCurrent, StaticFirst, Told, HasAllIPAddresses, Beginning
<1>2. CASE Begin
  <2>1. /\ UNCHANGED <<obj, claim, cclaim, vm>>
        /\ \/ pc' = pc /\ pc = "idle"
           \/ pc' \in {"get", "remove"} /\ rd' = cobj /\ mem' = cobj.net /\ cobj = obj /\ cclaim = claim
    BY <1>2 DEF Begin
  <2>2. vm.medium # NoMedium => \A c \in Claims : claim[c].answered
    BY MediumAnswered
  <2>3. QED
    BY <2>1, <2>2
<1>3. CASE PatchReason \/ GetVMInfo
  <2>1. /\ UNCHANGED vm /\ pc' = "idle"
        /\ obj'.net \in {obj.net, mem} /\ pc \in {"patch", "wait", "info"}
    BY <1>3 DEF PatchReason, GetVMInfo, Patch, PatchFails, Return, Reset, Typed, TypeOK, Machine
  <2>2. QED
    BY <2>1
<1>4. CASE GetVM
  <2>1. CASE Return(TRUE)
    BY <1>4, <2>1 DEF GetVM, Return, Reset
  <2>2. CASE ~ Return(TRUE)
    <3>1. UNCHANGED <<obj, cclaim, vm, rd, mem, bad, at, seen>> /\ got'.static = vm.static
      BY <1>4, <2>2 DEF GetVM, Reported, Typed, TypeOK, Vm, NoVm, BootInv, Shapes
    <3>2. /\ pc = "get" /\ pc' \in {"create", "claim", "branch"}
          /\ pc' = "create" => vm = NoVm
          /\ pc' = "branch" => NumClaims = 0
      BY <1>4, <2>2 DEF GetVM, BootInv, Shapes
    <3>3. pc' = "claim" => 1 .. at - 1 = {}
      BY <3>2 DEF Typed, Fresh
    <3>4. pc' = "branch" => Claims = {}
      BY <3>2 DEF Claims
    <3>5. QED
      BY <3>1, <3>2, <3>3, <3>4 DEF NoVm
  <2>3. QED
    BY <2>1, <2>2
<1>5. CASE CreateVM
  BY <1>5 DEF CreateVM, NoVm
<1>6. CASE ReconcileClaim
  <2>1. /\ UNCHANGED <<obj, cclaim, vm, rd, mem, got>> /\ at' = at + 1 /\ pc = "claim"
        /\ pc' = IF at = NumClaims THEN "branch" ELSE "claim"
    BY <1>6 DEF ReconcileClaim, NextClaim
  <2>2. at \in 1 .. NumClaims /\ NumClaims \in Nat
    BY <2>1, BoundAssumption DEF Typed, TypeOK, Claims
  <2>3. vm.medium # NoMedium => bad' \/ 1 .. at \subseteq seen'
    <3>1. SUFFICES ASSUME vm.medium # NoMedium, ~ bad' PROVE 1 .. at \subseteq seen'
      OBVIOUS
    <3>2. cclaim[at].answered /\ claim[at].st # "absent"
      BY <2>1, <2>2, <3>1, MediumAnswered DEF Holding, ClaimsHeld, Claims
    <3>3. seen' = seen \cup {at} /\ ~ bad
      BY <1>6, <3>1, <3>2 DEF ReconcileClaim
    <3>4. 1 .. at = (1 .. at - 1) \cup {at}
      BY <2>2
    <3>5. QED
      BY <2>1, <3>1, <3>3, <3>4
  <2>4. CASE at = NumClaims
    <3>1. pc' = "branch" /\ 1 .. at = Claims
      BY <2>1, <2>4 DEF Claims
    <3>2. QED
      BY <2>1, <2>3, <3>1
  <2>5. CASE at # NumClaims
    <3>1. pc' = "claim" /\ at' - 1 = at
      BY <2>1, <2>2, <2>5
    <3>2. QED
      BY <2>1, <2>3, <3>1
  <2>6. QED
    BY <2>4, <2>5
<1>7. CASE Branch
  <2>1. UNCHANGED <<obj, cclaim, vm>> /\ pc = "branch"
    BY <1>7 DEF Branch
  <2>2. CASE bad
    BY <1>7, <2>1, <2>2 DEF Branch, Return, Reset
  <2>3. CASE ~ bad
    <3>1. mem' = Recorded /\ UNCHANGED rd
      BY <1>7, <2>3 DEF Branch
    <3>2. /\ pc' \in {"patch", "static", "wait", "write", "properties", "start", "info"}
          /\ pc' = "static" => got.static # StaticDevices
          /\ pc' = "write" => got.static = StaticDevices
      BY <1>7, <2>3 DEF Branch, NeedsStaticAddresses
    <3>3. vm.medium # NoMedium => vm.st # "none"
      BY DEF BootInv, Shapes, NoVm
    <3>4. vm.medium # NoMedium => HasAllIPAddresses(Recorded)
      BY <2>1, <2>3, RecordedWhole
    <3>5. QED
      BY <2>1, <3>1, <3>2, <3>3, <3>4
  <2>4. QED
    BY <2>2, <2>3
<1>8. CASE SetStaticAddresses
  <2>1. vm'.medium = vm.medium /\ pc = "static" /\ pc' = "patch"
    BY <1>8 DEF SetStaticAddresses, SetVMNetwork, Command, CommandFails, Typed, TypeOK, Vm
  <2>2. QED
    BY <2>1
<1>9. CASE CreateFile \/ FillFile
  <2>1. UNCHANGED <<obj, cclaim, vm, workVars>> /\ pc \in {"write", "fill"}
        /\ pc' \in {"fill", "starting", "patch"}
    BY <1>9 DEF CreateFile, FillFile
  <2>2. QED
    BY <2>1
<1>10. CASE PatchStarting
  <2>1. CASE Return(TRUE)
    BY <1>10, <2>1 DEF PatchStarting, Patch, PatchFails, Return, Reset, Typed, TypeOK, Machine
  <2>2. CASE ~ Return(TRUE)
    <3>1. pc = "starting" /\ pc' = "attach" /\ UNCHANGED <<vm, mem, rd>> /\ obj'.net = mem
      BY <1>10, <2>2 DEF PatchStarting, Patch, Typed, TypeOK, Machine
    <3>2. HasAllIPAddresses(mem)
      BY <3>1 DEF MediumInv
    <3>3. QED
      BY <3>1, <3>2
  <2>3. QED
    BY <2>1, <2>2
<1>11. CASE SendAttach
  <2>1. UNCHANGED <<obj, workVars>> /\ pc = "attach" /\ pc' = "patch" /\ HasAllIPAddresses(mem)
    BY <1>11 DEF SendAttach, MediumInv
  <2>2. vm' = vm \/ (vm' = [vm EXCEPT !.medium = share] /\ vm.st # "none")
    BY <1>11 DEF SendAttach, AttachMedium
  <2>3. vm'.static = vm.static /\ vm'.st = vm.st
    BY <2>2 DEF Typed, TypeOK, Vm
  <2>4. QED
    BY <2>1, <2>2, <2>3
<1>12. CASE SetVMProperties
  <2>1. vm' = vm \/ vm' = [vm EXCEPT !.tagged = TRUE]
    BY <1>12 DEF SetVMProperties, Command, CommandFails
  <2>2. vm'.st = vm.st /\ vm'.medium = vm.medium /\ vm'.static = vm.static
    BY <2>1 DEF Typed, TypeOK, Vm
  <2>3. UNCHANGED <<obj, cclaim, workVars>> /\ pc = "properties" /\ pc' = "patch"
    BY <1>12 DEF SetVMProperties
  <2>4. QED
    BY <2>2, <2>3
<1>13. CASE StartVM
  <2>1. vm' = vm \/ vm' = [vm EXCEPT !.st = "running"]
    BY <1>13 DEF StartVM, Command, CommandFails
  <2>2. vm'.medium = vm.medium /\ vm'.static = vm.static
    BY <2>1 DEF Typed, TypeOK, Vm
  <2>3. UNCHANGED obj /\ pc = "start" /\ (pc' = "idle" \/ (pc' = "patch" /\ UNCHANGED mem))
    BY <1>13 DEF StartVM, Return, Reset
  <2>4. QED
    BY <2>2, <2>3
<1>14. CASE SendRemoveVM
  <2>1. vm' = vm \/ vm' = [vm EXCEPT !.st = "stopping"] \/ vm' = [vm EXCEPT !.st = "removing"]
    BY <1>14 DEF SendRemoveVM, RemoveVM, Command, CommandFails
  <2>2. vm'.medium = vm.medium /\ vm'.static = vm.static
    BY <2>1 DEF Typed, TypeOK, Vm
  <2>3. UNCHANGED obj /\ pc' \in {"idle", "release", "unfinalize"}
    BY <1>14 DEF SendRemoveVM, Return, Reset
  <2>4. QED
    BY <2>2, <2>3
<1>15. CASE ReleaseClaim \/ RemoveFinalizer
  <2>1. UNCHANGED vm /\ obj'.net = obj.net /\ pc' \in {"idle", "release", "unfinalize"}
    BY <1>15 DEF ReleaseClaim, RemoveFinalizer, Return, Reset, Typed, TypeOK, Machine
  <2>2. QED
    BY <2>1
<1>16. QED
  BY <1>2, <1>3, <1>4, <1>5, <1>6, <1>7, <1>8, <1>9, <1>10, <1>11, <1>12, <1>13, <1>14, <1>15 DEF Reconcile

LEMMA CalmStep == Facts /\ [Next]_<<vars, scenario>> => CalmInv'
<1> SUFFICES ASSUME Facts, [Next]_<<vars, scenario>> PROVE CalmInv'
  OBVIOUS
<1>1. CASE UNCHANGED <<vars, scenario>>
  BY <1>1 DEF Facts, vars, apiVars, cacheVars, scvmmVars, workVars, loopVars, CalmInv, GateClaims, Calm, Prompt,
     CopiesCurrent, StaticFirst, Told, HasAllIPAddresses
<1>2. CASE Next
  BY <1>2, CalmEnvironment, CalmReconcile DEF Next
<1>3. QED
  BY <1>1, <1>2

(* The addresses of a running VM can be read off the machine's spec, as    *)
(* long as reconciles begin with current copies and commands end with      *)
(* their calls: patches may fail, answers be lost, the controller restart  *)
(* and administrators stop and remove VMs (patchReasonCondition,           *)
(* setStaticAddresses).                                                    *)
THEOREM SpecAlwaysShowsAddresses == Spec => []SpecShowsAddresses
<1>1. Init => CalmInv
  BY CalmInit
<1>2. (Typed /\ MediumInv) /\ BootInv /\ CalmInv /\ [Next]_<<vars, scenario>> => CalmInv'
  BY CalmStep DEF Facts
<1>3. (Typed /\ MediumInv) /\ CalmInv => SpecShowsAddresses
  <2> SUFFICES ASSUME Typed, MediumInv, CalmInv, Calm, vm.st = "running"
               PROVE  HasAllIPAddresses(obj.net) /\ vm.medium.addresses = Addresses(obj.net)
    BY DEF SpecShowsAddresses
  <2>1. vm.medium # NoMedium /\ vm.medium.addresses = Items
    BY DEF MediumInv, Calm, Complete
  <2>2. HasAllIPAddresses(obj.net) /\ obj.net \in Networking
    BY <2>1 DEF CalmInv, Told, Typed, TypeOK, Machine
  <2>3. QED
    BY <2>1, <2>2, AllAddresses
<1>4. QED
  BY <1>1, <1>2, <1>3, MediumAlways, BootInvAlways, PTL DEF Spec

=============================================================================
