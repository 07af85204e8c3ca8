------------------------------ MODULE VmNaming ------------------------------
(***************************************************************************)
(* How the ScvmmMachine reconciler gives a machine a VM name and a VM.     *)
(*                                                                         *)
(* A machine without a name takes one from its ScvmmNamePool (an update of *)
(* the pool's status under optimistic concurrency), records the name in    *)
(* its own spec, creates a VM of that name in SCVMM, records the VM's id,  *)
(* starts the VM once it is the only one of its name, and on deletion      *)
(* removes the VM, gives the name back and drops its finalizer.            *)
(*                                                                         *)
(* The work queue never runs two reconciles of one machine at a time;      *)
(* reconciles of different machines interleave between any two calls they  *)
(* make to the API server or to SCVMM.  Reads go to the manager's cache,   *)
(* which may lag.  A call can fail, or take effect after the caller gave   *)
(* up on it, and the controller can crash between any two calls.           *)
(*                                                                         *)
(* Left out: disks, cloud-init, addresses and VM properties, which come    *)
(* between the creation of a VM and its start, and all conditions, events  *)
(* and backoff times; a delayed requeue is a queued key.                   *)
(***************************************************************************)
EXTENDS Naturals, Integers, Sequences, FiniteSets

CONSTANTS
    Machines,    \* the ScvmmMachine objects that may ever be created
    Pools,       \* the ScvmmNamePool objects
    Names,       \* VM names
    VmIds,       \* the ids SCVMM may hand out: the bound on VMs created
    Nobody,      \* no owner of a name
    NoPool,      \* spec.vmNameFromPool is nil
    NoName,      \* the empty vmName
    NoVm,        \* the empty id
    PoolOf,      \* machine -> its spec.vmNameFromPool, or NoPool
    NameOf,      \* machine -> its own object name, the VM name without a pool
    Presets,     \* machine -> the vmNames its user may give it, instead of the empty one
    Namespace,   \* machine or pool -> namespace
    RangeOf,     \* pool -> the candidate names in the order they are tried
    AdoptRange,  \* pool -> the names its ranges accept for adoption
    MaxLate,     \* bound on commands that outlive the call that sent them
    Faults       \* what may go wrong or come between, a subset of FaultKinds

(* "api": a call to the API server fails; "command": a WinRM command fails *)
(* or outlives its call; "crash": the controller restarts; "stale": the    *)
(* machine cache may lag at the start of a reconcile; "admin": somebody    *)
(* stops or removes a VM by hand; "event": an event of another object      *)
(* queues the machine at any time.                                         *)
FaultKinds == {"api", "command", "crash", "stale", "admin", "event"}

ASSUME NullAssumption ==
    /\ Nobody \notin Machines
    /\ NoPool \notin Pools
    /\ NoName \notin Names
    /\ NoVm \notin VmIds

ASSUME ConfigAssumption ==
    /\ PoolOf \in [Machines -> Pools \cup {NoPool}]
    /\ NameOf \in [Machines -> Names]
    /\ Presets \in [Machines -> SUBSET Names]
    /\ RangeOf \in [Pools -> Seq(Names)]
    /\ AdoptRange \in [Pools -> SUBSET Names]
    /\ \A m \in Machines : PoolOf[m] # NoPool => Namespace[m] = Namespace[PoolOf[m]]

ASSUME BoundAssumption ==
    /\ IsFiniteSet(Names)
    /\ MaxLate \in Nat
    /\ Faults \subseteq FaultKinds

VARIABLES
    obj,        \* the ScvmmMachine objects in the API server
    pool,       \* the status of each ScvmmNamePool in the API server
    cobj,       \* the cached copies of the machines
    cpool,      \* the cached copies of the pools
    poolFresh,  \* whether the cached pool has the current resourceVersion
    vm,         \* the virtual machines of SCVMM
    late,       \* commands still to take effect though their call has failed
    pc,         \* the next call of each machine's reconcile
    rd,         \* the copy of the machine the reconcile works on
    hold,       \* the copy of the pool the reconcile works on
    current,    \* whether that copy still has the pool's resourceVersion
    at,         \* the next candidate of the pool's ranges to look at
    pick,       \* the VM name the reconcile has settled on
    got,        \* the id of the VM it has created
    queued      \* whether the work queue holds the machine's key

apiVars == <<obj, pool>>
cacheVars == <<cobj, cpool, poolFresh>>
scvmmVars == <<vm, late>>
workVars == <<rd, hold, current, at, pick, got>>
vars == <<apiVars, cacheVars, scvmmVars, pc, workVars, queued>>

-----------------------------------------------------------------------------
(* The objects. *)

Phases == {"absent", "live", "deleting", "gone"}

Machine == [phase : Phases, fin : BOOLEAN,
            vmName : Names \cup {NoName}, id : VmIds \cup {NoVm}]

NamePool == [owner : [Names -> Machines \cup {Nobody}], used : Int]

(* A VM that SCVMM is starting counts as running. *)
VmStates == {"unused", "creating", "off", "running", "stopping", "removing", "removed"}

(* SCVMM is at work on the VM. *)
Busy(v) == vm[v].st \in {"creating", "stopping", "removing"}

Vm == [st : VmStates, name : Names \cup {NoName}]

Command == [op : {"create"}, name : Names \cup {NoName}] \cup [op : {"start", "remove"}, id : VmIds]

Labels == {"idle", "finalizer", "get", "gen", "scan", "claim", "sanity", "patchName",
           "create", "patchId", "check", "start", "remove", "release", "update",
           "unfinalize"}

PoolLabels == {"gen", "scan", "claim", "release", "update"}

NoMachine == [phase |-> "absent", fin |-> FALSE, vmName |-> NoName, id |-> NoVm]

EmptyPool == [owner |-> [n \in Names |-> Nobody], used |-> 0]

Present(o) == o.phase \in {"live", "deleting"}

Exists(v) == v \in VmIds /\ vm[v].st \notin {"unused", "removed"}

(* GetVMIDsByName. *)
VmsNamed(n) == {v \in VmIds : Exists(v) /\ vm[v].name = n}

(* Variant: the pool is not asked for a name already owned. *)
OwnNamesForgotten(m, owner) == {}

(* generateVMName looks for a name the machine already owns. *)
OwnNames(m, owner) == {n \in Names : owner[n] = m}

(* The cached machines of a pool's namespace that go by name n. *)
CachedHolders(p, n) ==
    {x \in Machines : Namespace[x] = Namespace[p] /\ Present(cobj[x]) /\ cobj[x].vmName = n}

(* Names that machines go by and the pool knows nothing of are entered in  *)
(* the copy of the pool; of two machines with the same name the first in   *)
(* the list gets it.                                                       *)
Adopted(p, owner, adopted) ==
    \A n \in Names :
        IF owner[n] = Nobody /\ n \in AdoptRange[p] /\ CachedHolders(p, n) # {}
        THEN adopted[n] \in CachedHolders(p, n)
        ELSE adopted[n] = owner[n]

(* The number of owned candidates, counted while generateVMName runs       *)
(* through the ranges.                                                     *)
CountUsed(p, owner) == Cardinality({i \in DOMAIN RangeOf[p] : owner[RangeOf[p][i]] # Nobody})

(* removeVMNameInPool keeps the entries of other machines that the cache   *)
(* still lists.                                                            *)
Seen(p, x) == x \in Machines /\ Namespace[x] = Namespace[p] /\ Present(cobj[x])

(* Variant: the machine's own entry is kept and the others are dropped.    *)
KeptOwnersInverted(p, m, owner) ==
    [n \in Names |-> IF owner[n] = m THEN owner[n] ELSE Nobody]

KeptOwners(p, m, owner) ==
    [n \in Names |-> IF Seen(p, owner[n]) /\ owner[n] # m THEN owner[n] ELSE Nobody]

KeptUsed(p, m, c) ==
    IF Seen(p, m) THEN c.used - Cardinality(OwnNames(m, c.owner)) ELSE c.used

(* Variant: an update of the pool without a resourceVersion. *)
CanUpdateAnyVersion(m) == TRUE

(* The API server takes a pool update only from a copy with the current    *)
(* resourceVersion.                                                        *)
CanUpdate(m) == current[m]

(* Variant: startVM does not count. *)
AnyNumberNamed(n) == TRUE

(* startVM goes ahead when at most one VM has the name.                    *)
AtMostOneNamed(n) == \A v, w \in VmsNamed(n) : v = w

-----------------------------------------------------------------------------
(* Steps of the environment. *)

Init ==
    /\ obj = [m \in Machines |-> NoMachine]
    /\ pool = [p \in Pools |-> EmptyPool]
    /\ cobj = [m \in Machines |-> NoMachine]
    /\ cpool = [p \in Pools |-> EmptyPool]
    /\ poolFresh = [p \in Pools |-> TRUE]
    /\ vm = [v \in VmIds |-> [st |-> "unused", name |-> NoName]]
    /\ late = {}
    /\ pc = [m \in Machines |-> "idle"]
    /\ rd = [m \in Machines |-> NoMachine]
    /\ hold = [m \in Machines |-> EmptyPool]
    /\ current = [m \in Machines |-> FALSE]
    /\ at = [m \in Machines |-> 1]
    /\ pick = [m \in Machines |-> NoName]
    /\ got = [m \in Machines |-> NoVm]
    /\ queued = [m \in Machines |-> FALSE]

(* A machine may come with a VM name of the user's choice, with or without *)
(* a pool.                                                                 *)
CreateMachine(m) ==
    /\ obj[m].phase = "absent"
    /\ \E n \in {NoName} \cup Presets[m] :
         obj' = [obj EXCEPT ![m].phase = "live", ![m].vmName = n]
    /\ UNCHANGED <<pool, cacheVars, scvmmVars, pc, workVars, queued>>

(* With a finalizer the object stays until the controller drops it.        *)
DeleteMachine(m) ==
    /\ obj[m].phase = "live"
    /\ obj' = [obj EXCEPT ![m].phase = IF obj[m].fin THEN "deleting" ELSE "gone"]
    /\ UNCHANGED <<pool, cacheVars, scvmmVars, pc, workVars, queued>>

(* Variant: a new VM name goes unnoticed. *)
GenerationChangedButName(a, b) == a.phase # b.phase \/ a.id # b.id

(* The generation covers the spec and the deletion timestamp, not the      *)
(* finalizers: ownerOrGenerationChangedPredicate lets only those through.  *)
GenerationChanged(a, b) ==
    a.phase # b.phase \/ a.vmName # b.vmName \/ a.id # b.id

(* The watch brings the cached copy up to date.                            *)
SyncMachine(m) ==
    /\ cobj[m] # obj[m]
    /\ cobj' = [cobj EXCEPT ![m] = obj[m]]
    /\ queued' = [queued EXCEPT ![m] = @ \/ GenerationChanged(cobj[m], obj[m])]
    /\ UNCHANGED <<apiVars, cpool, poolFresh, scvmmVars, pc, workVars>>

SyncPool(p) ==
    /\ ~ poolFresh[p]
    /\ cpool' = [cpool EXCEPT ![p] = pool[p]]
    /\ poolFresh' = [poolFresh EXCEPT ![p] = TRUE]
    /\ UNCHANGED <<apiVars, cobj, scvmmVars, pc, workVars, queued>>

(* An event of the owner Machine, the Cluster or an IPAddressClaim queues  *)
(* the machine.                                                            *)
Nudge(m) ==
    /\ "event" \in Faults /\ Present(cobj[m]) /\ ~ queued[m]
    /\ queued' = [queued EXCEPT ![m] = TRUE]
    /\ UNCHANGED <<apiVars, cacheVars, scvmmVars, pc, workVars>>

(* SCVMM finishes creating, stopping or removing a VM.                     *)
VmTaskDone(v) ==
    /\ Busy(v)
    /\ vm' = [vm EXCEPT ![v].st = IF @ = "removing" THEN "removed" ELSE "off"]
    /\ UNCHANGED <<apiVars, cacheVars, late, pc, workVars, queued>>

AdminStops(v) ==
    /\ "admin" \in Faults /\ vm[v].st = "running"
    /\ vm' = [vm EXCEPT ![v].st = "off"]
    /\ UNCHANGED <<apiVars, cacheVars, late, pc, workVars, queued>>

AdminRemoves(v) ==
    /\ "admin" \in Faults /\ vm[v].st = "off"
    /\ vm' = [vm EXCEPT ![v].st = "removed"]
    /\ UNCHANGED <<apiVars, cacheVars, late, pc, workVars, queued>>

(* The controller dies and starts again: every reconcile is cut off, the   *)
(* caches are listed anew and every machine listed is queued.              *)
Crash ==
    /\ "crash" \in Faults
    /\ \E m \in Machines : pc[m] # "idle"
    /\ cobj' = obj /\ cpool' = pool
    /\ poolFresh' = [p \in Pools |-> TRUE]
    /\ pc' = [m \in Machines |-> "idle"]
    /\ rd' = [m \in Machines |-> NoMachine]
    /\ hold' = [m \in Machines |-> EmptyPool]
    /\ current' = [m \in Machines |-> FALSE]
    /\ at' = [m \in Machines |-> 1]
    /\ pick' = [m \in Machines |-> NoName]
    /\ got' = [m \in Machines |-> NoVm]
    /\ queued' = [m \in Machines |-> Present(obj[m])]
    /\ UNCHANGED <<apiVars, scvmmVars>>

-----------------------------------------------------------------------------
(* What the scripts do to SCVMM. *)

CreateVM(v, n) ==
    /\ vm[v].st = "unused"
    /\ vm' = [vm EXCEPT ![v] = [st |-> "creating", name |-> n]]

StartVM(v) ==
    vm' = IF vm[v].st = "off" THEN [vm EXCEPT ![v].st = "running"] ELSE vm

(* A running VM is stopped, any other is removed; while SCVMM is at work   *)
(* on it nothing happens.                                                  *)
RemoveVM(v) ==
    vm' = CASE vm[v].st = "running" -> [vm EXCEPT ![v].st = "stopping"]
            [] vm[v].st = "off" -> [vm EXCEPT ![v].st = "removing"]
            [] OTHER -> vm

(* A command whose call has failed takes effect after all.                 *)
LateCommand(c) ==
    /\ late' = late \ {c}
    /\ \/ c.op = "create" /\ \E v \in VmIds : CreateVM(v, c.name)
       \/ c.op = "start" /\ StartVM(c.id)
       \/ c.op = "remove" /\ RemoveVM(c.id)
    /\ UNCHANGED <<apiVars, cacheVars, pc, workVars, queued>>

(* The call fails, and its command is lost or still to be carried out.     *)
CommandFails(cs) ==
    /\ "command" \in Faults
    /\ late' \in {late} \cup {late \cup {c} : c \in {d \in cs : Cardinality(late) < MaxLate}}
    /\ UNCHANGED vm

-----------------------------------------------------------------------------
(* The reconcile of one machine. *)

(* Reconcile returns; the key is queued again when it asked for that, or   *)
(* when an event came in meanwhile.                                        *)
Return(m, again) ==
    /\ pc' = [pc EXCEPT ![m] = "idle"]
    /\ rd' = [rd EXCEPT ![m] = NoMachine]
    /\ hold' = [hold EXCEPT ![m] = EmptyPool]
    /\ at' = [at EXCEPT ![m] = 1]
    /\ pick' = [pick EXCEPT ![m] = NoName]
    /\ got' = [got EXCEPT ![m] = NoVm]
    /\ queued' = [queued EXCEPT ![m] = @ \/ again]

(* The copy of the pool is dropped without an update. *)
Discard(m) == current' = [current EXCEPT ![m] = FALSE]

Goto(m, label) == pc' = [pc EXCEPT ![m] = label]

(* Reconcile: read the machine from the cache and take the branch for it.  *)
Begin(m) ==
    /\ pc[m] = "idle" /\ queued[m]
    /\ "stale" \in Faults \/ cobj[m] = obj[m]
    /\ queued' = [queued EXCEPT ![m] = FALSE]
    /\ \/ /\ \/ ~ Present(cobj[m])
             \/ cobj[m].phase = "deleting" /\ ~ cobj[m].fin
          /\ UNCHANGED <<pc, rd>>
       \/ /\ Present(cobj[m])
          /\ cobj[m].phase = "deleting" => cobj[m].fin
          /\ rd' = [rd EXCEPT ![m] = cobj[m]]
          /\ Goto(m, CASE cobj[m].phase = "live" /\ ~ cobj[m].fin -> "finalizer"
                       [] cobj[m].phase = "live" /\ cobj[m].fin -> "get"
                       [] cobj[m].phase = "deleting" /\ cobj[m].vmName = NoName
                             /\ cobj[m].id = NoVm -> "unfinalize"
                       [] OTHER -> "remove")
    /\ UNCHANGED <<apiVars, cacheVars, scvmmVars, hold, current, at, pick, got>>

(* A patch of the machine, which needs no particular resourceVersion, and  *)
(* its failure.                                                            *)
Patch(m, new) ==
    /\ Present(obj[m])
    /\ obj' = [obj EXCEPT ![m] = new]
    /\ UNCHANGED pool

PatchFails(m) ==
    /\ ~ Present(obj[m]) \/ "api" \in Faults
    /\ UNCHANGED apiVars

(* Variant: the reconcile goes on although the patch has failed. *)
AddFinalizerAnyway(m) ==
    /\ pc[m] = "finalizer"
    /\ Patch(m, [obj[m] EXCEPT !.fin = TRUE]) \/ PatchFails(m)
    /\ Goto(m, "get")
    /\ UNCHANGED <<cacheVars, scvmmVars, rd, hold, current, at, pick, got, queued>>

AddFinalizer(m) ==
    /\ pc[m] = "finalizer"
    /\ \/ /\ Patch(m, [obj[m] EXCEPT !.fin = TRUE])
          /\ Goto(m, "get")
          /\ UNCHANGED <<rd, hold, at, pick, got, queued>>
       \/ PatchFails(m) /\ Return(m, TRUE)
    /\ UNCHANGED <<cacheVars, scvmmVars, current>>

(* The start of createVM: the name is in the spec, is to come from the     *)
(* pool, or is the machine's own.                                          *)
NeedsVm(m) ==
    \/ /\ rd[m].vmName # NoName
       /\ pick' = [pick EXCEPT ![m] = rd[m].vmName]
       /\ Goto(m, "create")
    \/ /\ rd[m].vmName = NoName /\ PoolOf[m] = NoPool
       /\ pick' = [pick EXCEPT ![m] = NameOf[m]]
       /\ Goto(m, "create")
    \/ /\ rd[m].vmName = NoName /\ PoolOf[m] # NoPool
       /\ Goto(m, "gen")
       /\ UNCHANGED pick

(* getVM, then the branches of reconcileNormal on what it found.  A        *)
(* running VM may still have to report its addresses.                      *)
GetVM(m) ==
    /\ pc[m] = "get"
    /\ \/ /\ ~ Exists(rd[m].id)
          /\ NeedsVm(m)
          /\ UNCHANGED <<rd, hold, at, got, queued>>
       \/ Exists(rd[m].id) /\ Busy(rd[m].id) /\ Return(m, TRUE)
       \/ /\ Exists(rd[m].id) /\ vm[rd[m].id].st = "running"
          /\ \E again \in BOOLEAN : Return(m, again)
       \/ /\ Exists(rd[m].id) /\ vm[rd[m].id].st = "off"
          /\ Goto(m, "check")
          /\ UNCHANGED <<rd, hold, at, pick, got, queued>>
       \/ rd[m].id # NoVm /\ "command" \in Faults /\ Return(m, TRUE)
    /\ UNCHANGED <<apiVars, cacheVars, scvmmVars, current>>

(* generateVMName: read the pool, return a name already owned, or read the *)
(* machines and adopt the names they go by.                                *)
ReadPool(m) ==
    /\ pc[m] = "gen"
    /\ LET p == PoolOf[m]
           owner == cpool[p].owner
       IN \/ /\ \E n \in OwnNames(m, owner) : pick' = [pick EXCEPT ![m] = n]
             /\ Goto(m, "sanity")
             /\ UNCHANGED <<hold, current>>
          \/ /\ OwnNames(m, owner) = {}
             /\ \E adopted \in [Names -> Machines \cup {Nobody}] :
                  /\ Adopted(p, owner, adopted)
                  /\ hold' = [hold EXCEPT ![m].owner = adopted]
             /\ current' = [current EXCEPT ![m] = poolFresh[p]]
             /\ Goto(m, "scan")
             /\ UNCHANGED pick
    /\ UNCHANGED <<apiVars, cacheVars, scvmmVars, rd, at, got, queued>>

(* The next candidate nobody owns is taken unless SCVMM has a VM of that   *)
(* name; the counts follow when the ranges are done.                       *)
ScanPool(m) ==
    /\ pc[m] = "scan"
    /\ LET r == RangeOf[PoolOf[m]]
           Free(i) == hold[m].owner[r[i]] = Nobody
           Counted(owner) == [owner |-> owner, used |-> CountUsed(PoolOf[m], owner)]
       IN \/ \E i \in DOMAIN r :
               /\ i >= at[m] /\ Free(i)
               /\ \A j \in DOMAIN r : at[m] <= j /\ j < i => ~ Free(j)
               /\ \/ /\ VmsNamed(r[i]) # {}
                     /\ at' = [at EXCEPT ![m] = i + 1]
                     /\ UNCHANGED <<pc, hold, pick>>
                  \/ /\ VmsNamed(r[i]) = {}
                     /\ pick' = [pick EXCEPT ![m] = r[i]]
                     /\ hold' = [hold EXCEPT ![m] = Counted([@.owner EXCEPT ![r[i]] = m])]
                     /\ Goto(m, "claim")
                     /\ UNCHANGED at
               /\ UNCHANGED <<rd, current, got, queued>>
          \/ /\ \A i \in DOMAIN r : i >= at[m] => ~ Free(i)
             /\ hold' = [hold EXCEPT ![m] = Counted(@.owner)]
             /\ Goto(m, "claim")
             /\ UNCHANGED <<rd, current, at, pick, got, queued>>
          \/ "command" \in Faults /\ Return(m, TRUE) /\ Discard(m)
    /\ UNCHANGED <<apiVars, cacheVars, scvmmVars>>

(* The update of a pool's status makes every other copy of it outdated.    *)
UpdatePool(m) ==
    LET p == PoolOf[m]
    IN /\ CanUpdate(m)
       /\ pool' = [pool EXCEPT ![p] = hold[m]]
       /\ poolFresh' = [poolFresh EXCEPT ![p] = FALSE]
       /\ current' = [x \in Machines |-> current[x] /\ PoolOf[x] # p]
       /\ UNCHANGED <<obj, cobj, cpool>>

UpdateFails(m) ==
    /\ ~ CanUpdate(m) \/ "api" \in Faults
    /\ Discard(m)
    /\ UNCHANGED <<apiVars, cacheVars>>

ClaimName(m) ==
    /\ pc[m] = "claim"
    /\ \/ /\ UpdatePool(m) /\ pick[m] # NoName
          /\ Goto(m, "sanity")
          /\ UNCHANGED <<rd, hold, at, pick, got, queued>>
       \/ UpdatePool(m) /\ (pick[m] = NoName \/ "api" \in Faults) /\ Return(m, TRUE)
       \/ UpdateFails(m) /\ Return(m, TRUE)
    /\ UNCHANGED scvmmVars

(* createVM looks again before it uses a name of the pool.  A name in use  *)
(* ends the reconcile without a requeue.                                   *)
SanityCheck(m) ==
    /\ pc[m] = "sanity"
    /\ \/ /\ VmsNamed(pick[m]) = {}
          /\ Goto(m, "patchName")
          /\ UNCHANGED <<rd, hold, at, pick, got, queued>>
       \/ VmsNamed(pick[m]) # {} /\ Return(m, FALSE)
       \/ "command" \in Faults /\ Return(m, TRUE)
    /\ UNCHANGED <<apiVars, cacheVars, scvmmVars, current>>

(* A failure of this patch is logged and forgotten.                        *)
PatchName(m) ==
    /\ pc[m] = "patchName"
    /\ Patch(m, [obj[m] EXCEPT !.vmName = pick[m]]) \/ PatchFails(m)
    /\ Return(m, FALSE)
    /\ UNCHANGED <<cacheVars, scvmmVars, current>>

SendCreateVM(m) ==
    /\ pc[m] = "create"
    /\ \/ /\ \E v \in VmIds : CreateVM(v, pick[m]) /\ got' = [got EXCEPT ![m] = v]
          /\ Goto(m, "patchId")
          /\ UNCHANGED <<late, rd, hold, at, pick, queued>>
       \/ /\ CommandFails({[op |-> "create", name |-> pick[m]]})
          /\ Return(m, TRUE)
    /\ UNCHANGED <<apiVars, cacheVars, current>>

(* Variants: the patch leaves the name out; it leaves the id out. *)
WithVmOnly(m) == [obj[m] EXCEPT !.id = got[m]]

WithNameOnly(m) == [obj[m] EXCEPT !.vmName = pick[m]]

(* The patch carries the fields that differ from the copy that was read.   *)
WithVm(m) ==
    [obj[m] EXCEPT !.id = got[m],
                   !.vmName = IF rd[m].vmName # pick[m] THEN pick[m] ELSE @]

PatchId(m) ==
    /\ pc[m] = "patchId"
    /\ Patch(m, WithVm(m)) \/ PatchFails(m)
    /\ Return(m, TRUE)
    /\ UNCHANGED <<cacheVars, scvmmVars, current>>

(* startVM counts the VMs of the machine's name.                           *)
CheckName(m) ==
    /\ pc[m] = "check"
    /\ \/ /\ AtMostOneNamed(rd[m].vmName)
          /\ Goto(m, "start")
          /\ UNCHANGED <<rd, hold, at, pick, got, queued>>
       \/ ~ AtMostOneNamed(rd[m].vmName) /\ Return(m, FALSE)
       \/ "command" \in Faults /\ Return(m, TRUE)
    /\ UNCHANGED <<apiVars, cacheVars, scvmmVars, current>>

SendStartVM(m) ==
    /\ pc[m] = "start"
    /\ \/ StartVM(rd[m].id) /\ UNCHANGED late
       \/ CommandFails({[op |-> "start", id |-> rd[m].id]})
    /\ Return(m, TRUE)
    /\ UNCHANGED <<apiVars, cacheVars, current>>

(* Variant: the machine does not come back to see what became of its VM. *)
RemovalOnce(m) ==
    Exists(rd[m].id) /\ RemoveVM(rd[m].id) /\ UNCHANGED late /\ Return(m, FALSE)

(* RemoveVM sets the VM going and the machine comes back later.            *)
Removal(m) ==
    Exists(rd[m].id) /\ RemoveVM(rd[m].id) /\ UNCHANGED late /\ Return(m, TRUE)

(* reconcileDelete: the condition is patched first, which may fail.        *)
(* RemoveVM answers "Removed" when there is no such VM, or no id to look   *)
(* for.                                                                    *)
SendRemoveVM(m) ==
    /\ pc[m] = "remove"
    /\ \/ /\ ~ Exists(rd[m].id)
          /\ Goto(m, IF PoolOf[m] # NoPool THEN "release" ELSE "unfinalize")
          /\ UNCHANGED <<scvmmVars, rd, hold, at, pick, got, queued>>
       \/ Removal(m)
       \/ /\ CommandFails({[op |-> "remove", id |-> v] : v \in {rd[m].id} \ {NoVm}})
          /\ Return(m, TRUE)
       \/ "api" \in Faults /\ Return(m, TRUE) /\ UNCHANGED scvmmVars
    /\ UNCHANGED <<apiVars, cacheVars, current>>

(* removeVMNameInPool: drop the machine's names, and those of machines     *)
(* that the cache no longer lists.                                         *)
ReadRelease(m) ==
    /\ pc[m] = "release"
    /\ LET p == PoolOf[m]
           c == cpool[p]
       IN /\ hold' = [hold EXCEPT ![m] = [owner |-> KeptOwners(p, m, c.owner),
                                          used |-> KeptUsed(p, m, c)]]
          /\ current' = [current EXCEPT ![m] = poolFresh[p]]
    /\ Goto(m, "update")
    /\ UNCHANGED <<apiVars, cacheVars, scvmmVars, rd, at, pick, got, queued>>

ReleaseName(m) ==
    /\ pc[m] = "update"
    /\ \/ /\ UpdatePool(m)
          /\ Goto(m, "unfinalize")
          /\ UNCHANGED <<rd, hold, at, pick, got, queued>>
       \/ UpdatePool(m) /\ "api" \in Faults /\ Return(m, TRUE)
       \/ UpdateFails(m) /\ Return(m, TRUE)
    /\ UNCHANGED scvmmVars

(* Without its finalizer a machine that is being deleted is gone.          *)
RemoveFinalizer(m) ==
    /\ pc[m] = "unfinalize"
    /\ \/ /\ Patch(m, [obj[m] EXCEPT !.fin = FALSE,
                                     !.phase = IF @ = "deleting" THEN "gone" ELSE @])
          /\ Return(m, FALSE)
       \/ PatchFails(m) /\ Return(m, TRUE)
    /\ UNCHANGED <<cacheVars, scvmmVars, current>>

Reconcile(m) ==
    \/ Begin(m) \/ AddFinalizer(m) \/ GetVM(m)
    \/ ReadPool(m) \/ ScanPool(m) \/ ClaimName(m) \/ SanityCheck(m) \/ PatchName(m)
    \/ SendCreateVM(m) \/ PatchId(m) \/ CheckName(m) \/ SendStartVM(m)
    \/ SendRemoveVM(m) \/ ReadRelease(m) \/ ReleaseName(m) \/ RemoveFinalizer(m)

Next ==
    \/ \E m \in Machines :
         Reconcile(m) \/ CreateMachine(m) \/ DeleteMachine(m) \/ SyncMachine(m) \/ Nudge(m)
    \/ \E p \in Pools : SyncPool(p)
    \/ \E v \in VmIds : VmTaskDone(v) \/ AdminStops(v) \/ AdminRemoves(v)
    \/ \E c \in late : LateCommand(c)
    \/ Crash

Spec == Init /\ [][Next]_vars

-----------------------------------------------------------------------------
(* Properties. *)

ApiTypeOK == obj \in [Machines -> Machine] /\ pool \in [Pools -> NamePool]

CacheTypeOK ==
    /\ cobj \in [Machines -> Machine] /\ cpool \in [Pools -> NamePool]
    /\ poolFresh \in [Pools -> BOOLEAN]

ScvmmTypeOK == vm \in [VmIds -> Vm] /\ late \subseteq Command

WorkTypeOK ==
    /\ pc \in [Machines -> Labels] /\ queued \in [Machines -> BOOLEAN]
    /\ rd \in [Machines -> Machine]
    /\ hold \in [Machines -> NamePool] /\ current \in [Machines -> BOOLEAN]
    /\ at \in [Machines -> Nat] /\ pick \in [Machines -> Names \cup {NoName}]
    /\ got \in [Machines -> VmIds \cup {NoVm}]
    /\ \A m \in Machines :
         /\ pc[m] \in PoolLabels => PoolOf[m] \in Pools
         /\ pc[m] \in {"check", "start"} => rd[m].id \in VmIds

(* Every variable keeps its type, the name a pool holds for a machine and  *)
(* the copies of both included.                                            *)
TypeOK == ApiTypeOK /\ CacheTypeOK /\ ScvmmTypeOK /\ WorkTypeOK

(* Two VMs of the same name never run at the same time, although names are *)
(* checked by one call and the VM is started by another, and two machines  *)
(* may come by the same name or one machine by two VMs (startVM).          *)
IsUp(v) == vm[v].st \in {"running", "stopping"}

OneRunningPerName ==
    \A v, w \in VmIds : IsUp(v) /\ IsUp(w) /\ vm[v].name = vm[w].name => v = w

(* The pool keeps the name of every machine that has it from there and is  *)
(* not being deleted, so that no other machine is given it                 *)
(* (generateVMName, removeVMNameInPool).                                   *)
ClaimHeld ==
    \A m \in Machines :
        obj[m].phase = "live" /\ PoolOf[m] # NoPool /\ Presets[m] = {} /\ obj[m].vmName # NoName
            => pool[PoolOf[m]].owner[obj[m].vmName] = m

(* Once a pool has given a machine a name, the machine does not go without *)
(* reconcileDelete, which gives the name back: it has the finalizer,       *)
(* although finalizer and claim are two writes, and the copy that asks for *)
(* the first may lag (Reconcile, generateVMName).                          *)
NameComesBack ==
    \A m \in Machines :
        /\ obj[m].phase = "live" /\ PoolOf[m] # NoPool /\ Presets[m] = {}
        /\ \E n \in Names : pool[PoolOf[m]].owner[n] = m
        => obj[m].fin

(* A machine never owns two names of a pool, however often it fails        *)
(* between its claim and recording the name (generateVMName).              *)
OneNamePerMachine ==
    \A p \in Pools : \A n1, n2 \in Names :
        pool[p].owner[n1] = pool[p].owner[n2] /\ pool[p].owner[n1] # Nobody => n1 = n2

(* The name in a machine's spec never changes once it is set, although the *)
(* patches that write it carry no resourceVersion (createVM).              *)
VmNameStable ==
    [][\A m \in Machines : obj[m].vmName # NoName => obj'[m].vmName = obj[m].vmName]_vars

(* The VM a machine records bears the machine's name: what startVM counts  *)
(* and what it starts belong together (createVM, startVM).                 *)
RecordedVmHasName ==
    \A m \in Machines : obj[m].id # NoVm => vm[obj[m].id].name = obj[m].vmName

(* Every VM is recorded by a machine that still exists, or about to be:    *)
(* none is left behind (createVM, reconcileDelete).                        *)
NoVmLeftBehind ==
    \A v \in VmIds : Exists(v) =>
        \E m \in Machines : Present(obj[m]) /\ v \in {obj[m].id, got[m]}

(* A VM is never created under a name that a VM has already (createVM).    *)
NoCreateOverExistingName ==
    [][\A v \in VmIds : vm[v].st = "unused" /\ vm'[v].st = "creating"
            => VmsNamed(vm'[v].name) = {}]_vars

(* The used count of a pool is the number of candidates that have an owner *)
(* (generateVMName, removeVMNameInPool).                                   *)
UsedCountMatches == \A p \in Pools : pool[p].used = CountUsed(p, pool[p].owner)

(* What the pools promise, and that the reconcilers keep it.               *)
Allocator == INSTANCE NameAllocator WITH
    owner <- [p \in Pools |-> pool[p].owner],
    active <- {m \in Machines : obj[m].phase = "live"},
    left <- {m \in Machines : obj[m].phase \in {"deleting", "gone"}}

AllocatorSpec == Allocator!Spec

(* Fairness: the work queue runs every queued key, the watches deliver,    *)
(* SCVMM finishes its tasks and carries out what it was sent.              *)
Fairness ==
    /\ \A m \in Machines : WF_vars(Reconcile(m)) /\ WF_vars(SyncMachine(m))
    /\ \A p \in Pools : WF_vars(SyncPool(p))
    /\ \A v \in VmIds : WF_vars(VmTaskDone(v))

FairSpec == Spec /\ Fairness

(* A machine that is being deleted goes away (reconcileDelete).            *)
DeletionCompletes ==
    \A m \in Machines : obj[m].phase = "deleting" ~> obj[m].phase = "gone"

(* A machine gets its VM running unless it is deleted: every reconcile     *)
(* that stops short is followed by another (reconcileNormal, createVM).    *)
MachineStarts ==
    \A m \in Machines :
        obj[m].phase = "live" ~> \/ obj[m].phase # "live"
                                \/ \E v \in VmIds : v = obj[m].id /\ vm[v].st = "running"

=============================================================================
