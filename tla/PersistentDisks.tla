--------------------------- MODULE PersistentDisks ---------------------------
(***************************************************************************)
(* Persistent disks: VHDX files that outlive the VM they are attached to.  *)
(*                                                                         *)
(* A machine claims a free ScvmmPersistentDisk of a pool for each slot of  *)
(* its spec (an owner reference, written under optimistic concurrency, or  *)
(* a new object), records it in its own spec, has SCVMM attach the file to *)
(* its VM and starts the VM.  On deletion it has the files detached, gives *)
(* the disks back and removes the VM, and every file still attached goes   *)
(* with it.  The ScvmmPersistentDisk reconciler removes the file of a disk *)
(* that is deleted, and Kubernetes collects owner references of machines   *)
(* that are gone.                                                          *)
(*                                                                         *)
(* One pool, whose disks are numbered; a VM's LUN is the machine's slot.   *)
(* A copy of a disk that is written at once is read and written in one     *)
(* step: an update that comes between is one the cache did not yet show.   *)
(* Left out: other disks, sizes, names (VmNaming), media and addresses.    *)
(***************************************************************************)
EXTENDS Naturals, FiniteSets

CONSTANTS
    Machines,    \* the ScvmmMachine objects that may ever be created
    NumSlots,    \* the persistent disks of each machine's spec
    MaxDisks,    \* spec.maxDisks of the pool
    VmIds,       \* the ids SCVMM may hand out: the bound on VMs created
    ThePool,     \* the ScvmmPersistentDiskPool as an owner
    NoDisk,      \* a slot's disk reference is nil
    NoFile,      \* a disk has no VMHost; a VM has nothing at a LUN
    NoVm,        \* the empty id
    Named,       \* the machines that come with a VM name
    UserDisks,   \* disks made by the user, with data, that the pool's selector matches
    Faults       \* what may go wrong or come between, a subset of FaultKinds

(* "update": a call that writes a disk fails; "patch": a patch of a        *)
(* machine fails; "command": a WinRM command fails, having run or not;     *)
(* "crash": the controller restarts; "stale": the machine cache may lag at *)
(* the start of a reconcile; "admin": somebody deletes a disk object that  *)
(* no machine owns; "owned": somebody deletes one that a machine owns.     *)
FaultKinds == {"update", "patch", "command", "crash", "stale", "admin", "owned"}

Slots == 1 .. NumSlots

Disks == 1 .. MaxDisks

ASSUME NullAssumption ==
    ThePool \notin Machines /\ NoDisk \notin Nat /\ NoVm \notin VmIds

ASSUME BoundAssumption ==
    /\ NumSlots \in Nat \ {0} /\ MaxDisks \in Nat \ {0}
    /\ Named \subseteq Machines /\ UserDisks \subseteq Disks
    /\ Faults \subseteq FaultKinds

(* A VHDX is made for a disk by the VM it is first attached to, or by the  *)
(* user who made the disk.                                                 *)
File == [of : Disks, by : VmIds \cup {NoVm}]

ASSUME NoFileAssumption == NoFile \notin File

VARIABLES
    obj,        \* the ScvmmMachine objects in the API server
    disk,       \* the ScvmmPersistentDisk objects in the API server
    cobj,       \* the cached copies of the machines
    cdisk,      \* the cached copies of the disks
    fresh,      \* the disks whose cached copy has the current resourceVersion
    vm,         \* the virtual machines of SCVMM
    files,      \* the VHDX files on the hosts
    used,       \* the files a VM has run with
    pc,         \* the next call of each machine's reconcile
    rd,         \* the copy of the machine the reconcile has read
    mem,        \* the copy it works on
    file,       \* the file of each slot's disk as last read
    at,         \* the slot it has come to
    pick,       \* the disk it is about to claim
    current,    \* the machines whose copy of that disk is up to date
    got,        \* the state and disks of the VM as SCVMM reported them
    queued      \* the machines whose key is in the work queue

apiVars == <<obj, disk>>
cacheVars == <<cobj, cdisk, fresh>>
scvmmVars == <<vm, files, used>>
workVars == <<rd, mem, file, at, pick, current, got>>
vars == <<apiVars, cacheVars, scvmmVars, pc, workVars, queued>>

-----------------------------------------------------------------------------
(* The objects.                                                            *)

(* A machine that is "new" has no finalizer yet.                           *)
Phases == {"absent", "new", "live", "deleting", "gone"}

Machine == [phase : Phases, id : VmIds \cup {NoVm}, disk : [Slots -> Disks \cup {NoDisk}]]

(* A disk that is "loose" was made by the user and has no finalizer.       *)
DiskPhases == {"absent", "loose", "live", "deleting"}

Disk == [phase : DiskPhases, refs : SUBSET (Machines \cup {ThePool}), file : File \cup {NoFile}]

VmStates == {"unused", "preparing", "creating", "off", "updating", "running", "stopping", "removing",
             "removed"}

Attached == [Slots -> File \cup {NoFile}]

(* out is the slot whose disk is being detached.                           *)
Vm == [st : VmStates, disk : Attached, out : 0 .. NumSlots]

Report == [st : VmStates, disk : Attached]

Labels == {"idle", "finalizer", "claim", "update", "new", "get", "create", "note", "expand",
           "start", "patch", "done", "look", "giveback", "detach", "remove", "unfinalize"}

NoDisks == [s \in Slots |-> NoDisk]

NoFiles == [s \in Slots |-> NoFile]

NoMachine == [phase |-> "absent", id |-> NoVm, disk |-> NoDisks]

AbsentDisk == [phase |-> "absent", refs |-> {}, file |-> NoFile]

UserFile(d) == [of |-> d, by |-> NoVm]

UserDisk(d) == [phase |-> "loose", refs |-> {}, file |-> UserFile(d)]

NoReport == [st |-> "unused", disk |-> NoFiles]

Present(o) == o.phase \in {"new", "live", "deleting"}

Exists(v) == v \in VmIds /\ vm[v].st \notin {"unused", "removed"}

Busy(v) == vm[v].st \in {"preparing", "creating", "updating", "stopping", "removing"}

Holds(v, f) == Exists(v) /\ \E s \in Slots : vm[v].disk[s] = f

-----------------------------------------------------------------------------
(* Steps of the environment.                                               *)

Init ==
    /\ obj = [m \in Machines |-> NoMachine]
    /\ disk = [d \in Disks |-> IF d \in UserDisks THEN UserDisk(d) ELSE AbsentDisk]
    /\ cobj = obj /\ cdisk = disk /\ fresh = Disks
    /\ vm = [v \in VmIds |-> [st |-> "unused", disk |-> NoFiles, out |-> 0]]
    /\ files = {UserFile(d) : d \in UserDisks} /\ used = files
    /\ pc = [m \in Machines |-> "idle"]
    /\ rd = obj /\ mem = obj
    /\ file = [m \in Machines |-> NoFiles]
    /\ at = [m \in Machines |-> 1]
    /\ pick = [m \in Machines |-> NoDisk]
    /\ current = {}
    /\ got = [m \in Machines |-> NoReport]
    /\ queued = {}

CreateMachine(m) ==
    /\ obj[m].phase = "absent"
    /\ obj' = [obj EXCEPT ![m].phase = "new"]
    /\ UNCHANGED <<disk, cacheVars, scvmmVars, pc, workVars, queued>>

DeleteMachine(m) ==
    /\ obj[m].phase \in {"new", "live"}
    /\ obj' = [obj EXCEPT ![m].phase = IF @ = "new" THEN "gone" ELSE "deleting"]
    /\ UNCHANGED <<disk, cacheVars, scvmmVars, pc, workVars, queued>>

(* The watch brings the cached copy up to date; a change of the finalizer  *)
(* alone does not queue the machine.                                       *)
SyncMachine(m) ==
    /\ cobj[m] # obj[m]
    /\ cobj' = [cobj EXCEPT ![m] = obj[m]]
    /\ queued' = IF cobj[m] = [obj[m] EXCEPT !.phase = "new"] THEN queued ELSE queued \cup {m}
    /\ UNCHANGED <<apiVars, cdisk, fresh, scvmmVars, pc, workVars>>

SyncDisk(d) ==
    /\ d \notin fresh
    /\ cdisk' = [cdisk EXCEPT ![d] = disk[d]]
    /\ fresh' = fresh \cup {d}
    /\ UNCHANGED <<apiVars, cobj, scvmmVars, pc, workVars, queued>>

(* A write of a disk makes every copy of it outdated; one that changes     *)
(* nothing leaves the resourceVersion alone.                               *)
WriteDisk(d, new) ==
    /\ disk' = [disk EXCEPT ![d] = new]
    /\ fresh' = IF new = disk[d] THEN fresh ELSE fresh \ {d}
    /\ current' = IF new = disk[d] THEN current ELSE {m \in current : pick[m] # d}
    /\ UNCHANGED <<cobj, cdisk>>

(* Without a finalizer an object goes at once.                             *)
Condemned(o) ==
    CASE o.phase = "live" -> [o EXCEPT !.phase = "deleting"]
      [] o.phase = "loose" -> AbsentDisk
      [] OTHER -> o

AdminDeletesDisk(d) ==
    /\ disk[d].phase \in {"loose", "live"}
    /\ (IF disk[d].refs \cap Machines = {} THEN "admin" ELSE "owned") \in Faults
    /\ WriteDisk(d, Condemned(disk[d]))
    /\ UNCHANGED <<obj, scvmmVars, pc, rd, mem, file, at, pick, got, queued>>

Dangling(d) == {m \in disk[d].refs \cap Machines : obj[m].phase = "gone"}

(* The garbage collector drops references to owners that are gone, and     *)
(* deletes an object none of whose owners is left.                         *)
CollectGarbage(d) ==
    /\ Dangling(d) # {} /\ disk[d].phase # "deleting"
    /\ WriteDisk(d, IF disk[d].refs = Dangling(d)
                    THEN Condemned(disk[d])
                    ELSE [disk[d] EXCEPT !.refs = @ \ Dangling(d)])
    /\ UNCHANGED <<obj, scvmmVars, pc, rd, mem, file, at, pick, got, queued>>

On(v) == {vm[v].disk[s] : s \in Slots} \ {NoFile}

(* SCVMM finishes a task.  The files attached to a VM come and go with it. *)
VmTaskDone(v) ==
    /\ Busy(v)
    /\ \/ /\ vm[v].st = "removing"
          /\ vm' = [vm EXCEPT ![v] = [st |-> "removed", disk |-> NoFiles, out |-> 0]]
          /\ files' = files \ On(v)
       \/ /\ vm[v].st = "updating"
          /\ vm' = [vm EXCEPT ![v] =
                [st |-> "off", disk |-> [vm[v].disk EXCEPT ![vm[v].out] = NoFile], out |-> 0]]
          /\ UNCHANGED files
       \/ /\ vm[v].st = "preparing"
          /\ vm' = [vm EXCEPT ![v].st = "creating"]
          /\ UNCHANGED files
       \/ /\ vm[v].st \in {"creating", "stopping"}
          /\ vm' = [vm EXCEPT ![v].st = "off"]
          /\ files' = files \cup On(v)
    /\ UNCHANGED <<apiVars, cacheVars, used, pc, workVars, queued>>

(* The controller dies and starts again: every reconcile is cut off, the   *)
(* caches are listed anew and every machine listed is queued.              *)
Crash ==
    /\ "crash" \in Faults
    /\ \E m \in Machines : pc[m] # "idle"
    /\ cobj' = obj /\ cdisk' = disk /\ fresh' = Disks
    /\ pc' = [m \in Machines |-> "idle"]
    /\ rd' = [m \in Machines |-> NoMachine] /\ mem' = rd'
    /\ file' = [m \in Machines |-> NoFiles]
    /\ at' = [m \in Machines |-> 1]
    /\ pick' = [m \in Machines |-> NoDisk]
    /\ current' = {}
    /\ got' = [m \in Machines |-> NoReport]
    /\ queued' = {m \in Machines : Present(obj[m])}
    /\ UNCHANGED <<apiVars, scvmmVars>>

-----------------------------------------------------------------------------
(* What the scripts do to SCVMM.                                           *)

(* The disks of slots without a file so far are made with the VM.          *)
CreateVM(v, m) ==
    /\ vm[v].st = "unused"
    /\ vm' = [vm EXCEPT ![v] =
          [st |-> "preparing", out |-> 0,
           disk |-> [s \in Slots |-> IF mem[m].disk[s] # NoDisk /\ file[m][s] = NoFile
                                     THEN [of |-> mem[m].disk[s], by |-> v] ELSE NoFile]]]
    /\ UNCHANGED <<files, used>>

(* The bound on VMs is reached: CreateVM fails from then on.               *)
Exhausted == \A v \in VmIds : vm[v].st # "unused"

(* A VM that is up has the file open.                                      *)
Open(f) == \E w \in VmIds : Holds(w, f) /\ vm[w].st \in {"running", "stopping"}

(* A file cannot be attached that the VM has already, that a VM has open,  *)
(* or that is not there.                                                   *)
CanAttach(v, f) == f \in files \ On(v) /\ ~ Open(f)

(* ExpandVMDisks sees to the first LUN at which the VM has nothing, which  *)
(* may be one the machine has no disk for.                                 *)
ExpandVMDisks(v, m) ==
    LET s == CHOOSE s \in Slots : vm[v].disk[s] = NoFile /\ \A r \in 1 .. s - 1 : vm[v].disk[r] # NoFile
        f == IF file[m][s] = NoFile THEN [of |-> mem[m].disk[s], by |-> v] ELSE file[m][s]
    IN IF /\ vm[v].st \in {"off", "running"}
          /\ \E r \in Slots : vm[v].disk[r] = NoFile
          /\ mem[m].disk[s] # NoDisk
          /\ file[m][s] # NoFile => CanAttach(v, f)
       THEN /\ vm' = [vm EXCEPT ![v].disk[s] = f]
            /\ files' = files \cup {f}
            /\ used' = IF vm[v].st = "running" THEN used \cup {f} ELSE used
       ELSE UNCHANGED scvmmVars

(* A VM whose files are not all there does not start.                      *)
StartVM(v) ==
    IF vm[v].st = "off" /\ On(v) \subseteq files
    THEN /\ vm' = [vm EXCEPT ![v].st = "running"]
         /\ used' = used \cup On(v)
         /\ UNCHANGED files
    ELSE UNCHANGED scvmmVars

(* A disk is detached from a VM that is off; any other is stopped first.   *)
RemoveDiskFromVM(v, s) ==
    /\ vm' = CASE vm[v].st = "off" /\ vm[v].disk[s] # NoFile ->
                    [vm EXCEPT ![v].st = "updating", ![v].out = s]
               [] vm[v].st = "running" -> [vm EXCEPT ![v].st = "stopping"]
               [] OTHER -> vm
    /\ UNCHANGED <<files, used>>

RemoveVM(v) ==
    /\ vm' = CASE vm[v].st = "running" -> [vm EXCEPT ![v].st = "stopping"]
               [] vm[v].st = "off" -> [vm EXCEPT ![v].st = "removing"]
               [] OTHER -> vm
    /\ UNCHANGED <<files, used>>

-----------------------------------------------------------------------------
(* The reconcile of one machine.                                           *)

Goto(m, label) == pc' = [pc EXCEPT ![m] = label]

(* Reconcile returns; the key is queued again when it asked for that, or   *)
(* when an event came in meanwhile.                                        *)
Return(m, again) ==
    /\ pc' = [pc EXCEPT ![m] = "idle"]
    /\ rd' = [rd EXCEPT ![m] = NoMachine]
    /\ mem' = [mem EXCEPT ![m] = NoMachine]
    /\ file' = [file EXCEPT ![m] = NoFiles]
    /\ at' = [at EXCEPT ![m] = 1]
    /\ pick' = [pick EXCEPT ![m] = NoDisk]
    /\ got' = [got EXCEPT ![m] = NoReport]
    /\ queued' = IF again THEN queued \cup {m} ELSE queued

(* A machine that never got as far as a VM or its name is let go as it is. *)
Nameless(m) == m \notin Named /\ cobj[m].id = NoVm

(* Reconcile: read the machine from the cache and take the branch for it.  *)
Begin(m) ==
    /\ pc[m] = "idle" /\ m \in queued
    /\ "stale" \in Faults \/ cobj[m] = obj[m]
    /\ queued' = queued \ {m}
    /\ \/ ~ Present(cobj[m]) /\ UNCHANGED <<pc, rd, mem>>
       \/ /\ Present(cobj[m])
          /\ rd' = [rd EXCEPT ![m] = cobj[m]]
          /\ mem' = [mem EXCEPT ![m] = cobj[m]]
          /\ Goto(m, CASE cobj[m].phase = "new" -> "finalizer"
                       [] cobj[m].phase = "live" -> "claim"
                       [] OTHER -> IF Nameless(m) THEN "unfinalize"
                                   ELSE IF cobj[m].disk = NoDisks THEN "remove" ELSE "look")
    /\ UNCHANGED <<apiVars, cacheVars, scvmmVars, file, at, pick, current, got>>

(* Variant: the disks are left out. *)
PatchedIdOnly(m) == [obj[m] EXCEPT !.id = IF mem[m].id # rd[m].id THEN mem[m].id ELSE @]

(* A patch of the machine carries what differs from the copy that was      *)
(* read, the disks as a whole, and needs no particular resourceVersion.    *)
Patched(m) ==
    [obj[m] EXCEPT !.id = IF mem[m].id # rd[m].id THEN mem[m].id ELSE @,
                   !.disk = IF mem[m].disk # rd[m].disk THEN mem[m].disk ELSE @]

Patch(m, new) ==
    /\ Present(obj[m])
    /\ obj' = [obj EXCEPT ![m] = new]
    /\ UNCHANGED disk

PatchFails(m) ==
    /\ ~ Present(obj[m]) \/ "patch" \in Faults
    /\ UNCHANGED apiVars

AddFinalizer(m) ==
    /\ pc[m] = "finalizer"
    /\ \/ /\ Patch(m, [obj[m] EXCEPT !.phase = IF @ = "new" THEN "live" ELSE @])
          /\ Goto(m, "claim")
          /\ UNCHANGED <<rd, mem, file, at, pick, got, queued>>
       \/ PatchFails(m) /\ Return(m, TRUE)
    /\ UNCHANGED <<cacheVars, scvmmVars, current>>

(* patchReasonCondition ends most reconciles: a failure to record what the *)
(* reconcile did is logged and forgotten.                                  *)
PatchReason(m) ==
    /\ pc[m] = "patch"
    /\ Patch(m, Patched(m)) \/ PatchFails(m)
    /\ Return(m, TRUE)
    /\ UNCHANGED <<cacheVars, scvmmVars, current>>

(* vmClaimPersistentDisks regards the disks in the spec as assigned.       *)
Seen(m) == {rd[m].disk[s] : s \in Slots}

(* A disk is taken when another machine owns it, or this one does and has  *)
(* it in its spec.                                                         *)
Taken(m, d) == \E x \in cdisk[d].refs \cap Machines : x # m \/ d \in Seen(m)

Listed(d) == cdisk[d].phase # "absent"

Eligible(m) == {d \in Disks : Listed(d) /\ cdisk[d].phase # "deleting" /\ ~ Taken(m, d)}

Least(S) == CHOOSE d \in S : \A e \in S : d <= e

(* The next slot, or the end of vmClaimPersistentDisks.                    *)
NextSlot(m) ==
    /\ at' = [at EXCEPT ![m] = IF @ = NumSlots THEN 1 ELSE @ + 1]
    /\ Goto(m, IF at[m] = NumSlots THEN "get" ELSE "claim")

Assign(m, d, f) ==
    /\ mem' = [mem EXCEPT ![m].disk[at[m]] = d]
    /\ file' = [file EXCEPT ![m][at[m]] = f]

(* One round of vmClaimPersistentDisks: look up the disk recorded for the  *)
(* slot; or choose the first free disk of the pool, or the number of a new *)
(* one; or leave the slot empty.                                           *)
ClaimDisk(m) ==
    /\ pc[m] = "claim"
    /\ LET d == mem[m].disk[at[m]]
           free == {e \in Disks : ~ Listed(e)}
       IN \/ /\ d # NoDisk /\ Listed(d)
             /\ Assign(m, d, cdisk[d].file)
             /\ NextSlot(m)
             /\ UNCHANGED <<pick, current>>
          \/ /\ d # NoDisk /\ ~ Listed(d)
             /\ Goto(m, "patch")
             /\ UNCHANGED <<mem, file, at, pick, current>>
          \/ \E e \in Eligible(m) :
                /\ d = NoDisk /\ e = Least(Eligible(m))
                /\ pick' = [pick EXCEPT ![m] = e]
                /\ current' = IF e \in fresh THEN current \cup {m} ELSE current \ {m}
                /\ Goto(m, "update")
                /\ UNCHANGED <<mem, file, at>>
          \/ \E e \in free :
                /\ d = NoDisk /\ Eligible(m) = {} /\ e = Least(free)
                /\ pick' = [pick EXCEPT ![m] = e]
                /\ Goto(m, "new")
                /\ UNCHANGED <<mem, file, at, current>>
          \/ /\ d = NoDisk /\ Eligible(m) = {} /\ free = {}
             /\ NextSlot(m)
             /\ UNCHANGED <<mem, file, pick, current>>
    /\ UNCHANGED <<apiVars, cacheVars, scvmmVars, rd, got, queued>>

(* Variant: an update without a resourceVersion. *)
CanUpdateAnyVersion(m) == TRUE

(* The API server takes an update only from a copy with the current        *)
(* resourceVersion.                                                        *)
CanUpdate(m) == m \in current

Claimed(m, o) ==
    [phase |-> IF o.phase = "loose" THEN "live" ELSE o.phase, refs |-> o.refs \cup {m}, file |-> o.file]

UpdateClaim(m) ==
    /\ pc[m] = "update"
    /\ LET d == pick[m]
       IN \/ /\ CanUpdate(m) /\ WriteDisk(d, Claimed(m, disk[d]))
             /\ Assign(m, d, disk[d].file)
             /\ NextSlot(m)
          \/ /\ CanUpdate(m) /\ "update" \in Faults /\ WriteDisk(d, Claimed(m, disk[d]))
             /\ Goto(m, "patch")
             /\ UNCHANGED <<mem, file, at>>
          \/ /\ ~ CanUpdate(m) \/ "update" \in Faults
             /\ Goto(m, "patch")
             /\ UNCHANGED <<disk, cacheVars, mem, file, at, current>>
    /\ UNCHANGED <<obj, scvmmVars, rd, pick, got, queued>>

CreateClaim(m) ==
    /\ pc[m] = "new"
    /\ LET d == pick[m]
           New == [phase |-> "live", refs |-> {m, ThePool}, file |-> NoFile]
       IN \/ /\ disk[d].phase = "absent" /\ WriteDisk(d, New)
             /\ Assign(m, d, NoFile)
             /\ NextSlot(m)
          \/ /\ disk[d].phase = "absent" /\ "update" \in Faults /\ WriteDisk(d, New)
             /\ Goto(m, "patch")
             /\ UNCHANGED <<mem, file, at>>
          \/ /\ disk[d].phase # "absent" \/ "update" \in Faults
             /\ Goto(m, "patch")
             /\ UNCHANGED <<disk, cacheVars, mem, file, at, current>>
    /\ UNCHANGED <<obj, scvmmVars, rd, pick, got, queued>>

(* What GetVM reports; of a VM that is being created, the disks come late. *)
Reported(v) ==
    IF ~ Exists(v) THEN NoReport
    ELSE [st |-> vm[v].st, disk |-> IF vm[v].st = "preparing" THEN NoFiles ELSE vm[v].disk]

(* A failure of GetVM ends the reconcile without a patch: what it has      *)
(* claimed is not recorded.                                                *)
GetVM(m) ==
    /\ pc[m] = "get"
    /\ \/ /\ ~ Exists(mem[m].id)
          /\ Goto(m, "create")
          /\ UNCHANGED <<rd, mem, file, at, pick, got, queued>>
       \/ /\ Exists(mem[m].id)
          /\ got' = [got EXCEPT ![m] = Reported(mem[m].id)]
          /\ Goto(m, "note")
          /\ UNCHANGED <<rd, mem, file, at, pick, queued>>
       \/ mem[m].id # NoVm /\ "command" \in Faults /\ Return(m, TRUE)
    /\ UNCHANGED <<apiVars, cacheVars, scvmmVars, current>>

SendCreateVM(m) ==
    /\ pc[m] = "create"
    /\ \/ \E v \in VmIds : CreateVM(v, m) /\ mem' = [mem EXCEPT ![m].id = v]
       \/ Exhausted /\ UNCHANGED <<mem, scvmmVars>>
       \/ "command" \in Faults /\ UNCHANGED mem
            /\ (UNCHANGED scvmmVars \/ \E v \in VmIds : CreateVM(v, m))
    /\ Goto(m, "patch")
    /\ UNCHANGED <<apiVars, cacheVars, rd, file, at, pick, current, got, queued>>

(* Variant: disks are attached when the VM is created or not at all. *)
NeverExpands(m) == FALSE

(* vmNeedsExpandDisks.                                                     *)
NeedsExpand(m) == \E s \in Slots : mem[m].disk[s] # NoDisk /\ got[m].disk[s] = NoFile

(* The slots from at[m] on whose disk was reported at another place than   *)
(* its object says.                                                        *)
Unnoted(m) ==
    {s \in at[m] .. NumSlots :
        LET d == mem[m].disk[s]
        IN d # NoDisk /\ got[m].disk[s] # NoFile /\ cdisk[d].file # got[m].disk[s]}

(* An update from the cached copy of a disk, taken if that is current.     *)
UpdateDisk(m, d, new) ==
    /\ d \in fresh
    /\ WriteDisk(d, new)
    /\ UNCHANGED obj

UpdateDiskFails(m, d) ==
    /\ d \notin fresh \/ "update" \in Faults
    /\ UNCHANGED <<apiVars, cacheVars, current>>

(* vmUpdatePersistentDisks, then the branches of reconcileNormal.          *)
NoteDisks(m) ==
    /\ pc[m] = "note"
    /\ \/ \E s \in Unnoted(m) :
             LET d == mem[m].disk[s]
             IN /\ s = Least(Unnoted(m))
                /\ \/ /\ UpdateDisk(m, d, [disk[d] EXCEPT !.file = got[m].disk[s]])
                      /\ Listed(d)
                      /\ at' = [at EXCEPT ![m] = s + 1]
                      /\ UNCHANGED pc
                   \/ UpdateDiskFails(m, d) /\ Goto(m, "patch") /\ UNCHANGED at
       \/ /\ Unnoted(m) = {}
          /\ Goto(m, CASE got[m].st \in {"preparing", "creating", "updating"} -> "patch"
                       [] got[m].st \in {"off", "running", "stopping", "removing"}
                            /\ NeedsExpand(m) -> "expand"
                       [] got[m].st = "off" /\ ~ NeedsExpand(m) -> "start"
                       [] got[m].st = "running" /\ ~ NeedsExpand(m) -> "done"
                       [] OTHER -> "patch")
          /\ UNCHANGED <<apiVars, cacheVars, current, at>>
    /\ UNCHANGED <<scvmmVars, rd, mem, file, pick, got, queued>>

ExpandDisks(m) ==
    /\ pc[m] = "expand"
    /\ ExpandVMDisks(mem[m].id, m) \/ ("command" \in Faults /\ UNCHANGED scvmmVars)
    /\ Goto(m, "patch")
    /\ UNCHANGED <<apiVars, cacheVars, workVars, queued>>

SendStartVM(m) ==
    /\ pc[m] = "start"
    /\ StartVM(mem[m].id) \/ ("command" \in Faults /\ UNCHANGED scvmmVars)
    /\ Goto(m, "patch")
    /\ UNCHANGED <<apiVars, cacheVars, workVars, queued>>

(* getVMInfo: the VM runs, and may still have to report its addresses.     *)
GetVMInfo(m) ==
    /\ pc[m] = "done"
    /\ \/ Patch(m, Patched(m)) /\ \E again \in BOOLEAN : Return(m, again)
       \/ PatchFails(m) /\ Return(m, TRUE)
    /\ UNCHANGED <<cacheVars, scvmmVars, current>>

(* removePersistentDisks begins with another GetVM.  The patch of the      *)
(* condition before it may fail.                                           *)
LookAtVM(m) ==
    /\ pc[m] = "look"
    /\ \/ /\ got' = [got EXCEPT ![m] = Reported(mem[m].id)]
          /\ Goto(m, "giveback")
          /\ UNCHANGED <<rd, mem, file, at, pick, queued>>
       \/ (Faults \cap {"patch", "command"} # {}) /\ Return(m, TRUE)
    /\ UNCHANGED <<apiVars, cacheVars, scvmmVars, current>>

(* Variants: a disk is given back whether it is detached or not; the empty *)
(* LUN is taken for one that still has the disk.                           *)
DetachedOrNot(m, s) == TRUE

DetachedNever(m, s) == FALSE

(* The VM has nothing at the disk's LUN any more.                          *)
Detached(m, s) == got[m].disk[s] = NoFile

(* One round of removePersistentDisks: a disk that is attached is noted    *)
(* and detached, one that is not is given back.                            *)
GiveBack(m) ==
    /\ pc[m] = "giveback"
    /\ LET todo == {s \in Slots : mem[m].disk[s] # NoDisk}
           s == Least(todo)
           d == mem[m].disk[s]
       IN \/ /\ todo = {}
             /\ Goto(m, "patch")
             /\ UNCHANGED <<apiVars, cacheVars, current, mem, at>>
          \/ /\ todo # {} /\ Listed(d) /\ ~ Detached(m, s)
             /\ UpdateDisk(m, d, [disk[d] EXCEPT !.file = got[m].disk[s]])
             /\ at' = [at EXCEPT ![m] = s]
             /\ Goto(m, IF got[m].st \in {"off", "running"} THEN "detach" ELSE "patch")
             /\ UNCHANGED mem
          \/ /\ todo # {} /\ Listed(d) /\ Detached(m, s)
             /\ UpdateDisk(m, d, [disk[d] EXCEPT !.refs = @ \ {m}])
             /\ mem' = [mem EXCEPT ![m].disk[s] = NoDisk]
             /\ UNCHANGED <<pc, at>>
          \/ /\ todo # {} /\ (~ Listed(d) \/ d \notin fresh \/ "update" \in Faults)
             /\ Goto(m, "patch")
             /\ UNCHANGED <<apiVars, cacheVars, current, mem, at>>
    /\ UNCHANGED <<scvmmVars, rd, file, pick, got, queued>>

DetachDisk(m) ==
    /\ pc[m] = "detach"
    /\ RemoveDiskFromVM(mem[m].id, at[m]) \/ ("command" \in Faults /\ UNCHANGED scvmmVars)
    /\ Goto(m, "patch")
    /\ UNCHANGED <<apiVars, cacheVars, workVars, queued>>

(* reconcileDelete without persistent disks in the spec.                   *)
SendRemoveVM(m) ==
    /\ pc[m] = "remove"
    /\ \/ /\ ~ Exists(mem[m].id)
          /\ Goto(m, "unfinalize")
          /\ UNCHANGED <<scvmmVars, rd, mem, file, at, pick, got, queued>>
       \/ Exists(mem[m].id) /\ RemoveVM(mem[m].id) /\ Return(m, TRUE)
       \/ (Faults \cap {"patch", "command"} # {}) /\ UNCHANGED scvmmVars /\ Return(m, TRUE)
    /\ UNCHANGED <<apiVars, cacheVars, current>>

(* Without its finalizer a machine that is being deleted is gone.          *)
RemoveFinalizer(m) ==
    /\ pc[m] = "unfinalize"
    /\ \/ Patch(m, [obj[m] EXCEPT !.phase = "gone"]) /\ Return(m, FALSE)
       \/ PatchFails(m) /\ Return(m, TRUE)
    /\ UNCHANGED <<cacheVars, scvmmVars, current>>

Reconcile(m) ==
    \/ Begin(m) \/ AddFinalizer(m) \/ PatchReason(m)
    \/ ClaimDisk(m) \/ UpdateClaim(m) \/ CreateClaim(m)
    \/ GetVM(m) \/ SendCreateVM(m) \/ NoteDisks(m) \/ ExpandDisks(m) \/ SendStartVM(m)
    \/ GetVMInfo(m) \/ LookAtVM(m) \/ GiveBack(m) \/ DetachDisk(m) \/ SendRemoveVM(m)
    \/ RemoveFinalizer(m)

-----------------------------------------------------------------------------
(* The reconcile of one disk, which only acts on its deletion.             *)

(* RemovePersistentDisk attaches the file to a VM made for it and removes  *)
(* that.  Without a VMHost, or while a VM has the file open, this fails.   *)
RemovePersistentDisk(d) ==
    /\ cdisk[d].phase = "deleting" /\ cdisk[d].file \in files
    /\ ~ Open(cdisk[d].file)
    /\ files' = files \ {cdisk[d].file}
    /\ UNCHANGED <<apiVars, cacheVars, vm, used, pc, workVars, queued>>

(* Variant: the finalizer is dropped from the copy only. *)
ForgetDiskUnsaved(d) == cdisk[d].phase = "deleting" /\ d \in fresh /\ UNCHANGED vars

(* The file is not found.                                                  *)
ForgetDisk(d) ==
    /\ cdisk[d].phase = "deleting" /\ cdisk[d].file \in File \ files
    /\ d \in fresh
    /\ WriteDisk(d, AbsentDisk)
    /\ UNCHANGED <<obj, scvmmVars, pc, rd, mem, file, at, pick, got, queued>>

ReconcileDisk(d) == RemovePersistentDisk(d) \/ ForgetDisk(d)

Next ==
    \/ \E m \in Machines : Reconcile(m) \/ CreateMachine(m) \/ DeleteMachine(m) \/ SyncMachine(m)
    \/ \E d \in Disks :
         SyncDisk(d) \/ CollectGarbage(d) \/ AdminDeletesDisk(d) \/ ReconcileDisk(d)
    \/ \E v \in VmIds : VmTaskDone(v)
    \/ Crash

Spec == Init /\ [][Next]_vars

-----------------------------------------------------------------------------
(* Properties.                                                             *)

(* Every variable keeps its type.                                          *)
TypeOK ==
    /\ obj \in [Machines -> Machine] /\ cobj \in [Machines -> Machine]
    /\ rd \in [Machines -> Machine] /\ mem \in [Machines -> Machine]
    /\ disk \in [Disks -> Disk] /\ cdisk \in [Disks -> Disk]
    /\ fresh \subseteq Disks /\ current \subseteq Machines /\ queued \subseteq Machines
    /\ vm \in [VmIds -> Vm] /\ files \subseteq File /\ used \subseteq File
    /\ pc \in [Machines -> Labels]
    /\ file \in [Machines -> Attached] /\ got \in [Machines -> Report]
    /\ at \in [Machines -> 1 .. NumSlots + 1]
    /\ pick \in [Machines -> Disks \cup {NoDisk}]

(* A disk is never claimed by two machines, although both may have listed  *)
(* it as free (claimPersistentDisk).                                       *)
OneOwner ==
    \A d \in Disks : \A m, n \in disk[d].refs \cap Machines : m = n

Holder(d) ==
    IF disk[d].refs \cap Machines = {} THEN ThePool
    ELSE CHOOSE m \in Machines : m \in disk[d].refs

(* What the pool promises, and that the reconcilers keep it, whichever     *)
(* copies of a disk they work on.                                          *)
Owners == INSTANCE DiskOwners WITH
    Nobody <- ThePool,
    holder <- [d \in Disks |-> Holder(d)],
    doomed <- {d \in Disks : disk[d].phase = "deleting"}

OwnersSpec == Owners!Spec

(* A VM only runs with disks that belong to its machine, each in the slot  *)
(* that is recorded for it and in the place that is noted for it, if any   *)
(* (vmNeedsExpandDisks looks at LUNs only).                                *)
RunsOnItsOwnDisks ==
    \A v \in VmIds : \A s \in Slots :
        vm[v].st = "running" /\ vm[v].disk[s] # NoFile =>
            \E m \in Machines, d \in Disks :
                /\ obj[m].id = v /\ m \in disk[d].refs
                /\ disk[d].file \in {vm[v].disk[s], NoFile}
                /\ d \in {obj[m].disk[s], mem[m].disk[s]}

(* Two disk objects never stand for the same file, although the place of a *)
(* disk is noted from what the VM has at the slot's LUN                    *)
(* (vmUpdatePersistentDisks, removePersistentDisks).                       *)
OneDiskPerFile ==
    \A d, e \in Disks : disk[d].file = disk[e].file /\ disk[d].file # NoFile => d = e

(* A file that a VM has run with is removed only with its disk object      *)
(* (removePersistentDisks, RemoveVM).                                      *)
DataKept ==
    [][\A f \in used : f \in files /\ f \notin files' =>
          \E d \in Disks : disk[d].file = f /\ disk[d].phase = "deleting"]_vars

(* A persistent disk survives the machines that use it: nothing removes a  *)
(* file unless a user has deleted the disk                                 *)
(* (reconcileDelete, removePersistentDisks).                               *)
DataSurvivesMachines ==
    [][\A f \in used : f \in files => f \in files']_vars

(* No two slots of a machine hold the same disk (vmClaimPersistentDisks).  *)
NoDiskTwice ==
    \A m \in Machines : \A r, s \in Slots :
        obj[m].disk[r] = obj[m].disk[s] /\ obj[m].disk[r] # NoDisk => r = s

Fairness ==
    /\ \A m \in Machines : WF_vars(Reconcile(m)) /\ WF_vars(SyncMachine(m))
    /\ \A d \in Disks :
         WF_vars(SyncDisk(d)) /\ WF_vars(CollectGarbage(d)) /\ WF_vars(ReconcileDisk(d))
    /\ \A v \in VmIds : WF_vars(VmTaskDone(v))

FairSpec == Spec /\ Fairness /\ <>[][~ Crash]_vars

(* A machine that is being deleted goes away, however many rounds it takes *)
(* to detach its disks (removePersistentDisks).                            *)
DeletionCompletes == \A m \in Machines : obj[m].phase = "deleting" ~> obj[m].phase = "gone"

(* A disk recorded for a machine gets attached to its VM unless the        *)
(* machine is deleted (reconcileNormal, expandDisks).                      *)
RecordedGetsAttached ==
    \A m \in Machines : \A s \in Slots : \A d \in Disks :
        obj[m].phase = "live" /\ obj[m].disk[s] = d ~>
            \/ obj[m].phase # "live" \/ Exhausted
            \/ \E v \in VmIds : /\ obj[m].id = v /\ vm[v].st = "running"
                                /\ vm[v].disk[s] = disk[d].file

(* A disk that is deleted once a VM has had it goes away with its file     *)
(* (ScvmmPersistentDiskReconciler, RemovePersistentDisk).                  *)
DeletedDiskGoes ==
    \A d \in Disks : disk[d].phase = "deleting" /\ disk[d].file # NoFile ~> disk[d].phase # "deleting"

(* A machine with an empty slot does not wait for ever beside a free disk  *)
(* (claimPersistentDisk).                                                  *)
FreeDiskTaken ==
    \A m \in Machines :
        ~ <>[](/\ obj[m].phase = "live" /\ \E s \in Slots : obj[m].disk[s] = NoDisk
               /\ \E d \in Disks : disk[d].phase = "live" /\ disk[d].refs \cap Machines = {})

=============================================================================
