-------------------------- MODULE PersistentDisksInv --------------------------
(***************************************************************************)
(* The inductive invariant behind OneDiskPerFile, RunsOnItsOwnDisks and    *)
(* DataKept, while no patch of a machine fails, no reconcile is cut off or *)
(* begins with an old copy, nobody deletes a disk that a machine owns, and *)
(* no machine gets one disk into two slots.                                *)
(*                                                                         *)
(* What the reconcilers know of the file of a disk is pieced together from *)
(* three places that change at different times: the disk object, its       *)
(* cached copy and the VM's report.  The invariant says in which ways they *)
(* may differ: a cached copy may lag behind what was noted of the VM, or   *)
(* show a file of an earlier disk of that name, which is gone for good.    *)
(***************************************************************************)
EXTENDS PersistentDisks

Undisturbed == Faults \cap {"patch", "crash", "stale", "owned"} = {}

(* What a machine has in a slot and its VM: what its reconcile works with, *)
(* which the patch at the end records.                                     *)
Kept(m, s) == IF pc[m] = "idle" THEN obj[m].disk[s] ELSE mem[m].disk[s]

Id(m) == IF pc[m] = "idle" THEN obj[m].id ELSE mem[m].id

NoSlotTwice ==
    \A m \in Machines : \A r, s \in Slots :
        Kept(m, r) = Kept(m, s) /\ Kept(m, r) # NoDisk => r = s

Claiming == {"claim", "update", "new"}

Forward == Claiming \cup {"get", "create", "note", "expand", "start", "done"}

Backward == {"look", "giveback", "detach", "remove", "unfinalize"}

(* The machine is being deleted, and no reconcile that has not seen it is  *)
(* still under way.                                                        *)
Ending(m) ==
    /\ obj[m].phase \in {"deleting", "gone"}
    /\ pc[m] = "idle" \/ rd[m].phase = "deleting"

-----------------------------------------------------------------------------
(* A machine's object and the copies its reconcile has of it.              *)
CopyOK(m) ==
    /\ pc[m] = "idle" => rd[m] = NoMachine /\ mem[m] = NoMachine
    /\ pc[m] \in {"idle", "finalizer"} => got[m] = NoReport /\ at[m] = 1
    /\ pc[m] # "idle" => rd[m].id = obj[m].id /\ rd[m].disk = obj[m].disk
    /\ pc[m] = "finalizer" =>
          obj[m].phase \in {"new", "gone"} /\ mem[m] = rd[m] /\ rd[m].phase = "new"
    /\ pc[m] \in Forward \cup Backward \cup {"patch"} => obj[m].phase \in {"live", "deleting"}
    /\ pc[m] \in Forward =>
          /\ rd[m].phase \in {"new", "live"}
          /\ \A s \in Slots : rd[m].disk[s] # NoDisk => mem[m].disk[s] = rd[m].disk[s]
    /\ pc[m] \in Backward => rd[m].phase = "deleting"
    /\ rd[m].phase = "deleting" =>
          /\ obj[m].phase = "deleting"
          /\ \A s \in Slots : mem[m].disk[s] \in {rd[m].disk[s], NoDisk}
    /\ pc[m] \in {"look", "remove", "unfinalize"} => mem[m].disk = rd[m].disk
    /\ pc[m] = "remove" => mem[m].disk = NoDisks
    /\ mem[m].id # rd[m].id => pc[m] = "patch" /\ rd[m].id = NoVm /\ rd[m].phase # "deleting"
    /\ pc[m] = "create" => mem[m].id = NoVm
    /\ pc[m] \in {"note", "expand", "start", "done"} => mem[m].id # NoVm
    /\ obj[m].phase \in {"absent", "new"} => obj[m].id = NoVm /\ obj[m].disk = NoDisks
    /\ obj[m].phase = "gone" => pc[m] \in {"idle", "finalizer"}

(* A machine and its VM, which is taken down only for one that is ending   *)
(* and removed only once it has given its disks back.                      *)
VmOfOK(m) ==
    Id(m) # NoVm =>
        /\ vm[Id(m)].st # "unused"
        /\ ~ Ending(m) => vm[Id(m)].st \in {"preparing", "creating", "off", "running"}
        /\ obj[m].id = NoVm => vm[Id(m)].st \in {"preparing", "creating", "off"}
        /\ vm[Id(m)].st \in {"removing", "removed"} => \A s \in Slots : Kept(m, s) = NoDisk

DistinctVms == \A m, n \in Machines : Id(m) = Id(n) /\ Id(m) # NoVm => m = n

(* A disk that is kept is owned, and there.                                *)
OwnedOK(m) ==
    obj[m].phase # "gone" =>
        \A s \in Slots : Kept(m, s) # NoDisk =>
            m \in disk[Kept(m, s)].refs /\ disk[Kept(m, s)].phase = "live"

Noted(f) == disk[f.of].file = f

(* A file nobody knows of but the VM it was made by.                       *)
Secret(f) == f.by # NoVm /\ f \notin used /\ ~ Noted(f)

(* What a VM has is noted, or its own and not noted yet, or nobody's.      *)
AttachedFileOK(v, f) ==
    /\ Noted(f) \/ (f.by = v /\ disk[f.of].file = NoFile) \/ Secret(f)
    /\ Noted(f) \/ f.by = v
    /\ vm[v].st = "preparing" => f.by = v /\ Secret(f)
    /\ vm[v].st = "running" => f \in used
    /\ vm[v].st = "removing" => f \notin used
    /\ (\A m \in Machines : Id(m) # v) => Secret(f)

VmOK(v) ==
    /\ vm[v].st \notin {"unused", "preparing", "creating", "off"} =>
          \E m \in Machines : obj[m].id = v
    /\ vm[v].st \in {"unused", "removed"} => vm[v].disk = NoFiles
    /\ vm[v].st = "updating" => vm[v].out \in Slots
    /\ \A s \in Slots : vm[v].disk[s] # NoFile =>
          /\ AttachedFileOK(v, vm[v].disk[s])
          /\ vm[v].st = "updating" /\ vm[v].out = s => Noted(vm[v].disk[s])
    /\ \A r, s \in Slots :
          vm[v].disk[r] # NoFile /\ vm[v].disk[s] # NoFile /\ vm[v].disk[r].of = vm[v].disk[s].of => r = s

(* What the VM of a machine has in a slot is the disk kept for it.         *)
KeptOK(m) ==
    Id(m) # NoVm =>
        \A s \in Slots : LET f == vm[Id(m)].disk[s] IN f # NoFile =>
            /\ Kept(m, s) # NoDisk => f.of = Kept(m, s) /\ disk[f.of].file \in {f, NoFile}
            /\ Kept(m, s) = NoDisk => Ending(m) /\ Secret(f)

(* What SCVMM has reported of the VM to the reconcile of a machine.        *)
ReportedFileOK(m, s, f) ==
    /\ Id(m) # NoVm /\ vm[Id(m)].st # "preparing"
    /\ Kept(m, s) # NoDisk =>
          /\ f.of = Kept(m, s)
          /\ \/ Noted(f)
             \/ disk[f.of].file = NoFile /\ f.by = Id(m) /\ vm[Id(m)].disk[s] = f
    /\ ~ Ending(m) => vm[Id(m)].disk[s] = f

ReportOK(m) ==
    \A s \in Slots : got[m].disk[s] # NoFile => ReportedFileOK(m, s, got[m].disk[s])

(* A file that is noted was made by a VM of a machine, which has it still  *)
(* unless the machine is ending.                                           *)
NotedOK(d) ==
    LET f == disk[d].file IN f # NoFile =>
        /\ f.of = d
        /\ f.by # NoVm => \E m \in Machines : obj[m].id = f.by
        /\ f.by # NoVm => \A m \in Machines : obj[m].id = f.by /\ ~ Ending(m) =>
               \E s \in Slots : vm[f.by].disk[s] = f

UsedOK == \A f \in used : f.by # NoVm => vm[f.by].st # "unused"

(* A file that is gone, and never comes back.                              *)
Over(f) ==
    /\ f \notin files
    /\ \A v \in VmIds : \A s \in Slots : vm[v].disk[s] # f
    /\ f.by # NoVm => \E m \in Machines : obj[m].id = f.by /\ Ending(m)

(* The cached copies of the disks.                                         *)
CacheOK(d) ==
    LET g == cdisk[d].file
    IN /\ g # NoFile =>
             /\ g.of = d
             /\ disk[d].file = g \/ Over(g) \/ (g.by = NoVm /\ disk[d].phase = "absent")
             /\ cdisk[d].phase = "deleting" /\ ~ Over(g) =>
                   disk[d].file = g /\ disk[d].phase = "deleting"
       /\ disk[d].file # NoFile /\ disk[d].file.by = NoVm => g = disk[d].file
       /\ cdisk[d].phase = "absent" => g = NoFile
       /\ disk[d].phase = "absent" => disk[d].file = NoFile
       /\ disk[d].phase = "loose" => disk[d].file = UserFile(d)

(* What a machine takes for the file of the disk in a slot: the file, or   *)
(* one that cannot be attached any more, or none while the VM has it.      *)
Right(m, s, g) ==
    \/ g = disk[Kept(m, s)].file
    \/ g # NoFile /\ Over(g)
    \/ g = NoFile /\ Id(m) # NoVm /\ disk[Kept(m, s)].file = vm[Id(m)].disk[s]

ShownOK(m) ==
    obj[m].phase # "gone" /\ ~ Ending(m) =>
        \A s \in Slots : Kept(m, s) # NoDisk => Right(m, s, cdisk[Kept(m, s)].file)

-----------------------------------------------------------------------------
(* How far a reconcile has come.                                           *)

(* What vmClaimPersistentDisks found for the slots it is done with.        *)
LookedUp(m) ==
    \A s \in Slots :
        /\ Kept(m, s) # NoDisk
        /\ pc[m] \in {"get", "create", "note", "expand"} \/ (pc[m] \in Claiming /\ s < at[m])
        => Right(m, s, file[m][s])

(* A disk is chosen for an empty slot, one to be updated from a copy that  *)
(* is up to date unless the update fails, one to be created never where a  *)
(* user's has been.                                                        *)
ChoiceOK(m) ==
    /\ pc[m] \in {"update", "new"} => mem[m].disk[at[m]] = NoDisk
    /\ pc[m] = "update" /\ m \in current => pick[m] \in fresh
    /\ pc[m] = "new" /\ cdisk[pick[m]].file # NoFile => cdisk[pick[m]].file.by # NoVm

StageOK(m) ==
    /\ ChoiceOK(m) /\ LookedUp(m)
    /\ Id(m) # NoVm =>
          /\ obj[m].phase = "gone" \/ pc[m] = "unfinalize" => vm[Id(m)].st = "removed"
          /\ pc[m] \in Claiming \cup {"get"} =>
                \A s \in Slots : vm[Id(m)].disk[s] # NoFile => rd[m].disk[s] # NoDisk
          /\ pc[m] = "giveback" =>
                \A s \in Slots : vm[Id(m)].disk[s] # NoFile /\ got[m].disk[s] = NoFile =>
                    Secret(vm[Id(m)].disk[s])
    /\ pc[m] = "detach" =>
          mem[m].disk[at[m]] # NoDisk /\ disk[mem[m].disk[at[m]]].file # NoFile

-----------------------------------------------------------------------------
MachineOK(m) == VmOfOK(m) /\ OwnedOK(m) /\ KeptOK(m) /\ ReportOK(m) /\ ShownOK(m)

CoreInv ==
    /\ DistinctVms /\ UsedOK
    /\ \A m \in Machines : MachineOK(m)
    /\ \A v \in VmIds : VmOK(v)
    /\ \A d \in Disks : NotedOK(d) /\ CacheOK(d)

FilesInv == CoreInv /\ \A m \in Machines : CopyOK(m) /\ StageOK(m)

=============================================================================
