# cluster-api-provider-scvmm in TLA+

The provider runs as one Kubernetes controller manager. It turns Cluster API
machines into virtual machines of Microsoft SCVMM: reconcilers watch custom
resources, keep their progress in the resources' spec and status, and act on
SCVMM through PowerShell scripts sent over WinRM. Paths below are relative to
`src/`; `machine.go` stands for `internal/controllers/scvmmmachine_controller.go`.

## The system

| Part | State it keeps | Operations | Correct when | Modelled in |
|---|---|---|---|---|
| ScvmmMachine reconciler, names and VMs (`machine.go` 138-482, 924-985, 1107-1316) | `spec.vmName`, `spec.id`, finalizer | Reconcile, createVM, startVM, reconcileDelete | a machine keeps one name and one VM; two VMs of a name never run together; deletion ends and leaves no VM | `VmNaming` |
| ScvmmNamePool (`machine.go` 1107-1249, `api/v1alpha1/scvmmnamepool_types.go`) | `status.vmNameOwners`, `status.counts` | generateVMName, removeVMNameInPool | a name has one owner, an owner one name, nothing is taken from a live owner | `VmNaming`, `NameAllocator` |
| Name ranges (`machine.go` 1141-1209) | none | incrementString, loop over a range | the loop ends, the candidates are those of the range | `NameRange` |
| Persistent disks (`machine.go` 553-779, 988-1053; `scvmmpersistentdisk_controller.go`) | owner references and specs of the disks, `spec.disks` of the machine | claim, update, expand, remove; delete | a disk has one machine, a file one disk, and no file with data is deleted with a VM | `PersistentDisks`, `DiskOwners` |
| Boot (`machine.go` 263-348, 485-541, 781-922; `helper_cloudinit.go`) | VM properties, cloud-init medium, addresses | setStaticAddresses, addVMSpec, addCloudInitToVM, setVMProperties, startVM | a VM starts only when everything it needs is in place, and does start | `MachineBoot` |
| IP address claims (`helper_ipaddressclaim.go`) | IPAddressClaim objects, addresses in the machine's spec | create or patch, delete, wait | an address stays with its VM, and goes back after it | `MachineBoot` |
| Requeue and backoff (`machine.go` 1318-1400) | `status.backoff` | patchReasonCondition | delays grow and stay bounded | `Backoff` |
| ScvmmCluster reconciler, and a machine's way to its cluster (`scvmmcluster_controller.go`; `machine.go` 138-257, 1451-1543) | finalizers, readiness, the provider reference of a machine | reconcile, delete, map events to machines | nothing waits for an event that has passed | `ClusterBinding` |
| WinRM workers (`helper_winrmcommand.go`) | one unbuffered command channel, a connection per worker, a provider map | send, connect, fail over, keep alive, time out, stop | every command gets one answer, and never that of a command given up or of another provider; no command twice by itself | `RemoteCalls`, `WinrmWorkers` |
| ScvmmProvider reconciler | provider map | reconcile, delete | the map follows the objects | `WinrmWorkers` |
| Disk images (`helper_vfat.go`, `helper_iso9660.go`, `helper_vhdx.go`) | none | sizes and tables of an image | the tables describe what is written | `ImageLayout` |
| SCVMM (scripts in `scripts/`) | the VMs, their state, disks and media | CreateVM, GetVM, StartVM, RemoveVM, ... | modelled by what the scripts do | where they are called |

Interaction: the reconcilers read from the manager's cache, which trails the API
server; they write with patches (machines: no resourceVersion) and updates (pool
status: resourceVersion checked); SCVMM is reached by calls that may fail after
they took effect; watches put keys in a work queue that never runs two reconciles
of one machine at a time, but runs those of different machines concurrently.

Hard to test here: lagging caches against conditional and unconditional writes;
crashes and lost answers between an act in SCVMM and its record in Kubernetes;
checks in one call and acts in another; wake-ups that depend on an event passing
a predicate; one connection shared by commands that may time out. The list with
lines is under `hazards` in `PROJECT.json`.

## Modules

| Module | What it is |
|---|---|
| `NameAllocator` | the promise of name pools: one owner per name, one name per owner, names leave only machines on their way out |
| `VmNaming` | the ScvmmMachine reconciler from name to running VM and back, the name pools, the cache and its watches, SCVMM |
| `VmNamingInv` | the inductive invariants behind `OneRunningPerName` and `NoVmLeftBehind` |
| `VmNaming_proofs` | the proofs |
| `RemoteCalls` | the promise of the WinRM workers: one answer per call, one run per call at most, and a success is output of the call's own script or what an earlier successful call to the provider left |
| `WinrmWorkers` | callers, command channel, workers, connections, PowerShell hosts, the provider map and the ScvmmProvider reconciler |
| `WinrmWorkersInv` | the inductive invariant behind its safety properties |
| `WinrmWorkers_proofs` | the proofs |
| `DiskOwners` | the promise of disk pools: a disk goes from machine to machine only through the pool |
| `PersistentDisks` | persistent disks between machines, API server, caches and SCVMM, and the reconciler of deleted disks |
| `PersistentDisksInv` | the inductive invariant of disks, files and VMs |
| `PersistentDisks_proofs` | the invariant of owners, and the proofs |
| `MachineBoot` | from an existing VM to a running one: address claims, static addresses, medium, properties, start, and the release of the claims |
| `MachineBoot_proofs` | its invariants and the proofs |
| `ClusterBinding` | the ScvmmCluster reconciler and the machine reconciler up to its finalizer |
| `ClusterBinding_proofs` | its invariant and the proofs |
| `Backoff`, `Backoff_proofs` | the delays of patchReasonCondition, and the proofs |
| `NameRange`, `NameRange_proofs` | incrementString and the loop over a range; the proofs |
| `ImageLayout` | the extents, tables and directories of FAT, ISO 9660 and VHDX images |
| `ImageLayout_proofs` | its invariants and the proofs |
| `MC...` | the instances TLC checks |

### VmNaming

Each machine has a program counter `pc` that names the next call its reconcile
makes to the API server or to SCVMM; one action is one call with the code up to
the next. `rd` is the copy of the machine the reconcile read from the cache,
`hold` its copy of the pool and `current` whether that copy's resourceVersion is
still the pool's; `pick` and `got` are the name and the id in hand.

| Action | Code |
|---|---|
| `Begin` | Reconcile up to its first call, reconcileDelete's early returns |
| `AddFinalizer` | `machine.go` 240-247 |
| `GetVM` | getVM and the branches of reconcileNormal; `NeedsVm` is the head of createVM |
| `ReadPool`, `ScanPool`, `ClaimName` | generateVMName: reads and adoption, one candidate at a time, the update |
| `SanityCheck`, `PatchName`, `SendCreateVM`, `PatchId` | the rest of createVM |
| `CheckName`, `SendStartVM` | startVM |
| `SendRemoveVM`, `ReadRelease`, `ReleaseName`, `RemoveFinalizer` | reconcileDelete and removeVMNameInPool |
| `SyncMachine`, `SyncPool`, `Nudge` | watches, `ownerOrGenerationChangedPredicate`, events of other objects |
| `VmTaskDone`, `AdminStops`, `AdminRemoves`, `LateCommand` | SCVMM |
| `Crash` | a restart of the manager |

Names and ids are model values. The ranges of a pool are the sequence of their
candidates (`RangeOf`) and the set of names adoption accepts (`AdoptRange`).
The parts of reconcileNormal between a VM's creation and its start, conditions,
events and backoff times are left out; a delayed requeue is a queued key. The
pools are not deleted. SCVMM removes a VM that is off, and only a running one is
stopped first; while it works on a VM other commands to that VM do nothing.

A machine may be created with a `vmName`, also one with a pool (`Presets`): its
name is then entered in the pool by adoption only, when another machine looks for
one, and two machines may come with the same name. `ClaimHeld` and
`NameComesBack` are therefore about machines that take their names from the pool;
the other properties are about all. `todo.txt` (6) says that a machine sometimes
claims two names: generateVMName looks for the machine's entry first
(`machine.go` 1121-1125), and `OneNamePerMachine` is proved.

`Faults` chooses what may go wrong, so that each run has the interleavings its
question needs and stays finite: `VmIds` bounds how many VMs are ever created,
`MaxLate` how many commands may outlive their call.

### WinrmWorkers

`winrm` stands for `internal/controllers/helper_winrmcommand.go`. A worker's `pc`
is its place in winrmWorker and doWinrmWork, `cmd` the call it has, `ref` and
`version` the provider object it connected for, `tried` the hosts it has been
through from `first` on. `conn` is its connection together with what is behind
it: the commands PowerShell has not come to (`todo`; there are several when a call
was answered with what an earlier one left), the output on its way, and whether
anything came on stderr. A command whose connection was dropped before
it ran is an orphan that may run at any time or never.

| Action | Code |
|---|---|
| `Ask` | sendWinrmCommandWithErrorResult up to the wait for the answer (`winrm` 578-598) |
| `Take` | winrmWorker's receive |
| `Lookup` | doWinrmWork up to the loop over the hosts (224-247) |
| `Connect` | one turn of that loop: createWinrmCmd and SetExecHostStatus |
| `Report` | the patch of the provider's status, the answer when no host was reached (261-302) |
| `Send`, `Read` | SendInput, one ReadOutput and what the loop makes of it (309-355) |
| `KeepAlive`, `Receive` | the select on timer and channel, the comparison of providers (356-384) |
| `Stop`, `Finish` | StopWinrmWorkers in main's defer; the closed channel in both selects |
| `HostRuns`, `RunOrphan` | a host runs a command, with or without somebody reading; `Further` says how many pieces its script may print after its answer (`RemoveDiskFromVM.ps1` 14, 17) |
| `Edit`, `DeleteProvider` | users |
| `StoreProvider` | ScvmmProviderReconciler.Reconcile (`scvmmprovider_controller.go` 43-127) |
| `MapRace` | the map is written and read without a lock |

Left out or simplified:

- Setting up shell, PowerShell and functions is one step that succeeds or fails.
- A script's answer is one piece on stdout, which is what the worker assumes of
  it; what it prints on stderr comes before, with or after that piece.
- A version of a provider stands for the object with its hosts and credentials.
  The informer's periodic resync, which stores an equal object, is left out.
- `Stop` waits for the callers: mgr.Start returns nil only after its reconcilers
  have returned, and main exits without closing the channel otherwise.
- A deleted provider without a finalizer stays in the map: getProvider wraps the
  error with `%v`, so that Reconcile's IsNotFound never holds.
- Metrics, decoding of answers and logging, except for the log line at 377,
  which dereferences the map's entry.

### PersistentDisks

`pd` stands for `internal/controllers/scvmmpersistentdisk_controller.go`. Machines
have numbered slots and the pool numbered disks. `rd` is the copy of a machine
its reconcile read, `mem` the one it works on and patches later, `at` the slot it
has come to, `pick` the disk chosen for it and `current` whether the copy of that
disk is still the API server's. `fresh` are the disks whose cached copy is up to
date in its resourceVersion, which the contents alone do not tell. A file is
named by the disk it was first attached for and the VM it was made for; `used`
are the files a VM has run with, which hold data.

| Action | Code |
|---|---|
| `Begin`, `AddFinalizer` | Reconcile (`machine.go` 138-257), reconcileDelete's early return for a machine without a name |
| `ClaimDisk`, `UpdateClaim`, `CreateClaim` | vmClaimPersistentDisks and claimPersistentDisk: choice from the list, update under resourceVersion, or a new object up to `maxDisks` |
| `GetVM`, `SendCreateVM` | head of reconcileNormal, createVM |
| `NoteDisks`, `UpdateDisk`, `UpdateDiskFails` | vmUpdatePersistentDisks and the branches behind it |
| `ExpandDisks`, `SendStartVM`, `GetVMInfo` | expandDisks, startVM, getVMInfo |
| `LookAtVM`, `GiveBack`, `DetachDisk` | reconcileDelete and removePersistentDisks |
| `SendRemoveVM`, `RemoveFinalizer` | the rest of reconcileDelete |
| `RemovePersistentDisk`, `ForgetDisk` | ScvmmPersistentDiskReconciler.Reconcile (`pd` 53-117) |
| `SyncMachine`, `SyncDisk`, `CollectGarbage` | watches and the garbage collector, which drops references to machines that are gone and deletes objects left without an owner |
| `AdminDeletesDisk`, `VmTaskDone`, `Crash` | users, SCVMM, restarts |

Users delete disks that no machine owns ("admin") or that one does ("owned"); the
scripts can neither attach nor delete a file that a running VM has open
(`Open`), and StartVM fails when one of a VM's files is missing.

Left out: the other disks of a VM, sizes and IOPS limits. The pool is not
deleted. `VmIds` bounds the VMs; CreateVM fails when they are used up
(`Exhausted`).

### MachineBoot

`ip` stands for `internal/controllers/helper_ipaddressclaim.go`, `ci` for
`helper_cloudinit.go`. One machine with its name, cluster and provider; its disks
have the right size. An address is known by the claim, or the static device, it
is for. The medium on the share is `whole` or not and holds the addresses that
were in the machine when it was written.

| Action | Code |
|---|---|
| `Begin`, `GetVM`, `CreateVM` | Reconcile and reconcileNormal up to a VM |
| `ReconcileClaim` | one round of reconcileIPAddressClaims: create or patch, and what an answer gives (`ip` 71-136) |
| `Branch` | the branches of reconcileNormal (`machine.go` 284-347), with what the last round recorded |
| `SetStaticAddresses` | setStaticAddresses with SetVMNetwork |
| `CreateFile`, `FillFile` | writeCloudInit (`ci` 125-264): the file is opened, cut off and filled |
| `PatchStarting`, `SendAttach` | addCloudInitToVM |
| `SetVMProperties`, `StartVM`, `GetVMInfo` | the rest of reconcileNormal |
| `PatchReason` | the patch behind each branch, with or without a requeue |
| `SendRemoveVM`, `ReleaseClaim`, `RemoveFinalizer` | reconcileDelete and deleteIPAddressClaims |
| `SyncMachine`, `SyncClaim`, `SetBootstrapData` | watches and the events that queue the machine |
| `Answer`, `CollectGarbage`, `VmTaskDone`, `RemoveFile`, `LateAttach`, `AdminActs`, `Crash` | IPAM provider, garbage collector, SCVMM, administrators, restarts |

The answers of `AddVMSpec` are asked for and logged only (`machine.go` 527-541).
`scenario` is chosen at the start of a behaviour: which kinds of failures it may
have and how many, and whether its caches may lag.

### ClusterBinding

`cl` stands for `internal/controllers/scvmmcluster_controller.go`. One Cluster,
one ScvmmCluster that may be deleted and made anew, and machines. Events are the
updates of the caches, since an informer calls its handlers as it stores an
object; an event is an entry in the queue only if its predicate lets it pass.
`ref` stands for provider, cloud and host group, which are copied together; a
failure domain that is missing or unknown is a failure of `CopyProvider`. A
ScvmmCluster without a providerRef means the default provider (`winrm` 588-590)
and is copied again by each reconcile; a machine with its own `bootstrap` (171)
does not look for a cluster: neither is modelled.

| Action | Code |
|---|---|
| `BeginCluster`, `PatchCluster` | ScvmmClusterReconciler: finalizer, provisioned, and the two patches of a deletion (`cl` 55-172) |
| `Begin`, `GetCluster`, `CopyProvider`, `Check`, `AddFinalizer`, `Wait` | Reconcile of a machine (`machine.go` 138-257), in its order |
| `Normal`, `Delete` | what reconcileNormal and reconcileDelete mean for the machine's object: it gets a name, it loses its finalizer |
| `SyncCluster`, `SyncScvmmCluster`, `SyncMachine` | SetupWithManager, ScvmmClusterToScvmmMachines, ownerOrGenerationChangedPredicate |
| the others | users, Cluster API's controllers, restarts |

### Backoff, NameRange, ImageLayout

These follow one algorithm each. `Backoff` has an action per kind of caller of
patchReasonCondition: `PatchReasonCondition` for a wait, a script error or
another error, with a patch that may be lost, and `Up` for getVMInfo, which
clears the backoff. `NameRange` makes one turn of the loop over a range per step;
characters are codes, and the intervals of digits and letters are constants.
`ImageLayout` writes an image extent by extent: the size of the file system is
computed first (`CountFatSectors`, `GrowFat`, `CountIsoSectors`), a VHDX gets its
headers around it, and the FAT entries, which `PutChain` makes one at a time, are
the bytes of the table. Of everything else that is written only place and length
count. `Jobs` is the only constant: the files are those of writeCloudInit, two or
three with names of at most 14 characters and contents of any length.

## Runs

| Run | Instance | Shows |
|---|---|---|
| `vmnaming_onepool` | 2 machines, one of which may come with a name of the pool, 1 pool of 2 names, 1 VM id; API failures, lagging caches, stray events | `ClaimHeld`, `NameComesBack`, `OneNamePerMachine`, `VmNameStable`; `VmNaming` refines `NameAllocator` |
| `vmnaming_overlap` | a machine of the pool and one without that has the pool's one name, 2 VM ids, 1 late command; failing commands, restarts, an administrator | `OneRunningPerName`, `RecordedVmHasName` |
| `vmnaming_live` | 2 machines, 1 pool of 2 names, 2 VM ids, no faults, fair | `DeletionCompletes`, `MachineStarts`, `NoVmLeftBehind` |
| `disks_claims` | 2 machines, 2 disks, one of them a user's with data, 2 VM ids; failing updates and commands | `OneOwner`, `OneDiskPerFile`, `RunsOnItsOwnDisks`, `DataKept`; `PersistentDisks` refines `DiskOwners` |
| `disks_live` | 1 machine, 2 disks, one of them a user's, 3 VM ids; restarts that end, disks deleted by users; fair | `RecordedGetsAttached`, `DeletionCompletes`, `DeletedDiskGoes` |
| `boot_start` | 2 claims on a device, a static device, a DVD; four scenarios of failures; fair | `AddressHeld`, `StartsWhole`, `SpecShowsAddresses`, `Starts`, `ClaimsFreed` |
| `cluster_live` | 1 machine, 2 ScvmmClusters in turn, 1 pause, 1 failing patch or restart; fair | `FinalizerFirst`, `KnowsProvider`, `MachineProceeds`, `DeletedMachineGoes`, `DeletedClusterGoes` |
| `backoff_grows` | 2 reasons, waits of 0, 1 and 15 s, 62 tries: past the ten minutes | `Bounded`, `Grows` |
| `range_plain` | all ranges over 3 digits, 2 letters and a dash of 3 characters, with and without a postfix, whose end is not the greatest string | `NamesOfRange`, `Ends` |
| `image_small` | 2 or 3 files of 0 to 2049 bytes around the sector sizes, both file systems, as it is and in a VHDX; FATs around the sizes at which the table takes another sector and 16 bits | `Apart`, `FillsItsSize`, `ReadsBack` |
| `winrm_calls` | 3 calls for 2 providers, one with a script that prints twice, 1 worker, 2 hosts; connections that fail or break, time-outs, stderr, a provider edited and deleted, the map race; fair | `RunsAtMostOnce`, `OwnProvider`, `EveryHostTried`, `EveryCallAnswered`; `WinrmWorkers` refines `RemoteCalls` |
| `winrm_deleted` | 2 calls for a provider that is deleted while a connection is kept | `NeverPanics` is violated |

### Bounds

Two machines are what a race for a name or a disk needs, two names or disks what
a machine needs to end up with two; `vmnaming_overlap`'s pool has one name, so
that it is exhausted. One VM id is enough where the question is about names; two
let a name have two VMs. Of the machines of `vmnaming_onepool` one may be created
with the pool's first name (`Presets`), so that adoption meets a claim. `disks_live` has a third for the machine whose VM a
restart left without a record. A disk has to come back from one machine to be
claimed by the next, which two machines and two disks do in both directions.

Two claims on one device are what a device needs to have some of its addresses
only, and a static device beside them makes `setStaticAddresses` overwrite the
others. Failures in `boot_start` are two or three per behaviour, and of the kinds
that a scenario names: `Passing` (API, commands, share, patches, restarts),
`Interference` (commands, share, patches, an administrator), `Lagging` (API,
caches, restarts, and commands that run on after they were given up), `Behind`
(one old copy or one failing patch).

In `cluster_live` the machines do not meet each other; one is enough, and two
ScvmmClusters are one that goes while a machine needs it and one that comes.

Two calls on a connection are what a late answer needs to reach the wrong one;
the third is for another provider and makes the worker pass it back. One of them
has a script that prints one piece more than its answer (`Further`), and what is
left reaches the other. main creates
a single worker. Two hosts are enough for the loop to start with either and wrap
around. `MaxVersion` bounds how often a provider changes: once for a connection
to become outdated, twice for a status report and a change. Instances with two
workers, three hosts or a namespace more are covered by the theorems below.

Deadlock is not checked: a run ends when the machines are gone, the image is
written or the program has stopped, and the bounds end others.

The runs of one question leave out the faults of another. With lagging reads or
failing patches a machine may create two VMs and then stop for good (`CheckName`
counts two and asks for no requeue), or stop after a failed patch of its name
(`PatchName`); so `MachineStarts` holds without faults only, and
`NoVmLeftBehind` with commands that fail, administrators and stray events, but
not with the rest (`Answered`, see the proofs).
A restart between the attaching of a disk and its record leaves the disk on a VM
whose machine does not know it; `disks_claims`, with two machines, has no
restarts (see below), `disks_live` has them. What `boot_start` says of
a start is said of commands that end with their call (`Prompt`), since a late one
breaks it, and what it says of the spec, of the claims and of getting there is
said of caches that do not lag either (`Calm`); `Starts` is not stated with an
administrator, who may remove the VM as often as it is made.

### Fairness

Weak fairness for every reconcile, since the work queue hands out every key and a
call returns; for the caches, since informers deliver every change; for the
garbage collector, the IPAM and bootstrap providers and the controllers of
Cluster API, as far as a machine waits for them; for SCVMM's jobs. Nothing is
assumed of users, administrators or failures, but that restarts end
(`disks_live`: `<>[][~ Crash]_vars`), pauses are taken back and a ScvmmCluster
is made (`cluster_live`). A reconcile that takes an erroneous branch again and
again is not excluded by weak fairness; the bounds on failures do that, except
where a step has no failures in the run.

For the workers only the steps of each worker are weakly fair: a goroutine is
scheduled, connecting and sending return, and reading ends with a time-out when a
host says nothing. A panic ends the process and every promise with it, so
`EveryCallAnswered` says nothing of a process that is dead.

### Type invariants

Those of `VmNaming`, `WinrmWorkers`, `PersistentDisks`, `MachineBoot` and
`ClusterBinding` are proved, that of `Backoff` is part of its proved `Bounded`.
They also hold on the instances of the runs, none of which lists its own, since a
theorem says more than the run.

### Divergences between code and documentation

`winrm_deleted` is kept as a run. For each of the others a property states what
the documentation says, and TLC refutes it on the instance given; the parameters
are those of the named configuration unless changed.

| Property | Instance | The code does | It is said |
|---|---|---|---|
| `NeverPanics` (`WinrmWorkers`) | run `winrm_deleted` | a worker that kept a connection reads `winrmProviders[providerRef].ResourceVersion` (`winrm` 370, 377) when the next call comes; if the provider is being deleted (`scvmmprovider_controller.go` 61) the entry is gone, and the nil pointer ends the process | "to reload the provider", "for reprocessing" (`winrm` 371-372) |
| `QuietWhenKept` | `WinrmWorkers_deleted`, `Faults = {"stderr"}` | the loop leaves at stdout (327) before it collects what came on stderr (344) and reads nothing after the answer: the connection is kept | "If there was something on stderr, drop the connection" (`winrm` 350-351) |
| `TimeoutHonoured` | the same, `KeepAliveSeconds = 20` | createWinrmConnection (462) takes the limit from `keepAliveSeconds`; `timeoutSeconds` is not read | "Timeout setting on winrm connection" (`scvmmprovider_types.go` 45-46) |
| `NoCreateOverExistingName` (`VmNaming`) | `VmNaming_onepool`, 2 VM ids, `Faults = {"crash"}` | with a name in the spec createVM (450) does not look: after a restart between CreateVM and the patch of the id a second VM of the name is made, and startVM then starts neither | "Under no circumstances should we should use a VMName that already exists" (`machine.go` 402) |
| `UsedCountMatches` | `VmNaming_onepool`, `Faults = {"api"}` | removeVMNameInPool (1231-1240) drops entries of owners that are gone without counting them back | "Number of used addresses" (`scvmmnamepool_types.go` 59) |
| `DataSurvivesMachines` (`PersistentDisks`) | `PersistentDisks_claims`, 1 machine, `Faults = {"stale"}` | reconcileDelete (1280) decides by its own copy whether disks have to be detached; a copy from before the disk was recorded lets RemoveVM take the file with the VM | "storage can be persisted over node rollouts" (`PERSISTENT_DISK.md` 3) |
| `DataSurvivesMachines` | `PersistentDisks_claims`, 1 machine, `Named = {}`, `Faults = {"command"}` | disks are claimed before the VM's name is chosen; a machine without a name drops its finalizer (1260-1267) and gives nothing back, and the garbage collector deletes a disk whose only owner it was | the same |
| `RunsOnItsOwnDisks`, `DataKept` | `PersistentDisks_claims`, 1 disk, `Faults = {"crash"}` | after a restart between the attaching of a disk and the patch that records it, a machine that is deleted sees no disk and RemoveVM takes the file | the same |
| `RunsOnItsOwnDisks`, `DataKept` | the same, `Faults = {"patch"}` or `{"stale"}` | the same when the patch that records the disk fails, and when a reconcile begins with a copy from before it | the same |
| `OneDiskPerFile` | `PersistentDisks_claims`, `Faults = {"stale"}` | a machine that reads an old copy of itself claims a second disk for its slot, and vmUpdatePersistentDisks or removePersistentDisks notes for it the file of the first, which is still at the slot's LUN | the same |
| `NoDiskTwice` | `PersistentDisks_claims`, 1 machine, 2 slots | `seen` is filled before the loop over the slots (557), so a disk just claimed is chosen for the next slot as well | "Make sure not to re-claim disks already assigned" (`machine.go` 554) |
| `FreeDiskTaken` | `PersistentDisks_live`, 2 machines, 1 disk, no faults | nothing wakes a machine when a disk becomes free (`pd` 117) | "or triggered by unowned" (`pd` 126) |
| `Starts` (`MachineBoot`) | `MachineBoot_start`, `DeviceType = "floppy"` | vmNeedsCloudInit (514) looks among ISOs and disks, and VMToJson reports no floppies: the medium is written and attached for ever | "dvd floppy scsi ide" (`scvmmprovider_types.go` 79-80) |
| `Starts` | the same, gateway of a claim `NoGateway` | reconcileIPAddressClaims (`ip` 128) records a device's addresses only if one came with a gateway | "populated with IPAddresses fulfilled by an IPAM provider" (`scvmmmachine_types.go` 214-215) |
| `Starts` without `AnswerLost` | `MachineBoot_start` | only the answer of the command that has addresses chosen (786) puts them into the spec; when it is lost nothing asks again | "which will then be used to fill the cloud-init metadata" (`scvmmmachine_types.go` 220) |
| `SpecShowsAddresses` without its premise on "stale" | `MachineBoot_start`, the scenario `Behind` | a patch of the machine carries the whole list of devices: a reconcile that began with an old copy changes one of them, in setStaticAddresses (842) or from a claim (`ip` 131), and takes the addresses of the others out of the spec of a running VM | as for the answer that is lost |
| `ClaimsFreed` without its premise on "stale" | `MachineBoot_start` | deleteIPAddressClaims (`ip` 268) passes over a claim its cache does not show; the claim keeps its finalizer | "they will be deleted because the owner object (the scvmmmachine) will disappear" (`ip` 255) |
| `StartsWhole` without `Prompt` | `MachineBoot_start`, a scenario of "late" and "share" | a command given up attaches the file while the next reconcile writes it anew (887), and vmNeedsCloudInit goes by its name | as for the gateway |
| `MachineProceeds` (`ClusterBinding`) | `ClusterBinding_live`, `NameOf <- OtherName` | ScvmmClusterToScvmmMachines (`machine.go` 1480) makes keys of the names of Machines where that of the ScvmmMachine is in `infrastructureRef` | "requests for reconciliation of ScvmmMachines" (`machine.go` 1450) |
| `Ends` (`NameRange`) | `Ranges <- ToGreatest` | a range whose end is the greatest string of its kind never ends: incrementString wraps to the least (1168) | "End of name range" (`scvmmnamepool_types.go` 31) |
| `WithinRange` | `Ranges <- LongerEnd` | a range from 9 to 10 gives 9 only, which lies after its end in the order of strings | the same |
| `AdoptsItsNames` | `Ranges <- WithPostfix` | names are compared with the end of a range with the postfix still on (1134), so that the last one is not entered | "List of vmnames in use by ScvmmMachines" (`scvmmnamepool_types.go` 43) |
| `Apart` (`ImageLayout`) | `Jobs <- NearlyABlock` | writeVHDX (`helper_vhdx.go` 202) pads at the end of the first block whatever the size: 256 zeroes go over a file system that is larger | "Will most likely contain exactly just one block" (`helper_vhdx.go` 148), while 1 MiB is what a Secret holds |
| `DefaultIsVfat` | `Jobs <- NoFileSystem` | `FilesystemHandlers[""]` is writeISO9660 (`helper_iso9660.go` 180) | "Defaults to vfat" (`scvmmprovider_types.go` 75) |

Smaller hazards no property is about:

- a disk object that is deleted while a machine owns it goes once no running VM
  has its file open (`pd` 79-112), and from then on every reconcile of the machine
  fails at its record of the disk: vmClaimPersistentDisks (`machine.go` 574-578) and
  removePersistentDisks (1010) look up an object that is not there. With
  `Faults = {"owned"}` the owners stay right (`OneOwner` and `OwnersSpec`, which are
  proved with this fault), but on `PersistentDisks_claims` `RunsOnItsOwnDisks` and
  `DataKept` are false, and on `PersistentDisks_live` `RecordedGetsAttached`,
  `DeletionCompletes` and `DeletedDiskGoes`: the machine neither gets its disk nor,
  deleted, goes, and a disk that runs or was never attached stays;
- a disk that is deleted before a VM had it has no host, and its removal fails
  for ever (`pd` 92);
- ExpandVMDisks stops at the first LUN without a disk, which may be that of an
  empty slot (`ExpandVMDisks.ps1` 26);
- the built-in template of the host name has an unbalanced parenthesis and always
  fails (`ci` 101); it is used when the API's default does not apply;
- taking the paused annotation off a ScvmmMachine passes no predicate
  (`machine.go` 1499);
- the width of FAT entries is chosen from all sectors, while readers choose it
  from the clusters (`helper_vfat.go` 156);
- the worker takes the first output for the whole answer (`winrm` 327-331) and
  keeps the connection. RemoveDiskFromVM prints two documents when there is a disk
  to remove (14, 17), and JSON that is not compressed has several lines
  (`GetVM.ps1` 5, `ReadVM.ps1` 5, `StartVM.ps1` 5, `RemoveVM.ps1` 4 and 8,
  `RemoveDiskFromVM.ps1` 4 and 8, `GetLibraryShare.ps1` 7). What is left is the
  answer of the next call on the connection, whose own answer is then left for
  the one after it, until the connection is dropped; lines that arrive together are
  an answer that is no JSON (609). getVM compares the ids
  (`machine.go` 358-375); createVM does not look whose VM it is told of. The
  model has it, and `CallsSpec` says how far it goes. The modules of the machine
  (`VmNaming`, `PersistentDisks`, `MachineBoot`) have each call get its own answer;
- the error for a provider that is gone is wrapped with `%v`, is not recognised
  as NotFound (`scvmmprovider_controller.go` 53), and its map entry stays.

## Proofs

TLAPS checks these for all values of the constants. From the assumptions in
`VmNaming` alone (`NullAssumption`, `ConfigAssumption`, `BoundAssumption`):

| Theorem | Statement |
|---|---|
| `TypeCorrect` (`VmNaming_proofs`, like the rest) | `Spec => []TypeOK` |
| `InvCorrect` | `Spec => []IInv` |
| `Exclusion` | `Spec => []OneRunningPerName` |
| `ClaimsKept`, `NamesComeBack`, `OneName`, `RecordedName` | `Spec =>` always `ClaimHeld`, `NameComesBack`, `OneNamePerMachine`, `RecordedVmHasName` |
| `NameStable` | `Spec => VmNameStable` |
| `ImplementsAllocator` | `Spec => AllocatorSpec`: `VmNaming` implements `NameAllocator` |
| `NoneLeftBehind` | if `Answered`: `Spec => []NoVmLeftBehind` |

From `ConstantsAssumption` and `BoundsAssumption` of `WinrmWorkers`:

| Theorem | Statement |
|---|---|
| `TypeCorrect` (`WinrmWorkers_proofs`) | `Spec => []TypeOK` |
| `RunsOnce` | `Spec => []RunsAtMostOnce` |
| `KeepsPromise` | `Spec => CallsSpec`: `WinrmWorkers` implements `RemoteCalls` |
| `OwnAnswers` | in `Spec`, always: a call that succeeds has output of a call to the same provider that succeeded, and its own if the scripts for that provider print one piece each |
| `OwnProviders` | `Spec => []OwnProvider` |
| `AllHosts` | `Spec => []EveryHostTried` |

From the assumptions of the module each is about (`PersistentDisks`:
`NullAssumption`, `BoundAssumption`; `MachineBoot`: `BoundAssumption`;
`ClusterBinding`: `BindingAssumption`; `Backoff`: `BackoffAssumption`;
`NameRange`: `RangeAssumption`; `ImageLayout`: `JobsAssumption`):

| Theorem | Statement |
|---|---|
| `TypeCorrect` (`PersistentDisks_proofs`, `MachineBoot_proofs`, `ClusterBinding_proofs`) | `Spec => []TypeOK` of each |
| `DisksInvAlways` (`PersistentDisks_proofs`, like the next seven) | `Spec => []DisksInv` |
| `OneOwnerAlways` | `Spec => []OneOwner` |
| `OwnersRefined` | `Spec => OwnersSpec`: `PersistentDisks` implements `DiskOwners` |
| `FilesInvAlways` | if `Undisturbed`: `Spec /\ []NoSlotTwice => []FilesInv` |
| `SpecOneDiskPerFile` | the same for `OneDiskPerFile` |
| `SpecRunsOnItsOwnDisks` | the same for `RunsOnItsOwnDisks` |
| `SpecDataKept` | if `Undisturbed`: `Spec /\ []NoSlotTwice => DataKept` |
| `OneSlotIsSafe` | if `Undisturbed` and `NumSlots = 1`: `Spec` implies all three |
| `BootInvAlways` (`MachineBoot_proofs`) | `Spec => []BootInv` |
| `AddressAlwaysHeld` | `Spec => []AddressHeld` |
| `MediumAlways` | `Spec => []MediumInv`, with the types |
| `StartsAlwaysWhole` | `Spec => StartsWhole` |
| `SpecAlwaysShowsAddresses` | `Spec => []SpecShowsAddresses` |
| `BindingAlways` (`ClusterBinding_proofs`) | `Spec => []BindingInv` |
| `FinalizerAlwaysFirst`, `ProviderAlwaysKnown` | `Spec =>` always `FinalizerFirst`, `KnowsProvider` |
| `BoundedAlways`, `GrowsAlways` (`Backoff_proofs`) | `Spec => []Bounded`, `Spec => Grows` |
| `RangeAlways` (`NameRange_proofs`) | if all ranges are `Plain`: `Spec => []RangeInv` |
| `AlwaysNamesOfRange` | the same for `NamesOfRange` |
| `AlwaysAdoptsItsNames` | the same for `AdoptsItsNames`, without postfixes |
| `LayoutFills` (`ImageLayout_proofs`) | `Spec => []FillsItsSize` |
| `LayoutReadsBack` | `Spec => []ReadsBack` |
| `LayoutApart` | `Spec => [](Fits => Apart)` |

### VmNaming

Why an invariant is needed: startVM reads name and id from one copy of the
machine, counts the VMs of that name, and later starts that id. Two reconciles
exclude each other only if the name belongs to the id, so a machine's name must
never change. Patches carry no resourceVersion and come from cached reads, so
that rests on the pool: a machine reading an old copy of itself, still without
a name, either finds its name in its copy of the pool, or holds an outdated copy
that the API server rejects. `NamingInv` states this part by part: copies lag but
never contradict (`CopiesLag`, `CopiesConsistent`), what a reconcile knows at
each call (`WorkKnown`), the pool keeps a machine's name until the machine has
seen itself deleted (`PoolKeeps`, `FinalizersKept`), who may own a name
(`OwnersKnown`), and what a copy about to be written differs in, while it is
current (`UpdatesKnown`). The pool's part is about machines that take a name from
it (`Takes`): one whose user named it may lose its entry, which adoption makes
anew. `FinalizersKept` also gives `NameComesBack`: who owns a name has come past
AddFinalizer. `OneCleared` strengthens exclusion from running VMs to
those cleared to run: by a check that has passed or a start that is outstanding.
TLC checked `IInv` as an invariant of the three safety instances first.

The proof has two halves. Most steps are `Quiet`: they touch neither pool nor
cache and name a machine at most once, in agreement with the pools; one lemma
takes `NamingInv` over all of them, and steps that only read, that refresh a
copy and that update a pool have one lemma each. Then only `CheckName` clears a
VM, and it does so when no other VM has the name.

`NoneLeftBehind` rests on `RecordInv`. A VM without a record comes about between
CreateVM and the patch of the id, and stays if that patch fails, if the process
ends before it, if CreateVM goes on after its call was given up, or if a later
reconcile reads a machine from before the patch and creates another. `Answered`
is that none of this happens; commands that fail, administrators that stop and
remove VMs, and reconciles at any time remain. Then a reconcile works with the
record as it is, a record is written over only when its VM is gone, and it goes
only with the finalizer, which goes only when the VM does. On the instance of
`vmnaming_live` with failing commands, administrators and stray events
`RecordInv` is true, and with any one of the excluded faults `NoVmLeftBehind` is
false.

### WinrmWorkers

Whose output an answer is cannot be inductive: it depends on what is still in a
connection when the next call is sent. `WorkersInv` says where a call is
(`QueueInv`, `BusyInv`: once in the channel or with one worker), that its command
is nowhere before it is sent (`UnsentInv`) and in one place until it runs
(`TodoInv`). What a connection holds, commands or output, belongs to its own
provider, and to the call that its worker waits for or to one that has succeeded
(`Sends`, `Readable`): this is why a worker must drop a connection it has given up
on. Output that is still to be read has not been an answer yet, unless its script
prints more (`OutputInv`), and is on one connection (`ApartInv`). `VersionInv` and `ReferenceInv` follow the versions of a provider from
the map to the worker; `TriedInv` the hosts, whose number of attempts covers all
of them by arithmetic modulo their number (`AllTried`). TLC checked `WorkersInv`
on the instance of `winrm_calls` first.

The steps of a worker are seven kinds of moves of a call (`Advance`, `Received`,
`Sent`, `Answered`, `Noise`, `GivenUp`, `Dropped`), each with a lemma for the
whole invariant; then every action is one of these. The refinement needs of a
step only what it does to callers and scripts (`CallMoves`).

### PersistentDisks

A disk is claimed from a copy in the cache, and the copy says that it is free;
what makes the claim safe is that the API server takes the update only from a copy
with the current resourceVersion. `DisksInv` says what that comparison means:
whose copy is `fresh` sees the object as it is (`FreshOK`), and a machine that
is about to update a disk from a copy that is still `current` finds no other
machine among its owners, and the disk neither gone nor being deleted
(`PickOK`). Contents do not tell a fresh copy from one that is equal to the
object by chance, which is why `fresh` is a variable.

Every action is one of five kinds of steps: it leaves disks and copies alone
(`Quiet`), writes one disk (`Written`), brings a copy up to date (`Refreshed`),
chooses a disk (`Chosen`) or is a restart (`Restarted`). The invariant is shown
for each kind. A write is also `Proper`: of owner and fate of its disk it makes
what a step of `DiskOwners` does, which is the refinement.

What ties a disk object to its file is nowhere in one place. A file is attached
to a slot of a VM; the reconcile that did it notes it in the disk object by what
the VM reports at the slot's LUN; the claim that put the disk into the slot is in
the machine only after the patch at the end. Between these steps other machines
read copies of the disk, users delete it, a disk of the same name is made anew.
`FilesInv` says in which ways object, cached copy, VM and the reconcile under way
may then differ: a file on a VM is noted by the disk its machine has in that slot
or by none yet (`VmOK`, `KeptOK`), a noted file is on the VM of the machine or on
none, while it is there (`NotedOK`), a file nobody has noted is on the VM it was
made for (`Secret`), a cached copy lags behind a note or shows the file of an
earlier disk, which is gone for good (`CacheOK`, `Over`), and what a reconcile
was told of its VM still holds where it uses it (`ReportOK`, `StageOK`).
TLC checked it as an invariant of small instances with each kind of fault, and
what it refuted there are the hypotheses:

- `Undisturbed`: no patch of a machine fails, nothing is cut off by a restart,
  no reconcile begins with an old copy of its machine, and nobody deletes a disk
  that a machine owns. Each of the first three leaves a file on a VM that its
  machine does not know of (see the divergences), the fourth a machine with a
  file whose disk is gone. Failing updates and commands, users who delete disks
  nobody owns and lagging copies of disks are allowed.
- `NoSlotTwice`: no machine has a disk in two slots. The code does not see to it
  (`NoDiskTwice`), and the two slots then share a file. It is a hypothesis on the
  behaviour for machines of several disks, and holds by itself for those of one,
  which is `OneSlotIsSafe`.

Disks are chosen by loops that stop at the first match; that the first of a set
exists follows from the library's theorem that `<` is well-founded.

### MachineBoot

`BootInv` divides the life of a machine. In the first part (`Holding`) every
address on its way to the VM, in the machine's spec, in a copy of it, in the
hands of a reconcile, on the share, or in the VM, is of a claim that is answered
and protected. The second (`Releasing`) begins when a reconcile that has read the
deletion finds no VM. From then on the cache does not show the machine as live
again, so that no reconcile can make a VM, and claims may go. A command that runs
on after its call was given up does not lead back, as it has no VM to act on. The
order in which reconcileDelete looks for the VM and frees the claims is what the
second part rests on.

`MediumInv` is about the medium: on the share it is complete once it is whole,
since a reconcile comes to write it only after all addresses are in the copy it
works with, and in the VM it is what was attached. A command that runs on after
its call attaches what the next reconcile is writing, hence `Prompt` in the
property. `CalmInv` is about the spec: nobody but the reconcile under way writes
the networking (`CopiesCurrent`), static addresses are there before the medium is
written, so that they are not asked for again (`StaticFirst`), and once the VM
has a medium every reconcile finds all claims answered, so that what it patches
is the whole list (`Told`). A reconcile that begins with an old copy of the
machine writes back what it began with, hence `Calm`.

### ClusterBinding

startVM and the rest of reconcileNormal are reached only with a finalizer in the
copy that was read, and the finalizer is removed by another reconcile, perhaps of
a newer copy. `BindingInv` has what relates them: a copy of a live machine with a
finalizer is of an object that still has it, deletion is for good, and the
finalizer goes only after the cache has shown the deletion (`CopyLags`,
`WorkKnown`). The provider is recorded by the same patch as the finalizer, so that
every copy with the one has the other. The types need this as well: who is being
reconciled exists in the copy at hand. A step concerns one machine, and the proof
shows that what each makes of object, copy, reconcile and program counter is
`Allowed`.

### Backoff

`Agrees` says what the backoff in the status has to do with the steps that left a
trace there: reason and number are those of the current row. From it follows the
bound of every delay and its growth, by cases on wait, reason and error.

### NameRange

The strings of a shape have digits, letters and other characters in the same
places, and the same other characters. In the order of strings (`Before`, which
is `Less` for strings of one length: `LessIsBefore`) incrementString gives the
next one of the shape (`Incremented`, `IncrementedIsLater`, `IncrementedIsNext`),
unless there is none, where it starts again from the first. `RangeInv` is
then that the names so far are the strings from start to the one before `c`, in
their order. A range is `Plain` if its end has the shape of its start and is
not the last of it, or if it has no end; the divergences above are ranges that
are not. No number is computed, so that no induction over strings is needed:
two strings are told apart by the first character that differs.

### ImageLayout

The files are counted twice. writeVHDX asks for the size, makes its headers from
the answer and has the file system written, which computes its size anew; and the
size of a FAT comes out of a loop, since its sectors need entries of their own.
`SizeInv` says that the loop stays below the smallest table that is large enough
(`Counting`, `LeastFat`) and hence stops at it (`Counted`). There is only one
(`LeastUnique`), so both passes agree. `PlaceInv` says where each file goes.

`ChainInv` is about the table: the entries put so far lead from each cluster to
the next of its file, and the byte that the next entry shares with the last one
has its half free (`HalfFree`). `PutEntry` is the lemma about putFATEnt: what it
puts is what is read, for 12 bits with even and odd numbers and for 16, and it
leaves the entries before as they were. That the table has room for all entries is
again `Counted` (`Room`).

`ApartInv` says that everything written ends where the next thing begins. `Apart`
holds under `Fits`: the file system of a VHDX leaves 256 bytes of its first block.
Without that it is false, as the divergences say. `Fits` is a matter of how long
the user-data are, and the code does not check it. The directory of ISO 9660 needs
no such condition: for three files it fits into its sector (`DirectoryFits`).

TLC checked the four invariants on the instance of `image_small` first. Sums over
files are functions on the numbers up to the number of files, and facts about them
are shown by a least counterexample, which `<` being well-founded provides; Or of
two bytes is a sum of eight bits.

### Only model-checked

- Liveness, which the prover does not reach, nor ENABLED, of which fairness is
  made: `DeletionCompletes`, `MachineStarts`, `RecordedGetsAttached`,
  `DeletedDiskGoes`, `Starts`, `ClaimsFreed`, `MachineProceeds`,
  `DeletedMachineGoes`, `DeletedClusterGoes`, `EveryCallAnswered`, `Ends`.
- That an image is written at all: the theorems say what it is like once it is.
- How far the hypotheses go that some theorems have (`Answered`, `Undisturbed`):
  that each of their parts is needed is a counterexample on an instance.
- The promises about files with several disks for a machine, as far as they do
  not follow from `NoSlotTwice`; they are false there.
- The divergences.

## Not modelled

- The bytes of an image that are not extents, tables or directory entries (boot
  sector, volume descriptors, VHDX metadata), and the VHD of `helper_vhd.go`,
  which no device type leads to. They are encodings without a choice.
- The text of the cloud-init files and the template of the host name
  (`helper_cloudinit.go`): text is not what the properties are about.
- Conditions, events, metrics and the status fields that only report
  (`machine.go` 370-382, 1404-1412): nothing in the code reads them back but the
  backoff.
- The paused annotation of a ScvmmMachine itself: what ends that pause passes no
  predicate, so nothing can be promised; the Cluster's pause is in
  `ClusterBinding`.
- Resizing of disks and IOPS limits (`ExpandVMDisks.ps1`): numbers passed through
  to SCVMM.
- `RemoveIsoFromVM.ps1` and `getPersistentDiskFromShare`, which are not called, and
  `GetLibraryShare.ps1`, which answers a constant path.
- Templates, deep copies, manifests, tests and build files: declarations and
  generated code.
- One module for a whole machine. `VmNaming`, `PersistentDisks`, `MachineBoot` and
  `ClusterBinding` each follow the reconciler with the part of its state that
  their properties are about, with the other parts as steps that may or may not
  happen. All of them together have no instance small enough to check; what one
  leaves out appears in the others as a failure, a wait or a restart.
