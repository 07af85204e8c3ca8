----------------------------- MODULE VmNamingInv -----------------------------
(***************************************************************************)
(* The inductive invariant behind OneRunningPerName.                       *)
(*                                                                         *)
(* What startVM counts are the VMs of the name in the copy it read, and    *)
(* what it starts is the id in that copy.  That the two belong together    *)
(* rests on a machine's name never changing, although reads are stale and  *)
(* patches carry no resourceVersion, and this on the pool's update being   *)
(* conditional: a machine that reads an old copy of itself without a name  *)
(* finds the name it has in the pool, or fails to update the pool.         *)
(***************************************************************************)
EXTENDS VmNaming

(* b is a state of the machine no earlier than a. *)
Later(a, b) ==
    /\ a.phase # "absent" => b.phase # "absent"
    /\ a.phase \in {"deleting", "gone"} => b.phase \in {"deleting", "gone"}
    /\ a.phase = "gone" => b.phase = "gone"
    /\ a.vmName # NoName => b.vmName = a.vmName

CopiesLag == \A m \in Machines : Later(cobj[m], obj[m]) /\ Later(rd[m], cobj[m])

(* A copy with an id has the name of that VM. *)
Consistent(o) ==
    /\ o.phase = "absent" => o.vmName = NoName /\ o.id = NoVm
    /\ o.fin => Present(o)
    /\ o.id # NoVm => /\ vm[o.id].st # "unused"
                      /\ o.vmName # NoName /\ vm[o.id].name = o.vmName

CopiesConsistent ==
    \A m \in Machines : Consistent(obj[m]) /\ Consistent(cobj[m]) /\ Consistent(rd[m])

(* What a reconcile knows at each of its calls. *)
NamingLabels == {"gen", "scan", "claim", "sanity", "patchName"}

Knows(m) ==
    /\ pc[m] \in NamingLabels \cup {"finalizer", "get", "create", "patchId", "check", "start"}
         => rd[m].phase = "live"
    /\ pc[m] \in NamingLabels => PoolOf[m] \in Pools /\ rd[m].vmName = NoName
    /\ pc[m] \in {"remove", "release", "update", "unfinalize"} => rd[m].phase = "deleting"
    /\ pc[m] \in {"sanity", "patchName", "create", "patchId"} => pick[m] \in Names
    /\ pc[m] \in {"create", "patchId"} =>
         \/ rd[m].vmName = pick[m]
         \/ rd[m].vmName = NoName /\ PoolOf[m] = NoPool /\ pick[m] = NameOf[m]
    /\ pc[m] = "patchId" =>
         got[m] \in VmIds /\ vm[got[m]].st # "unused" /\ vm[got[m]].name = pick[m]
    /\ pc[m] \in {"idle", "finalizer", "get", "gen", "scan"} => pick[m] = NoName

WorkKnown == \A m \in Machines : Knows(m)

(* A machine without a pool takes no other name than its own. *)
OwnNameOnly ==
    \A m \in Machines : PoolOf[m] = NoPool =>
        \A o \in {cobj[m], rd[m]} :
            o.phase # "absent" /\ o.vmName = NoName => obj[m].vmName \in {NoName, NameOf[m]}

(* Until a machine sees itself deleted, it keeps its finalizer and the     *)
(* pool its name.                                                          *)
Holding(m) == cobj[m].phase \in {"absent", "live"} \/ rd[m].phase = "live"

(* A machine that goes by no name its user has given it: none could be      *)
(* given, it has none, or a copy of it shows that it had none.             *)
Takes(m) ==
    /\ PoolOf[m] \in Pools
    /\ \/ Presets[m] = {} \/ obj[m].vmName = NoName
       \/ \E o \in {cobj[m], rd[m]} : o.phase # "absent" /\ o.vmName = NoName

Owns(m) == Takes(m) /\ \E n \in Names : pool[PoolOf[m]].owner[n] = m

FinalizerKept(m) ==
    Holding(m) /\ (cobj[m].fin \/ pc[m] \notin {"idle", "finalizer"} \/ Owns(m)) => obj[m].fin

FinalizersKept == \A m \in Machines : FinalizerKept(m)

PoolKeeps ==
    \A m \in Machines : Takes(m) /\ Holding(m) =>
        LET owner == pool[PoolOf[m]].owner
        IN /\ obj[m].vmName # NoName => owner[obj[m].vmName] = m
           /\ \A n \in Names : cpool[PoolOf[m]].owner[n] = m => owner[n] = m
           /\ pc[m] \in {"sanity", "patchName"} => owner[pick[m]] = m

(* Who may own name n of pool p. *)
MayOwn(p, n, x) ==
    /\ x \in Machines /\ cobj[x].phase # "absent" /\ Namespace[x] = Namespace[p]
    /\ PoolOf[x] = p \/ obj[x].vmName = n
    /\ obj[x].vmName \in {NoName, n}

OwnersKnown ==
    \A p \in Pools : \A n \in Names :
        pool[p].owner[n] # Nobody => MayOwn(p, n, pool[p].owner[n])

FreshMeansEqual == \A p \in Pools : poolFresh[p] => cpool[p] = pool[p]

(* The copy a machine will update the pool with, while it is current. *)
ClaimCopyOf(m) ==
    pc[m] \in {"scan", "claim"} /\ current[m] =>
        LET old == pool[PoolOf[m]].owner
            new == hold[m].owner
        IN /\ \A n \in Names :
                /\ old[n] # m
                /\ old[n] # Nobody => new[n] = old[n]
                /\ old[n] = Nobody /\ new[n] # Nobody =>
                     \/ pc[m] = "claim" /\ new[n] = m /\ n = pick[m]
                     \/ /\ cobj[new[n]].phase # "absent" /\ cobj[new[n]].vmName = n
                        /\ Namespace[new[n]] = Namespace[PoolOf[m]]
           /\ pc[m] = "claim" /\ pick[m] # NoName => new[pick[m]] = m

ReleaseCopyOf(m) ==
    pc[m] = "update" /\ current[m] =>
        LET old == pool[PoolOf[m]].owner
            new == hold[m].owner
        IN \A n \in Names :
             \/ new[n] = old[n]
             \/ new[n] = Nobody /\ old[n] \in Machines
                /\ (old[n] = m \/ cobj[old[n]].phase = "gone")

UpdatesKnown == \A m \in Machines : ClaimCopyOf(m) /\ ReleaseCopyOf(m)

(* A VM runs, or may yet be started by a check that has been passed. *)
Cleared(v) ==
    \/ IsUp(v)
    \/ [op |-> "start", id |-> v] \in late
    \/ \E m \in Machines : pc[m] = "start" /\ rd[m].id = v

OneCleared ==
    \A v, w \in VmIds :
        Exists(v) /\ Exists(w) /\ vm[v].name = vm[w].name /\ Cleared(v) /\ Cleared(w) => v = w

LateStartsKnown ==
    \A v \in VmIds : [op |-> "start", id |-> v] \in late => vm[v].st # "unused"

NamingInv ==
    /\ CopiesLag /\ CopiesConsistent /\ WorkKnown /\ OwnNameOnly
    /\ FinalizersKept /\ PoolKeeps /\ OwnersKnown /\ OneNamePerMachine
    /\ FreshMeansEqual /\ UpdatesKnown

(* A machine's name, the pool's entry for it, every copy of either and the *)
(* recorded VM agree, and no two VMs of a name are cleared to run.         *)
IInv == TypeOK /\ NamingInv /\ LateStartsKnown /\ OneCleared

-----------------------------------------------------------------------------
(* Every answer gets to its reconcile, and each reads what is.             *)
Answered ==
    /\ Faults \cap {"api", "stale", "crash"} = {}
    /\ "command" \in Faults => MaxLate = 0

(* Where a reconcile has found that the machine has no VM.                 *)
WithoutVm == NamingLabels \cup {"create", "patchId", "release", "update", "unfinalize"}

(* The record of a machine is what its reconcile has read; it is written   *)
(* over only if the VM is gone, and it goes only with its finalizer.       *)
RecordOK(m) ==
    /\ pc[m] # "idle" => rd[m].id = obj[m].id
    /\ pc[m] # "patchId" => got[m] = NoVm
    /\ pc[m] \in WithoutVm => ~ Exists(obj[m].id)
    /\ obj[m].id # NoVm => obj[m].fin \/ obj[m].phase = "gone"

(* The invariant behind NoVmLeftBehind, on top of IInv.                    *)
RecordInv == late = {} /\ NoVmLeftBehind /\ \A m \in Machines : RecordOK(m)

=============================================================================
