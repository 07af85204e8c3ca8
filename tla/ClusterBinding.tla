---------------------------- MODULE ClusterBinding ----------------------------
(***************************************************************************)
(* How machines come to their cluster: the reconciler of the ScvmmCluster, *)
(* which marks it provisioned, and the first part of the machines'         *)
(* reconciler, which waits for owner, cluster and infrastructure, takes    *)
(* over the provider and sets the finalizer.  Each wait ends without a     *)
(* requeue: the machine is woken by the events that the two controllers    *)
(* map to it, which are cache updates here, since each informer fires them *)
(* as it stores the object.                                                *)
(*                                                                         *)
(* One Cluster with its ScvmmCluster; the Machines exist and carry the     *)
(* label of the cluster.  What reconcileNormal and reconcileDelete do with *)
(* VMs is in VmNaming; here they name the machine and unname it.           *)
(***************************************************************************)
EXTENDS Naturals

CONSTANTS
    Machines,      \* the ScvmmMachines
    NameOf,        \* machine -> the ScvmmMachine that has the name of its Machine
    Nobody,        \* no ScvmmMachine has that name
    MaxClusters,   \* the bound on the ScvmmClusters made under the name
    MaxPauses,     \* the bound on pauses of the Cluster
    MaxFaults      \* the bound on failing patches and restarts

ASSUME BindingAssumption ==
    /\ NameOf \in [Machines -> Machines \cup {Nobody}] /\ Nobody \notin Machines
    /\ MaxClusters \in Nat /\ MaxPauses \in Nat /\ MaxFaults \in Nat

VARIABLES
    cluster,    \* the Cluster in the API server
    sc,         \* the ScvmmCluster
    sm,         \* the ScvmmMachines
    ccluster,   \* the cached copies of the three
    csc,
    csm,
    scq,        \* whether the ScvmmCluster's key is in its work queue
    mq,         \* the machines whose key is in theirs
    spc,        \* the next step of the ScvmmCluster's reconcile
    pc,         \* the next step of the reconcile of each machine
    rd,         \* the copy of the machine that reconcile works on
    seen,       \* the copy of the Cluster it has read
    made,       \* the ScvmmClusters made so far
    pauses,     \* the pauses so far
    failures    \* the failures so far

apiVars == <<cluster, sc, sm>>
cacheVars == <<ccluster, csc, csm>>
queueVars == <<scq, mq>>
workVars == <<pc, rd, seen>>
countVars == <<made, pauses>>
vars == <<apiVars, cacheVars, queueVars, spc, workVars, countVars, failures>>

-----------------------------------------------------------------------------
(* The objects.                                                            *)

Cluster == [infra : BOOLEAN, paused : BOOLEAN]

ScvmmCluster == [phase : {"none", "live", "deleting"}, owner : BOOLEAN, final : BOOLEAN,
                 ready : BOOLEAN]

(* ref: provider, cloud and host group are filled in.  named: the machine  *)
(* has a VM, or a name for one.                                            *)
Machine == [phase : {"none", "live", "deleting", "gone"}, owner : BOOLEAN, ref : BOOLEAN,
            final : BOOLEAN, named : BOOLEAN]

NewCluster == [infra |-> FALSE, paused |-> FALSE]

NoScvmmCluster == [phase |-> "none", owner |-> FALSE, final |-> FALSE, ready |-> FALSE]

NoMachine == [phase |-> "none", owner |-> FALSE, ref |-> FALSE, final |-> FALSE, named |-> FALSE]

Here(o) == o.phase \in {"live", "deleting"}

Init ==
    /\ cluster = NewCluster /\ ccluster = cluster
    /\ sc = NoScvmmCluster /\ csc = sc
    /\ sm = [m \in Machines |-> NoMachine] /\ csm = sm
    /\ scq = FALSE /\ mq = {}
    /\ spc = "idle" /\ pc = [m \in Machines |-> "idle"] /\ rd = sm
    /\ seen = [m \in Machines |-> NewCluster]
    /\ made = 0 /\ pauses = 0 /\ failures = 0

Fails == failures < MaxFaults /\ failures' = failures + 1

-----------------------------------------------------------------------------
(* Users and the controllers of Cluster API.                               *)

CreateScvmmCluster ==
    /\ sc.phase = "none" /\ made < MaxClusters
    /\ sc' = [NoScvmmCluster EXCEPT !.phase = "live"] /\ made' = made + 1
    /\ UNCHANGED <<cluster, sm, cacheVars, queueVars, spc, workVars, pauses, failures>>

OwnScvmmCluster ==
    /\ Here(sc) /\ ~ sc.owner
    /\ sc' = [sc EXCEPT !.owner = TRUE]
    /\ UNCHANGED <<cluster, sm, cacheVars, queueVars, spc, workVars, countVars, failures>>

(* It is deleted to be made anew; the Cluster stays as it is.              *)
DeleteScvmmCluster ==
    /\ sc.phase = "live" /\ made < MaxClusters
    /\ sc' = IF sc.final THEN [sc EXCEPT !.phase = "deleting"] ELSE NoScvmmCluster
    /\ UNCHANGED <<cluster, sm, cacheVars, queueVars, spc, workVars, countVars, failures>>

SeeInfrastructure ==
    /\ sc.ready /\ ~ cluster.infra
    /\ cluster' = [cluster EXCEPT !.infra = TRUE]
    /\ UNCHANGED <<sc, sm, cacheVars, queueVars, spc, workVars, countVars, failures>>

Pause ==
    /\ ~ cluster.paused /\ pauses < MaxPauses
    /\ cluster' = [cluster EXCEPT !.paused = TRUE] /\ pauses' = pauses + 1
    /\ UNCHANGED <<sc, sm, cacheVars, queueVars, spc, workVars, made, failures>>

Unpause ==
    /\ cluster.paused
    /\ cluster' = [cluster EXCEPT !.paused = FALSE]
    /\ UNCHANGED <<sc, sm, cacheVars, queueVars, spc, workVars, countVars, failures>>

CreateMachine(m) ==
    /\ sm[m].phase = "none"
    /\ sm' = [sm EXCEPT ![m].phase = "live"]
    /\ UNCHANGED <<cluster, sc, cacheVars, queueVars, spc, workVars, countVars, failures>>

OwnMachine(m) ==
    /\ Here(sm[m]) /\ ~ sm[m].owner
    /\ sm' = [sm EXCEPT ![m].owner = TRUE]
    /\ UNCHANGED <<cluster, sc, cacheVars, queueVars, spc, workVars, countVars, failures>>

DeleteMachine(m) ==
    /\ sm[m].phase = "live"
    /\ sm' = [sm EXCEPT ![m].phase = IF sm[m].final THEN "deleting" ELSE "gone"]
    /\ UNCHANGED <<cluster, sc, cacheVars, queueVars, spc, workVars, countVars, failures>>

-----------------------------------------------------------------------------
(* Events.                                                                 *)

(* Variant: the machines of a cluster are woken for its infrastructure     *)
(* only.                                                                   *)
WakesForInfraOnly == cluster.infra /\ ~ ccluster.infra

(* ClusterUnpausedAndInfrastructureProvisioned for an update.              *)
Wakes ==
    \/ cluster.infra /\ ~ ccluster.infra
    \/ ccluster.paused /\ ~ cluster.paused

SyncCluster ==
    /\ ccluster # cluster
    /\ ccluster' = cluster
    /\ scq' = (scq \/ (Wakes /\ Here(csc)))
    /\ mq' = mq \cup {m \in Machines : Wakes /\ Here(csm[m])}
    /\ UNCHANGED <<apiVars, csc, csm, spc, workVars, countVars, failures>>

(* ScvmmClusterToScvmmMachines makes keys of the names of the Machines.    *)
SyncScvmmCluster ==
    /\ csc # sc
    /\ csc' = sc /\ scq' = TRUE
    /\ mq' = mq \cup {m \in Machines : \E n \in Machines :
                         NameOf[n] = m /\ (IF Here(sc) THEN sc.owner ELSE csc.owner)}
    /\ UNCHANGED <<apiVars, ccluster, csm, spc, workVars, countVars, failures>>

(* Variant: only what the spec says counts. *)
SpecChanged(m) ==
    [csm[m] EXCEPT !.final = sm[m].final, !.owner = sm[m].owner,
                   !.phase = IF @ = "live" THEN sm[m].phase ELSE @] # sm[m]

(* ownerOrGenerationChangedPredicate: a new finalizer wakes nobody.        *)
OwnerOrGenerationChanged(m) == [csm[m] EXCEPT !.final = sm[m].final] # sm[m]

SyncMachine(m) ==
    /\ csm[m] # sm[m]
    /\ csm' = [csm EXCEPT ![m] = sm[m]]
    /\ mq' = mq \cup {n \in {m} : OwnerOrGenerationChanged(m)}
    /\ UNCHANGED <<apiVars, ccluster, csc, scq, spc, workVars, countVars, failures>>

Crash ==
    /\ Fails
    /\ ccluster' = cluster /\ csc' = sc /\ csm' = sm
    /\ scq' = Here(sc) /\ mq' = {m \in Machines : Here(sm[m])}
    /\ spc' = "idle" /\ pc' = [m \in Machines |-> "idle"]
    /\ rd' = [m \in Machines |-> NoMachine] /\ seen' = [m \in Machines |-> NewCluster]
    /\ UNCHANGED <<apiVars, countVars>>

-----------------------------------------------------------------------------
(* The reconcile of the ScvmmCluster.                                      *)

BeginCluster ==
    /\ spc = "idle" /\ scq
    /\ scq' = FALSE
    /\ spc' = CASE ~ Here(csc) \/ ~ csc.owner -> "idle"
                [] Here(csc) /\ csc.owner /\ csc.phase = "deleting" -> "mark"
                [] csc.phase = "live" /\ csc.owner /\ ~ csc.final -> "finalize"
                [] csc.phase = "live" /\ csc.owner /\ csc.final -> "provision"
    /\ UNCHANGED <<apiVars, cacheVars, mq, workVars, countVars, failures>>

(* Variant: the first of the two patches of a deletion is the last. *)
FinalizerForgotten == sc

FinalizerRemoved ==
    IF sc.phase = "deleting" THEN NoScvmmCluster ELSE [sc EXCEPT !.final = FALSE]

(* Patches carry no resourceVersion, so that they may hit another object   *)
(* of the name.  One that is being deleted has its finalizer still, and    *)
(* setting it once more is no new finalizer.                               *)
PatchCluster ==
    /\ spc \in {"finalize", "provision", "mark", "remove"}
    /\ \/ /\ Here(sc)
          /\ \/ spc = "finalize" /\ sc' = [sc EXCEPT !.final = TRUE]
             \/ spc = "provision" /\ sc' = [sc EXCEPT !.ready = TRUE]
             \/ spc = "mark" /\ UNCHANGED sc
             \/ spc = "remove" /\ sc' = FinalizerRemoved
          /\ spc' = IF spc = "mark" THEN "remove" ELSE "idle"
          /\ UNCHANGED <<scq, failures>>
       \/ /\ \/ ~ Here(sc) /\ UNCHANGED failures
             \/ Fails
          /\ spc' = "idle" /\ scq' = TRUE
          /\ UNCHANGED sc
    /\ UNCHANGED <<cluster, sm, cacheVars, mq, workVars, countVars>>

-----------------------------------------------------------------------------
(* The reconcile of a machine.                                             *)

Goto(m, label) == pc' = [pc EXCEPT ![m] = label]

Return(m, again) ==
    /\ Goto(m, "idle")
    /\ rd' = [rd EXCEPT ![m] = NoMachine] /\ seen' = [seen EXCEPT ![m] = NewCluster]
    /\ mq' = mq \cup {n \in {m} : again}

Found(m) == Here(csm[m])

Begin(m) ==
    /\ pc[m] = "idle" /\ m \in mq
    /\ mq' = mq \ {m}
    /\ \/ ~ Found(m) /\ UNCHANGED <<pc, rd>>
       \/ /\ Found(m)
          /\ rd' = [rd EXCEPT ![m] = csm[m]]
          /\ Goto(m, IF csm[m].phase = "deleting" THEN "delete"
                     ELSE IF csm[m].owner THEN "cluster" ELSE "wait")
    /\ UNCHANGED <<apiVars, cacheVars, scq, spc, seen, countVars, failures>>

GetCluster(m) ==
    /\ pc[m] = "cluster"
    /\ seen' = [seen EXCEPT ![m] = ccluster]
    /\ Goto(m, IF rd[m].ref THEN "check" ELSE "infra")
    /\ UNCHANGED <<apiVars, cacheVars, queueVars, spc, rd, countVars, failures>>

(* Provider, cloud and host group are copied, since the ScvmmCluster may   *)
(* go before the machine does.  Without a failure domain, or with one the  *)
(* ScvmmCluster does not have, the reconcile ends in an error and nothing  *)
(* is kept of it.                                                          *)
CopyProvider(m) ==
    /\ pc[m] = "infra"
    /\ \/ /\ rd' = [rd EXCEPT ![m].ref = Here(csc)]
          /\ Goto(m, IF Here(csc) THEN "check" ELSE "wait")
          /\ UNCHANGED <<mq, seen, failures>>
       \/ Here(csc) /\ Fails /\ Return(m, TRUE)
    /\ UNCHANGED <<apiVars, cacheVars, scq, spc, countVars>>

(* Infrastructure, finalizer and pause are looked at in this order.        *)
Check(m) ==
    /\ pc[m] = "check"
    /\ \/ /\ rd[m].final /\ seen[m].infra /\ seen[m].paused
          /\ Return(m, FALSE)
       \/ /\ ~ (rd[m].final /\ seen[m].infra /\ seen[m].paused)
          /\ Goto(m, IF ~ seen[m].infra THEN "wait"
                     ELSE IF ~ rd[m].final THEN "finalize"
                     ELSE "normal")
          /\ UNCHANGED <<rd, seen, mq>>
    /\ UNCHANGED <<apiVars, cacheVars, scq, spc, countVars, failures>>

(* Variant: the finalizer is patched on its own. *)
WithFinalizerAlone(m) == [sm[m] EXCEPT !.final = TRUE]

(* The patch carries what this reconcile has filled in.                    *)
WithFinalizer(m) == [sm[m] EXCEPT !.final = TRUE, !.ref = @ \/ rd[m].ref]

(* Variant: a finalizer that could not be set is not missed. *)
FinalizeAnyway(m) == Goto(m, "normal") /\ UNCHANGED <<rd, seen, mq>>

FinalizeFailed(m) == Return(m, TRUE)

(* A machine that is being deleted has the finalizer already.              *)
AddFinalizer(m) ==
    /\ pc[m] = "finalize"
    /\ \/ /\ Here(sm[m])
          /\ sm' = [sm EXCEPT ![m] = WithFinalizer(m)]
          /\ \/ seen[m].paused /\ Return(m, FALSE)
             \/ /\ ~ seen[m].paused
                /\ Goto(m, "normal") /\ rd' = [rd EXCEPT ![m].final = TRUE]
                /\ UNCHANGED <<seen, mq>>
          /\ UNCHANGED failures
       \/ /\ \/ ~ Here(sm[m]) /\ UNCHANGED failures
             \/ Fails
          /\ FinalizeFailed(m)
          /\ UNCHANGED sm
    /\ UNCHANGED <<cluster, sc, cacheVars, scq, spc, countVars>>

(* patchReasonCondition without a requeue: a failure is forgotten.         *)
Wait(m) ==
    /\ pc[m] = "wait"
    /\ \/ Here(sm[m]) /\ sm' = [sm EXCEPT ![m].ref = @ \/ rd[m].ref] /\ UNCHANGED failures
       \/ ~ Here(sm[m]) /\ UNCHANGED <<sm, failures>>
       \/ Fails /\ UNCHANGED sm
    /\ Return(m, FALSE)
    /\ UNCHANGED <<cluster, sc, cacheVars, scq, spc, countVars>>

(* reconcileNormal, which makes a name or a VM and tries until it has.     *)
Normal(m) ==
    /\ pc[m] = "normal"
    /\ \/ /\ Here(sm[m])
          /\ sm' = [sm EXCEPT ![m].named = TRUE, ![m].ref = @ \/ rd[m].ref]
          /\ Return(m, FALSE)
          /\ UNCHANGED failures
       \/ /\ (~ Here(sm[m]) /\ UNCHANGED failures) \/ Fails
          /\ UNCHANGED sm
          /\ Return(m, TRUE)
    /\ UNCHANGED <<cluster, sc, cacheVars, scq, spc, countVars>>

(* reconcileDelete: removing a VM takes the provider.                      *)
Delete(m) ==
    /\ pc[m] = "delete"
    /\ \/ /\ ~ rd[m].final
          /\ UNCHANGED <<sm, failures>>
          /\ Return(m, FALSE)
       \/ /\ rd[m].final /\ (rd[m].named => rd[m].ref)
          /\ sm' = [sm EXCEPT ![m].final = FALSE,
                              ![m].phase = IF @ = "deleting" THEN "gone" ELSE @]
          /\ Return(m, FALSE)
          /\ UNCHANGED failures
       \/ /\ rd[m].final
          /\ (rd[m].named /\ ~ rd[m].ref /\ UNCHANGED failures) \/ Fails
          /\ UNCHANGED sm
          /\ Return(m, TRUE)
    /\ UNCHANGED <<cluster, sc, cacheVars, scq, spc, countVars>>

Reconcile(m) ==
    \/ Begin(m) \/ GetCluster(m) \/ CopyProvider(m) \/ Check(m) \/ AddFinalizer(m) \/ Wait(m)
    \/ Normal(m) \/ Delete(m)

Next ==
    \/ CreateScvmmCluster \/ OwnScvmmCluster \/ DeleteScvmmCluster
    \/ SeeInfrastructure \/ Pause \/ Unpause
    \/ SyncCluster \/ SyncScvmmCluster \/ Crash
    \/ BeginCluster \/ PatchCluster
    \/ \E m \in Machines :
          CreateMachine(m) \/ OwnMachine(m) \/ DeleteMachine(m) \/ SyncMachine(m) \/ Reconcile(m)

Spec == Init /\ [][Next]_vars

-----------------------------------------------------------------------------
(* Properties.                                                             *)

(* Every variable keeps its type, and who is being reconciled exists in    *)
(* the copy (Reconcile).                                                   *)
TypeOK ==
    /\ cluster \in Cluster /\ ccluster \in Cluster /\ seen \in [Machines -> Cluster]
    /\ sc \in ScvmmCluster /\ csc \in ScvmmCluster
    /\ sm \in [Machines -> Machine] /\ csm \in [Machines -> Machine]
    /\ rd \in [Machines -> Machine]
    /\ scq \in BOOLEAN /\ mq \subseteq Machines
    /\ spc \in {"idle", "finalize", "provision", "mark", "remove"}
    /\ pc \in [Machines -> {"idle", "cluster", "infra", "check", "finalize", "wait", "normal",
                            "delete"}]
    /\ \A m \in Machines : pc[m] # "idle" => Here(rd[m])
    /\ made \in 0 .. MaxClusters /\ pauses \in 0 .. MaxPauses /\ failures \in 0 .. MaxFaults

(* Nothing is done for a machine in SCVMM before the API server has its    *)
(* finalizer, although the copy that shows it may be old and patches carry *)
(* no resourceVersion (Reconcile, reconcileDelete).                        *)
FinalizerFirst == \A m \in Machines : pc[m] = "normal" => sm[m].final

(* A machine that has to be cleaned up knows its provider by itself: the   *)
(* ScvmmCluster may be gone by then (Reconcile).                           *)
KnowsProvider == \A m \in Machines : sm[m].final => sm[m].ref

(* A ScvmmCluster that is deleted goes, or another is made in its place    *)
(* (reconcileDelete of the ScvmmClusterReconciler).                        *)
DeletedClusterGoes == sc.phase = "deleting" ~> sc.phase # "deleting"

(* A machine gets to its first action in SCVMM, in whatever order owner,   *)
(* cluster and infrastructure come: none of its waits misses its event     *)
(* (Reconcile, SetupWithManager, ScvmmClusterToScvmmMachines).             *)
MachineProceeds ==
    \A m \in Machines : sm[m].phase = "live" ~> sm[m].named \/ sm[m].phase # "live"

(* A deleted machine goes, with its ScvmmCluster there or not              *)
(* (reconcileDelete).                                                      *)
DeletedMachineGoes == \A m \in Machines : sm[m].phase = "deleting" ~> sm[m].phase = "gone"

Fairness ==
    /\ WF_vars(CreateScvmmCluster) /\ WF_vars(OwnScvmmCluster)
    /\ WF_vars(SeeInfrastructure) /\ WF_vars(Unpause)
    /\ WF_vars(SyncCluster) /\ WF_vars(SyncScvmmCluster)
    /\ WF_vars(BeginCluster \/ PatchCluster)
    /\ \A m \in Machines : WF_vars(OwnMachine(m)) /\ WF_vars(SyncMachine(m)) /\ WF_vars(Reconcile(m))

FairSpec == Spec /\ Fairness

=============================================================================
