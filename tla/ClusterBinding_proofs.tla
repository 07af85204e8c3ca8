------------------------ MODULE ClusterBinding_proofs ------------------------
(***************************************************************************)
(* Proofs about ClusterBinding: the finalizer comes before anything in     *)
(* SCVMM, and the provider with it, however old the copies are.            *)
(*                                                                         *)
(* Both rest on one fact: the finalizer of a machine is removed only after *)
(* the cache has shown its deletion, and from then on no copy that could   *)
(* let the machine proceed is read.                                        *)
(***************************************************************************)
EXTENDS ClusterBinding, TLAPS

Dying == {"deleting", "gone"}

(* A copy without the deletion does not show a finalizer that is not       *)
(* there, and deletion is for good.                                        *)
CopyLags(m) ==
    /\ csm[m].phase = "live" /\ csm[m].final => sm[m].final
    /\ csm[m].phase \in Dying => sm[m].phase \in Dying

(* What a reconcile knows of its machine.                                  *)
WorkKnown(m) ==
    /\ pc[m] = "delete" => csm[m].phase \in Dying
    /\ pc[m] \notin {"idle", "delete"} /\ rd[m].final => sm[m].final
    /\ pc[m] = "normal" => rd[m].final
    /\ pc[m] \in {"check", "finalize", "normal"} => rd[m].ref

MachineInv(m) == CopyLags(m) /\ WorkKnown(m) /\ (sm[m].final => sm[m].ref)

MachinesOK ==
    /\ sm \in [Machines -> Machine] /\ csm \in [Machines -> Machine]
    /\ rd \in [Machines -> Machine]
    /\ pc = [m \in Machines |-> pc[m]]

BindingInv == MachinesOK /\ \A m \in Machines : MachineInv(m)

machineVars == <<sm, csm, rd, pc>>

-----------------------------------------------------------------------------
(* The steps of one machine.                                               *)

(* What a step does to machine m, and that it leaves the others alone.     *)
Moves(m, obj, copy, work, label) ==
    /\ sm' = [sm EXCEPT ![m] = obj] /\ csm' = [csm EXCEPT ![m] = copy]
    /\ rd' = [rd EXCEPT ![m] = work] /\ pc' = [pc EXCEPT ![m] = label]

(* The invariant of m after such a step, said of what m becomes.           *)
Allowed(obj, copy, work, label) ==
    /\ obj \in Machine /\ copy \in Machine /\ work \in Machine
    /\ copy.phase = "live" /\ copy.final => obj.final
    /\ copy.phase \in Dying => obj.phase \in Dying
    /\ label = "delete" => copy.phase \in Dying
    /\ label \notin {"idle", "delete"} /\ work.final => obj.final
    /\ label = "normal" => work.final
    /\ label \in {"check", "finalize", "normal"} => work.ref
    /\ obj.final => obj.ref

Proper(m) ==
    \E obj, copy, work, label : Moves(m, obj, copy, work, label) /\ Allowed(obj, copy, work, label)

LEMMA ProperKeeps ==
  ASSUME BindingInv, NEW m \in Machines, Proper(m)
  PROVE  BindingInv'
<1>1. PICK obj, copy, work, label : Moves(m, obj, copy, work, label) /\ Allowed(obj, copy, work, label)
  BY DEF Proper
<1>2. MachinesOK'
  BY <1>1 DEF BindingInv, MachinesOK, Moves, Allowed
<1>3. ASSUME NEW n \in Machines
      PROVE  MachineInv(n)'
  <2>1. CASE n = m
    <3>1. sm'[m] = obj /\ csm'[m] = copy /\ rd'[m] = work /\ pc'[m] = label
      BY <1>1 DEF BindingInv, MachinesOK, Moves
    <3>2. QED
      BY <1>1, <2>1, <3>1 DEF Allowed, MachineInv, CopyLags, WorkKnown
  <2>2. CASE n # m
    <3>1. sm'[n] = sm[n] /\ csm'[n] = csm[n] /\ rd'[n] = rd[n] /\ pc'[n] = pc[n]
      BY <1>1, <2>2 DEF BindingInv, MachinesOK, Moves
    <3>2. QED
      BY <3>1 DEF BindingInv, MachineInv, CopyLags, WorkKnown
  <2>3. QED
    BY <2>1, <2>2
<1>4. QED
  BY <1>2, <1>3 DEF BindingInv

LEMMA SameKeeps ==
  ASSUME BindingInv, UNCHANGED machineVars
  PROVE  BindingInv'
  BY DEF BindingInv, MachinesOK, MachineInv, CopyLags, WorkKnown, machineVars

(* The invariant holds of what a machine is before the step.               *)
LEMMA IsAllowed ==
  ASSUME BindingInv, NEW m \in Machines
  PROVE  Allowed(sm[m], csm[m], rd[m], pc[m])
  BY DEF BindingInv, MachinesOK, MachineInv, CopyLags, WorkKnown, Allowed

(* The steps of users, of the watch and of a reconcile, each of them one   *)
(* of these.                                                               *)
LEMMA EnvironmentProper ==
  ASSUME BindingInv, NEW m \in Machines,
         CreateMachine(m) \/ OwnMachine(m) \/ DeleteMachine(m) \/ SyncMachine(m)
  PROVE  Proper(m)
<1> DEFINE o == sm[m]
<1>1. Allowed(o, csm[m], rd[m], pc[m])
  BY IsAllowed
<1>2. /\ csm = [csm EXCEPT ![m] = csm[m]] /\ rd = [rd EXCEPT ![m] = rd[m]]
      /\ pc = [pc EXCEPT ![m] = pc[m]] /\ sm = [sm EXCEPT ![m] = sm[m]]
  BY DEF BindingInv, MachinesOK
<1>3. CASE CreateMachine(m)
  <2> DEFINE new == [o EXCEPT !.phase = "live"]
  <2>1. Moves(m, new, csm[m], rd[m], pc[m])
    BY <1>2, <1>3 DEF CreateMachine, Moves, cacheVars, workVars
  <2>2. Allowed(new, csm[m], rd[m], pc[m])
    BY <1>1, <1>3 DEF CreateMachine, Allowed, Machine, Dying
  <2>3. QED
    BY <2>1, <2>2 DEF Proper
<1>4. CASE OwnMachine(m)
  <2> DEFINE new == [o EXCEPT !.owner = TRUE]
  <2>1. Moves(m, new, csm[m], rd[m], pc[m])
    BY <1>2, <1>4 DEF OwnMachine, Moves, cacheVars, workVars
  <2>2. Allowed(new, csm[m], rd[m], pc[m])
    BY <1>1 DEF Allowed, Machine, Dying
  <2>3. QED
    BY <2>1, <2>2 DEF Proper
<1>5. CASE DeleteMachine(m)
  <2> DEFINE new == [o EXCEPT !.phase = IF o.final THEN "deleting" ELSE "gone"]
  <2>1. Moves(m, new, csm[m], rd[m], pc[m])
    BY <1>2, <1>5 DEF DeleteMachine, Moves, cacheVars, workVars
  <2>2. Allowed(new, csm[m], rd[m], pc[m])
    BY <1>1 DEF Allowed, Machine, Dying
  <2>3. QED
    BY <2>1, <2>2 DEF Proper
<1>6. CASE SyncMachine(m)
  <2>1. Moves(m, o, o, rd[m], pc[m])
    BY <1>2, <1>6 DEF SyncMachine, Moves, apiVars, workVars
  <2>2. Allowed(o, o, rd[m], pc[m])
    BY <1>1 DEF Allowed, Dying
  <2>3. QED
    BY <2>1, <2>2 DEF Proper
<1>7. QED
  BY <1>3, <1>4, <1>5, <1>6

LEMMA ReconcileProper ==
  ASSUME BindingInv, NEW m \in Machines, Reconcile(m)
  PROVE  Proper(m)
<1> DEFINE o == sm[m]
           r == rd[m]
<1>1. Allowed(o, csm[m], r, pc[m])
  BY IsAllowed
<1>2. /\ csm = [csm EXCEPT ![m] = csm[m]] /\ rd = [rd EXCEPT ![m] = rd[m]]
      /\ pc = [pc EXCEPT ![m] = pc[m]] /\ sm = [sm EXCEPT ![m] = sm[m]]
  BY DEF BindingInv, MachinesOK
<1>3. NoMachine \in Machine /\ ~ NoMachine.final
  BY DEF NoMachine, Machine
<1>4. CASE Begin(m)
  <2>1. CASE ~ Found(m)
    <3>1. Moves(m, o, csm[m], r, pc[m])
      BY <1>2, <1>4, <2>1 DEF Begin, Moves, apiVars, cacheVars
    <3>2. QED
      BY <1>1, <3>1 DEF Proper
  <2>2. CASE Found(m)
    <3> DEFINE label == IF csm[m].phase = "deleting" THEN "delete"
                        ELSE IF csm[m].owner THEN "cluster" ELSE "wait"
    <3>1. Moves(m, o, csm[m], csm[m], label)
      BY <1>2, <1>4, <2>2 DEF Begin, Goto, Moves, apiVars, cacheVars
    <3>2. Allowed(o, csm[m], csm[m], label)
      BY <1>1, <2>2 DEF Allowed, Found, Here, Dying
    <3>3. QED
      BY <3>1, <3>2 DEF Proper
  <2>3. QED
    BY <2>1, <2>2
<1>5. CASE GetCluster(m)
  <2> DEFINE label == IF r.ref THEN "check" ELSE "infra"
  <2>1. Moves(m, o, csm[m], r, label)
    BY <1>2, <1>5 DEF GetCluster, Goto, Moves, apiVars, cacheVars
  <2>2. Allowed(o, csm[m], r, label)
    BY <1>1, <1>5 DEF GetCluster, Allowed
  <2>3. QED
    BY <2>1, <2>2 DEF Proper
<1>6. CASE CopyProvider(m)
  <2> DEFINE copied == [r EXCEPT !.ref = Here(csc)]
             label == IF Here(csc) THEN "check" ELSE "wait"
  <2>1. \A b \in BOOLEAN : [r EXCEPT !.ref = b] \in Machine /\ [r EXCEPT !.ref = b].final = r.final
                          /\ [r EXCEPT !.ref = b].ref = b
    BY <1>1 DEF Allowed, Machine
  <2>2. Here(csc) \in BOOLEAN
    BY DEF Here
  <2>3. copied \in Machine /\ copied.final = r.final /\ copied.ref = Here(csc)
    BY <2>1, <2>2
  <2>4. CASE Return(m, TRUE)
    <3>1. Moves(m, o, csm[m], NoMachine, "idle")
      BY <1>2, <1>6, <2>4 DEF CopyProvider, Return, Goto, Moves, apiVars, cacheVars
    <3>2. Allowed(o, csm[m], NoMachine, "idle")
      BY <1>1, <1>3 DEF Allowed
    <3>3. QED
      BY <3>1, <3>2 DEF Proper
  <2>5. CASE ~ Return(m, TRUE)
    <3>1. Moves(m, o, csm[m], copied, label)
      BY <1>2, <1>6, <2>5 DEF CopyProvider, Goto, Moves, apiVars, cacheVars
    <3>2. Allowed(o, csm[m], copied, label)
      BY <1>1, <1>6, <2>2, <2>3 DEF CopyProvider, Allowed
    <3>3. QED
      BY <3>1, <3>2 DEF Proper
  <2>6. QED
    BY <2>4, <2>5
<1>7. CASE Check(m)
  <2>1. CASE r.final /\ seen[m].infra /\ seen[m].paused
    <3>1. Moves(m, o, csm[m], NoMachine, "idle")
      BY <1>2, <1>7, <2>1 DEF Check, Return, Goto, Moves, apiVars, cacheVars
    <3>2. Allowed(o, csm[m], NoMachine, "idle")
      BY <1>1, <1>3 DEF Allowed
    <3>3. QED
      BY <3>1, <3>2 DEF Proper
  <2>2. CASE ~ (r.final /\ seen[m].infra /\ seen[m].paused)
    <3> DEFINE label == IF ~ seen[m].infra THEN "wait"
                        ELSE IF ~ r.final THEN "finalize" ELSE "normal"
    <3>1. Moves(m, o, csm[m], r, label)
      BY <1>2, <1>7, <2>2 DEF Check, Goto, Moves, apiVars, cacheVars
    <3>2. Allowed(o, csm[m], r, label)
      BY <1>1, <1>7 DEF Check, Allowed
    <3>3. QED
      BY <3>1, <3>2 DEF Proper
  <2>3. QED
    BY <2>1, <2>2
<1>8. CASE AddFinalizer(m)
  <2> DEFINE new == WithFinalizer(m)
             done == [r EXCEPT !.final = TRUE]
  <2>1. Allowed(new, csm[m], NoMachine, "idle") /\ Allowed(new, csm[m], done, "normal")
    BY <1>1, <1>3, <1>8 DEF AddFinalizer, WithFinalizer, Allowed, Machine, Dying
  <2>2. Allowed(o, csm[m], NoMachine, "idle")
    BY <1>1, <1>3 DEF Allowed
  <2>3. \/ Moves(m, new, csm[m], NoMachine, "idle")
        \/ Moves(m, new, csm[m], done, "normal")
        \/ Moves(m, o, csm[m], NoMachine, "idle")
    BY <1>2, <1>8 DEF AddFinalizer, FinalizeFailed, Return, Goto, Moves, cacheVars
  <2>4. QED
    BY <2>1, <2>2, <2>3 DEF Proper
<1>9. CASE Wait(m) \/ Normal(m)
  <2> DEFINE waited == [o EXCEPT !.ref = @ \/ r.ref]
             named == [o EXCEPT !.named = TRUE, !.ref = @ \/ r.ref]
  <2>1. /\ Allowed(o, csm[m], NoMachine, "idle")
        /\ Allowed(waited, csm[m], NoMachine, "idle")
        /\ Allowed(named, csm[m], NoMachine, "idle")
    BY <1>1, <1>3 DEF Allowed, Machine
  <2>2. \/ Moves(m, o, csm[m], NoMachine, "idle")
        \/ Moves(m, waited, csm[m], NoMachine, "idle")
        \/ Moves(m, named, csm[m], NoMachine, "idle")
    BY <1>2, <1>9 DEF Wait, Normal, Return, Goto, Moves, cacheVars
  <2>3. QED
    BY <2>1, <2>2 DEF Proper
<1>10. CASE Delete(m)
  <2> DEFINE freed == [o EXCEPT !.final = FALSE,
                                !.phase = IF @ = "deleting" THEN "gone" ELSE @]
  <2>1. /\ Allowed(o, csm[m], NoMachine, "idle")
        /\ Allowed(freed, csm[m], NoMachine, "idle")
    BY <1>1, <1>3, <1>10 DEF Delete, Allowed, Machine, Dying
  <2>2. \/ Moves(m, o, csm[m], NoMachine, "idle")
        \/ Moves(m, freed, csm[m], NoMachine, "idle")
    BY <1>2, <1>10 DEF Delete, Return, Goto, Moves, cacheVars
  <2>3. QED
    BY <2>1, <2>2 DEF Proper
<1>11. QED
  BY <1>4, <1>5, <1>6, <1>7, <1>8, <1>9, <1>10 DEF Reconcile

-----------------------------------------------------------------------------
(* The invariant.                                                          *)

LEMMA CrashKeeps ==
  ASSUME BindingInv, Crash
  PROVE  BindingInv'
<1>1. sm' = sm /\ csm' = sm
  BY DEF Crash, apiVars
<1>2. MachinesOK'
  <2>1. rd' \in [Machines -> Machine]
    BY DEF Crash, NoMachine, Machine
  <2>2. pc' = [m \in Machines |-> pc'[m]]
    BY DEF Crash
  <2>3. QED
    BY <1>1, <2>1, <2>2 DEF BindingInv, MachinesOK
<1>3. ASSUME NEW m \in Machines
      PROVE  MachineInv(m)'
  <2>1. pc'[m] = "idle"
    BY DEF Crash
  <2>2. QED
    BY <1>1, <2>1 DEF BindingInv, MachineInv, CopyLags, WorkKnown
<1>4. QED
  BY <1>2, <1>3 DEF BindingInv

LEMMA BindingInit == Init => BindingInv
<1> SUFFICES ASSUME Init PROVE BindingInv
  OBVIOUS
<1>1. sm \in [Machines -> Machine] /\ csm = sm /\ rd = sm
  BY DEF Init, NoMachine, Machine
<1>2. pc = [m \in Machines |-> "idle"]
  BY DEF Init
<1>3. \A m \in Machines : sm[m].phase = "none" /\ ~ sm[m].final
  BY DEF Init, NoMachine
<1>4. QED
  BY <1>1, <1>2, <1>3 DEF BindingInv, MachinesOK, MachineInv, CopyLags, WorkKnown, Dying

LEMMA BindingStep == BindingInv /\ [Next]_vars => BindingInv'
<1> SUFFICES ASSUME BindingInv, [Next]_vars PROVE BindingInv'
  OBVIOUS
<1>1. ASSUME NEW m \in Machines,
             CreateMachine(m) \/ OwnMachine(m) \/ DeleteMachine(m) \/ SyncMachine(m) \/ Reconcile(m)
      PROVE  BindingInv'
  BY <1>1, EnvironmentProper, ReconcileProper, ProperKeeps
<1>2. CASE CreateScvmmCluster \/ OwnScvmmCluster \/ DeleteScvmmCluster \/ SeeInfrastructure
           \/ Pause \/ Unpause
  <2>1. UNCHANGED machineVars
    BY <1>2 DEF CreateScvmmCluster, OwnScvmmCluster, DeleteScvmmCluster, SeeInfrastructure, Pause,
       Unpause, cacheVars, workVars, machineVars
  <2>2. QED
    BY <2>1, SameKeeps
<1>3. CASE SyncCluster \/ SyncScvmmCluster \/ BeginCluster \/ PatchCluster \/ UNCHANGED vars
  <2>1. UNCHANGED machineVars
    BY <1>3 DEF SyncCluster, SyncScvmmCluster, BeginCluster, PatchCluster, vars, apiVars, cacheVars,
       workVars, machineVars
  <2>2. QED
    BY <2>1, SameKeeps
<1>4. CASE Crash
  BY <1>4, CrashKeeps
<1>5. QED
  BY <1>1, <1>2, <1>3, <1>4 DEF Next

(* What holds of machines, copies and reconciles at all times, with a      *)
(* cache that lags, failing patches and restarts (Reconcile of the         *)
(* ScvmmMachineReconciler).                                                *)
THEOREM BindingAlways == Spec => []BindingInv
<1>1. Init => BindingInv
  BY BindingInit
<1>2. BindingInv /\ [Next]_vars => BindingInv'
  BY BindingStep
<1>3. QED
  BY <1>1, <1>2, PTL DEF Spec

(* No reconcile gets to SCVMM for a machine whose finalizer is not in the  *)
(* API server (Reconcile, reconcileDelete).                                *)
THEOREM FinalizerAlwaysFirst == Spec => []FinalizerFirst
<1>1. BindingInv => FinalizerFirst
  BY DEF BindingInv, MachineInv, WorkKnown, FinalizerFirst
<1>2. QED
  BY <1>1, BindingAlways, PTL

(* A machine that has to be cleaned up always has its provider in its own  *)
(* object (Reconcile).                                                     *)
THEOREM ProviderAlwaysKnown == Spec => []KnowsProvider
<1>1. BindingInv => KnowsProvider
  BY DEF BindingInv, MachineInv, KnowsProvider
<1>2. QED
  BY <1>1, BindingAlways, PTL

-----------------------------------------------------------------------------
(* The types: of the cluster's objects with the counters, and of what      *)
(* belongs to the machines' reconciles; BindingInv has the machines'.      *)

Labels == {"idle", "cluster", "infra", "check", "finalize", "wait", "normal", "delete"}

SharedOK ==
    /\ cluster \in Cluster /\ ccluster \in Cluster
    /\ sc \in ScvmmCluster /\ csc \in ScvmmCluster
    /\ scq \in BOOLEAN
    /\ spc \in {"idle", "finalize", "provision", "mark", "remove"}
    /\ made \in 0 .. MaxClusters /\ pauses \in 0 .. MaxPauses /\ failures \in 0 .. MaxFaults

WorkOK ==
    /\ mq \subseteq Machines
    /\ seen \in [Machines -> Cluster] /\ pc \in [Machines -> Labels]
    /\ \A m \in Machines : pc[m] # "idle" => Here(rd[m])

LEMMA TypeParts == BindingInv => (TypeOK <=> SharedOK /\ WorkOK)
  BY DEF BindingInv, MachinesOK, TypeOK, SharedOK, WorkOK, Labels

LEMMA FailsCounts ==
  ASSUME failures \in 0 .. MaxFaults, Fails
  PROVE  failures' \in 0 .. MaxFaults
  BY BindingAssumption DEF Fails

LEMMA NewObjects == NewCluster \in Cluster /\ NoScvmmCluster \in ScvmmCluster
  BY DEF NewCluster, Cluster, NoScvmmCluster, ScvmmCluster

LEMMA SharedByUsers ==
  ASSUME SharedOK,
         CreateScvmmCluster \/ OwnScvmmCluster \/ DeleteScvmmCluster \/ SeeInfrastructure
         \/ Pause \/ Unpause
  PROVE  SharedOK'
<1> USE NewObjects, BindingAssumption DEF SharedOK
<1>1. CASE CreateScvmmCluster
  <2>1. sc' \in ScvmmCluster
    BY <1>1 DEF CreateScvmmCluster, ScvmmCluster
  <2>2. made' \in 0 .. MaxClusters
    BY <1>1 DEF CreateScvmmCluster
  <2>3. QED
    BY <1>1, <2>1, <2>2 DEF CreateScvmmCluster, cacheVars, queueVars
<1>2. CASE OwnScvmmCluster
  <2>1. sc' \in ScvmmCluster
    BY <1>2 DEF OwnScvmmCluster, ScvmmCluster
  <2>2. QED
    BY <1>2, <2>1 DEF OwnScvmmCluster, cacheVars, queueVars, countVars
<1>3. CASE DeleteScvmmCluster
  <2>1. sc' \in ScvmmCluster
    BY <1>3 DEF DeleteScvmmCluster, ScvmmCluster
  <2>2. QED
    BY <1>3, <2>1 DEF DeleteScvmmCluster, cacheVars, queueVars, countVars
<1>4. CASE SeeInfrastructure
  <2>1. cluster' \in Cluster
    BY <1>4 DEF SeeInfrastructure, Cluster
  <2>2. QED
    BY <1>4, <2>1 DEF SeeInfrastructure, cacheVars, queueVars, countVars
<1>5. CASE Pause
  <2>1. cluster' \in Cluster
    BY <1>5 DEF Pause, Cluster
  <2>2. pauses' \in 0 .. MaxPauses
    BY <1>5 DEF Pause
  <2>3. QED
    BY <1>5, <2>1, <2>2 DEF Pause, cacheVars, queueVars
<1>6. CASE Unpause
  <2>1. cluster' \in Cluster
    BY <1>6 DEF Unpause, Cluster
  <2>2. QED
    BY <1>6, <2>1 DEF Unpause, cacheVars, queueVars, countVars
<1>7. QED
  BY <1>1, <1>2, <1>3, <1>4, <1>5, <1>6

LEMMA SharedByPatch ==
  ASSUME SharedOK, PatchCluster
  PROVE  SharedOK'
<1>1. sc' \in ScvmmCluster
  <2>1. FinalizerRemoved \in ScvmmCluster
    BY NewObjects DEF SharedOK, FinalizerRemoved, ScvmmCluster
  <2>2. [sc EXCEPT !.final = TRUE] \in ScvmmCluster /\ [sc EXCEPT !.ready = TRUE] \in ScvmmCluster
    BY DEF SharedOK, ScvmmCluster
  <2>3. \/ sc' = [sc EXCEPT !.final = TRUE] \/ sc' = [sc EXCEPT !.ready = TRUE]
        \/ sc' = sc \/ sc' = FinalizerRemoved
    BY DEF PatchCluster
  <2>4. QED
    BY <2>1, <2>2, <2>3 DEF SharedOK
<1>2. failures' \in 0 .. MaxFaults
  BY FailsCounts DEF SharedOK, PatchCluster
<1>3. scq' \in BOOLEAN /\ spc' \in {"idle", "finalize", "provision", "mark", "remove"}
  BY DEF SharedOK, PatchCluster
<1>4. UNCHANGED <<cluster, ccluster, csc, made, pauses>>
  BY DEF PatchCluster, cacheVars, countVars
<1>5. QED
  BY <1>1, <1>2, <1>3, <1>4 DEF SharedOK

LEMMA SharedByController ==
  ASSUME SharedOK, SyncCluster \/ SyncScvmmCluster \/ Crash \/ BeginCluster \/ PatchCluster
  PROVE  SharedOK'
<1>1. CASE SyncCluster
  <2>1. scq' \in BOOLEAN
    BY <1>1 DEF SharedOK, SyncCluster, Wakes, Here, Cluster
  <2>2. QED
    BY <1>1, <2>1 DEF SharedOK, SyncCluster, apiVars, countVars
<1>2. CASE SyncScvmmCluster
  BY <1>2 DEF SharedOK, SyncScvmmCluster, apiVars, countVars
<1>3. CASE Crash
  <2>1. failures' \in 0 .. MaxFaults
    BY <1>3, FailsCounts DEF SharedOK, Crash
  <2>2. QED
    BY <1>3, <2>1 DEF SharedOK, Crash, Here, apiVars, countVars
<1>4. CASE BeginCluster
  <2>1. spc' \in {"idle", "finalize", "provision", "mark", "remove"}
    BY <1>4 DEF SharedOK, BeginCluster, Here, ScvmmCluster
  <2>2. QED
    BY <1>4, <2>1 DEF SharedOK, BeginCluster, apiVars, cacheVars, countVars
<1>5. QED
  BY <1>1, <1>2, <1>3, <1>4, SharedByPatch

LEMMA SharedByMachine ==
  ASSUME SharedOK, NEW m \in Machines,
         CreateMachine(m) \/ OwnMachine(m) \/ DeleteMachine(m) \/ SyncMachine(m) \/ Reconcile(m)
  PROVE  SharedOK'
<1>1. UNCHANGED <<cluster, ccluster, sc, csc, scq, spc, made, pauses>>
  BY DEF CreateMachine, OwnMachine, DeleteMachine, SyncMachine, Reconcile, Begin, GetCluster,
     CopyProvider, Check, AddFinalizer, Wait, Normal, Delete, apiVars, cacheVars, queueVars,
     countVars
<1>2. UNCHANGED failures \/ Fails
  BY DEF CreateMachine, OwnMachine, DeleteMachine, SyncMachine, Reconcile, Begin, GetCluster,
     CopyProvider, Check, AddFinalizer, Wait, Normal, Delete
<1>3. QED
  BY <1>1, <1>2, FailsCounts DEF SharedOK

(* What a step of the reconcile of m leaves behind.                        *)
Works(m, work, label, copy) ==
    /\ rd' = [rd EXCEPT ![m] = work] /\ pc' = [pc EXCEPT ![m] = label]
    /\ seen' = [seen EXCEPT ![m] = copy]
    /\ mq' \subseteq mq \cup {m}

LEMMA WorksKeeps ==
  ASSUME WorkOK, MachinesOK, NEW m \in Machines,
         NEW work, NEW label \in Labels, NEW copy \in Cluster,
         Works(m, work, label, copy), label # "idle" => Here(work)
  PROVE  WorkOK'
<1>1. mq' \subseteq Machines
  BY DEF WorkOK, Works
<1>2. seen' \in [Machines -> Cluster] /\ pc' \in [Machines -> Labels]
  BY DEF WorkOK, Works
<1>3. ASSUME NEW n \in Machines, pc'[n] # "idle"
      PROVE  Here(rd'[n])
  <2>1. CASE n = m
    <3>1. rd'[n] = work /\ pc'[n] = label
      BY <2>1 DEF WorkOK, MachinesOK, Works
    <3>2. QED
      BY <1>3, <3>1
  <2>2. CASE n # m
    <3>1. rd'[n] = rd[n] /\ pc'[n] = pc[n]
      BY <2>2 DEF WorkOK, MachinesOK, Works
    <3>2. QED
      BY <1>3, <3>1 DEF WorkOK
  <2>3. QED
    BY <2>1, <2>2
<1>4. QED
  BY <1>1, <1>2, <1>3 DEF WorkOK, Here

LEMMA WorkByReconcile ==
  ASSUME WorkOK, BindingInv, SharedOK, NEW m \in Machines, Reconcile(m)
  PROVE  WorkOK'
<1>0. MachinesOK
  BY DEF BindingInv
<1>1. /\ rd = [rd EXCEPT ![m] = rd[m]] /\ pc = [pc EXCEPT ![m] = pc[m]]
      /\ seen = [seen EXCEPT ![m] = seen[m]]
  BY <1>0 DEF WorkOK, MachinesOK
<1>2. /\ pc[m] \in Labels /\ seen[m] \in Cluster /\ rd[m] \in Machine
      /\ pc[m] # "idle" => Here(rd[m])
  BY <1>0 DEF WorkOK, MachinesOK
<1>3. ASSUME NEW again, Return(m, again)
      PROVE  WorkOK'
  <2>1. Works(m, NoMachine, "idle", NewCluster)
    BY <1>3 DEF Return, Goto, Works
  <2>2. QED
    BY <1>0, <2>1, NewObjects, WorksKeeps DEF Labels
<1>4. CASE Begin(m)
  <2>1. CASE ~ Found(m)
    <3>1. Works(m, rd[m], pc[m], seen[m])
      BY <1>1, <1>4, <2>1 DEF Begin, Works
    <3>2. QED
      BY <1>0, <1>2, <3>1, WorksKeeps
  <2>2. CASE Found(m)
    <3>1. PICK label \in {"delete", "cluster", "wait"} :
             label = IF csm[m].phase = "deleting" THEN "delete"
                     ELSE IF csm[m].owner THEN "cluster" ELSE "wait"
      OBVIOUS
    <3>2. Works(m, csm[m], label, seen[m])
      BY <1>1, <1>4, <2>2, <3>1 DEF Begin, Goto, Works
    <3>3. QED
      BY <1>0, <1>2, <2>2, <3>2, WorksKeeps DEF Found, Labels
  <2>3. QED
    BY <2>1, <2>2
<1>5. CASE GetCluster(m)
  <2>1. PICK label \in {"check", "infra"} : label = IF rd[m].ref THEN "check" ELSE "infra"
    OBVIOUS
  <2>2. Works(m, rd[m], label, ccluster)
    BY <1>1, <1>5, <2>1 DEF GetCluster, Goto, Works, queueVars
  <2>3. Here(rd[m])
    BY <1>2, <1>5 DEF GetCluster
  <2>4. QED
    BY <1>0, <2>2, <2>3, WorksKeeps DEF SharedOK, Labels
<1>6. CASE CopyProvider(m)
  <2>1. PICK label \in {"check", "wait"} : label = IF Here(csc) THEN "check" ELSE "wait"
    OBVIOUS
  <2>2. PICK work : work = [rd[m] EXCEPT !.ref = Here(csc)]
    OBVIOUS
  <2>3. CASE Return(m, TRUE)
    BY <1>3, <2>3
  <2>4. CASE ~ Return(m, TRUE)
    <3>1. Works(m, work, label, seen[m])
      BY <1>1, <1>6, <2>1, <2>2, <2>4 DEF CopyProvider, Goto, Works, queueVars
    <3>2. work.phase = rd[m].phase
      BY <1>2, <2>2 DEF Machine
    <3>3. Here(work)
      BY <1>2, <1>6, <3>2 DEF CopyProvider, Here
    <3>4. QED
      BY <1>0, <1>2, <3>1, <3>3, WorksKeeps DEF Labels
  <2>5. QED
    BY <2>3, <2>4
<1>7. CASE Check(m)
  <2>1. CASE Return(m, FALSE)
    BY <1>3, <2>1
  <2>2. CASE ~ Return(m, FALSE)
    <3>1. PICK label \in {"wait", "finalize", "normal"} :
             label = IF ~ seen[m].infra THEN "wait"
                     ELSE IF ~ rd[m].final THEN "finalize" ELSE "normal"
      OBVIOUS
    <3>2. Works(m, rd[m], label, seen[m])
      BY <1>1, <1>7, <2>2, <3>1 DEF Check, Goto, Works
    <3>3. Here(rd[m])
      BY <1>2, <1>7 DEF Check
    <3>4. QED
      BY <1>0, <1>2, <3>2, <3>3, WorksKeeps DEF Labels
  <2>3. QED
    BY <2>1, <2>2
<1>8. CASE AddFinalizer(m)
  <2>1. CASE Return(m, FALSE) \/ Return(m, TRUE)
    BY <1>3, <2>1
  <2>2. CASE ~ (Return(m, FALSE) \/ Return(m, TRUE))
    <3>1. PICK work : work = [rd[m] EXCEPT !.final = TRUE]
      OBVIOUS
    <3>2. Works(m, work, "normal", seen[m])
      BY <1>1, <1>8, <2>2, <3>1 DEF AddFinalizer, FinalizeFailed, Goto, Works
    <3>3. Here(work)
      <4>1. work.phase = rd[m].phase
        BY <1>2, <3>1 DEF Machine
      <4>2. QED
        BY <1>2, <1>8, <4>1 DEF AddFinalizer, Here
    <3>4. QED
      BY <1>0, <1>2, <3>2, <3>3, WorksKeeps DEF Labels
  <2>3. QED
    BY <2>1, <2>2
<1>9. CASE Wait(m) \/ Normal(m) \/ Delete(m)
  <2>1. Return(m, FALSE) \/ Return(m, TRUE)
    BY <1>9 DEF Wait, Normal, Delete
  <2>2. QED
    BY <1>3, <2>1
<1>10. QED
  BY <1>4, <1>5, <1>6, <1>7, <1>8, <1>9 DEF Reconcile

LEMMA WorkByOthers ==
  ASSUME WorkOK,
         \/ CreateScvmmCluster \/ OwnScvmmCluster \/ DeleteScvmmCluster \/ SeeInfrastructure
         \/ Pause \/ Unpause \/ SyncCluster \/ SyncScvmmCluster \/ BeginCluster \/ PatchCluster
         \/ \E m \in Machines :
               CreateMachine(m) \/ OwnMachine(m) \/ DeleteMachine(m) \/ SyncMachine(m)
  PROVE  WorkOK'
<1>1. UNCHANGED workVars
  BY DEF CreateScvmmCluster, OwnScvmmCluster, DeleteScvmmCluster, SeeInfrastructure, Pause, Unpause,
     SyncCluster, SyncScvmmCluster, BeginCluster, PatchCluster, CreateMachine, OwnMachine,
     DeleteMachine, SyncMachine
<1>2. mq' \subseteq Machines
  BY DEF WorkOK, CreateScvmmCluster, OwnScvmmCluster, DeleteScvmmCluster, SeeInfrastructure, Pause,
     Unpause, SyncCluster, SyncScvmmCluster, BeginCluster, PatchCluster, CreateMachine, OwnMachine,
     DeleteMachine, SyncMachine, queueVars
<1>3. QED
  BY <1>1, <1>2 DEF WorkOK, workVars, Here

LEMMA WorkByCrash ==
  ASSUME Crash
  PROVE  WorkOK'
<1>1. mq' \subseteq Machines
  BY DEF Crash
<1>2. seen' \in [Machines -> Cluster]
  BY NewObjects DEF Crash
<1>3. pc' \in [Machines -> Labels] /\ \A m \in Machines : pc'[m] = "idle"
  BY DEF Crash, Labels
<1>4. QED
  BY <1>1, <1>2, <1>3 DEF WorkOK

LEMMA TypesInit == Init => SharedOK /\ WorkOK
<1> SUFFICES ASSUME Init PROVE SharedOK /\ WorkOK
  OBVIOUS
<1>1. SharedOK
  <2>1. 0 \in 0 .. MaxClusters /\ 0 \in 0 .. MaxPauses /\ 0 \in 0 .. MaxFaults
    BY BindingAssumption
  <2>2. /\ cluster = NewCluster /\ ccluster = NewCluster
        /\ sc = NoScvmmCluster /\ csc = NoScvmmCluster
        /\ scq = FALSE /\ spc = "idle" /\ made = 0 /\ pauses = 0 /\ failures = 0
    BY DEF Init
  <2>3. QED
    BY <2>1, <2>2, NewObjects DEF SharedOK
<1>2. seen \in [Machines -> Cluster] /\ pc \in [Machines -> Labels]
  BY NewObjects DEF Init, Labels
<1>3. \A m \in Machines : pc[m] = "idle"
  BY DEF Init
<1>4. QED
  BY <1>1, <1>2, <1>3 DEF Init, WorkOK

LEMMA TypesStep == BindingInv /\ SharedOK /\ WorkOK /\ [Next]_vars => (SharedOK /\ WorkOK)'
<1> SUFFICES ASSUME BindingInv, SharedOK, WorkOK, [Next]_vars PROVE (SharedOK /\ WorkOK)'
  OBVIOUS
<1>1. CASE \E m \in Machines :
              CreateMachine(m) \/ OwnMachine(m) \/ DeleteMachine(m) \/ SyncMachine(m)
  BY <1>1, SharedByMachine, WorkByOthers
<1>2. CASE \E m \in Machines : Reconcile(m)
  BY <1>2, SharedByMachine, WorkByReconcile
<1>3. CASE CreateScvmmCluster \/ OwnScvmmCluster \/ DeleteScvmmCluster \/ SeeInfrastructure
           \/ Pause \/ Unpause
  BY <1>3, SharedByUsers, WorkByOthers
<1>4. CASE SyncCluster \/ SyncScvmmCluster \/ BeginCluster \/ PatchCluster
  BY <1>4, SharedByController, WorkByOthers
<1>5. CASE Crash
  BY <1>5, SharedByController, WorkByCrash
<1>6. CASE UNCHANGED vars
  BY <1>6 DEF SharedOK, WorkOK, Here, vars, apiVars, cacheVars, queueVars, workVars, countVars
<1>7. QED
  BY <1>1, <1>2, <1>3, <1>4, <1>5, <1>6 DEF Next

(* Types are kept, and whoever is reconciled exists in the copy that its   *)
(* reconcile works on (Reconcile of the ScvmmMachineReconciler and of the  *)
(* ScvmmClusterReconciler).                                                *)
THEOREM TypeCorrect == Spec => []TypeOK
<1>1. Init => BindingInv /\ SharedOK /\ WorkOK
  BY BindingInit, TypesInit
<1>2. BindingInv /\ SharedOK /\ WorkOK /\ [Next]_vars => (BindingInv /\ SharedOK /\ WorkOK)'
  BY BindingStep, TypesStep
<1>3. BindingInv /\ SharedOK /\ WorkOK => TypeOK
  BY TypeParts
<1>4. QED
  BY <1>1, <1>2, <1>3, PTL DEF Spec

=============================================================================
