--------------------------- MODULE VmNaming_proofs ---------------------------
(***************************************************************************)
(* Proofs about VmNaming for any machines, pools, names and faults: types; *)
(* that no two VMs of one name ever run at the same time, by way of IInv   *)
(* of VmNamingInv; the refinement of NameAllocator; and, by way of         *)
(* RecordInv, that no VM is left behind.                                   *)
(*                                                                         *)
(* For IInv, most steps are quiet (Quiet below): they leave the pools and  *)
(* the caches alone, name a machine at most once and in agreement with the *)
(* pools, and move no reconcile into the pool's update.  QuietNaming does  *)
(* them all; the other ten have a lemma each.                              *)
(***************************************************************************)
EXTENDS VmNamingInv, FiniteSetTheorems, TLAPS

-----------------------------------------------------------------------------
(* Types. *)

LEMMA MachineFields ==
    ASSUME NEW o \in Machine
    PROVE  /\ o.phase \in Phases /\ o.fin \in BOOLEAN
           /\ o.vmName \in Names \cup {NoName} /\ o.id \in VmIds \cup {NoVm}
BY DEF Machine

(* The machines that actions build from a machine. *)
LEMMA MachineType ==
    ASSUME NEW o \in Machine
    PROVE  /\ \A f \in BOOLEAN : [o EXCEPT !.fin = f] \in Machine
           /\ \A ph \in Phases : [o EXCEPT !.phase = ph] \in Machine
           /\ \A f \in BOOLEAN, ph \in Phases : [o EXCEPT !.fin = f, !.phase = ph] \in Machine
           /\ \A n \in Names \cup {NoName} : [o EXCEPT !.vmName = n] \in Machine
           /\ \A ph \in Phases, n \in Names \cup {NoName} :
                [o EXCEPT !.phase = ph, !.vmName = n] \in Machine
           /\ \A i \in VmIds \cup {NoVm}, n \in Names \cup {NoName} :
                [o EXCEPT !.id = i, !.vmName = n] \in Machine
BY DEF Machine

LEMMA PoolFields ==
    ASSUME NEW c \in NamePool
    PROVE  c.owner \in [Names -> Machines \cup {Nobody}] /\ c.used \in Int
BY DEF NamePool

LEMMA PoolType ==
    ASSUME NEW owner \in [Names -> Machines \cup {Nobody}]
    PROVE  /\ \A used \in Int : [owner |-> owner, used |-> used] \in NamePool
           /\ \A c \in NamePool : [c EXCEPT !.owner = owner] \in NamePool
BY DEF NamePool

LEMMA EmptyTypes == NoMachine \in Machine /\ EmptyPool \in NamePool
BY DEF NoMachine, EmptyPool, Machine, NamePool, Phases

LEMMA TypeInit == Init => TypeOK
<1> SUFFICES ASSUME Init PROVE TypeOK
  OBVIOUS
<1>1. ApiTypeOK /\ CacheTypeOK
  BY EmptyTypes DEF Init, ApiTypeOK, CacheTypeOK
<1>2. ScvmmTypeOK
  BY DEF Init, ScvmmTypeOK, Vm, VmStates
<1>3. WorkTypeOK
  BY EmptyTypes DEF Init, WorkTypeOK, Labels, PoolLabels
<1> QED
  BY <1>1, <1>2, <1>3 DEF TypeOK

(* A reconcile that returns leaves its variables typed. *)
LEMMA ReturnType ==
    ASSUME WorkTypeOK, NEW m \in Machines, NEW again \in BOOLEAN, Return(m, again),
           current' \in [Machines -> BOOLEAN]
    PROVE  WorkTypeOK'
BY EmptyTypes DEF Return, WorkTypeOK, Labels, PoolLabels

LEMMA VmType ==
    ASSUME ScvmmTypeOK, NEW v \in VmIds,
           \/ StartVM(v) \/ RemoveVM(v)
           \/ VmTaskDone(v) \/ AdminStops(v) \/ AdminRemoves(v)
    PROVE  vm' \in [VmIds -> Vm]
BY DEF ScvmmTypeOK, Vm, VmStates, StartVM, RemoveVM, VmTaskDone, Busy,
   AdminStops, AdminRemoves

LEMMA CreateType ==
    ASSUME ScvmmTypeOK, NEW v \in VmIds, NEW n \in Names \cup {NoName}, CreateVM(v, n)
    PROVE  vm' \in [VmIds -> Vm]
BY DEF ScvmmTypeOK, Vm, VmStates, CreateVM

(* A command to create a VM has a name, any other has an id. *)
LEMMA CommandType ==
    ASSUME NEW c \in Command
    PROVE  /\ c.op \in {"create", "start", "remove"}
           /\ c.op = "create" => c.name \in Names \cup {NoName}
           /\ c.op # "create" => c.id \in VmIds
BY DEF Command

LEMMA EnvironmentType ==
    ASSUME TypeOK,
           \/ \E m \in Machines : CreateMachine(m) \/ DeleteMachine(m) \/ SyncMachine(m) \/ Nudge(m)
           \/ \E p \in Pools : SyncPool(p)
           \/ \E v \in VmIds : VmTaskDone(v) \/ AdminStops(v) \/ AdminRemoves(v)
           \/ \E c \in late : LateCommand(c)
           \/ Crash
    PROVE  TypeOK'
<1> USE DEF TypeOK
<1>1. ASSUME NEW m \in Machines, CreateMachine(m) PROVE TypeOK'
  <2>1. obj' \in [Machines -> Machine]
    <3>1. PICK n \in Names \cup {NoName} :
            obj' = [obj EXCEPT ![m].phase = "live", ![m].vmName = n]
      BY <1>1, ConfigAssumption DEF CreateMachine, ConfigAssumption
    <3> QED
      BY <3>1, MachineType DEF ApiTypeOK, Phases
  <2>2. UNCHANGED <<pool, cacheVars, scvmmVars, pc, workVars, queued>>
    BY <1>1 DEF CreateMachine
  <2> QED
    BY <2>1, <2>2 DEF ApiTypeOK, CacheTypeOK, ScvmmTypeOK, WorkTypeOK, cacheVars, scvmmVars, workVars
<1>2. ASSUME NEW m \in Machines, DeleteMachine(m) PROVE TypeOK'
  <2>1. obj' \in [Machines -> Machine]
    BY <1>2, MachineType DEF DeleteMachine, ApiTypeOK, Phases
  <2>2. UNCHANGED <<pool, cacheVars, scvmmVars, pc, workVars, queued>>
    BY <1>2 DEF DeleteMachine
  <2> QED
    BY <2>1, <2>2 DEF ApiTypeOK, CacheTypeOK, ScvmmTypeOK, WorkTypeOK, cacheVars, scvmmVars, workVars
<1>3. ASSUME NEW m \in Machines, SyncMachine(m) PROVE TypeOK'
  <2>1. cobj' \in [Machines -> Machine] /\ queued' \in [Machines -> BOOLEAN]
    BY <1>3 DEF SyncMachine, ApiTypeOK, CacheTypeOK, WorkTypeOK
  <2>2. UNCHANGED <<apiVars, cpool, poolFresh, scvmmVars, pc, workVars>>
    BY <1>3 DEF SyncMachine
  <2> QED
    BY <2>1, <2>2 DEF ApiTypeOK, CacheTypeOK, ScvmmTypeOK, WorkTypeOK, apiVars, scvmmVars, workVars
<1>4. ASSUME NEW m \in Machines, Nudge(m) PROVE TypeOK'
  BY <1>4 DEF Nudge, ApiTypeOK, CacheTypeOK, ScvmmTypeOK, WorkTypeOK, apiVars, cacheVars, scvmmVars, workVars
<1>5. ASSUME NEW p \in Pools, SyncPool(p) PROVE TypeOK'
  BY <1>5 DEF SyncPool, ApiTypeOK, CacheTypeOK, ScvmmTypeOK, WorkTypeOK, apiVars, scvmmVars, workVars
<1>6. ASSUME NEW v \in VmIds, VmTaskDone(v) \/ AdminStops(v) \/ AdminRemoves(v) PROVE TypeOK'
  <2>1. vm' \in [VmIds -> Vm]
    BY <1>6, VmType
  <2>2. UNCHANGED <<apiVars, cacheVars, late, pc, workVars, queued>>
    BY <1>6 DEF VmTaskDone, AdminStops, AdminRemoves
  <2> QED
    BY <2>1, <2>2 DEF ApiTypeOK, CacheTypeOK, ScvmmTypeOK, WorkTypeOK, apiVars, cacheVars, workVars
<1>7. ASSUME NEW c \in late, LateCommand(c) PROVE TypeOK'
  <2>1. vm' \in [VmIds -> Vm]
    <3>1. CASE c.op = "create"
      BY <1>7, <3>1, CommandType, CreateType DEF LateCommand, ScvmmTypeOK
    <3>2. CASE c.op = "start"
      BY <1>7, <3>2, CommandType, VmType DEF LateCommand, ScvmmTypeOK
    <3>3. CASE c.op = "remove"
      BY <1>7, <3>3, CommandType, VmType DEF LateCommand, ScvmmTypeOK
    <3> QED
      BY <1>7, <3>1, <3>2, <3>3 DEF LateCommand
  <2>2. late' \subseteq Command /\ UNCHANGED <<apiVars, cacheVars, pc, workVars, queued>>
    BY <1>7 DEF LateCommand, ScvmmTypeOK
  <2> QED
    BY <2>1, <2>2 DEF ApiTypeOK, CacheTypeOK, ScvmmTypeOK, WorkTypeOK, apiVars, cacheVars, workVars
<1>8. ASSUME Crash PROVE TypeOK'
  <2>1. (ApiTypeOK /\ CacheTypeOK /\ ScvmmTypeOK)'
    BY <1>8 DEF Crash, ApiTypeOK, CacheTypeOK, ScvmmTypeOK, apiVars, scvmmVars
  <2>2. WorkTypeOK'
    BY <1>8, EmptyTypes DEF Crash, WorkTypeOK, Labels, PoolLabels, Present
  <2> QED
    BY <2>1, <2>2
<1> QED
  BY <1>1, <1>2, <1>3, <1>4, <1>5, <1>6, <1>7, <1>8

(* The calls that a reconcile makes to the API server. *)
LEMMA PatchType ==
    ASSUME TypeOK, NEW m \in Machines,
           PatchFails(m) \/ \E new \in Machine : Patch(m, new)
    PROVE  ApiTypeOK'
BY DEF TypeOK, ApiTypeOK, Patch, PatchFails, apiVars

LEMMA UpdateType ==
    ASSUME TypeOK, NEW m \in Machines, UpdatePool(m) \/ UpdateFails(m)
    PROVE  ApiTypeOK' /\ CacheTypeOK' /\ current' \in [Machines -> BOOLEAN]
BY DEF TypeOK, ApiTypeOK, CacheTypeOK, WorkTypeOK, UpdatePool, UpdateFails, Discard, apiVars, cacheVars

LEMMA UnchangedType ==
    ASSUME TypeOK
    PROVE  /\ UNCHANGED apiVars => ApiTypeOK'
           /\ UNCHANGED cacheVars => CacheTypeOK'
           /\ UNCHANGED scvmmVars => ScvmmTypeOK'
           /\ UNCHANGED current => current' \in [Machines -> BOOLEAN]
BY DEF TypeOK, ApiTypeOK, CacheTypeOK, ScvmmTypeOK, WorkTypeOK, apiVars, cacheVars, scvmmVars

LEMMA CommandFailsType ==
    ASSUME ScvmmTypeOK, NEW cs \in SUBSET Command, CommandFails(cs)
    PROVE  ScvmmTypeOK'
BY DEF ScvmmTypeOK, CommandFails

(* Going on to the next call, with nothing but the label changed. *)
LEMMA GotoType ==
    ASSUME WorkTypeOK, NEW m \in Machines, NEW label \in Labels, Goto(m, label),
           label \in PoolLabels => PoolOf[m] \in Pools,
           label \in {"check", "start"} => rd[m].id \in VmIds
    PROVE  /\ pc' \in [Machines -> Labels]
           /\ \A x \in Machines : pc'[x] \in PoolLabels => PoolOf[x] \in Pools
           /\ UNCHANGED rd => \A x \in Machines : pc'[x] \in {"check", "start"} => rd'[x].id \in VmIds
           /\ UNCHANGED <<rd, hold, current, at, pick, got, queued>> => WorkTypeOK'
BY DEF Goto, WorkTypeOK

LEMMA CountType ==
    ASSUME ConfigAssumption, NEW p \in Pools, NEW owner
    PROVE  CountUsed(p, owner) \in Nat
<1>1. RangeOf[p] \in Seq(Names)
  BY DEF ConfigAssumption
<1>2. IsFiniteSet(DOMAIN RangeOf[p])
  BY <1>1, FS_Interval
<1>3. IsFiniteSet({i \in DOMAIN RangeOf[p] : owner[RangeOf[p][i]] # Nobody})
  BY <1>2, FS_Subset
<1> QED
  BY <1>3, FS_CardinalityType DEF CountUsed

LEMMA ReconcileType ==
    ASSUME ConfigAssumption, BoundAssumption, TypeOK, NEW m \in Machines, Reconcile(m)
    PROVE  TypeOK'
<1> USE UnchangedType DEF TypeOK
<1> DEFINE AfterGoto == UNCHANGED <<rd, hold, at, pick, got, queued>>
<1>1. CASE Begin(m)
  <2>1. /\ pc' \in [Machines -> Labels]
        /\ \A x \in Machines : pc'[x] \in PoolLabels => PoolOf[x] \in Pools
    BY <1>1 DEF Begin, Goto, WorkTypeOK, Labels, PoolLabels
  <2>2. rd' \in [Machines -> Machine] /\ queued' \in [Machines -> BOOLEAN]
    BY <1>1 DEF Begin, WorkTypeOK, CacheTypeOK
  <2>3. \/ UNCHANGED <<pc, rd>>
        \/ pc'[m] \notin {"check", "start"} /\ \A x \in Machines \ {m} : UNCHANGED <<pc[x], rd[x]>>
    BY <1>1 DEF Begin, Goto, WorkTypeOK
  <2>4. \A x \in Machines : pc'[x] \in {"check", "start"} => rd'[x].id \in VmIds
    BY <2>3 DEF WorkTypeOK
  <2> QED
    BY <1>1, <2>1, <2>2, <2>4 DEF Begin, WorkTypeOK
<1>2. CASE AddFinalizer(m)
  <2>1. [obj[m] EXCEPT !.fin = TRUE] \in Machine
    BY MachineType DEF ApiTypeOK, Phases
  <2>2. ApiTypeOK'
    BY <1>2, <2>1, PatchType DEF AddFinalizer
  <2>3. WorkTypeOK'
    BY <1>2, ReturnType, GotoType DEF AddFinalizer, Labels, PoolLabels
  <2> QED
    BY <1>2, <2>2, <2>3 DEF AddFinalizer
<1>3. CASE GetVM(m)
  <2>1. CASE \E again \in BOOLEAN : Return(m, again)
    BY <1>3, <2>1, ReturnType DEF GetVM
  <2>2. CASE NeedsVm(m) /\ UNCHANGED <<rd, hold, at, got, queued>>
    <3>1. /\ pc' \in [Machines -> Labels]
          /\ \A x \in Machines : pc'[x] \in PoolLabels => PoolOf[x] \in Pools
          /\ \A x \in Machines : pc'[x] \in {"check", "start"} => rd'[x].id \in VmIds
      BY <2>2, GotoType DEF NeedsVm, Labels, PoolLabels, ConfigAssumption
    <3>2. pick' \in [Machines -> Names \cup {NoName}]
      BY <2>2, MachineFields DEF NeedsVm, WorkTypeOK, ConfigAssumption
    <3> QED
      BY <1>3, <2>2, <3>1, <3>2 DEF GetVM, WorkTypeOK
  <2>3. CASE Goto(m, "check") /\ AfterGoto
    <3>1. rd[m].id \in VmIds
      BY <1>3, <2>3, MachineFields DEF GetVM, Exists, NeedsVm, Goto, Return, WorkTypeOK, Labels
    <3> QED
      BY <1>3, <2>3, <3>1, GotoType DEF GetVM, Labels, PoolLabels
  <2> QED
    BY <1>3, <2>1, <2>2, <2>3 DEF GetVM
<1>4. CASE ReadPool(m)
  <2>1. PoolOf[m] \in Pools
    BY <1>4 DEF ReadPool, WorkTypeOK, PoolLabels
  <2>2. pick' \in [Machines -> Names \cup {NoName}]
    BY <1>4 DEF ReadPool, WorkTypeOK, OwnNames
  <2>3. hold' \in [Machines -> NamePool] /\ current' \in [Machines -> BOOLEAN]
    <3>1. CASE UNCHANGED <<hold, current>>
      BY <3>1 DEF WorkTypeOK
    <3>2. CASE /\ \E adopted \in [Names -> Machines \cup {Nobody}] :
                    hold' = [hold EXCEPT ![m].owner = adopted]
               /\ current' = [current EXCEPT ![m] = poolFresh[PoolOf[m]]]
      <4>1. PICK adopted \in [Names -> Machines \cup {Nobody}] :
              hold' = [hold EXCEPT ![m].owner = adopted]
        BY <3>2
      <4>2. [hold[m] EXCEPT !.owner = adopted] \in NamePool
        BY PoolType DEF WorkTypeOK
      <4> QED
        BY <2>1, <3>2, <4>1, <4>2 DEF WorkTypeOK, CacheTypeOK
    <3> QED
      BY <1>4, <3>1, <3>2, Zenon DEF ReadPool
  <2>4. /\ pc' \in [Machines -> Labels]
        /\ \A x \in Machines : pc'[x] \in PoolLabels => PoolOf[x] \in Pools
        /\ \A x \in Machines : pc'[x] \in {"check", "start"} => rd'[x].id \in VmIds
    BY <1>4, <2>1, GotoType DEF ReadPool, Labels, PoolLabels
  <2> QED
    BY <1>4, <2>2, <2>3, <2>4 DEF ReadPool, WorkTypeOK
<1>5. CASE ScanPool(m)
  <2> DEFINE p == PoolOf[m]
             Counted(owner) == [owner |-> owner, used |-> CountUsed(p, owner)]
  <2>1. p \in Pools /\ RangeOf[p] \in Seq(Names)
    BY <1>5 DEF ScanPool, WorkTypeOK, PoolLabels, ConfigAssumption
  <2>2. /\ hold[m].owner \in [Names -> Machines \cup {Nobody}]
        /\ \A owner \in [Names -> Machines \cup {Nobody}] : Counted(owner) \in NamePool
    <3>1. ASSUME NEW owner \in [Names -> Machines \cup {Nobody}] PROVE Counted(owner) \in NamePool
      <4>1. CountUsed(p, owner) \in Int
        BY <2>1, CountType
      <4> QED
        BY <4>1, PoolType
    <3> QED
      BY <3>1, PoolFields DEF WorkTypeOK
  <2>3. \/ \E i \in DOMAIN RangeOf[p] :
              /\ \/ /\ at' = [at EXCEPT ![m] = i + 1]
                    /\ UNCHANGED <<pc, hold, pick>>
                 \/ /\ pick' = [pick EXCEPT ![m] = RangeOf[p][i]]
                    /\ hold' = [hold EXCEPT ![m] = Counted([hold[m].owner EXCEPT ![RangeOf[p][i]] = m])]
                    /\ Goto(m, "claim")
                    /\ UNCHANGED at
              /\ UNCHANGED <<rd, current, got, queued>>
        \/ /\ hold' = [hold EXCEPT ![m] = Counted(hold[m].owner)]
           /\ Goto(m, "claim")
           /\ UNCHANGED <<rd, current, at, pick, got, queued>>
        \/ Return(m, TRUE) /\ Discard(m)
    BY <1>5 DEF ScanPool
  <2>4. WorkTypeOK'
    <3>1. CASE Return(m, TRUE) /\ Discard(m)
      BY <3>1, ReturnType DEF Discard, WorkTypeOK
    <3>2. CASE /\ hold' = [hold EXCEPT ![m] = Counted(hold[m].owner)]
               /\ Goto(m, "claim")
               /\ UNCHANGED <<rd, current, at, pick, got, queued>>
      <4>1. hold' \in [Machines -> NamePool]
        BY <3>2, <2>2 DEF WorkTypeOK
      <4> QED
        BY <3>2, <4>1, <2>1, GotoType DEF WorkTypeOK, Labels
    <3>3. ASSUME NEW i \in DOMAIN RangeOf[p], at' = [at EXCEPT ![m] = i + 1],
                 UNCHANGED <<pc, hold, pick>>, UNCHANGED <<rd, current, got, queued>>
          PROVE  WorkTypeOK'
      BY <3>3, <2>1 DEF WorkTypeOK
    <3>4. ASSUME NEW i \in DOMAIN RangeOf[p], pick' = [pick EXCEPT ![m] = RangeOf[p][i]],
                 hold' = [hold EXCEPT ![m] = Counted([hold[m].owner EXCEPT ![RangeOf[p][i]] = m])],
                 Goto(m, "claim"), UNCHANGED at, UNCHANGED <<rd, current, got, queued>>
          PROVE  WorkTypeOK'
      <4>1. RangeOf[p][i] \in Names
        BY <2>1
      <4>2. [hold[m].owner EXCEPT ![RangeOf[p][i]] = m] \in [Names -> Machines \cup {Nobody}]
        BY <2>2, <4>1
      <4>3. hold' \in [Machines -> NamePool]
        BY <3>4, <2>2, <4>2 DEF WorkTypeOK
      <4> QED
        BY <3>4, <4>1, <4>3, <2>1, GotoType DEF WorkTypeOK, Labels
    <3> QED
      BY <2>3, <3>1, <3>2, <3>3, <3>4
  <2> QED
    BY <1>5, <2>4 DEF ScanPool
<1>6. CASE ClaimName(m)
  <2>1. ApiTypeOK' /\ CacheTypeOK' /\ current' \in [Machines -> BOOLEAN]
    BY <1>6, UpdateType DEF ClaimName
  <2>2. CASE Return(m, TRUE)
    BY <1>6, <2>1, <2>2, ReturnType DEF ClaimName
  <2>3. CASE Goto(m, "sanity") /\ AfterGoto
    BY <1>6, <2>1, <2>3, GotoType DEF ClaimName, WorkTypeOK, Labels, PoolLabels
  <2> QED
    BY <1>6, <2>2, <2>3 DEF ClaimName
<1>7. CASE SanityCheck(m)
  BY <1>7, ReturnType, GotoType DEF SanityCheck, Labels, PoolLabels
<1>8. CASE PatchName(m)
  <2>1. [obj[m] EXCEPT !.vmName = pick[m]] \in Machine
    BY MachineType DEF ApiTypeOK, WorkTypeOK
  <2>2. ApiTypeOK'
    BY <1>8, <2>1, PatchType DEF PatchName
  <2> QED
    BY <1>8, <2>2, ReturnType DEF PatchName
<1>9. CASE SendCreateVM(m)
  <2>1. ASSUME NEW v \in VmIds, CreateVM(v, pick[m]), got' = [got EXCEPT ![m] = v],
               Goto(m, "patchId"), UNCHANGED <<late, rd, hold, at, pick, queued>>
        PROVE  ScvmmTypeOK' /\ WorkTypeOK'
    <3>1. vm' \in [VmIds -> Vm]
      BY <2>1, CreateType DEF WorkTypeOK
    <3>2. WorkTypeOK'
      BY <1>9, <2>1, GotoType DEF SendCreateVM, WorkTypeOK, Labels, PoolLabels
    <3> QED
      BY <2>1, <3>1, <3>2 DEF ScvmmTypeOK
  <2>2. CASE CommandFails({[op |-> "create", name |-> pick[m]]}) /\ Return(m, TRUE)
    <3>1. [op |-> "create", name |-> pick[m]] \in Command
      BY DEF Command, WorkTypeOK
    <3> QED
      BY <1>9, <2>2, <3>1, CommandFailsType, ReturnType DEF SendCreateVM
  <2> QED
    BY <1>9, <2>1, <2>2 DEF SendCreateVM
<1>10. CASE PatchId(m)
  <2>1. WithVm(m) \in Machine
    <3>1. (IF rd[m].vmName # pick[m] THEN pick[m] ELSE obj[m].vmName) \in Names \cup {NoName}
      BY MachineFields DEF ApiTypeOK, WorkTypeOK
    <3> QED
      BY <3>1, MachineType DEF WithVm, ApiTypeOK, WorkTypeOK
  <2>2. ApiTypeOK'
    BY <1>10, <2>1, PatchType DEF PatchId
  <2> QED
    BY <1>10, <2>2, ReturnType DEF PatchId
<1>11. CASE CheckName(m)
  BY <1>11, ReturnType, GotoType DEF CheckName, WorkTypeOK, Labels, PoolLabels
<1>12. CASE SendStartVM(m)
  <2>1. rd[m].id \in VmIds
    BY <1>12 DEF SendStartVM, WorkTypeOK
  <2>2. ScvmmTypeOK'
    <3>1. CASE StartVM(rd[m].id) /\ UNCHANGED late
      BY <2>1, <3>1, VmType DEF ScvmmTypeOK
    <3>2. CASE CommandFails({[op |-> "start", id |-> rd[m].id]})
      BY <2>1, <3>2, CommandFailsType DEF Command
    <3> QED
      BY <1>12, <3>1, <3>2 DEF SendStartVM
  <2> QED
    BY <1>12, <2>2, ReturnType DEF SendStartVM
<1>13. CASE SendRemoveVM(m)
  <2>1. CASE /\ Goto(m, IF PoolOf[m] # NoPool THEN "release" ELSE "unfinalize")
             /\ UNCHANGED <<scvmmVars, rd, hold, at, pick, got, queued>>
    <3>1. PoolOf[m] # NoPool => PoolOf[m] \in Pools
      BY DEF ConfigAssumption
    <3> QED
      BY <1>13, <2>1, <3>1, GotoType DEF SendRemoveVM, Labels, PoolLabels
  <2>2. CASE Removal(m)
    <3>1. ScvmmTypeOK'
      BY <2>2, VmType DEF Removal, Exists, ScvmmTypeOK
    <3> QED
      BY <1>13, <2>2, <3>1, ReturnType DEF Removal, SendRemoveVM
  <2>3. CASE /\ CommandFails({[op |-> "remove", id |-> v] : v \in {rd[m].id} \ {NoVm}})
             /\ Return(m, TRUE)
    <3>1. {[op |-> "remove", id |-> v] : v \in {rd[m].id} \ {NoVm}} \subseteq Command
      BY MachineFields DEF Command, WorkTypeOK
    <3> QED
      BY <1>13, <2>3, <3>1, CommandFailsType, ReturnType DEF SendRemoveVM
  <2>4. CASE Return(m, TRUE) /\ UNCHANGED scvmmVars
    BY <1>13, <2>4, ReturnType DEF SendRemoveVM
  <2> QED
    BY <1>13, <2>1, <2>2, <2>3, <2>4, Zenon DEF SendRemoveVM
<1>14. CASE ReadRelease(m)
  <2> DEFINE p == PoolOf[m]
             c == cpool[p]
  <2>1. p \in Pools /\ c \in NamePool
    BY <1>14 DEF ReadRelease, WorkTypeOK, CacheTypeOK, PoolLabels
  <2>2. KeptOwners(p, m, c.owner) \in [Names -> Machines \cup {Nobody}]
    BY <2>1, PoolFields DEF KeptOwners, Seen
  <2>3. KeptUsed(p, m, c) \in Int
    <3>1. IsFiniteSet(OwnNames(m, c.owner))
      BY BoundAssumption, FS_Subset DEF BoundAssumption, OwnNames
    <3> QED
      BY <2>1, <3>1, PoolFields, FS_CardinalityType DEF KeptUsed
  <2>4. hold' \in [Machines -> NamePool] /\ current' \in [Machines -> BOOLEAN]
    BY <1>14, <2>1, <2>2, <2>3, PoolType DEF ReadRelease, WorkTypeOK, CacheTypeOK
  <2> QED
    BY <1>14, <2>1, <2>4, GotoType DEF ReadRelease, WorkTypeOK, Labels
<1>15. CASE ReleaseName(m)
  <2>1. ApiTypeOK' /\ CacheTypeOK' /\ current' \in [Machines -> BOOLEAN]
    BY <1>15, UpdateType DEF ReleaseName
  <2>2. CASE Return(m, TRUE)
    BY <1>15, <2>1, <2>2, ReturnType DEF ReleaseName
  <2>3. CASE Goto(m, "unfinalize") /\ AfterGoto
    BY <1>15, <2>1, <2>3, GotoType DEF ReleaseName, WorkTypeOK, Labels, PoolLabels
  <2> QED
    BY <1>15, <2>2, <2>3 DEF ReleaseName
<1>16. CASE RemoveFinalizer(m)
  <2>1. [obj[m] EXCEPT !.fin = FALSE, !.phase = IF @ = "deleting" THEN "gone" ELSE @] \in Machine
    <3>1. (IF obj[m].phase = "deleting" THEN "gone" ELSE obj[m].phase) \in Phases
      BY MachineFields DEF ApiTypeOK, Phases
    <3> QED
      BY <3>1, MachineType DEF ApiTypeOK
  <2>2. ApiTypeOK'
    BY <1>16, <2>1, PatchType DEF RemoveFinalizer
  <2> QED
    BY <1>16, <2>2, ReturnType DEF RemoveFinalizer
<1> QED
  BY <1>1, <1>2, <1>3, <1>4, <1>5, <1>6, <1>7, <1>8, <1>9, <1>10, <1>11, <1>12, <1>13,
     <1>14, <1>15, <1>16 DEF Reconcile

(* Every variable keeps its type in every state: what the watch delivers,  *)
(* a copy of the pool after adoption or collection, and the id and name a  *)
(* reconcile is working with included (the whole reconciler).              *)
THEOREM TypeCorrect == Spec => []TypeOK
<1>1. TypeOK /\ [Next]_vars => TypeOK'
  <2> SUFFICES ASSUME TypeOK, [Next]_vars PROVE TypeOK'
    OBVIOUS
  <2>1. CASE \E m \in Machines : Reconcile(m)
    BY <2>1, ReconcileType, ConfigAssumption, BoundAssumption
  <2>2. CASE UNCHANGED vars
    BY <2>2 DEF vars, apiVars, cacheVars, scvmmVars, workVars, TypeOK, ApiTypeOK, CacheTypeOK,
                ScvmmTypeOK, WorkTypeOK
  <2> QED
    BY <2>1, <2>2, EnvironmentType DEF Next
<1> QED
  BY TypeInit, <1>1, PTL DEF Spec

-----------------------------------------------------------------------------
(* SCVMM never forgets that an id was used, nor the name of its VM. *)
VmGrows ==
    \A v \in VmIds : vm[v].st # "unused" => vm'[v].st # "unused" /\ vm'[v].name = vm[v].name

LEMMA VmSteps ==
    ASSUME ScvmmTypeOK
    PROVE  /\ \A v \in VmIds : StartVM(v) \/ RemoveVM(v) => VmGrows
           /\ \A v \in VmIds, n \in Names \cup {NoName} : CreateVM(v, n) => VmGrows
           /\ \A v \in VmIds : VmTaskDone(v) \/ AdminStops(v) \/ AdminRemoves(v) => VmGrows
           /\ UNCHANGED vm => VmGrows
<1> USE DEF ScvmmTypeOK, Vm, VmStates, VmGrows
<1>1. ASSUME NEW v \in VmIds, StartVM(v) PROVE VmGrows
  BY <1>1 DEF StartVM
<1>2. ASSUME NEW v \in VmIds, RemoveVM(v) PROVE VmGrows
  BY <1>2 DEF RemoveVM
<1>3. ASSUME NEW v \in VmIds, NEW n \in Names \cup {NoName}, CreateVM(v, n) PROVE VmGrows
  BY <1>3 DEF CreateVM
<1>4. ASSUME NEW v \in VmIds, VmTaskDone(v) \/ AdminStops(v) \/ AdminRemoves(v) PROVE VmGrows
  BY <1>4 DEF VmTaskDone, Busy, AdminStops, AdminRemoves
<1> QED
  BY <1>1, <1>2, <1>3, <1>4

LEMMA LaterTransitive ==
    ASSUME NEW a \in Machine, NEW b \in Machine, NEW c \in Machine, Later(a, b), Later(b, c)
    PROVE  Later(a, c)
BY DEF Later, Machine, Phases

LEMMA LaterSame == ASSUME NEW a PROVE Later(a, a)
BY DEF Later

LEMMA NoMachineLater ==
    ASSUME NEW a PROVE Later(NoMachine, a)
BY DEF Later, NoMachine

(* A machine that goes by its user's name does not come to take another.   *)
LEMMA TookBefore ==
    ASSUME NEW x \in Machines,
           cobj'[x] = cobj[x] \/ cobj'[x] = obj[x],
           rd'[x] = rd[x] \/ rd'[x] = NoMachine \/ rd'[x] = cobj[x],
           obj'[x].vmName = obj[x].vmName \/ obj[x].vmName = NoName,
           Takes(x)'
    PROVE  Takes(x) /\ PoolOf[x] \in Pools
BY DEF Takes, NoMachine

LEMMA OwnedBefore ==
    ASSUME NEW x \in Machines, UNCHANGED pool,
           cobj'[x] = cobj[x] \/ cobj'[x] = obj[x],
           rd'[x] = rd[x] \/ rd'[x] = NoMachine \/ rd'[x] = cobj[x],
           obj'[x].vmName = obj[x].vmName \/ obj[x].vmName = NoName,
           Owns(x)'
    PROVE  Owns(x)
BY TookBefore DEF Owns

-----------------------------------------------------------------------------
(* Quiet steps. *)

(* The pools know no other name for machine x than n, and if they have to  *)
(* keep one for it, it is n.                                               *)
AgreedName(x, n) ==
    /\ obj[x].vmName = NoName
    /\ \A p \in Pools : \A k \in Names : pool[p].owner[k] = x => k = n
    /\ cobj[x].phase = "absent" => n \in Presets[x]
    /\ PoolOf[x] \in Pools /\ cobj[x].phase # "absent" /\ Holding(x) =>
         pool[PoolOf[x]].owner[n] = x
    /\ PoolOf[x] = NoPool /\ cobj[x].phase # "absent" => n = NameOf[x]

QuietAt(x) ==
    /\ Later(obj[x], obj'[x]) /\ Consistent(obj[x])'
    /\ obj'[x].vmName = obj[x].vmName \/ AgreedName(x, obj'[x].vmName)
    /\ rd'[x] = rd[x] \/ rd'[x] = NoMachine
    /\ Knows(x)' /\ FinalizerKept(x)'
    /\ \/ UNCHANGED <<pc[x], hold[x], pick[x]>> /\ (current'[x] => current[x])
       \/ pc'[x] \notin {"scan", "claim", "update", "sanity", "patchName"}

Quiet ==
    /\ UNCHANGED <<pool, cacheVars>>
    /\ VmGrows
    /\ \A x \in Machines : QuietAt(x)

LEMMA QuietNaming ==
    ASSUME TypeOK, TypeOK', NamingInv, Quiet
    PROVE  NamingInv'
<1> USE DEF NamingInv, Quiet, QuietAt, cacheVars
<1>1. CopiesLag'
  <2> SUFFICES ASSUME NEW x \in Machines PROVE (Later(cobj[x], obj[x]) /\ Later(rd[x], cobj[x]))'
    BY DEF CopiesLag
  <2>1. obj[x] \in Machine /\ cobj[x] \in Machine /\ obj'[x] \in Machine
    BY DEF TypeOK, ApiTypeOK, CacheTypeOK
  <2>2. Later(cobj[x], obj'[x])
    BY <2>1, LaterTransitive DEF CopiesLag
  <2>3. Later(rd'[x], cobj[x])
    BY NoMachineLater DEF CopiesLag
  <2> QED
    BY <2>2, <2>3
<1>2. CopiesConsistent'
  <2> SUFFICES ASSUME NEW x \in Machines
               PROVE  (Consistent(obj[x]) /\ Consistent(cobj[x]) /\ Consistent(rd[x]))'
    BY DEF CopiesConsistent
  <2>1. \A o \in {cobj[x], rd[x]} : o.id \in VmIds \cup {NoVm}
    BY MachineFields DEF TypeOK, CacheTypeOK, WorkTypeOK
  <2>2. Consistent(cobj[x])'
    BY <2>1 DEF CopiesConsistent, Consistent, VmGrows
  <2>3. Consistent(rd[x])'
    <3>1. CASE rd'[x] = rd[x]
      BY <2>1, <3>1 DEF CopiesConsistent, Consistent, VmGrows
    <3>2. CASE rd'[x] = NoMachine
      BY <3>2 DEF Consistent, NoMachine, Present
    <3> QED
      BY <3>1, <3>2
  <2> QED
    BY <2>2, <2>3
<1>3. WorkKnown'
  BY DEF WorkKnown
<1>4. OwnNameOnly'
  <2> SUFFICES ASSUME NEW x \in Machines, PoolOf[x] = NoPool,
                      NEW o \in {cobj'[x], rd'[x]}, o.phase # "absent", o.vmName = NoName
               PROVE  obj'[x].vmName \in {NoName, NameOf[x]}
    BY DEF OwnNameOnly
  <2>1. o \in {cobj[x], rd[x]}
    BY DEF NoMachine
  <2>2. cobj[x].phase # "absent"
    BY <2>1 DEF CopiesLag, Later
  <2> QED
    BY <2>1, <2>2 DEF OwnNameOnly, AgreedName
<1>5. PoolKeeps'
  <2> SUFFICES ASSUME NEW x \in Machines, Takes(x)', Holding(x)'
               PROVE  LET owner == pool[PoolOf[x]].owner
                      IN /\ obj'[x].vmName # NoName => owner[obj'[x].vmName] = x
                         /\ \A n \in Names : cpool[PoolOf[x]].owner[n] = x => owner[n] = x
                         /\ pc'[x] \in {"sanity", "patchName"} => owner[pick'[x]] = x
    BY DEF PoolKeeps
  <2>1. Holding(x)
    BY DEF Holding, NoMachine
  <2>2. Takes(x)
    BY TookBefore DEF AgreedName
  <2>3. CASE obj'[x].vmName = obj[x].vmName
    BY <2>1, <2>2, <2>3 DEF PoolKeeps
  <2>4. CASE AgreedName(x, obj'[x].vmName) /\ cobj[x].phase # "absent"
    BY <2>1, <2>2, <2>4 DEF PoolKeeps, AgreedName, Takes
  <2>5. CASE AgreedName(x, obj'[x].vmName) /\ cobj[x].phase = "absent"
    <3>1. rd'[x].phase = "absent"
      BY <2>5 DEF CopiesLag, Later, NoMachine
    <3>2. obj'[x].vmName = NoName
      BY <2>5, <3>1 DEF AgreedName, Takes
    <3> QED
      BY <2>1, <2>2, <3>2 DEF PoolKeeps
  <2> QED
    BY <2>3, <2>4, <2>5
<1>6. OwnersKnown'
  <2> SUFFICES ASSUME NEW p \in Pools, NEW n \in Names, pool[p].owner[n] # Nobody
               PROVE  MayOwn(p, n, pool[p].owner[n])'
    BY DEF OwnersKnown
  <2>1. MayOwn(p, n, pool[p].owner[n])
    BY DEF OwnersKnown
  <2> QED
    BY <2>1 DEF MayOwn, AgreedName, Later
<1>7. OneNamePerMachine' /\ FreshMeansEqual'
  BY DEF OneNamePerMachine, FreshMeansEqual
<1>8. UpdatesKnown'
  <2> SUFFICES ASSUME NEW x \in Machines PROVE ClaimCopyOf(x)' /\ ReleaseCopyOf(x)'
    BY DEF UpdatesKnown
  <2>1. CASE UNCHANGED <<pc[x], hold[x], pick[x]>> /\ (current'[x] => current[x])
    BY <2>1 DEF UpdatesKnown, ClaimCopyOf, ReleaseCopyOf
  <2>2. CASE pc'[x] \notin {"scan", "claim", "update", "sanity", "patchName"}
    BY <2>2 DEF ClaimCopyOf, ReleaseCopyOf
  <2> QED
    BY <2>1, <2>2
<1>9. FinalizersKept'
  BY DEF FinalizersKept
<1> QED
  BY <1>1, <1>2, <1>3, <1>4, <1>5, <1>6, <1>7, <1>8, <1>9

(* Only machine m's work and record change. *)
Alone(m) ==
    \A x \in Machines \ {m} :
        UNCHANGED <<obj[x], pc[x], rd[x], hold[x], current[x], pick[x], got[x]>>

LEMMA UntouchedAt ==
    ASSUME TypeOK, NamingInv, UNCHANGED <<pool, cacheVars>>, VmGrows, NEW x \in Machines,
           UNCHANGED <<obj[x], pc[x], rd[x], hold[x], pick[x], got[x]>>,
           current'[x] => current[x]
    PROVE  QuietAt(x)
<1>1. obj[x].id \in VmIds \cup {NoVm}
  BY MachineFields DEF TypeOK, ApiTypeOK
<1>2. Consistent(obj[x])'
  BY <1>1 DEF NamingInv, CopiesConsistent, Consistent, VmGrows, Present
<1>3. Knows(x)'
  BY DEF NamingInv, WorkKnown, Knows, VmGrows
<1>4. FinalizerKept(x)'
  BY OwnedBefore DEF NamingInv, FinalizersKept, FinalizerKept, Holding, cacheVars
<1> QED
  BY <1>2, <1>3, <1>4, LaterSame DEF QuietAt

LEMMA AloneQuiet ==
    ASSUME TypeOK, NamingInv, NEW m \in Machines,
           UNCHANGED <<pool, cacheVars>>, VmGrows, Alone(m), QuietAt(m)
    PROVE  Quiet
BY UntouchedAt DEF Quiet, Alone

(* Work that returns is forgotten; what it leaves in the record must agree. *)
LEMMA ReturnAt ==
    ASSUME TypeOK, NamingInv, NEW m \in Machines, NEW again, Return(m, again),
           UNCHANGED <<pool, cacheVars>>,
           Later(obj[m], obj'[m]), Consistent(obj[m])', Holding(m) /\ obj[m].fin => obj'[m].fin,
           obj'[m].vmName = obj[m].vmName \/ AgreedName(m, obj'[m].vmName)
    PROVE  QuietAt(m)
<1>1. /\ pc'[m] = "idle" /\ rd'[m] = NoMachine /\ pick'[m] = NoName
  BY DEF Return, TypeOK, WorkTypeOK
<1>2. Knows(m)'
  BY <1>1 DEF Knows, NamingLabels
<1>3. FinalizerKept(m)'
  <2>1. Owns(m)' => Owns(m)
    BY <1>1, OwnedBefore DEF AgreedName, cacheVars
  <2>2. Holding(m)' => Holding(m)
    BY <1>1 DEF Holding, NoMachine, cacheVars
  <2> QED
    BY <1>1, <2>1, <2>2 DEF NamingInv, FinalizersKept, FinalizerKept, cacheVars
<1> QED
  BY <1>1, <1>2, <1>3 DEF QuietAt

LEMMA ReturnAlone ==
    ASSUME NEW m \in Machines, NEW again, Return(m, again), UNCHANGED current,
           \A x \in Machines \ {m} : UNCHANGED obj[x]
    PROVE  Alone(m)
BY DEF Return, Alone

LEMMA GotoAlone ==
    ASSUME NEW m \in Machines, NEW label, Goto(m, label),
           UNCHANGED <<rd, hold, current>>,
           \A x \in Machines \ {m} : UNCHANGED <<obj[x], pick[x], got[x]>>
    PROVE  Alone(m)
BY DEF Goto, Alone

(* The steps of the environment that are quiet. *)
LEMMA EnvironmentQuiet ==
    ASSUME NullAssumption, ConfigAssumption, TypeOK, NamingInv,
           \/ \E m \in Machines : CreateMachine(m) \/ DeleteMachine(m) \/ Nudge(m)
           \/ \E v \in VmIds : VmTaskDone(v) \/ AdminStops(v) \/ AdminRemoves(v)
           \/ \E c \in late : LateCommand(c)
           \/ UNCHANGED vars
    PROVE  Quiet
<1>1. ASSUME NEW m \in Machines, CreateMachine(m) PROVE Quiet
  <2>1. PICK n \in {NoName} \cup Presets[m] :
          obj' = [obj EXCEPT ![m].phase = "live", ![m].vmName = n]
    BY <1>1, Zenon DEF CreateMachine
  <2>2. UNCHANGED <<pool, cacheVars, vm, pc, workVars>> /\ obj[m].phase = "absent"
    BY <1>1 DEF CreateMachine, scvmmVars
  <2>3. /\ obj[m].vmName = NoName /\ obj[m].id = NoVm /\ cobj[m].phase = "absent"
        /\ obj[m] \in Machine /\ ~ obj[m].fin /\ ~ cobj[m].fin /\ rd[m].phase = "absent"
    BY <2>2 DEF NamingInv, CopiesConsistent, Consistent, CopiesLag, Later, Present,
                TypeOK, ApiTypeOK, CacheTypeOK, Machine
  <2>4. /\ obj'[m].phase = "live" /\ obj'[m].vmName = n /\ obj'[m].id = NoVm /\ ~ obj'[m].fin
        /\ \A x \in Machines \ {m} : UNCHANGED obj[x]
    BY <2>1, <2>3 DEF TypeOK, ApiTypeOK, Machine
  <2>9. \A p \in Pools : \A k \in Names : pool[p].owner[k] # m
    BY <2>3, NullAssumption DEF NamingInv, OwnersKnown, MayOwn, NullAssumption
  <2>5. n # NoName => AgreedName(m, n)
    BY <2>3, <2>9, NullAssumption DEF AgreedName, NullAssumption
  <2>10. pc[m] = "idle"
    BY <2>3 DEF NamingInv, WorkKnown, Knows, NamingLabels, TypeOK, WorkTypeOK, Labels
  <2>11. FinalizerKept(m)'
    BY <2>2, <2>3, <2>9, <2>10 DEF FinalizerKept, Owns, Takes, cacheVars
  <2>6. VmGrows
    BY <2>2 DEF VmGrows
  <2>7. QuietAt(m)
    BY <2>2, <2>3, <2>4, <2>5, <2>10, <2>11 DEF QuietAt, Later, Consistent, Knows, NamingInv,
       WorkKnown, NamingLabels, workVars
  <2>8. Alone(m)
    BY <2>2, <2>4 DEF Alone, workVars
  <2> QED
    BY <2>2, <2>6, <2>7, <2>8, AloneQuiet
<1>2. ASSUME NEW m \in Machines, DeleteMachine(m) PROVE Quiet
  <2>1. /\ obj[m].phase = "live" /\ obj[m] \in Machine
        /\ obj'[m] = [obj[m] EXCEPT !.phase = IF obj[m].fin THEN "deleting" ELSE "gone"]
        /\ \A x \in Machines \ {m} : UNCHANGED obj[x]
        /\ UNCHANGED <<pool, cacheVars, vm, pc, workVars>>
    BY <1>2 DEF DeleteMachine, TypeOK, ApiTypeOK, scvmmVars
  <2>2. /\ obj'[m].phase = IF obj[m].fin THEN "deleting" ELSE "gone"
        /\ obj'[m].vmName = obj[m].vmName /\ obj'[m].id = obj[m].id /\ obj'[m].fin = obj[m].fin
    BY <2>1 DEF Machine
  <2>3. VmGrows
    BY <2>1 DEF VmGrows
  <2>6. FinalizerKept(m)'
    BY <2>1, <2>2, OwnedBefore DEF NamingInv, FinalizersKept, FinalizerKept, Holding, cacheVars, workVars
  <2>7. Later(obj[m], obj'[m]) /\ Consistent(obj[m])'
    BY <2>1, <2>2 DEF Later, Consistent, CopiesConsistent, NamingInv, Present
  <2>8. Knows(m)'
    BY <2>1 DEF Knows, NamingInv, WorkKnown, workVars
  <2>4. QuietAt(m)
    BY <2>1, <2>2, <2>6, <2>7, <2>8 DEF QuietAt, workVars
  <2>5. Alone(m)
    BY <2>1 DEF Alone, workVars
  <2> QED
    BY <2>1, <2>3, <2>4, <2>5, AloneQuiet
<1>3. CASE VmGrows /\ UNCHANGED <<apiVars, cacheVars, pc, workVars>>
  BY <1>3, UntouchedAt DEF Quiet, apiVars, workVars
<1>4. ASSUME NEW m \in Machines, Nudge(m) PROVE Quiet
  BY <1>3, <1>4, VmSteps DEF Nudge, scvmmVars, TypeOK
<1>5. ASSUME NEW v \in VmIds, VmTaskDone(v) \/ AdminStops(v) \/ AdminRemoves(v) PROVE Quiet
  <2>1. VmGrows
    BY <1>5, VmSteps DEF TypeOK
  <2> QED
    BY <1>3, <1>5, <2>1 DEF VmTaskDone, AdminStops, AdminRemoves
<1>6. ASSUME NEW c \in late, LateCommand(c) PROVE Quiet
  <2>1. c \in Command
    BY DEF TypeOK, ScvmmTypeOK
  <2>2. VmGrows
    BY <1>6, <2>1, VmSteps, CommandType DEF LateCommand, TypeOK
  <2> QED
    BY <1>3, <1>6, <2>2 DEF LateCommand
<1>7. CASE UNCHANGED vars
  <2>1. VmGrows
    BY <1>7, VmSteps DEF vars, scvmmVars, TypeOK
  <2> QED
    BY <1>3, <1>7, <2>1 DEF vars
<1> QED
  BY <1>1, <1>2, <1>4, <1>5, <1>6, <1>7

(* A machine that is given a name by its own patch is given the one the    *)
(* pools have for it.                                                      *)
LEMMA NameFromPool ==
    ASSUME NullAssumption, TypeOK, NamingInv, NEW m \in Machines, pc[m] = "patchName",
           obj[m].vmName # pick[m]
    PROVE  AgreedName(m, pick[m])
<1> USE DEF NamingInv
<1>1. /\ rd[m].phase = "live" /\ Takes(m) /\ pick[m] \in Names /\ Holding(m)
      /\ PoolOf[m] \in Pools /\ cobj[m].phase # "absent"
      /\ m # Nobody /\ NoName \notin Names /\ NoPool \notin Pools
      /\ obj[m].vmName \in Names \cup {NoName}
  BY NullAssumption, MachineFields
     DEF WorkKnown, Knows, NamingLabels, Holding, Takes, CopiesLag, Later, NullAssumption, TypeOK, ApiTypeOK
<1>2. pool[PoolOf[m]].owner[pick[m]] = m
  BY <1>1 DEF PoolKeeps
<1>3. obj[m].vmName = NoName
  <2> SUFFICES ASSUME obj[m].vmName # NoName PROVE FALSE
    OBVIOUS
  <2>1. obj[m].vmName \in Names /\ pool[PoolOf[m]].owner[obj[m].vmName] = m
    BY <1>1 DEF PoolKeeps
  <2> QED
    BY <1>1, <1>2, <2>1 DEF OneNamePerMachine
<1>4. ASSUME NEW p \in Pools, NEW k \in Names, pool[p].owner[k] = m PROVE k = pick[m]
  <2>1. PoolOf[m] = p
    BY <1>1, <1>3, <1>4 DEF OwnersKnown, MayOwn
  <2> QED
    BY <1>1, <1>2, <1>4, <2>1 DEF OneNamePerMachine
<1> QED
  BY <1>1, <1>2, <1>3, <1>4 DEF AgreedName

(* So is one whose patch of the id carries its own name. *)
LEMMA NameWithId ==
    ASSUME NullAssumption, TypeOK, NamingInv, NEW m \in Machines, pc[m] = "patchId",
           obj[m].vmName # pick[m]
    PROVE  AgreedName(m, pick[m]) /\ rd[m].vmName # pick[m]
<1> USE DEF NamingInv
<1>1. /\ rd[m].phase = "live" /\ pick[m] \in Names /\ m # Nobody
      /\ NoName \notin Names /\ NoPool \notin Pools
      /\ obj[m] \in Machine /\ cobj[m] \in Machine /\ rd[m] \in Machine
  BY NullAssumption DEF WorkKnown, Knows, NullAssumption, TypeOK, ApiTypeOK, CacheTypeOK, WorkTypeOK
<1>2. Later(rd[m], obj[m])
  BY <1>1, LaterTransitive DEF CopiesLag
<1>3. rd[m].vmName = NoName /\ PoolOf[m] = NoPool /\ pick[m] = NameOf[m]
  BY <1>1, <1>2 DEF WorkKnown, Knows, Later
<1>4. obj[m].vmName = NoName
  BY <1>1, <1>3 DEF OwnNameOnly
<1>5. \A p \in Pools : \A k \in Names : pool[p].owner[k] # m
  BY <1>1, <1>3, <1>4 DEF OwnersKnown, MayOwn
<1> QED
  BY <1>1, <1>3, <1>4, <1>5 DEF AgreedName, CopiesLag, Later

(* A reconcile that gives up, having written nothing. *)
LEMMA GivesUpQuiet ==
    ASSUME TypeOK, NamingInv, NEW m \in Machines, NEW again, Return(m, again),
           UNCHANGED <<apiVars, cacheVars>>, UNCHANGED current \/ Discard(m), VmGrows
    PROVE  Quiet
<1>1. obj[m].id \in VmIds \cup {NoVm}
  BY MachineFields DEF TypeOK, ApiTypeOK
<1>2. Consistent(obj[m])'
  BY <1>1 DEF NamingInv, CopiesConsistent, Consistent, VmGrows, Present, apiVars
<1>3. QuietAt(m)
  BY <1>2, ReturnAt, LaterSame DEF apiVars
<1>4. Alone(m)
  <2>1. CASE UNCHANGED current
    BY <2>1, ReturnAlone DEF apiVars
  <2>2. CASE Discard(m)
    BY <2>2 DEF Alone, Return, Discard, apiVars, TypeOK, WorkTypeOK
  <2> QED
    BY <2>1, <2>2
<1> QED
  BY <1>3, <1>4, AloneQuiet DEF apiVars

(* A reconcile that goes on to a call outside the pool's update. *)
LEMMA GoesOnQuiet ==
    ASSUME TypeOK, NamingInv, NEW m \in Machines, NEW label, Goto(m, label),
           UNCHANGED <<apiVars, cacheVars, rd, hold, current>>, VmGrows,
           \A x \in Machines \ {m} : UNCHANGED <<pick[x], got[x]>>,
           label \notin {"scan", "claim", "update", "sanity", "patchName"}, Knows(m)',
           pc[m] \notin {"idle", "finalizer"}
    PROVE  Quiet
<1>1. obj[m].id \in VmIds \cup {NoVm}
  BY MachineFields DEF TypeOK, ApiTypeOK
<1>2. Consistent(obj[m])'
  BY <1>1 DEF NamingInv, CopiesConsistent, Consistent, VmGrows, Present, apiVars
<1>3. pc'[m] = label
  BY DEF Goto, TypeOK, WorkTypeOK
<1>6. FinalizerKept(m)'
  BY OwnedBefore DEF NamingInv, FinalizersKept, FinalizerKept, Holding, cacheVars, apiVars
<1>4. QuietAt(m)
  BY <1>2, <1>3, <1>6, LaterSame DEF QuietAt, apiVars
<1>5. Alone(m)
  BY GotoAlone DEF apiVars
<1> QED
  BY <1>4, <1>5, AloneQuiet DEF apiVars

LEMMA ReconcileQuiet ==
    ASSUME NullAssumption, ConfigAssumption, TypeOK, NamingInv, NEW m \in Machines,
           \/ AddFinalizer(m) \/ GetVM(m) \/ PatchName(m) \/ SendCreateVM(m) \/ PatchId(m)
           \/ CheckName(m) \/ SendStartVM(m) \/ SendRemoveVM(m) \/ RemoveFinalizer(m)
    PROVE  Quiet
<1> USE DEF NamingInv
<1>0. /\ Knows(m) /\ obj[m] \in Machine /\ rd[m] \in Machine
      /\ pc \in [Machines -> Labels] /\ pick \in [Machines -> Names \cup {NoName}]
      /\ UNCHANGED vm => VmGrows
  BY VmSteps DEF WorkKnown, TypeOK, ApiTypeOK, WorkTypeOK
<1>1. CASE AddFinalizer(m)
  <2>1. CASE PatchFails(m) /\ Return(m, TRUE)
    BY <1>0, <1>1, <2>1, GivesUpQuiet DEF AddFinalizer, PatchFails, scvmmVars
  <2>2. CASE /\ Patch(m, [obj[m] EXCEPT !.fin = TRUE])
             /\ Goto(m, "get")
             /\ UNCHANGED <<rd, hold, at, pick, got, queued>>
    <3>1. /\ UNCHANGED <<pool, cacheVars, vm, rd, hold, current, pick, got>> /\ pc[m] = "finalizer"
          /\ obj'[m] = [obj[m] EXCEPT !.fin = TRUE] /\ pc'[m] = "get"
          /\ \A x \in Machines \ {m} : UNCHANGED obj[x]
      BY <1>0, <1>1, <2>2 DEF AddFinalizer, Patch, Goto, scvmmVars, TypeOK, ApiTypeOK
    <3>2. /\ obj'[m].phase = obj[m].phase /\ obj'[m].vmName = obj[m].vmName
          /\ obj'[m].id = obj[m].id /\ obj'[m].fin = TRUE /\ Present(obj[m])
      BY <1>0, <2>2, <3>1 DEF Machine, Patch
    <3>3. QuietAt(m)
      BY <1>0, <3>1, <3>2 DEF QuietAt, Later, CopiesConsistent, Consistent, Present, Knows, NamingLabels,
         FinalizerKept
    <3>4. Alone(m)
      BY <2>2, <3>1, GotoAlone
    <3> QED
      BY <1>0, <3>1, <3>3, <3>4, AloneQuiet
  <2> QED
    BY <1>1, <2>1, <2>2 DEF AddFinalizer
<1>2. CASE GetVM(m)
  <2> USE <1>2 DEF GetVM
  <2>1. VmGrows /\ pc[m] = "get" /\ UNCHANGED <<apiVars, cacheVars, current>>
    BY <1>0 DEF scvmmVars
  <2>2. CASE \E again \in BOOLEAN : Return(m, again)
    BY <2>1, <2>2, GivesUpQuiet
  <2>3. CASE NeedsVm(m) /\ UNCHANGED <<rd, hold, at, got, queued>>
    <3>1. PICK label \in {"create", "gen"} : Goto(m, label)
      BY <2>3 DEF NeedsVm
    <3>2. pc'[m] = label /\ \A x \in Machines \ {m} : UNCHANGED <<pick[x], got[x]>>
      BY <1>0, <2>3, <3>1 DEF NeedsVm, Goto
    <3>3. Knows(m)'
      <4>1. rd[m].vmName \in Names \cup {NoName} /\ NameOf[m] \in Names
            /\ (PoolOf[m] # NoPool => PoolOf[m] \in Pools)
        BY <1>0, MachineFields, ConfigAssumption DEF ConfigAssumption
      <4>2. CASE label = "gen"
        <5>1. /\ rd[m].vmName = NoName /\ PoolOf[m] \in Pools /\ UNCHANGED pick
          BY <1>0, <2>3, <3>2, <4>1, <4>2 DEF NeedsVm, Goto
        <5> QED
          BY <1>0, <2>1, <2>3, <3>2, <4>2, <5>1 DEF Knows, NamingLabels
      <4>3. CASE label = "create"
        <5>1. \/ rd[m].vmName # NoName /\ pick'[m] = rd[m].vmName
              \/ rd[m].vmName = NoName /\ PoolOf[m] = NoPool /\ pick'[m] = NameOf[m]
          BY <1>0, <2>3, <3>2, <4>3 DEF NeedsVm, Goto
        <5> QED
          BY <1>0, <2>1, <2>3, <3>2, <4>1, <4>3, <5>1 DEF Knows, NamingLabels
      <4> QED
        BY <4>2, <4>3
    <3> QED
      BY <2>1, <2>3, <3>1, <3>2, <3>3, GoesOnQuiet
  <2>4. CASE Goto(m, "check") /\ UNCHANGED <<rd, hold, at, pick, got, queued>>
    <3>1. pc'[m] = "check"
      BY <1>0, <2>4 DEF Goto
    <3>2. Knows(m)'
      BY <1>0, <2>1, <2>4, <3>1 DEF Knows, NamingLabels
    <3> QED
      BY <2>1, <2>4, <3>2, GoesOnQuiet
  <2> QED
    BY <2>2, <2>3, <2>4
<1>3. CASE PatchName(m)
  <2>1. /\ pc[m] = "patchName" /\ UNCHANGED <<cacheVars, vm, current>> /\ VmGrows
        /\ Return(m, FALSE)
    BY <1>0, <1>3 DEF PatchName, scvmmVars
  <2>2. CASE PatchFails(m)
    BY <2>1, <2>2, GivesUpQuiet DEF PatchFails
  <2>3. CASE Patch(m, [obj[m] EXCEPT !.vmName = pick[m]])
    <3>1. /\ obj'[m] = [obj[m] EXCEPT !.vmName = pick[m]] /\ UNCHANGED pool
          /\ obj[m].phase # "absent" /\ \A x \in Machines \ {m} : UNCHANGED obj[x]
      BY <2>3 DEF Patch, Present, TypeOK, ApiTypeOK
    <3>2. /\ obj'[m].phase = obj[m].phase /\ obj'[m].vmName = pick[m] /\ obj'[m].id = obj[m].id
          /\ obj'[m].fin = obj[m].fin
      BY <1>0, <3>1 DEF Machine
    <3>3. obj[m].vmName = pick[m] \/ AgreedName(m, pick[m])
      BY <2>1, NameFromPool
    <3>4. obj[m].vmName = pick[m] \/ obj[m].vmName = NoName
      BY <3>3 DEF AgreedName
    <3>5. Later(obj[m], obj'[m]) /\ Consistent(obj[m])'
      BY <2>1, <3>1, <3>2, <3>4 DEF Later, Consistent, CopiesConsistent, Present
    <3>6. QuietAt(m)
      BY <2>1, <3>1, <3>2, <3>3, <3>5, ReturnAt
    <3> QED
      BY <2>1, <3>1, <3>6, ReturnAlone, AloneQuiet
  <2> QED
    BY <1>3, <2>2, <2>3 DEF PatchName
<1>4. CASE SendCreateVM(m)
  <2>1. pc[m] = "create" /\ UNCHANGED <<apiVars, cacheVars, current>>
    BY <1>4 DEF SendCreateVM
  <2>2. CASE CommandFails({[op |-> "create", name |-> pick[m]]}) /\ Return(m, TRUE)
    BY <1>0, <2>1, <2>2, GivesUpQuiet DEF CommandFails
  <2>3. ASSUME NEW v \in VmIds, CreateVM(v, pick[m]), got' = [got EXCEPT ![m] = v],
               Goto(m, "patchId"), UNCHANGED <<late, rd, hold, at, pick, queued>>
        PROVE  Quiet
    <3>1. VmGrows
      BY <1>0, <2>3, VmSteps DEF TypeOK
    <3>2. /\ pc'[m] = "patchId" /\ got'[m] = v /\ \A x \in Machines \ {m} : UNCHANGED got[x]
          /\ vm'[v].st # "unused" /\ vm'[v].name = pick[m]
      BY <1>0, <2>3 DEF Goto, CreateVM, TypeOK, WorkTypeOK, ScvmmTypeOK
    <3>3. Knows(m)'
      BY <1>0, <2>1, <2>3, <3>2 DEF Knows, NamingLabels
    <3> QED
      BY <2>1, <2>3, <3>1, <3>2, <3>3, GoesOnQuiet
  <2> QED
    BY <1>4, <2>2, <2>3 DEF SendCreateVM
<1>5. CASE PatchId(m)
  <2>1. /\ pc[m] = "patchId" /\ UNCHANGED <<cacheVars, vm, current>> /\ VmGrows
        /\ Return(m, TRUE)
    BY <1>0, <1>5 DEF PatchId, scvmmVars
  <2>2. CASE PatchFails(m)
    BY <2>1, <2>2, GivesUpQuiet DEF PatchFails
  <2>3. CASE Patch(m, WithVm(m))
    <3>1. /\ obj'[m] = WithVm(m) /\ UNCHANGED pool
          /\ obj[m].phase # "absent" /\ \A x \in Machines \ {m} : UNCHANGED obj[x]
      BY <2>3 DEF Patch, Present, TypeOK, ApiTypeOK
    <3>2. /\ obj'[m].phase = obj[m].phase /\ obj'[m].id = got[m] /\ obj'[m].fin = obj[m].fin
          /\ obj'[m].vmName = IF rd[m].vmName # pick[m] THEN pick[m] ELSE obj[m].vmName
      BY <1>0, <3>1 DEF WithVm, Machine
    <3>3. obj[m].vmName = pick[m] \/ (AgreedName(m, pick[m]) /\ rd[m].vmName # pick[m])
      BY <2>1, NameWithId
    <3>4. /\ obj'[m].vmName = pick[m]
          /\ obj[m].vmName = pick[m] \/ obj[m].vmName = NoName
      BY <3>2, <3>3 DEF AgreedName
    <3>5. pick[m] # NoName /\ got[m] \in VmIds /\ vm[got[m]].st # "unused" /\ vm[got[m]].name = pick[m]
      BY <1>0, <2>1, NullAssumption DEF Knows, NullAssumption
    <3>6. Later(obj[m], obj'[m]) /\ Consistent(obj[m])'
      BY <2>1, <3>1, <3>2, <3>4, <3>5 DEF Later, Consistent, CopiesConsistent, Present
    <3>7. QuietAt(m)
      BY <2>1, <3>1, <3>2, <3>3, <3>4, <3>6, ReturnAt
    <3> QED
      BY <2>1, <3>1, <3>7, ReturnAlone, AloneQuiet
  <2> QED
    BY <1>5, <2>2, <2>3 DEF PatchId
<1>6. CASE CheckName(m)
  <2>1. VmGrows /\ pc[m] = "check" /\ UNCHANGED <<apiVars, cacheVars, current>>
    BY <1>0, <1>6 DEF CheckName, scvmmVars
  <2>2. CASE \E again \in BOOLEAN : Return(m, again)
    BY <2>1, <2>2, GivesUpQuiet
  <2>3. CASE Goto(m, "start") /\ UNCHANGED <<rd, hold, at, pick, got, queued>>
    <3>1. pc'[m] = "start"
      BY <1>0, <2>3 DEF Goto
    <3>2. Knows(m)'
      BY <1>0, <2>1, <2>3, <3>1 DEF Knows, NamingLabels
    <3> QED
      BY <2>1, <2>3, <3>2, GoesOnQuiet
  <2> QED
    BY <1>6, <2>2, <2>3 DEF CheckName
<1>7. CASE SendStartVM(m)
  <2>1. rd[m].id \in VmIds
    BY <1>7 DEF SendStartVM, TypeOK, WorkTypeOK
  <2>2. VmGrows
    BY <1>0, <1>7, <2>1, VmSteps DEF SendStartVM, CommandFails, TypeOK
  <2> QED
    BY <1>7, <2>2, GivesUpQuiet DEF SendStartVM
<1>8. CASE SendRemoveVM(m)
  <2>1. pc[m] = "remove" /\ UNCHANGED <<apiVars, cacheVars, current>>
    BY <1>8 DEF SendRemoveVM
  <2>2. CASE UNCHANGED vm /\ Return(m, TRUE)
    BY <1>0, <2>1, <2>2, GivesUpQuiet
  <2>3. CASE Removal(m)
    <3>1. VmGrows
      BY <1>0, <2>3, VmSteps DEF Removal, Exists, TypeOK
    <3> QED
      BY <2>1, <2>3, <3>1, GivesUpQuiet DEF Removal
  <2>4. CASE /\ Goto(m, IF PoolOf[m] # NoPool THEN "release" ELSE "unfinalize")
             /\ UNCHANGED <<scvmmVars, rd, hold, at, pick, got, queued>>
    <3>1. PICK label \in {"release", "unfinalize"} : Goto(m, label)
      BY <2>4
    <3>2. VmGrows /\ pc'[m] = label
      BY <1>0, <2>4, <3>1 DEF scvmmVars, Goto
    <3>3. Knows(m)'
      BY <1>0, <2>1, <2>4, <3>2 DEF Knows, NamingLabels
    <3> QED
      BY <2>1, <2>4, <3>1, <3>2, <3>3, GoesOnQuiet
  <2> QED
    BY <1>8, <2>2, <2>3, <2>4, Zenon DEF SendRemoveVM, CommandFails, scvmmVars
<1>9. CASE RemoveFinalizer(m)
  <2>1. UNCHANGED <<cacheVars, vm, current>> /\ VmGrows /\ pc[m] = "unfinalize"
    BY <1>0, <1>9 DEF RemoveFinalizer, scvmmVars
  <2>2. CASE PatchFails(m) /\ Return(m, TRUE)
    BY <2>1, <2>2, GivesUpQuiet DEF PatchFails
  <2>3. CASE /\ Patch(m, [obj[m] EXCEPT !.fin = FALSE,
                                        !.phase = IF @ = "deleting" THEN "gone" ELSE @])
             /\ Return(m, FALSE)
    <3>1. /\ obj'[m] = [obj[m] EXCEPT !.fin = FALSE,
                                      !.phase = IF @ = "deleting" THEN "gone" ELSE @]
          /\ UNCHANGED pool
          /\ obj[m].phase # "absent" /\ \A x \in Machines \ {m} : UNCHANGED obj[x]
      BY <2>3 DEF Patch, Present, TypeOK, ApiTypeOK
    <3>2. /\ obj'[m].phase = IF obj[m].phase = "deleting" THEN "gone" ELSE obj[m].phase
          /\ obj'[m].vmName = obj[m].vmName /\ obj'[m].id = obj[m].id /\ ~ obj'[m].fin
      BY <1>0, <3>1 DEF Machine
    <3>3. Later(obj[m], obj'[m]) /\ Consistent(obj[m])'
      BY <2>1, <3>1, <3>2 DEF Later, Consistent, CopiesConsistent
    <3>5. ~ Holding(m)
      BY <1>0, <2>1 DEF Knows, Holding, CopiesLag, Later
    <3>4. QuietAt(m)
      BY <2>1, <2>3, <3>1, <3>2, <3>3, <3>5, ReturnAt
    <3> QED
      BY <2>1, <2>3, <3>1, <3>4, ReturnAlone, AloneQuiet
  <2> QED
    BY <1>9, <2>2, <2>3 DEF RemoveFinalizer
<1> QED
  BY <1>1, <1>2, <1>3, <1>4, <1>5, <1>6, <1>7, <1>8, <1>9

-----------------------------------------------------------------------------
(* Steps that bring copies up to date. *)

(* A newer copy of a machine takes nothing from what is known of it. *)
LEMMA NewerCopy ==
    ASSUME TypeOK, NamingInv, UNCHANGED <<apiVars, vm>>,
           NEW x \in Machines, cobj'[x] = cobj[x] \/ cobj'[x] = obj[x],
           UNCHANGED <<pc[x], rd[x]>> \/ (rd'[x] = NoMachine /\ pc'[x] = "idle")
    PROVE  /\ Later(cobj[x], cobj'[x]) /\ Later(cobj'[x], obj[x]) /\ Later(rd'[x], cobj'[x])
           /\ Consistent(cobj[x])' /\ Consistent(rd[x])'
           /\ Holding(x)' => Holding(x)
           /\ FinalizerKept(x)'
<1> USE DEF NamingInv
<1>1. obj[x] \in Machine /\ cobj[x] \in Machine /\ rd[x] \in Machine /\ pc[x] \in Labels
  BY DEF TypeOK, ApiTypeOK, CacheTypeOK, WorkTypeOK
<1>2. /\ Later(cobj[x], obj[x]) /\ Later(rd[x], cobj[x]) /\ Later(rd[x], obj[x])
  BY <1>1, LaterTransitive DEF CopiesLag
<1>3. Later(cobj[x], cobj'[x]) /\ Later(cobj'[x], obj[x]) /\ Later(rd'[x], cobj'[x])
  BY <1>2, LaterSame, NoMachineLater
<1>4. Consistent(cobj[x])' /\ Consistent(rd[x])'
  BY DEF CopiesConsistent, Consistent, NoMachine, Present
<1>5. Holding(x)' => Holding(x)
  <2>1. rd'[x].phase = "live" => rd[x].phase = "live"
    BY DEF NoMachine
  <2>2. cobj'[x].phase \in {"absent", "live"} => cobj[x].phase \in {"absent", "live"}
    BY <1>1, <1>3 DEF Later, Machine, Phases
  <2> QED
    BY <2>1, <2>2 DEF Holding
<1>6. FinalizerKept(x)'
  BY <1>5, OwnedBefore DEF FinalizersKept, FinalizerKept, apiVars
<1> QED
  BY <1>3, <1>4, <1>5, <1>6

LEMMA SyncMachineNaming ==
    ASSUME TypeOK, NamingInv, NEW m \in Machines, SyncMachine(m)
    PROVE  NamingInv'
<1> USE DEF NamingInv
<1>1. /\ UNCHANGED <<apiVars, cpool, poolFresh, vm, pc, rd, hold, current, pick, got>>
      /\ \A x \in Machines : cobj'[x] = cobj[x] \/ cobj'[x] = obj[x]
  BY DEF SyncMachine, scvmmVars, workVars, TypeOK, CacheTypeOK
<1>2. ASSUME NEW x \in Machines
      PROVE  /\ Later(cobj[x], cobj'[x]) /\ Later(cobj'[x], obj[x]) /\ Later(rd'[x], cobj'[x])
             /\ Consistent(cobj[x])' /\ Consistent(rd[x])' /\ FinalizerKept(x)'
             /\ Holding(x)' => Holding(x)
  BY <1>1, NewerCopy
<1>3. CopiesLag' /\ CopiesConsistent' /\ FinalizersKept'
  BY <1>1, <1>2 DEF CopiesLag, CopiesConsistent, Consistent, FinalizersKept, apiVars
<1>4. WorkKnown' /\ OneNamePerMachine' /\ FreshMeansEqual'
  BY <1>1 DEF WorkKnown, Knows, OneNamePerMachine, FreshMeansEqual, apiVars
<1>5. OwnNameOnly'
  BY <1>1 DEF OwnNameOnly, apiVars
<1>6. PoolKeeps'
  BY <1>1, <1>2, TookBefore DEF PoolKeeps, apiVars
<1>7. OwnersKnown'
  BY <1>1, <1>2 DEF OwnersKnown, MayOwn, Later, apiVars
<1>8. UpdatesKnown'
  <2> SUFFICES ASSUME NEW x \in Machines PROVE ClaimCopyOf(x)' /\ ReleaseCopyOf(x)'
    BY DEF UpdatesKnown
  <2>1. ClaimCopyOf(x)'
    <3> SUFFICES ASSUME pc[x] \in {"scan", "claim"}, current[x] PROVE ClaimCopyOf(x)'
      BY <1>1 DEF ClaimCopyOf
    <3>1. hold[x].owner \in [Names -> Machines \cup {Nobody}]
      BY PoolFields DEF TypeOK, WorkTypeOK
    <3>2. \A y \in Machines : /\ cobj[y].phase # "absent" => cobj'[y].phase # "absent"
                              /\ cobj[y].vmName # NoName => cobj'[y].vmName = cobj[y].vmName
      BY <1>2 DEF Later
    <3>3. \A n \in Names : n # NoName
      BY NullAssumption DEF NullAssumption
    <3>4. ClaimCopyOf(x) /\ NullAssumption
      BY NullAssumption DEF UpdatesKnown
    <3>5. ASSUME NEW n \in Names, hold[x].owner[n] # Nobody,
                 cobj[hold[x].owner[n]].phase # "absent", cobj[hold[x].owner[n]].vmName = n
          PROVE  cobj'[hold[x].owner[n]].phase # "absent" /\ cobj'[hold[x].owner[n]].vmName = n
      BY <3>1, <3>2, <3>3, <3>5
    <3> QED
      BY <1>1, <3>4, <3>5 DEF ClaimCopyOf, apiVars
  <2>2. ReleaseCopyOf(x)'
    BY <1>1, <1>2 DEF UpdatesKnown, ReleaseCopyOf, Later, apiVars
  <2> QED
    BY <2>1, <2>2
<1> QED
  BY <1>3, <1>4, <1>5, <1>6, <1>7, <1>8

LEMMA SyncPoolNaming ==
    ASSUME TypeOK, NamingInv, NEW p \in Pools, SyncPool(p)
    PROVE  NamingInv'
<1> USE DEF NamingInv
<1>1. /\ UNCHANGED <<apiVars, cobj, vm, pc, rd, hold, current, pick, got>>
      /\ \A q \in Pools : \/ cpool'[q] = pool[q]
                          \/ cpool'[q] = cpool[q] /\ poolFresh'[q] = poolFresh[q]
  BY DEF SyncPool, scvmmVars, workVars, TypeOK, CacheTypeOK
<1>2. CopiesLag' /\ CopiesConsistent' /\ FinalizersKept'
  BY <1>1, OwnedBefore DEF CopiesLag, CopiesConsistent, Consistent, FinalizersKept, FinalizerKept, Holding, apiVars
<1>3. WorkKnown' /\ OwnNameOnly' /\ OneNamePerMachine'
  BY <1>1 DEF WorkKnown, Knows, OwnNameOnly, OneNamePerMachine, apiVars
<1>4. PoolKeeps' /\ FreshMeansEqual'
  BY <1>1, TookBefore DEF PoolKeeps, Holding, FreshMeansEqual, apiVars
<1>5. OwnersKnown' /\ UpdatesKnown'
  BY <1>1 DEF OwnersKnown, MayOwn, UpdatesKnown, ClaimCopyOf, ReleaseCopyOf, apiVars
<1> QED
  BY <1>2, <1>3, <1>4, <1>5

LEMMA CrashNaming ==
    ASSUME TypeOK, NamingInv, Crash
    PROVE  NamingInv'
<1> USE DEF NamingInv
<1>1. /\ UNCHANGED <<apiVars, vm>> /\ cobj' = obj /\ cpool' = pool
      /\ \A x \in Machines : /\ pc'[x] = "idle" /\ rd'[x] = NoMachine
                             /\ pick'[x] = NoName
  BY DEF Crash, scvmmVars
<1>2. ASSUME NEW x \in Machines
      PROVE  /\ Later(cobj[x], cobj'[x]) /\ Later(cobj'[x], obj[x]) /\ Later(rd'[x], cobj'[x])
             /\ Consistent(cobj[x])' /\ Consistent(rd[x])' /\ FinalizerKept(x)'
             /\ Holding(x)' => Holding(x)
  BY <1>1, NewerCopy
<1>3. CopiesLag' /\ CopiesConsistent' /\ FinalizersKept'
  BY <1>1, <1>2 DEF CopiesLag, CopiesConsistent, Consistent, FinalizersKept, apiVars
<1>4. WorkKnown' /\ OneNamePerMachine' /\ FreshMeansEqual' /\ UpdatesKnown'
  BY <1>1 DEF WorkKnown, Knows, NamingLabels, OneNamePerMachine, FreshMeansEqual, UpdatesKnown,
              ClaimCopyOf, ReleaseCopyOf, apiVars
<1>5. OwnNameOnly'
  BY <1>1 DEF OwnNameOnly, NoMachine, apiVars
<1>6. PoolKeeps'
  BY <1>1, <1>2, TookBefore DEF PoolKeeps, apiVars
<1>7. OwnersKnown'
  BY <1>1, <1>2 DEF OwnersKnown, MayOwn, Later, apiVars
<1> QED
  BY <1>3, <1>4, <1>5, <1>6, <1>7

-----------------------------------------------------------------------------
(* Steps of one reconcile that only read. *)

Local(m) ==
    /\ UNCHANGED <<apiVars, cacheVars, vm>>
    /\ rd'[m] \in {rd[m], cobj[m]}
    /\ \A x \in Machines \ {m} :
         UNCHANGED <<pc[x], rd[x], hold[x], current[x], pick[x], got[x]>>

LEMMA LocalNaming ==
    ASSUME TypeOK, NamingInv, NEW m \in Machines, Local(m),
           Knows(m)', FinalizerKept(m)', ClaimCopyOf(m)', ReleaseCopyOf(m)',
           Takes(m) /\ Holding(m) /\ pc'[m] \in {"sanity", "patchName"} =>
               pool[PoolOf[m]].owner[pick'[m]] = m
    PROVE  NamingInv'
<1> USE DEF NamingInv
<1>1. /\ UNCHANGED <<obj, pool, cobj, cpool, poolFresh, vm>>
      /\ \A x \in Machines : rd'[x] \in {rd[x], cobj[x]}
      /\ \A x \in Machines \ {m} :
           UNCHANGED <<pc[x], rd[x], hold[x], current[x], pick[x], got[x]>>
  BY DEF Local, apiVars, cacheVars
<1>2. \A x \in Machines : Holding(x)' => Holding(x)
  BY <1>1 DEF Holding
<1>3. CopiesLag' /\ CopiesConsistent' /\ OwnNameOnly'
  BY <1>1, LaterSame DEF CopiesLag, CopiesConsistent, Consistent, OwnNameOnly
<1>4. WorkKnown'
  BY <1>1 DEF WorkKnown, Knows
<1>5. FinalizersKept'
  BY <1>1, OwnedBefore DEF FinalizersKept, FinalizerKept, Holding
<1>6. PoolKeeps'
  BY <1>1, <1>2, TookBefore DEF PoolKeeps
<1>7. OwnersKnown' /\ OneNamePerMachine' /\ FreshMeansEqual'
  BY <1>1 DEF OwnersKnown, MayOwn, OneNamePerMachine, FreshMeansEqual
<1>8. UpdatesKnown'
  BY <1>1 DEF UpdatesKnown, ClaimCopyOf, ReleaseCopyOf
<1> QED
  BY <1>3, <1>4, <1>5, <1>6, <1>7, <1>8

LEMMA BeginNaming ==
    ASSUME TypeOK, NamingInv, NEW m \in Machines, Begin(m)
    PROVE  NamingInv'
<1> USE DEF NamingInv
<1>1. /\ UNCHANGED <<apiVars, cacheVars, vm, hold, current, pick, got>>
      /\ pc[m] = "idle" /\ pick[m] = NoName
  BY DEF Begin, scvmmVars, WorkKnown, Knows
<1>2. CASE UNCHANGED <<pc, rd>>
  <2>1. Local(m)
    BY <1>1, <1>2 DEF Local
  <2>2. Knows(m)' /\ FinalizerKept(m)' /\ ClaimCopyOf(m)' /\ ReleaseCopyOf(m)' /\ pc'[m] = "idle"
    BY <1>1, <1>2, OwnedBefore DEF WorkKnown, Knows, FinalizersKept, FinalizerKept, Holding,
                      ClaimCopyOf, ReleaseCopyOf, apiVars, cacheVars
  <2> QED
    BY <2>1, <2>2, LocalNaming
<1>3. CASE /\ rd' = [rd EXCEPT ![m] = cobj[m]]
           /\ Goto(m, CASE cobj[m].phase = "live" /\ ~ cobj[m].fin -> "finalizer"
                        [] cobj[m].phase = "live" /\ cobj[m].fin -> "get"
                        [] cobj[m].phase = "deleting" /\ cobj[m].vmName = NoName
                              /\ cobj[m].id = NoVm -> "unfinalize"
                        [] OTHER -> "remove")
           /\ Present(cobj[m])
  <2>1. /\ rd'[m] = cobj[m] /\ \A x \in Machines \ {m} : UNCHANGED <<pc[x], rd[x]>>
        /\ \/ cobj[m].phase = "live" /\ ~ cobj[m].fin /\ pc'[m] = "finalizer"
           \/ cobj[m].phase = "live" /\ cobj[m].fin /\ pc'[m] = "get"
           \/ cobj[m].phase = "deleting" /\ pc'[m] \in {"remove", "unfinalize"}
    BY <1>3 DEF Goto, Present, TypeOK, WorkTypeOK
  <2>2. Local(m)
    BY <1>1, <2>1 DEF Local
  <2>3. Knows(m)'
    BY <1>1, <2>1 DEF Knows, NamingLabels
  <2>4. FinalizerKept(m)'
    BY <1>1, <2>1, OwnedBefore DEF FinalizersKept, FinalizerKept, Holding, apiVars, cacheVars
  <2>5. ClaimCopyOf(m)' /\ ReleaseCopyOf(m)' /\ pc'[m] \notin {"sanity", "patchName"}
    BY <2>1 DEF ClaimCopyOf, ReleaseCopyOf
  <2> QED
    BY <2>2, <2>3, <2>4, <2>5, LocalNaming
<1> QED
  BY <1>2, <1>3 DEF Begin

LEMMA ReadPoolNaming ==
    ASSUME TypeOK, NamingInv, NEW m \in Machines, ReadPool(m)
    PROVE  NamingInv'
<1> USE DEF NamingInv
<1> DEFINE p == PoolOf[m]
<1>1. /\ UNCHANGED <<apiVars, cacheVars, vm, rd, got>> /\ pc[m] = "gen"
      /\ \A x \in Machines \ {m} : UNCHANGED <<pc[x], hold[x], current[x], pick[x]>>
  <2>1. /\ UNCHANGED <<apiVars, cacheVars, vm, rd, got>> /\ pc[m] = "gen"
        /\ pc \in [Machines -> Labels] /\ hold \in [Machines -> NamePool]
        /\ current \in [Machines -> BOOLEAN] /\ pick \in [Machines -> Names \cup {NoName}]
    BY DEF ReadPool, scvmmVars, TypeOK, WorkTypeOK
  <2>2. \E label \in Labels : pc' = [pc EXCEPT ![m] = label]
    BY DEF ReadPool, Goto, Labels
  <2>3. UNCHANGED pick \/ \E n : pick' = [pick EXCEPT ![m] = n]
    BY DEF ReadPool
  <2>4. \/ UNCHANGED <<hold, current>>
        \/ \E adopted : hold' = [hold EXCEPT ![m].owner = adopted]
                        /\ current' = [current EXCEPT ![m] = poolFresh[p]]
    BY DEF ReadPool
  <2>5. ASSUME NEW x \in Machines \ {m} PROVE UNCHANGED <<pc[x], hold[x], current[x], pick[x]>>
    BY <2>1, <2>2, <2>3, <2>4
  <2> QED
    BY <2>1, <2>5
<1>2. /\ p \in Pools /\ rd[m].phase = "live" /\ rd[m].vmName = NoName /\ Holding(m)
      /\ pick[m] = NoName /\ obj[m].fin /\ Takes(m)
  BY <1>1 DEF WorkKnown, Knows, NamingLabels, Holding, Takes, FinalizersKept, FinalizerKept
<1>3. Local(m)
  BY <1>1 DEF Local
<1>4. FinalizerKept(m)'
  BY <1>1, <1>2 DEF FinalizerKept, apiVars
<1>5. CASE \E n \in OwnNames(m, cpool[p].owner) :
             pick' = [pick EXCEPT ![m] = n] /\ Goto(m, "sanity")
  <2>1. PICK n \in Names : /\ cpool[p].owner[n] = m
                           /\ pick' = [pick EXCEPT ![m] = n] /\ Goto(m, "sanity")
    BY <1>5 DEF OwnNames
  <2>2. pc'[m] = "sanity" /\ pick'[m] = n
    BY <2>1 DEF Goto, TypeOK, WorkTypeOK
  <2>3. pool[p].owner[n] = m
    BY <1>2, <2>1 DEF PoolKeeps
  <2>4. Knows(m)' /\ ClaimCopyOf(m)' /\ ReleaseCopyOf(m)'
    BY <1>1, <1>2, <2>2 DEF Knows, NamingLabels, ClaimCopyOf, ReleaseCopyOf
  <2> QED
    BY <1>3, <1>4, <2>2, <2>3, <2>4, LocalNaming
<1>6. ASSUME OwnNames(m, cpool[p].owner) = {},
             NEW adopted \in [Names -> Machines \cup {Nobody}],
             Adopted(p, cpool[p].owner, adopted), hold' = [hold EXCEPT ![m].owner = adopted],
             current' = [current EXCEPT ![m] = poolFresh[p]], Goto(m, "scan"), UNCHANGED pick
      PROVE  NamingInv'
  <2>1. pc'[m] = "scan" /\ hold'[m].owner = adopted /\ current'[m] = poolFresh[p]
    BY <1>6 DEF Goto, TypeOK, WorkTypeOK, NamePool
  <2>2. Knows(m)' /\ ReleaseCopyOf(m)'
    BY <1>1, <1>2, <1>6, <2>1 DEF Knows, NamingLabels, ReleaseCopyOf
  <2>3. ClaimCopyOf(m)'
    <3> SUFFICES ASSUME poolFresh[p] PROVE ClaimCopyOf(m)'
      BY <2>1 DEF ClaimCopyOf
    <3>1. cpool[p] = pool[p]
      BY <1>2 DEF FreshMeansEqual
    <3>2. \A n \in Names : pool[p].owner[n] # m
      BY <1>6, <3>1 DEF OwnNames
    <3>3. \A n \in Names :
            /\ pool[p].owner[n] # Nobody => adopted[n] = pool[p].owner[n]
            /\ pool[p].owner[n] = Nobody /\ adopted[n] # Nobody =>
                 /\ cobj[adopted[n]].phase # "absent" /\ cobj[adopted[n]].vmName = n
                 /\ Namespace[adopted[n]] = Namespace[p]
      BY <1>6, <3>1 DEF Adopted, CachedHolders, Present
    <3> QED
      BY <1>1, <2>1, <3>2, <3>3 DEF ClaimCopyOf, apiVars, cacheVars
  <2> QED
    BY <1>3, <1>4, <2>1, <2>2, <2>3, LocalNaming
<1> QED
  BY <1>5, <1>6 DEF ReadPool

LEMMA ScanPoolNaming ==
    ASSUME TypeOK, TypeOK', NamingInv, NEW m \in Machines, ScanPool(m)
    PROVE  NamingInv'
<1> USE DEF NamingInv
<1> DEFINE p == PoolOf[m]
           r == RangeOf[p]
           Counted(owner) == [owner |-> owner, used |-> CountUsed(p, owner)]
<1>1. /\ UNCHANGED <<apiVars, cacheVars, vm>> /\ pc[m] = "scan" /\ VmGrows
  BY VmSteps DEF ScanPool, scvmmVars, TypeOK
<1>2. /\ p \in Pools /\ rd[m].phase = "live" /\ rd[m].vmName = NoName /\ Holding(m)
      /\ pick[m] = NoName /\ obj[m].fin /\ ClaimCopyOf(m)
  BY <1>1 DEF WorkKnown, Knows, NamingLabels, Holding, FinalizersKept, FinalizerKept, UpdatesKnown
<1>3. /\ pc \in [Machines -> Labels] /\ hold \in [Machines -> NamePool]
      /\ pick \in [Machines -> Names \cup {NoName}]
      /\ hold[m].owner \in [Names -> Machines \cup {Nobody}]
  BY PoolFields DEF TypeOK, WorkTypeOK
<1>4. CASE UNCHANGED <<pc, hold, pick, rd, current, got>>
  <2>1. Local(m)
    BY <1>1, <1>4 DEF Local
  <2>2. Knows(m)' /\ FinalizerKept(m)' /\ ClaimCopyOf(m)' /\ ReleaseCopyOf(m)'
    BY <1>1, <1>2, <1>4 DEF WorkKnown, Knows, FinalizerKept, ClaimCopyOf, ReleaseCopyOf,
                            apiVars, cacheVars
  <2> QED
    BY <1>1, <1>4, <2>1, <2>2, LocalNaming
<1>5. ASSUME NEW n \in Names, hold[m].owner[n] = Nobody, pick' = [pick EXCEPT ![m] = n],
             hold' = [hold EXCEPT ![m] = Counted([@.owner EXCEPT ![n] = m])], Goto(m, "claim"),
             UNCHANGED <<rd, current, got>>
      PROVE  NamingInv'
  <2>1. /\ pc'[m] = "claim" /\ pick'[m] = n /\ hold'[m].owner = [hold[m].owner EXCEPT ![n] = m]
        /\ \A x \in Machines \ {m} : UNCHANGED <<pc[x], hold[x], pick[x]>>
    BY <1>3, <1>5 DEF Goto
  <2>2. Local(m)
    BY <1>1, <1>5, <2>1 DEF Local
  <2>3. Knows(m)' /\ FinalizerKept(m)' /\ ReleaseCopyOf(m)'
    BY <1>1, <1>2, <1>5, <2>1 DEF Knows, NamingLabels, FinalizerKept, ReleaseCopyOf, apiVars
  <2>4. ClaimCopyOf(m)'
    <3> SUFFICES ASSUME current[m] PROVE ClaimCopyOf(m)'
      BY <1>5 DEF ClaimCopyOf
    <3>1. hold'[m].owner[n] = m /\ \A k \in Names \ {n} : hold'[m].owner[k] = hold[m].owner[k]
      BY <1>3, <2>1
    <3>2. pool[p].owner[n] = Nobody
      BY <1>1, <1>2, <1>5 DEF ClaimCopyOf
    <3> QED
      BY <1>1, <1>2, <2>1, <3>1, <3>2 DEF ClaimCopyOf, apiVars, cacheVars
  <2> QED
    BY <2>1, <2>2, <2>3, <2>4, LocalNaming
<1>6. CASE /\ hold' = [hold EXCEPT ![m] = Counted(@.owner)] /\ Goto(m, "claim")
           /\ UNCHANGED <<rd, current, pick, got>>
  <2>1. /\ pc'[m] = "claim" /\ hold'[m].owner = hold[m].owner
        /\ \A x \in Machines \ {m} : UNCHANGED <<pc[x], hold[x]>>
    BY <1>3, <1>6 DEF Goto
  <2>2. Local(m)
    BY <1>1, <1>6, <2>1 DEF Local
  <2>3. Knows(m)' /\ FinalizerKept(m)' /\ ReleaseCopyOf(m)'
    BY <1>1, <1>2, <1>6, <2>1 DEF Knows, NamingLabels, FinalizerKept, ReleaseCopyOf, apiVars
  <2>4. ClaimCopyOf(m)'
    BY <1>1, <1>2, <1>6, <2>1 DEF ClaimCopyOf, apiVars, cacheVars
  <2> QED
    BY <2>1, <2>2, <2>3, <2>4, LocalNaming
<1>7. CASE Return(m, TRUE) /\ Discard(m)
  BY <1>1, <1>7, GivesUpQuiet, QuietNaming
<1>8. r \in Seq(Names)
  BY <1>2, ConfigAssumption DEF ConfigAssumption
<1>9. ASSUME NEW i \in DOMAIN r, hold[m].owner[r[i]] = Nobody, UNCHANGED <<rd, current, got>>,
             \/ UNCHANGED <<pc, hold, pick>>
             \/ /\ pick' = [pick EXCEPT ![m] = r[i]]
                /\ hold' = [hold EXCEPT ![m] = Counted([@.owner EXCEPT ![r[i]] = m])]
                /\ Goto(m, "claim")
      PROVE  NamingInv'
  <2>1. r[i] \in Names
    BY <1>8, <1>9
  <2> QED
    BY <1>4, <1>5, <1>9, <2>1
<1> QED
  BY <1>6, <1>7, <1>9 DEF ScanPool

LEMMA SanityCheckNaming ==
    ASSUME TypeOK, TypeOK', NamingInv, NEW m \in Machines, SanityCheck(m)
    PROVE  NamingInv'
<1> USE DEF NamingInv
<1>1. UNCHANGED <<apiVars, cacheVars, vm, current>> /\ pc[m] = "sanity" /\ VmGrows
  BY VmSteps DEF SanityCheck, scvmmVars, TypeOK
<1>2. CASE \E again \in BOOLEAN : Return(m, again)
  BY <1>1, <1>2, GivesUpQuiet, QuietNaming
<1>3. CASE Goto(m, "patchName") /\ UNCHANGED <<rd, hold, pick, got>>
  <2>1. pc'[m] = "patchName" /\ \A x \in Machines \ {m} : UNCHANGED pc[x]
    BY <1>3 DEF Goto, TypeOK, WorkTypeOK
  <2>2. Local(m)
    BY <1>1, <1>3, <2>1 DEF Local
  <2>3. Knows(m)' /\ FinalizerKept(m)' /\ ClaimCopyOf(m)' /\ ReleaseCopyOf(m)'
    BY <1>1, <1>3, <2>1 DEF WorkKnown, Knows, NamingLabels, FinalizersKept, FinalizerKept,
                            Holding, ClaimCopyOf, ReleaseCopyOf, apiVars, cacheVars
  <2>4. Takes(m) /\ Holding(m) => pool[PoolOf[m]].owner[pick'[m]] = m
    BY <1>1, <1>3 DEF PoolKeeps
  <2> QED
    BY <2>2, <2>3, <2>4, LocalNaming
<1> QED
  BY <1>2, <1>3 DEF SanityCheck

LEMMA ReadReleaseNaming ==
    ASSUME TypeOK, NamingInv, NEW m \in Machines, ReadRelease(m)
    PROVE  NamingInv'
<1> USE DEF NamingInv
<1> DEFINE p == PoolOf[m]
           c == cpool[p]
           kept == KeptOwners(p, m, c.owner)
<1>1. /\ UNCHANGED <<apiVars, cacheVars, vm, rd, pick, got>> /\ pc[m] = "release"
      /\ hold' = [hold EXCEPT ![m] = [owner |-> kept, used |-> KeptUsed(p, m, c)]]
      /\ current' = [current EXCEPT ![m] = poolFresh[p]] /\ Goto(m, "update")
  BY DEF ReadRelease, scvmmVars
<1>2. /\ p \in Pools /\ pc'[m] = "update" /\ hold'[m].owner = kept /\ current'[m] = poolFresh[p]
      /\ \A x \in Machines \ {m} : UNCHANGED <<pc[x], hold[x], current[x]>>
  BY <1>1 DEF Goto, TypeOK, WorkTypeOK, PoolLabels
<1>3. Local(m)
  BY <1>1, <1>2 DEF Local
<1>4. Knows(m)' /\ FinalizerKept(m)' /\ ClaimCopyOf(m)'
  BY <1>1, <1>2 DEF WorkKnown, Knows, NamingLabels, FinalizersKept, FinalizerKept, Owns, Holding,
                    ClaimCopyOf, apiVars, cacheVars
<1>5. ReleaseCopyOf(m)'
  <2> SUFFICES ASSUME poolFresh[p], NEW n \in Names
               PROVE  LET old == pool[p].owner
                      IN \/ kept[n] = old[n]
                         \/ kept[n] = Nobody /\ old[n] \in Machines
                            /\ (old[n] = m \/ cobj[old[n]].phase = "gone")
    BY <1>1, <1>2 DEF ReleaseCopyOf, apiVars, cacheVars
  <2>1. c = pool[p]
    BY <1>2 DEF FreshMeansEqual
  <2>2. kept[n] = IF Seen(p, c.owner[n]) /\ c.owner[n] # m THEN c.owner[n] ELSE Nobody
    BY DEF KeptOwners
  <2>3. CASE pool[p].owner[n] = Nobody
    BY <2>1, <2>2, <2>3
  <2>4. CASE pool[p].owner[n] # Nobody
    <3>1. MayOwn(p, n, pool[p].owner[n])
      BY <1>2, <2>4 DEF OwnersKnown
    <3>2. cobj[pool[p].owner[n]].phase \in Phases
      BY <3>1, MachineFields DEF MayOwn, TypeOK, CacheTypeOK
    <3> QED
      BY <2>1, <2>2, <3>1, <3>2 DEF MayOwn, Seen, Present, Phases
  <2> QED
    BY <2>3, <2>4
<1> QED
  BY <1>2, <1>3, <1>4, <1>5, LocalNaming

-----------------------------------------------------------------------------
(* Updates of a pool. *)

(* The new owners may own their names, no name that must be kept is lost,  *)
(* and a machine that becomes an owner has its finalizer.                  *)
UpdateAgrees(p, new) ==
    /\ \A n \in Names : new[n] # Nobody => MayOwn(p, n, new[n])
    /\ \A n1, n2 \in Names : new[n1] = new[n2] /\ new[n1] # Nobody => n1 = n2
    /\ \A x \in Machines : PoolOf[x] = p /\ Takes(x) /\ Holding(x) =>
         \A n \in Names : /\ pool[p].owner[n] = x => new[n] = x
                          /\ new[n] = x => pool[p].owner[n] = x \/ obj[x].fin

LEMMA UpdateNaming ==
    ASSUME TypeOK, TypeOK', NamingInv, NEW m \in Machines, PoolOf[m] \in Pools,
           UpdatePool(m), UNCHANGED vm,
           \A x \in Machines \ {m} : UNCHANGED <<pc[x], rd[x], hold[x], pick[x], got[x]>>,
           rd'[m] \in {rd[m], NoMachine}, Knows(m)',
           UpdateAgrees(PoolOf[m], hold[m].owner),
           pc[m] \notin {"idle", "finalizer"},
           pc'[m] \notin {"scan", "claim", "update", "patchName"},
           pc'[m] = "sanity" => hold[m].owner[pick'[m]] = m
    PROVE  NamingInv'
<1> USE DEF NamingInv
<1> DEFINE p == PoolOf[m]
           new == hold[m].owner
<1>1. /\ UNCHANGED <<obj, cobj, cpool, vm>>
      /\ pool'[p].owner = new /\ \A q \in Pools \ {p} : pool'[q] = pool[q]
      /\ poolFresh'[p] = FALSE /\ \A q \in Pools \ {p} : poolFresh'[q] = poolFresh[q]
      /\ \A x \in Machines : current'[x] = (current[x] /\ PoolOf[x] # p)
  BY DEF UpdatePool, TypeOK, ApiTypeOK, CacheTypeOK
<1>2. /\ \A x \in Machines : rd'[x] \in {rd[x], NoMachine}
      /\ NoMachine.phase = "absent" /\ NoMachine.vmName = NoName /\ NoMachine.id = NoVm
      /\ ~ NoMachine.fin
  BY DEF NoMachine
<1>3. \A x \in Machines : Holding(x)' => Holding(x)
  BY <1>1, <1>2 DEF Holding
<1>4. CopiesLag' /\ CopiesConsistent' /\ OwnNameOnly'
  BY <1>1, <1>2, NoMachineLater DEF CopiesLag, CopiesConsistent, Consistent, OwnNameOnly
<1>5. WorkKnown'
  BY <1>1 DEF WorkKnown, Knows
<1>6. FinalizersKept'
  <2> SUFFICES ASSUME NEW x \in Machines, Holding(x)',
                      cobj[x].fin \/ pc'[x] \notin {"idle", "finalizer"} \/ Owns(x)'
               PROVE  obj[x].fin
    BY <1>1 DEF FinalizersKept, FinalizerKept
  <2>1. Holding(x)
    BY <1>3
  <2>2. CASE cobj[x].fin \/ pc[x] \notin {"idle", "finalizer"}
    BY <2>1, <2>2 DEF FinalizersKept, FinalizerKept
  <2>3. CASE Owns(x)'
    <3>0. Takes(x) /\ PoolOf[x] \in Pools
      BY <1>1, <1>2, <2>3, TookBefore DEF Owns
    <3>1. PICK n \in Names : pool'[PoolOf[x]].owner[n] = x
      BY <2>3 DEF Owns
    <3>2. Owns(x) \/ obj[x].fin
      BY <1>1, <2>1, <3>0, <3>1 DEF UpdateAgrees, Owns
    <3> QED
      BY <2>1, <3>2 DEF FinalizersKept, FinalizerKept
  <2> QED
    BY <2>2, <2>3
<1>7. PoolKeeps'
  <2> SUFFICES ASSUME NEW x \in Machines, Takes(x)', Holding(x)'
               PROVE  LET owner == pool'[PoolOf[x]].owner
                      IN /\ obj[x].vmName # NoName => owner[obj[x].vmName] = x
                         /\ \A n \in Names : cpool[PoolOf[x]].owner[n] = x => owner[n] = x
                         /\ pc'[x] \in {"sanity", "patchName"} => owner[pick'[x]] = x
    BY <1>1 DEF PoolKeeps
  <2> DEFINE old == pool[PoolOf[x]].owner
             owner == pool'[PoolOf[x]].owner
  <2>1. Holding(x) /\ Takes(x) /\ PoolOf[x] \in Pools
    BY <1>1, <1>2, <1>3, TookBefore
  <2>2. \A n \in Names : old[n] = x => owner[n] = x
    BY <1>1, <2>1 DEF UpdateAgrees
  <2>3. obj[x].vmName \in Names \cup {NoName}
    BY MachineFields DEF TypeOK, ApiTypeOK
  <2>4. x # m /\ pc[x] \in {"sanity", "patchName"} => pick[x] \in Names
    BY DEF WorkKnown, Knows
  <2>5. PoolKeeps
    OBVIOUS
  <2>6. obj[x].vmName # NoName => owner[obj[x].vmName] = x
    BY <2>1, <2>2, <2>3, <2>5 DEF PoolKeeps
  <2>7. \A n \in Names : cpool[PoolOf[x]].owner[n] = x => owner[n] = x
    BY <2>1, <2>2, <2>5 DEF PoolKeeps
  <2>8. pc'[x] \in {"sanity", "patchName"} => owner[pick'[x]] = x
    <3>1. CASE x = m
      BY <1>1, <3>1
    <3>2. CASE x # m
      BY <2>1, <2>2, <2>4, <2>5, <3>2 DEF PoolKeeps
    <3> QED
      BY <3>1, <3>2
  <2> QED
    BY <2>6, <2>7, <2>8
<1>8. OwnersKnown'
  BY <1>1 DEF OwnersKnown, UpdateAgrees, MayOwn
<1>9. OneNamePerMachine' /\ FreshMeansEqual'
  BY <1>1 DEF OneNamePerMachine, UpdateAgrees, FreshMeansEqual
<1>10. UpdatesKnown'
  <2> SUFFICES ASSUME NEW x \in Machines, current'[x], pc'[x] \in {"scan", "claim", "update"}
               PROVE  ClaimCopyOf(x)' /\ ReleaseCopyOf(x)'
    BY DEF UpdatesKnown, ClaimCopyOf, ReleaseCopyOf
  <2>1. x # m /\ PoolOf[x] # p /\ current[x]
    BY <1>1
  <2>2. PoolOf[x] \in Pools
    BY <2>1 DEF TypeOK, WorkTypeOK, PoolLabels
  <2> QED
    BY <1>1, <2>1, <2>2 DEF UpdatesKnown, ClaimCopyOf, ReleaseCopyOf
<1> QED
  BY <1>4, <1>5, <1>6, <1>7, <1>8, <1>9, <1>10

LEMMA ClaimAgrees ==
    ASSUME NullAssumption, ConfigAssumption, TypeOK, NamingInv,
           NEW m \in Machines, pc[m] = "claim", current[m]
    PROVE  /\ UpdateAgrees(PoolOf[m], hold[m].owner)
           /\ pick[m] # NoName => hold[m].owner[pick[m]] = m
<1> USE DEF NamingInv
<1> DEFINE p == PoolOf[m]
           old == pool[p].owner
           new == hold[m].owner
<1>1. /\ p \in Pools /\ Takes(m) /\ Holding(m) /\ rd[m].phase = "live" /\ obj[m].fin
      /\ p # NoPool /\ m # Nobody /\ NoName \notin Names
  BY NullAssumption DEF WorkKnown, Knows, NamingLabels, Holding, Takes, FinalizersKept,
                        FinalizerKept, NullAssumption
<1>2. /\ \A n \in Names :
           /\ old[n] # m
           /\ old[n] # Nobody => new[n] = old[n]
           /\ old[n] = Nobody /\ new[n] # Nobody =>
                \/ new[n] = m /\ n = pick[m]
                \/ /\ cobj[new[n]].phase # "absent" /\ cobj[new[n]].vmName = n
                   /\ Namespace[new[n]] = Namespace[p]
      /\ pick[m] # NoName => new[pick[m]] = m
  BY DEF UpdatesKnown, ClaimCopyOf
<1>3. obj[m].vmName = NoName
  <2>1. obj[m].vmName \in Names \cup {NoName}
    BY MachineFields DEF TypeOK, ApiTypeOK
  <2> QED
    BY <1>1, <1>2, <2>1 DEF PoolKeeps
<1>4. new \in [Names -> Machines \cup {Nobody}]
  BY PoolFields DEF TypeOK, WorkTypeOK
<1>5. ASSUME NEW n \in Names, new[n] # Nobody PROVE MayOwn(p, n, new[n])
  <2>1. CASE old[n] # Nobody
    BY <1>1, <1>2, <2>1 DEF OwnersKnown
  <2>2. CASE new[n] = m /\ n = pick[m]
    <3>1. cobj[m].phase # "absent"
      BY <1>1 DEF CopiesLag, Later
    <3>2. Namespace[m] = Namespace[p]
      BY <1>1, ConfigAssumption DEF ConfigAssumption
    <3> QED
      BY <1>3, <2>2, <3>1, <3>2 DEF MayOwn
  <2>3. CASE /\ cobj[new[n]].phase # "absent" /\ cobj[new[n]].vmName = n
             /\ Namespace[new[n]] = Namespace[p]
    <3>1. new[n] \in Machines /\ n # NoName
      BY <1>1, <1>4, <1>5
    <3>2. obj[new[n]].vmName = n
      BY <2>3, <3>1 DEF CopiesLag, Later
    <3> QED
      BY <2>3, <3>1, <3>2 DEF MayOwn
  <2> QED
    BY <1>2, <1>5, <2>1, <2>2, <2>3
<1>6. ASSUME NEW n1 \in Names, NEW n2 \in Names, new[n1] = new[n2], new[n1] # Nobody
      PROVE  n1 = n2
  <2>1. MayOwn(p, n1, new[n1]) /\ MayOwn(p, n2, new[n1])
    BY <1>5, <1>6
  <2>2. CASE old[n1] # Nobody /\ old[n2] # Nobody
    BY <1>1, <1>2, <1>6, <2>2 DEF OneNamePerMachine
  <2>3. CASE new[n1] = m
    <3>1. cobj[m].vmName = NoName
      BY <1>3 DEF CopiesLag, Later
    <3>2. ASSUME NEW n \in Names, new[n] = m PROVE n = pick[m]
      <4>1. old[n] = Nobody
        BY <1>2, <3>2
      <4> QED
        BY <1>1, <1>2, <3>1, <3>2, <4>1
    <3> QED
      BY <1>6, <2>3, <3>2
  <2>4. CASE new[n1] # m /\ (old[n1] = Nobody \/ old[n2] = Nobody)
    <3>1. \E n \in {n1, n2} : cobj[new[n1]].vmName = n
      BY <1>2, <1>6, <2>4
    <3>2. obj[new[n1]].vmName # NoName
      BY <1>1, <2>1, <3>1 DEF CopiesLag, Later, MayOwn
    <3> QED
      BY <2>1, <3>2 DEF MayOwn
  <2> QED
    BY <2>2, <2>3, <2>4
<1>7. ASSUME NEW x \in Machines, PoolOf[x] = p, Takes(x), Holding(x), NEW n \in Names
      PROVE  /\ old[n] = x => new[n] = x
             /\ new[n] = x => old[n] = x \/ obj[x].fin
  <2>1. x # Nobody
    BY NullAssumption DEF NullAssumption
  <2>2. ASSUME new[n] = x, old[n] # x, x # m PROVE FALSE
    <3>1. old[n] = Nobody /\ cobj[x].vmName = n
      BY <1>2, <2>1, <2>2
    <3>2. obj[x].vmName = n
      BY <1>1, <3>1 DEF CopiesLag, Later
    <3> QED
      BY <1>1, <1>7, <2>2, <3>2 DEF PoolKeeps
  <2> QED
    BY <1>1, <1>2, <2>1, <2>2
<1> QED
  BY <1>2, <1>5, <1>6, <1>7 DEF UpdateAgrees

LEMMA ReleaseAgrees ==
    ASSUME NullAssumption, TypeOK, NamingInv,
           NEW m \in Machines, PoolOf[m] \in Pools, pc[m] = "update", current[m]
    PROVE  UpdateAgrees(PoolOf[m], hold[m].owner)
<1> USE DEF NamingInv
<1> DEFINE p == PoolOf[m]
           old == pool[p].owner
           new == hold[m].owner
<1>1. \A n \in Names :
        \/ new[n] = old[n]
        \/ new[n] = Nobody /\ old[n] \in Machines /\ (old[n] = m \/ cobj[old[n]].phase = "gone")
  BY DEF UpdatesKnown, ReleaseCopyOf
<1>2. ~ Holding(m)
  BY DEF WorkKnown, Knows, Holding, CopiesLag, Later
<1>3. \A n \in Names : new[n] # Nobody => MayOwn(p, n, new[n])
  BY <1>1 DEF OwnersKnown
<1>4. \A n1, n2 \in Names : new[n1] = new[n2] /\ new[n1] # Nobody => n1 = n2
  BY <1>1 DEF OneNamePerMachine
<1>5. ASSUME NEW x \in Machines, PoolOf[x] = p, Takes(x), Holding(x), NEW n \in Names
      PROVE  /\ old[n] = x => new[n] = x
             /\ new[n] = x => old[n] = x \/ obj[x].fin
  <2>1. x # Nobody /\ x # m
    BY <1>2, <1>5, NullAssumption DEF NullAssumption
  <2>2. ASSUME old[n] = x, new[n] # x PROVE FALSE
    <3>1. cobj[x].phase = "gone"
      BY <1>1, <2>1, <2>2
    <3>2. obj[x].fin
      BY <1>5, <2>2 DEF FinalizersKept, FinalizerKept, Owns
    <3>3. obj[x].phase = "gone"
      BY <3>1 DEF CopiesLag, Later
    <3> QED
      BY <3>2, <3>3 DEF CopiesConsistent, Consistent, Present
  <2> QED
    BY <1>1, <2>1, <2>2
<1> QED
  BY <1>3, <1>4, <1>5 DEF UpdateAgrees

LEMMA ClaimNameNaming ==
    ASSUME NullAssumption, ConfigAssumption, TypeOK, TypeOK', NamingInv,
           NEW m \in Machines, ClaimName(m)
    PROVE  NamingInv'
<1>1. UNCHANGED vm /\ pc[m] = "claim" /\ VmGrows /\ pc \in [Machines -> Labels]
  BY VmSteps DEF ClaimName, scvmmVars, TypeOK, WorkTypeOK
<1>2. /\ PoolOf[m] \in Pools /\ rd[m].phase = "live" /\ rd[m].vmName = NoName
      /\ pick[m] \in Names \cup {NoName}
  BY <1>1 DEF NamingInv, WorkKnown, Knows, NamingLabels, TypeOK, WorkTypeOK
<1>3. CASE UpdateFails(m) /\ Return(m, TRUE)
  BY <1>1, <1>3, GivesUpQuiet, QuietNaming DEF UpdateFails
<1>4. CASE UpdatePool(m) /\ Return(m, TRUE)
  <2>1. /\ pc'[m] = "idle" /\ rd'[m] = NoMachine /\ pick'[m] = NoName
        /\ \A x \in Machines \ {m} : UNCHANGED <<pc[x], rd[x], hold[x], pick[x], got[x]>>
    BY <1>4 DEF Return, TypeOK, WorkTypeOK
  <2>2. Knows(m)'
    BY <2>1 DEF Knows, NamingLabels
  <2>3. UpdateAgrees(PoolOf[m], hold[m].owner)
    BY <1>1, <1>4, ClaimAgrees DEF UpdatePool, CanUpdate
  <2> QED
    BY <1>1, <1>2, <1>4, <2>1, <2>2, <2>3, UpdateNaming
<1>5. CASE /\ UpdatePool(m) /\ pick[m] # NoName
           /\ Goto(m, "sanity") /\ UNCHANGED <<rd, hold, at, pick, got, queued>>
  <2>1. pc'[m] = "sanity" /\ \A x \in Machines \ {m} : UNCHANGED pc[x]
    BY <1>1, <1>5 DEF Goto
  <2>2. Knows(m)'
    BY <1>2, <1>5, <2>1 DEF Knows, NamingLabels
  <2>3. UpdateAgrees(PoolOf[m], hold[m].owner) /\ hold[m].owner[pick[m]] = m
    BY <1>1, <1>5, ClaimAgrees DEF UpdatePool, CanUpdate
  <2> QED
    BY <1>1, <1>2, <1>5, <2>1, <2>2, <2>3, UpdateNaming
<1> QED
  BY <1>3, <1>4, <1>5 DEF ClaimName

LEMMA ReleaseNameNaming ==
    ASSUME NullAssumption, TypeOK, TypeOK', NamingInv, NEW m \in Machines, ReleaseName(m)
    PROVE  NamingInv'
<1>1. UNCHANGED vm /\ pc[m] = "update" /\ VmGrows /\ pc \in [Machines -> Labels]
  BY VmSteps DEF ReleaseName, scvmmVars, TypeOK, WorkTypeOK
<1>2. /\ PoolOf[m] \in Pools /\ rd[m].phase = "deleting"
  BY <1>1 DEF NamingInv, WorkKnown, Knows, TypeOK, WorkTypeOK, PoolLabels
<1>3. CASE UpdateFails(m) /\ Return(m, TRUE)
  BY <1>1, <1>3, GivesUpQuiet, QuietNaming DEF UpdateFails
<1>4. UpdatePool(m) => UpdateAgrees(PoolOf[m], hold[m].owner)
  BY <1>1, <1>2, ReleaseAgrees DEF UpdatePool, CanUpdate
<1>5. CASE UpdatePool(m) /\ Return(m, TRUE)
  <2>1. /\ pc'[m] = "idle" /\ rd'[m] = NoMachine /\ pick'[m] = NoName
        /\ \A x \in Machines \ {m} : UNCHANGED <<pc[x], rd[x], hold[x], pick[x], got[x]>>
    BY <1>5 DEF Return, TypeOK, WorkTypeOK
  <2>2. Knows(m)'
    BY <2>1 DEF Knows, NamingLabels
  <2> QED
    BY <1>1, <1>2, <1>4, <1>5, <2>1, <2>2, UpdateNaming
<1>6. CASE /\ UpdatePool(m) /\ Goto(m, "unfinalize")
           /\ UNCHANGED <<rd, hold, at, pick, got, queued>>
  <2>1. pc'[m] = "unfinalize" /\ \A x \in Machines \ {m} : UNCHANGED pc[x]
    BY <1>1, <1>6 DEF Goto
  <2>2. Knows(m)'
    BY <1>2, <1>6, <2>1 DEF Knows, NamingLabels
  <2> QED
    BY <1>1, <1>2, <1>4, <1>6, <2>1, <2>2, UpdateNaming
<1> QED
  BY <1>3, <1>5, <1>6 DEF ReleaseName

-----------------------------------------------------------------------------
(* Every step keeps names, pools and copies in agreement. *)

LEMMA NamingStep ==
    ASSUME NullAssumption, ConfigAssumption, TypeOK, TypeOK', NamingInv, [Next]_vars
    PROVE  NamingInv' /\ VmGrows
<1>1. ASSUME Quiet PROVE NamingInv' /\ VmGrows
  BY <1>1, QuietNaming DEF Quiet
<1>2. ASSUME NEW m \in Machines, Reconcile(m) PROVE NamingInv' /\ VmGrows
  <2>1. CASE \/ AddFinalizer(m) \/ GetVM(m) \/ PatchName(m) \/ SendCreateVM(m) \/ PatchId(m)
             \/ CheckName(m) \/ SendStartVM(m) \/ SendRemoveVM(m) \/ RemoveFinalizer(m)
    BY <1>1, <2>1, ReconcileQuiet
  <2>2. CASE Begin(m) \/ ReadPool(m) \/ ScanPool(m) \/ SanityCheck(m) \/ ReadRelease(m)
    <3>1. VmGrows
      BY <2>2, VmSteps DEF Begin, ReadPool, ScanPool, SanityCheck, ReadRelease, scvmmVars, TypeOK
    <3> QED
      BY <2>2, <3>1, BeginNaming, ReadPoolNaming, ScanPoolNaming, SanityCheckNaming, ReadReleaseNaming
  <2>3. CASE ClaimName(m) \/ ReleaseName(m)
    <3>1. VmGrows
      BY <2>3, VmSteps DEF ClaimName, ReleaseName, scvmmVars, TypeOK
    <3> QED
      BY <2>3, <3>1, ClaimNameNaming, ReleaseNameNaming
  <2> QED
    BY <1>2, <2>1, <2>2, <2>3 DEF Reconcile
<1>3. ASSUME NEW m \in Machines, CreateMachine(m) \/ DeleteMachine(m) \/ Nudge(m)
      PROVE  NamingInv' /\ VmGrows
  BY <1>1, <1>3, EnvironmentQuiet
<1>4. ASSUME NEW m \in Machines, SyncMachine(m) PROVE NamingInv' /\ VmGrows
  BY <1>4, SyncMachineNaming, VmSteps DEF SyncMachine, scvmmVars, TypeOK
<1>5. ASSUME NEW p \in Pools, SyncPool(p) PROVE NamingInv' /\ VmGrows
  BY <1>5, SyncPoolNaming, VmSteps DEF SyncPool, scvmmVars, TypeOK
<1>6. ASSUME NEW v \in VmIds, VmTaskDone(v) \/ AdminStops(v) \/ AdminRemoves(v)
      PROVE  NamingInv' /\ VmGrows
  BY <1>1, <1>6, EnvironmentQuiet
<1>7. ASSUME NEW c \in late, LateCommand(c) PROVE NamingInv' /\ VmGrows
  BY <1>1, <1>7, EnvironmentQuiet
<1>8. CASE Crash
  BY <1>8, CrashNaming, VmSteps DEF Crash, scvmmVars, TypeOK
<1>9. CASE UNCHANGED vars
  BY <1>1, <1>9, EnvironmentQuiet
<1> QED
  BY <1>2, <1>3, <1>4, <1>5, <1>6, <1>7, <1>8, <1>9 DEF Next

-----------------------------------------------------------------------------
(* Which steps clear a VM to run: the check of startVM only. *)

(* What SCVMM does, and is still to do. *)
VmsKept ==
    \A v \in VmIds : /\ IsUp(v)' => Cleared(v)
                     /\ Exists(v)' => Exists(v) \/ vm[v].st = "unused"

LateKept == \A v \in VmIds : [op |-> "start", id |-> v] \in late' => Cleared(v)

(* The reconciles that have passed the check. *)
ChecksKept == \A x \in Machines : pc'[x] = "start" => pc[x] = "start" /\ rd'[x] = rd[x]

LEMMA ClearedUsed ==
    ASSUME CopiesConsistent, LateStartsKnown, NullAssumption, NEW v \in VmIds, Cleared(v)
    PROVE  vm[v].st # "unused"
BY DEF CopiesConsistent, Consistent, LateStartsKnown, NullAssumption, Cleared, IsUp

LEMMA NoneCleared ==
    ASSUME NullAssumption, CopiesConsistent, LateStartsKnown, OneCleared, VmGrows,
           VmsKept, LateKept, ChecksKept
    PROVE  LateStartsKnown' /\ OneCleared'
<1>1. LateStartsKnown'
  BY ClearedUsed DEF LateStartsKnown, LateKept, VmGrows
<1>2. ASSUME NEW v \in VmIds, Exists(v)', Cleared(v)'
      PROVE  Exists(v) /\ Cleared(v) /\ vm'[v].name = vm[v].name
  <2>1. Cleared(v)
    BY <1>2 DEF VmsKept, LateKept, ChecksKept, Cleared
  <2> QED
    BY <1>2, <2>1, ClearedUsed DEF VmsKept, VmGrows
<1> QED
  BY <1>1, <1>2 DEF OneCleared

LEMMA VmStepsKeep ==
    ASSUME ScvmmTypeOK
    PROVE  /\ UNCHANGED vm => VmsKept
           /\ \A v \in VmIds : StartVM(v) /\ Cleared(v) => VmsKept
           /\ \A v \in VmIds : RemoveVM(v) => VmsKept
           /\ \A v \in VmIds, n \in Names \cup {NoName} : CreateVM(v, n) => VmsKept
           /\ \A v \in VmIds : VmTaskDone(v) \/ AdminStops(v) \/ AdminRemoves(v) => VmsKept
<1>0. vm \in [VmIds -> Vm]
  BY DEF ScvmmTypeOK
<1> USE DEF VmsKept, Exists, IsUp
<1>1. UNCHANGED vm => VmsKept
  BY DEF Cleared
<1>2. ASSUME NEW v \in VmIds, NEW st \in VmStates, vm' = [vm EXCEPT ![v].st = st],
             st = "removed" \/ vm[v].st \notin {"unused", "removed"},
             st \in {"running", "stopping"} => Cleared(v)
      PROVE  VmsKept
  <2> SUFFICES ASSUME NEW w \in VmIds
               PROVE  /\ IsUp(w)' => Cleared(w)
                      /\ Exists(w)' => Exists(w) \/ vm[w].st = "unused"
    BY Zenon
  <2>1. vm'[w].st = IF w = v THEN st ELSE vm[w].st
    BY <1>0, <1>2 DEF Vm
  <2>2. IsUp(w)' => Cleared(w)
    BY <1>2, <2>1 DEF Cleared
  <2> QED
    BY <1>2, <2>1, <2>2
<1>3. ASSUME NEW v \in VmIds, StartVM(v), Cleared(v) PROVE VmsKept
  BY <1>1, <1>2, <1>3 DEF StartVM, VmStates
<1>4. ASSUME NEW v \in VmIds, RemoveVM(v) PROVE VmsKept
  <2>1. CASE vm[v].st = "running" /\ vm' = [vm EXCEPT ![v].st = "stopping"]
    <3>1. Cleared(v) /\ "stopping" \in VmStates
      BY <2>1 DEF Cleared, VmStates
    <3> QED
      BY <1>2, <2>1, <3>1
  <2>2. CASE vm[v].st = "off" /\ vm' = [vm EXCEPT ![v].st = "removing"]
    BY <1>2, <2>2 DEF VmStates
  <2> QED
    BY <1>1, <1>4, <2>1, <2>2 DEF RemoveVM
<1>5. ASSUME NEW v \in VmIds, NEW n \in Names \cup {NoName}, CreateVM(v, n) PROVE VmsKept
  BY <1>0, <1>5 DEF CreateVM, Cleared
<1>6. ASSUME NEW v \in VmIds, VmTaskDone(v) \/ AdminStops(v) \/ AdminRemoves(v) PROVE VmsKept
  BY <1>2, <1>6 DEF VmTaskDone, Busy, AdminStops, AdminRemoves, VmStates
<1> QED
  BY <1>1, <1>3, <1>4, <1>5, <1>6

LEMMA CommandsKeep ==
    ASSUME NEW cs, CommandFails(cs),
           \A v \in VmIds : [op |-> "start", id |-> v] \in cs => Cleared(v)
    PROVE  LateKept
BY DEF CommandFails, LateKept, Cleared

LEMMA ReturnKeeps ==
    ASSUME TypeOK, NEW m \in Machines, NEW again, Return(m, again)
    PROVE  ChecksKept
BY DEF Return, ChecksKept, TypeOK, WorkTypeOK

LEMMA GotoKeeps ==
    ASSUME TypeOK, NEW m \in Machines, NEW label, Goto(m, label), label # "start", UNCHANGED rd
    PROVE  ChecksKept
BY DEF Goto, ChecksKept, TypeOK, WorkTypeOK

LEMMA ScvmmQuiet ==
    ASSUME TypeOK, UNCHANGED scvmmVars
    PROVE  VmsKept /\ LateKept
BY VmStepsKeep DEF scvmmVars, LateKept, Cleared, TypeOK

LEMMA EnvironmentClearsNone ==
    ASSUME TypeOK,
           \/ \E m \in Machines :
                CreateMachine(m) \/ DeleteMachine(m) \/ SyncMachine(m) \/ Nudge(m)
           \/ \E p \in Pools : SyncPool(p)
           \/ \E v \in VmIds : VmTaskDone(v) \/ AdminStops(v) \/ AdminRemoves(v)
           \/ \E c \in late : LateCommand(c)
           \/ Crash
           \/ UNCHANGED vars
    PROVE  VmsKept /\ LateKept /\ ChecksKept
<1>1. CASE UNCHANGED <<scvmmVars, pc, workVars>>
  BY <1>1, ScvmmQuiet DEF ChecksKept, workVars
<1>2. ASSUME NEW v \in VmIds, VmTaskDone(v) \/ AdminStops(v) \/ AdminRemoves(v)
      PROVE  VmsKept /\ LateKept /\ ChecksKept
  <2>1. UNCHANGED <<late, pc, rd>>
    BY <1>2 DEF VmTaskDone, AdminStops, AdminRemoves, workVars
  <2>2. VmsKept
    BY <1>2, VmStepsKeep DEF TypeOK
  <2> QED
    BY <2>1, <2>2 DEF LateKept, ChecksKept, Cleared
<1>3. ASSUME NEW c \in late, LateCommand(c) PROVE VmsKept /\ LateKept /\ ChecksKept
  <2>1. UNCHANGED <<pc, rd>> /\ late' \subseteq late /\ c \in Command
    BY <1>3 DEF LateCommand, workVars, TypeOK, ScvmmTypeOK
  <2>2. VmsKept
    <3>1. CASE c.op = "create" /\ \E v \in VmIds : CreateVM(v, c.name)
      BY <2>1, <3>1, CommandType, VmStepsKeep DEF TypeOK
    <3>2. CASE c.op = "start" /\ StartVM(c.id)
      <4>1. c.id \in VmIds /\ c = [op |-> "start", id |-> c.id]
        BY <2>1, <3>2 DEF Command
      <4>2. Cleared(c.id)
        BY <4>1 DEF Cleared
      <4> QED
        BY <3>2, <4>1, <4>2, VmStepsKeep DEF TypeOK
    <3>3. CASE c.op = "remove" /\ RemoveVM(c.id)
      BY <2>1, <3>3, CommandType, VmStepsKeep DEF TypeOK
    <3> QED
      BY <1>3, <3>1, <3>2, <3>3 DEF LateCommand
  <2> QED
    BY <2>1, <2>2 DEF LateKept, ChecksKept, Cleared
<1>4. CASE Crash
  BY <1>4, ScvmmQuiet DEF Crash, ChecksKept
<1> QED
  BY <1>1, <1>2, <1>3, <1>4
     DEF CreateMachine, DeleteMachine, SyncMachine, Nudge, SyncPool, vars

LEMMA ReconcileClearsNone ==
    ASSUME NullAssumption, TypeOK, NamingInv, NEW m \in Machines, Reconcile(m), ~ CheckName(m)
    PROVE  VmsKept /\ LateKept /\ ChecksKept
<1>1. ASSUME NEW again, Return(m, again), UNCHANGED scvmmVars
      PROVE  VmsKept /\ LateKept /\ ChecksKept
  BY <1>1, ReturnKeeps, ScvmmQuiet
<1>2. ASSUME NEW label, label # "start", Goto(m, label), UNCHANGED <<scvmmVars, rd>>
      PROVE  VmsKept /\ LateKept /\ ChecksKept
  BY <1>2, GotoKeeps, ScvmmQuiet
<1>3. CASE Begin(m)
  <2>1. UNCHANGED <<pc, rd>> \/ \E label : label # "start" /\ Goto(m, label)
    BY <1>3 DEF Begin
  <2>2. \A x \in Machines \ {m} : UNCHANGED rd[x]
    BY <1>3 DEF Begin, TypeOK, WorkTypeOK
  <2>3. ChecksKept
    BY <2>1, <2>2 DEF Goto, ChecksKept, TypeOK, WorkTypeOK
  <2> QED
    BY <1>3, <2>3, ScvmmQuiet DEF Begin
<1>4. CASE AddFinalizer(m) \/ PatchName(m) \/ PatchId(m) \/ RemoveFinalizer(m)
  BY <1>1, <1>2, <1>4 DEF AddFinalizer, PatchName, PatchId, RemoveFinalizer
<1>5. CASE GetVM(m)
  <2>1. CASE NeedsVm(m) /\ UNCHANGED rd
    BY <1>2, <1>5, <2>1 DEF GetVM, NeedsVm
  <2>2. CASE \E again \in BOOLEAN : Return(m, again)
    BY <1>1, <1>5, <2>2 DEF GetVM
  <2>3. CASE Goto(m, "check") /\ UNCHANGED rd
    BY <1>2, <1>5, <2>3 DEF GetVM
  <2> QED
    BY <1>5, <2>1, <2>2, <2>3 DEF GetVM
<1>6. CASE ReadPool(m) \/ SanityCheck(m) \/ ReadRelease(m)
  BY <1>1, <1>2, <1>6 DEF ReadPool, SanityCheck, ReadRelease
<1>7. CASE ScanPool(m)
  <2>1. CASE UNCHANGED <<pc, rd>>
    BY <1>7, <2>1, ScvmmQuiet DEF ScanPool, ChecksKept
  <2>2. CASE Goto(m, "claim") /\ UNCHANGED rd
    BY <1>2, <1>7, <2>2 DEF ScanPool
  <2>3. CASE Return(m, TRUE)
    BY <1>1, <1>7, <2>3 DEF ScanPool
  <2> QED
    BY <1>7, <2>1, <2>2, <2>3 DEF ScanPool
<1>8. CASE ClaimName(m) \/ ReleaseName(m)
  BY <1>1, <1>2, <1>8 DEF ClaimName, ReleaseName
<1>9. CASE SendCreateVM(m)
  <2>1. pick[m] \in Names \cup {NoName}
    BY DEF TypeOK, WorkTypeOK
  <2>2. ASSUME NEW v \in VmIds, CreateVM(v, pick[m]), Goto(m, "patchId"), UNCHANGED <<late, rd>>
        PROVE  VmsKept /\ LateKept /\ ChecksKept
    <3>1. VmsKept
      BY <2>1, <2>2, VmStepsKeep DEF TypeOK
    <3>2. ChecksKept
      BY <2>2, GotoKeeps
    <3> QED
      BY <2>2, <3>1, <3>2 DEF LateKept, Cleared
  <2>3. CASE CommandFails({[op |-> "create", name |-> pick[m]]}) /\ Return(m, TRUE)
    <3>1. LateKept
      BY <2>3, CommandsKeep
    <3> QED
      BY <2>3, <3>1, ReturnKeeps, VmStepsKeep DEF CommandFails, TypeOK
  <2> QED
    BY <1>9, <2>2, <2>3 DEF SendCreateVM
<1>10. CASE SendStartVM(m)
  <2>1. rd[m].id \in VmIds /\ Cleared(rd[m].id) /\ Return(m, TRUE)
    BY <1>10 DEF SendStartVM, TypeOK, WorkTypeOK, Cleared
  <2>2. CASE StartVM(rd[m].id) /\ UNCHANGED late
    <3>1. VmsKept
      BY <2>1, <2>2, VmStepsKeep DEF TypeOK
    <3> QED
      BY <2>1, <2>2, <3>1, ReturnKeeps DEF LateKept, Cleared
  <2>3. CASE CommandFails({[op |-> "start", id |-> rd[m].id]})
    <3>1. LateKept
      BY <2>1, <2>3, CommandsKeep
    <3> QED
      BY <2>1, <2>3, <3>1, ReturnKeeps, VmStepsKeep DEF CommandFails, TypeOK
  <2> QED
    BY <1>10, <2>2, <2>3 DEF SendStartVM
<1>11. CASE SendRemoveVM(m)
  <2>1. CASE Removal(m)
    <3>1. rd[m].id \in VmIds /\ RemoveVM(rd[m].id) /\ UNCHANGED late /\ Return(m, TRUE)
      BY <2>1 DEF Removal, Exists
    <3>2. VmsKept
      BY <3>1, VmStepsKeep DEF TypeOK
    <3> QED
      BY <3>1, <3>2, ReturnKeeps DEF LateKept, Cleared
  <2>2. CASE /\ CommandFails({[op |-> "remove", id |-> v] : v \in {rd[m].id} \ {NoVm}})
             /\ Return(m, TRUE)
    <3>1. LateKept
      BY <2>2, CommandsKeep
    <3> QED
      BY <2>2, <3>1, ReturnKeeps, VmStepsKeep DEF CommandFails, TypeOK
  <2>3. CASE \E label \in {"release", "unfinalize"} : Goto(m, label) /\ UNCHANGED <<scvmmVars, rd>>
    BY <1>2, <2>3
  <2>4. CASE Return(m, TRUE) /\ UNCHANGED scvmmVars
    BY <1>1, <2>4
  <2> QED
    BY <1>11, <2>1, <2>2, <2>3, <2>4 DEF SendRemoveVM
<1> QED
  BY <1>3, <1>4, <1>5, <1>6, <1>7, <1>8, <1>9, <1>10, <1>11 DEF Reconcile

(* The check clears the machine's own VM, if nothing else has its name. *)
LEMMA CheckNameClears ==
    ASSUME NullAssumption, TypeOK, NamingInv, LateStartsKnown, OneCleared,
           NEW m \in Machines, CheckName(m)
    PROVE  LateStartsKnown' /\ OneCleared'
<1>1. UNCHANGED scvmmVars /\ VmGrows /\ pc[m] = "check"
  BY VmSteps DEF CheckName, scvmmVars, TypeOK
<1>2. CASE \E again \in BOOLEAN : Return(m, again)
  BY <1>1, <1>2, ReturnKeeps, ScvmmQuiet, NoneCleared DEF NamingInv
<1>3. CASE AtMostOneNamed(rd[m].vmName) /\ Goto(m, "start") /\ UNCHANGED rd
  <2>1. LateStartsKnown'
    BY <1>1 DEF LateStartsKnown, scvmmVars
  <2>2. rd[m].id \in VmIds /\ vm[rd[m].id].name = rd[m].vmName
    BY <1>1, NullAssumption
       DEF NamingInv, CopiesConsistent, Consistent, TypeOK, WorkTypeOK, NullAssumption
  <2>3. \A v \in VmIds : Cleared(v)' => Cleared(v) \/ v = rd[m].id
    BY <1>1, <1>3 DEF Cleared, IsUp, Goto, scvmmVars, TypeOK, WorkTypeOK
  <2>4. \A v \in VmIds : Exists(v)' = Exists(v) /\ vm'[v].name = vm[v].name
    BY <1>1 DEF Exists, scvmmVars
  <2>5. ASSUME NEW v \in VmIds, NEW w \in VmIds, Exists(v), Exists(w), vm[v].name = vm[w].name,
               v = rd[m].id \/ w = rd[m].id
        PROVE  v = w
    BY <1>3, <2>2, <2>5 DEF AtMostOneNamed, VmsNamed
  <2>6. OneCleared'
    BY <2>3, <2>4, <2>5 DEF OneCleared
  <2> QED
    BY <2>1, <2>6
<1> QED
  BY <1>2, <1>3 DEF CheckName

-----------------------------------------------------------------------------
(* The invariant and what follows from it. *)

(* The invariant holds at the start and every step keeps it (all of the    *)
(* reconciler, its environment and its failures).                          *)
LEMMA InitInv ==
    ASSUME NullAssumption, ConfigAssumption, Init
    PROVE  NamingInv /\ LateStartsKnown /\ OneCleared
<1>1. /\ \A m \in Machines :
           /\ obj[m] = NoMachine /\ cobj[m] = NoMachine /\ rd[m] = NoMachine
           /\ pc[m] = "idle" /\ pick[m] = NoName /\ current[m] = FALSE
      /\ \A p \in Pools : pool[p] = EmptyPool /\ cpool[p] = EmptyPool
      /\ \A v \in VmIds : vm[v].st = "unused"
      /\ late = {}
  BY DEF Init
<1>2. /\ NoMachine.phase = "absent" /\ ~ NoMachine.fin
      /\ NoMachine.vmName = NoName /\ NoMachine.id = NoVm
      /\ \A n \in Names : EmptyPool.owner[n] = Nobody
  BY DEF NoMachine, EmptyPool
<1>3. CopiesLag /\ CopiesConsistent /\ WorkKnown /\ OwnNameOnly
  BY <1>1, <1>2, LaterSame DEF CopiesLag, CopiesConsistent, Consistent, WorkKnown, Knows,
                               NamingLabels, OwnNameOnly
<1>4. FinalizersKept /\ PoolKeeps
  BY <1>1, <1>2, NullAssumption DEF FinalizersKept, FinalizerKept, Owns, Takes, PoolKeeps, NullAssumption
<1>5. OwnersKnown /\ OneNamePerMachine /\ FreshMeansEqual /\ UpdatesKnown
  BY <1>1, <1>2 DEF OwnersKnown, OneNamePerMachine, FreshMeansEqual, UpdatesKnown, ClaimCopyOf,
                    ReleaseCopyOf
<1>6. LateStartsKnown /\ OneCleared
  BY <1>1 DEF LateStartsKnown, OneCleared, Exists
<1> QED
  BY <1>3, <1>4, <1>5, <1>6 DEF NamingInv

(* Names, pools, copies and recorded VMs agree in every reachable state,   *)
(* and no two VMs of one name are cleared to run (the whole reconciler).   *)
THEOREM InvCorrect == Spec => []IInv
<1> USE NullAssumption, ConfigAssumption
<1>1. Init /\ TypeOK => IInv
  BY InitInv DEF IInv
<1>2. IInv /\ TypeOK' /\ [Next]_vars => IInv'
  <2> SUFFICES ASSUME IInv, TypeOK', [Next]_vars PROVE IInv'
    OBVIOUS
  <2>1. TypeOK /\ NamingInv /\ LateStartsKnown /\ OneCleared /\ CopiesConsistent
    BY DEF IInv, NamingInv
  <2>2. NamingInv' /\ VmGrows
    BY <2>1, NamingStep
  <2>3. CASE VmsKept /\ LateKept /\ ChecksKept
    BY <2>1, <2>2, <2>3, NoneCleared DEF IInv
  <2>4. ASSUME NEW m \in Machines, CheckName(m) PROVE IInv'
    BY <2>1, <2>2, <2>4, CheckNameClears DEF IInv
  <2>5. ASSUME NEW m \in Machines, Reconcile(m), ~ CheckName(m) PROVE IInv'
    BY <2>1, <2>3, <2>5, ReconcileClearsNone
  <2>6. CASE \/ \E m \in Machines :
                  CreateMachine(m) \/ DeleteMachine(m) \/ SyncMachine(m) \/ Nudge(m)
             \/ \E p \in Pools : SyncPool(p)
             \/ \E v \in VmIds : VmTaskDone(v) \/ AdminStops(v) \/ AdminRemoves(v)
             \/ \E c \in late : LateCommand(c)
             \/ Crash
             \/ UNCHANGED vars
    BY <2>1, <2>3, <2>6, EnvironmentClearsNone
  <2> QED
    BY <2>4, <2>5, <2>6 DEF Next
<1> QED
  BY <1>1, <1>2, TypeCorrect, PTL DEF Spec

(* Two VMs of the same name never run at the same time: startVM counts the *)
(* VMs of the name it has read and starts the VM it has read.              *)
THEOREM Exclusion == Spec => []OneRunningPerName
<1>1. IInv => OneRunningPerName
  BY DEF IInv, OneCleared, OneRunningPerName, Cleared, IsUp, Exists
<1> QED
  BY <1>1, InvCorrect, PTL

(* The pool keeps the name of every machine that has it from there and is  *)
(* not being deleted (generateVMName, removeVMNameInPool).                 *)
THEOREM ClaimsKept == Spec => []ClaimHeld
<1>1. IInv => ClaimHeld
  <2> SUFFICES ASSUME IInv, NEW m \in Machines, obj[m].phase = "live", PoolOf[m] # NoPool,
                      Presets[m] = {}, obj[m].vmName # NoName
               PROVE  pool[PoolOf[m]].owner[obj[m].vmName] = m
    BY DEF ClaimHeld
  <2>1. PoolOf[m] \in Pools /\ cobj[m].phase \in Phases
    BY ConfigAssumption, MachineFields DEF ConfigAssumption, IInv, TypeOK, CacheTypeOK
  <2>2. Holding(m)
    BY <2>1 DEF IInv, NamingInv, CopiesLag, Later, Holding, Phases
  <2> QED
    BY <2>1, <2>2 DEF IInv, NamingInv, PoolKeeps, Takes
<1> QED
  BY <1>1, InvCorrect, PTL

(* A live machine that a pool has given a name has the finalizer that sees *)
(* to its return (Reconcile, generateVMName).                              *)
THEOREM NamesComeBack == Spec => []NameComesBack
<1>1. IInv => NameComesBack
  <2> SUFFICES ASSUME IInv, NEW m \in Machines, obj[m].phase = "live", PoolOf[m] # NoPool,
                      Presets[m] = {}, \E n \in Names : pool[PoolOf[m]].owner[n] = m
               PROVE  obj[m].fin
    BY DEF NameComesBack
  <2>1. PoolOf[m] \in Pools /\ cobj[m].phase \in Phases
    BY ConfigAssumption, MachineFields DEF ConfigAssumption, IInv, TypeOK, CacheTypeOK
  <2>2. Holding(m)
    BY <2>1 DEF IInv, NamingInv, CopiesLag, Later, Holding, Phases
  <2>3. Owns(m)
    BY <2>1 DEF Owns, Takes
  <2> QED
    BY <2>2, <2>3 DEF IInv, NamingInv, FinalizersKept, FinalizerKept
<1> QED
  BY <1>1, InvCorrect, PTL

(* A machine never owns two names of a pool (generateVMName).              *)
THEOREM OneName == Spec => []OneNamePerMachine
BY InvCorrect, PTL DEF IInv, NamingInv

(* The VM a machine records bears the machine's name (createVM, startVM).  *)
THEOREM RecordedName == Spec => []RecordedVmHasName
<1>1. IInv => RecordedVmHasName
  BY DEF IInv, NamingInv, CopiesConsistent, Consistent, RecordedVmHasName
<1> QED
  BY <1>1, InvCorrect, PTL

-----------------------------------------------------------------------------
(* What steps may do to names and pools. *)

NamesKept == \A m \in Machines : obj[m].vmName # NoName => obj'[m].vmName = obj[m].vmName

PhaseKept(x) ==
    \/ obj'[x].phase = obj[x].phase
    \/ obj[x].phase \in {"deleting", "gone"} /\ obj'[x].phase \in {"deleting", "gone"}

(* A patch leaves a machine where it is in its life. *)
LEMMA PatchKeepsPhase ==
    ASSUME TypeOK, NEW m \in Machines,
           \/ AddFinalizer(m) \/ PatchName(m) \/ PatchId(m) \/ RemoveFinalizer(m)
    PROVE  UNCHANGED pool /\ \A x \in Machines : PhaseKept(x)
<1>1. obj \in [Machines -> Machine]
  BY DEF TypeOK, ApiTypeOK
<1>2. ASSUME NEW new, Patch(m, new),
             new.phase = obj[m].phase \/ (obj[m].phase = "deleting" /\ new.phase = "gone")
      PROVE  UNCHANGED pool /\ \A x \in Machines : PhaseKept(x)
  BY <1>1, <1>2 DEF Patch, PhaseKept
<1>3. CASE PatchFails(m)
  BY <1>3 DEF PatchFails, PhaseKept, apiVars
<1>4. obj[m] \in Machine
  BY <1>1
<1>5. /\ [obj[m] EXCEPT !.fin = TRUE].phase = obj[m].phase
      /\ [obj[m] EXCEPT !.vmName = pick[m]].phase = obj[m].phase
      /\ WithVm(m).phase = obj[m].phase
      /\ LET new == [obj[m] EXCEPT !.fin = FALSE,
                                   !.phase = IF @ = "deleting" THEN "gone" ELSE @]
         IN new.phase = IF obj[m].phase = "deleting" THEN "gone" ELSE obj[m].phase
  BY <1>4 DEF Machine, WithVm
<1> QED
  BY <1>2, <1>3, <1>5 DEF AddFinalizer, PatchName, PatchId, RemoveFinalizer

LEMMA UpdateMaps ==
    ASSUME NullAssumption, ConfigAssumption, TypeOK, TypeOK', NamingInv, NEW m \in Machines,
           UpdatePool(m), pc[m] = "claim" \/ pc[m] = "update"
    PROVE  Allocator!Next
<1> USE DEF NamingInv
<1> DEFINE p == PoolOf[m]
           old == pool[p].owner
           new == hold[m].owner
           active == {x \in Machines : obj[x].phase = "live"}
           left == {x \in Machines : obj[x].phase \in {"deleting", "gone"}}
<1>1. /\ p \in Pools /\ current[m] /\ UNCHANGED obj
      /\ new \in [Names -> Machines \cup {Nobody}] /\ old \in [Names -> Machines \cup {Nobody}]
  BY PoolFields DEF UpdatePool, CanUpdate, TypeOK, ApiTypeOK, WorkTypeOK, PoolLabels
<1>2. [q \in Pools |-> pool'[q].owner] = [[q \in Pools |-> pool[q].owner] EXCEPT ![p] = new]
  BY <1>1 DEF UpdatePool, TypeOK, ApiTypeOK
<1>3. CASE pc[m] = "claim"
  <2>1. UpdateAgrees(p, new) /\ \A n \in Names : old[n] # Nobody => new[n] = old[n]
    BY <1>1, <1>3, ClaimAgrees DEF UpdatesKnown, ClaimCopyOf
  <2>2. ASSUME NEW n \in Names, new[n] # Nobody PROVE new[n] \in active \cup left
    <3>1. new[n] \in Machines /\ cobj[new[n]].phase # "absent"
      BY <2>1, <2>2 DEF UpdateAgrees, MayOwn
    <3>2. obj[new[n]].phase # "absent" /\ obj[new[n]].phase \in Phases
      BY <3>1, MachineFields DEF CopiesLag, Later, TypeOK, ApiTypeOK
    <3> QED
      BY <3>1, <3>2 DEF Phases
  <2>3. Allocator!Enter(p)
    BY <1>1, <1>2, <2>1, <2>2 DEF Allocator!Enter, UpdateAgrees
  <2> QED
    BY <1>1, <2>3 DEF Allocator!Next
<1>4. CASE pc[m] = "update"
  <2> DEFINE out == {old[n] : n \in {k \in Names : new[k] # old[k]}}
  <2>1. \A n \in Names :
          \/ new[n] = old[n]
          \/ new[n] = Nobody /\ old[n] \in Machines
             /\ (old[n] = m \/ cobj[old[n]].phase = "gone")
    BY <1>1, <1>4 DEF UpdatesKnown, ReleaseCopyOf
  <2>2. obj[m].phase # "live"
    BY <1>4 DEF WorkKnown, Knows, CopiesLag, Later
  <2>3. out \subseteq Machines \ active
    BY <2>1, <2>2 DEF CopiesLag, Later
  <2>4. Nobody \notin out
    BY <2>3, NullAssumption DEF NullAssumption
  <2>5. \A n \in Names : old[n] \in out => new[n] = Nobody
    <3> SUFFICES ASSUME NEW n \in Names, old[n] \in out PROVE new[n] = Nobody
      OBVIOUS
    <3>1. PICK k \in Names : new[k] # old[k] /\ old[n] = old[k]
      OBVIOUS
    <3>2. n = k
      BY <1>1, <2>4, <3>1 DEF OneNamePerMachine
    <3> QED
      BY <2>1, <3>1, <3>2
  <2>6. new = [n \in Names |-> IF old[n] \in out THEN Nobody ELSE old[n]]
    BY <1>1, <2>5
  <2>7. Allocator!Drop(p)
    <3> DEFINE owner == [q \in Pools |-> pool[q].owner]
    <3>1. owner[p] = old
      BY <1>1
    <3> HIDE DEF out, owner, old, new
    <3>2. new = [n \in Names |-> IF owner[p][n] \in out THEN Nobody ELSE owner[p][n]]
      BY <2>6, <3>1
    <3>3. [owner EXCEPT ![p] = new] = [owner EXCEPT ![p] =
              [n \in Names |-> IF owner[p][n] \in out THEN Nobody ELSE owner[p][n]]]
      BY <3>2
    <3>4. [q \in Pools |-> pool'[q].owner] = [owner EXCEPT ![p] =
              [n \in Names |-> IF owner[p][n] \in out THEN Nobody ELSE owner[p][n]]]
      BY <1>2, <3>3, Zenon DEF owner
    <3>5. out \in SUBSET (Machines \ active)
      BY <2>3
    <3> QED
      BY <1>1, <3>4, <3>5, Zenon DEF Allocator!Drop, owner
  <2> QED
    BY <1>1, <2>7 DEF Allocator!Next
<1> QED
  BY <1>3, <1>4

LEMMA AllocatorStep ==
    ASSUME NullAssumption, ConfigAssumption, TypeOK, TypeOK', NamingInv, [Next]_vars
    PROVE  [Allocator!Next]_(Allocator!vars)
<1>1. ASSUME UNCHANGED pool, \A x \in Machines : PhaseKept(x) PROVE UNCHANGED Allocator!vars
  BY <1>1 DEF Allocator!vars, PhaseKept
<1>2. CASE UNCHANGED apiVars
  BY <1>2 DEF Allocator!vars, apiVars
<1>3. ASSUME NEW m \in Machines, CreateMachine(m) PROVE Allocator!Next
  <2>1. /\ UNCHANGED pool /\ obj[m].phase = "absent" /\ obj'[m].phase = "live"
        /\ \A x \in Machines \ {m} : obj'[x] = obj[x]
    BY <1>3 DEF CreateMachine, TypeOK, ApiTypeOK, Machine
  <2>2. Allocator!Join(m)
    BY <2>1 DEF Allocator!Join
  <2> QED
    BY <2>2 DEF Allocator!Next
<1>4. ASSUME NEW m \in Machines, DeleteMachine(m) PROVE Allocator!Next
  <2>1. /\ UNCHANGED pool /\ obj[m].phase = "live" /\ obj'[m].phase \in {"deleting", "gone"}
        /\ \A x \in Machines \ {m} : obj'[x] = obj[x]
    BY <1>4 DEF DeleteMachine, TypeOK, ApiTypeOK, Machine
  <2>2. Allocator!Leave(m)
    BY <2>1 DEF Allocator!Leave
  <2> QED
    BY <2>2 DEF Allocator!Next
<1>5. ASSUME NEW m \in Machines, Reconcile(m) PROVE [Allocator!Next]_(Allocator!vars)
  <2>1. CASE \/ AddFinalizer(m) \/ PatchName(m) \/ PatchId(m) \/ RemoveFinalizer(m)
    BY <1>1, <2>1, PatchKeepsPhase
  <2>2. CASE ClaimName(m) \/ ReleaseName(m)
    <3>1. pc[m] \in {"claim", "update"} /\ (UpdatePool(m) \/ UNCHANGED apiVars)
      BY <2>2 DEF ClaimName, ReleaseName, UpdateFails
    <3> QED
      BY <1>2, <3>1, UpdateMaps
  <2>3. CASE \/ Begin(m) \/ GetVM(m) \/ ReadPool(m) \/ ScanPool(m) \/ SanityCheck(m)
             \/ SendCreateVM(m) \/ CheckName(m) \/ SendStartVM(m) \/ SendRemoveVM(m)
             \/ ReadRelease(m)
    BY <1>2, <2>3 DEF Begin, GetVM, ReadPool, ScanPool, SanityCheck, SendCreateVM, CheckName,
                      SendStartVM, SendRemoveVM, ReadRelease
  <2> QED
    BY <1>5, <2>1, <2>2, <2>3 DEF Reconcile
<1>6. CASE \/ \E m \in Machines : SyncMachine(m) \/ Nudge(m)
           \/ \E p \in Pools : SyncPool(p)
           \/ \E v \in VmIds : VmTaskDone(v) \/ AdminStops(v) \/ AdminRemoves(v)
           \/ \E c \in late : LateCommand(c)
           \/ Crash
           \/ UNCHANGED vars
  BY <1>2, <1>6 DEF SyncMachine, Nudge, SyncPool, VmTaskDone, AdminStops, AdminRemoves, LateCommand,
                    Crash, vars
<1> QED
  BY <1>3, <1>4, <1>5, <1>6 DEF Next

LEMMA NamesKeptStep ==
    ASSUME NullAssumption, ConfigAssumption, TypeOK, NamingInv, [Next]_vars
    PROVE  NamesKept
<1>1. ASSUME Quiet PROVE NamesKept
  BY <1>1 DEF Quiet, QuietAt, AgreedName, NamesKept
<1>2. CASE UNCHANGED obj
  BY <1>2 DEF NamesKept
<1>3. ASSUME NEW m \in Machines, Reconcile(m) PROVE NamesKept
  <2>1. CASE \/ AddFinalizer(m) \/ GetVM(m) \/ PatchName(m) \/ SendCreateVM(m) \/ PatchId(m)
             \/ CheckName(m) \/ SendStartVM(m) \/ SendRemoveVM(m) \/ RemoveFinalizer(m)
    BY <1>1, <2>1, ReconcileQuiet
  <2>2. CASE \/ Begin(m) \/ ReadPool(m) \/ ScanPool(m) \/ SanityCheck(m) \/ ReadRelease(m)
             \/ ClaimName(m) \/ ReleaseName(m)
    BY <1>2, <2>2 DEF Begin, ReadPool, ScanPool, SanityCheck, ReadRelease, ClaimName, ReleaseName,
                      UpdatePool, UpdateFails, apiVars
  <2> QED
    BY <1>3, <2>1, <2>2 DEF Reconcile
<1>4. CASE \/ \E m \in Machines : SyncMachine(m)
           \/ \E p \in Pools : SyncPool(p)
           \/ Crash
  BY <1>2, <1>4 DEF SyncMachine, SyncPool, Crash, apiVars
<1>5. CASE \/ \E m \in Machines : CreateMachine(m) \/ DeleteMachine(m) \/ Nudge(m)
           \/ \E v \in VmIds : VmTaskDone(v) \/ AdminStops(v) \/ AdminRemoves(v)
           \/ \E c \in late : LateCommand(c)
           \/ UNCHANGED vars
  BY <1>1, <1>5, EnvironmentQuiet
<1> QED
  BY <1>3, <1>4, <1>5 DEF Next

(* A machine's name never changes once it is set, though the patches that  *)
(* write it carry no resourceVersion (createVM).                           *)
THEOREM NameStable == Spec => VmNameStable
<1>1. IInv /\ [Next]_vars =>
        [\A m \in Machines : obj[m].vmName # NoName => obj'[m].vmName = obj[m].vmName]_vars
  BY NamesKeptStep, NullAssumption, ConfigAssumption DEF IInv, NamesKept
<1> QED
  BY <1>1, InvCorrect, PTL DEF Spec, VmNameStable

(* The reconcilers keep what the name pools promise: they implement        *)
(* NameAllocator (generateVMName, removeVMNameInPool).                     *)
THEOREM ImplementsAllocator == Spec => AllocatorSpec
<1>1. Init => Allocator!Init
  BY DEF Init, Allocator!Init, NoMachine, EmptyPool
<1>2. IInv /\ IInv' /\ [Next]_vars => [Allocator!Next]_(Allocator!vars)
  BY AllocatorStep, NullAssumption, ConfigAssumption DEF IInv
<1> QED
  BY <1>1, <1>2, InvCorrect, PTL DEF Spec, AllocatorSpec, Allocator!Spec

-----------------------------------------------------------------------------
(* No VM is left behind while every answer gets to its reconcile.          *)

(* A step of machine m alone, as far as records are concerned.             *)
Apart(m) == \A x \in Machines \ {m} : UNCHANGED <<obj[x], pc[x], rd[x], got[x]>>

(* No VM comes into being but the one that m's reconcile has now.          *)
OnlyMadeBy(m) ==
    \A v \in VmIds : Exists(v)' =>
        Exists(v) \/ (vm[v].st = "unused" /\ v = got'[m] /\ Present(obj'[m]))

NoneMade == \A v \in VmIds : Exists(v)' => Exists(v)

(* What m records or is about to record it still does.                     *)
StillRecords(m) ==
    \A v \in VmIds : Exists(v)' /\ Present(obj[m]) /\ v \in {obj[m].id, got[m]} =>
        Present(obj'[m]) /\ v \in {obj'[m].id, got'[m]}

LEMMA RecordsKept ==
    ASSUME NullAssumption, TypeOK, NamingInv, RecordInv, NEW m \in Machines,
           late' = {}, Apart(m), OnlyMadeBy(m), RecordOK(m)', StillRecords(m)
    PROVE  RecordInv'
<1>1. ASSUME NEW x \in Machines, x # m PROVE RecordOK(x)'
  <2>1. UNCHANGED <<obj[x], pc[x], rd[x], got[x]>>
    BY <1>1 DEF Apart
  <2>2. obj[x].id \in VmIds => vm[obj[x].id].st # "unused"
    BY NullAssumption DEF NullAssumption, NamingInv, CopiesConsistent, Consistent
  <2>3. Exists(obj[x].id)' => Exists(obj[x].id)
    BY <2>1, <2>2 DEF OnlyMadeBy, Exists
  <2> QED
    BY <2>1, <2>3 DEF RecordInv, RecordOK
<1>2. ASSUME NEW v \in VmIds, Exists(v)'
      PROVE  \E x \in Machines : Present(obj'[x]) /\ v \in {obj'[x].id, got'[x]}
  <2>1. CASE Exists(v)
    <3>1. PICK x \in Machines : Present(obj[x]) /\ v \in {obj[x].id, got[x]}
      BY <2>1 DEF RecordInv, NoVmLeftBehind
    <3> QED
      BY <1>2, <3>1 DEF StillRecords, Apart
  <2>2. CASE ~ Exists(v)
    BY <1>2, <2>2 DEF OnlyMadeBy
  <2> QED
    BY <2>1, <2>2
<1>3. NoVmLeftBehind'
  BY <1>2 DEF NoVmLeftBehind
<1> QED
  BY <1>1, <1>3 DEF RecordInv

(* The VMs that exist after the commands of SCVMM.                         *)
LEMMA CommandsMakeNone ==
    ASSUME TypeOK,
           \/ UNCHANGED vm
           \/ \E v \in VmIds : \/ StartVM(v) \/ RemoveVM(v)
                               \/ VmTaskDone(v) \/ AdminStops(v) \/ AdminRemoves(v)
    PROVE  NoneMade
<1> USE DEF TypeOK, ScvmmTypeOK, Vm, VmStates, NoneMade, Exists
<1>1. ASSUME NEW v \in VmIds, StartVM(v) PROVE NoneMade
  BY <1>1 DEF StartVM
<1>2. ASSUME NEW v \in VmIds, RemoveVM(v) PROVE NoneMade
  BY <1>2 DEF RemoveVM
<1>3. ASSUME NEW v \in VmIds, VmTaskDone(v) \/ AdminStops(v) \/ AdminRemoves(v) PROVE NoneMade
  BY <1>3 DEF VmTaskDone, Busy, AdminStops, AdminRemoves
<1> QED
  BY <1>1, <1>2, <1>3

(* A step that leaves the machines' records as they are.                   *)
LEMMA RecordsUntouched ==
    ASSUME RecordInv, late' = {}, NoneMade, UNCHANGED <<obj, pc, rd, got>>
    PROVE  RecordInv'
<1>1. \A x : Exists(x)' => Exists(x)
  BY DEF NoneMade, Exists
<1>2. \A m \in Machines : RecordOK(m)'
  BY <1>1 DEF RecordInv, RecordOK
<1>3. NoVmLeftBehind'
  BY <1>1 DEF RecordInv, NoVmLeftBehind
<1> QED
  BY <1>2, <1>3 DEF RecordInv

(* With answers that arrive no command outlives its call.                  *)
LEMMA NothingLate ==
    ASSUME BoundAssumption, Answered, late = {}, NEW cs, CommandFails(cs)
    PROVE  late' = {} /\ UNCHANGED vm
<1>1. Cardinality({}) = 0
  BY FS_EmptySet
<1>2. MaxLate = 0 /\ ~ (Cardinality(late) < MaxLate)
  BY <1>1 DEF Answered, CommandFails
<1>3. {d \in cs : Cardinality(late) < MaxLate} = {}
  BY <1>2
<1> QED
  BY <1>3 DEF CommandFails

(* Returning leaves behind nothing but the record.                         *)
LEMMA ReturnRecords ==
    ASSUME NullAssumption, TypeOK, NamingInv, RecordInv, NEW m \in Machines, NEW again,
           Return(m, again), late' = {}, NoneMade, UNCHANGED obj, pc[m] # "patchId"
    PROVE  RecordInv'
<1>1. pc'[m] = "idle" /\ got'[m] = NoVm /\ got[m] = NoVm
  BY DEF Return, TypeOK, WorkTypeOK, RecordInv, RecordOK
<1>2. Apart(m)
  BY DEF Return, Apart, TypeOK, WorkTypeOK
<1>3. RecordOK(m)'
  BY <1>1 DEF RecordInv, RecordOK, WithoutVm, NamingLabels
<1>4. StillRecords(m)
  BY <1>1, NullAssumption DEF StillRecords, NullAssumption
<1>5. OnlyMadeBy(m)
  BY DEF NoneMade, OnlyMadeBy
<1> QED
  BY <1>2, <1>3, <1>4, <1>5, RecordsKept

(* Going on to another call.                                               *)
LEMMA GotoRecords ==
    ASSUME NullAssumption, TypeOK, NamingInv, RecordInv, NEW m \in Machines, NEW label,
           Goto(m, label), late' = {}, NoneMade, UNCHANGED <<obj, rd, got>>,
           pc[m] \notin {"idle", "patchId"},
           label \in WithoutVm => pc[m] \in WithoutVm \/ ~ Exists(rd[m].id)
    PROVE  RecordInv'
<1>1. pc'[m] = label /\ got[m] = NoVm /\ rd[m].id = obj[m].id
  BY DEF Goto, TypeOK, WorkTypeOK, RecordInv, RecordOK
<1>2. Apart(m)
  BY DEF Goto, Apart, TypeOK, WorkTypeOK
<1>3. Exists(obj[m].id)' => Exists(obj[m].id)
  BY DEF NoneMade, Exists
<1>4. RecordOK(m)'
  BY <1>1, <1>3 DEF RecordInv, RecordOK
<1>5. StillRecords(m) /\ OnlyMadeBy(m)
  BY DEF StillRecords, NoneMade, OnlyMadeBy
<1> QED
  BY <1>2, <1>4, <1>5, RecordsKept

LEMMA EnvironmentRecords ==
    ASSUME NullAssumption, BoundAssumption, Answered, TypeOK, NamingInv, RecordInv,
           \/ \E m \in Machines :
                CreateMachine(m) \/ DeleteMachine(m) \/ SyncMachine(m) \/ Nudge(m)
           \/ \E p \in Pools : SyncPool(p)
           \/ \E v \in VmIds : VmTaskDone(v) \/ AdminStops(v) \/ AdminRemoves(v)
           \/ \E c \in late : LateCommand(c)
           \/ Crash
           \/ UNCHANGED vars
    PROVE  RecordInv'
<1>1. late = {}
  BY DEF RecordInv
<1>2. ~ Crash /\ ~ \E c \in late : LateCommand(c)
  BY <1>1 DEF Answered, Crash
<1>3. ASSUME UNCHANGED <<obj, pc, rd, got, late>>, NoneMade PROVE RecordInv'
  BY <1>1, <1>3, RecordsUntouched
<1>4. ASSUME NEW v \in VmIds, VmTaskDone(v) \/ AdminStops(v) \/ AdminRemoves(v) PROVE RecordInv'
  BY <1>3, <1>4, CommandsMakeNone DEF VmTaskDone, AdminStops, AdminRemoves, apiVars, workVars
<1>5. ASSUME NEW m \in Machines, CreateMachine(m) \/ DeleteMachine(m) PROVE RecordInv'
  <2>1. /\ UNCHANGED <<vm, late, pc, rd, got>> /\ Apart(m)
        /\ obj'[m].id = obj[m].id /\ obj'[m].fin = obj[m].fin
        /\ obj[m].phase \notin {"deleting", "gone"}
        /\ Present(obj[m]) => Present(obj'[m]) \/ (obj'[m].phase = "gone" /\ ~ obj[m].fin)
    BY <1>5 DEF CreateMachine, DeleteMachine, scvmmVars, workVars, Apart, TypeOK, ApiTypeOK, Machine,
       Present
  <2>2. NoneMade
    BY <2>1, CommandsMakeNone
  <2>3. RecordOK(m)'
    BY <2>1 DEF RecordInv, RecordOK, Exists
  <2>4. StillRecords(m)
    <3>1. Holding(m) /\ pc[m] = "patchId" => obj[m].fin
      BY DEF NamingInv, FinalizersKept, FinalizerKept
    <3>2. pc[m] = "patchId" => Holding(m)
      BY DEF NamingInv, WorkKnown, Knows, Holding
    <3>3. \A v \in VmIds : v \in {obj[m].id, got[m]} /\ Present(obj[m]) => obj[m].fin
      BY <3>1, <3>2, NullAssumption DEF NullAssumption, RecordInv, RecordOK, Present
    <3> QED
      BY <2>1, <3>3 DEF StillRecords
  <2>5. OnlyMadeBy(m)
    BY <2>2 DEF NoneMade, OnlyMadeBy
  <2> QED
    BY <1>1, <2>1, <2>3, <2>4, <2>5, RecordsKept
<1>6. CASE \/ \E m \in Machines : SyncMachine(m) \/ Nudge(m)
           \/ \E p \in Pools : SyncPool(p)
           \/ UNCHANGED vars
  <2>1. UNCHANGED <<obj, pc, rd, got, late, vm>>
    BY <1>6 DEF SyncMachine, Nudge, SyncPool, vars, apiVars, scvmmVars, workVars
  <2> QED
    BY <1>3, <2>1, CommandsMakeNone
<1> QED
  BY <1>2, <1>4, <1>5, <1>6

(* The steps of a reconcile that leave the machine's object alone and make *)
(* no VM.                                                                  *)
LEMMA ReadingRecords ==
    ASSUME NullAssumption, BoundAssumption, Answered, TypeOK, NamingInv, RecordInv,
           NEW m \in Machines,
           \/ GetVM(m) \/ ReadPool(m) \/ ScanPool(m) \/ ClaimName(m) \/ SanityCheck(m)
           \/ CheckName(m) \/ SendStartVM(m) \/ SendRemoveVM(m) \/ ReadRelease(m)
           \/ ReleaseName(m)
    PROVE  RecordInv'
<1> USE NullAssumption DEF WithoutVm, NamingLabels
<1>0. late = {} /\ rd[m].id \in VmIds \cup {NoVm}
  BY MachineFields DEF RecordInv, TypeOK, WorkTypeOK
<1>1. ASSUME NEW again, Return(m, again), late' = late, UNCHANGED <<obj, vm>>, pc[m] # "patchId"
      PROVE  RecordInv'
  BY <1>0, <1>1, ReturnRecords, CommandsMakeNone
<1>2. ASSUME NEW label, Goto(m, label), UNCHANGED <<obj, rd, got, late, vm>>,
             pc[m] \notin {"idle", "patchId"},
             label \in WithoutVm => pc[m] \in WithoutVm \/ ~ Exists(rd[m].id)
      PROVE  RecordInv'
  BY <1>0, <1>2, GotoRecords, CommandsMakeNone
<1>3. CASE GetVM(m)
  <2>1. CASE ~ Exists(rd[m].id) /\ NeedsVm(m) /\ UNCHANGED <<rd, hold, at, got, queued>>
    BY <1>2, <1>3, <2>1 DEF GetVM, NeedsVm, apiVars, scvmmVars
  <2>2. CASE Goto(m, "check") /\ UNCHANGED <<rd, hold, at, pick, got, queued>>
    BY <1>2, <1>3, <2>2 DEF GetVM, apiVars, scvmmVars
  <2>3. CASE \E again \in BOOLEAN : Return(m, again)
    BY <1>1, <1>3, <2>3 DEF GetVM, apiVars, scvmmVars
  <2> QED
    BY <1>3, <2>1, <2>2, <2>3 DEF GetVM
<1>4. CASE ReadPool(m)
  <2>1. UNCHANGED <<obj, vm, late, rd, got>> /\ pc[m] = "gen" /\ (Goto(m, "sanity") \/ Goto(m, "scan"))
    BY <1>4 DEF ReadPool, apiVars, scvmmVars
  <2> QED
    BY <1>2, <2>1
<1>5. CASE ScanPool(m)
  <2>1. UNCHANGED <<obj, vm, late>> /\ pc[m] = "scan"
    BY <1>5, Zenon DEF ScanPool, apiVars, scvmmVars
  <2>2. CASE Goto(m, "claim") /\ UNCHANGED <<rd, got>>
    BY <1>2, <2>1, <2>2
  <2>3. CASE Return(m, TRUE)
    BY <1>1, <2>1, <2>3
  <2>4. CASE UNCHANGED <<pc, rd, got>>
    BY <1>0, <2>1, <2>4, RecordsUntouched, CommandsMakeNone
  <2> QED
    BY <1>5, <2>2, <2>3, <2>4, Zenon DEF ScanPool
<1>6. CASE ClaimName(m)
  <2>1. UNCHANGED <<obj, vm, late>> /\ pc[m] = "claim"
    BY <1>6 DEF ClaimName, UpdatePool, UpdateFails, apiVars, scvmmVars
  <2>2. (Goto(m, "sanity") /\ UNCHANGED <<rd, got>>) \/ Return(m, TRUE)
    BY <1>6 DEF ClaimName
  <2> QED
    BY <1>1, <1>2, <2>1, <2>2
<1>7. CASE SanityCheck(m)
  <2>1. UNCHANGED <<obj, vm, late>> /\ pc[m] = "sanity"
    BY <1>7 DEF SanityCheck, apiVars, scvmmVars
  <2>2. (Goto(m, "patchName") /\ UNCHANGED <<rd, got>>) \/ Return(m, FALSE) \/ Return(m, TRUE)
    BY <1>7 DEF SanityCheck
  <2> QED
    BY <1>1, <1>2, <2>1, <2>2
<1>8. CASE CheckName(m)
  <2>1. UNCHANGED <<obj, vm, late>> /\ pc[m] = "check"
    BY <1>8 DEF CheckName, apiVars, scvmmVars
  <2>2. (Goto(m, "start") /\ UNCHANGED <<rd, got>>) \/ Return(m, FALSE) \/ Return(m, TRUE)
    BY <1>8 DEF CheckName
  <2> QED
    BY <1>1, <1>2, <2>1, <2>2
<1>9. CASE SendStartVM(m)
  <2>1. UNCHANGED obj /\ pc[m] = "start" /\ Return(m, TRUE)
    BY <1>9 DEF SendStartVM, apiVars
  <2>2. rd[m].id \in VmIds
    BY <2>1 DEF TypeOK, WorkTypeOK
  <2>3. late' = {} /\ (StartVM(rd[m].id) \/ UNCHANGED vm)
    BY <1>0, <1>9, NothingLate DEF SendStartVM
  <2> QED
    BY <2>1, <2>2, <2>3, CommandsMakeNone, ReturnRecords
<1>10. CASE SendRemoveVM(m)
  <2>1. UNCHANGED obj /\ pc[m] = "remove"
    BY <1>10 DEF SendRemoveVM, apiVars
  <2>2. CASE /\ ~ Exists(rd[m].id)
             /\ Goto(m, IF PoolOf[m] # NoPool THEN "release" ELSE "unfinalize")
             /\ UNCHANGED <<scvmmVars, rd, hold, at, pick, got, queued>>
    <3>1. Goto(m, "release") \/ Goto(m, "unfinalize")
      BY <2>2
    <3> QED
      BY <1>2, <2>1, <2>2, <3>1 DEF scvmmVars
  <2>3. CASE Removal(m)
    <3>1. rd[m].id \in VmIds /\ RemoveVM(rd[m].id) /\ late' = {} /\ Return(m, TRUE)
      BY <1>0, <2>3 DEF Removal, Exists
    <3> QED
      BY <2>1, <3>1, CommandsMakeNone, ReturnRecords
  <2>4. CASE /\ CommandFails({[op |-> "remove", id |-> v] : v \in {rd[m].id} \ {NoVm}})
             /\ Return(m, TRUE)
    BY <1>0, <2>1, <2>4, NothingLate, CommandsMakeNone, ReturnRecords
  <2>5. CASE Return(m, TRUE) /\ UNCHANGED scvmmVars
    BY <1>1, <2>1, <2>5 DEF scvmmVars
  <2> QED
    BY <1>10, <2>2, <2>3, <2>4, <2>5 DEF SendRemoveVM
<1>11. CASE ReadRelease(m)
  <2>1. UNCHANGED <<obj, vm, late, rd, got>> /\ pc[m] = "release" /\ Goto(m, "update")
    BY <1>11 DEF ReadRelease, apiVars, scvmmVars
  <2> QED
    BY <1>2, <2>1
<1>12. CASE ReleaseName(m)
  <2>1. UNCHANGED <<obj, vm, late>> /\ pc[m] = "update"
    BY <1>12 DEF ReleaseName, UpdatePool, UpdateFails, apiVars, scvmmVars
  <2>2. (Goto(m, "unfinalize") /\ UNCHANGED <<rd, got>>) \/ Return(m, TRUE)
    BY <1>12 DEF ReleaseName
  <2> QED
    BY <1>1, <1>2, <2>1, <2>2
<1> QED
  BY <1>3, <1>4, <1>5, <1>6, <1>7, <1>8, <1>9, <1>10, <1>11, <1>12

(* The steps that read or write the machine's object, or make a VM.        *)
LEMMA WritingRecords ==
    ASSUME NullAssumption, BoundAssumption, Answered, TypeOK, NamingInv, RecordInv,
           NEW m \in Machines,
           \/ Begin(m) \/ AddFinalizer(m) \/ PatchName(m) \/ SendCreateVM(m) \/ PatchId(m)
           \/ RemoveFinalizer(m)
    PROVE  RecordInv'
<1> USE NullAssumption DEF NullAssumption, WithoutVm, NamingLabels
<1>0. /\ late = {} /\ RecordOK(m) /\ Knows(m) /\ FinalizerKept(m)
      /\ obj[m] \in Machine /\ obj[m].phase \in Phases /\ got[m] \in VmIds \cup {NoVm}
      /\ obj[m].id \in VmIds \cup {NoVm}
      /\ obj \in [Machines -> Machine] /\ rd \in [Machines -> Machine]
      /\ pc \in [Machines -> Labels] /\ got \in [Machines -> VmIds \cup {NoVm}]
  BY MachineFields DEF RecordInv, NamingInv, WorkKnown, FinalizersKept, TypeOK, ApiTypeOK, WorkTypeOK
<1>1. ASSUME NEW again, Return(m, again)
      PROVE  /\ pc'[m] = "idle" /\ got'[m] = NoVm
             /\ \A x \in Machines \ {m} : UNCHANGED <<pc[x], rd[x], got[x]>>
  BY <1>0, <1>1 DEF Return
<1>2. ASSUME UNCHANGED vm PROVE NoneMade /\ OnlyMadeBy(m)
  BY <1>2, CommandsMakeNone DEF NoneMade, OnlyMadeBy
<1>3. ASSUME NEW again, Return(m, again), UNCHANGED <<vm, late>>, PatchFails(m)
      PROVE  RecordInv'
  <2>1. UNCHANGED obj /\ ~ Present(obj[m])
    BY <1>3 DEF PatchFails, Answered, apiVars
  <2>2. pc[m] # "patchId"
    BY <1>0, <2>1 DEF Knows, FinalizerKept, Holding, NamingInv, CopiesConsistent, Consistent
  <2> QED
    BY <1>0, <1>2, <1>3, <2>1, <2>2, ReturnRecords
<1>4. CASE Begin(m)
  <2>1. cobj[m] = obj[m] /\ pc[m] = "idle" /\ UNCHANGED <<obj, vm, late, got>>
    BY <1>4 DEF Begin, Answered, apiVars, scvmmVars
  <2>2. Apart(m)
    BY <1>0, <1>4, <2>1 DEF Begin, Goto, Apart
  <2>3. RecordOK(m)'
    <3>1. CASE UNCHANGED <<pc, rd>>
      BY <1>0, <2>1, <3>1 DEF RecordOK, Exists
    <3>2. CASE ~ UNCHANGED <<pc, rd>>
      <4>1. /\ rd'[m] = obj[m] /\ pc'[m] \in {"finalizer", "get", "unfinalize", "remove"}
            /\ pc'[m] = "unfinalize" => obj[m].id = NoVm
        BY <1>0, <1>4, <2>1, <3>2 DEF Begin, Goto
      <4> QED
        BY <1>0, <2>1, <4>1 DEF RecordOK, Exists
    <3> QED
      BY <3>1, <3>2
  <2> QED
    BY <1>0, <1>2, <2>1, <2>2, <2>3, RecordsKept DEF StillRecords
<1>5. CASE AddFinalizer(m)
  <2>1. pc[m] = "finalizer" /\ UNCHANGED <<vm, late>>
    BY <1>5 DEF AddFinalizer, scvmmVars
  <2>2. CASE Patch(m, [obj[m] EXCEPT !.fin = TRUE]) /\ Goto(m, "get") /\ UNCHANGED <<rd, got>>
    <3>1. /\ obj'[m].id = obj[m].id /\ obj'[m].phase = obj[m].phase /\ obj'[m].fin
          /\ pc'[m] = "get" /\ Apart(m)
      BY <1>0, <2>2 DEF Patch, Goto, Apart, Machine
    <3>2. RecordOK(m)' /\ StillRecords(m)
      BY <1>0, <2>1, <2>2, <3>1 DEF RecordOK, StillRecords, Present
    <3> QED
      BY <1>0, <1>2, <2>1, <3>1, <3>2, RecordsKept
  <2> QED
    BY <1>3, <1>5, <2>1, <2>2 DEF AddFinalizer
<1>6. CASE PatchName(m)
  <2>1. pc[m] = "patchName" /\ UNCHANGED <<vm, late>> /\ Return(m, FALSE)
    BY <1>6 DEF PatchName, scvmmVars
  <2>2. CASE Patch(m, [obj[m] EXCEPT !.vmName = pick[m]])
    <3>1. /\ obj'[m].id = obj[m].id /\ obj'[m].phase = obj[m].phase /\ obj'[m].fin = obj[m].fin
          /\ \A x \in Machines \ {m} : UNCHANGED obj[x]
      BY <1>0, <2>2 DEF Patch, Machine
    <3>2. Apart(m) /\ pc'[m] = "idle" /\ got'[m] = NoVm
      BY <1>1, <2>1, <3>1 DEF Apart
    <3>3. RecordOK(m)' /\ StillRecords(m)
      BY <1>0, <2>1, <3>1, <3>2 DEF RecordOK, StillRecords, Present
    <3> QED
      BY <1>0, <1>2, <2>1, <3>2, <3>3, RecordsKept
  <2> QED
    BY <1>3, <1>6, <2>1, <2>2 DEF PatchName
<1>7. CASE SendCreateVM(m)
  <2>1. pc[m] = "create" /\ UNCHANGED obj /\ ~ Exists(obj[m].id) /\ got[m] = NoVm
    BY <1>0, <1>7 DEF SendCreateVM, apiVars, RecordOK
  <2>2. ASSUME NEW v \in VmIds, CreateVM(v, pick[m]), got' = [got EXCEPT ![m] = v],
               Goto(m, "patchId"), UNCHANGED <<late, rd>>
        PROVE  RecordInv'
    <3>1. /\ vm[v].st = "unused" /\ \A w \in VmIds \ {v} : vm'[w] = vm[w]
          /\ got'[m] = v /\ pc'[m] = "patchId" /\ Apart(m)
      BY <1>0, <2>1, <2>2 DEF CreateVM, Goto, Apart, TypeOK, ScvmmTypeOK
    <3>2. Present(obj[m])
      BY <1>0, <2>1 DEF Knows, FinalizerKept, Holding, NamingInv, CopiesConsistent, Consistent
    <3>3. OnlyMadeBy(m)
      BY <2>1, <3>1, <3>2 DEF OnlyMadeBy, Exists
    <3>4. obj[m].id # v
      BY <3>1 DEF NamingInv, CopiesConsistent, Consistent
    <3>5. RecordOK(m)' /\ StillRecords(m)
      BY <1>0, <2>1, <2>2, <3>1, <3>2, <3>4 DEF RecordOK, StillRecords, Exists
    <3> QED
      BY <1>0, <2>2, <3>1, <3>3, <3>5, RecordsKept
  <2>3. CASE CommandFails({[op |-> "create", name |-> pick[m]]}) /\ Return(m, TRUE)
    BY <1>0, <1>2, <2>1, <2>3, NothingLate, ReturnRecords
  <2> QED
    BY <1>7, <2>2, <2>3 DEF SendCreateVM
<1>8. CASE PatchId(m)
  <2>1. pc[m] = "patchId" /\ UNCHANGED <<vm, late>> /\ Return(m, TRUE) /\ ~ Exists(obj[m].id)
    BY <1>0, <1>8 DEF PatchId, scvmmVars, RecordOK
  <2>2. CASE Patch(m, WithVm(m))
    <3>1. /\ obj'[m].id = got[m] /\ obj'[m].phase = obj[m].phase /\ obj'[m].fin = obj[m].fin
          /\ \A x \in Machines \ {m} : UNCHANGED obj[x]
      BY <1>0, <2>2 DEF Patch, WithVm, Machine
    <3>2. Apart(m) /\ pc'[m] = "idle" /\ got'[m] = NoVm
      BY <1>1, <2>1, <3>1 DEF Apart
    <3>3. obj[m].fin
      BY <1>0, <2>1 DEF Knows, FinalizerKept, Holding
    <3>4. RecordOK(m)'
      BY <3>1, <3>2, <3>3 DEF RecordOK
    <3>5. StillRecords(m)
      BY <2>1, <3>1 DEF StillRecords, Present, Exists
    <3> QED
      BY <1>0, <1>2, <2>1, <3>2, <3>4, <3>5, RecordsKept
  <2> QED
    BY <1>3, <1>8, <2>1, <2>2 DEF PatchId
<1>9. CASE RemoveFinalizer(m)
  <2>1. /\ pc[m] = "unfinalize" /\ UNCHANGED <<vm, late>> /\ ~ Exists(obj[m].id)
        /\ got[m] = NoVm
    BY <1>0, <1>9 DEF RemoveFinalizer, scvmmVars, RecordOK
  <2>2. CASE /\ Patch(m, [obj[m] EXCEPT !.fin = FALSE, !.phase = IF @ = "deleting" THEN "gone" ELSE @])
             /\ Return(m, FALSE)
    <3>1. obj[m].phase = "deleting"
      BY <1>0, <2>1, <2>2 DEF Knows, NamingInv, CopiesLag, Later, Patch, Present
    <3>2. /\ obj'[m].id = obj[m].id /\ obj'[m].phase = "gone"
          /\ \A x \in Machines \ {m} : UNCHANGED obj[x]
      BY <1>0, <2>2, <3>1 DEF Patch, Machine
    <3>3. Apart(m) /\ pc'[m] = "idle" /\ got'[m] = NoVm
      BY <1>1, <2>2, <3>2 DEF Apart
    <3>4. RecordOK(m)'
      BY <3>2, <3>3 DEF RecordOK
    <3>5. StillRecords(m)
      BY <2>1 DEF StillRecords, Exists
    <3> QED
      BY <1>0, <1>2, <2>1, <3>3, <3>4, <3>5, RecordsKept
  <2> QED
    BY <1>3, <1>9, <2>1, <2>2 DEF RemoveFinalizer
<1> QED
  BY <1>4, <1>5, <1>6, <1>7, <1>8, <1>9

(* Every VM has a machine that records it, or whose reconcile is about to, *)
(* and that machine stays until the VM is gone, as long as no call to the  *)
(* API server fails, no command outlives its call, reconciles read what is *)
(* and are not cut off (createVM, reconcileDelete).                        *)
THEOREM NoneLeftBehind ==
    ASSUME Answered
    PROVE  Spec => []NoVmLeftBehind
<1> USE NullAssumption, ConfigAssumption, BoundAssumption
<1>1. Init => RecordInv
  <2> SUFFICES ASSUME Init PROVE RecordInv
    OBVIOUS
  <2>1. /\ late = {} /\ \A v \in VmIds : vm[v].st = "unused"
        /\ \A m \in Machines : obj[m] = NoMachine /\ pc[m] = "idle" /\ got[m] = NoVm
    BY DEF Init
  <2> QED
    BY <2>1 DEF RecordInv, NoVmLeftBehind, RecordOK, Exists, NoMachine, WithoutVm, NamingLabels
<1>2. IInv /\ RecordInv /\ [Next]_vars => RecordInv'
  <2> SUFFICES ASSUME TypeOK, NamingInv, RecordInv, [Next]_vars PROVE RecordInv'
    BY DEF IInv
  <2>1. ASSUME NEW m \in Machines, Reconcile(m) PROVE RecordInv'
    BY <2>1, ReadingRecords, WritingRecords DEF Reconcile
  <2> QED
    BY <2>1, EnvironmentRecords DEF Next
<1>3. RecordInv => NoVmLeftBehind
  BY DEF RecordInv
<1> QED
  BY <1>1, <1>2, <1>3, InvCorrect, PTL DEF Spec

=============================================================================
