------------------------ MODULE PersistentDisks_proofs ------------------------
(***************************************************************************)
(* Proofs about PersistentDisks: no disk ever has two owners, and the      *)
(* reconcilers keep what DiskOwners promises; and, further down, the types *)
(* and the three promises about files: one disk object for each, VMs that  *)
(* run with their own disks only, and data that goes with its disk object  *)
(* and not before.                                                         *)
(*                                                                         *)
(* For the owners the steps are told apart by what they do to the disk     *)
(* objects, their cached copies and the copies about to be claimed: none,  *)
(* one write, a copy brought up to date, a choice, a restart.  The         *)
(* invariant is shown for each kind, and that every action is of one.      *)
(*                                                                         *)
(* FilesInv is kept by every step: the ...Core lemmas say so of what the   *)
(* kinds of steps do to disks, VMs and files, the ...Keeps lemmas of the   *)
(* steps themselves, with the reconcile that takes the step (CopyOK,       *)
(* StageOK) and the others, which the step leaves as they are (Whole).     *)
(***************************************************************************)
EXTENDS PersistentDisksInv, TLAPS, WellFoundedInduction

(* A disk has one owner among the machines, or none while it is not there. *)
IsDisk(o) ==
    /\ o = [phase |-> o.phase, refs |-> o.refs, file |-> o.file]
    /\ \A m, n \in o.refs \cap Machines : m = n
    /\ o.phase = "absent" => o.refs \cap Machines = {}

DisksOK == disk = [d \in Disks |-> disk[d]] /\ \A d \in Disks : IsDisk(disk[d])

(* A fresh copy is the object.                                             *)
FreshOK == DOMAIN cdisk = Disks /\ fresh \subseteq Disks /\ \A d \in fresh : cdisk[d] = disk[d]

MayClaim(m, o) == o.refs \cap Machines \subseteq {m} /\ o.phase \notin {"absent", "deleting"}

(* A disk that is about to be claimed from a copy that is up to date is    *)
(* nobody else's.                                                          *)
PickOK ==
    /\ DOMAIN pc = Machines /\ DOMAIN pick = Machines
    /\ \A m \in Machines : pc[m] \in {"update", "new"} => pick[m] \in Disks
    /\ \A m \in current : pc[m] = "update" => MayClaim(m, disk[pick[m]])

DisksInv == DisksOK /\ FreshOK /\ PickOK /\ current \subseteq Machines

-----------------------------------------------------------------------------
(* The kinds of steps.                                                     *)

(* Nobody comes to claim a disk but who was about to already.              *)
NoneChosen ==
    /\ DOMAIN pc' = Machines /\ DOMAIN pick' = Machines
    /\ \A m \in Machines : pc'[m] \in {"update", "new"} => pc'[m] = pc[m] /\ pick'[m] = pick[m]

Quiet == UNCHANGED <<disk, cdisk, fresh, current>> /\ NoneChosen

(* Of the owner and the fate of a disk o, what a write makes of them.      *)
Free(o) == o.refs \cap Machines = {}

Keeps(o, new) ==
    /\ new.refs \cap Machines = o.refs \cap Machines
    /\ new.phase = "deleting" <=> o.phase = "deleting"

Takes(o, new) ==
    /\ Free(o) /\ o.phase # "deleting" /\ new.phase # "deleting"
    /\ \E m \in Machines : new.refs \cap Machines = {m}

GivesUp(o, new) == Free(new) /\ (new.phase = "deleting" <=> o.phase = "deleting")

Dooms(o, new) == new.refs \cap Machines = o.refs \cap Machines /\ new.phase = "deleting"

Vanishes(o, new) == o.phase = "deleting" /\ Free(new) /\ new.phase = "absent"

Proper(o, new) ==
    Keeps(o, new) \/ Takes(o, new) \/ GivesUp(o, new) \/ Dooms(o, new) \/ Vanishes(o, new)

Written(d, new) ==
    /\ WriteDisk(d, new) /\ IsDisk(new) /\ Proper(disk[d], new)
    /\ NoneChosen

Refreshed(d) ==
    /\ UNCHANGED <<disk, current>> /\ NoneChosen
    /\ cdisk' = [cdisk EXCEPT ![d] = disk[d]] /\ fresh' = fresh \cup {d}

Chosen(m, d) ==
    /\ UNCHANGED <<disk, cdisk, fresh>>
    /\ pick' = [pick EXCEPT ![m] = d]
    /\ \/ /\ pc' = [pc EXCEPT ![m] = "update"]
          /\ cdisk[d].phase \notin {"absent", "deleting"}
          /\ cdisk[d].refs \cap Machines \subseteq {m}
          /\ current' = IF d \in fresh THEN current \cup {m} ELSE current \ {m}
       \/ /\ pc' = [pc EXCEPT ![m] = "new"]
          /\ UNCHANGED current

Restarted ==
    /\ UNCHANGED disk /\ cdisk' = disk /\ fresh' = Disks /\ current' = {}
    /\ NoneChosen

Kinds ==
    \/ Quiet \/ Restarted
    \/ \E d \in Disks : Refreshed(d) \/ \E new : Written(d, new)
    \/ \E m \in Machines, d \in Disks : Chosen(m, d)

-----------------------------------------------------------------------------
LEMMA InitInv == Init => DisksInv
<1> SUFFICES ASSUME Init PROVE DisksInv
  OBVIOUS
<1>1. \A d \in Disks : disk[d].refs = {}
  BY DEF Init, UserDisk, AbsentDisk
<1>2. \A d \in Disks : disk[d] = [phase |-> disk[d].phase, refs |-> disk[d].refs, file |-> disk[d].file]
  BY DEF Init, UserDisk, AbsentDisk
<1>3. DisksOK
  <2>1. disk = [d \in Disks |-> disk[d]]
    BY DEF Init
  <2> QED
    BY <1>1, <1>2, <2>1 DEF DisksOK, IsDisk
<1>4. FreshOK
  BY <1>3 DEF Init, FreshOK, DisksOK
<1>5. PickOK /\ current = {}
  BY DEF Init, PickOK
<1> QED
  BY <1>3, <1>4, <1>5 DEF DisksInv

LEMMA QuietInv == DisksInv /\ Quiet => DisksInv'
  BY DEF DisksInv, DisksOK, FreshOK, PickOK, Quiet, NoneChosen, IsDisk, MayClaim

LEMMA RestartedInv == DisksInv /\ Restarted => DisksInv'
  BY DEF DisksInv, DisksOK, FreshOK, PickOK, Restarted, NoneChosen, IsDisk, MayClaim

LEMMA RefreshedInv ==
    ASSUME NEW d \in Disks, DisksInv, Refreshed(d)
    PROVE  DisksInv'
<1>1. disk' = disk /\ current' = current /\ NoneChosen
  BY DEF Refreshed
<1>2. FreshOK'
  BY <1>1 DEF Refreshed, DisksInv, FreshOK
<1>3. PickOK'
  BY <1>1 DEF DisksInv, PickOK, NoneChosen, MayClaim
<1>4. DisksOK'
  BY <1>1 DEF DisksInv, DisksOK, IsDisk
<1> QED
  BY <1>1, <1>2, <1>3, <1>4 DEF DisksInv

LEMMA WrittenInv ==
    ASSUME NEW d \in Disks, NEW new, DisksInv, Written(d, new)
    PROVE  DisksInv'
<1>1. CASE new = disk[d]
  <2>1. disk' = disk
    BY <1>1 DEF Written, WriteDisk, DisksInv, DisksOK
  <2>2. Quiet
    BY <1>1, <2>1 DEF Written, WriteDisk, Quiet
  <2> QED
    BY <2>2, QuietInv
<1>2. CASE new # disk[d]
  <2>1. /\ disk' = [disk EXCEPT ![d] = new] /\ cdisk' = cdisk
        /\ fresh' = fresh \ {d} /\ current' = {m \in current : pick[m] # d}
        /\ IsDisk(new) /\ NoneChosen
    BY <1>2 DEF Written, WriteDisk
  <2> QED
    BY <2>1 DEF DisksInv, DisksOK, FreshOK, PickOK, NoneChosen, IsDisk, MayClaim
<1> QED
  BY <1>1, <1>2

LEMMA ChosenInv ==
    ASSUME NEW m \in Machines, NEW d \in Disks, DisksInv, Chosen(m, d)
    PROVE  DisksInv'
  BY DEF DisksInv, DisksOK, FreshOK, PickOK, Chosen, IsDisk, MayClaim

LEMMA KindsInv == DisksInv /\ Kinds => DisksInv'
  BY QuietInv, RestartedInv, RefreshedInv, WrittenInv, ChosenInv DEF Kinds

-----------------------------------------------------------------------------
(* Every action is of one of the kinds.                                    *)

LEMMA ReturnChoosesNone ==
    ASSUME NEW m \in Machines, NEW again, DisksInv, Return(m, again)
    PROVE  NoneChosen
  BY DEF Return, NoneChosen, DisksInv, PickOK

LEMMA GotoChoosesNone ==
    ASSUME NEW m \in Machines, NEW label, DisksInv, Goto(m, label), label \notin {"update", "new"},
           DOMAIN pick' = Machines, \A n \in Machines \ {m} : pick'[n] = pick[n]
    PROVE  NoneChosen
  BY DEF Goto, NoneChosen, DisksInv, PickOK

LEMMA SameChoosesNone ==
    ASSUME DisksInv, UNCHANGED <<pc, pick>>
    PROVE  NoneChosen
  BY DEF NoneChosen, DisksInv, PickOK

(* The environment. *)
LEMMA MachineSteps ==
    ASSUME NEW m \in Machines, DisksInv, CreateMachine(m) \/ DeleteMachine(m) \/ SyncMachine(m)
    PROVE  Quiet
  BY SameChoosesNone
  DEF CreateMachine, DeleteMachine, SyncMachine, Quiet, apiVars, cacheVars, workVars

LEMMA TaskSteps ==
    ASSUME NEW v \in VmIds, DisksInv, VmTaskDone(v)
    PROVE  Quiet
  BY SameChoosesNone DEF VmTaskDone, Quiet, apiVars, cacheVars, workVars

LEMMA SyncDiskStep ==
    ASSUME NEW d \in Disks, DisksInv, SyncDisk(d)
    PROVE  Refreshed(d)
  BY SameChoosesNone DEF SyncDisk, Refreshed, apiVars, workVars

LEMMA CrashStep ==
    ASSUME DisksInv, Crash
    PROVE  Restarted
  BY DEF Crash, Restarted, NoneChosen, apiVars

LEMMA CondemnedProper ==
    ASSUME NEW o, IsDisk(o)
    PROVE  IsDisk(Condemned(o)) /\ Proper(o, Condemned(o))
<1>1. CASE o.phase = "live"
  <2>1. Condemned(o) = [phase |-> "deleting", refs |-> o.refs, file |-> o.file]
    BY <1>1 DEF Condemned, IsDisk
  <2> QED
    BY <1>1, <2>1 DEF IsDisk, Proper, Dooms
<1>2. CASE o.phase = "loose"
  <2>1. Condemned(o) = AbsentDisk
    BY <1>2 DEF Condemned
  <2> QED
    BY <1>2, <2>1 DEF IsDisk, Proper, GivesUp, Free, AbsentDisk
<1>3. CASE o.phase \notin {"live", "loose"}
  <2>1. Condemned(o) = o
    BY <1>3 DEF Condemned
  <2> QED
    BY <2>1 DEF Proper, Keeps
<1> QED
  BY <1>1, <1>2, <1>3

LEMMA AdminStep ==
    ASSUME NEW d \in Disks, DisksInv, AdminDeletesDisk(d)
    PROVE  Written(d, Condemned(disk[d]))
<1>1. IsDisk(disk[d])
  BY DEF DisksInv, DisksOK
<1>2. NoneChosen
  BY SameChoosesNone DEF AdminDeletesDisk
<1> QED
  BY <1>1, <1>2, CondemnedProper DEF AdminDeletesDisk, Written

LEMMA GivenUp ==
    ASSUME NEW m \in Machines, NEW o, IsDisk(o)
    PROVE  LET new == [phase |-> o.phase, refs |-> o.refs \ {m}, file |-> o.file]
           IN IsDisk(new) /\ Proper(o, new)
<1> DEFINE less == [phase |-> o.phase, refs |-> o.refs \ {m}, file |-> o.file]
<1>1. IsDisk(less)
  BY DEF IsDisk
<1>0. less.phase = o.phase /\ less.refs = o.refs \ {m}
  OBVIOUS
<1> SUFFICES Proper(o, less)
  BY <1>1
<1> HIDE DEF less
<1>2. CASE m \in o.refs
  <2>1. less.refs \cap Machines = {}
    <3> SUFFICES ASSUME NEW x \in less.refs \cap Machines PROVE FALSE
      OBVIOUS
    <3>1. x \in o.refs \cap Machines /\ m \in o.refs \cap Machines /\ x # m
      BY <1>0, <1>2
    <3> QED
      BY <3>1 DEF IsDisk
  <2> QED
    <3>1. GivesUp(o, less)
      BY <1>0, <2>1 DEF GivesUp, Free
    <3> QED
      BY <3>1 DEF Proper
<1>3. CASE m \notin o.refs
  <2>1. (o.refs \ {m}) \cap Machines = o.refs \cap Machines
    BY <1>3
  <2>2. less.refs \cap Machines = o.refs \cap Machines
    BY <1>0, <2>1
  <2>3. Keeps(o, less)
    BY <1>0, <2>2 DEF Keeps
  <2> QED
    BY <2>3 DEF Proper
<1> QED
  BY <1>2, <1>3

LEMMA FieldsOf ==
    ASSUME NEW o, IsDisk(o), NEW x
    PROVE  /\ [o EXCEPT !.refs = x] = [phase |-> o.phase, refs |-> x, file |-> o.file]
           /\ [o EXCEPT !.file = x] = [phase |-> o.phase, refs |-> o.refs, file |-> x]
  BY DEF IsDisk

LEMMA CollectStep ==
    ASSUME NEW d \in Disks, DisksInv, CollectGarbage(d)
    PROVE  \E new : Written(d, new)
<1>1. IsDisk(disk[d])
  BY DEF DisksInv, DisksOK
<1>2. NoneChosen
  BY SameChoosesNone DEF CollectGarbage
<1>3. CASE disk[d].refs = Dangling(d)
  <2>1. WriteDisk(d, Condemned(disk[d]))
    BY <1>3 DEF CollectGarbage
  <2> QED
    BY <1>1, <1>2, <2>1, CondemnedProper DEF Written
<1>4. CASE disk[d].refs # Dangling(d)
  <2> DEFINE new == [phase |-> disk[d].phase, refs |-> disk[d].refs \ Dangling(d), file |-> disk[d].file]
  <2>1. [disk[d] EXCEPT !.refs = @ \ Dangling(d)] = new
    BY <1>1, FieldsOf
  <2>2. WriteDisk(d, new)
    BY <1>4, <2>1 DEF CollectGarbage
  <2>3. new.refs \cap Machines = {}
    BY <1>1 DEF IsDisk, Dangling, CollectGarbage
  <2>4. IsDisk(new) /\ Proper(disk[d], new)
    BY <1>1, <2>3 DEF IsDisk, Proper, GivesUp, Free
  <2> QED
    BY <1>2, <2>2, <2>4 DEF Written
<1> QED
  BY <1>3, <1>4

LEMMA NextSlotChoosesNone ==
    ASSUME NEW m \in Machines, DisksInv, NextSlot(m), UNCHANGED pick
    PROVE  NoneChosen
<1> PICK label \in {"get", "claim"} : Goto(m, label)
  BY DEF NextSlot
<1> QED
  BY GotoChoosesNone DEF DisksInv, PickOK

LEMMA ClaimDiskStep ==
    ASSUME NEW m \in Machines, DisksInv, ClaimDisk(m)
    PROVE  Kinds
<1>1. UNCHANGED <<disk, cdisk, fresh>>
  BY DEF ClaimDisk, apiVars, cacheVars
<1>2. CASE UNCHANGED <<pick, current>> /\ (NextSlot(m) \/ Goto(m, "patch"))
  <2>1. NoneChosen
    BY <1>2, NextSlotChoosesNone, GotoChoosesNone DEF DisksInv, PickOK
  <2> QED
    BY <1>1, <1>2, <2>1 DEF Quiet, Kinds
<1>3. ASSUME NEW e \in Eligible(m),
             pick' = [pick EXCEPT ![m] = e],
             current' = IF e \in fresh THEN current \cup {m} ELSE current \ {m},
             Goto(m, "update")
      PROVE  Kinds
  <2>1. e \in Disks /\ cdisk[e].phase \notin {"absent", "deleting"}
        /\ cdisk[e].refs \cap Machines \subseteq {m}
    BY <1>3 DEF Eligible, Listed, Taken
  <2> QED
    BY <1>1, <1>3, <2>1 DEF Chosen, Kinds, Goto
<1>4. ASSUME NEW e \in Disks,
             pick' = [pick EXCEPT ![m] = e], UNCHANGED current,
             Goto(m, "new")
      PROVE  Kinds
  BY <1>1, <1>4 DEF Chosen, Kinds, Goto
<1> QED
  BY <1>2, <1>3, <1>4 DEF ClaimDisk

LEMMA UpdateClaimStep ==
    ASSUME NEW m \in Machines, DisksInv, UpdateClaim(m)
    PROVE  Kinds
<1> DEFINE d == pick[m]
           o == disk[d]
           new == [phase |-> IF o.phase = "loose" THEN "live" ELSE o.phase,
                   refs |-> o.refs \cup {m}, file |-> o.file]
<1>1. d \in Disks /\ IsDisk(o)
  BY DEF DisksInv, DisksOK, PickOK, UpdateClaim
<1>2. NoneChosen
  BY NextSlotChoosesNone, GotoChoosesNone DEF UpdateClaim, DisksInv, PickOK
<1>3. CASE CanUpdate(m) /\ WriteDisk(d, Claimed(m, o))
  <2>1. MayClaim(m, o)
    BY <1>3 DEF CanUpdate, DisksInv, PickOK, UpdateClaim
  <2>2. Claimed(m, o) = new
    BY DEF Claimed
  <2>3. new.refs \cap Machines = {m}
    BY <2>1 DEF MayClaim
  <2>4. IsDisk(new)
    BY <2>1, <2>3 DEF IsDisk, MayClaim
  <2>5. Proper(o, new)
    <3>1. CASE Free(o)
      BY <3>1, <2>1, <2>3 DEF Proper, Takes, MayClaim
    <3>2. CASE ~ Free(o)
      BY <3>2, <2>1, <2>3 DEF Proper, Keeps, MayClaim, Free
    <3> QED
      BY <3>1, <3>2
  <2> QED
    BY <1>1, <1>2, <1>3, <2>2, <2>4, <2>5 DEF Written, Kinds
<1>4. CASE UNCHANGED <<disk, cacheVars, current>>
  BY <1>2, <1>4 DEF Quiet, Kinds, cacheVars
<1> QED
  BY <1>3, <1>4 DEF UpdateClaim

LEMMA CreateClaimStep ==
    ASSUME NEW m \in Machines, DisksInv, CreateClaim(m)
    PROVE  Kinds
<1> DEFINE d == pick[m]
           new == [phase |-> "live", refs |-> {m, ThePool}, file |-> NoFile]
<1>1. d \in Disks /\ IsDisk(disk[d])
  BY DEF DisksInv, DisksOK, PickOK, CreateClaim
<1>2. NoneChosen
  BY NextSlotChoosesNone, GotoChoosesNone DEF CreateClaim, DisksInv, PickOK
<1>3. CASE disk[d].phase = "absent" /\ WriteDisk(d, new)
  <2>1. new.refs \cap Machines = {m}
    BY NullAssumption
  <2>2. IsDisk(new) /\ Proper(disk[d], new)
    BY <1>1, <1>3, <2>1 DEF IsDisk, Proper, Takes, Free
  <2> QED
    BY <1>1, <1>2, <1>3, <2>2 DEF Written, Kinds
<1>4. CASE UNCHANGED <<disk, cacheVars, current>>
  BY <1>2, <1>4 DEF Quiet, Kinds, cacheVars
<1> QED
  BY <1>3, <1>4 DEF CreateClaim

LEMMA FileNoted ==
    ASSUME NEW m \in Machines, DisksInv, NEW d, NEW f,
           UpdateDisk(m, d, [disk[d] EXCEPT !.file = f]), NoneChosen
    PROVE  Kinds
<1>1. d \in Disks /\ IsDisk(disk[d])
  BY DEF UpdateDisk, DisksInv, DisksOK, FreshOK
<1> DEFINE new == [phase |-> disk[d].phase, refs |-> disk[d].refs, file |-> f]
<1>2. WriteDisk(d, new)
  BY <1>1, FieldsOf DEF UpdateDisk
<1>3. IsDisk(new) /\ Proper(disk[d], new)
  BY <1>1 DEF IsDisk, Proper, Keeps
<1> QED
  BY <1>1, <1>2, <1>3 DEF Written, Kinds

LEMMA NoteDisksStep ==
    ASSUME NEW m \in Machines, DisksInv, NoteDisks(m)
    PROVE  Kinds
<1> PICK label \in Labels \ {"update", "new"} : Goto(m, label) \/ UNCHANGED pc
  BY DEF NoteDisks, Labels
<1>1. UNCHANGED pick
  BY DEF NoteDisks
<1>2. NoneChosen
  BY <1>1, GotoChoosesNone, SameChoosesNone DEF DisksInv, PickOK
<1>3. CASE UNCHANGED <<apiVars, cacheVars, current>>
  BY <1>2, <1>3 DEF Quiet, Kinds, cacheVars, apiVars
<1>4. CASE \E s \in Unnoted(m) :
             UpdateDisk(m, mem[m].disk[s], [disk[mem[m].disk[s]] EXCEPT !.file = got[m].disk[s]])
  BY <1>2, <1>4, FileNoted
<1> QED
  BY <1>3, <1>4 DEF NoteDisks, UpdateDiskFails

LEMMA GiveBackStep ==
    ASSUME NEW m \in Machines, DisksInv, GiveBack(m)
    PROVE  Kinds
<1> DEFINE s == Least({r \in Slots : mem[m].disk[r] # NoDisk})
           d == mem[m].disk[s]
<1>1. PICK label \in {"detach", "patch"} : Goto(m, label) \/ UNCHANGED pc
  BY DEF GiveBack
<1>2. NoneChosen
  BY <1>1, GotoChoosesNone, SameChoosesNone DEF DisksInv, PickOK, GiveBack
<1>3. CASE UNCHANGED <<apiVars, cacheVars, current>>
  BY <1>2, <1>3 DEF Quiet, Kinds, cacheVars, apiVars
<1>4. CASE UpdateDisk(m, d, [disk[d] EXCEPT !.file = got[m].disk[s]])
  BY <1>2, <1>4, FileNoted
<1>5. CASE UpdateDisk(m, d, [disk[d] EXCEPT !.refs = @ \ {m}])
  <2> DEFINE new == [phase |-> disk[d].phase, refs |-> disk[d].refs \ {m}, file |-> disk[d].file]
  <2>1. d \in Disks /\ IsDisk(disk[d])
    BY <1>5 DEF UpdateDisk, DisksInv, DisksOK, FreshOK
  <2>2. WriteDisk(d, new)
    BY <1>5, <2>1, FieldsOf DEF UpdateDisk
  <2>3. IsDisk(new) /\ Proper(disk[d], new)
    BY <2>1, GivenUp
  <2> QED
    BY <1>2, <2>1, <2>2, <2>3 DEF Written, Kinds
<1> QED
  BY <1>3, <1>4, <1>5 DEF GiveBack

LEMMA ReconcileDiskStep ==
    ASSUME NEW d \in Disks, DisksInv, ReconcileDisk(d)
    PROVE  Kinds
<1>1. NoneChosen
  BY SameChoosesNone DEF ReconcileDisk, RemovePersistentDisk, ForgetDisk, workVars
<1>2. CASE RemovePersistentDisk(d)
  BY <1>1, <1>2 DEF RemovePersistentDisk, Quiet, Kinds, apiVars, cacheVars, workVars
<1>3. CASE ForgetDisk(d)
  <2>1. disk[d].phase = "deleting"
    BY <1>3 DEF ForgetDisk, DisksInv, FreshOK
  <2>2. IsDisk(AbsentDisk) /\ Proper(disk[d], AbsentDisk)
    BY <2>1 DEF IsDisk, AbsentDisk, Proper, Vanishes, Free
  <2> QED
    BY <1>1, <1>3, <2>2 DEF ForgetDisk, Written, Kinds
<1> QED
  BY <1>2, <1>3 DEF ReconcileDisk

(* The steps of a machine's reconcile that leave the disk objects alone.   *)
Elsewhere(m) ==
    \/ Begin(m) \/ AddFinalizer(m) \/ PatchReason(m) \/ GetVM(m) \/ SendCreateVM(m)
    \/ ExpandDisks(m) \/ SendStartVM(m) \/ GetVMInfo(m) \/ LookAtVM(m) \/ DetachDisk(m)
    \/ SendRemoveVM(m) \/ RemoveFinalizer(m)

LEMMA ElsewhereSteps ==
    ASSUME NEW m \in Machines, DisksInv, Elsewhere(m)
    PROVE  Quiet
<1>1. UNCHANGED <<disk, cdisk, fresh, current>>
  BY DEF Elsewhere, Begin, AddFinalizer, PatchReason, GetVM, SendCreateVM, ExpandDisks,
         SendStartVM, GetVMInfo, LookAtVM, DetachDisk, SendRemoveVM, RemoveFinalizer,
         Patch, PatchFails, apiVars, cacheVars, workVars
<1>2. \/ \E again \in BOOLEAN : Return(m, again)
      \/ /\ UNCHANGED pick
         /\ UNCHANGED pc \/ \E label \in Labels \ {"update", "new"} : Goto(m, label)
  BY DEF Elsewhere, Begin, AddFinalizer, PatchReason, GetVM, SendCreateVM, ExpandDisks,
         SendStartVM, GetVMInfo, LookAtVM, DetachDisk, SendRemoveVM, RemoveFinalizer,
         Labels, workVars
<1>3. NoneChosen
  BY <1>2, ReturnChoosesNone, GotoChoosesNone, SameChoosesNone DEF DisksInv, PickOK
<1> QED
  BY <1>1, <1>3 DEF Quiet

LEMMA ReconcileStep ==
    ASSUME NEW m \in Machines, DisksInv, Reconcile(m)
    PROVE  Kinds
<1>1. CASE Elsewhere(m)
  BY <1>1, ElsewhereSteps DEF Kinds
<1> QED
  BY <1>1, ClaimDiskStep, UpdateClaimStep, CreateClaimStep, NoteDisksStep, GiveBackStep
  DEF Reconcile, Elsewhere

LEMMA NextKinds == DisksInv /\ Next => Kinds
<1> SUFFICES ASSUME DisksInv, Next PROVE Kinds
  OBVIOUS
<1>1. CASE \E m \in Machines : Reconcile(m)
  BY <1>1, ReconcileStep
<1>2. CASE \E m \in Machines : CreateMachine(m) \/ DeleteMachine(m) \/ SyncMachine(m)
  BY <1>2, MachineSteps DEF Kinds
<1>3. ASSUME NEW d \in Disks,
             SyncDisk(d) \/ CollectGarbage(d) \/ AdminDeletesDisk(d) \/ ReconcileDisk(d)
      PROVE  Kinds
  BY <1>3, SyncDiskStep, CollectStep, AdminStep, ReconcileDiskStep DEF Kinds
<1>4. CASE \E v \in VmIds : VmTaskDone(v)
  BY <1>4, TaskSteps DEF Kinds
<1>5. CASE Crash
  BY <1>5, CrashStep DEF Kinds
<1> QED
  BY <1>1, <1>2, <1>3, <1>4, <1>5 DEF Next

LEMMA StutterQuiet == DisksInv /\ UNCHANGED vars => Quiet
  BY SameChoosesNone DEF Quiet, vars, apiVars, cacheVars, workVars

(* In every behaviour each disk object has one owner at most, fresh copies *)
(* are true, and whoever is about to claim a disk with an up-to-date copy  *)
(* finds it free (claimPersistentDisk).                                    *)
THEOREM DisksInvAlways == Spec => []DisksInv
<1>1. DisksInv /\ [Next]_vars => DisksInv'
  BY NextKinds, KindsInv, StutterQuiet, QuietInv
<1> QED
  BY InitInv, <1>1, PTL DEF Spec

(* A disk is never claimed by two machines, although both may have listed  *)
(* it as free (claimPersistentDisk).                                       *)
THEOREM OneOwnerAlways == Spec => []OneOwner
<1>1. DisksInv => OneOwner
  BY DEF DisksInv, DisksOK, IsDisk, OneOwner
<1> QED
  BY DisksInvAlways, <1>1, PTL

-----------------------------------------------------------------------------
(* The promise of the pool.                                                *)

HolderOf(o) ==
    IF o.refs \cap Machines = {} THEN ThePool ELSE CHOOSE m \in Machines : m \in o.refs

holderBar == [d \in Disks |-> Holder(d)]

doomedBar == {d \in Disks : disk[d].phase = "deleting"}

LEMMA HolderKept ==
    ASSUME NEW o, NEW p, o.refs \cap Machines = p.refs \cap Machines
    PROVE  HolderOf(o) = HolderOf(p)
<1>1. \A m \in Machines : m \in o.refs <=> m \in p.refs
  OBVIOUS
<1>2. (CHOOSE m \in Machines : m \in o.refs) = (CHOOSE m \in Machines : m \in p.refs)
  BY <1>1
<1> QED
  BY <1>2 DEF HolderOf

LEMMA WrittenMaps ==
    ASSUME NEW d \in Disks, NEW new, DisksInv, disk' = [disk EXCEPT ![d] = new]
    PROVE  /\ holderBar' = [holderBar EXCEPT ![d] = HolderOf(new)]
           /\ doomedBar' = IF new.phase = "deleting" THEN doomedBar \cup {d} ELSE doomedBar \ {d}
<1>1. DOMAIN disk = Disks
  BY DEF DisksInv, DisksOK
<1>2. disk'[d] = new /\ \A e \in Disks \ {d} : disk'[e] = disk[e]
  BY <1>1
<1>3. \A e \in Disks : Holder(e)' = IF e = d THEN HolderOf(new) ELSE Holder(e)
  <2>1. \A e \in Disks : Holder(e) = HolderOf(disk[e])
    BY DEF Holder, HolderOf
  <2>2. \A e \in Disks : Holder(e)' = HolderOf(disk'[e])
    BY DEF Holder, HolderOf
  <2> QED
    BY <1>2, <2>1, <2>2
<1>4. holderBar' = [e \in Disks |-> Holder(e)']
  BY DEF holderBar
<1>5. holderBar' = [holderBar EXCEPT ![d] = HolderOf(new)]
  BY <1>3, <1>4 DEF holderBar
<1>6. doomedBar' = {e \in Disks : disk'[e].phase = "deleting"}
  BY DEF doomedBar
<1> QED
  BY <1>2, <1>5, <1>6 DEF doomedBar

LEMMA UnchangedMaps ==
    ASSUME UNCHANGED disk
    PROVE  UNCHANGED <<holderBar, doomedBar>>
  BY DEF holderBar, doomedBar, Holder

LEMMA InitMaps == Init => Owners!Init
<1> SUFFICES ASSUME Init PROVE Owners!Init
  OBVIOUS
<1>1. \A d \in Disks : disk[d].refs = {} /\ disk[d].phase # "deleting"
  BY DEF Init, UserDisk, AbsentDisk
<1>2. \A d \in Disks : Holder(d) = ThePool
  BY <1>1 DEF Holder
<1> QED
  BY <1>1, <1>2 DEF Owners!Init

LEMMA WrittenOwners ==
    ASSUME NEW d \in Disks, NEW new, DisksInv, Written(d, new)
    PROVE  [Owners!Next]_(Owners!vars)
<1> DEFINE o == disk[d]
<1>1. /\ holderBar' = [holderBar EXCEPT ![d] = HolderOf(new)]
      /\ doomedBar' = IF new.phase = "deleting" THEN doomedBar \cup {d} ELSE doomedBar \ {d}
  BY WrittenMaps DEF Written, WriteDisk
<1>2. holderBar[d] = HolderOf(o) /\ (d \in doomedBar <=> o.phase = "deleting")
      /\ holderBar = [e \in Disks |-> holderBar[e]]
  BY DEF holderBar, doomedBar, Holder, HolderOf
<1>3. Free(new) => HolderOf(new) = ThePool
  BY DEF Free, HolderOf
<1>4. Proper(o, new)
  BY DEF Written
<1>5. CASE Keeps(o, new)
  <2>1. HolderOf(new) = HolderOf(o) /\ (new.phase = "deleting" <=> o.phase = "deleting")
    BY <1>5, HolderKept DEF Keeps
  <2>2. holderBar' = holderBar /\ doomedBar' = doomedBar
    BY <1>1, <1>2, <2>1
  <2> QED
    BY <2>2 DEF Owners!vars, holderBar, doomedBar
<1>6. CASE Takes(o, new)
  <2>1. PICK m \in Machines : new.refs \cap Machines = {m}
    BY <1>6 DEF Takes
  <2>2. HolderOf(new) = m
    BY <2>1 DEF HolderOf
  <2>3. holderBar[d] = ThePool
    BY <1>2, <1>6 DEF Takes, Free, HolderOf
  <2>4. d \notin doomedBar /\ doomedBar' = doomedBar
    BY <1>1, <1>2, <1>6 DEF Takes
  <2>5. Owners!Take(d, m)
    BY <1>1, <2>2, <2>3, <2>4 DEF Owners!Take, holderBar, doomedBar
  <2> QED
    BY <2>1, <2>5 DEF Owners!Next
<1>7. CASE GivesUp(o, new)
  <2>1. doomedBar' = doomedBar
    BY <1>1, <1>2, <1>7 DEF GivesUp
  <2>2. Owners!GiveUp(d)
    BY <1>1, <1>3, <1>7, <2>1 DEF GivesUp, Owners!GiveUp, holderBar, doomedBar
  <2> QED
    BY <2>2 DEF Owners!Next
<1>8. CASE Dooms(o, new)
  <2>1. HolderOf(new) = HolderOf(o)
    BY <1>8, HolderKept DEF Dooms
  <2>2. holderBar' = holderBar
    BY <1>1, <1>2, <2>1
  <2>3. Owners!Doom(d)
    BY <1>1, <1>8, <2>2 DEF Dooms, Owners!Doom, holderBar, doomedBar
  <2> QED
    BY <2>3 DEF Owners!Next
<1>9. CASE Vanishes(o, new)
  <2>1. d \in doomedBar /\ doomedBar' = doomedBar \ {d}
    BY <1>1, <1>2, <1>9 DEF Vanishes
  <2>2. Owners!Vanish(d)
    BY <1>1, <1>3, <1>9, <2>1 DEF Vanishes, Owners!Vanish, holderBar, doomedBar
  <2> QED
    BY <2>2 DEF Owners!Next
<1> QED
  BY <1>4, <1>5, <1>6, <1>7, <1>8, <1>9 DEF Proper

(* The reconcilers keep the promise of the pool, whichever copies of a     *)
(* disk they work on (claimPersistentDisk, removePersistentDisks,          *)
(* ScvmmPersistentDiskReconciler).                                         *)
THEOREM OwnersRefined == Spec => OwnersSpec
<1>1. DisksInv /\ [Next]_vars => [Owners!Next]_(Owners!vars)
  <2> SUFFICES ASSUME DisksInv, [Next]_vars PROVE [Owners!Next]_(Owners!vars)
    OBVIOUS
  <2>1. Kinds
    BY NextKinds, StutterQuiet DEF Kinds
  <2>2. CASE UNCHANGED disk
    BY <2>2, UnchangedMaps DEF Owners!vars, holderBar, doomedBar
  <2>3. CASE \E d \in Disks : \E new : Written(d, new)
    BY <2>3, WrittenOwners
  <2> QED
    BY <2>1, <2>2, <2>3 DEF Kinds, Quiet, Restarted, Refreshed, Chosen
<1> QED
  BY InitMaps, DisksInvAlways, <1>1, PTL DEF Spec, OwnersSpec, Owners!Spec

-----------------------------------------------------------------------------
(* The least of a set of numbers.                                          *)
Below == {p \in Nat \X Nat : p[1] < p[2]}

(* A loop that takes the first slot or disk of a set finds one.            *)
LEMMA LeastIn ==
    ASSUME NEW S, S \subseteq Nat, S # {}
    PROVE  Least(S) \in S /\ \A e \in S : Least(S) <= e
<1>1. IsWellFoundedOn(Below, Nat)
  BY NatLessThanWellFounded DEF OpToRel, Below
<1>2. \E x \in S : \A y \in S : ~ (<<y, x>> \in Below)
  BY <1>1, WFMin
<1>3. PICK x \in S : \A y \in S : ~ (<<y, x>> \in Below)
  BY <1>2
<1>4. ASSUME NEW y \in S PROVE x <= y
  <2>1. x \in Nat /\ y \in Nat
    OBVIOUS
  <2>2. <<y, x>> \in Nat \X Nat
    BY <2>1
  <2>3. <<y, x>> \in Below <=> y < x
    BY <2>2 DEF Below
  <2> QED
    BY <1>3, <2>1, <2>3
<1> QED
  BY <1>4 DEF Least

(* The first LUN at which a VM has nothing.                                *)
FirstFree(v) ==
    CHOOSE s \in Slots : vm[v].disk[s] = NoFile /\ \A r \in 1 .. s - 1 : vm[v].disk[r] # NoFile

LEMMA FirstFreeIs ==
    ASSUME NEW v, \E r \in Slots : vm[v].disk[r] = NoFile
    PROVE  FirstFree(v) \in Slots /\ vm[v].disk[FirstFree(v)] = NoFile
<1> DEFINE free == {r \in Slots : vm[v].disk[r] = NoFile}
           s == Least(free)
<1>1. free \subseteq Nat /\ free # {}
  BY DEF Slots
<1>2. s \in free /\ \A r \in free : s <= r
  BY <1>1, LeastIn
<1> HIDE DEF s
<1>3. \A r \in 1 .. s - 1 : r \in Slots /\ ~ s <= r
  BY <1>2, BoundAssumption DEF Slots
<1>4. \A r \in 1 .. s - 1 : vm[v].disk[r] # NoFile
  BY <1>2, <1>3
<1> QED
  BY <1>2, <1>4 DEF FirstFree

-----------------------------------------------------------------------------
(* Types.                                                                  *)

(* Where a reconcile has come to says what it may rely on.                 *)
PlacesOK ==
    \A m \in Machines :
        /\ pc[m] \in {"idle", "finalizer", "claim", "update", "new", "detach"} => at[m] \in Slots
        /\ pc[m] \in {"note", "expand", "start", "done"} => mem[m].id # NoVm

TypeInv == TypeOK /\ PlacesOK /\ DisksInv

LEMMA Values ==
    /\ NoDisks \in [Slots -> Disks \cup {NoDisk}] /\ NoFiles \in Attached
    /\ NoMachine \in Machine /\ AbsentDisk \in Disk /\ NoReport \in Report
    /\ 1 \in Slots /\ Slots \subseteq Nat /\ Slots \subseteq 1 .. NumSlots + 1
    /\ \A d \in UserDisks : UserFile(d) \in File /\ UserDisk(d) \in Disk
<1>1. NoDisks \in [Slots -> Disks \cup {NoDisk}] /\ NoFiles \in Attached
  BY DEF NoDisks, NoFiles, Attached
<1>2. 1 \in Slots /\ Slots \subseteq Nat /\ Slots \subseteq 1 .. NumSlots + 1
  BY BoundAssumption DEF Slots
<1>3. NoMachine \in Machine
  BY <1>1 DEF NoMachine, Machine, Phases
<1>4. AbsentDisk \in Disk
  BY DEF AbsentDisk, Disk, DiskPhases
<1>5. NoReport \in Report
  BY <1>1 DEF NoReport, Report, VmStates
<1>6. \A d \in UserDisks : UserFile(d) \in File
  BY BoundAssumption DEF UserFile, File
<1>7. \A d \in UserDisks : UserDisk(d) \in Disk
  BY <1>6 DEF UserDisk, Disk, DiskPhases
<1> QED
  BY <1>1, <1>2, <1>3, <1>4, <1>5, <1>6, <1>7

LEMMA InitTypes == Init => TypeInv
<1> SUFFICES ASSUME Init PROVE TypeInv
  OBVIOUS
<1> USE Values
<1>1. disk \in [Disks -> Disk]
  BY DEF Init
<1>2. obj \in [Machines -> Machine] /\ cobj \in [Machines -> Machine]
      /\ rd \in [Machines -> Machine] /\ mem \in [Machines -> Machine]
  BY DEF Init
<1>3. vm \in [VmIds -> Vm]
  BY BoundAssumption DEF Init, Vm, VmStates
<1>4. files \subseteq File /\ used \subseteq File
  BY DEF Init
<1>5. pc \in [Machines -> Labels]
  BY DEF Init, Labels
<1>6. file \in [Machines -> Attached] /\ got \in [Machines -> Report]
      /\ at \in [Machines -> 1 .. NumSlots + 1] /\ pick \in [Machines -> Disks \cup {NoDisk}]
  BY DEF Init
<1>7. PlacesOK
  BY DEF Init, PlacesOK
<1> QED
  BY <1>1, <1>2, <1>3, <1>4, <1>5, <1>6, <1>7, InitInv DEF TypeInv, TypeOK, Init

(* What a write of a disk keeps.                                           *)
LEMMA WriteTypes ==
    ASSUME TypeInv, NEW d \in Disks, NEW new \in Disk, WriteDisk(d, new)
    PROVE  /\ disk' \in [Disks -> Disk] /\ cdisk' \in [Disks -> Disk] /\ cobj' \in [Machines -> Machine]
           /\ fresh' \subseteq Disks /\ current' \subseteq Machines
  BY DEF TypeInv, TypeOK, WriteDisk

LEMMA DiskFields ==
    ASSUME NEW o \in Disk
    PROVE  /\ o.phase \in DiskPhases /\ o.refs \in SUBSET (Machines \cup {ThePool})
           /\ o.file \in File \cup {NoFile}
           /\ \A f \in File \cup {NoFile} : [o EXCEPT !.file = f] \in Disk
           /\ \A R \in SUBSET (Machines \cup {ThePool}) : [o EXCEPT !.refs = R] \in Disk
           /\ Condemned(o) \in Disk
           /\ \A m \in Machines : Claimed(m, o) \in Disk
<1>1. /\ o.phase \in DiskPhases /\ o.refs \in SUBSET (Machines \cup {ThePool})
      /\ o.file \in File \cup {NoFile}
      /\ \A f \in File \cup {NoFile} : [o EXCEPT !.file = f] \in Disk
      /\ \A R \in SUBSET (Machines \cup {ThePool}) : [o EXCEPT !.refs = R] \in Disk
  BY DEF Disk
<1>2. Condemned(o) \in Disk
  <2>1. [o EXCEPT !.phase = "deleting"] \in Disk
    BY DEF Disk, DiskPhases
  <2> QED
    BY <2>1, Values DEF Condemned
<1>3. ASSUME NEW m \in Machines PROVE Claimed(m, o) \in Disk
  <2>1. (IF o.phase = "loose" THEN "live" ELSE o.phase) \in DiskPhases
    BY <1>1 DEF DiskPhases
  <2>2. o.refs \cup {m} \in SUBSET (Machines \cup {ThePool})
    BY <1>1
  <2> QED
    BY <1>1, <2>1, <2>2 DEF Claimed, Disk
<1> QED
  BY <1>1, <1>2, <1>3

(* A reconcile that returns, or goes on to another call.                   *)
LEMMA ReturnTypes ==
    ASSUME TypeInv, NEW m \in Machines, NEW again, Return(m, again)
    PROVE  /\ pc' \in [Machines -> Labels]
           /\ rd' \in [Machines -> Machine] /\ mem' \in [Machines -> Machine]
           /\ file' \in [Machines -> Attached] /\ got' \in [Machines -> Report]
           /\ at' \in [Machines -> 1 .. NumSlots + 1] /\ pick' \in [Machines -> Disks \cup {NoDisk}]
           /\ queued' \subseteq Machines
           /\ PlacesOK'
<1>1. /\ pc' \in [Machines -> Labels]
      /\ rd' \in [Machines -> Machine] /\ mem' \in [Machines -> Machine]
      /\ file' \in [Machines -> Attached] /\ got' \in [Machines -> Report]
      /\ at' \in [Machines -> 1 .. NumSlots + 1] /\ pick' \in [Machines -> Disks \cup {NoDisk}]
      /\ queued' \subseteq Machines
  BY Values DEF TypeInv, TypeOK, Return, Labels
<1>2. PlacesOK'
  <2> SUFFICES ASSUME NEW n \in Machines
               PROVE  /\ pc'[n] \in {"idle", "finalizer", "claim", "update", "new", "detach"} => at'[n] \in Slots
                      /\ pc'[n] \in {"note", "expand", "start", "done"} => mem'[n].id # NoVm
    BY DEF PlacesOK
  <2>1. CASE n = m
    BY <2>1, Values DEF TypeInv, TypeOK, Return
  <2>2. CASE n # m
    <3>1. pc'[n] = pc[n] /\ at'[n] = at[n] /\ mem'[n] = mem[n]
      BY <2>2 DEF TypeInv, TypeOK, Return
    <3> QED
      BY <3>1 DEF TypeInv, PlacesOK
  <2> QED
    BY <2>1, <2>2
<1> QED
  BY <1>1, <1>2

LEMMA GotoTypes ==
    ASSUME TypeInv, NEW m \in Machines, NEW label \in Labels, Goto(m, label),
           DOMAIN at' = Machines, DOMAIN mem' = Machines,
           \A n \in Machines \ {m} : at'[n] = at[n] /\ mem'[n] = mem[n],
           label \in {"idle", "finalizer", "claim", "update", "new", "detach"} => at'[m] \in Slots,
           label \in {"note", "expand", "start", "done"} => mem'[m].id # NoVm
    PROVE  pc' \in [Machines -> Labels] /\ PlacesOK'
<1>1. pc' \in [Machines -> Labels]
  BY DEF TypeInv, TypeOK, Goto
<1>2. pc'[m] = label /\ \A n \in Machines \ {m} : pc'[n] = pc[n]
  BY DEF TypeInv, TypeOK, Goto
<1> QED
  BY <1>1, <1>2 DEF TypeInv, PlacesOK

(* The types of what a step of a machine's reconcile writes.               *)
LEMMA MachineFields ==
    ASSUME NEW o \in Machine
    PROVE  /\ o.phase \in Phases /\ o.id \in VmIds \cup {NoVm}
           /\ o.disk \in [Slots -> Disks \cup {NoDisk}]
           /\ \A p \in Phases : [o EXCEPT !.phase = p] \in Machine
           /\ \A v \in VmIds \cup {NoVm} : [o EXCEPT !.id = v] \in Machine
           /\ \A s \in 1 .. NumSlots + 1, d \in Disks \cup {NoDisk} : [o EXCEPT !.disk[s] = d] \in Machine
  BY DEF Machine

LEMMA PatchTypes ==
    ASSUME TypeInv, NEW m \in Machines
    PROVE  /\ Patched(m) \in Machine
           /\ \A new \in Machine : Patch(m, new) => obj' \in [Machines -> Machine] /\ disk' = disk
           /\ PatchFails(m) => obj' = obj /\ disk' = disk
<1>1. obj[m] \in Machine /\ mem[m] \in Machine /\ rd[m] \in Machine
  BY DEF TypeInv, TypeOK
<1> DEFINE v == IF mem[m].id # rd[m].id THEN mem[m].id ELSE obj[m].id
           D == IF mem[m].disk # rd[m].disk THEN mem[m].disk ELSE obj[m].disk
<1>2. v \in VmIds \cup {NoVm} /\ D \in [Slots -> Disks \cup {NoDisk}]
  BY <1>1, MachineFields
<1>3. Patched(m) = [obj[m] EXCEPT !.id = v, !.disk = D]
  BY DEF Patched
<1> HIDE DEF v, D
<1>4. Patched(m) \in Machine
  <2>1. [obj[m] EXCEPT !.id = v, !.disk = D] \in Machine
    BY <1>1, <1>2 DEF Machine
  <2> QED
    BY <1>3, <2>1
<1> QED
  BY <1>4 DEF Patch, PatchFails, apiVars, TypeInv, TypeOK

LEMMA AssignTypes ==
    ASSUME TypeInv, NEW m \in Machines, NEW d \in Disks, NEW f \in File \cup {NoFile}, Assign(m, d, f)
    PROVE  /\ mem' \in [Machines -> Machine] /\ file' \in [Machines -> Attached]
           /\ \A n \in Machines \ {m} : mem'[n] = mem[n]
<1>1. mem[m] \in Machine /\ at[m] \in 1 .. NumSlots + 1 /\ file[m] \in Attached
  BY DEF TypeInv, TypeOK
<1>2. [mem[m] EXCEPT !.disk[at[m]] = d] \in Machine
  BY <1>1, MachineFields
<1>3. [file[m] EXCEPT ![at[m]] = f] \in Attached
  BY <1>1 DEF Attached
<1> QED
  BY <1>2, <1>3 DEF TypeInv, TypeOK, Assign

LEMMA NextSlotTypes ==
    ASSUME TypeInv, NEW m \in Machines, pc[m] \in Claiming, NextSlot(m),
           mem' \in [Machines -> Machine], \A n \in Machines \ {m} : mem'[n] = mem[n]
    PROVE  /\ pc' \in [Machines -> Labels] /\ PlacesOK'
           /\ at' \in [Machines -> 1 .. NumSlots + 1]
<1>1. at[m] \in Slots /\ at[m] \in Nat
  BY Values DEF TypeInv, PlacesOK, Claiming
<1>2. at' \in [Machines -> 1 .. NumSlots + 1] /\ at'[m] \in Slots
      /\ \A n \in Machines \ {m} : at'[n] = at[n]
  BY <1>1, BoundAssumption DEF TypeInv, TypeOK, NextSlot, Slots
<1>3. PICK label \in {"get", "claim"} : Goto(m, label)
  BY DEF NextSlot
<1> QED
  BY <1>2, <1>3, GotoTypes DEF Labels

LEMMA OnTypes ==
    ASSUME TypeInv, NEW v \in VmIds
    PROVE  On(v) \subseteq File /\ vm[v] \in Vm /\ \A s \in Slots : vm[v].disk[s] \in File \cup {NoFile}
  BY DEF TypeInv, TypeOK, On, Vm, Attached

ScvmmTypeOK == vm \in [VmIds -> Vm] /\ files \subseteq File /\ used \subseteq File

LEMMA VmFields ==
    ASSUME NEW o \in Vm
    PROVE  /\ o.st \in VmStates /\ o.disk \in Attached /\ o.out \in 0 .. NumSlots
           /\ \A st \in VmStates : [o EXCEPT !.st = st] \in Vm
           /\ \A s \in Slots : [o EXCEPT !.st = "updating", !.out = s] \in Vm
           /\ \A s \in Slots, f \in File \cup {NoFile} : [o EXCEPT !.disk[s] = f] \in Vm
           /\ \A s \in 0 .. NumSlots : \A f \in File \cup {NoFile} : [o.disk EXCEPT ![s] = f] \in Attached
           /\ \A st \in VmStates, D \in Attached : [st |-> st, disk |-> D, out |-> 0] \in Vm
<1>1. Slots \subseteq 0 .. NumSlots /\ 0 \in 0 .. NumSlots
  BY BoundAssumption DEF Slots
<1>2. /\ o.st \in VmStates /\ o.disk \in Attached /\ o.out \in 0 .. NumSlots
      /\ \A st \in VmStates : [o EXCEPT !.st = st] \in Vm
      /\ \A st \in VmStates, D \in Attached : [st |-> st, disk |-> D, out |-> 0] \in Vm
  BY <1>1 DEF Vm
<1>3. \A s \in Slots : [o EXCEPT !.st = "updating", !.out = s] \in Vm
  BY <1>1 DEF Vm, VmStates
<1>4. \A s \in 0 .. NumSlots : \A f \in File \cup {NoFile} : [o.disk EXCEPT ![s] = f] \in Attached
  BY <1>2 DEF Attached
<1>5. \A s \in Slots, f \in File \cup {NoFile} : [o EXCEPT !.disk[s] = f] \in Vm
  BY <1>2 DEF Vm, Attached
<1> QED
  BY <1>2, <1>3, <1>4, <1>5

LEMMA ScriptTypes ==
    ASSUME TypeInv, NEW m \in Machines
    PROVE  /\ \A v \in VmIds : CreateVM(v, m) => ScvmmTypeOK'
           /\ \A v \in VmIds : ExpandVMDisks(v, m) => ScvmmTypeOK'
           /\ \A v \in VmIds : StartVM(v) => ScvmmTypeOK'
           /\ \A v \in VmIds \cup {NoVm}, s \in Slots : RemoveDiskFromVM(v, s) => ScvmmTypeOK'
           /\ \A v \in VmIds : RemoveVM(v) => ScvmmTypeOK'
           /\ UNCHANGED scvmmVars => ScvmmTypeOK'
<1> USE DEF ScvmmTypeOK
<1>1. vm \in [VmIds -> Vm] /\ files \subseteq File /\ used \subseteq File
      /\ mem[m] \in Machine /\ file[m] \in Attached
  BY DEF TypeInv, TypeOK
<1>2. ASSUME NEW v \in VmIds, CreateVM(v, m) PROVE ScvmmTypeOK'
  <2> DEFINE D == [s \in Slots |-> IF mem[m].disk[s] # NoDisk /\ file[m][s] = NoFile
                                   THEN [of |-> mem[m].disk[s], by |-> v] ELSE NoFile]
  <2>1. \A s \in Slots : mem[m].disk[s] # NoDisk => [of |-> mem[m].disk[s], by |-> v] \in File
    BY <1>1 DEF Machine, File
  <2>2. D \in Attached
    BY <2>1 DEF Attached
  <2>3. [st |-> "preparing", out |-> 0, disk |-> D] \in Vm
    BY <2>2, BoundAssumption DEF Vm, VmStates
  <2> QED
    BY <1>1, <1>2, <2>3 DEF CreateVM
<1>3. ASSUME NEW v \in VmIds, ExpandVMDisks(v, m) PROVE ScvmmTypeOK'
  <2> DEFINE s == FirstFree(v)
             f == IF file[m][s] = NoFile THEN [of |-> mem[m].disk[s], by |-> v] ELSE file[m][s]
  <2>1. CASE UNCHANGED scvmmVars
    BY <1>1, <2>1 DEF scvmmVars
  <2>2. CASE /\ \E r \in Slots : vm[v].disk[r] = NoFile
             /\ mem[m].disk[s] # NoDisk
             /\ vm' = [vm EXCEPT ![v].disk[s] = f]
             /\ files' = files \cup {f}
             /\ used' = IF vm[v].st = "running" THEN used \cup {f} ELSE used
    <3>1. s \in Slots
      BY <2>2, FirstFreeIs
    <3>2. f \in File
      BY <1>1, <2>2, <3>1 DEF Machine, File, Attached
    <3> HIDE DEF s, f
    <3>3. [vm[v] EXCEPT !.disk[s] = f] \in Vm
      BY <1>1, <3>1, <3>2, VmFields
    <3> QED
      BY <1>1, <2>2, <3>2, <3>3
  <2> QED
    BY <1>3, <2>1, <2>2 DEF ExpandVMDisks, FirstFree
<1>4. ASSUME NEW v \in VmIds, StartVM(v) PROVE ScvmmTypeOK'
  <2>1. [vm[v] EXCEPT !.st = "running"] \in Vm /\ On(v) \subseteq File
    BY <1>1, VmFields, OnTypes DEF VmStates
  <2> QED
    BY <1>1, <1>4, <2>1 DEF StartVM, scvmmVars
<1>5. ASSUME NEW v \in VmIds \cup {NoVm}, NEW s \in Slots, RemoveDiskFromVM(v, s) PROVE ScvmmTypeOK'
  <2>1. CASE v \in VmIds
    <3>1. [vm[v] EXCEPT !.st = "updating", !.out = s] \in Vm /\ [vm[v] EXCEPT !.st = "stopping"] \in Vm
      BY <1>1, <2>1, VmFields DEF VmStates
    <3> QED
      BY <1>1, <1>5, <2>1, <3>1 DEF RemoveDiskFromVM
  <2>2. CASE v = NoVm
    <3>1. vm' = vm
      BY <1>1, <1>5, <2>2, NullAssumption DEF RemoveDiskFromVM
    <3> QED
      BY <1>1, <1>5, <3>1 DEF RemoveDiskFromVM
  <2> QED
    BY <2>1, <2>2
<1>6. ASSUME NEW v \in VmIds, RemoveVM(v) PROVE ScvmmTypeOK'
  <2>1. [vm[v] EXCEPT !.st = "removing"] \in Vm /\ [vm[v] EXCEPT !.st = "stopping"] \in Vm
    BY <1>1, VmFields DEF VmStates
  <2> QED
    BY <1>1, <1>6, <2>1 DEF RemoveVM
<1>7. UNCHANGED scvmmVars => ScvmmTypeOK'
  BY <1>1 DEF scvmmVars
<1> QED
  BY <1>2, <1>3, <1>4, <1>5, <1>6, <1>7

(* Every action keeps the types.                                           *)
LEMMA EnvironmentTypes ==
    ASSUME TypeInv, DisksInv',
           \/ \E m \in Machines : CreateMachine(m) \/ DeleteMachine(m) \/ SyncMachine(m)
           \/ \E d \in Disks : SyncDisk(d) \/ CollectGarbage(d) \/ AdminDeletesDisk(d) \/ ReconcileDisk(d)
           \/ \E v \in VmIds : VmTaskDone(v)
           \/ Crash
           \/ UNCHANGED vars
    PROVE  TypeInv'
<1>1. ASSUME NEW m \in Machines, CreateMachine(m) \/ DeleteMachine(m) \/ SyncMachine(m) PROVE TypeInv'
  <2>1. obj' \in [Machines -> Machine]
    <3>1. /\ [obj[m] EXCEPT !.phase = "new"] \in Machine /\ [obj[m] EXCEPT !.phase = "gone"] \in Machine
          /\ [obj[m] EXCEPT !.phase = "deleting"] \in Machine
      BY MachineFields DEF TypeInv, TypeOK, Phases
    <3> QED
      BY <1>1, <3>1 DEF TypeInv, TypeOK, CreateMachine, DeleteMachine, SyncMachine, apiVars
  <2>2. cobj' \in [Machines -> Machine] /\ queued' \subseteq Machines
    BY <1>1 DEF TypeInv, TypeOK, CreateMachine, DeleteMachine, SyncMachine, cacheVars
  <2> QED
    BY <1>1, <2>1, <2>2
    DEF TypeInv, TypeOK, PlacesOK, CreateMachine, DeleteMachine, SyncMachine, apiVars, cacheVars,
        scvmmVars, workVars
<1>2. ASSUME NEW d \in Disks, SyncDisk(d) PROVE TypeInv'
  BY <1>2 DEF TypeInv, TypeOK, PlacesOK, SyncDisk, apiVars, scvmmVars, workVars
<1>3. ASSUME NEW d \in Disks, CollectGarbage(d) \/ AdminDeletesDisk(d) \/ ForgetDisk(d) PROVE TypeInv'
  <2>1. PICK new \in Disk : WriteDisk(d, new)
    <3>1. disk[d] \in Disk
      BY DEF TypeInv, TypeOK
    <3>2. [disk[d] EXCEPT !.refs = @ \ Dangling(d)] \in Disk
      BY <3>1, DiskFields
    <3> QED
      BY <1>3, <3>1, <3>2, DiskFields, Values DEF CollectGarbage, AdminDeletesDisk, ForgetDisk
  <2> QED
    BY <1>3, <2>1, WriteTypes
    DEF TypeInv, TypeOK, PlacesOK, CollectGarbage, AdminDeletesDisk, ForgetDisk, scvmmVars
<1>4. ASSUME NEW d \in Disks, RemovePersistentDisk(d) PROVE TypeInv'
  BY <1>4 DEF TypeInv, TypeOK, PlacesOK, RemovePersistentDisk, apiVars, cacheVars, workVars
<1>5. ASSUME NEW v \in VmIds, VmTaskDone(v) PROVE TypeInv'
  <2>1. vm[v] \in Vm /\ On(v) \subseteq File /\ NoFiles \in Attached
    BY OnTypes, Values
  <2>2. [vm[v].disk EXCEPT ![vm[v].out] = NoFile] \in Attached
    BY <2>1, VmFields
  <2>3. PICK new \in Vm : vm' = [vm EXCEPT ![v] = new]
    <3>1. /\ [st |-> "removed", disk |-> NoFiles, out |-> 0] \in Vm
          /\ [st |-> "off", disk |-> [vm[v].disk EXCEPT ![vm[v].out] = NoFile], out |-> 0] \in Vm
          /\ [vm[v] EXCEPT !.st = "creating"] \in Vm /\ [vm[v] EXCEPT !.st = "off"] \in Vm
      BY <2>1, <2>2, VmFields DEF VmStates
    <3> QED
      BY <1>5, <3>1 DEF VmTaskDone
  <2>4. files' \subseteq File
    BY <1>5, <2>1 DEF VmTaskDone, TypeInv, TypeOK
  <2>5. ScvmmTypeOK'
    BY <1>5, <2>3, <2>4 DEF VmTaskDone, ScvmmTypeOK, TypeInv, TypeOK
  <2> QED
    BY <1>5, <2>5 DEF TypeInv, TypeOK, PlacesOK, ScvmmTypeOK, VmTaskDone, apiVars, cacheVars, workVars
<1>6. ASSUME Crash PROVE TypeInv'
  <2>1. /\ pc' \in [Machines -> Labels] /\ rd' \in [Machines -> Machine] /\ mem' \in [Machines -> Machine]
        /\ file' \in [Machines -> Attached] /\ got' \in [Machines -> Report]
        /\ at' \in [Machines -> 1 .. NumSlots + 1] /\ pick' \in [Machines -> Disks \cup {NoDisk}]
    BY <1>6, Values DEF Crash, Labels
  <2>2. PlacesOK'
    BY <1>6, Values DEF Crash, PlacesOK
  <2> QED
    BY <1>6, <2>1, <2>2 DEF TypeInv, TypeOK, Crash, apiVars, scvmmVars
<1>7. ASSUME UNCHANGED vars PROVE TypeInv'
  BY <1>7 DEF TypeInv, TypeOK, PlacesOK, vars, apiVars, cacheVars, scvmmVars, workVars
<1> QED
  BY <1>1, <1>2, <1>3, <1>4, <1>5, <1>6, <1>7 DEF ReconcileDisk

LEMMA SameTypes ==
    ASSUME TypeInv, UNCHANGED <<pc, at, mem>>
    PROVE  PlacesOK'
  BY DEF TypeInv, PlacesOK

(* The steps of a reconcile that end it or go on with nothing new.         *)
LEMMA ReadingTypes ==
    ASSUME TypeInv, NEW m \in Machines,
           \/ Begin(m) \/ AddFinalizer(m) \/ PatchReason(m) \/ GetVM(m) \/ GetVMInfo(m)
           \/ LookAtVM(m) \/ SendRemoveVM(m) \/ RemoveFinalizer(m)
    PROVE  TypeOK' /\ PlacesOK'
<1>0. obj[m] \in Machine /\ mem[m] \in Machine /\ rd[m] \in Machine /\ cobj[m] \in Machine
      /\ DOMAIN mem = Machines /\ DOMAIN at = Machines
  BY DEF TypeInv, TypeOK
<1>1. CASE Begin(m)
  <2>1. \/ UNCHANGED <<pc, rd, mem>>
        \/ /\ rd' = [rd EXCEPT ![m] = cobj[m]] /\ mem' = [mem EXCEPT ![m] = cobj[m]]
           /\ \E label \in {"finalizer", "claim", "unfinalize", "remove", "look"} : Goto(m, label)
    BY <1>1 DEF Begin
  <2>2. UNCHANGED at /\ pc[m] = "idle"
    BY <1>1 DEF Begin
  <2>3. CASE UNCHANGED <<pc, rd, mem>>
    BY <1>1, <2>2, <2>3, SameTypes
    DEF Begin, TypeInv, TypeOK, apiVars, cacheVars, scvmmVars
  <2>4. ASSUME NEW label \in {"finalizer", "claim", "unfinalize", "remove", "look"}, Goto(m, label),
               rd' = [rd EXCEPT ![m] = cobj[m]], mem' = [mem EXCEPT ![m] = cobj[m]]
        PROVE  TypeOK' /\ PlacesOK'
    <3>1. rd' \in [Machines -> Machine] /\ mem' \in [Machines -> Machine]
      BY <1>0, <2>4 DEF TypeInv, TypeOK
    <3>2. at[m] \in Slots
      BY <2>2 DEF TypeInv, PlacesOK
    <3>3. \A n \in Machines \ {m} : mem'[n] = mem[n]
      BY <1>0, <2>4
    <3>4. pc' \in [Machines -> Labels] /\ PlacesOK'
      BY <1>0, <2>2, <2>4, <3>1, <3>2, <3>3, GotoTypes DEF Labels
    <3> QED
      BY <1>1, <3>1, <3>4 DEF Begin, TypeInv, TypeOK, apiVars, cacheVars, scvmmVars
  <2> QED
    BY <2>1, <2>3, <2>4
<1>2. ASSUME NEW again, Return(m, again), obj' \in [Machines -> Machine],
             UNCHANGED <<disk, cacheVars, current>>, ScvmmTypeOK'
      PROVE  TypeOK' /\ PlacesOK'
  BY <1>2, ReturnTypes DEF TypeInv, TypeOK, cacheVars, ScvmmTypeOK
<1>3. ASSUME NEW label \in Labels \ {"idle", "detach", "claim", "update", "new", "finalizer"}, Goto(m, label),
             UNCHANGED <<apiVars, cacheVars, scvmmVars, rd, mem, file, at, pick, current, queued>>,
             got' \in [Machines -> Report],
             label \in {"note", "expand", "start", "done"} => mem[m].id # NoVm
      PROVE  TypeOK' /\ PlacesOK'
  <2>1. pc' \in [Machines -> Labels] /\ PlacesOK'
    BY <1>0, <1>3, GotoTypes
  <2> QED
    BY <1>3, <2>1 DEF TypeInv, TypeOK, apiVars, cacheVars, scvmmVars
<1>4. \A p \in Phases :
          Patch(m, [obj[m] EXCEPT !.phase = p]) => obj' \in [Machines -> Machine] /\ disk' = disk
  BY <1>0, PatchTypes, MachineFields
<1>5. Patch(m, Patched(m)) \/ PatchFails(m) => obj' \in [Machines -> Machine] /\ disk' = disk
  BY PatchTypes DEF TypeInv, TypeOK
<1>6. UNCHANGED scvmmVars => ScvmmTypeOK'
  BY ScriptTypes
<1>7. Reported(mem[m].id) \in Report
  <2>1. CASE Exists(mem[m].id)
    <3>1. vm[mem[m].id] \in Vm
      BY <2>1 DEF Exists, TypeInv, TypeOK
    <3> QED
      BY <2>1, <3>1, VmFields, Values DEF Reported, Report
  <2>2. CASE ~ Exists(mem[m].id)
    BY <2>2, Values DEF Reported
  <2> QED
    BY <2>1, <2>2
<1>8. CASE AddFinalizer(m)
  <2>1. CASE Patch(m, [obj[m] EXCEPT !.phase = IF @ = "new" THEN "live" ELSE @])
             /\ Goto(m, "claim") /\ UNCHANGED <<rd, mem, file, at, pick, got, queued>>
    <3>1. at[m] \in Slots
      BY <1>8 DEF TypeInv, PlacesOK, AddFinalizer
    <3>2. pc' \in [Machines -> Labels] /\ PlacesOK'
      BY <1>0, <2>1, <3>1, GotoTypes DEF Labels
    <3>3. PICK p \in Phases :
             [obj[m] EXCEPT !.phase = IF @ = "new" THEN "live" ELSE @] = [obj[m] EXCEPT !.phase = p]
      <4>1. obj[m].phase \in Phases /\ "live" \in Phases
        BY <1>0, MachineFields DEF Phases
      <4>2. CASE obj[m].phase = "new"
        BY <4>1, <4>2
      <4>3. CASE obj[m].phase # "new"
        BY <4>1, <4>3
      <4> QED
        BY <4>2, <4>3
    <3> QED
      BY <1>4, <1>8, <2>1, <3>2, <3>3 DEF AddFinalizer, TypeInv, TypeOK, cacheVars, scvmmVars
  <2>2. CASE PatchFails(m) /\ Return(m, TRUE)
    BY <1>2, <1>6, <1>8, <2>2, PatchTypes DEF AddFinalizer, TypeInv, TypeOK
  <2> QED
    BY <1>8, <2>1, <2>2 DEF AddFinalizer
<1>9. CASE PatchReason(m)
  BY <1>2, <1>5, <1>6, <1>9 DEF PatchReason
<1>10. CASE GetVM(m)
  <2>1. CASE Return(m, TRUE)
    BY <1>2, <1>6, <1>10, <2>1 DEF GetVM, TypeInv, TypeOK, apiVars
  <2>2. CASE Goto(m, "create") /\ UNCHANGED <<rd, mem, file, at, pick, got, queued>>
    BY <1>3, <1>10, <2>2 DEF GetVM, TypeInv, TypeOK, Labels
  <2>3. CASE Exists(mem[m].id) /\ got' = [got EXCEPT ![m] = Reported(mem[m].id)]
             /\ Goto(m, "note") /\ UNCHANGED <<rd, mem, file, at, pick, queued>>
    <3>1. mem[m].id # NoVm
      BY <2>3, NullAssumption DEF Exists
    <3>2. got' \in [Machines -> Report]
      BY <1>7, <2>3 DEF TypeInv, TypeOK
    <3> QED
      BY <1>3, <1>10, <2>3, <3>1, <3>2 DEF GetVM, Labels
  <2> QED
    BY <1>10, <2>1, <2>2, <2>3 DEF GetVM
<1>11. CASE GetVMInfo(m)
  BY <1>2, <1>5, <1>6, <1>11 DEF GetVMInfo
<1>12. CASE LookAtVM(m)
  <2>1. CASE Return(m, TRUE)
    BY <1>2, <1>6, <1>12, <2>1 DEF LookAtVM, TypeInv, TypeOK, apiVars
  <2>2. CASE got' = [got EXCEPT ![m] = Reported(mem[m].id)]
             /\ Goto(m, "giveback") /\ UNCHANGED <<rd, mem, file, at, pick, queued>>
    <3>1. got' \in [Machines -> Report]
      BY <1>7, <2>2 DEF TypeInv, TypeOK
    <3> QED
      BY <1>3, <1>12, <2>2, <3>1 DEF LookAtVM, Labels
  <2> QED
    BY <1>12, <2>1, <2>2 DEF LookAtVM
<1>13. CASE SendRemoveVM(m)
  <2>1. CASE Goto(m, "unfinalize") /\ UNCHANGED <<scvmmVars, rd, mem, file, at, pick, got, queued>>
    BY <1>3, <1>13, <2>1 DEF SendRemoveVM, TypeInv, TypeOK, Labels
  <2>2. CASE (UNCHANGED scvmmVars \/ (Exists(mem[m].id) /\ RemoveVM(mem[m].id))) /\ Return(m, TRUE)
    <3>1. ScvmmTypeOK'
      BY <2>2, ScriptTypes DEF Exists
    <3> QED
      BY <1>2, <1>13, <2>2, <3>1 DEF SendRemoveVM, TypeInv, TypeOK, apiVars
  <2> QED
    BY <1>13, <2>1, <2>2 DEF SendRemoveVM
<1>14. CASE RemoveFinalizer(m)
  <2>1. obj' \in [Machines -> Machine] /\ disk' = disk
    BY <1>4, <1>14, PatchTypes DEF RemoveFinalizer, TypeInv, TypeOK, Phases
  <2>2. PICK again \in BOOLEAN : Return(m, again)
    BY <1>14 DEF RemoveFinalizer
  <2> QED
    BY <1>2, <1>6, <1>14, <2>1, <2>2 DEF RemoveFinalizer
<1> QED
  BY <1>1, <1>8, <1>9, <1>10, <1>11, <1>12, <1>13, <1>14

(* The steps that claim disks.                                             *)
LEMMA ClaimingTypes ==
    ASSUME TypeInv, NEW m \in Machines, ClaimDisk(m) \/ UpdateClaim(m) \/ CreateClaim(m)
    PROVE  TypeOK' /\ PlacesOK'
<1>0. /\ pc[m] \in Claiming /\ at[m] \in Slots /\ at[m] \in 1 .. NumSlots + 1
      /\ obj[m] \in Machine /\ mem[m] \in Machine /\ file[m] \in Attached
      /\ DOMAIN mem = Machines /\ DOMAIN at = Machines
      /\ mem[m].disk[at[m]] \in Disks \cup {NoDisk}
  BY Values DEF ClaimDisk, UpdateClaim, CreateClaim, Claiming, TypeInv, TypeOK, PlacesOK, Machine
<1> DEFINE Rest == /\ UNCHANGED <<obj, scvmmVars, rd, got, queued>>
                   /\ disk' \in [Disks -> Disk] /\ cdisk' \in [Disks -> Disk]
                   /\ cobj' \in [Machines -> Machine]
                   /\ fresh' \subseteq Disks /\ current' \subseteq Machines
                   /\ pick' \in [Machines -> Disks \cup {NoDisk}]
<1>1. ASSUME Rest, NEW d \in Disks, NEW f \in File \cup {NoFile}, Assign(m, d, f), NextSlot(m)
      PROVE  TypeOK' /\ PlacesOK'
  BY <1>0, <1>1, AssignTypes, NextSlotTypes DEF TypeInv, TypeOK, scvmmVars
<1>2. ASSUME Rest, UNCHANGED <<mem, file>>, NextSlot(m)
      PROVE  TypeOK' /\ PlacesOK'
  <2>1. mem' \in [Machines -> Machine] /\ \A n \in Machines \ {m} : mem'[n] = mem[n]
    BY <1>2 DEF TypeInv, TypeOK
  <2> QED
    BY <1>0, <1>2, <2>1, NextSlotTypes DEF TypeInv, TypeOK, scvmmVars
<1>3. ASSUME Rest, UNCHANGED <<mem, file, at>>,
             NEW label \in {"patch", "update", "new"}, Goto(m, label)
      PROVE  TypeOK' /\ PlacesOK'
  <2>1. pc' \in [Machines -> Labels] /\ PlacesOK'
    BY <1>0, <1>3, GotoTypes DEF Labels
  <2> QED
    BY <1>3, <2>1 DEF TypeInv, TypeOK, scvmmVars
<1>4. ASSUME UNCHANGED <<disk, cacheVars, obj, scvmmVars, rd, got, queued>>,
             current' \subseteq Machines, pick' \in [Machines -> Disks \cup {NoDisk}]
      PROVE  Rest
  BY <1>4 DEF TypeInv, TypeOK, cacheVars
<1>5. ASSUME NEW d \in Disks, NEW new \in Disk, WriteDisk(d, new),
             UNCHANGED <<obj, scvmmVars, rd, pick, got, queued>>
      PROVE  Rest
  BY <1>5, WriteTypes DEF TypeInv, TypeOK
<1> HIDE DEF Rest
<1>6. CASE ClaimDisk(m)
  <2> DEFINE d == mem[m].disk[at[m]]
  <2>0. UNCHANGED <<disk, cacheVars, obj, scvmmVars, rd, got, queued>> /\ current \subseteq Machines
        /\ pick \in [Machines -> Disks \cup {NoDisk}]
    BY <1>6 DEF ClaimDisk, apiVars, TypeInv, TypeOK
  <2>1. CASE /\ d # NoDisk
             /\ Assign(m, d, cdisk[d].file) /\ NextSlot(m) /\ UNCHANGED <<pick, current>>
    <3>1. d \in Disks /\ cdisk[d] \in Disk
      BY <1>0, <2>1 DEF TypeInv, TypeOK
    <3>2. cdisk[d].file \in File \cup {NoFile}
      BY <3>1, DiskFields
    <3> QED
      BY <1>1, <1>4, <2>0, <2>1, <3>1, <3>2
  <2>2. CASE Goto(m, "patch") /\ UNCHANGED <<mem, file, at, pick, current>>
    BY <1>3, <1>4, <2>0, <2>2
  <2>3. ASSUME NEW e \in Disks, pick' = [pick EXCEPT ![m] = e], current' \subseteq Machines,
               NEW label \in {"update", "new"}, Goto(m, label), UNCHANGED <<mem, file, at>>
        PROVE  TypeOK' /\ PlacesOK'
    <3>1. pick' \in [Machines -> Disks \cup {NoDisk}]
      BY <2>0, <2>3
    <3> QED
      BY <1>3, <1>4, <2>0, <2>3, <3>1
  <2>4. CASE NextSlot(m) /\ UNCHANGED <<mem, file, pick, current>>
    BY <1>2, <1>4, <2>0, <2>4
  <2>5. Eligible(m) \subseteq Disks
    BY DEF Eligible
  <2>6. \A e : (IF e \in fresh THEN current \cup {m} ELSE current \ {m}) \subseteq Machines
    BY <2>0
  <2>7. \/ /\ d # NoDisk
           /\ Assign(m, d, cdisk[d].file) /\ NextSlot(m) /\ UNCHANGED <<pick, current>>
        \/ Goto(m, "patch") /\ UNCHANGED <<mem, file, at, pick, current>>
        \/ \E e \in Disks :
              /\ pick' = [pick EXCEPT ![m] = e] /\ current' \subseteq Machines
              /\ Goto(m, "update") \/ Goto(m, "new")
              /\ UNCHANGED <<mem, file, at>>
        \/ NextSlot(m) /\ UNCHANGED <<mem, file, pick, current>>
    BY <1>6, <2>0, <2>5, <2>6 DEF ClaimDisk
  <2> QED
    BY <2>1, <2>2, <2>3, <2>4, <2>7
<1>7. ASSUME NEW d \in Disks, d = pick[m], NEW f \in File \cup {NoFile}, NEW new \in Disk,
             UNCHANGED <<obj, scvmmVars, rd, pick, got, queued>>,
             \/ WriteDisk(d, new) /\ Assign(m, d, f) /\ NextSlot(m)
             \/ WriteDisk(d, new) /\ Goto(m, "patch") /\ UNCHANGED <<mem, file, at>>
             \/ Goto(m, "patch") /\ UNCHANGED <<disk, cacheVars, mem, file, at, current>>
      PROVE  TypeOK' /\ PlacesOK'
  <2>1. Rest
    BY <1>4, <1>5, <1>7 DEF TypeInv, TypeOK
  <2> QED
    BY <1>1, <1>3, <1>7, <2>1
<1>8. CASE UpdateClaim(m)
  <2>1. pick[m] \in Disks
    BY <1>8 DEF UpdateClaim, TypeInv, DisksInv, PickOK
  <2>2. disk[pick[m]] \in Disk
    BY <2>1 DEF TypeInv, TypeOK
  <2>3. disk[pick[m]].file \in File \cup {NoFile} /\ Claimed(m, disk[pick[m]]) \in Disk
    BY <2>2, DiskFields
  <2> QED
    BY <1>7, <1>8, <2>1, <2>3 DEF UpdateClaim
<1>9. CASE CreateClaim(m)
  <2>1. pick[m] \in Disks
    BY <1>9 DEF CreateClaim, TypeInv, DisksInv, PickOK
  <2>2. [phase |-> "live", refs |-> {m, ThePool}, file |-> NoFile] \in Disk
    BY DEF Disk, DiskPhases
  <2> QED
    BY <1>7, <1>9, <2>1, <2>2 DEF CreateClaim
<1> QED
  BY <1>6, <1>8, <1>9

(* The steps that work with the report and the VM.                         *)
LEMMA WorkingTypes ==
    ASSUME TypeInv, NEW m \in Machines,
           \/ NoteDisks(m) \/ GiveBack(m)
           \/ SendCreateVM(m) \/ ExpandDisks(m) \/ SendStartVM(m) \/ DetachDisk(m)
    PROVE  TypeOK' /\ PlacesOK'
<1>0. /\ obj[m] \in Machine /\ mem[m] \in Machine /\ file[m] \in Attached /\ got[m] \in Report
      /\ DOMAIN mem = Machines /\ DOMAIN at = Machines
      /\ \A s \in Slots : mem[m].disk[s] \in Disks \cup {NoDisk} /\ got[m].disk[s] \in File \cup {NoFile}
  BY DEF TypeInv, TypeOK, Machine, Report, Attached
<1>1. ASSUME UNCHANGED <<apiVars, cacheVars, rd, mem, file, at, pick, current, got, queued>>, ScvmmTypeOK',
             Goto(m, "patch")
      PROVE  TypeOK' /\ PlacesOK'
  <2>1. pc' \in [Machines -> Labels] /\ PlacesOK'
    BY <1>0, <1>1, GotoTypes DEF Labels
  <2> QED
    BY <1>1, <2>1 DEF TypeInv, TypeOK, ScvmmTypeOK, apiVars, cacheVars
<1>2. CASE ExpandDisks(m) \/ SendStartVM(m)
  <2>1. mem[m].id \in VmIds
    BY <1>0, <1>2 DEF ExpandDisks, SendStartVM, TypeInv, PlacesOK, Machine
  <2>2. ScvmmTypeOK'
    BY <1>2, <2>1, ScriptTypes DEF ExpandDisks, SendStartVM
  <2> QED
    BY <1>1, <1>2, <2>2 DEF ExpandDisks, SendStartVM, workVars
<1>3. CASE DetachDisk(m)
  <2>1. at[m] \in Slots /\ mem[m].id \in VmIds \cup {NoVm}
    BY <1>0, <1>3 DEF DetachDisk, TypeInv, PlacesOK, Machine
  <2>2. ScvmmTypeOK'
    BY <1>3, <2>1, ScriptTypes DEF DetachDisk
  <2> QED
    BY <1>1, <1>3, <2>2 DEF DetachDisk, workVars
<1>4. CASE SendCreateVM(m)
  <2>1. ScvmmTypeOK'
    BY <1>4, ScriptTypes DEF SendCreateVM, scvmmVars
  <2>2. mem' \in [Machines -> Machine] /\ \A n \in Machines \ {m} : mem'[n] = mem[n]
    <3>1. \A v \in VmIds : [mem[m] EXCEPT !.id = v] \in Machine
      BY <1>0, MachineFields
    <3> QED
      BY <1>4, <3>1 DEF SendCreateVM, TypeInv, TypeOK
  <2>3. pc' \in [Machines -> Labels] /\ PlacesOK'
    BY <1>0, <1>4, <2>2, GotoTypes DEF SendCreateVM, Labels
  <2> QED
    BY <1>4, <2>1, <2>2, <2>3 DEF SendCreateVM, TypeInv, TypeOK, ScvmmTypeOK, apiVars, cacheVars
<1> DEFINE Written2 == /\ disk' \in [Disks -> Disk] /\ cdisk' \in [Disks -> Disk]
                       /\ cobj' \in [Machines -> Machine]
                       /\ fresh' \subseteq Disks /\ current' \subseteq Machines
<1>5. ASSUME NEW d, NEW new \in Disk, UpdateDisk(m, d, new) PROVE Written2 /\ UNCHANGED obj
  BY <1>5, WriteTypes DEF UpdateDisk, TypeInv, TypeOK
<1>6. ASSUME UNCHANGED <<apiVars, cacheVars, current>> PROVE Written2 /\ UNCHANGED obj
  BY <1>6 DEF apiVars, cacheVars, TypeInv, TypeOK
<1>7. \A d \in fresh, f \in File \cup {NoFile} : [disk[d] EXCEPT !.file = f] \in Disk
  BY DiskFields DEF TypeInv, TypeOK
<1>8. \A d \in fresh : [disk[d] EXCEPT !.refs = @ \ {m}] \in Disk
  <2> SUFFICES ASSUME NEW d \in fresh PROVE [disk[d] EXCEPT !.refs = @ \ {m}] \in Disk
    OBVIOUS
  <2>1. disk[d] \in Disk
    BY DEF TypeInv, TypeOK
  <2> QED
    BY <2>1, DiskFields
<1> HIDE DEF Written2
<1>9. CASE NoteDisks(m)
  <2>1. CASE /\ Unnoted(m) = {} /\ UNCHANGED <<apiVars, cacheVars, current, at>>
             /\ \E label \in {"patch", "expand", "start", "done"} : Goto(m, label)
    <3>1. PICK label \in {"patch", "expand", "start", "done"} : Goto(m, label)
      BY <2>1
    <3>2. mem[m].id # NoVm /\ UNCHANGED mem
      BY <1>9 DEF NoteDisks, TypeInv, PlacesOK
    <3>3. pc' \in [Machines -> Labels] /\ PlacesOK'
      BY <1>0, <2>1, <3>1, <3>2, GotoTypes DEF Labels
    <3> QED
      BY <1>9, <2>1, <3>3 DEF NoteDisks, TypeInv, TypeOK, apiVars, cacheVars, scvmmVars
  <2>2. ASSUME NEW s \in Unnoted(m), UpdateDisk(m, mem[m].disk[s], [disk[mem[m].disk[s]] EXCEPT !.file = got[m].disk[s]]),
               at' = [at EXCEPT ![m] = s + 1], UNCHANGED pc
        PROVE  TypeOK' /\ PlacesOK'
    <3>1. s \in Slots /\ s + 1 \in 1 .. NumSlots + 1
      <4>1. at[m] \in 1 .. NumSlots + 1 /\ s \in at[m] .. NumSlots
        BY DEF TypeInv, TypeOK, Unnoted
      <4> QED
        BY <4>1, BoundAssumption DEF Slots
    <3>2. Written2 /\ UNCHANGED obj
      BY <1>0, <1>5, <1>7, <2>2, <3>1 DEF UpdateDisk
    <3>3. at' \in [Machines -> 1 .. NumSlots + 1]
      BY <2>2, <3>1 DEF TypeInv, TypeOK
    <3>4. PlacesOK'
      BY <1>9, <2>2 DEF NoteDisks, TypeInv, TypeOK, PlacesOK
    <3> QED
      BY <1>9, <2>2, <3>2, <3>3, <3>4 DEF Written2, NoteDisks, TypeInv, TypeOK, scvmmVars
  <2>3. CASE UNCHANGED <<apiVars, cacheVars, current, at>> /\ Goto(m, "patch")
    BY <1>1, <1>9, <2>3, ScriptTypes DEF NoteDisks
  <2>4. CASE \E s \in Unnoted(m) : UpdateDiskFails(m, mem[m].disk[s]) /\ Goto(m, "patch") /\ UNCHANGED at
    BY <2>3, <2>4 DEF UpdateDiskFails
  <2> QED
    BY <1>9, <2>1, <2>2, <2>4 DEF NoteDisks
<1>10. CASE GiveBack(m)
  <2> DEFINE todo == {s \in Slots : mem[m].disk[s] # NoDisk}
             s == Least(todo)
             d == mem[m].disk[s]
  <2>1. todo # {} => s \in Slots /\ d \in Disks
    <3>1. todo \subseteq Nat
      BY Values
    <3>2. todo # {} => s \in todo
      BY <3>1, LeastIn
    <3> QED
      BY <1>0, <3>2
  <2>2. CASE UNCHANGED <<apiVars, cacheVars, current, mem, at>> /\ Goto(m, "patch")
    BY <1>1, <1>10, <2>2, ScriptTypes DEF GiveBack
  <2>3. CASE /\ todo # {} /\ UpdateDisk(m, d, [disk[d] EXCEPT !.file = got[m].disk[s]])
             /\ at' = [at EXCEPT ![m] = s]
             /\ Goto(m, IF got[m].st \in {"off", "running"} THEN "detach" ELSE "patch")
             /\ UNCHANGED mem
    <3> HIDE DEF s, d
    <3>1. Written2 /\ UNCHANGED obj
      BY <1>0, <1>5, <1>7, <2>1, <2>3 DEF UpdateDisk
    <3>2. at' \in [Machines -> 1 .. NumSlots + 1] /\ at'[m] \in Slots
          /\ \A n \in Machines \ {m} : at'[n] = at[n]
      BY <2>1, <2>3, Values DEF TypeInv, TypeOK
    <3>3. pc' \in [Machines -> Labels] /\ PlacesOK'
      BY <1>0, <2>3, <3>2, GotoTypes DEF Labels
    <3> QED
      BY <1>10, <2>3, <3>1, <3>2, <3>3 DEF Written2, GiveBack, TypeInv, TypeOK, scvmmVars
  <2>4. CASE /\ todo # {} /\ UpdateDisk(m, d, [disk[d] EXCEPT !.refs = @ \ {m}])
             /\ mem' = [mem EXCEPT ![m].disk[s] = NoDisk]
             /\ UNCHANGED <<pc, at>>
    <3> HIDE DEF s, d
    <3>1. Written2 /\ UNCHANGED obj
      BY <1>0, <1>5, <1>8, <2>1, <2>4 DEF UpdateDisk
    <3>2. mem' \in [Machines -> Machine]
      <4>1. [mem[m] EXCEPT !.disk[s] = NoDisk] \in Machine
        BY <1>0, <2>1, <2>4, MachineFields, Values
      <4> QED
        BY <2>4, <4>1 DEF TypeInv, TypeOK
    <3>3. PlacesOK'
      BY <1>10, <2>4 DEF GiveBack, TypeInv, TypeOK, PlacesOK
    <3> QED
      BY <1>10, <2>4, <3>1, <3>2, <3>3 DEF Written2, GiveBack, TypeInv, TypeOK, scvmmVars
  <2> QED
    BY <1>10, <2>2, <2>3, <2>4 DEF GiveBack
<1> QED
  BY <1>2, <1>3, <1>4, <1>9, <1>10

LEMMA TypesKept == TypeInv /\ [Next]_vars => TypeInv'
<1> SUFFICES ASSUME TypeInv, [Next]_vars PROVE TypeInv'
  OBVIOUS
<1>1. DisksInv'
  BY NextKinds, KindsInv, StutterQuiet, QuietInv DEF TypeInv
<1>2. ASSUME NEW m \in Machines, Reconcile(m) PROVE TypeInv'
  BY <1>1, <1>2, ReadingTypes, ClaimingTypes, WorkingTypes DEF Reconcile, TypeInv
<1> QED
  BY <1>1, <1>2, EnvironmentTypes DEF Next

(* Variables keep their types, and a reconcile is at one of the slots and  *)
(* knows its VM's id where it needs them (vmClaimPersistentDisks,          *)
(* reconcileNormal).                                                       *)
THEOREM TypesAlways == Spec => []TypeInv
  BY InitTypes, TypesKept, PTL DEF Spec

(* Every variable keeps its type: in particular no reconcile attaches or   *)
(* detaches a disk of a VM without an id, nor at a slot the spec does not  *)
(* have (reconcileNormal, vmClaimPersistentDisks, removePersistentDisks).  *)
THEOREM TypeCorrect == Spec => []TypeOK
<1>1. TypeInv => TypeOK
  BY DEF TypeInv
<1> QED
  BY TypesAlways, <1>1, PTL

-----------------------------------------------------------------------------
(* The files of the disks.                                                 *)

(* What the types say of what the invariant speaks of.                     *)
LEMMA Facts ==
    ASSUME TypeInv
    PROVE  /\ NoDisk \notin Disks /\ NoVm \notin VmIds /\ NoFile \notin File
           /\ \A f \in File : f.of \in Disks /\ f.by \in VmIds \cup {NoVm}
           /\ \A m \in Machines :
                /\ Id(m) \in VmIds \cup {NoVm} /\ obj[m].id \in VmIds \cup {NoVm}
                /\ \A s \in Slots :
                     /\ Kept(m, s) \in Disks \cup {NoDisk} /\ got[m].disk[s] \in File \cup {NoFile}
                     /\ file[m][s] \in File \cup {NoFile}
           /\ \A v \in VmIds : vm[v] \in Vm /\ \A s \in Slots : vm[v].disk[s] \in File \cup {NoFile}
           /\ \A d \in Disks :
                /\ disk[d].file \in File \cup {NoFile} /\ disk[d].phase \in DiskPhases
                /\ cdisk[d].file \in File \cup {NoFile} /\ cdisk[d].phase \in DiskPhases
<1>1. NoDisk \notin Disks
  BY NullAssumption DEF Disks
<1>2. \A f \in File : f.of \in Disks /\ f.by \in VmIds \cup {NoVm}
  BY DEF File
<1>3. ASSUME NEW m \in Machines
      PROVE  /\ Id(m) \in VmIds \cup {NoVm} /\ obj[m].id \in VmIds \cup {NoVm}
             /\ \A s \in Slots : Kept(m, s) \in Disks \cup {NoDisk}
  BY DEF TypeInv, TypeOK, Machine, Id, Kept
<1>4. ASSUME NEW m \in Machines, NEW s \in Slots
      PROVE  got[m].disk[s] \in File \cup {NoFile} /\ file[m][s] \in File \cup {NoFile}
  BY DEF TypeInv, TypeOK, Report, Attached
<1>5. ASSUME NEW v \in VmIds
      PROVE  vm[v] \in Vm /\ \A s \in Slots : vm[v].disk[s] \in File \cup {NoFile}
  BY OnTypes
<1>6. ASSUME NEW d \in Disks
      PROVE  /\ disk[d].file \in File \cup {NoFile} /\ disk[d].phase \in DiskPhases
             /\ cdisk[d].file \in File \cup {NoFile} /\ cdisk[d].phase \in DiskPhases
  BY DiskFields DEF TypeInv, TypeOK
<1> QED
  BY <1>1, <1>2, <1>3, <1>4, <1>5, <1>6, NullAssumption, NoFileAssumption

(* The id in the spec is the one the reconcile works with.                 *)
LEMMA IdRecorded ==
    ASSUME NEW m \in Machines, CopyOK(m), obj[m].id # NoVm
    PROVE  Id(m) = obj[m].id
  BY DEF CopyOK, Id

(* A disk with a machine among its owners is that machine's alone.         *)
LEMMA SoleOwner ==
    ASSUME TypeInv, NEW m \in Machines, NEW n \in Machines, NEW r \in Slots, NEW s \in Slots,
           OwnedOK(m), OwnedOK(n), NoSlotTwice,
           obj[m].phase # "gone", obj[n].phase # "gone",
           Kept(m, r) = Kept(n, s), Kept(m, r) # NoDisk
    PROVE  m = n /\ r = s
<1>1. Kept(m, r) \in Disks
  BY Facts
<1>2. m \in disk[Kept(m, r)].refs /\ n \in disk[Kept(m, r)].refs
  BY DEF OwnedOK
<1>3. m = n
  BY <1>1, <1>2 DEF TypeInv, DisksInv, DisksOK, IsDisk
<1> QED
  BY <1>3 DEF NoSlotTwice

(* A noted file that a VM has is of a disk kept for it by a machine, which *)
(* is still there.                                                         *)
LEMMA NotedIsKept ==
    ASSUME TypeInv, FilesInv, NEW v \in VmIds, NEW s \in Slots,
           vm[v].disk[s] # NoFile, Noted(vm[v].disk[s])
    PROVE  \E n \in Machines :
              /\ Id(n) = v /\ Kept(n, s) = vm[v].disk[s].of
              /\ obj[n].phase # "gone"
              /\ n \in disk[vm[v].disk[s].of].refs /\ disk[vm[v].disk[s].of].phase = "live"
<1> DEFINE f == vm[v].disk[s]
<1>0. f \in File /\ f.of \in Disks /\ v # NoVm
  BY Facts
<1>1. ~ Secret(f)
  BY DEF Secret
<1>2. PICK n \in Machines : Id(n) = v
  BY <1>1 DEF FilesInv, CoreInv, VmOK, AttachedFileOK
<1>3. KeptOK(n) /\ OwnedOK(n) /\ StageOK(n) /\ VmOK(v)
  BY DEF FilesInv, CoreInv, MachineOK
<1>4. Kept(n, s) = f.of
  BY <1>0, <1>1, <1>2, <1>3 DEF KeptOK
<1>5. obj[n].phase # "gone"
  <2> SUFFICES ASSUME obj[n].phase = "gone" PROVE FALSE
    OBVIOUS
  <2>1. vm[v].st = "removed"
    BY <1>0, <1>2, <1>3 DEF StageOK
  <2>2. vm[v].disk = NoFiles
    BY <1>3, <2>1 DEF VmOK
  <2> QED
    BY <2>2 DEF NoFiles
<1>6. f.of # NoDisk
  BY <1>0, Facts
<1> QED
  BY <1>2, <1>3, <1>4, <1>5, <1>6 DEF OwnedOK

-----------------------------------------------------------------------------
(* Steps that leave the disks, the VMs and the files alone.  A machine may *)
(* learn its VM's id, get a report of its VM, be found to be ending, and   *)
(* forget about slots at which its VM has nothing.                         *)
Reports(n) ==
    \A s \in Slots : got'[n].disk[s] # NoFile =>
        \/ got'[n].disk[s] = got[n].disk[s]
        \/ Id(n) # NoVm /\ vm[Id(n)].st # "preparing" /\ vm[Id(n)].disk[s] = got'[n].disk[s]

StillWorks(n) ==
    /\ Id(n)' = Id(n)
    /\ obj'[n].id = obj[n].id \/ (obj[n].id = NoVm /\ obj'[n].id = Id(n))
    /\ Ending(n) => Ending(n)'
    /\ obj[n].phase = "gone" => obj'[n].phase = "gone"
    /\ \A s \in Slots :
          \/ Kept(n, s)' = Kept(n, s)
          \/ Kept(n, s)' = NoDisk /\ (Id(n) # NoVm => vm[Id(n)].disk[s] = NoFile)
    /\ Reports(n)

Idle == UNCHANGED <<disk, cdisk, vm, files, used>> /\ \A n \in Machines : StillWorks(n)

LEMMA IdleCore ==
    ASSUME TypeInv, CoreInv, Idle, \A n \in Machines : CopyOK(n)
    PROVE  CoreInv'
<1> USE Facts
<1>1. \A f : (Noted(f)' <=> Noted(f)) /\ (Secret(f)' <=> Secret(f))
  BY DEF Noted, Secret, Idle
<1>2. \A f : Over(f) => Over(f)'
  BY IdRecorded DEF Over, Idle, StillWorks
<1>3. DistinctVms'
  BY DEF CoreInv, DistinctVms, Idle, StillWorks
<1>4. UsedOK'
  BY DEF CoreInv, UsedOK, Idle
<1>5. ASSUME NEW v \in VmIds PROVE VmOK(v)'
  <2>1. VmOK(v)
    BY DEF CoreInv
  <2>2. ASSUME NEW f, AttachedFileOK(v, f) PROVE AttachedFileOK(v, f)'
    BY <1>1, <2>2 DEF AttachedFileOK, Idle, StillWorks
  <2>3. (\E m \in Machines : obj[m].id = v) => (\E m \in Machines : obj'[m].id = v)
    BY DEF Idle, StillWorks
  <2> QED
    BY <1>1, <2>1, <2>2, <2>3 DEF VmOK, Idle
<1>6. ASSUME NEW d \in Disks PROVE NotedOK(d)'
  <2> DEFINE f == disk[d].file
  <2> SUFFICES ASSUME f # NoFile PROVE NotedOK(d)'
    BY DEF NotedOK, Idle
  <2>1. /\ f.of = d
        /\ f.by # NoVm => \E m \in Machines : obj[m].id = f.by
        /\ f.by # NoVm => \A m \in Machines : obj[m].id = f.by /\ ~ Ending(m) =>
               \E s \in Slots : vm[f.by].disk[s] = f
    BY DEF CoreInv, NotedOK
  <2>2. f.by # NoVm => \E m \in Machines : obj'[m].id = f.by
    BY <2>1 DEF Idle, StillWorks
  <2>3. ASSUME f.by # NoVm, NEW m \in Machines, obj'[m].id = f.by, ~ Ending(m)'
        PROVE  \E s \in Slots : vm[f.by].disk[s] = f
    <3>1. PICK n \in Machines : obj[n].id = f.by
      BY <2>1, <2>3
    <3>2. Id(n) = f.by
      BY <2>3, <3>1, IdRecorded
    <3>3. Id(m) = f.by
      BY <2>3, IdRecorded DEF Idle, StillWorks
    <3>4. m = n
      BY <2>3, <3>2, <3>3 DEF CoreInv, DistinctVms
    <3>5. ~ Ending(m)
      BY <2>3 DEF Idle, StillWorks
    <3> QED
      BY <2>1, <2>3, <3>1, <3>4, <3>5
  <2>4. disk' = disk /\ vm' = vm
    BY DEF Idle
  <2> QED
    BY <2>1, <2>2, <2>3, <2>4 DEF NotedOK
<1>7. ASSUME NEW d \in Disks PROVE CacheOK(d)'
  <2>1. CacheOK(d)
    BY DEF CoreInv
  <2> QED
    BY <1>2, <2>1 DEF CacheOK, Idle
<1>8. ASSUME NEW m \in Machines PROVE MachineOK(m)'
  <2>0. MachineOK(m) /\ StillWorks(m) /\ vm' = vm /\ disk' = disk /\ cdisk' = cdisk
    BY DEF CoreInv, Idle
  <2>1. VmOfOK(m)'
    BY <2>0 DEF MachineOK, VmOfOK, StillWorks
  <2>2. OwnedOK(m)'
    BY <2>0 DEF MachineOK, OwnedOK, StillWorks
  <2>3. KeptOK(m)'
    BY <1>1, <2>0 DEF MachineOK, KeptOK, StillWorks
  <2>4. ReportOK(m)'
    <3> SUFFICES ASSUME NEW s \in Slots, NEW f, f = got'[m].disk[s], f # NoFile
                 PROVE  ReportedFileOK(m, s, f)'
      BY DEF ReportOK
    <3>1. CASE f = got[m].disk[s]
      <4>1. ReportedFileOK(m, s, f)
        BY <2>0, <3>1 DEF MachineOK, ReportOK
      <4> QED
        BY <1>1, <2>0, <4>1 DEF ReportedFileOK, StillWorks
    <3>2. CASE Id(m) # NoVm /\ vm[Id(m)].st # "preparing" /\ vm[Id(m)].disk[s] = f
      <4>1. Id(m) \in VmIds
        BY <3>2
      <4>2. Noted(f) \/ f.by = Id(m)
        BY <3>2, <4>1 DEF CoreInv, VmOK, AttachedFileOK
      <4>3. Kept(m, s) # NoDisk => f.of = Kept(m, s) /\ disk[f.of].file \in {f, NoFile}
        BY <2>0, <3>2 DEF MachineOK, KeptOK
      <4> QED
        BY <1>1, <2>0, <3>2, <4>2, <4>3 DEF ReportedFileOK, StillWorks, Noted
    <3> QED
      BY <2>0, <3>1, <3>2 DEF StillWorks, Reports
  <2>5. ShownOK(m)'
    <3>1. \A s \in Slots : \A g : Right(m, s, g) /\ Kept(m, s)' = Kept(m, s) => Right(m, s, g)'
      BY <1>2, <2>0 DEF Right, StillWorks
    <3> QED
      BY <2>0, <3>1 DEF MachineOK, ShownOK, StillWorks
  <2> QED
    BY <2>1, <2>2, <2>3, <2>4, <2>5 DEF MachineOK
<1> QED
  BY <1>3, <1>4, <1>5, <1>6, <1>7, <1>8 DEF CoreInv

-----------------------------------------------------------------------------
(* Steps that write a disk object.                                         *)

(* The machines, the VMs and what is known of both stay as they are.       *)
SameMachines ==
    /\ UNCHANGED <<obj, vm, files, used>>
    /\ \A n \in Machines :
          Id(n)' = Id(n) /\ (Ending(n)' <=> Ending(n)) /\ got'[n] = got[n]

SameKept == \A n \in Machines : \A s \in Slots : Kept(n, s)' = Kept(n, s)

(* The file a VM has at a disk's LUN is noted for the disk.                *)
LEMMA NotingCore ==
    ASSUME TypeInv, FilesInv, NoSlotTwice, SameMachines, SameKept, UNCHANGED cdisk,
           NEW m \in Machines, NEW s \in Slots, NEW d \in fresh, NEW f,
           f = got[m].disk[s], d = Kept(m, s), f # NoFile, obj[m].phase # "gone", obj[m].id = Id(m),
           disk' = [disk EXCEPT ![d].file = f]
    PROVE  CoreInv'
<1> USE Facts
<1>0. d \in Disks /\ d # NoDisk /\ cdisk[d] = disk[d] /\ f \in File
      /\ \A e \in Disks : disk[e] \in Disk
  BY DEF TypeInv, TypeOK, DisksInv, FreshOK
<1>1. /\ Id(m) # NoVm /\ Id(m) \in VmIds /\ vm[Id(m)].st # "preparing"
      /\ f.of = d
      /\ Noted(f) \/ (disk[d].file = NoFile /\ f.by = Id(m) /\ vm[Id(m)].disk[s] = f)
  BY <1>0 DEF FilesInv, CoreInv, MachineOK, ReportOK, ReportedFileOK
<1>2. /\ disk'[d].file = f /\ disk'[d].phase = disk[d].phase /\ disk'[d].refs = disk[d].refs
      /\ \A e \in Disks \ {d} : disk'[e] = disk[e]
  BY <1>0 DEF TypeInv, TypeOK, Disk
<1>3. CASE Noted(f)
  <2>1. disk' = disk
    BY <1>0, <1>1, <1>2, <1>3 DEF Noted, TypeInv, TypeOK, Disk
  <2>2. Idle
    BY <2>1 DEF Idle, SameMachines, SameKept, StillWorks, Reports
  <2> QED
    BY <2>2, IdleCore DEF FilesInv
<1>4. CASE disk[d].file = NoFile /\ f.by = Id(m) /\ vm[Id(m)].disk[s] = f
  <2> USE DEF SameMachines
  <2>1. \A n \in Machines, r \in Slots : obj[n].phase # "gone" /\ Kept(n, r) = d => n = m /\ r = s
    BY <1>0, SoleOwner DEF FilesInv, CoreInv, MachineOK
  <2>2. \A g \in File : g # f => (Noted(g)' => Noted(g)) /\ (g.of # d => (Noted(g)' <=> Noted(g)))
    BY <1>1, <1>2 DEF Noted
  <2>3. \A g \in File : g # f /\ Secret(g) => Secret(g)'
    BY <2>2 DEF Secret
  <2>4. Noted(f)' /\ ~ Noted(f)
    BY <1>0, <1>1, <1>2, <1>4 DEF Noted
  <2>5. \A g : Over(g)' <=> Over(g)
    BY DEF Over
  (* Whatever else a VM has of the disk is nobody's. *)
  <2>6. ASSUME NEW v \in VmIds, NEW r \in Slots, vm[v].disk[r] # NoFile, vm[v].disk[r].of = d
        PROVE  (vm[v].disk[r] = f /\ v = Id(m) /\ r = s) \/ (vm[v].disk[r] # f /\ Secret(vm[v].disk[r]))
    <3> DEFINE g == vm[v].disk[r]
    <3>1. VmOK(v) /\ g \in File /\ AttachedFileOK(v, g)
      BY <2>6 DEF FilesInv, CoreInv, VmOK
    <3>2. ~ Noted(g)
      BY <1>4, <2>6 DEF Noted
    <3>3. g.by = v
      BY <3>1, <3>2 DEF AttachedFileOK
    <3>4. CASE v = Id(m)
      <4>1. r = s
        BY <1>1, <1>4, <2>6, <3>1, <3>4 DEF VmOK
      <4> QED
        BY <1>4, <3>4, <4>1
    <3>5. CASE v # Id(m)
      <4>1. g # f
        BY <1>4, <3>3, <3>5
      <4>2. CASE \A n \in Machines : Id(n) # v
        BY <3>1, <4>1, <4>2 DEF AttachedFileOK
      <4>3. ASSUME NEW n \in Machines, Id(n) = v PROVE Secret(g)
        <5>1. KeptOK(n) /\ StageOK(n)
          BY DEF FilesInv, CoreInv, MachineOK
        <5>2. obj[n].phase # "gone"
          BY <2>6, <3>1, <4>3, <5>1 DEF StageOK, VmOK, NoFiles
        <5>3. Kept(n, r) = NoDisk
          BY <2>1, <2>6, <3>5, <4>3, <5>1, <5>2 DEF KeptOK
        <5> QED
          BY <2>6, <4>3, <5>1, <5>3 DEF KeptOK
      <4> QED
        BY <4>1, <4>2, <4>3
    <3> QED
      BY <3>4, <3>5
  <2>7. ASSUME NEW v \in VmIds PROVE VmOK(v)'
    <3>1. VmOK(v)
      BY DEF FilesInv, CoreInv
    <3>2. ASSUME NEW r \in Slots, vm[v].disk[r] # NoFile PROVE AttachedFileOK(v, vm[v].disk[r])'
      <4> DEFINE g == vm[v].disk[r]
      <4>1. g \in File /\ g.of \in Disks /\ AttachedFileOK(v, g)
        BY <3>1, <3>2 DEF VmOK
      <4>2. CASE g.of # d
        <5>1. disk'[g.of] = disk[g.of] /\ g # f
          BY <1>1, <1>2, <4>1, <4>2
        <5>2. (Noted(g)' <=> Noted(g)) /\ (Secret(g)' <=> Secret(g))
          BY <5>1 DEF Noted, Secret
        <5> QED
          BY <4>1, <5>1, <5>2 DEF AttachedFileOK
      <4>3. CASE g = f /\ v = Id(m)
        BY <1>1, <1>4, <2>4, <4>1, <4>3 DEF AttachedFileOK
      <4>4. CASE g.of = d /\ g # f /\ Secret(g)
        <5>1. ~ Noted(g) /\ Secret(g)'
          BY <2>3, <4>1, <4>4 DEF Secret
        <5> QED
          BY <4>1, <5>1 DEF AttachedFileOK
      <4> QED
        BY <2>6, <3>2, <4>2, <4>3, <4>4
    <3>3. ASSUME NEW r \in Slots, vm[v].disk[r] # NoFile, Noted(vm[v].disk[r])
          PROVE  Noted(vm[v].disk[r])'
      BY <1>2, <1>4, <3>3 DEF Noted
    <3> QED
      BY <3>1, <3>2, <3>3 DEF VmOK
  <2>8. ASSUME NEW e \in Disks PROVE NotedOK(e)'
    <3>1. NotedOK(e)
      BY DEF FilesInv, CoreInv
    <3>2. CASE e # d
      BY <1>2, <3>1, <3>2 DEF NotedOK
    <3>3. CASE e = d
      <4>1. \A n \in Machines : obj[n].id = f.by => n = m
        BY <1>1, <1>4, IdRecorded DEF FilesInv, CoreInv, DistinctVms
      <4> QED
        BY <1>1, <1>2, <1>4, <3>3, <4>1 DEF NotedOK
    <3> QED
      BY <3>2, <3>3
  <2>9. ASSUME NEW e \in Disks PROVE CacheOK(e)'
    <3>1. CacheOK(e)
      BY DEF FilesInv, CoreInv
    <3>2. CASE e # d
      BY <1>2, <2>5, <3>1, <3>2 DEF CacheOK
    <3>3. CASE e = d
      <4>1. OwnedOK(m)
        BY DEF FilesInv, CoreInv, MachineOK
      <4>2. disk[d].phase = "live" /\ cdisk[d].file = NoFile /\ f.by # NoVm
        BY <1>0, <1>1, <1>4, <4>1 DEF OwnedOK
      <4> QED
        BY <1>2, <3>3, <4>2 DEF CacheOK
    <3> QED
      BY <3>2, <3>3
  <2>10. ASSUME NEW n \in Machines PROVE MachineOK(n)'
    <3>0. MachineOK(n) /\ StageOK(n) /\ CopyOK(n)
      BY DEF FilesInv, CoreInv
    <3>1. VmOfOK(n)'
      BY <3>0 DEF MachineOK, VmOfOK, SameKept
    <3>2. OwnedOK(n)'
      BY <1>2, <3>0 DEF MachineOK, OwnedOK, SameKept
    <3>3. KeptOK(n)'
      <4> SUFFICES ASSUME Id(n) # NoVm, NEW r \in Slots, NEW g, g = vm[Id(n)].disk[r], g # NoFile
                   PROVE  /\ Kept(n, r) # NoDisk => g.of = Kept(n, r) /\ disk'[g.of].file \in {g, NoFile}
                          /\ Kept(n, r) = NoDisk => Ending(n) /\ Secret(g)'
        BY DEF KeptOK, SameKept
      <4>1. /\ Kept(n, r) # NoDisk => g.of = Kept(n, r) /\ disk[g.of].file \in {g, NoFile}
            /\ Kept(n, r) = NoDisk => Ending(n) /\ Secret(g)
        BY <3>0 DEF MachineOK, KeptOK
      <4>2. Id(n) \in VmIds /\ g \in File /\ g.of \in Disks
        OBVIOUS
      <4>3. CASE g.of # d
        BY <1>1, <1>2, <2>3, <4>1, <4>2, <4>3
      <4>4. CASE g.of = d /\ g = f /\ Id(n) = Id(m) /\ r = s
        <5>1. n = m
          BY <1>1, <4>4 DEF FilesInv, CoreInv, DistinctVms
        <5> QED
          BY <1>0, <1>2, <4>1, <4>4, <5>1
      <4>5. CASE g.of = d /\ g # f /\ Secret(g)
        <5>1. obj[n].phase # "gone"
          <6>1. VmOK(Id(n))
            BY <4>2 DEF FilesInv, CoreInv
          <6> QED
            BY <3>0, <6>1 DEF StageOK, VmOK, NoFiles
        <5>2. ~ (n = m /\ r = s)
          BY <1>4, <4>5
        <5>3. Kept(n, r) # d
          BY <2>1, <5>1, <5>2
        <5>4. Kept(n, r) = NoDisk
          BY <4>1, <4>5, <5>3
        <5> QED
          BY <2>3, <4>1, <4>2, <4>5, <5>4
      <4> QED
        BY <2>6, <4>2, <4>3, <4>4, <4>5
    <3>4. ReportOK(n)'
      <4> SUFFICES ASSUME NEW r \in Slots, NEW g, g = got[n].disk[r], g # NoFile
                   PROVE  ReportedFileOK(n, r, g)'
        BY DEF ReportOK
      <4>1. ReportedFileOK(n, r, g) /\ g \in File /\ g.of \in Disks
        BY <3>0 DEF MachineOK, ReportOK
      <4>2. CASE Kept(n, r) = NoDisk \/ g.of # d
        BY <1>2, <4>1, <4>2 DEF ReportedFileOK, Noted, SameKept
      <4>3. CASE Kept(n, r) = d
        <5>1. obj[n].phase # "gone"
          BY <3>0, <4>1 DEF CopyOK, NoReport, NoFiles
        <5>2. n = m /\ r = s
          BY <2>1, <4>3, <5>1
        <5> QED
          BY <2>4, <4>1, <5>2 DEF ReportedFileOK, SameKept
      <4> QED
        BY <4>1, <4>2, <4>3 DEF ReportedFileOK
    <3>5. ShownOK(n)'
      <4> SUFFICES ASSUME obj[n].phase # "gone", ~ Ending(n), NEW r \in Slots, Kept(n, r) # NoDisk
                   PROVE  Right(n, r, cdisk[Kept(n, r)].file)'
        BY DEF ShownOK, SameKept
      <4>1. Right(n, r, cdisk[Kept(n, r)].file)
        BY <3>0 DEF MachineOK, ShownOK
      <4>2. CASE Kept(n, r) # d
        BY <1>2, <2>5, <4>1, <4>2 DEF Right, SameKept
      <4>3. CASE Kept(n, r) = d
        <5>1. n = m /\ r = s
          BY <2>1, <4>3
        <5> QED
          BY <1>0, <1>1, <1>2, <1>4, <4>3, <5>1 DEF Right, SameKept
      <4> QED
        BY <4>2, <4>3
    <3> QED
      BY <3>1, <3>2, <3>3, <3>4, <3>5 DEF MachineOK
  <2>11. DistinctVms' /\ UsedOK'
    BY DEF FilesInv, CoreInv, DistinctVms, UsedOK
  <2> QED
    BY <2>7, <2>8, <2>9, <2>10, <2>11 DEF CoreInv
<1> QED
  BY <1>1, <1>3, <1>4

(* A disk nobody else has is claimed, for an empty slot or in vain.        *)
LEMMA ClaimingCore ==
    ASSUME TypeInv, FilesInv, SameMachines, UNCHANGED cdisk,
           NEW m \in Machines, NEW s \in Slots, NEW d \in Disks, NEW new \in Disk,
           disk' = [disk EXCEPT ![d] = new],
           new.phase = "live", m \in new.refs, new.file = disk[d].file,
           disk[d].refs \cap Machines \subseteq {m}, disk[d].phase # "deleting",
           disk[d].phase = "absent" => cdisk[d].file = NoFile \/ cdisk[d].file.by # NoVm,
           disk[d].phase # "absent" => d \in fresh,
           obj[m].phase # "gone", ~ Ending(m), Kept(m, s) = NoDisk,
           \A n \in Machines, r \in Slots :
               Kept(n, r)' = Kept(n, r) \/ (n = m /\ r = s /\ Kept(n, r)' = d)
    PROVE  CoreInv'
<1> USE Facts DEF SameMachines
<1>1. disk'[d] = new /\ \A e \in Disks \ {d} : disk'[e] = disk[e]
  BY DEF TypeInv, TypeOK
<1>2. \A e \in Disks : disk'[e].file = disk[e].file
  BY <1>1
<1>3. \A f \in File : (Noted(f)' <=> Noted(f)) /\ (Secret(f)' <=> Secret(f))
  BY <1>2 DEF Noted, Secret
<1>4. \A f : Over(f)' <=> Over(f)
  BY DEF Over
<1>5. DistinctVms' /\ UsedOK'
  BY DEF FilesInv, CoreInv, DistinctVms, UsedOK
<1>6. ASSUME NEW v \in VmIds PROVE VmOK(v)'
  <2>1. VmOK(v)
    BY DEF FilesInv, CoreInv
  <2>2. ASSUME NEW f \in File, AttachedFileOK(v, f) PROVE AttachedFileOK(v, f)'
    BY <1>2, <1>3, <2>2 DEF AttachedFileOK
  <2> QED
    BY <1>3, <2>1, <2>2 DEF VmOK
<1>7. ASSUME NEW e \in Disks PROVE NotedOK(e)' /\ CacheOK(e)'
  <2>1. NotedOK(e) /\ CacheOK(e)
    BY DEF FilesInv, CoreInv
  <2>2. NotedOK(e)'
    BY <1>2, <2>1 DEF NotedOK
  <2>3. CASE e # d
    BY <1>1, <1>4, <2>1, <2>2, <2>3 DEF CacheOK
  <2>4. CASE e = d
    BY <1>1, <1>2, <1>4, <2>1, <2>2, <2>4 DEF CacheOK
  <2> QED
    BY <2>3, <2>4
<1>8. ASSUME NEW n \in Machines PROVE MachineOK(n)'
  <2>0. MachineOK(n)
    BY DEF FilesInv, CoreInv
  (* The VM has nothing at the empty slot. *)
  <2>1. n = m /\ Id(m) # NoVm => vm[Id(m)].disk[s] = NoFile
    BY <2>0 DEF MachineOK, KeptOK
  <2>2. n = m => got[m].disk[s] = NoFile
    BY <2>0, <2>1 DEF MachineOK, ReportOK, ReportedFileOK
  <2>3. VmOfOK(n)'
    <3>1. n = m => vm[Id(n)].st \notin {"removing", "removed"} \/ Id(n) = NoVm
      BY <2>0 DEF MachineOK, VmOfOK
    <3> QED
      BY <2>0, <3>1 DEF MachineOK, VmOfOK
  <2>4. OwnedOK(n)'
    <3> SUFFICES ASSUME obj[n].phase # "gone", NEW r \in Slots, Kept(n, r)' # NoDisk
                 PROVE  n \in disk'[Kept(n, r)'].refs /\ disk'[Kept(n, r)'].phase = "live"
      BY DEF OwnedOK
    <3>1. CASE Kept(n, r)' = Kept(n, r)
      <4>1. n \in disk[Kept(n, r)].refs /\ disk[Kept(n, r)].phase = "live"
        BY <2>0, <3>1 DEF MachineOK, OwnedOK
      <4> QED
        BY <1>1, <3>1, <4>1
    <3>2. CASE n = m /\ Kept(n, r)' = d
      BY <1>1, <3>2
    <3> QED
      BY <3>1, <3>2
  <2>5. KeptOK(n)'
    BY <1>2, <1>3, <2>0, <2>1 DEF MachineOK, KeptOK
  <2>6. ReportOK(n)'
    BY <1>2, <1>3, <2>0, <2>2 DEF MachineOK, ReportOK, ReportedFileOK
  <2>7. ShownOK(n)'
    <3> SUFFICES ASSUME obj[n].phase # "gone", ~ Ending(n), NEW r \in Slots, Kept(n, r)' # NoDisk
                 PROVE  Right(n, r, cdisk[Kept(n, r)].file)'
      BY DEF ShownOK
    <3>1. CASE Kept(n, r)' = Kept(n, r)
      <4>1. Right(n, r, cdisk[Kept(n, r)].file)
        BY <2>0, <3>1 DEF MachineOK, ShownOK
      <4> QED
        BY <1>2, <1>4, <3>1, <4>1 DEF Right
    <3>2. CASE Kept(n, r)' = d
      <4>1. cdisk[d].file = disk[d].file \/ (cdisk[d].file # NoFile /\ Over(cdisk[d].file))
        BY DEF FilesInv, CoreInv, CacheOK, TypeInv, DisksInv, FreshOK
      <4> QED
        BY <1>2, <1>4, <3>2, <4>1 DEF Right
    <3> QED
      BY <3>1, <3>2
  <2> QED
    BY <2>3, <2>4, <2>5, <2>6, <2>7 DEF MachineOK
<1> QED
  BY <1>5, <1>6, <1>7, <1>8 DEF CoreInv

(* A disk is given back by a machine whose VM shows nothing at its LUN.    *)
LEMMA ReleasingCore ==
    ASSUME TypeInv, FilesInv, NoSlotTwice, SameMachines, UNCHANGED cdisk,
           NEW m \in Machines, NEW s \in Slots, NEW d \in Disks,
           disk' = [disk EXCEPT ![d].refs = @ \ {m}], d = Kept(m, s),
           obj[m].phase # "gone", Ending(m), pc[m] = "giveback", got[m].disk[s] = NoFile,
           \A n \in Machines, r \in Slots :
               Kept(n, r)' = IF n = m /\ r = s THEN NoDisk ELSE Kept(n, r)
    PROVE  CoreInv'
<1> USE Facts DEF SameMachines
<1>1. /\ disk'[d].file = disk[d].file /\ disk'[d].phase = disk[d].phase
      /\ disk'[d].refs = disk[d].refs \ {m}
      /\ \A e \in Disks \ {d} : disk'[e] = disk[e]
  BY DEF TypeInv, TypeOK, Disk
<1>2. \A e \in Disks : disk'[e].file = disk[e].file /\ disk'[e].phase = disk[e].phase
  BY <1>1
<1>3. \A f \in File : (Noted(f)' <=> Noted(f)) /\ (Secret(f)' <=> Secret(f))
  BY <1>2 DEF Noted, Secret
<1>4. \A f : Over(f)' <=> Over(f)
  BY DEF Over
<1>5. DistinctVms' /\ UsedOK'
  BY DEF FilesInv, CoreInv, DistinctVms, UsedOK
<1>6. ASSUME NEW v \in VmIds PROVE VmOK(v)'
  <2>1. VmOK(v)
    BY DEF FilesInv, CoreInv
  <2>2. ASSUME NEW f \in File, AttachedFileOK(v, f) PROVE AttachedFileOK(v, f)'
    BY <1>2, <1>3, <2>2 DEF AttachedFileOK
  <2> QED
    BY <1>3, <2>1, <2>2 DEF VmOK
<1>7. ASSUME NEW e \in Disks PROVE NotedOK(e)' /\ CacheOK(e)'
  <2>1. NotedOK(e) /\ CacheOK(e)
    BY DEF FilesInv, CoreInv
  <2>2. NotedOK(e)'
    BY <1>2, <2>1 DEF NotedOK
  <2>3. CacheOK(e)'
    BY <1>2, <1>4, <2>1 DEF CacheOK
  <2> QED
    BY <2>2, <2>3
<1>8. ASSUME NEW n \in Machines PROVE MachineOK(n)'
  <2>0. MachineOK(n) /\ StageOK(n)
    BY DEF FilesInv, CoreInv
  <2>1. VmOfOK(n)'
    BY <2>0 DEF MachineOK, VmOfOK
  <2>2. OwnedOK(n)'
    <3> SUFFICES ASSUME obj[n].phase # "gone", NEW r \in Slots, Kept(n, r)' # NoDisk
                 PROVE  n \in disk'[Kept(n, r)].refs /\ disk'[Kept(n, r)].phase = "live"
      BY DEF OwnedOK
    <3>1. n \in disk[Kept(n, r)].refs /\ disk[Kept(n, r)].phase = "live" /\ Kept(n, r) # NoDisk
      BY <2>0 DEF MachineOK, OwnedOK
    <3>2. n # m \/ Kept(n, r) # d
      BY DEF NoSlotTwice
    <3> QED
      BY <1>1, <3>1, <3>2
  <2>3. KeptOK(n)'
    <3>1. n = m /\ Id(m) # NoVm /\ vm[Id(m)].disk[s] # NoFile => Secret(vm[Id(m)].disk[s])
      BY <2>0 DEF StageOK
    <3> QED
      BY <1>2, <1>3, <2>0, <3>1 DEF MachineOK, KeptOK
  <2>4. ReportOK(n)'
    BY <1>2, <1>3, <2>0 DEF MachineOK, ReportOK, ReportedFileOK
  <2>5. ShownOK(n)'
    BY <1>2, <1>4, <2>0 DEF MachineOK, ShownOK, Right
  <2> QED
    BY <2>1, <2>2, <2>3, <2>4, <2>5 DEF MachineOK
<1> QED
  BY <1>5, <1>6, <1>7, <1>8 DEF CoreInv

(* A disk that no machine has any more is changed, condemned or forgotten. *)
LEMMA UnownedCore ==
    ASSUME TypeInv, FilesInv, SameMachines, SameKept, UNCHANGED cdisk,
           NEW d \in Disks, NEW new \in Disk,
           disk' = [disk EXCEPT ![d] = new],
           new.file \in {disk[d].file, NoFile},
           \A n \in Machines : obj[n].phase # "gone" => \A r \in Slots : Kept(n, r) # d,
           CacheOK(d)'
    PROVE  CoreInv'
<1> USE Facts DEF SameMachines
<1>1. disk'[d] = new /\ \A e \in Disks \ {d} : disk'[e] = disk[e]
  BY DEF TypeInv, TypeOK
<1>2. \A f : Over(f)' <=> Over(f)
  BY DEF Over
<1>3. DistinctVms' /\ UsedOK'
  BY DEF FilesInv, CoreInv, DistinctVms, UsedOK
(* No VM has the file. *)
<1>4. ASSUME NEW v \in VmIds, NEW r \in Slots, vm[v].disk[r] # NoFile, vm[v].disk[r].of = d
      PROVE  ~ Noted(vm[v].disk[r])
  BY <1>4, NotedIsKept
<1>5. \A f \in File : Noted(f)' => Noted(f)
  BY <1>1 DEF Noted
<1>6. \A f \in File : Secret(f) => Secret(f)'
  BY <1>5 DEF Secret
<1>7. \A f \in File : f.of # d => (Noted(f)' <=> Noted(f)) /\ (Secret(f)' <=> Secret(f))
  BY <1>1 DEF Noted, Secret
<1>8. ASSUME NEW v \in VmIds PROVE VmOK(v)'
  <2>1. VmOK(v)
    BY DEF FilesInv, CoreInv
  <2>2. ASSUME NEW r \in Slots, NEW f, f = vm[v].disk[r], f # NoFile PROVE AttachedFileOK(v, f)'
    <3>1. AttachedFileOK(v, f) /\ f \in File
      BY <2>1, <2>2 DEF VmOK
    <3>2. CASE f.of # d
      BY <1>1, <1>7, <3>1, <3>2 DEF AttachedFileOK
    <3>3. CASE f.of = d
      <4>1. ~ Noted(f)
        BY <1>4, <2>2, <3>3
      <4> QED
        BY <1>1, <1>5, <1>6, <3>1, <3>3, <4>1 DEF AttachedFileOK
    <3> QED
      BY <3>2, <3>3
  <2>3. ASSUME NEW r \in Slots, NEW f, f = vm[v].disk[r], f # NoFile, Noted(f) PROVE Noted(f)'
    BY <1>4, <1>7, <2>3
  <2> QED
    BY <2>1, <2>2, <2>3 DEF VmOK
<1>9. ASSUME NEW e \in Disks PROVE NotedOK(e)' /\ CacheOK(e)'
  <2>1. NotedOK(e) /\ CacheOK(e)
    BY DEF FilesInv, CoreInv
  <2>2. CASE e # d
    BY <1>1, <1>2, <2>1, <2>2 DEF NotedOK, CacheOK
  <2>3. CASE e = d
    BY <1>1, <2>1, <2>3 DEF NotedOK
  <2> QED
    BY <2>2, <2>3
<1>10. ASSUME NEW n \in Machines PROVE MachineOK(n)'
  <2>0. MachineOK(n) /\ StageOK(n) /\ CopyOK(n)
    BY DEF FilesInv, CoreInv
  <2>1. VmOfOK(n)'
    BY <2>0 DEF MachineOK, VmOfOK, SameKept
  <2>2. OwnedOK(n)'
    BY <1>1, <2>0 DEF MachineOK, OwnedOK, SameKept
  <2>3. KeptOK(n)'
    <3> SUFFICES ASSUME Id(n) # NoVm, NEW r \in Slots, NEW f, f = vm[Id(n)].disk[r], f # NoFile
                 PROVE  /\ Kept(n, r) # NoDisk => f.of = Kept(n, r) /\ disk'[f.of].file \in {f, NoFile}
                        /\ Kept(n, r) = NoDisk => Ending(n) /\ Secret(f)'
      BY DEF KeptOK, SameKept
    <3>1. /\ Kept(n, r) # NoDisk => f.of = Kept(n, r) /\ disk[f.of].file \in {f, NoFile}
          /\ Kept(n, r) = NoDisk => Ending(n) /\ Secret(f)
      BY <2>0 DEF MachineOK, KeptOK
    <3> QED
      BY <1>1, <1>6, <3>1
  <2>4. ReportOK(n)'
    <3> SUFFICES ASSUME NEW r \in Slots, NEW f, f = got[n].disk[r], f # NoFile
                 PROVE  ReportedFileOK(n, r, f)'
      BY DEF ReportOK
    <3>1. ReportedFileOK(n, r, f) /\ f \in File
      BY <2>0 DEF MachineOK, ReportOK
    <3>2. obj[n].phase # "gone"
      BY <2>0 DEF CopyOK, NoReport, NoFiles
    <3>3. Kept(n, r) # d
      BY <3>2
    <3> QED
      BY <1>1, <1>7, <3>1, <3>3 DEF ReportedFileOK, SameKept
  <2>5. ShownOK(n)'
    BY <1>1, <1>2, <2>0 DEF MachineOK, ShownOK, Right, SameKept
  <2> QED
    BY <2>1, <2>2, <2>3, <2>4, <2>5 DEF MachineOK
<1> QED
  BY <1>3, <1>8, <1>9, <1>10 DEF CoreInv

-----------------------------------------------------------------------------
(* Steps of the caches, of SCVMM, and of the scripts.                      *)

(* A cached copy comes up to date.                                         *)
LEMMA SyncDiskCore ==
    ASSUME TypeInv, FilesInv, NEW d \in Disks, SyncDisk(d)
    PROVE  CoreInv'
<1> USE Facts
<1>1. UNCHANGED <<obj, disk, vm, files, used, pc, rd, mem, got>>
  BY DEF SyncDisk, apiVars, scvmmVars, workVars
<1>2. cdisk'[d] = disk[d] /\ \A e \in Disks \ {d} : cdisk'[e] = cdisk[e]
  BY DEF SyncDisk, TypeInv, TypeOK
<1>3. \A m \in Machines : (Ending(m)' <=> Ending(m)) /\ Id(m)' = Id(m) /\ \A s \in Slots : Kept(m, s)' = Kept(m, s)
  BY <1>1 DEF Ending, Id, Kept
<1>4. \A f : (Over(f)' <=> Over(f)) /\ (Noted(f)' <=> Noted(f)) /\ (Secret(f)' <=> Secret(f))
  BY <1>1, <1>3 DEF Over, Noted, Secret
<1>5. DistinctVms' /\ UsedOK'
  BY <1>1, <1>3 DEF FilesInv, CoreInv, DistinctVms, UsedOK
<1>6. ASSUME NEW v \in VmIds PROVE VmOK(v)'
  BY <1>1, <1>3, <1>4 DEF FilesInv, CoreInv, VmOK, AttachedFileOK
<1>7. ASSUME NEW e \in Disks PROVE NotedOK(e)' /\ CacheOK(e)'
  <2>1. NotedOK(e) /\ CacheOK(e)
    BY DEF FilesInv, CoreInv
  <2>2. NotedOK(e)'
    BY <1>1, <1>3, <2>1 DEF NotedOK
  <2>3. CASE e # d
    BY <1>1, <1>2, <1>4, <2>1, <2>2, <2>3 DEF CacheOK
  <2>4. CASE e = d
    BY <1>1, <1>2, <2>1, <2>2, <2>4 DEF CacheOK, NotedOK
  <2> QED
    BY <2>3, <2>4
<1>8. ASSUME NEW n \in Machines PROVE MachineOK(n)'
  <2>0. MachineOK(n)
    BY DEF FilesInv, CoreInv
  <2>1. VmOfOK(n)' /\ OwnedOK(n)'
    BY <1>1, <1>3, <2>0 DEF MachineOK, VmOfOK, OwnedOK
  <2>2. KeptOK(n)'
    BY <1>1, <1>3, <1>4, <2>0 DEF MachineOK, KeptOK
  <2>3. ReportOK(n)'
    BY <1>1, <1>3, <1>4, <2>0 DEF MachineOK, ReportOK, ReportedFileOK
  <2>4. ShownOK(n)'
    BY <1>1, <1>2, <1>3, <1>4, <2>0 DEF MachineOK, ShownOK, Right
  <2> QED
    BY <2>1, <2>2, <2>3, <2>4 DEF MachineOK
<1> QED
  BY <1>5, <1>6, <1>7, <1>8 DEF CoreInv

(* What may have gone stays gone when files are removed.                   *)
LEMMA RemovePersistentDiskCore ==
    ASSUME TypeInv, FilesInv, NEW d \in Disks, RemovePersistentDisk(d)
    PROVE  CoreInv'
<1> USE Facts
<1>1. UNCHANGED <<obj, disk, cdisk, vm, used, pc, rd, mem, got>> /\ files' \subseteq files
  BY DEF RemovePersistentDisk, apiVars, cacheVars, workVars
<1>3. \A m \in Machines : (Ending(m)' <=> Ending(m)) /\ Id(m)' = Id(m) /\ \A s \in Slots : Kept(m, s)' = Kept(m, s)
  BY <1>1 DEF Ending, Id, Kept
<1>4. \A f : (Over(f) => Over(f)') /\ (Noted(f)' <=> Noted(f)) /\ (Secret(f)' <=> Secret(f))
  BY <1>1, <1>3 DEF Over, Noted, Secret
<1>5. DistinctVms' /\ UsedOK'
  BY <1>1, <1>3 DEF FilesInv, CoreInv, DistinctVms, UsedOK
<1>6. ASSUME NEW v \in VmIds PROVE VmOK(v)'
  BY <1>1, <1>3, <1>4 DEF FilesInv, CoreInv, VmOK, AttachedFileOK
<1>7. ASSUME NEW e \in Disks PROVE NotedOK(e)' /\ CacheOK(e)'
  BY <1>1, <1>3, <1>4 DEF FilesInv, CoreInv, NotedOK, CacheOK
<1>8. ASSUME NEW n \in Machines PROVE MachineOK(n)'
  <2>0. MachineOK(n)
    BY DEF FilesInv, CoreInv
  <2>1. VmOfOK(n)' /\ OwnedOK(n)'
    BY <1>1, <1>3, <2>0 DEF MachineOK, VmOfOK, OwnedOK
  <2>2. KeptOK(n)'
    BY <1>1, <1>3, <1>4, <2>0 DEF MachineOK, KeptOK
  <2>3. ReportOK(n)'
    BY <1>1, <1>3, <1>4, <2>0 DEF MachineOK, ReportOK, ReportedFileOK
  <2>4. ShownOK(n)'
    BY <1>1, <1>3, <1>4, <2>0 DEF MachineOK, ShownOK, Right
  <2> QED
    BY <2>1, <2>2, <2>3, <2>4 DEF MachineOK
<1> QED
  BY <1>5, <1>6, <1>7, <1>8 DEF CoreInv

(* A VM is created for a machine that has none, which may not learn of it. *)
LEMMA CreateVMCore ==
    ASSUME TypeInv, FilesInv, NoSlotTwice, NEW m \in Machines, NEW v \in VmIds, CreateVM(v, m),
           UNCHANGED <<obj, disk, cdisk, got>>, SameKept,
           pc[m] = "create", obj[m].phase # "gone", ~ Ending(m), obj[m].id = NoVm, Id(m) = NoVm,
           \A n \in Machines :
               (Ending(n)' <=> Ending(n)) /\ (Id(n)' = Id(n) \/ (n = m /\ Id(n)' = v))
    PROVE  CoreInv' /\ \A f : Over(f) => Over(f)'
<1> USE Facts
<1> DEFINE File2(s) == IF mem[m].disk[s] # NoDisk /\ file[m][s] = NoFile
                       THEN [of |-> mem[m].disk[s], by |-> v] ELSE NoFile
<1>1. /\ files' = files /\ used' = used /\ vm[v].st = "unused"
      /\ \A w \in VmIds \ {v} : vm'[w] = vm[w]
      /\ vm'[v].st = "preparing" /\ vm'[v].out = 0 /\ \A s \in Slots : vm'[v].disk[s] = File2(s)
  BY DEF CreateVM, TypeInv, TypeOK
<1>2. \A n \in Machines : obj[n].id # v /\ Id(n) # v
  <2>1. \A n \in Machines : Id(n) # v
    BY <1>1 DEF FilesInv, CoreInv, MachineOK, VmOfOK
  <2> QED
    BY <2>1, IdRecorded DEF FilesInv
<1>3. \A f : (Noted(f)' <=> Noted(f)) /\ (Secret(f)' <=> Secret(f))
  BY <1>1 DEF Noted, Secret
<1>4. ASSUME NEW s \in Slots, NEW f, f = vm'[v].disk[s], f # NoFile
      PROVE  /\ f.of = Kept(m, s) /\ Kept(m, s) # NoDisk /\ f.by = v
             /\ disk[f.of].file = NoFile /\ Secret(f)
  <2>1. /\ f = [of |-> mem[m].disk[s], by |-> v] /\ file[m][s] = NoFile
        /\ Kept(m, s) = mem[m].disk[s] /\ Kept(m, s) # NoDisk
    BY <1>1, <1>4 DEF Kept
  <2>2. f.of = Kept(m, s) /\ f.by = v
    BY <2>1
  <2>3. Right(m, s, NoFile)
    BY <2>1 DEF FilesInv, StageOK, LookedUp
  <2>4. disk[f.of].file = NoFile
    BY <2>2, <2>3 DEF Right
  <2>5. f \notin used
    BY <1>1, <2>2 DEF FilesInv, CoreInv, UsedOK
  <2>6. f \in File
    BY <2>1, <2>2 DEF File
  <2> QED
    BY <2>1, <2>2, <2>4, <2>5, <2>6 DEF Secret, Noted
<1>5. \A f : Over(f) => Over(f)'
  <2> SUFFICES ASSUME NEW f, Over(f) PROVE Over(f)'
    OBVIOUS
  <2>1. f.by # v
    BY <1>2 DEF Over
  <2>2. \A s \in Slots : vm'[v].disk[s] # f \/ f = NoFile
    BY <1>4, <2>1
  <2>3. \A s \in Slots : vm[v].disk[s] # f
    BY DEF Over
  <2>4. vm[v].disk = NoFiles /\ \E s \in Slots : TRUE
    BY <1>1, Values DEF FilesInv, CoreInv, VmOK
  <2>5. f # NoFile
    BY <2>3, <2>4 DEF NoFiles
  <2> QED
    BY <1>1, <2>2, <2>5 DEF Over
<1>6. DistinctVms' /\ UsedOK'
  <2>1. DistinctVms'
    BY <1>2 DEF FilesInv, CoreInv, DistinctVms
  <2>2. ASSUME NEW f \in used', f.by # NoVm PROVE vm'[f.by].st # "unused"
    <3>1. f \in used /\ f \in File
      BY <1>1 DEF TypeInv, TypeOK
    <3>2. vm[f.by].st # "unused" /\ f.by \in VmIds
      BY <2>2, <3>1 DEF FilesInv, CoreInv, UsedOK
    <3> QED
      BY <1>1, <3>2
  <2> QED
    BY <2>1, <2>2 DEF UsedOK
<1>7. ASSUME NEW w \in VmIds PROVE VmOK(w)'
  <2>1. VmOK(w)
    BY DEF FilesInv, CoreInv
  <2>2. CASE w # v
    <3>1. vm'[w] = vm[w]
      BY <1>1, <2>2
    <3>2. (\A n \in Machines : Id(n)' # w) => (\A n \in Machines : Id(n) # w)
      BY <2>2
    <3>3. ASSUME NEW f, AttachedFileOK(w, f) PROVE AttachedFileOK(w, f)'
      BY <1>1, <1>3, <3>1, <3>2, <3>3 DEF AttachedFileOK
    <3> QED
      BY <1>3, <2>1, <3>1, <3>3 DEF VmOK
  <2>3. CASE w = v
    <3>1. ASSUME NEW s \in Slots, NEW f, f = vm'[v].disk[s], f # NoFile PROVE AttachedFileOK(v, f)'
      BY <1>1, <1>3, <1>4, <3>1 DEF AttachedFileOK
    <3>2. \A r, s \in Slots : vm'[v].disk[r] # NoFile /\ vm'[v].disk[s] # NoFile
             /\ vm'[v].disk[r].of = vm'[v].disk[s].of => r = s
      BY <1>4 DEF NoSlotTwice
    <3> QED
      BY <1>1, <2>3, <3>1, <3>2 DEF VmOK
  <2> QED
    BY <2>2, <2>3
<1>8. ASSUME NEW e \in Disks PROVE NotedOK(e)' /\ CacheOK(e)'
  <2>1. NotedOK(e) /\ CacheOK(e)
    BY DEF FilesInv, CoreInv
  <2>2. NotedOK(e)'
    BY <1>1, <1>2, <2>1 DEF NotedOK
  <2>3. CacheOK(e)'
    BY <1>5, <2>1 DEF CacheOK
  <2> QED
    BY <2>2, <2>3
<1>9. ASSUME NEW n \in Machines PROVE MachineOK(n)'
  <2>0. MachineOK(n) /\ (Id(n) # NoVm => vm'[Id(n)] = vm[Id(n)])
    BY <1>1, <1>2 DEF FilesInv, CoreInv
  <2>1. OwnedOK(n)'
    BY <2>0 DEF MachineOK, OwnedOK, SameKept
  <2>2. CASE Id(n)' = Id(n)
    <3>1. VmOfOK(n)'
      BY <2>0, <2>2 DEF MachineOK, VmOfOK, SameKept
    <3>2. KeptOK(n)'
      BY <1>3, <2>0, <2>2 DEF MachineOK, KeptOK, SameKept
    <3>3. ReportOK(n)'
      BY <1>3, <2>0, <2>2 DEF MachineOK, ReportOK, ReportedFileOK, SameKept
    <3>4. ShownOK(n)'
      BY <1>5, <2>0, <2>2 DEF MachineOK, ShownOK, Right, SameKept
    <3> QED
      BY <2>1, <3>1, <3>2, <3>3, <3>4 DEF MachineOK
  <2>3. CASE n = m /\ Id(n)' = v
    <3>1. VmOfOK(n)'
      BY <1>1, <2>3 DEF VmOfOK
    <3>2. KeptOK(n)'
      BY <1>3, <1>4, <2>3 DEF KeptOK, SameKept
    <3>3. ReportOK(n)'
      BY <2>0, <2>3 DEF MachineOK, ReportOK, ReportedFileOK
    <3>4. ShownOK(n)'
      BY <1>5, <2>0, <2>3 DEF MachineOK, ShownOK, Right, SameKept
    <3> QED
      BY <2>1, <3>1, <3>2, <3>3, <3>4 DEF MachineOK
  <2> QED
    BY <2>2, <2>3
<1>10. CoreInv'
  BY <1>6, <1>7, <1>8, <1>9 DEF CoreInv
<1> QED
  BY <1>5, <1>10

(* What may be attached for the disk a machine keeps in a slot.            *)
Fits(m, s, f) ==
    /\ Kept(m, s) # NoDisk /\ f.of = Kept(m, s) /\ disk[f.of].file \in {f, NoFile}
    /\ Noted(f) \/ f.by = Id(m)
    /\ ~ Over(f)

SameView ==
    /\ UNCHANGED <<obj, disk, cdisk, got>> /\ SameKept
    /\ \A n \in Machines : Id(n)' = Id(n) /\ (Ending(n)' <=> Ending(n))

(* The VM of a machine that is not ending gets a disk or is started.       *)
LEMMA GrowingCore ==
    ASSUME TypeInv, FilesInv, NoSlotTwice, SameView, NEW m \in Machines, NEW v \in VmIds, NEW new \in Vm,
           v = Id(m), obj[m].id = v, obj[m].phase # "gone", ~ Ending(m),
           vm[v].st \in {"off", "running"}, new.st \in {"off", "running"},
           vm' = [vm EXCEPT ![v] = new],
           \A s \in Slots :
               new.disk[s] = vm[v].disk[s] \/ (vm[v].disk[s] = NoFile /\ Fits(m, s, new.disk[s])),
           \A f \in files' \ files : \E s \in Slots : new.disk[s] = f,
           used \subseteq used', used' \subseteq File,
           \A f \in used' \ used : \E s \in Slots : new.disk[s] = f,
           new.st = "running" => \A s \in Slots : new.disk[s] # NoFile => new.disk[s] \in used'
    PROVE  /\ CoreInv' /\ \A f : Over(f) => Over(f)'
           /\ \A w \in VmIds \ {v}, r \in Slots :
                vm[w].disk[r] # NoFile /\ Secret(vm[w].disk[r]) => Secret(vm[w].disk[r])'
<1> USE Facts DEF SameView
<1>1. vm'[v] = new /\ \A w \in VmIds \ {v} : vm'[w] = vm[w]
  BY DEF TypeInv, TypeOK
<1>2. \A f : Noted(f)' <=> Noted(f)
  BY DEF Noted
<1>0. MachineOK(m) /\ VmOK(v) /\ \A s \in Slots : new.disk[s] \in File \cup {NoFile}
  BY DEF FilesInv, CoreInv, Vm, Attached
(* All the VM has afterwards fits. *)
<1>3. ASSUME NEW s \in Slots, NEW f, f = new.disk[s], f # NoFile
      PROVE  /\ f.of = Kept(m, s) /\ Kept(m, s) # NoDisk /\ disk[f.of].file \in {f, NoFile}
             /\ Noted(f) \/ f.by = v
             /\ ~ Over(f)
  <2>1. CASE f = vm[v].disk[s]
    <3>1. /\ Kept(m, s) # NoDisk => f.of = Kept(m, s) /\ disk[f.of].file \in {f, NoFile}
          /\ Kept(m, s) = NoDisk => Ending(m)
      BY <1>0, <1>3, <2>1 DEF MachineOK, KeptOK
    <3>2. AttachedFileOK(v, f)
      BY <1>0, <1>3, <2>1 DEF VmOK
    <3>3. ~ Over(f)
      BY <2>1 DEF Over
    <3> QED
      BY <3>1, <3>2, <3>3 DEF AttachedFileOK
  <2>2. CASE Fits(m, s, f)
    BY <2>2 DEF Fits
  <2> QED
    BY <1>3, <2>1, <2>2
(* A secret of another VM is not let out. *)
<1>4. ASSUME NEW w \in VmIds \ {v}, NEW r \in Slots, NEW g, g = vm[w].disk[r], g # NoFile, ~ Noted(g)
      PROVE  (g \in used' <=> g \in used) /\ (Secret(g)' <=> Secret(g))
  <2>1. g \in File /\ AttachedFileOK(w, g)
    BY <1>4 DEF FilesInv, CoreInv, VmOK
  <2>2. g.by = w
    BY <1>4, <2>1 DEF AttachedFileOK
  <2>3. \A s \in Slots : new.disk[s] # g
    BY <1>3, <1>4, <2>2
  <2> QED
    BY <1>2, <2>3 DEF Secret
<1>5. \A f : Over(f) => Over(f)'
  <2> SUFFICES ASSUME NEW f, Over(f) PROVE Over(f)'
    OBVIOUS
  <2>1. \A s \in Slots : new.disk[s] # f
    <3> SUFFICES ASSUME NEW s \in Slots, new.disk[s] = f PROVE FALSE
      OBVIOUS
    <3>1. f = NoFile
      BY <1>3
    <3>2. vm[v].disk[s] = NoFile \/ vm[v].disk[s] = f
      OBVIOUS
    <3> QED
      BY <3>1, <3>2 DEF Over
  <2> QED
    BY <1>1, <2>1 DEF Over
<1>6. DistinctVms' /\ UsedOK'
  <2>1. DistinctVms'
    BY DEF FilesInv, CoreInv, DistinctVms
  <2>2. ASSUME NEW f \in used', f.by # NoVm PROVE vm'[f.by].st # "unused"
    <3>1. f \in File /\ f.by \in VmIds
      BY <2>2
    <3>2. CASE f \in used
      <4>1. vm[f.by].st # "unused"
        BY <2>2, <3>2 DEF FilesInv, CoreInv, UsedOK
      <4> QED
        BY <1>1, <3>1, <4>1
    <3>3. CASE f \notin used
      <4>1. PICK s \in Slots : new.disk[s] = f
        BY <3>3
      <4>2. CASE f.by = v
        BY <1>1, <4>2
      <4>3. CASE Noted(f)
        <5>1. NotedOK(f.of) /\ f.of \in Disks
          BY <3>1 DEF FilesInv, CoreInv
        <5>2. PICK n \in Machines : obj[n].id = f.by
          BY <2>2, <3>1, <4>3, <5>1 DEF Noted, NotedOK
        <5>3. Id(n) = f.by /\ VmOfOK(n)
          BY <2>2, <5>2, IdRecorded DEF FilesInv, CoreInv, MachineOK
        <5> QED
          BY <1>1, <2>2, <3>1, <5>3 DEF VmOfOK
      <4> QED
        BY <1>3, <3>1, <4>1, <4>2, <4>3
    <3> QED
      BY <3>2, <3>3
  <2> QED
    BY <2>1, <2>2 DEF UsedOK
<1>7. ASSUME NEW w \in VmIds PROVE VmOK(w)'
  <2>1. VmOK(w)
    BY DEF FilesInv, CoreInv
  <2>2. CASE w # v
    <3>1. vm'[w] = vm[w]
      BY <1>1, <2>2
    <3>2. ASSUME NEW s \in Slots, NEW f, f = vm[w].disk[s], f # NoFile PROVE AttachedFileOK(w, f)'
      <4>1. AttachedFileOK(w, f)
        BY <2>1, <3>2 DEF VmOK
      <4>2. CASE ~ Noted(f)
        BY <1>2, <1>4, <2>2, <3>1, <3>2, <4>1, <4>2 DEF AttachedFileOK
      <4>3. CASE Noted(f)
        <5>1. vm[w].st # "preparing" /\ ~ \A n \in Machines : Id(n) # w
          BY <4>1, <4>3 DEF AttachedFileOK, Secret
        <5>2. vm[w].st # "removing"
          <6>1. PICK n \in Machines : Id(n) = w
            BY <5>1
          <6>2. MachineOK(n)
            BY DEF FilesInv, CoreInv
          <6>3. vm[w].st = "removing" => Secret(f)
            BY <3>2, <6>1, <6>2 DEF MachineOK, VmOfOK, KeptOK
          <6> QED
            BY <4>3, <6>3 DEF Secret
        <5> QED
          BY <1>2, <3>1, <4>1, <4>3, <5>1, <5>2 DEF AttachedFileOK
      <4> QED
        BY <4>2, <4>3
    <3> QED
      BY <1>2, <2>1, <3>1, <3>2 DEF VmOK
  <2>3. CASE w = v
    <3>1. ASSUME NEW s \in Slots, NEW f, f = new.disk[s], f # NoFile PROVE AttachedFileOK(v, f)'
      <4>1. Noted(f) \/ (f.by = v /\ disk[f.of].file = NoFile)
        BY <1>3, <3>1 DEF Noted
      <4> QED
        BY <1>1, <1>2, <3>1, <4>1 DEF AttachedFileOK
    <3>2. \A r, s \in Slots : new.disk[r] # NoFile /\ new.disk[s] # NoFile
             /\ new.disk[r].of = new.disk[s].of => r = s
      BY <1>3 DEF NoSlotTwice
    <3> QED
      BY <1>1, <2>3, <3>1, <3>2 DEF VmOK
  <2> QED
    BY <2>2, <2>3
<1>8. ASSUME NEW e \in Disks PROVE NotedOK(e)' /\ CacheOK(e)'
  <2>1. NotedOK(e) /\ CacheOK(e)
    BY DEF FilesInv, CoreInv
  <2>2. NotedOK(e)'
    <3>1. \A s \in Slots : \A f : f # NoFile /\ vm[v].disk[s] = f => vm'[v].disk[s] = f
      BY <1>1
    <3> QED
      BY <1>1, <2>1, <3>1 DEF NotedOK
  <2>3. CacheOK(e)'
    BY <1>5, <2>1 DEF CacheOK
  <2> QED
    BY <2>2, <2>3
<1>9. ASSUME NEW n \in Machines PROVE MachineOK(n)'
  <2>0. MachineOK(n)
    BY DEF FilesInv, CoreInv
  <2>1. OwnedOK(n)'
    BY <2>0 DEF MachineOK, OwnedOK, SameKept
  <2>2. CASE Id(n) # v
    <3>1. Id(n) # NoVm => vm'[Id(n)] = vm[Id(n)]
      BY <1>1, <2>2
    <3>2. VmOfOK(n)'
      BY <2>0, <3>1 DEF MachineOK, VmOfOK, SameKept
    <3>3. KeptOK(n)'
      <4> SUFFICES ASSUME Id(n) # NoVm, NEW s \in Slots, NEW f, f = vm[Id(n)].disk[s], f # NoFile
                   PROVE  /\ Kept(n, s) # NoDisk => f.of = Kept(n, s) /\ disk[f.of].file \in {f, NoFile}
                          /\ Kept(n, s) = NoDisk => Ending(n) /\ Secret(f)'
        BY <3>1 DEF KeptOK, SameKept
      <4>1. /\ Kept(n, s) # NoDisk => f.of = Kept(n, s) /\ disk[f.of].file \in {f, NoFile}
            /\ Kept(n, s) = NoDisk => Ending(n) /\ Secret(f)
        BY <2>0 DEF MachineOK, KeptOK
      <4>2. Id(n) \in VmIds \ {v}
        BY <2>2
      <4>3. Secret(f) => Secret(f)'
        BY <1>4, <4>2 DEF Secret
      <4> QED
        BY <4>1, <4>3
    <3>4. ReportOK(n)'
      BY <1>2, <2>0, <3>1 DEF MachineOK, ReportOK, ReportedFileOK, SameKept
    <3>5. ShownOK(n)'
      BY <1>5, <2>0, <3>1 DEF MachineOK, ShownOK, Right, SameKept
    <3> QED
      BY <2>1, <3>2, <3>3, <3>4, <3>5 DEF MachineOK
  <2>3. CASE Id(n) = v
    <3>1. n = m /\ v # NoVm
      BY <2>3 DEF FilesInv, CoreInv, DistinctVms
    <3>2. VmOfOK(n)'
      BY <1>1, <2>0, <2>3, <3>1 DEF VmOfOK
    <3>3. KeptOK(n)'
      BY <1>1, <1>3, <3>1 DEF KeptOK, SameKept
    <3>4. ReportOK(n)'
      <4> SUFFICES ASSUME NEW s \in Slots, NEW f, f = got[m].disk[s], f # NoFile
                   PROVE  ReportedFileOK(m, s, f)'
        BY <3>1 DEF ReportOK
      <4>1. ReportedFileOK(m, s, f)
        BY <2>0, <3>1 DEF MachineOK, ReportOK
      <4>2. vm'[v].disk[s] = f
        BY <1>1, <3>1, <4>1 DEF ReportedFileOK
      <4> QED
        BY <1>1, <1>2, <3>1, <4>1, <4>2 DEF ReportedFileOK, SameKept
    <3>5. ShownOK(n)'
      <4> SUFFICES ASSUME NEW s \in Slots, Kept(m, s) # NoDisk, NEW g, g = cdisk[Kept(m, s)].file
                   PROVE  Right(m, s, g)'
        BY <3>1 DEF ShownOK, SameKept
      <4>1. Right(m, s, g)
        BY <2>0, <3>1 DEF MachineOK, ShownOK
      <4>2. CASE g = NoFile /\ disk[Kept(m, s)].file = vm[v].disk[s]
        BY <1>1, <3>1, <4>2 DEF Right, SameKept
      <4> QED
        BY <1>5, <4>1, <4>2 DEF Right, SameKept
    <3> QED
      BY <2>1, <3>2, <3>3, <3>4, <3>5 DEF MachineOK
  <2> QED
    BY <2>2, <2>3
<1>10. CoreInv'
  BY <1>6, <1>7, <1>8, <1>9 DEF CoreInv
<1>11. \A w \in VmIds \ {v}, r \in Slots :
          vm[w].disk[r] # NoFile /\ Secret(vm[w].disk[r]) => Secret(vm[w].disk[r])'
  BY <1>4 DEF Secret
<1> QED
  BY <1>5, <1>10, <1>11

(* SCVMM takes a VM down or finishes a task: what the VM has stays or is   *)
(* noted, unless the VM goes.                                              *)
Dropped(v, new, s) ==
    /\ new.disk[s] = NoFile /\ vm[v].st \in {"updating", "removing"}
    /\ vm[v].st = "removing" \/ Noted(vm[v].disk[s])

LEMMA SettlingCore ==
    ASSUME TypeInv, FilesInv, NEW v \in VmIds, NEW new \in Vm,
           UNCHANGED <<obj, disk, cdisk, used>>, SameKept,
           \A n \in Machines : Id(n)' = Id(n) /\ (Ending(n)' <=> Ending(n)),
           \A n \in Machines : \A s \in Slots : got'[n].disk[s] \in {got[n].disk[s], NoFile},
           vm' = [vm EXCEPT ![v] = new],
           vm[v].st \notin {"unused", "removed"}, new.st \notin {"unused", "preparing", "running"},
           \A s \in Slots : new.disk[s] = vm[v].disk[s] \/ Dropped(v, new, s),
           \A f \in files' \ files : \E s \in Slots : new.disk[s] = f,
           new.st \in {"creating", "off"} \/ \E m \in Machines : obj[m].id = v /\ Ending(m),
           new.st = "removed" => new.disk = NoFiles,
           new.st \in {"removing", "removed"} =>
               \A n \in Machines : Id(n) = v => \A s \in Slots : Kept(n, s) = NoDisk,
           new.st = "removing" => \A s \in Slots : new.disk[s] # NoFile => new.disk[s] \notin used,
           new.st = "updating" => new.out \in Slots,
           \A s \in Slots : new.disk[s] # NoFile /\ new.st = "updating" /\ new.out = s => Noted(new.disk[s])
    PROVE  CoreInv' /\ \A f : f # NoFile /\ Over(f) => Over(f)'
<1> USE Facts
<1>1. vm'[v] = new /\ \A w \in VmIds \ {v} : vm'[w] = vm[w]
  BY DEF TypeInv, TypeOK
<1>2. \A f : (Noted(f)' <=> Noted(f)) /\ (Secret(f)' <=> Secret(f))
  BY DEF Noted, Secret
<1>3. \A w \in VmIds, s \in Slots : vm'[w].disk[s] # NoFile => vm'[w].disk[s] = vm[w].disk[s]
  BY <1>1 DEF Dropped
<1>4. \A f : f # NoFile /\ Over(f) => Over(f)'
  BY <1>1, <1>3 DEF Over
<1>5. DistinctVms' /\ UsedOK'
  <2>1. ASSUME NEW f \in used, f.by # NoVm PROVE vm'[f.by].st # "unused"
    <3>1. f \in File
      BY DEF TypeInv, TypeOK
    <3>2. vm[f.by].st # "unused" /\ f.by \in VmIds
      BY <2>1, <3>1 DEF FilesInv, CoreInv, UsedOK
    <3> QED
      BY <1>1, <3>2
  <2> QED
    BY <2>1 DEF FilesInv, CoreInv, DistinctVms, UsedOK
<1>6. ASSUME NEW w \in VmIds PROVE VmOK(w)'
  <2>1. VmOK(w)
    BY DEF FilesInv, CoreInv
  <2>2. CASE w # v
    <3>1. vm'[w] = vm[w]
      BY <1>1, <2>2
    <3>2. ASSUME NEW f, AttachedFileOK(w, f) PROVE AttachedFileOK(w, f)'
      BY <1>2, <3>1, <3>2 DEF AttachedFileOK
    <3> QED
      BY <1>2, <2>1, <3>1, <3>2 DEF VmOK
  <2>3. CASE w = v
    <3>1. ASSUME NEW s \in Slots, NEW f, f = new.disk[s], f # NoFile PROVE AttachedFileOK(v, f)'
      <4>1. f = vm[v].disk[s]
        BY <3>1 DEF Dropped
      <4>2. AttachedFileOK(v, f)
        BY <2>1, <2>3, <3>1, <4>1 DEF VmOK
      <4>3. new.st = "removing" => f \notin used
        BY <3>1
      <4> QED
        BY <1>1, <1>2, <4>2, <4>3 DEF AttachedFileOK
    <3>2. \A r, s \in Slots : new.disk[r] # NoFile /\ new.disk[s] # NoFile
             /\ new.disk[r].of = new.disk[s].of => r = s
      <4>1. \A s \in Slots : new.disk[s] # NoFile => new.disk[s] = vm[v].disk[s]
        BY DEF Dropped
      <4> QED
        BY <2>1, <2>3, <4>1 DEF VmOK
    <3> QED
      BY <1>1, <1>2, <2>3, <3>1, <3>2 DEF VmOK
  <2> QED
    BY <2>2, <2>3
(* Only the VM of a machine that is ending loses a file. *)
<1>7. ASSUME NEW n \in Machines, Id(n) = v, NEW s \in Slots, new.disk[s] # vm[v].disk[s] PROVE Ending(n)
  <2>1. vm[v].st \in {"updating", "removing"}
    BY <1>7 DEF Dropped
  <2>2. VmOfOK(n)
    BY DEF FilesInv, CoreInv, MachineOK
  <2> QED
    BY <1>7, <2>1, <2>2 DEF VmOfOK
<1>8. ASSUME NEW e \in Disks PROVE NotedOK(e)' /\ CacheOK(e)'
  <2>1. NotedOK(e) /\ CacheOK(e)
    BY DEF FilesInv, CoreInv
  <2>2. NotedOK(e)'
    <3> DEFINE f == disk[e].file
    <3>1. ASSUME f # NoFile, f.by # NoVm, NEW m \in Machines, obj[m].id = f.by, ~ Ending(m)
          PROVE  \E s \in Slots : vm'[f.by].disk[s] = f
      <4>1. PICK s \in Slots : vm[f.by].disk[s] = f
        BY <2>1, <3>1 DEF NotedOK
      <4>2. Id(m) = f.by /\ f.by \in VmIds
        BY <3>1, IdRecorded DEF FilesInv
      <4> QED
        BY <1>1, <1>7, <3>1, <4>1, <4>2
    <3> QED
      BY <2>1, <3>1 DEF NotedOK
  <2>3. CacheOK(e)'
    BY <1>4, <2>1 DEF CacheOK
  <2> QED
    BY <2>2, <2>3
<1>9. ASSUME NEW n \in Machines PROVE MachineOK(n)'
  <2>0. MachineOK(n)
    BY DEF FilesInv, CoreInv
  <2>1. OwnedOK(n)'
    BY <2>0 DEF MachineOK, OwnedOK, SameKept
  <2>2. KeptOK(n)'
    <3> SUFFICES ASSUME Id(n) # NoVm, NEW s \in Slots, NEW f, f = vm'[Id(n)].disk[s], f # NoFile
                 PROVE  /\ Kept(n, s) # NoDisk => f.of = Kept(n, s) /\ disk[f.of].file \in {f, NoFile}
                        /\ Kept(n, s) = NoDisk => Ending(n) /\ Secret(f)
      BY <1>2 DEF KeptOK, SameKept
    <3>1. f = vm[Id(n)].disk[s]
      BY <1>3
    <3> QED
      BY <2>0, <3>1 DEF MachineOK, KeptOK
  <2>3. ReportOK(n)'
    <3> SUFFICES ASSUME NEW s \in Slots, NEW f, f = got[n].disk[s], f # NoFile
                 PROVE  ReportedFileOK(n, s, f)'
      BY DEF ReportOK
    <3>1. ReportedFileOK(n, s, f)
      BY <2>0 DEF MachineOK, ReportOK
    <3>2. Id(n) \in VmIds
      BY <3>1 DEF ReportedFileOK
    <3>3. CASE vm'[Id(n)].disk[s] = vm[Id(n)].disk[s]
      BY <1>1, <1>2, <3>1, <3>2, <3>3 DEF ReportedFileOK, SameKept
    <3>4. CASE Id(n) = v /\ new.disk[s] # vm[v].disk[s]
      <4>1. Ending(n) /\ Dropped(v, new, s)
        BY <1>7, <3>4
      <4>2. Kept(n, s) # NoDisk => Noted(vm[v].disk[s])
        BY <2>0, <3>2, <3>4, <4>1 DEF Dropped, MachineOK, VmOfOK
      <4>3. Kept(n, s) # NoDisk => Noted(f)
        BY <3>1, <3>4, <4>2 DEF ReportedFileOK
      <4> QED
        BY <1>1, <1>2, <3>1, <3>4, <4>1, <4>3 DEF ReportedFileOK, SameKept
    <3> QED
      BY <1>1, <3>2, <3>3, <3>4
  <2>4. ShownOK(n)'
    <3> SUFFICES ASSUME obj[n].phase # "gone", ~ Ending(n), NEW s \in Slots, Kept(n, s) # NoDisk,
                        NEW g, g = cdisk[Kept(n, s)].file
                 PROVE  Right(n, s, g)'
      BY DEF ShownOK, SameKept
    <3>1. Right(n, s, g)
      BY <2>0 DEF MachineOK, ShownOK
    <3>2. Id(n) # NoVm => vm'[Id(n)].disk[s] = vm[Id(n)].disk[s]
      BY <1>1, <1>7
    <3> QED
      BY <1>4, <3>1, <3>2 DEF Right, SameKept
  <2>5. VmOfOK(n)'
    <3>1. CASE Id(n) # v
      BY <1>1, <2>0, <3>1 DEF MachineOK, VmOfOK, SameKept
    <3>2. CASE Id(n) = v
      <4>1. new.st \in {"creating", "off"} \/ (Ending(n) /\ obj[n].id # NoVm)
        <5> SUFFICES ASSUME NEW m \in Machines, obj[m].id = v, Ending(m) PROVE Ending(n) /\ obj[n].id # NoVm
          OBVIOUS
        <5>1. Id(m) = v
          BY IdRecorded DEF FilesInv
        <5>2. m = n
          BY <3>2, <5>1 DEF FilesInv, CoreInv, DistinctVms
        <5> QED
          BY <5>2
      <4>2. new.st \in {"removing", "removed"} => \A s \in Slots : Kept(n, s) = NoDisk
        BY <3>2
      <4> QED
        BY <1>1, <3>2, <4>1, <4>2 DEF VmOfOK, SameKept
    <3> QED
      BY <3>1, <3>2
  <2> QED
    BY <2>1, <2>2, <2>3, <2>4, <2>5 DEF MachineOK
<1>10. CoreInv'
  BY <1>5, <1>6, <1>8, <1>9 DEF CoreInv
<1> QED
  BY <1>4, <1>10

-----------------------------------------------------------------------------
(* A machine whose reconcile does not take the step.                       *)
Left(n) ==
    /\ pc'[n] = pc[n] /\ rd'[n] = rd[n] /\ mem'[n] = mem[n] /\ got'[n] = got[n]
    /\ file'[n] = file[n] /\ at'[n] = at[n] /\ pick'[n] = pick[n]

(* What the step does to the disks, the files and the machine's VM.        *)
Around(n) ==
    /\ \A f : f # NoFile /\ Over(f) => Over(f)'
    /\ Id(n) # NoVm =>
          /\ vm[Id(n)].st = "removed" => vm'[Id(n)].st = "removed"
          /\ \A s \in Slots :
                \/ vm'[Id(n)].disk[s] = vm[Id(n)].disk[s]
                \/ vm'[Id(n)].disk[s] = NoFile /\ Ending(n)
          /\ \A s \in Slots : \A f :
                f = vm[Id(n)].disk[s] /\ f # NoFile /\ Secret(f) => Secret(f)'
    /\ obj[n].phase # "gone" =>
          \A s \in Slots : Kept(n, s) # NoDisk => disk'[Kept(n, s)].file = disk[Kept(n, s)].file
    /\ n \in current' /\ pc[n] = "update" => pick[n] \in fresh'
    /\ pc[n] = "new" => cdisk'[pick[n]].file = NoFile \/ cdisk'[pick[n]].file.by # NoVm

LEMMA LeftCopy ==
    ASSUME NEW n, CopyOK(n), Left(n), obj'[n] = obj[n]
    PROVE  CopyOK(n)'
  BY DEF CopyOK, Left

LEMMA LeftStage ==
    ASSUME TypeInv, NEW n \in Machines, CopyOK(n), StageOK(n), Left(n), Around(n),
           obj'[n].id = obj[n].id, obj'[n].disk = obj[n].disk,
           obj'[n].phase = "gone" => obj[n].phase = "gone" \/ Id(n) = NoVm
    PROVE  StageOK(n)'
<1> USE Facts
<1>1. Id(n)' = Id(n) /\ \A s \in Slots : Kept(n, s)' = Kept(n, s)
  BY DEF Id, Kept, Left
<1>2. ChoiceOK(n)'
  BY DEF ChoiceOK, StageOK, Left, Around
<1>3. ASSUME NEW s \in Slots, Kept(n, s) # NoDisk, pc[n] \in Forward, NEW g, Right(n, s, g)
      PROVE  Right(n, s, g)'
  <2>1. obj[n].phase # "gone" /\ ~ Ending(n)
    BY <1>3 DEF CopyOK, Forward, Claiming, Ending
  <2>2. disk'[Kept(n, s)].file = disk[Kept(n, s)].file
    BY <1>3, <2>1 DEF Around
  <2>3. Id(n) # NoVm => vm'[Id(n)].disk[s] = vm[Id(n)].disk[s]
    BY <2>1 DEF Around
  <2> QED
    BY <1>1, <1>3, <2>2, <2>3 DEF Right, Around
<1>4. LookedUp(n)'
  BY <1>1, <1>3 DEF LookedUp, StageOK, Left, Forward, Claiming
<1>5. pc[n] = "detach" => mem[n].disk[at[n]] # NoDisk /\ disk'[mem[n].disk[at[n]]].file # NoFile
  <2> SUFFICES ASSUME pc[n] = "detach" PROVE mem[n].disk[at[n]] # NoDisk /\ disk'[mem[n].disk[at[n]]].file # NoFile
    OBVIOUS
  <2>1. at[n] \in Slots
    BY DEF TypeInv, PlacesOK
  <2>2. Kept(n, at[n]) = mem[n].disk[at[n]] /\ obj[n].phase # "gone"
    BY DEF Kept, CopyOK, Backward
  <2> QED
    BY <2>1, <2>2 DEF StageOK, Around
<1>6. ASSUME Id(n) # NoVm
      PROVE  /\ obj'[n].phase = "gone" \/ pc[n] = "unfinalize" => vm'[Id(n)].st = "removed"
             /\ pc[n] \in Claiming \cup {"get"} =>
                   \A s \in Slots : vm'[Id(n)].disk[s] # NoFile => rd[n].disk[s] # NoDisk
             /\ pc[n] = "giveback" =>
                   \A s \in Slots : \A f : f = vm'[Id(n)].disk[s] /\ f # NoFile /\ got[n].disk[s] = NoFile =>
                       Secret(f)'
  <2>1. /\ vm[Id(n)].st = "removed" => vm'[Id(n)].st = "removed"
        /\ \A s \in Slots : vm'[Id(n)].disk[s] # NoFile => vm'[Id(n)].disk[s] = vm[Id(n)].disk[s]
        /\ \A s \in Slots : \A f : f = vm[Id(n)].disk[s] /\ f # NoFile /\ Secret(f) => Secret(f)'
    BY <1>6 DEF Around
  <2> QED
    BY <1>6, <2>1 DEF StageOK
<1>7. /\ pc'[n] = pc[n] /\ rd'[n] = rd[n] /\ mem'[n] = mem[n] /\ got'[n] = got[n] /\ at'[n] = at[n]
  BY DEF Left
<1>8. Id(n)' # NoVm =>
          /\ obj'[n].phase = "gone" \/ pc'[n] = "unfinalize" => vm'[Id(n)'].st = "removed"
          /\ pc'[n] \in Claiming \cup {"get"} =>
                \A s \in Slots : vm'[Id(n)'].disk[s] # NoFile => rd'[n].disk[s] # NoDisk
          /\ pc'[n] = "giveback" =>
                \A s \in Slots : \A f : f = vm'[Id(n)'].disk[s] /\ f # NoFile /\ got'[n].disk[s] = NoFile =>
                    Secret(f)'
  BY <1>1, <1>6, <1>7
<1>9. pc'[n] = "detach" => mem'[n].disk[at'[n]] # NoDisk /\ disk'[mem'[n].disk[at'[n]]].file # NoFile
  BY <1>5, <1>7
<1> QED
  BY <1>2, <1>4, <1>8, <1>9 DEF StageOK

(* A step keeps the invariant that keeps its core, if the machine that     *)
(* takes it, if any, comes to a place where it may be.                     *)
LEMMA Whole ==
    ASSUME TypeInv, FilesInv, CoreInv', NEW m,
           \A n \in Machines \ {m} : Left(n) /\ Around(n) /\ obj'[n] = obj[n],
           m \in Machines => CopyOK(m)' /\ StageOK(m)'
    PROVE  FilesInv'
<1> SUFFICES ASSUME NEW n \in Machines PROVE CopyOK(n)' /\ StageOK(n)'
  BY DEF FilesInv
<1>1. CASE n = m
  BY <1>1
<1>2. CASE n # m
  <2>1. CopyOK(n) /\ StageOK(n) /\ Left(n) /\ Around(n) /\ obj'[n] = obj[n]
    BY <1>2 DEF FilesInv
  <2> QED
    BY <2>1, LeftCopy, LeftStage
<1> QED
  BY <1>1, <1>2

LEMMA ReturnLeft ==
    ASSUME TypeInv, NEW m \in Machines, NEW again, Return(m, again)
    PROVE  /\ \A n \in Machines \ {m} : Left(n)
           /\ pc'[m] = "idle" /\ rd'[m] = NoMachine /\ mem'[m] = NoMachine
           /\ got'[m] = NoReport /\ at'[m] = 1
  BY DEF TypeInv, TypeOK, Return, Left

LEMMA GotoLeft ==
    ASSUME TypeInv, NEW m \in Machines, NEW label, Goto(m, label),
           \A n \in Machines \ {m} :
               /\ rd'[n] = rd[n] /\ mem'[n] = mem[n] /\ got'[n] = got[n]
               /\ file'[n] = file[n] /\ at'[n] = at[n] /\ pick'[n] = pick[n]
    PROVE  pc'[m] = label /\ \A n \in Machines \ {m} : Left(n)
  BY DEF TypeInv, TypeOK, Goto, Left

LEMMA PatchLeft ==
    ASSUME TypeInv, NEW m \in Machines, NEW new, Patch(m, new)
    PROVE  obj'[m] = new /\ \A n \in Machines \ {m} : obj'[n] = obj[n]
  BY DEF TypeInv, TypeOK, Patch

(* Only a machine's own reconcile goes on in a step of it.                 *)
LEMMA OthersLeft ==
    ASSUME TypeInv, NEW m \in Machines, Reconcile(m), NEW n \in Machines, n # m
    PROVE  Left(n) /\ obj'[n] = obj[n] /\ (n \in current' => n \in current)
<1> USE DEF TypeInv, TypeOK, Left, Goto, apiVars, cacheVars, scvmmVars, workVars
<1>0. (\E again \in BOOLEAN : Return(m, again)) => Left(n)
  BY ReturnLeft
<1>1. CASE Begin(m)
  BY <1>1 DEF Begin
<1>2. CASE AddFinalizer(m)
  BY <1>0, <1>2 DEF AddFinalizer, Patch, PatchFails
<1>3. CASE PatchReason(m)
  BY <1>0, <1>3 DEF PatchReason, Patch, PatchFails
<1>4. CASE ClaimDisk(m)
  BY <1>4 DEF ClaimDisk, Assign, NextSlot
<1>5. CASE UpdateClaim(m)
  BY <1>5 DEF UpdateClaim, WriteDisk, Assign, NextSlot
<1>6. CASE CreateClaim(m)
  BY <1>6 DEF CreateClaim, WriteDisk, Assign, NextSlot
<1>7. CASE GetVM(m)
  BY <1>0, <1>7 DEF GetVM
<1>8. CASE SendCreateVM(m)
  BY <1>8 DEF SendCreateVM
<1>9. CASE NoteDisks(m)
  BY <1>9 DEF NoteDisks, UpdateDisk, UpdateDiskFails, WriteDisk
<1>10. CASE ExpandDisks(m) \/ SendStartVM(m) \/ DetachDisk(m)
  BY <1>10 DEF ExpandDisks, SendStartVM, DetachDisk
<1>11. CASE GetVMInfo(m)
  BY <1>0, <1>11 DEF GetVMInfo, Patch, PatchFails
<1>12. CASE LookAtVM(m)
  <2>1. CASE Return(m, TRUE)
    BY <1>0, <1>12, <2>1 DEF LookAtVM
  <2>2. CASE got' = [got EXCEPT ![m] = Reported(mem[m].id)] /\ Goto(m, "giveback")
             /\ UNCHANGED <<rd, mem, file, at, pick, queued>>
    BY <1>12, <2>2 DEF LookAtVM
  <2> QED
    BY <1>12, <2>1, <2>2 DEF LookAtVM
<1>13. CASE GiveBack(m)
  <2>0. \A d, new : UpdateDisk(m, d, new) => UNCHANGED obj /\ current' \subseteq current
    BY DEF UpdateDisk, WriteDisk
  <2>1. UNCHANGED <<scvmmVars, obj, rd, file, pick, got>> /\ current' \subseteq current
    BY <1>13, <2>0 DEF GiveBack
  <2>2. pc'[n] = pc[n] /\ mem'[n] = mem[n] /\ at'[n] = at[n]
    BY <1>13 DEF GiveBack
  <2> QED
    BY <2>1, <2>2
<1>14. CASE SendRemoveVM(m)
  BY <1>0, <1>14 DEF SendRemoveVM
<1>15. CASE RemoveFinalizer(m)
  BY <1>0, <1>15 DEF RemoveFinalizer, Patch, PatchFails
<1> QED
  BY <1>1, <1>2, <1>3, <1>4, <1>5, <1>6, <1>7, <1>8, <1>9, <1>10, <1>11, <1>12, <1>13, <1>14, <1>15
  DEF Reconcile

LEMMA OwnChoice ==
    ASSUME TypeInv, FilesInv, NEW n \in Machines
    PROVE  /\ n \in current /\ pc[n] = "update" => pick[n] \in fresh
           /\ pc[n] = "new" => cdisk[pick[n]].file = NoFile \/ cdisk[pick[n]].file.by # NoVm
  BY DEF FilesInv, StageOK, ChoiceOK

LEMMA QuietStep ==
    ASSUME TypeInv, FilesInv, Idle, NEW m \in Machines,
           \A n \in Machines \ {m} : Left(n) /\ obj'[n] = obj[n] /\ (n \in current' => n \in current),
           fresh' = fresh, CopyOK(m)', StageOK(m)'
    PROVE  FilesInv'
<1>1. CoreInv'
  BY IdleCore DEF FilesInv
<1>2. \A f : Over(f) => Over(f)'
  BY IdRecorded DEF FilesInv, Over, Idle, StillWorks
<1>3. \A f : Secret(f) => Secret(f)'
  BY DEF Secret, Noted, Idle
<1>4. ASSUME NEW n \in Machines \ {m} PROVE Around(n)
  BY <1>2, <1>3, OwnChoice DEF Around, Idle
<1> QED
  BY <1>1, <1>4, Whole

(* Reconcile returns: what it has recorded is what it worked with.         *)
LEMMA ReturnStep ==
    ASSUME TypeInv, FilesInv, NEW m \in Machines, NEW again, Return(m, again),
           pc[m] # "idle",
           UNCHANGED <<disk, cdisk, fresh, vm, files, used, current>>,
           \A n \in Machines \ {m} : obj'[n] = obj[n],
           obj'[m].id = mem[m].id, obj[m].id = obj'[m].id \/ obj[m].id = NoVm,
           \A s \in Slots : obj'[m].disk[s] = mem[m].disk[s] \/
               (obj'[m].disk[s] = NoDisk /\ (Id(m) # NoVm => vm[Id(m)].disk[s] = NoFile)),
           obj[m].phase = "gone" => obj'[m].phase = "gone",
           obj'[m].phase = "gone" /\ Id(m) # NoVm => vm[Id(m)].st = "removed",
           obj[m].phase = "deleting" => obj'[m].phase \in {"deleting", "gone"},
           obj'[m].phase \in {"absent", "new"} => obj'[m].id = NoVm /\ obj'[m].disk = NoDisks
    PROVE  FilesInv'
<1>1. /\ pc'[m] = "idle" /\ rd'[m] = NoMachine /\ mem'[m] = NoMachine /\ got'[m] = NoReport /\ at'[m] = 1
      /\ \A n \in Machines \ {m} : Left(n)
  BY ReturnLeft
<1>2. ASSUME NEW n \in Machines PROVE StillWorks(n)
  <2>1. CASE n # m
    <3>1. Left(n) /\ obj'[n] = obj[n]
      BY <1>1, <2>1
    <3>2. Id(n)' = Id(n) /\ (Ending(n)' <=> Ending(n)) /\ \A s \in Slots : Kept(n, s)' = Kept(n, s)
      BY <3>1 DEF Left, Id, Ending, Kept
    <3> QED
      BY <3>1, <3>2 DEF StillWorks, Reports, Left
  <2>2. CASE n = m
    <3>1. Id(m) = mem[m].id /\ Id(m)' = obj'[m].id
      BY <1>1 DEF Id
    <3>2. \A s \in Slots : Kept(m, s) = mem[m].disk[s] /\ Kept(m, s)' = obj'[m].disk[s]
      BY <1>1 DEF Kept
    <3>3. Ending(m) => Ending(m)'
      BY <1>1 DEF Ending
    <3>4. Reports(m)
      BY <1>1 DEF Reports, NoReport, NoFiles
    <3> QED
      BY <2>2, <3>1, <3>2, <3>3, <3>4 DEF StillWorks
  <2> QED
    BY <2>1, <2>2
<1>3. Idle
  BY <1>2 DEF Idle
<1>4. CopyOK(m)'
  BY <1>1 DEF CopyOK, NoMachine, Forward, Backward, Claiming
<1>5. StageOK(m)'
  <2>1. Id(m)' = Id(m)
    BY <1>2 DEF StillWorks
  <2> QED
    BY <1>1, <2>1 DEF StageOK, ChoiceOK, LookedUp, Claiming
<1> QED
  BY <1>1, <1>3, <1>4, <1>5, QuietStep

(* A reconcile goes on to another call and leaves the disks in its copy.   *)
LEMMA GoesOn ==
    ASSUME TypeInv, FilesInv, NEW m \in Machines, Reconcile(m), pc[m] # "idle", pc'[m] # "idle",
           UNCHANGED <<disk, cdisk, fresh, vm, files, used>>,
           rd'[m] = rd[m], mem'[m] = mem[m], Reports(m),
           obj'[m].id = obj[m].id, obj'[m].disk = obj[m].disk,
           obj'[m].phase = obj[m].phase \/ (obj[m].phase = "new" /\ obj'[m].phase = "live"),
           CopyOK(m)', StageOK(m)'
    PROVE  FilesInv'
<1>1. ASSUME NEW n \in Machines PROVE StillWorks(n)
  <2>1. CASE n # m
    <3>1. Left(n) /\ obj'[n] = obj[n]
      BY <2>1, OthersLeft
    <3>2. Id(n)' = Id(n) /\ (Ending(n)' <=> Ending(n)) /\ \A s \in Slots : Kept(n, s)' = Kept(n, s)
      BY <3>1 DEF Left, Id, Ending, Kept
    <3> QED
      BY <3>1, <3>2 DEF StillWorks, Reports, Left
  <2>2. CASE n = m
    <3>1. Id(m)' = Id(m) /\ (Ending(m) => Ending(m)') /\ \A s \in Slots : Kept(m, s)' = Kept(m, s)
      BY DEF Id, Ending, Kept
    <3> QED
      BY <2>2, <3>1 DEF StillWorks
  <2> QED
    BY <2>1, <2>2
<1>2. Idle
  BY <1>1 DEF Idle
<1> QED
  BY <1>2, OthersLeft, QuietStep

(* ... to patch the machine, which ends it.                                *)
LEMMA GoesToPatch ==
    ASSUME TypeInv, FilesInv, NEW m \in Machines, Reconcile(m), pc[m] \notin {"idle", "finalizer"},
           Goto(m, "patch"), obj[m].phase # "gone",
           UNCHANGED <<obj, disk, cdisk, fresh, vm, files, used, rd, mem, got>>
    PROVE  FilesInv'
<1>1. pc'[m] = "patch"
  BY DEF Goto, TypeInv, TypeOK
<1>2. CopyOK(m)
  BY DEF FilesInv
<1>3. obj[m].phase \in {"live", "deleting"}
  BY <1>2 DEF CopyOK, Forward, Backward, Claiming, TypeInv, TypeOK, Labels
<1>4. CopyOK(m)'
  BY <1>1, <1>2, <1>3 DEF CopyOK, Forward, Backward, Claiming
<1>5. StageOK(m)'
  BY <1>1, <1>3 DEF StageOK, ChoiceOK, LookedUp, Claiming
<1>6. Reports(m)
  BY DEF Reports
<1> QED
  BY <1>1, <1>4, <1>5, <1>6, GoesOn

LEMMA MayPatch ==
    ASSUME NEW m \in Machines, Undisturbed, PatchFails(m)
    PROVE  ~ Present(obj[m]) /\ UNCHANGED apiVars
  BY DEF Undisturbed, PatchFails

(* The patches of a machine.                                               *)
LEMMA PatchedIs ==
    ASSUME TypeInv, NEW m \in Machines, CopyOK(m), pc[m] # "idle"
    PROVE  /\ Patched(m).phase = obj[m].phase
           /\ Patched(m).id = mem[m].id /\ Patched(m).disk = mem[m].disk
<1> DEFINE v == IF mem[m].id # rd[m].id THEN mem[m].id ELSE obj[m].id
           D == IF mem[m].disk # rd[m].disk THEN mem[m].disk ELSE obj[m].disk
<1>1. v = mem[m].id /\ D = mem[m].disk
  BY DEF CopyOK
<1>2. Patched(m) = [obj[m] EXCEPT !.id = v, !.disk = D]
  BY DEF Patched
<1>3. obj[m] \in Machine
  BY DEF TypeInv, TypeOK
<1> QED
  BY <1>1, <1>2, <1>3 DEF Machine

LEMMA PatchKeeps ==
    ASSUME Undisturbed, TypeInv, FilesInv, NEW m \in Machines, PatchReason(m) \/ GetVMInfo(m)
    PROVE  FilesInv'
<1>1. CopyOK(m) /\ pc[m] \in {"patch", "done"} /\ obj[m].phase \in {"live", "deleting"}
  BY DEF FilesInv, PatchReason, GetVMInfo, CopyOK, Forward
<1>2. Present(obj[m])
  BY <1>1 DEF Present
<1>3. Patch(m, Patched(m)) /\ \E again \in BOOLEAN : Return(m, again)
  BY <1>2, MayPatch DEF PatchReason, GetVMInfo
<1>4. PICK again \in BOOLEAN : Return(m, again)
  BY <1>3
<1>5. obj'[m] = Patched(m) /\ \A n \in Machines \ {m} : obj'[n] = obj[n]
  BY <1>3, PatchLeft
<1>6. UNCHANGED <<disk, cdisk, fresh, vm, files, used, current>>
  BY <1>3 DEF Patch, PatchReason, GetVMInfo, cacheVars, scvmmVars
<1>7. obj[m].id = mem[m].id \/ obj[m].id = NoVm
  BY <1>1 DEF CopyOK
<1> QED
  BY <1>1, <1>4, <1>5, <1>6, <1>7, PatchedIs, ReturnStep

LEMMA AddFinalizerKeeps ==
    ASSUME Undisturbed, TypeInv, FilesInv, NEW m \in Machines, AddFinalizer(m)
    PROVE  FilesInv'
<1>1. /\ CopyOK(m) /\ pc[m] = "finalizer" /\ obj[m].phase \in {"new", "gone"}
      /\ mem[m] = rd[m] /\ rd[m].phase = "new" /\ rd[m].id = obj[m].id /\ rd[m].disk = obj[m].disk
      /\ got[m] = NoReport /\ at[m] = 1
  BY DEF FilesInv, AddFinalizer, CopyOK
<1>2. UNCHANGED <<disk, cdisk, fresh, vm, files, used, current>>
  BY DEF AddFinalizer, Patch, PatchFails, apiVars, cacheVars, scvmmVars
<1>3. CASE /\ Patch(m, [obj[m] EXCEPT !.phase = IF @ = "new" THEN "live" ELSE @])
           /\ Goto(m, "claim") /\ UNCHANGED <<rd, mem, file, at, pick, got, queued>>
  <2>0. obj[m].phase = "new" /\ obj[m].id = NoVm
    BY <1>1, <1>3 DEF Patch, Present, CopyOK
  <2>1. obj'[m] = [obj[m] EXCEPT !.phase = "live"] /\ obj[m] \in Machine
    BY <1>3, <2>0, PatchLeft DEF TypeInv, TypeOK
  <2>2. obj'[m].phase = "live" /\ obj'[m].id = obj[m].id /\ obj'[m].disk = obj[m].disk
    BY <2>1 DEF Machine
  <2>3. pc'[m] = "claim"
    BY <1>3 DEF Goto, TypeInv, TypeOK
  <2>5. CopyOK(m)'
    BY <1>1, <1>3, <2>2, <2>3 DEF CopyOK, Forward, Backward, Claiming
  <2>6. StageOK(m)'
    <3>1. Id(m)' = NoVm
      BY <1>1, <1>3, <2>3, <2>0 DEF Id
    <3>2. LookedUp(m)'
      BY <1>1, <1>3, <2>3 DEF LookedUp, Claiming, Slots
    <3> QED
      BY <2>3, <3>1, <3>2 DEF StageOK, ChoiceOK
  <2>7. Reports(m)
    BY <1>3 DEF Reports
  <2> QED
    BY <1>1, <1>2, <1>3, <2>0, <2>2, <2>3, <2>5, <2>6, <2>7, GoesOn DEF Reconcile
<1>4. CASE PatchFails(m) /\ Return(m, TRUE)
  <2>1. obj' = obj /\ obj[m].phase = "gone"
    BY <1>1, <1>4, MayPatch DEF Present, apiVars
  <2>2. Id(m) # NoVm => vm[Id(m)].st = "removed"
    BY <2>1 DEF FilesInv, StageOK
  <2> QED
    BY <1>1, <1>2, <1>4, <2>1, <2>2, ReturnStep
<1> QED
  BY <1>3, <1>4 DEF AddFinalizer

LEMMA RemoveFinalizerKeeps ==
    ASSUME Undisturbed, TypeInv, FilesInv, NEW m \in Machines, RemoveFinalizer(m)
    PROVE  FilesInv'
<1>1. /\ CopyOK(m) /\ pc[m] = "unfinalize" /\ obj[m].phase = "deleting"
      /\ mem[m].id = obj[m].id /\ mem[m].disk = obj[m].disk
  BY DEF FilesInv, RemoveFinalizer, CopyOK, Backward
<1>2. Patch(m, [obj[m] EXCEPT !.phase = "gone"]) /\ Return(m, FALSE)
  BY <1>1, MayPatch DEF RemoveFinalizer, Present
<1>3. /\ obj'[m] = [obj[m] EXCEPT !.phase = "gone"] /\ obj[m] \in Machine
      /\ \A n \in Machines \ {m} : obj'[n] = obj[n]
  BY <1>2, PatchLeft DEF TypeInv, TypeOK
<1>4. obj'[m].phase = "gone" /\ obj'[m].id = obj[m].id /\ obj'[m].disk = obj[m].disk
  BY <1>3 DEF Machine
<1>5. Id(m) # NoVm => vm[Id(m)].st = "removed"
  BY <1>1 DEF FilesInv, StageOK
<1>6. UNCHANGED <<disk, cdisk, fresh, vm, files, used, current>>
  BY <1>2 DEF RemoveFinalizer, Patch, cacheVars, scvmmVars
<1> QED
  BY <1>1, <1>2, <1>3, <1>4, <1>5, <1>6, ReturnStep

LEMMA BeginKeeps ==
    ASSUME Undisturbed, TypeInv, FilesInv, NEW m \in Machines, Begin(m)
    PROVE  FilesInv'
<1>0. CopyOK(m) /\ StageOK(m) /\ MachineOK(m) /\ obj[m] \in Machine
  BY DEF FilesInv, CoreInv, TypeInv, TypeOK
<1>1. /\ pc[m] = "idle" /\ cobj[m] = obj[m] /\ rd[m] = NoMachine /\ got[m] = NoReport /\ at[m] = 1
  BY <1>0 DEF Begin, Undisturbed, CopyOK
<1>2. /\ UNCHANGED <<obj, disk, cdisk, fresh, vm, files, used, current, got, at, file, pick>>
  BY DEF Begin, apiVars, cacheVars, scvmmVars
<1>3. \A n \in Machines \ {m} : Left(n) /\ obj'[n] = obj[n] /\ (n \in current' => n \in current)
  BY OthersLeft DEF Reconcile
<1>4. CASE UNCHANGED <<pc, rd, mem>>
  <2>1. \A n \in Machines : Left(n)
    BY <1>2, <1>4 DEF Left
  <2>2. Idle
    BY <1>2, <1>4 DEF Idle, StillWorks, Reports, Id, Kept, Ending
  <2>3. \A n \in Machines : Around(n)
    BY <1>2, <1>4, OwnChoice DEF Around, Over, Ending, Secret, Noted
  <2>4. CopyOK(m)' /\ StageOK(m)'
    BY <1>0, <1>2, <2>1, <2>3, LeftCopy, LeftStage
  <2> QED
    BY <1>2, <1>3, <2>2, <2>4, QuietStep
<1>5. CASE /\ Present(obj[m]) /\ rd' = [rd EXCEPT ![m] = obj[m]] /\ mem' = [mem EXCEPT ![m] = obj[m]]
           /\ Goto(m, CASE obj[m].phase = "new" -> "finalizer"
                        [] obj[m].phase = "live" -> "claim"
                        [] OTHER -> IF Nameless(m) THEN "unfinalize"
                                    ELSE IF obj[m].disk = NoDisks THEN "remove" ELSE "look")
  <2>1. rd'[m] = obj[m] /\ mem'[m] = obj[m]
    BY <1>5 DEF TypeInv, TypeOK
  <2>2. \/ obj[m].phase = "new" /\ pc'[m] = "finalizer"
        \/ obj[m].phase = "live" /\ pc'[m] = "claim"
        \/ /\ obj[m].phase = "deleting" /\ pc'[m] \in {"unfinalize", "remove", "look"}
           /\ pc'[m] = "unfinalize" => obj[m].id = NoVm
           /\ pc'[m] = "remove" => obj[m].disk = NoDisks
    BY <1>1, <1>5 DEF Goto, Present, Nameless, TypeInv, TypeOK
  <2>3. Id(m)' = Id(m) /\ Id(m) = obj[m].id /\ (Ending(m)' <=> Ending(m))
        /\ \A s \in Slots : Kept(m, s)' = Kept(m, s) /\ Kept(m, s) = obj[m].disk[s]
    BY <1>1, <1>2, <2>1, <2>2 DEF Id, Ending, Kept
  <2>4. ASSUME NEW n \in Machines PROVE StillWorks(n)
    <3>1. CASE n = m
      BY <1>2, <2>3, <3>1 DEF StillWorks, Reports
    <3>2. CASE n # m
      BY <1>3, <3>2 DEF StillWorks, Reports, Left, Id, Ending, Kept
    <3> QED
      BY <3>1, <3>2
  <2>5. Idle
    BY <1>2, <2>4 DEF Idle
  <2>6. CopyOK(m)'
    BY <1>0, <1>1, <1>2, <2>1, <2>2 DEF CopyOK, Forward, Backward, Claiming
  <2>7. StageOK(m)'
    <3>1. LookedUp(m)' /\ ChoiceOK(m)'
      BY <1>1, <1>2, <2>2 DEF LookedUp, ChoiceOK, Claiming, Slots
    <3>2. pc'[m] = "claim" /\ Id(m) # NoVm =>
              \A s \in Slots : vm[Id(m)].disk[s] # NoFile => obj[m].disk[s] # NoDisk
      BY <1>0, <2>2, <2>3 DEF MachineOK, KeptOK, Ending
    <3> QED
      BY <1>2, <2>1, <2>2, <2>3, <3>1, <3>2 DEF StageOK, Claiming
  <2> QED
    BY <1>2, <1>3, <2>5, <2>6, <2>7, QuietStep
<1> QED
  BY <1>1, <1>4, <1>5 DEF Begin

(* Without a VM there is nothing to report; a VM that is being prepared    *)
(* reports nothing.                                                        *)
LEMMA ReportIs ==
    ASSUME TypeInv, FilesInv, NEW m \in Machines, pc[m] # "idle",
           got' = [got EXCEPT ![m] = Reported(mem[m].id)]
    PROVE  /\ Reports(m)
           /\ Id(m) # NoVm => \A s \in Slots :
                 vm[Id(m)].disk[s] # NoFile /\ got'[m].disk[s] = NoFile => Secret(vm[Id(m)].disk[s])
<1> DEFINE v == mem[m].id
<1>1. Id(m) = v /\ got'[m] = Reported(v)
  BY DEF Id, TypeInv, TypeOK
<1>2. CASE ~ Exists(v)
  <2>1. got'[m].disk = NoFiles
    BY <1>1, <1>2 DEF Reported, NoReport
  <2>2. v # NoVm => vm[v].disk = NoFiles
    BY <1>1, <1>2, Facts DEF Exists, FilesInv, CoreInv, VmOK
  <2> QED
    BY <1>1, <2>1, <2>2 DEF Reports, NoFiles
<1>3. CASE Exists(v)
  <2>0. v \in VmIds
    BY <1>3 DEF Exists
  <2>1. CASE vm[v].st = "preparing"
    <3>1. got'[m].disk = NoFiles
      BY <1>1, <1>3, <2>1 DEF Reported
    <3> QED
      BY <1>1, <2>0, <2>1, <3>1 DEF Reports, NoFiles, FilesInv, CoreInv, VmOK, AttachedFileOK
  <2>2. CASE vm[v].st # "preparing"
    <3>1. got'[m].disk = vm[v].disk
      BY <1>1, <1>3, <2>2 DEF Reported
    <3> QED
      BY <1>1, <2>0, <2>2, <3>1, NullAssumption DEF Reports
  <2> QED
    BY <2>1, <2>2
<1> QED
  BY <1>2, <1>3

LEMMA GetVMKeeps ==
    ASSUME Undisturbed, TypeInv, FilesInv, NEW m \in Machines, GetVM(m)
    PROVE  FilesInv'
<1> USE Facts
<1>0. CopyOK(m) /\ StageOK(m) /\ MachineOK(m)
  BY DEF FilesInv, CoreInv
<1>1. /\ pc[m] = "get" /\ obj[m].phase \in {"live", "deleting"} /\ rd[m].phase \in {"new", "live"}
      /\ rd[m].id = obj[m].id /\ mem[m].id = obj[m].id /\ Id(m) = mem[m].id /\ rd[m].disk = obj[m].disk
      /\ \A s \in Slots : rd[m].disk[s] # NoDisk => mem[m].disk[s] = rd[m].disk[s]
  BY <1>0 DEF GetVM, CopyOK, Forward, Claiming, Id
<1>2. UNCHANGED <<obj, disk, cdisk, fresh, vm, files, used, current>>
  BY DEF GetVM, apiVars, cacheVars, scvmmVars
<1>3. CASE /\ ~ Exists(mem[m].id) /\ Goto(m, "create")
           /\ UNCHANGED <<rd, mem, file, at, pick, got, queued>>
  <2>1. pc'[m] = "create"
    BY <1>3 DEF Goto, TypeInv, TypeOK
  <2>2. mem[m].id = NoVm
    <3>1. ~ Ending(m)
      BY <1>1 DEF Ending
    <3> QED
      BY <1>0, <1>1, <1>3, <3>1 DEF MachineOK, VmOfOK, Exists
  <2>3. CopyOK(m)'
    BY <1>0, <1>1, <1>2, <1>3, <2>1, <2>2 DEF CopyOK, Forward, Backward, Claiming
  <2>4. StageOK(m)'
    <3>1. Id(m)' = NoVm
      BY <1>3, <2>1, <2>2 DEF Id
    <3>2. LookedUp(m)
      BY <1>0 DEF StageOK
    <3>3. \A s \in Slots : Kept(m, s)' = Kept(m, s)
      BY <1>1, <1>3, <2>1 DEF Kept
    <3>4. \A f : Over(f)' <=> Over(f)
      <4>1. \A n \in Machines : Ending(n) <=> Ending(n)'
        BY <1>1, <1>2, <1>3, <2>1, OthersLeft DEF Reconcile, Left, Ending
      <4> QED
        BY <1>2, <4>1 DEF Over
    <3>5. LookedUp(m)'
      BY <1>1, <1>2, <1>3, <2>1, <2>2, <3>1, <3>2, <3>3, <3>4 DEF LookedUp, Right, Claiming
    <3> QED
      BY <2>1, <3>1, <3>5 DEF StageOK, ChoiceOK
  <2>5. Reports(m)
    BY <1>3 DEF Reports
  <2> QED
    BY <1>1, <1>2, <1>3, <2>1, <2>3, <2>4, <2>5, GoesOn DEF Reconcile
<1>4. CASE /\ Exists(mem[m].id) /\ got' = [got EXCEPT ![m] = Reported(mem[m].id)]
           /\ Goto(m, "note") /\ UNCHANGED <<rd, mem, file, at, pick, queued>>
  <2>1. pc'[m] = "note" /\ mem[m].id # NoVm
    BY <1>4 DEF Goto, Exists, TypeInv, TypeOK
  <2>3. CopyOK(m)'
    BY <1>0, <1>1, <1>2, <1>4, <2>1 DEF CopyOK, Forward, Backward, Claiming
  <2>4. StageOK(m)'
    <3>1. Id(m)' = Id(m) /\ \A s \in Slots : Kept(m, s)' = Kept(m, s)
      BY <1>1, <1>4, <2>1 DEF Id, Kept
    <3>2. LookedUp(m)
      BY <1>0 DEF StageOK
    <3>4. \A f : Over(f)' <=> Over(f)
      <4>1. \A n \in Machines : Ending(n) <=> Ending(n)'
        BY <1>1, <1>2, <1>4, <2>1, OthersLeft DEF Reconcile, Left, Ending
      <4> QED
        BY <1>2, <4>1 DEF Over
    <3>5. LookedUp(m)'
      BY <1>1, <1>2, <1>4, <2>1, <3>1, <3>2, <3>4 DEF LookedUp, Right, Claiming
    <3> QED
      BY <1>1, <1>2, <2>1, <3>5 DEF StageOK, ChoiceOK, Claiming
  <2> QED
    BY <1>1, <1>2, <1>4, <2>1, <2>3, <2>4, ReportIs, GoesOn DEF Reconcile
<1>5. CASE Return(m, TRUE)
  <2>1. ASSUME NEW s \in Slots
        PROVE  obj[m].disk[s] = mem[m].disk[s] \/
                   (obj[m].disk[s] = NoDisk /\ (Id(m) # NoVm => vm[Id(m)].disk[s] = NoFile))
    BY <1>0, <1>1 DEF StageOK
  <2> QED
    BY <1>1, <1>2, <1>5, <2>1, ReturnStep
<1> QED
  BY <1>3, <1>4, <1>5 DEF GetVM

LEMMA LookKeeps ==
    ASSUME Undisturbed, TypeInv, FilesInv, NEW m \in Machines, LookAtVM(m)
    PROVE  FilesInv'
<1>0. CopyOK(m)
  BY DEF FilesInv
<1>1. /\ pc[m] = "look" /\ obj[m].phase = "deleting" /\ rd[m].phase = "deleting"
      /\ mem[m].id = obj[m].id /\ mem[m].disk = rd[m].disk /\ rd[m].disk = obj[m].disk
  BY <1>0 DEF LookAtVM, CopyOK, Backward
<1>2. UNCHANGED <<obj, disk, cdisk, fresh, vm, files, used, current>>
  BY DEF LookAtVM, apiVars, cacheVars, scvmmVars
<1>3. CASE Return(m, TRUE)
  BY <1>1, <1>2, <1>3, ReturnStep
<1>4. CASE /\ got' = [got EXCEPT ![m] = Reported(mem[m].id)]
           /\ Goto(m, "giveback") /\ UNCHANGED <<rd, mem, file, at, pick, queued>>
  <2>1. pc'[m] = "giveback"
    BY <1>4 DEF Goto, TypeInv, TypeOK
  <2>2. CopyOK(m)'
    BY <1>0, <1>1, <1>2, <1>4, <2>1 DEF CopyOK, Forward, Backward, Claiming
  <2>3. Id(m)' = Id(m)
    BY <1>1, <1>4, <2>1 DEF Id
  <2>4. ASSUME Id(m) # NoVm, NEW s \in Slots, NEW f, f = vm[Id(m)].disk[s], f # NoFile,
               got'[m].disk[s] = NoFile
        PROVE  Secret(f)'
    <3>1. Secret(f)
      BY <1>1, <1>4, <2>4, ReportIs
    <3> QED
      BY <1>2, <3>1 DEF Secret, Noted
  <2>5. StageOK(m)'
    BY <1>1, <1>2, <2>1, <2>3, <2>4 DEF StageOK, ChoiceOK, LookedUp, Claiming
  <2> QED
    BY <1>1, <1>2, <1>4, <2>1, <2>2, <2>5, ReportIs, GoesOn DEF Reconcile
<1> QED
  BY <1>3, <1>4 DEF LookAtVM

(* The loop over the slots goes on once the one it is at is seen to.       *)
LEMMA NextLook ==
    ASSUME TypeInv, NEW m \in Machines, pc[m] \in Claiming, NextSlot(m),
           \A s \in Slots : s <= at[m] => (Kept(m, s) # NoDisk => Right(m, s, file[m][s]))'
    PROVE  pc'[m] \in {"claim", "get"} /\ LookedUp(m)'
<1>1. at[m] \in Slots /\ \A s \in Slots : s \in Nat /\ s <= NumSlots
  BY BoundAssumption DEF TypeInv, PlacesOK, Claiming, Slots
<1>2. CASE at[m] = NumSlots
  <2>1. pc'[m] = "get"
    BY <1>2 DEF NextSlot, Goto, TypeInv, TypeOK
  <2> QED
    BY <1>1, <1>2, <2>1 DEF LookedUp
<1>3. CASE at[m] # NumSlots
  <2>1. pc'[m] = "claim" /\ at'[m] = at[m] + 1
    BY <1>3 DEF NextSlot, Goto, TypeInv, TypeOK
  <2>2. \A s \in Slots : s < at'[m] => s <= at[m]
    BY <1>1, <2>1
  <2> QED
    BY <2>1, <2>2 DEF LookedUp, Claiming
<1> QED
  BY <1>2, <1>3

LEMMA SlotBefore == \A r, s \in Slots : r <= s /\ r # s => r < s
  BY BoundAssumption DEF Slots

LEMMA ClaimKeeps ==
    ASSUME Undisturbed, TypeInv, FilesInv, NEW m \in Machines, ClaimDisk(m)
    PROVE  FilesInv'
<1> USE Facts
<1> DEFINE d == mem[m].disk[at[m]]
<1>0. CopyOK(m) /\ StageOK(m) /\ MachineOK(m)
  BY DEF FilesInv, CoreInv
<1>1. /\ pc[m] = "claim" /\ obj[m].phase \in {"live", "deleting"} /\ rd[m].phase \in {"new", "live"}
      /\ rd[m].id = obj[m].id /\ mem[m].id = obj[m].id /\ Id(m) = mem[m].id /\ rd[m].disk = obj[m].disk
      /\ \A s \in Slots : Kept(m, s) = mem[m].disk[s]
      /\ at[m] \in Slots /\ ~ Ending(m)
  BY <1>0 DEF ClaimDisk, CopyOK, Forward, Claiming, Id, Kept, Ending, TypeInv, PlacesOK
<1>2. UNCHANGED <<obj, disk, cdisk, fresh, vm, files, used, rd, got>>
  BY DEF ClaimDisk, apiVars, cacheVars, scvmmVars
<1>3. Reports(m)
  BY <1>2 DEF Reports
<1>4. \A n \in Machines \ {m} : Left(n)
  BY OthersLeft DEF Reconcile
(* The other parts follow once the copy is seen to stay as it is. *)
<1>5. ASSUME mem'[m] = mem[m], pc'[m] \in {"claim", "update", "new", "get"}, LookedUp(m)', ChoiceOK(m)'
      PROVE  FilesInv'
  <2>1. CopyOK(m)'
    BY <1>0, <1>1, <1>2, <1>5 DEF CopyOK, Forward, Backward, Claiming
  <2>2. Id(m)' = Id(m)
    BY <1>1, <1>5 DEF Id
  <2>3. StageOK(m)'
    BY <1>0, <1>1, <1>2, <1>5, <2>2 DEF StageOK, Claiming
  <2> QED
    BY <1>1, <1>2, <1>3, <1>5, <2>1, <2>3, GoesOn DEF Reconcile
<1>6. ASSUME mem'[m] = mem[m], pc'[m] \in {"claim", "update", "new", "get"},
             NEW s \in Slots, NEW g, Right(m, s, g)
      PROVE  Right(m, s, g)'
  <2>1. Id(m)' = Id(m) /\ Kept(m, s)' = Kept(m, s)
    BY <1>1, <1>6 DEF Id, Kept
  <2>2. \A n \in Machines : Ending(n)' <=> Ending(n)
    BY <1>1, <1>2, <1>4, <1>6 DEF Ending, Left
  <2>3. Over(g)' <=> Over(g)
    BY <1>2, <2>2 DEF Over
  <2>4. vm' = vm /\ disk' = disk
    BY <1>2
  <2> HIDE Facts
  <2> QED
    BY <1>6, <2>1, <2>3, <2>4 DEF Right
<1>7. LookedUp(m)
  BY <1>0 DEF StageOK
<1>8. CASE /\ d # NoDisk /\ Assign(m, d, cdisk[d].file) /\ NextSlot(m) /\ UNCHANGED <<pick, current>>
  <2>1. mem'[m] = mem[m]
    BY <1>1, <1>8 DEF Assign, TypeInv, TypeOK, Machine
  <2>2. pc'[m] \in {"claim", "get"}
    BY <1>8 DEF NextSlot, Goto, TypeInv, TypeOK
  <2>3. file'[m][at[m]] = cdisk[d].file /\ \A s \in Slots \ {at[m]} : file'[m][s] = file[m][s]
    BY <1>1, <1>8 DEF Assign, TypeInv, TypeOK, Attached
  <2>4. ASSUME NEW s \in Slots, s <= at[m], Kept(m, s) # NoDisk PROVE Right(m, s, file'[m][s])
    <3>1. CASE s = at[m]
      <4>1. Right(m, s, cdisk[Kept(m, s)].file)
        BY <1>0, <1>1, <2>4 DEF MachineOK, ShownOK
      <4> QED
        BY <1>1, <2>3, <3>1, <4>1
    <3>2. CASE s # at[m]
      <4>1. s < at[m]
        BY <1>1, <2>4, <3>2, SlotBefore
      <4>2. Right(m, s, file[m][s])
        BY <1>1, <1>7, <2>4, <4>1 DEF LookedUp, Claiming
      <4> QED
        BY <2>3, <3>2, <4>2
    <3> QED
      BY <3>1, <3>2
  <2>5. \A s \in Slots : Kept(m, s)' = Kept(m, s)
    BY <1>1, <2>1, <2>2 DEF Kept
  <2>6. ASSUME NEW s \in Slots, s <= at[m], NEW g, g = file'[m][s], Kept(m, s) # NoDisk PROVE Right(m, s, g)'
    BY <1>6, <2>1, <2>2, <2>4, <2>6
  <2>7. \A s \in Slots : s <= at[m] => (Kept(m, s) # NoDisk => Right(m, s, file[m][s]))'
    BY <2>5, <2>6
  <2>8. LookedUp(m)'
    BY <1>1, <1>8, <2>7, NextLook DEF Claiming
  <2> QED
    BY <1>5, <2>1, <2>2, <2>8 DEF ChoiceOK
<1>9. CASE Goto(m, "patch") /\ UNCHANGED <<mem, file, at, pick, current>>
  BY <1>1, <1>2, <1>9, GoesToPatch DEF Reconcile
<1>10. ASSUME NEW label \in {"update", "new"}, Goto(m, label), UNCHANGED <<mem, file, at>>, d = NoDisk,
              label = "update" /\ m \in current' => pick'[m] \in fresh,
              label = "new" => cdisk[pick'[m]].file = NoFile
       PROVE  FilesInv'
  <2>1. pc'[m] = label
    BY <1>10 DEF Goto, TypeInv, TypeOK
  <2>2. ChoiceOK(m)'
    BY <1>1, <1>2, <1>10, <2>1 DEF ChoiceOK
  <2>3. ASSUME NEW s \in Slots, s < at[m], Kept(m, s) # NoDisk, NEW g, g = file[m][s] PROVE Right(m, s, g)'
    <3>1. Right(m, s, g)
      BY <1>1, <1>7, <2>3 DEF LookedUp, Claiming
    <3> QED
      BY <1>6, <1>10, <2>1, <3>1
  <2>4. \A s \in Slots : Kept(m, s)' = Kept(m, s)
    BY <1>1, <1>10, <2>1 DEF Kept
  <2>5. LookedUp(m)'
    BY <1>10, <2>1, <2>3, <2>4 DEF LookedUp, Claiming
  <2> QED
    BY <1>5, <1>10, <2>1, <2>2, <2>5
<1>11. ASSUME NEW e \in Eligible(m), d = NoDisk, pick' = [pick EXCEPT ![m] = e],
              current' = IF e \in fresh THEN current \cup {m} ELSE current \ {m},
              Goto(m, "update"), UNCHANGED <<mem, file, at>>
       PROVE  FilesInv'
  <2>1. pick'[m] = e
    BY <1>11 DEF TypeInv, TypeOK
  <2>2. m \in current' => e \in fresh
    BY <1>11
  <2> QED
    BY <1>10, <1>11, <2>1, <2>2
<1>12. ASSUME NEW e \in Disks, ~ Listed(e), d = NoDisk, pick' = [pick EXCEPT ![m] = e],
              Goto(m, "new"), UNCHANGED <<mem, file, at, current>>
       PROVE  FilesInv'
  <2>1. pick'[m] = e
    BY <1>12 DEF TypeInv, TypeOK
  <2>2. cdisk[e].file = NoFile
    BY <1>12 DEF Listed, FilesInv, CoreInv, CacheOK
  <2> QED
    BY <1>10, <1>12, <2>1, <2>2
<1>13. CASE d = NoDisk /\ NextSlot(m) /\ UNCHANGED <<mem, file, pick, current>>
  <2>1. pc'[m] \in {"claim", "get"}
    BY <1>13 DEF NextSlot, Goto, TypeInv, TypeOK
  <2>2. \A s \in Slots : Kept(m, s)' = Kept(m, s)
    BY <1>1, <1>13, <2>1 DEF Kept
  <2>3. ASSUME NEW s \in Slots, s <= at[m], NEW g, g = file[m][s], Kept(m, s) # NoDisk PROVE Right(m, s, g)'
    <3>1. s < at[m]
      <4>1. s # at[m]
        BY <1>1, <1>13, <2>3
      <4> QED
        BY <1>1, <2>3, <4>1, SlotBefore
    <3>2. Right(m, s, g)
      BY <1>1, <1>7, <2>3, <3>1 DEF LookedUp, Claiming
    <3> QED
      BY <1>6, <1>13, <2>1, <3>2
  <2>4. \A s \in Slots : s <= at[m] => (Kept(m, s) # NoDisk => Right(m, s, file[m][s]))'
    BY <1>13, <2>2, <2>3
  <2>5. LookedUp(m)'
    BY <1>1, <1>13, <2>4, NextLook DEF Claiming
  <2> QED
    BY <1>5, <1>13, <2>1, <2>5 DEF ChoiceOK
<1>14. \/ /\ d # NoDisk /\ Assign(m, d, cdisk[d].file) /\ NextSlot(m) /\ UNCHANGED <<pick, current>>
       \/ Goto(m, "patch") /\ UNCHANGED <<mem, file, at, pick, current>>
       \/ \E e \in Eligible(m) :
             /\ d = NoDisk /\ pick' = [pick EXCEPT ![m] = e]
             /\ current' = IF e \in fresh THEN current \cup {m} ELSE current \ {m}
             /\ Goto(m, "update") /\ UNCHANGED <<mem, file, at>>
       \/ \E e \in Disks :
             /\ ~ Listed(e) /\ d = NoDisk /\ pick' = [pick EXCEPT ![m] = e]
             /\ Goto(m, "new") /\ UNCHANGED <<mem, file, at, current>>
       \/ d = NoDisk /\ NextSlot(m) /\ UNCHANGED <<mem, file, pick, current>>
  BY DEF ClaimDisk
<1> QED
  BY <1>8, <1>9, <1>11, <1>12, <1>13, <1>14

(* What the other machines see of the write of a disk that is not theirs.  *)
LEMMA WriteAround ==
    ASSUME TypeInv, FilesInv, NEW d \in Disks, NEW new \in Disk, WriteDisk(d, new),
           UNCHANGED vm, NEW n \in Machines, Left(n), obj'[n] = obj[n],
           \A f : f # NoFile /\ Over(f) => Over(f)',
           Id(n) # NoVm => \A s \in Slots : \A f :
                f = vm[Id(n)].disk[s] /\ f # NoFile /\ Secret(f) => Secret(f)',
           new.file # disk[d].file => obj[n].phase = "gone" \/ \A s \in Slots : Kept(n, s) # d
    PROVE  Around(n)
<1>1. disk'[d] = new /\ \A e \in Disks \ {d} : disk'[e] = disk[e]
  BY DEF WriteDisk, TypeInv, TypeOK
<1>2. cdisk' = cdisk
  BY DEF WriteDisk
<1>3. n \in current' /\ pc[n] = "update" => pick[n] \in fresh'
  BY OwnChoice DEF WriteDisk
<1>4. obj[n].phase # "gone" =>
          \A s \in Slots : Kept(n, s) # NoDisk => disk'[Kept(n, s)].file = disk[Kept(n, s)].file
  BY <1>1, Facts
<1> QED
  BY <1>2, <1>3, <1>4, OwnChoice DEF Around

LEMMA ClaimWritten ==
    ASSUME TypeInv, FilesInv, NEW m \in Machines, UpdateClaim(m) \/ CreateClaim(m),
           NEW d \in Disks, d = pick[m], NEW new \in Disk, WriteDisk(d, new),
           new.phase = "live", m \in new.refs, new.file = disk[d].file,
           disk[d].refs \cap Machines \subseteq {m}, disk[d].phase # "deleting",
           disk[d].phase = "absent" => cdisk[d].file = NoFile \/ cdisk[d].file.by # NoVm,
           disk[d].phase # "absent" => d \in fresh,
           \/ Assign(m, d, disk[d].file) /\ NextSlot(m)
           \/ Goto(m, "patch") /\ UNCHANGED <<mem, file, at>>
    PROVE  FilesInv'
<1> USE Facts
<1>0. CopyOK(m) /\ StageOK(m) /\ MachineOK(m) /\ mem[m] \in Machine
  BY DEF FilesInv, CoreInv, TypeInv, TypeOK
<1>1. /\ pc[m] \in {"update", "new"} /\ obj[m].phase \in {"live", "deleting"} /\ rd[m].phase \in {"new", "live"}
      /\ rd[m].id = obj[m].id /\ mem[m].id = obj[m].id /\ Id(m) = mem[m].id /\ rd[m].disk = obj[m].disk
      /\ \A s \in Slots : Kept(m, s) = mem[m].disk[s]
      /\ at[m] \in Slots /\ ~ Ending(m) /\ Kept(m, at[m]) = NoDisk
  BY <1>0 DEF UpdateClaim, CreateClaim, CopyOK, StageOK, ChoiceOK, Forward, Claiming, Id, Kept, Ending,
              TypeInv, PlacesOK
<1>2. /\ UNCHANGED <<obj, vm, files, used, rd, pick, got>> /\ cdisk' = cdisk
      /\ disk' = [disk EXCEPT ![d] = new]
  BY DEF UpdateClaim, CreateClaim, WriteDisk, scvmmVars
<1>3. \A n \in Machines \ {m} : Left(n) /\ obj'[n] = obj[n]
  BY OthersLeft DEF Reconcile
<1>4. /\ pc'[m] \in {"claim", "get", "patch"}
      /\ mem'[m].id = mem[m].id /\ \A s \in Slots \ {at[m]} : mem'[m].disk[s] = mem[m].disk[s]
      /\ mem'[m].disk[at[m]] \in {d, NoDisk}
  <2>1. CASE Assign(m, d, disk[d].file) /\ NextSlot(m)
    <3>1. pc'[m] \in {"claim", "get"}
      BY <2>1 DEF NextSlot, Goto, TypeInv, TypeOK
    <3>2. mem'[m] = [mem[m] EXCEPT !.disk[at[m]] = d]
      BY <2>1 DEF Assign, TypeInv, TypeOK
    <3>3. /\ mem'[m].id = mem[m].id /\ \A s \in Slots \ {at[m]} : mem'[m].disk[s] = mem[m].disk[s]
          /\ mem'[m].disk[at[m]] = d
      BY <1>0, <1>1, <3>2 DEF Machine
    <3> QED
      BY <3>1, <3>3
  <2>2. CASE Goto(m, "patch") /\ UNCHANGED <<mem, file, at>>
    BY <1>1, <2>2 DEF Goto, TypeInv, TypeOK
  <2> QED
    BY <2>1, <2>2
<1>5. /\ Id(m)' = Id(m) /\ \A s \in Slots : Kept(m, s)' = mem'[m].disk[s]
      /\ \A n \in Machines : Id(n)' = Id(n) /\ (Ending(n)' <=> Ending(n)) /\ got'[n] = got[n]
  BY <1>1, <1>2, <1>3, <1>4 DEF Id, Kept, Ending, Left
<1>6. ASSUME NEW n \in Machines, NEW r \in Slots
      PROVE  Kept(n, r)' = Kept(n, r) \/ (n = m /\ r = at[m] /\ Kept(n, r)' = d)
  <2>1. CASE n = m
    BY <1>1, <1>4, <1>5, <2>1
  <2>2. CASE n # m
    BY <1>2, <1>3, <2>2 DEF Kept, Left
  <2> QED
    BY <2>1, <2>2
<1>7. SameMachines
  BY <1>2, <1>5 DEF SameMachines
<1>8. CoreInv'
  <2>1. obj[m].phase # "gone" /\ UNCHANGED cdisk
    BY <1>1, <1>2
  <2> HIDE Facts
  <2> QED
    BY <1>1, <1>2, <1>6, <1>7, <2>1, ClaimingCore
<1>9. \A f : Over(f)' <=> Over(f)
  BY <1>2, <1>5 DEF Over
<1>10. disk'[d] = new /\ \A e \in Disks : disk'[e].file = disk[e].file
  BY <1>2 DEF TypeInv, TypeOK
<1>11. \A n \in Machines \ {m} : Around(n)
  <2>1. \A f \in File : Secret(f)' <=> Secret(f)
    BY <1>2, <1>10 DEF Secret, Noted
  <2>2. ASSUME NEW n \in Machines \ {m}, Id(n) # NoVm, NEW s \in Slots, NEW f,
               f = vm[Id(n)].disk[s], f # NoFile, Secret(f)
        PROVE  Secret(f)'
    BY <2>1, <2>2
  <2>3. UNCHANGED vm
    BY <1>2
  <2> HIDE Facts
  <2> QED
    BY <1>3, <1>9, <2>2, <2>3, WriteAround
<1>12. CopyOK(m)'
  <2>1. \A s \in Slots : rd[m].disk[s] # NoDisk => mem'[m].disk[s] = rd[m].disk[s]
    <3>1. \A s \in Slots : rd[m].disk[s] # NoDisk => mem[m].disk[s] = rd[m].disk[s]
      BY <1>0, <1>1 DEF CopyOK, Forward, Claiming
    <3> QED
      BY <1>1, <1>4, <3>1
  <2>2. pc'[m] \notin {"idle", "finalizer", "create", "note", "expand", "start", "done"} /\ pc'[m] \notin Backward
    BY <1>4 DEF Backward
  <2> QED
    BY <1>1, <1>2, <1>4, <2>1, <2>2 DEF CopyOK
<1>13. StageOK(m)'
  <2>1. CASE Assign(m, d, disk[d].file) /\ NextSlot(m)
    <3>1. /\ file'[m][at[m]] = disk[d].file /\ mem'[m].disk[at[m]] = d
          /\ \A s \in Slots \ {at[m]} : file'[m][s] = file[m][s]
      BY <1>0, <1>1, <2>1 DEF Assign, TypeInv, TypeOK, Attached, Machine
    <3>2. ASSUME NEW s \in Slots, s <= at[m], NEW g, g = file'[m][s], Kept(m, s)' # NoDisk PROVE Right(m, s, g)'
      <4>1. CASE s = at[m]
        <5>1. g = disk'[Kept(m, s)'].file
          <6>1. Kept(m, s)' = d /\ g = disk[d].file
            BY <1>5, <3>1, <3>2, <4>1
          <6> HIDE Facts
          <6> QED
            BY <1>10, <6>1
        <5> QED
          BY <5>1 DEF Right
      <4>2. CASE s # at[m]
        <5>1. s < at[m]
          BY <1>1, <3>2, <4>2, SlotBefore
        <5>2. Kept(m, s)' = Kept(m, s) /\ g = file[m][s]
          BY <1>6, <3>1, <3>2, <4>2
        <5>3. Right(m, s, g)
          BY <1>0, <1>1, <3>2, <5>1, <5>2 DEF StageOK, LookedUp, Claiming
        <5>4. (Over(g)' <=> Over(g)) /\ vm' = vm
          BY <1>2, <1>9
        <5> HIDE Facts
        <5>5. disk'[Kept(m, s)].file = disk[Kept(m, s)].file
          BY <1>10, <3>2, <5>2, Facts
        <5> QED
          BY <1>5, <5>2, <5>3, <5>4, <5>5 DEF Right
      <4> QED
        BY <4>1, <4>2
    <3>3. \A s \in Slots : s <= at[m] => (Kept(m, s) # NoDisk => Right(m, s, file[m][s]))'
      BY <3>2
    <3>4. pc'[m] \in {"claim", "get"} /\ LookedUp(m)'
      BY <1>1, <2>1, <3>3, NextLook DEF Claiming
    <3>5. ChoiceOK(m)'
      BY <3>4 DEF ChoiceOK
    <3> QED
      BY <1>0, <1>1, <1>2, <1>5, <3>4, <3>5 DEF StageOK, Claiming
  <2>2. CASE Goto(m, "patch")
    <3>1. pc'[m] = "patch"
      BY <2>2 DEF Goto, TypeInv, TypeOK
    <3> QED
      BY <1>1, <1>2, <3>1 DEF StageOK, ChoiceOK, LookedUp, Claiming
  <2> QED
    BY <2>1, <2>2
<1> QED
  BY <1>3, <1>8, <1>11, <1>12, <1>13, Whole

LEMMA UpdateClaimKeeps ==
    ASSUME TypeInv, FilesInv, NEW m \in Machines, UpdateClaim(m)
    PROVE  FilesInv'
<1> DEFINE d == pick[m]
<1>0. pc[m] = "update" /\ d \in Disks /\ disk[d] \in Disk /\ obj[m].phase # "gone"
  BY DEF UpdateClaim, TypeInv, TypeOK, DisksInv, PickOK, FilesInv, CopyOK, Forward, Claiming
<1>1. CASE /\ CanUpdate(m) /\ WriteDisk(d, Claimed(m, disk[d]))
           /\ \/ Assign(m, d, disk[d].file) /\ NextSlot(m)
              \/ Goto(m, "patch") /\ UNCHANGED <<mem, file, at>>
  <2>1. MayClaim(m, disk[d]) /\ d \in fresh
    BY <1>0, <1>1 DEF CanUpdate, TypeInv, DisksInv, PickOK, FilesInv, StageOK, ChoiceOK
  <2>2. /\ Claimed(m, disk[d]) \in Disk /\ Claimed(m, disk[d]).phase = "live"
        /\ m \in Claimed(m, disk[d]).refs /\ Claimed(m, disk[d]).file = disk[d].file
    <3>1. disk[d].phase \in {"loose", "live"}
      BY <1>0, <2>1, DiskFields DEF MayClaim, DiskPhases
    <3> QED
      BY <1>0, <3>1, DiskFields DEF Claimed
  <2> QED
    BY <1>0, <1>1, <2>1, <2>2, ClaimWritten DEF MayClaim
<1>2. CASE Goto(m, "patch") /\ UNCHANGED <<disk, cacheVars, mem, file, at, current>>
  BY <1>0, <1>2, GoesToPatch DEF UpdateClaim, Reconcile, cacheVars, scvmmVars
<1> QED
  BY <1>0, <1>1, <1>2 DEF UpdateClaim

LEMMA CreateClaimKeeps ==
    ASSUME TypeInv, FilesInv, NEW m \in Machines, CreateClaim(m)
    PROVE  FilesInv'
<1> DEFINE d == pick[m]
           New == [phase |-> "live", refs |-> {m, ThePool}, file |-> NoFile]
<1>0. pc[m] = "new" /\ d \in Disks /\ disk[d] \in Disk /\ obj[m].phase # "gone" /\ New \in Disk
  BY DEF CreateClaim, TypeInv, TypeOK, DisksInv, PickOK, FilesInv, CopyOK, Disk, DiskPhases,
     Forward, Claiming
<1>1. CASE /\ disk[d].phase = "absent" /\ WriteDisk(d, New)
           /\ \/ Assign(m, d, NoFile) /\ NextSlot(m)
              \/ Goto(m, "patch") /\ UNCHANGED <<mem, file, at>>
  <2>1. disk[d].file = NoFile
    BY <1>0, <1>1 DEF FilesInv, CoreInv, CacheOK
  <2>2. cdisk[d].file = NoFile \/ cdisk[d].file.by # NoVm
    BY <1>0 DEF FilesInv, StageOK, ChoiceOK
  <2>3. disk[d].refs \cap Machines = {}
    BY <1>0, <1>1 DEF TypeInv, DisksInv, DisksOK, IsDisk
  <2> QED
    BY <1>0, <1>1, <2>1, <2>2, <2>3, ClaimWritten
<1>2. CASE Goto(m, "patch") /\ UNCHANGED <<disk, cacheVars, mem, file, at, current>>
  BY <1>0, <1>2, GoesToPatch DEF CreateClaim, Reconcile, cacheVars, scvmmVars
<1> QED
  BY <1>0, <1>1, <1>2 DEF CreateClaim

LEMMA SendCreateVMKeeps ==
    ASSUME TypeInv, FilesInv, NoSlotTwice, NEW m \in Machines, SendCreateVM(m)
    PROVE  FilesInv'
<1> USE Facts
<1>0. CopyOK(m) /\ StageOK(m) /\ mem[m] \in Machine
  BY DEF FilesInv, TypeInv, TypeOK
<1>1. /\ pc[m] = "create" /\ obj[m].phase \in {"live", "deleting"} /\ rd[m].phase \in {"new", "live"}
      /\ mem[m].id = NoVm /\ rd[m].id = NoVm /\ obj[m].id = NoVm /\ Id(m) = NoVm
      /\ ~ Ending(m)
  BY <1>0 DEF SendCreateVM, CopyOK, Forward, Id, Ending
<1>2. UNCHANGED <<obj, disk, cdisk, fresh, rd, file, at, pick, current, got>> /\ Goto(m, "patch")
  BY DEF SendCreateVM, apiVars, cacheVars
<1>3. \A n \in Machines \ {m} : Left(n) /\ obj'[n] = obj[n]
  BY OthersLeft DEF Reconcile
<1>4. pc'[m] = "patch"
  BY <1>2 DEF Goto, TypeInv, TypeOK
<1>5. CASE UNCHANGED <<mem, scvmmVars>>
  BY <1>1, <1>2, <1>5, GoesToPatch DEF Reconcile, scvmmVars
<1>6. ASSUME NEW v \in VmIds, CreateVM(v, m), mem' = mem \/ mem' = [mem EXCEPT ![m].id = v]
      PROVE  FilesInv'
  <2>1. mem'[m].disk = mem[m].disk /\ mem'[m].id \in {NoVm, v}
    BY <1>0, <1>1, <1>6 DEF Machine, TypeInv, TypeOK
  <2>2. Id(m)' \in {NoVm, v} /\ (Ending(m)' <=> Ending(m)) /\ \A s \in Slots : Kept(m, s)' = Kept(m, s)
    BY <1>1, <1>2, <1>4, <2>1 DEF Id, Ending, Kept
  <2>3. \A n \in Machines \ {m} :
           Id(n)' = Id(n) /\ (Ending(n)' <=> Ending(n)) /\ \A s \in Slots : Kept(n, s)' = Kept(n, s)
    BY <1>2, <1>3 DEF Id, Ending, Kept, Left
  <2>4. SameKept
    BY <2>2, <2>3 DEF SameKept
  <2>5. UNCHANGED <<obj, disk, cdisk, got>>
    BY <1>2
  <2>6. \A n \in Machines :
            (Ending(n)' <=> Ending(n)) /\ (Id(n)' = Id(n) \/ (n = m /\ Id(n)' = v))
    BY <1>1, <2>2, <2>3
  <2>7. CoreInv' /\ \A f : Over(f) => Over(f)'
    <3> HIDE Facts
    <3>1. obj[m].phase # "gone"
      BY <1>1
    <3> QED
      BY <1>1, <1>6, <2>4, <2>5, <2>6, <3>1, CreateVMCore
  <2>8. ASSUME NEW n \in Machines \ {m} PROVE Around(n)
    <3>1. ASSUME Id(n) # NoVm PROVE vm'[Id(n)] = vm[Id(n)]
      <4>1. vm[v].st = "unused"
        BY <1>6 DEF CreateVM
      <4>2. vm[Id(n)].st # "unused"
        BY <3>1 DEF FilesInv, CoreInv, MachineOK, VmOfOK
      <4> QED
        BY <1>6, <3>1, <4>1, <4>2 DEF CreateVM, TypeInv, TypeOK
    <3>2. \A f : Secret(f) => Secret(f)'
      BY <1>2, <1>6 DEF Secret, Noted, CreateVM
    <3> QED
      BY <1>2, <2>7, <3>1, <3>2, OwnChoice DEF Around
  <2>9. CopyOK(m)'
    <3>1. \A s \in Slots : mem'[m].disk[s] = mem[m].disk[s]
      BY <2>1
    <3> QED
      BY <1>0, <1>1, <1>2, <1>4, <2>1 DEF CopyOK, Forward, Backward, Claiming
  <2>10. StageOK(m)'
    BY <1>1, <1>2, <1>4 DEF StageOK, ChoiceOK, LookedUp, Claiming
  <2> QED
    BY <1>3, <2>7, <2>8, <2>9, <2>10, Whole
<1> QED
  BY <1>5, <1>6 DEF SendCreateVM

(* A machine's VM gets a disk or is started.                               *)
LEMMA GrowingKeeps ==
    ASSUME TypeInv, FilesInv, NoSlotTwice, NEW m \in Machines, ExpandDisks(m) \/ SendStartVM(m),
           NEW v \in VmIds, v = mem[m].id, NEW new \in Vm,
           vm[v].st \in {"off", "running"}, new.st \in {"off", "running"},
           vm' = [vm EXCEPT ![v] = new],
           \A s \in Slots :
               new.disk[s] = vm[v].disk[s] \/ (vm[v].disk[s] = NoFile /\ Fits(m, s, new.disk[s])),
           \A f \in files' \ files : \E s \in Slots : new.disk[s] = f,
           used \subseteq used', used' \subseteq File,
           \A f \in used' \ used : \E s \in Slots : new.disk[s] = f,
           new.st = "running" => \A s \in Slots : new.disk[s] # NoFile => new.disk[s] \in used'
    PROVE  FilesInv'
<1>0. CopyOK(m) /\ StageOK(m)
  BY DEF FilesInv
<1>1. /\ pc[m] \in {"expand", "start"} /\ obj[m].phase \in {"live", "deleting"} /\ rd[m].phase \in {"new", "live"}
      /\ obj[m].id = v /\ Id(m) = v /\ ~ Ending(m)
  BY <1>0 DEF ExpandDisks, SendStartVM, CopyOK, Forward, Id, Ending
<1>2. UNCHANGED <<obj, disk, cdisk, fresh, rd, mem, file, at, pick, current, got>> /\ pc'[m] = "patch"
  BY DEF ExpandDisks, SendStartVM, apiVars, cacheVars, workVars, Goto, TypeInv, TypeOK
<1>3. \A n \in Machines \ {m} : Left(n) /\ obj'[n] = obj[n]
  BY OthersLeft DEF Reconcile
<1>4. \A n \in Machines :
         Id(n)' = Id(n) /\ (Ending(n)' <=> Ending(n)) /\ \A s \in Slots : Kept(n, s)' = Kept(n, s)
  BY <1>1, <1>2, <1>3 DEF Id, Ending, Kept, Left
<1>5. SameView
  BY <1>2, <1>4 DEF SameView, SameKept
<1>6. /\ CoreInv' /\ \A f : Over(f) => Over(f)'
      /\ \A w \in VmIds \ {v}, r \in Slots :
            vm[w].disk[r] # NoFile /\ Secret(vm[w].disk[r]) => Secret(vm[w].disk[r])'
  <2>1. obj[m].phase # "gone"
    BY <1>1
  <2> QED
    BY <1>1, <1>5, <2>1, GrowingCore
<1>7. ASSUME NEW n \in Machines \ {m} PROVE Around(n)
  <2>1. Id(n) # NoVm => Id(n) \in VmIds \ {v}
    BY <1>1, Facts DEF FilesInv, CoreInv, DistinctVms
  <2>2. Id(n) # NoVm => vm'[Id(n)] = vm[Id(n)]
    BY <2>1 DEF TypeInv, TypeOK
  <2>3. ASSUME Id(n) # NoVm, NEW s \in Slots, NEW f, f = vm[Id(n)].disk[s], f # NoFile, Secret(f)
        PROVE  Secret(f)'
    BY <1>6, <2>1, <2>2, <2>3
  <2> QED
    BY <1>2, <1>6, <2>2, <2>3, OwnChoice DEF Around
<1>8. CopyOK(m)'
  BY <1>0, <1>1, <1>2 DEF CopyOK, Forward, Backward, Claiming
<1>9. StageOK(m)'
  BY <1>1, <1>2 DEF StageOK, ChoiceOK, LookedUp, Claiming
<1> QED
  BY <1>3, <1>6, <1>7, <1>8, <1>9, Whole

LEMMA ExpandKeeps ==
    ASSUME TypeInv, FilesInv, NoSlotTwice, NEW m \in Machines, ExpandDisks(m)
    PROVE  FilesInv'
<1> USE Facts
<1>v. PICK v : v = mem[m].id
  OBVIOUS
<1>s. PICK s : s = FirstFree(v)
  OBVIOUS
<1>f. PICK f : f = IF file[m][s] = NoFile THEN [of |-> mem[m].disk[s], by |-> v] ELSE file[m][s]
  OBVIOUS
<1>new. PICK new : new = [vm[v] EXCEPT !.disk[s] = f]
  OBVIOUS
<1>0. CopyOK(m) /\ StageOK(m) /\ mem[m] \in Machine
  BY DEF FilesInv, TypeInv, TypeOK
<1>1. /\ pc[m] = "expand" /\ obj[m].phase \in {"live", "deleting"} /\ rd[m].phase \in {"new", "live"}
      /\ Id(m) = v /\ ~ Ending(m) /\ v \in VmIds /\ \A r \in Slots : Kept(m, r) = mem[m].disk[r]
  BY <1>0, <1>v DEF ExpandDisks, CopyOK, Forward, Id, Kept, Ending, TypeInv, PlacesOK, Machine
<1>2. CASE UNCHANGED scvmmVars
  BY <1>1, <1>2, GoesToPatch DEF ExpandDisks, Reconcile, apiVars, cacheVars, scvmmVars, workVars
<1>3. CASE ~ UNCHANGED scvmmVars
  <2>0. ExpandVMDisks(v, m)
    BY <1>3, <1>v DEF ExpandDisks
  <2>1. /\ vm[v].st \in {"off", "running"}
        /\ \E r \in Slots : vm[v].disk[r] = NoFile
        /\ mem[m].disk[s] # NoDisk
        /\ file[m][s] # NoFile => CanAttach(v, f)
        /\ vm' = [vm EXCEPT ![v].disk[s] = f]
        /\ files' = files \cup {f}
        /\ used' = IF vm[v].st = "running" THEN used \cup {f} ELSE used
    <3> HIDE Facts
    <3> QED
      <4> DEFINE s0 == FirstFree(v)
                 f0 == IF file[m][s0] = NoFile THEN [of |-> mem[m].disk[s0], by |-> v] ELSE file[m][s0]
      <4>1. /\ vm[v].st \in {"off", "running"}
            /\ \E r \in Slots : vm[v].disk[r] = NoFile
            /\ mem[m].disk[s0] # NoDisk
            /\ file[m][s0] # NoFile => CanAttach(v, f0)
            /\ vm' = [vm EXCEPT ![v].disk[s0] = f0]
            /\ files' = files \cup {f0}
            /\ used' = IF vm[v].st = "running" THEN used \cup {f0} ELSE used
        BY <1>3, <2>0 DEF ExpandVMDisks, FirstFree
      <4>2. s0 = s /\ f0 = f
        BY <1>s, <1>f
      <4> HIDE DEF s0, f0
      <4> QED
        BY <4>1, <4>2
  <2>2. s \in Slots /\ vm[v].disk[s] = NoFile
    BY <1>s, <2>1, FirstFreeIs
  <2>3. Kept(m, s) \in Disks /\ mem[m].disk[s] = Kept(m, s) /\ Right(m, s, file[m][s])
    BY <1>0, <1>1, <2>1, <2>2 DEF StageOK, LookedUp
  <2>4. f \in File
    BY <1>1, <1>f, <2>2, <2>3 DEF File
  <2>5. Fits(m, s, f)
    <3>1. CASE file[m][s] = NoFile
      <4>1. f.of = Kept(m, s) /\ f.by = v
        BY <1>f, <2>3, <3>1
      <4>2. disk[f.of].file = NoFile
        BY <2>2, <2>3, <3>1, <4>1, <1>1 DEF Right
      <4>3. ~ Over(f)
        <5>1. SUFFICES ASSUME Over(f) PROVE FALSE
          OBVIOUS
        <5>2. PICK n \in Machines : obj[n].id = v /\ Ending(n)
          BY <1>1, <4>1, <5>1 DEF Over
        <5>3. Id(n) = v
          BY <1>1, <5>2, IdRecorded DEF FilesInv
        <5> QED
          BY <1>1, <5>2, <5>3 DEF FilesInv, CoreInv, DistinctVms
      <4> QED
        BY <1>1, <2>3, <4>1, <4>2, <4>3 DEF Fits
    <3>2. CASE file[m][s] # NoFile
      <4>1. f = file[m][s] /\ f \in files
        BY <1>f, <2>1, <3>2 DEF CanAttach, Open
      <4>2. ~ Over(f)
        BY <4>1 DEF Over
      <4>3. f = disk[Kept(m, s)].file
        BY <2>3, <3>2, <4>1, <4>2 DEF Right
      <4>4. f.of = Kept(m, s)
        BY <2>3, <2>4, <4>3 DEF FilesInv, CoreInv, NotedOK
      <4> QED
        BY <2>3, <4>2, <4>3, <4>4 DEF Fits, Noted
    <3> QED
      BY <3>1, <3>2
  <2>6. vm' = [vm EXCEPT ![v] = new] /\ new \in Vm /\ new.st = vm[v].st
        /\ new.disk[s] = f /\ \A r \in Slots \ {s} : new.disk[r] = vm[v].disk[r]
    <3> HIDE Facts
    <3>1. vm[v] \in Vm /\ vm[v].disk \in Attached
      <4>1. vm[v] \in Vm
        BY <1>1, OnTypes
      <4> QED
        BY <4>1 DEF Vm
    <3>2. new \in Vm
      <4>1. [vm[v] EXCEPT !.disk[s] = f] \in Vm
        <5>1. vm[v] \in Vm /\ s \in Slots /\ f \in File \cup {NoFile}
          BY <2>2, <2>4, <3>1
        <5> QED
          BY <5>1, VmFields, Zenon
      <4> QED
        BY <1>new, <4>1
    <3>3. new.st = vm[v].st
      BY <1>new, <3>1 DEF Vm
    <3>4. new.disk = [vm[v].disk EXCEPT ![s] = f]
      BY <1>new, <3>1 DEF Vm
    <3>5. new.disk[s] = f /\ \A r \in Slots \ {s} : new.disk[r] = vm[v].disk[r]
      BY <2>2, <3>1, <3>4 DEF Attached
    <3>6. vm' = [vm EXCEPT ![v] = new]
      BY <1>new, <2>1
    <3> QED
      BY <3>2, <3>3, <3>5, <3>6
  <2>7. used' \subseteq File /\ used \subseteq used' /\ used' \ used \subseteq {f}
    BY <2>1, <2>4 DEF TypeInv, TypeOK
  <2>8. \A x \in files' \ files : \E r \in Slots : new.disk[r] = x
    BY <2>1, <2>2, <2>6
  <2>9. \A x \in used' \ used : \E r \in Slots : new.disk[r] = x
    BY <2>2, <2>6, <2>7
  <2>10. ASSUME new.st = "running", NEW r \in Slots, new.disk[r] # NoFile PROVE new.disk[r] \in used'
    <3>1. CASE r = s
      BY <2>1, <2>6, <2>10, <3>1
    <3>2. CASE r # s
      <4>1. vm[v].st = "running" /\ vm[v].disk[r] # NoFile /\ new.disk[r] = vm[v].disk[r]
        BY <2>6, <2>10, <3>2
      <4> HIDE Facts
      <4>2. vm[v].disk[r] \in used
        BY <1>1, <4>1 DEF FilesInv, CoreInv, VmOK, AttachedFileOK
      <4> QED
        BY <2>7, <4>1, <4>2
    <3> QED
      BY <3>1, <3>2
  <2>11. \A r \in Slots :
             new.disk[r] = vm[v].disk[r] \/ (vm[v].disk[r] = NoFile /\ Fits(m, r, new.disk[r]))
    BY <2>2, <2>5, <2>6
  <2> HIDE Facts
  <2>12. v \in VmIds /\ vm[v].st \in {"off", "running"} /\ new.st \in {"off", "running"}
    BY <1>1, <2>1, <2>6
  <2>13. new.st = "running" => \A r \in Slots : new.disk[r] # NoFile => new.disk[r] \in used'
    BY <2>10
  <2>14. vm' = [vm EXCEPT ![v] = new] /\ new \in Vm
    BY <2>6
  <2>15. used' \subseteq File /\ used \subseteq used'
    BY <2>7
  <2>16. ExpandDisks(m) \/ SendStartVM(m)
    OBVIOUS
  <2> QED
    BY <1>v, <2>16, <2>15, <2>8, <2>9, <2>11, <2>12, <2>13, <2>14, GrowingKeeps, Zenon
<1> QED
  BY <1>2, <1>3

LEMMA StartKeeps ==
    ASSUME TypeInv, FilesInv, NoSlotTwice, NEW m \in Machines, SendStartVM(m)
    PROVE  FilesInv'
<1>v. PICK v : v = mem[m].id
  OBVIOUS
<1>new. PICK new : new = [vm[v] EXCEPT !.st = "running"]
  OBVIOUS
<1>1. /\ pc[m] = "start" /\ obj[m].phase \in {"live", "deleting"} /\ v \in VmIds /\ vm[v] \in Vm
  BY <1>v DEF SendStartVM, CopyOK, Forward, TypeInv, TypeOK, PlacesOK, Machine, FilesInv
<1>2. CASE UNCHANGED scvmmVars
  BY <1>1, <1>2, GoesToPatch DEF SendStartVM, Reconcile, apiVars, cacheVars, scvmmVars, workVars
<1>3. CASE ~ UNCHANGED scvmmVars
  <2>1. /\ vm[v].st = "off" /\ vm' = [vm EXCEPT ![v].st = "running"]
        /\ used' = used \cup On(v) /\ files' = files
    BY <1>3, <1>v DEF SendStartVM, StartVM
  <2>2. vm' = [vm EXCEPT ![v] = new] /\ new \in Vm /\ new.st = "running" /\ new.disk = vm[v].disk
    <3>1. new \in Vm
      <4>1. [vm[v] EXCEPT !.st = "running"] \in Vm
        <5>1. vm[v] \in Vm /\ "running" \in VmStates
          BY <1>1 DEF VmStates
        <5> QED
          BY <5>1, VmFields, Zenon
      <4> QED
        BY <1>new, <4>1
    <3>2. new.st = "running" /\ new.disk = vm[v].disk
      BY <1>1, <1>new DEF Vm
    <3>3. vm' = [vm EXCEPT ![v] = new]
      BY <1>new, <2>1
    <3> QED
      BY <3>1, <3>2, <3>3
  <2>3. used' \subseteq File
    BY <1>1, <2>1, OnTypes DEF TypeInv, TypeOK
  <2>4. \A x \in used' \ used : \E r \in Slots : new.disk[r] = x
    BY <2>1, <2>2 DEF On
  <2>5. \A r \in Slots : new.disk[r] # NoFile => new.disk[r] \in used'
    BY <2>1, <2>2 DEF On
  <2>6. new.st = "running" => \A r \in Slots : new.disk[r] # NoFile => new.disk[r] \in used'
    BY <2>5
  <2>7. \A r \in Slots :
            new.disk[r] = vm[v].disk[r] \/ (vm[v].disk[r] = NoFile /\ Fits(m, r, new.disk[r]))
    BY <2>2
  <2>8. \A x \in files' \ files : \E r \in Slots : new.disk[r] = x
    BY <2>1
  <2>9. used \subseteq used' /\ v \in VmIds /\ vm[v].st \in {"off", "running"} /\ new.st \in {"off", "running"}
    BY <1>1, <2>1, <2>2
  <2>10. vm' = [vm EXCEPT ![v] = new] /\ new \in Vm
    BY <2>2
  <2> QED
    BY <1>v, <2>3, <2>4, <2>6, <2>7, <2>8, <2>9, <2>10, GrowingKeeps
<1> QED
  BY <1>2, <1>3

(* Where giving back leaves a reconcile.                                   *)
LEMMA GiveBackFrame ==
    ASSUME NEW m \in Machines, GiveBack(m)
    PROVE  pc[m] = "giveback" /\ UNCHANGED <<vm, files, used, rd, file, pick, got, queued>>
<1>1. UNCHANGED <<scvmmVars, rd, file, pick, got, queued>>
  BY Zenon DEF GiveBack
<1>2. pc[m] = "giveback"
  BY Zenon DEF GiveBack
<1> QED
  BY <1>1, <1>2 DEF scvmmVars

(* Where a disk was reported is noted for it.                              *)
LEMMA Noting ==
    ASSUME TypeInv, FilesInv, NoSlotTwice, NEW m \in Machines, NoteDisks(m) \/ GiveBack(m),
           pc'[m] # "idle", mem' = mem, NEW s \in Slots, NEW d, d = mem[m].disk[s], d # NoDisk,
           NEW f, f = got[m].disk[s], f # NoFile,
           UpdateDisk(m, d, [disk[d] EXCEPT !.file = f])
    PROVE  /\ CoreInv' /\ d \in Disks /\ obj[m].phase # "gone" /\ Kept(m, s) = d
           /\ disk'[d].file = f /\ \A e \in Disks \ {d} : disk'[e] = disk[e]
           /\ \A n \in Machines \ {m} : Left(n) /\ Around(n) /\ obj'[n] = obj[n]
           /\ SameMachines /\ SameKept /\ \A x : Over(x)' <=> Over(x)
<1> USE Facts
<1>0. CopyOK(m) /\ StageOK(m) /\ MachineOK(m)
  BY DEF FilesInv, CoreInv
<1>1. /\ pc[m] \in {"note", "giveback"} /\ obj[m].phase \in {"live", "deleting"}
      /\ obj[m].id = mem[m].id /\ Id(m) = mem[m].id /\ Kept(m, s) = d
  <2> HIDE Facts
  <2>1. pc[m] \in {"note", "giveback"}
    BY GiveBackFrame DEF NoteDisks
  <2>2. obj[m].phase \in {"live", "deleting"} /\ obj[m].id = mem[m].id
    BY <1>0, <2>1 DEF CopyOK, Forward, Backward
  <2> QED
    BY <2>1, <2>2 DEF Id, Kept
<1>2. d \in fresh /\ d \in Disks /\ disk[d] \in Disk
  BY <1>1 DEF UpdateDisk, TypeInv, TypeOK
<1>3. /\ UNCHANGED <<obj, vm, files, used, rd, mem, file, pick, got>> /\ cdisk' = cdisk
      /\ WriteDisk(d, [disk[d] EXCEPT !.file = f])
  <2> HIDE Facts
  <2>1. UNCHANGED <<obj, mem>> /\ cdisk' = cdisk /\ WriteDisk(d, [disk[d] EXCEPT !.file = f])
    BY DEF UpdateDisk, WriteDisk
  <2>2. CASE NoteDisks(m)
    BY <2>1, <2>2 DEF NoteDisks, scvmmVars
  <2>3. CASE GiveBack(m)
    BY <2>1, <2>3, GiveBackFrame
  <2> QED
    BY <2>1, <2>2, <2>3
<1>4. disk' = [disk EXCEPT ![d].file = f]
  BY <1>3 DEF WriteDisk
<1>5. disk'[d].file = f /\ \A e \in Disks \ {d} : disk'[e] = disk[e]
  BY <1>2, <1>4 DEF TypeInv, TypeOK, Disk
<1>6. \A n \in Machines \ {m} : Left(n) /\ obj'[n] = obj[n]
  BY OthersLeft DEF Reconcile
<1>7. \A n \in Machines :
         /\ Id(n)' = Id(n) /\ (Ending(n)' <=> Ending(n)) /\ got'[n] = got[n]
         /\ \A r \in Slots : Kept(n, r)' = Kept(n, r)
  BY <1>1, <1>3, <1>6 DEF Id, Ending, Kept, Left
<1>8. SameMachines /\ SameKept
  BY <1>3, <1>7 DEF SameMachines, SameKept
<1>9. CoreInv'
  <2>1. obj[m].phase # "gone" /\ obj[m].id = Id(m) /\ UNCHANGED cdisk /\ d = Kept(m, s)
    BY <1>1, <1>3
  <2> HIDE Facts
  <2> QED
    BY <1>2, <1>4, <1>8, <2>1, NotingCore
<1>10. \A x : Over(x)' <=> Over(x)
  BY <1>3, <1>7 DEF Over
<1>11. ASSUME NEW n \in Machines \ {m} PROVE Around(n)
  <2>1. ASSUME Id(n) # NoVm, NEW r \in Slots, NEW x, x = vm[Id(n)].disk[r], x # NoFile, Secret(x)
        PROVE  Secret(x)'
    <3>1. x \in File /\ x.of \in Disks /\ ~ Noted(x) /\ Id(n) \in VmIds
      BY <2>1 DEF Secret
    <3>2. x.by = Id(n)
      BY <2>1, <3>1 DEF FilesInv, CoreInv, VmOK, AttachedFileOK
    <3>3. x # f
      <4>1. SUFFICES ASSUME x = f PROVE FALSE
        OBVIOUS
      <4>2. Noted(f) \/ f.by = Id(m)
        BY <1>0, <1>1, <1>2 DEF MachineOK, ReportOK, ReportedFileOK
      <4> QED
        BY <2>1, <3>1, <3>2, <4>1, <4>2 DEF FilesInv, CoreInv, DistinctVms
    <3>4. ~ Noted(x)'
      BY <1>5, <3>1, <3>3 DEF Noted
    <3> QED
      BY <1>3, <2>1, <3>4 DEF Secret
  <2>2. obj[n].phase = "gone" \/ \A r \in Slots : Kept(n, r) # d
    <3>1. OwnedOK(n)
      BY DEF FilesInv, CoreInv, MachineOK
    <3> HIDE Facts
    <3> QED
      BY <1>0, <1>1, <3>1, SoleOwner DEF MachineOK
  <2>3. UNCHANGED vm /\ obj'[n] = obj[n] /\ Left(n)
    BY <1>3, <1>6
  <2>4. [disk[d] EXCEPT !.file = f] \in Disk
    BY <1>2, DiskFields
  <2> HIDE Facts
  <2> QED
    BY <1>2, <1>3, <1>10, <2>1, <2>2, <2>3, <2>4, WriteAround
<1> QED
  BY <1>1, <1>2, <1>5, <1>6, <1>8, <1>9, <1>10, <1>11

LEMMA NoteKeeps ==
    ASSUME TypeInv, FilesInv, NoSlotTwice, NEW m \in Machines, NoteDisks(m)
    PROVE  FilesInv'
<1> USE Facts
<1>0. CopyOK(m) /\ StageOK(m) /\ MachineOK(m) /\ at[m] \in 1 .. NumSlots + 1
  BY DEF FilesInv, CoreInv, TypeInv, TypeOK
<1>1. /\ pc[m] = "note" /\ obj[m].phase \in {"live", "deleting"} /\ Id(m) = mem[m].id
      /\ mem[m].id # NoVm /\ obj[m].id = mem[m].id /\ \A r \in Slots : Kept(m, r) = mem[m].disk[r]
  BY <1>0 DEF NoteDisks, CopyOK, Forward, Id, Kept
<1>2. UNCHANGED <<obj, vm, files, used, rd, mem, file, pick, got>>
  BY DEF NoteDisks, UpdateDisk, UpdateDiskFails, scvmmVars, apiVars
<1>3. ASSUME NEW s \in Unnoted(m), UpdateDisk(m, mem[m].disk[s], [disk[mem[m].disk[s]] EXCEPT !.file = got[m].disk[s]]),
             UNCHANGED pc
      PROVE  FilesInv'
  <2>d. PICK d : d = mem[m].disk[s]
    OBVIOUS
  <2>f. PICK f : f = got[m].disk[s]
    OBVIOUS
  <2>1. s \in Slots /\ d # NoDisk /\ f # NoFile
    BY <1>0, <2>d, <2>f, BoundAssumption DEF Unnoted, Slots
  <2>2. UpdateDisk(m, d, [disk[d] EXCEPT !.file = f]) /\ pc'[m] # "idle" /\ mem' = mem
    BY <1>1, <1>2, <1>3, <2>d, <2>f
  <2>3. /\ CoreInv' /\ d \in Disks /\ Kept(m, s) = d
        /\ disk'[d].file = f /\ \A e \in Disks \ {d} : disk'[e] = disk[e]
        /\ \A n \in Machines \ {m} : Left(n) /\ Around(n) /\ obj'[n] = obj[n]
        /\ SameMachines /\ SameKept /\ \A x : Over(x)' <=> Over(x)
    <3> HIDE Facts
    <3> QED
      BY <2>d, <2>f, <2>1, <2>2, Noting
  <2>4. CopyOK(m)'
    BY <1>0, <1>1, <1>2, <1>3 DEF CopyOK
  <2>5. Noted(f) \/ (disk[d].file = NoFile /\ vm[Id(m)].disk[s] = f)
    BY <1>0, <2>1, <2>3, <2>f DEF MachineOK, ReportOK, ReportedFileOK
  <2>6. f.of = d
    BY <1>0, <1>1, <2>1, <2>3, <2>f DEF MachineOK, ReportOK, ReportedFileOK
  <2>7. ASSUME NEW r \in Slots, Kept(m, r)' # NoDisk PROVE Right(m, r, file[m][r])'
    <3>g. PICK g : g = file[m][r]
      OBVIOUS
    <3>k. PICK k : k = Kept(m, r)
      OBVIOUS
    <3>1. k \in Disks /\ Kept(m, r)' = k /\ Right(m, r, g) /\ Id(m)' = Id(m)
      BY <1>0, <1>1, <2>3, <2>7, <3>g, <3>k DEF SameKept, SameMachines, StageOK, LookedUp
    <3>2. \/ g = disk'[k].file \/ (g # NoFile /\ Over(g)) \/ (g = NoFile /\ disk'[k].file = vm[Id(m)].disk[r])
      <4>1. CASE r = s
        <5>1. k = d /\ disk'[k].file = f
          BY <2>3, <3>k, <4>1
        <5>2. g = disk[d].file \/ (g # NoFile /\ Over(g)) \/ (g = NoFile /\ disk[d].file = vm[Id(m)].disk[s])
          BY <3>1, <3>k, <4>1, <5>1 DEF Right
        <5>3. disk[d].file = f \/ (disk[d].file = NoFile /\ vm[Id(m)].disk[s] = f)
          BY <2>5, <2>6 DEF Noted
        <5> HIDE Facts
        <5> QED
          BY <4>1, <5>1, <5>2, <5>3
      <4>2. CASE r # s
        <5>1. k # d
          BY <2>1, <2>3, <3>1, <3>k, <4>2 DEF NoSlotTwice
        <5>2. disk'[k] = disk[k]
          BY <2>3, <3>1, <5>1
        <5> HIDE Facts
        <5> QED
          BY <3>1, <3>k, <5>2 DEF Right
      <4> QED
        BY <4>1, <4>2
    <3> HIDE Facts
    <3> QED
      BY <1>1, <1>2, <2>3, <3>1, <3>2, <3>g, <3>k DEF Right
  <2>8. StageOK(m)'
    BY <1>1, <1>2, <1>3, <2>7 DEF StageOK, ChoiceOK, LookedUp, Claiming
  <2> QED
    BY <2>3, <2>4, <2>8, Whole
<1>4. ASSUME NEW label, Goto(m, label), label \in {"patch", "expand", "start", "done"},
             UNCHANGED <<apiVars, cacheVars>>
      PROVE  FilesInv'
  <2>1. pc'[m] = label /\ UNCHANGED <<disk, cdisk, fresh>>
    BY <1>4 DEF Goto, TypeInv, TypeOK, apiVars, cacheVars
  <2>2. CASE label = "patch"
    BY <1>1, <1>2, <1>4, <2>1, <2>2, GoesToPatch DEF Reconcile
  <2>3. CASE label # "patch"
    <3>1. CopyOK(m)'
      BY <1>0, <1>1, <1>2, <1>4, <2>1, <2>3 DEF CopyOK, Forward, Backward, Claiming
    <3>2. LookedUp(m)'
      <4>1. \A r \in Slots : Kept(m, r)' = Kept(m, r)
        BY <1>1, <1>2, <1>4, <2>1 DEF Kept
      <4>2. \A x : Over(x)' <=> Over(x)
        <5>1. \A n \in Machines : Ending(n)' <=> Ending(n)
          BY <1>1, <1>2, <1>4, <2>1, OthersLeft DEF Ending, Reconcile, Left
        <5> QED
          BY <1>2, <5>1 DEF Over
      <4>3. Id(m)' = Id(m)
        BY <1>1, <1>2, <1>4, <2>1 DEF Id
      <4>4. ASSUME NEW r \in Slots, Kept(m, r) # NoDisk PROVE Right(m, r, file[m][r])'
        <5>1. Right(m, r, file[m][r])
          BY <1>0, <1>1, <4>4 DEF StageOK, LookedUp
        <5> HIDE Facts
        <5> QED
          BY <1>2, <2>1, <4>1, <4>2, <4>3, <5>1 DEF Right
      <4> QED
        BY <4>1, <4>4 DEF LookedUp
    <3>3. StageOK(m)'
      BY <1>1, <1>2, <1>4, <2>1, <3>2 DEF StageOK, ChoiceOK, Claiming
    <3>4. Reports(m) /\ pc'[m] # "idle"
      BY <1>2, <1>4, <2>1 DEF Reports
    <3> HIDE Facts
    <3> QED
      BY <1>1, <1>2, <2>1, <3>1, <3>3, <3>4, GoesOn DEF Reconcile
  <2> QED
    BY <2>2, <2>3
<1> HIDE Facts
<1> QED
  <2>1. CASE \E s \in Unnoted(m) :
               LET d == mem[m].disk[s]
               IN UpdateDisk(m, d, [disk[d] EXCEPT !.file = got[m].disk[s]]) /\ UNCHANGED pc
    BY <1>3, <2>1
  <2>2. CASE \E s \in Unnoted(m) : UpdateDiskFails(m, mem[m].disk[s]) /\ Goto(m, "patch")
    BY <1>4, <2>2 DEF UpdateDiskFails
  <2>3. CASE Unnoted(m) = {} /\ \E label \in {"patch", "expand", "start", "done"} :
                Goto(m, label) /\ UNCHANGED <<apiVars, cacheVars>>
    BY <1>4, <2>3
  <2> QED
    BY <2>1, <2>2, <2>3 DEF NoteDisks

LEMMA GiveBackKeeps ==
    ASSUME TypeInv, FilesInv, NoSlotTwice, NEW m \in Machines, GiveBack(m)
    PROVE  FilesInv'
<1>s. PICK s : s = Least({r \in Slots : mem[m].disk[r] # NoDisk})
  OBVIOUS
<1>d. PICK d : d = mem[m].disk[s]
  OBVIOUS
<1>f. PICK f : f = got[m].disk[s]
  OBVIOUS
<1>0. CopyOK(m) /\ StageOK(m) /\ MachineOK(m) /\ mem[m] \in Machine
  BY DEF FilesInv, CoreInv, TypeInv, TypeOK
<1>1. /\ pc[m] = "giveback" /\ UNCHANGED <<vm, files, used, rd, file, pick, got>>
  BY GiveBackFrame
<1>2. /\ obj[m].phase = "deleting" /\ rd[m].phase = "deleting" /\ Id(m) = mem[m].id /\ obj[m].id = mem[m].id
      /\ rd[m].id = obj[m].id /\ Ending(m)
      /\ \A r \in Slots : Kept(m, r) = mem[m].disk[r] /\ mem[m].disk[r] \in {rd[m].disk[r], NoDisk}
  BY <1>0, <1>1 DEF CopyOK, Backward, Id, Kept, Ending
<1>3. {r \in Slots : mem[m].disk[r] # NoDisk} # {} => s \in Slots /\ d \in Disks
  <2>1. Slots \subseteq Nat
    BY Values
  <2>2. {r \in Slots : mem[m].disk[r] # NoDisk} # {} => s \in {r \in Slots : mem[m].disk[r] # NoDisk}
    BY <1>s, <2>1, LeastIn
  <2> QED
    BY <1>0, <1>d, <2>2 DEF Machine
<1>4. CASE /\ Goto(m, "patch") /\ UNCHANGED <<apiVars, cacheVars, mem>>
  BY <1>1, <1>2, <1>4, GoesToPatch DEF Reconcile, apiVars, cacheVars
<1>5. CASE /\ s \in Slots /\ d \in Disks /\ f # NoFile
           /\ UpdateDisk(m, d, [disk[d] EXCEPT !.file = f])
           /\ at' = [at EXCEPT ![m] = s]
           /\ \E label \in {"detach", "patch"} : Goto(m, label)
           /\ UNCHANGED mem
  <2>1. pc'[m] \in {"detach", "patch"} /\ at'[m] = s
    BY <1>5 DEF Goto, TypeInv, TypeOK
  <2>2. /\ CoreInv' /\ disk'[d].file = f
        /\ \A n \in Machines \ {m} : Left(n) /\ Around(n) /\ obj'[n] = obj[n]
    <3>1. d # NoDisk /\ pc'[m] # "idle" /\ mem' = mem
      BY <1>5, <2>1, Facts
    <3> QED
      BY <1>5, <1>d, <1>f, <3>1, Noting
  <2>3. UNCHANGED <<obj, mem>>
    BY <1>5 DEF UpdateDisk
  <2>4. CopyOK(m)'
    BY <1>0, <1>1, <1>2, <2>1, <2>3 DEF CopyOK, Forward, Backward, Claiming
  <2>5. StageOK(m)'
    <3>1. mem[m].disk[s] # NoDisk /\ disk'[mem[m].disk[s]].file # NoFile
      BY <1>5, <1>d, <2>2, Facts
    <3> QED
      BY <1>1, <1>2, <2>1, <2>3, <3>1 DEF StageOK, ChoiceOK, LookedUp, Claiming
  <2> QED
    BY <2>2, <2>4, <2>5, Whole
<1>6. CASE /\ s \in Slots /\ d \in Disks /\ f = NoFile
           /\ UpdateDisk(m, d, [disk[d] EXCEPT !.refs = @ \ {m}])
           /\ mem' = [mem EXCEPT ![m].disk[s] = NoDisk]
           /\ UNCHANGED <<pc, at>>
  <2>new. PICK new : new = [disk[d] EXCEPT !.refs = @ \ {m}]
    OBVIOUS
  <2>1. disk[d] \in Disk /\ new \in Disk /\ new.file = disk[d].file
    <3>1. disk[d] \in Disk
      BY <1>6 DEF TypeInv, TypeOK
    <3>2. disk[d].refs \ {m} \in SUBSET (Machines \cup {ThePool})
      BY <3>1, DiskFields
    <3>3. [disk[d] EXCEPT !.refs = disk[d].refs \ {m}] \in Disk
      BY <3>1, <3>2, DiskFields
    <3>4. new = [disk[d] EXCEPT !.refs = disk[d].refs \ {m}]
      BY <2>new
    <3> QED
      BY <3>1, <3>3, <3>4 DEF Disk
  <2>2. WriteDisk(d, new) /\ UNCHANGED <<obj, cdisk>> /\ disk' = [disk EXCEPT ![d].refs = @ \ {m}]
        /\ disk' = [disk EXCEPT ![d] = new]
    BY <1>6, <2>new DEF UpdateDisk, WriteDisk
  <2>3. \A e \in Disks : disk'[e].file = disk[e].file
    BY <2>1, <2>2 DEF TypeInv, TypeOK
  <2>4. \A n \in Machines \ {m} : Left(n) /\ obj'[n] = obj[n]
    BY OthersLeft DEF Reconcile
  <2>5. /\ mem'[m].id = mem[m].id /\ mem'[m].disk[s] = NoDisk
        /\ \A r \in Slots \ {s} : mem'[m].disk[r] = mem[m].disk[r]
    <3>1. mem'[m] = [mem[m] EXCEPT !.disk[s] = NoDisk]
      BY <1>6 DEF TypeInv, TypeOK
    <3> QED
      BY <1>0, <1>6, <3>1 DEF Machine
  <2>6. \A n \in Machines : Id(n)' = Id(n) /\ (Ending(n)' <=> Ending(n)) /\ got'[n] = got[n]
    BY <1>1, <1>6, <2>2, <2>4, <2>5 DEF Id, Ending, Left
  <2>7. ASSUME NEW n \in Machines, NEW r \in Slots
        PROVE  Kept(n, r)' = IF n = m /\ r = s THEN NoDisk ELSE Kept(n, r)
    <3>1. CASE n = m
      BY <1>1, <1>6, <2>5, <3>1 DEF Kept
    <3>2. CASE n # m
      BY <2>4, <3>2 DEF Kept, Left
    <3> QED
      BY <3>1, <3>2
  <2>8. SameMachines
    BY <1>1, <2>2, <2>6 DEF SameMachines
  <2>9. CoreInv'
    <3>1. /\ obj[m].phase # "gone" /\ Ending(m) /\ pc[m] = "giveback" /\ got[m].disk[s] = NoFile
          /\ d = Kept(m, s) /\ UNCHANGED cdisk
      BY <1>1, <1>2, <1>6, <1>d, <1>f, <2>2
    <3> QED
      BY <1>6, <2>2, <2>7, <2>8, <3>1, ReleasingCore
  <2>10. \A f1 : Over(f1)' <=> Over(f1)
    BY <1>1, <2>2, <2>6 DEF Over
  <2>11. \A f1 \in File : Secret(f1)' <=> Secret(f1)
    BY <1>1, <2>3, Facts DEF Secret, Noted
  <2>12. ASSUME NEW n \in Machines \ {m} PROVE Around(n)
    <3>1. ASSUME Id(n) # NoVm, NEW r \in Slots, NEW x, x = vm[Id(n)].disk[r], x # NoFile, Secret(x)
          PROVE  Secret(x)'
      BY <2>11, <3>1, Facts
    <3>2. UNCHANGED vm /\ obj'[n] = obj[n] /\ Left(n)
      BY <1>1, <2>4
    <3> QED
      BY <1>6, <2>1, <2>2, <2>10, <3>1, <3>2, WriteAround
  <2>13. CopyOK(m)'
    <3>1. \A r \in Slots : mem'[m].disk[r] \in {rd[m].disk[r], NoDisk}
      BY <1>2, <2>5
    <3> QED
      BY <1>0, <1>1, <1>2, <1>6, <2>2, <2>5, <3>1 DEF CopyOK, Forward, Backward, Claiming
  <2>14. StageOK(m)'
    <3>1. Id(m)' = Id(m)
      BY <2>6
    <3>2. ASSUME Id(m) # NoVm, NEW r \in Slots, vm[Id(m)].disk[r] # NoFile, got[m].disk[r] = NoFile
          PROVE  Secret(vm[Id(m)].disk[r])'
      <4>1. Secret(vm[Id(m)].disk[r]) /\ vm[Id(m)].disk[r] \in File
        BY <1>0, <1>1, <3>2, Facts DEF StageOK
      <4>2. vm'[Id(m)'].disk[r] = vm[Id(m)].disk[r]
        BY <1>1, <3>1
      <4> QED
        BY <2>11, <4>1, <4>2
    <3> QED
      BY <1>1, <1>2, <1>6, <2>2, <3>1, <3>2 DEF StageOK, ChoiceOK, LookedUp, Claiming
  <2> QED
    BY <2>4, <2>9, <2>12, <2>13, <2>14, Whole
<1> QED
  <2>1. CASE {r \in Slots : mem[m].disk[r] # NoDisk} = {}
    <3>1. Goto(m, "patch") /\ UNCHANGED <<apiVars, cacheVars, mem>>
      BY <2>1, Zenon DEF GiveBack
    <3> QED
      BY <1>4, <3>1
  <2>2. CASE {r \in Slots : mem[m].disk[r] # NoDisk} # {}
    <3>1. \/ /\ f # NoFile
             /\ UpdateDisk(m, d, [disk[d] EXCEPT !.file = f])
             /\ at' = [at EXCEPT ![m] = s]
             /\ \E label \in {"detach", "patch"} : Goto(m, label)
             /\ UNCHANGED mem
          \/ /\ f = NoFile
             /\ UpdateDisk(m, d, [disk[d] EXCEPT !.refs = @ \ {m}])
             /\ mem' = [mem EXCEPT ![m].disk[s] = NoDisk]
             /\ UNCHANGED <<pc, at>>
          \/ Goto(m, "patch") /\ UNCHANGED <<apiVars, cacheVars, mem>>
      <4> DEFINE s0 == Least({r \in Slots : mem[m].disk[r] # NoDisk})
                 d0 == mem[m].disk[s0]
      <4>1. \/ /\ ~ Detached(m, s0)
               /\ UpdateDisk(m, d0, [disk[d0] EXCEPT !.file = got[m].disk[s0]])
               /\ at' = [at EXCEPT ![m] = s0]
               /\ Goto(m, IF got[m].st \in {"off", "running"} THEN "detach" ELSE "patch")
               /\ UNCHANGED mem
            \/ /\ Detached(m, s0)
               /\ UpdateDisk(m, d0, [disk[d0] EXCEPT !.refs = @ \ {m}])
               /\ mem' = [mem EXCEPT ![m].disk[s0] = NoDisk]
               /\ UNCHANGED <<pc, at>>
            \/ Goto(m, "patch") /\ UNCHANGED <<apiVars, cacheVars, mem>>
        BY <2>2, Zenon DEF GiveBack
      <4>2. s0 = s /\ d0 = d /\ f = got[m].disk[s]
        BY <1>s, <1>d, <1>f
      <4> HIDE DEF s0, d0
      <4> QED
        BY <4>1, <4>2 DEF Detached
    <3>2. s \in Slots /\ d \in Disks
      BY <1>3, <2>2
    <3> QED
      BY <1>4, <1>5, <1>6, <3>1, <3>2, Zenon
  <2> QED
    BY <2>1, <2>2

(* SCVMM does something to one VM.                                         *)
LEMMA SettlingAround ==
    ASSUME TypeInv, FilesInv, NEW v \in VmIds, NEW new, vm' = [vm EXCEPT ![v] = new],
           UNCHANGED <<disk, cdisk, fresh, used>>, vm[v].st # "removed",
           \A s \in Slots : new.disk[s] = vm[v].disk[s] \/ Dropped(v, new, s),
           \A f : f # NoFile /\ Over(f) => Over(f)',
           NEW n \in Machines, n \in current' => n \in current
    PROVE  Around(n)
<1>1. ASSUME Id(n) # NoVm
      PROVE  /\ vm[Id(n)].st = "removed" => vm'[Id(n)].st = "removed"
             /\ \A s \in Slots : \/ vm'[Id(n)].disk[s] = vm[Id(n)].disk[s]
                                 \/ vm'[Id(n)].disk[s] = NoFile /\ Ending(n)
  <2>1. Id(n) \in VmIds
    BY <1>1, Facts
  <2>2. CASE Id(n) # v
    BY <2>1, <2>2 DEF TypeInv, TypeOK
  <2>3. CASE Id(n) = v
    <3>1. vm'[Id(n)] = new
      BY <2>3 DEF TypeInv, TypeOK
    <3>2. vm[v].st \in {"updating", "removing"} => Ending(n)
      BY <1>1, <2>3 DEF FilesInv, CoreInv, MachineOK, VmOfOK
    <3> QED
      BY <2>3, <3>1, <3>2 DEF Dropped
  <2> QED
    BY <2>2, <2>3
<1>2. \A f : Secret(f)' <=> Secret(f)
  BY DEF Secret, Noted
<1> QED
  BY <1>1, <1>2, OwnChoice DEF Around

LEMMA DetachKeeps ==
    ASSUME TypeInv, FilesInv, NEW m \in Machines, DetachDisk(m)
    PROVE  FilesInv'
<1>v. PICK v : v = mem[m].id
  OBVIOUS
<1>s. PICK s : s = at[m]
  OBVIOUS
<1>0. CopyOK(m) /\ StageOK(m) /\ MachineOK(m) /\ v \in VmIds \cup {NoVm}
  BY <1>v DEF FilesInv, CoreInv, TypeInv, TypeOK, Machine
<1>1. /\ pc[m] = "detach" /\ obj[m].phase = "deleting" /\ rd[m].phase = "deleting" /\ Id(m) = v
      /\ obj[m].id = v /\ Ending(m) /\ s \in Slots /\ Kept(m, s) = mem[m].disk[s]
  BY <1>0, <1>v, <1>s DEF DetachDisk, CopyOK, Backward, Id, Kept, Ending, TypeInv, PlacesOK
<1>2. UNCHANGED <<obj, disk, cdisk, fresh, rd, mem, file, at, pick, current, got>> /\ Goto(m, "patch")
  BY DEF DetachDisk, apiVars, cacheVars, workVars
<1>3. pc'[m] = "patch" /\ \A n \in Machines \ {m} : Left(n) /\ obj'[n] = obj[n]
  BY <1>2, OthersLeft DEF Reconcile, Goto, TypeInv, TypeOK
<1>4. CASE UNCHANGED <<vm, files, used>>
  BY <1>1, <1>2, <1>4, GoesToPatch DEF Reconcile
<1>5. ASSUME v \in VmIds, NEW new \in Vm, vm' = [vm EXCEPT ![v] = new], UNCHANGED <<files, used>>,
             vm[v].st \in {"off", "running"}, new.disk = vm[v].disk,
             new.st \in {"updating", "stopping"},
             new.st = "updating" => new.out = s /\ vm[v].disk[s] # NoFile
      PROVE  FilesInv'
  <2>1. \A n \in Machines : Id(n)' = Id(n) /\ (Ending(n)' <=> Ending(n))
    BY <1>1, <1>2, <1>3 DEF Id, Ending, Left
  <2>2. SameKept
    BY <1>1, <1>2, <1>3 DEF SameKept, Kept, Left
  <2>3. ASSUME NEW r \in Slots, new.disk[r] # NoFile, new.st = "updating", new.out = r
        PROVE  Noted(new.disk[r])
    <3>1. vm[v].disk[s] # NoFile /\ r = s /\ new.disk[r] = vm[v].disk[s]
      BY <1>5, <2>3
    <3>2. Kept(m, s) # NoDisk /\ disk[Kept(m, s)].file # NoFile
      BY <1>0, <1>1, <1>s DEF StageOK
    <3>3. vm[v].disk[s].of = Kept(m, s) /\ disk[vm[v].disk[s].of].file \in {vm[v].disk[s], NoFile}
      BY <1>0, <1>1, <1>5, <3>1, <3>2, Facts DEF MachineOK, KeptOK
    <3> QED
      BY <3>1, <3>2, <3>3 DEF Noted
  <2>4. CoreInv' /\ \A f : f # NoFile /\ Over(f) => Over(f)'
    <3>1. UNCHANGED <<obj, disk, cdisk, used>>
      BY <1>2, <1>5
    <3>2. \A n \in Machines : \A r \in Slots : got'[n].disk[r] \in {got[n].disk[r], NoFile}
      BY <1>2
    <3>3. /\ vm[v].st \notin {"unused", "removed"}
          /\ new.st \notin {"unused", "preparing", "running", "removed", "removing"}
      BY <1>5
    <3>4. \A r \in Slots : new.disk[r] = vm[v].disk[r] \/ Dropped(v, new, r)
      BY <1>5
    <3>5. \A f \in files' \ files : \E r \in Slots : new.disk[r] = f
      BY <1>5
    <3>6. \E n \in Machines : obj[n].id = v /\ Ending(n)
      BY <1>1
    <3>7. new.st = "updating" => new.out \in Slots
      BY <1>1, <1>5
    <3> QED
      BY <1>5, <2>1, <2>2, <2>3, <3>1, <3>2, <3>3, <3>4, <3>5, <3>6, <3>7, SettlingCore
  <2>5. ASSUME NEW n \in Machines PROVE Around(n)
    <3>1. UNCHANGED <<disk, cdisk, fresh, used>> /\ vm[v].st # "removed" /\ (n \in current' => n \in current)
      BY <1>2, <1>5
    <3> QED
      BY <1>5, <2>4, <3>1, SettlingAround
  <2>6. CopyOK(m)'
    BY <1>0, <1>1, <1>2, <1>3 DEF CopyOK, Forward, Backward, Claiming
  <2>7. StageOK(m)'
    BY <1>1, <1>2, <1>3 DEF StageOK, ChoiceOK, LookedUp, Claiming
  <2> QED
    BY <1>3, <2>4, <2>5, <2>6, <2>7, Whole
<1> QED
  <2>1. CASE UNCHANGED scvmmVars
    BY <1>4, <2>1 DEF scvmmVars
  <2>2. CASE RemoveDiskFromVM(v, s) /\ v \in VmIds
    <3>1. vm[v] \in Vm
      BY <2>2 DEF TypeInv, TypeOK
    <3>2. CASE vm[v].st = "off" /\ vm[v].disk[s] # NoFile
      <4>new. PICK new : new = [vm[v] EXCEPT !.st = "updating", !.out = s]
        OBVIOUS
      <4>1. new \in Vm
        <5>1. [vm[v] EXCEPT !.st = "updating", !.out = s] \in Vm
          BY <1>1, <3>1, VmFields, Zenon
        <5> QED
          BY <4>new, <5>1
      <4>2. new.st = "updating" /\ new.out = s /\ new.disk = vm[v].disk
        BY <3>1, <4>new DEF Vm
      <4>3. vm' = [vm EXCEPT ![v] = new] /\ UNCHANGED <<files, used>>
        BY <2>2, <3>2, <4>new DEF RemoveDiskFromVM
      <4> QED
        BY <1>5, <2>2, <3>2, <4>1, <4>2, <4>3
    <3>3. CASE vm[v].st = "running"
      <4>new. PICK new : new = [vm[v] EXCEPT !.st = "stopping"]
        OBVIOUS
      <4>1. new \in Vm
        <5>1. "stopping" \in VmStates
          BY DEF VmStates
        <5>2. [vm[v] EXCEPT !.st = "stopping"] \in Vm
          BY <3>1, <5>1, VmFields, Zenon
        <5> QED
          BY <4>new, <5>2
      <4>2. new.st = "stopping" /\ new.disk = vm[v].disk
        BY <3>1, <4>new DEF Vm
      <4>3. vm' = [vm EXCEPT ![v] = new] /\ UNCHANGED <<files, used>>
        BY <2>2, <3>3, <4>new DEF RemoveDiskFromVM
      <4> QED
        BY <1>5, <2>2, <3>3, <4>1, <4>2, <4>3
    <3>4. CASE ~ (vm[v].st = "off" /\ vm[v].disk[s] # NoFile) /\ vm[v].st # "running"
      BY <1>4, <2>2, <3>4 DEF RemoveDiskFromVM
    <3> QED
      BY <3>2, <3>3, <3>4
  <2>3. CASE RemoveDiskFromVM(v, s) /\ v = NoVm
    <3>1. vm' = vm
      <4>1. v \notin DOMAIN vm
        BY <2>3, NullAssumption DEF TypeInv, TypeOK
      <4> QED
        BY <2>3, <4>1 DEF RemoveDiskFromVM, TypeInv, TypeOK
    <3> QED
      BY <1>4, <2>3, <3>1 DEF RemoveDiskFromVM
  <2> QED
    BY <1>0, <1>v, <1>s, <2>1, <2>2, <2>3 DEF DetachDisk

LEMMA RemoveKeeps ==
    ASSUME TypeInv, FilesInv, NEW m \in Machines, SendRemoveVM(m)
    PROVE  FilesInv'
<1>v. PICK v : v = mem[m].id
  OBVIOUS
<1>0. CopyOK(m) /\ StageOK(m) /\ MachineOK(m) /\ v \in VmIds \cup {NoVm} /\ mem[m] \in Machine
  BY <1>v DEF FilesInv, CoreInv, TypeInv, TypeOK, Machine
<1>1. /\ pc[m] = "remove" /\ obj[m].phase = "deleting" /\ rd[m].phase = "deleting" /\ Id(m) = v
      /\ obj[m].id = v /\ rd[m].id = v /\ Ending(m) /\ mem[m].disk = NoDisks /\ obj[m].disk = NoDisks
      /\ rd[m].disk = NoDisks /\ \A s \in Slots : Kept(m, s) = NoDisk
  BY <1>0, <1>v DEF SendRemoveVM, CopyOK, Backward, Id, Kept, Ending, NoDisks
<1>2. UNCHANGED <<obj, disk, cdisk, fresh, current>>
  BY DEF SendRemoveVM, apiVars, cacheVars
<1>3. \A n \in Machines \ {m} : Left(n) /\ obj'[n] = obj[n]
  BY OthersLeft DEF Reconcile
<1>4. CASE UNCHANGED <<vm, files, used>> /\ Return(m, TRUE)
  BY <1>v, <1>1, <1>2, <1>4, ReturnStep
<1>5. CASE /\ ~ Exists(v) /\ Goto(m, "unfinalize") /\ UNCHANGED scvmmVars
           /\ UNCHANGED <<rd, mem, file, at, pick, got>>
  <2>1. pc'[m] = "unfinalize" /\ UNCHANGED <<vm, files, used>>
    BY <1>5 DEF Goto, TypeInv, TypeOK, scvmmVars
  <2>2. CopyOK(m)'
    BY <1>0, <1>1, <1>2, <1>5, <2>1 DEF CopyOK, Forward, Backward, Claiming
  <2>3. StageOK(m)'
    <3>1. v # NoVm => vm[v].st = "removed"
      BY <1>0, <1>1, <1>5 DEF Exists, MachineOK, VmOfOK
    <3>2. Id(m)' = v
      BY <1>v, <1>5, <2>1 DEF Id
    <3> QED
      BY <1>1, <1>2, <2>1, <3>1, <3>2 DEF StageOK, ChoiceOK, LookedUp, Claiming
  <2>4. Reports(m) /\ pc[m] # "idle" /\ pc'[m] # "idle"
    BY <1>1, <1>5, <2>1 DEF Reports
  <2>5. rd'[m] = rd[m] /\ mem'[m] = mem[m] /\ obj'[m] = obj[m]
    BY <1>2, <1>5
  <2>6. UNCHANGED <<disk, cdisk, fresh, vm, files, used>>
    BY <1>2, <2>1
  <2> QED
    BY <2>2, <2>3, <2>4, <2>5, <2>6, GoesOn DEF Reconcile
<1>6. ASSUME Exists(v), NEW new \in Vm, vm' = [vm EXCEPT ![v] = new], UNCHANGED <<files, used>>,
             vm[v].st \in {"off", "running"}, new.disk = vm[v].disk,
             new.st \in {"removing", "stopping"}, Return(m, TRUE)
      PROVE  FilesInv'
  <2>0. v \in VmIds /\ v # NoVm
    BY <1>6, NullAssumption DEF Exists
  <2>1. /\ pc'[m] = "idle" /\ rd'[m] = NoMachine /\ mem'[m] = NoMachine
        /\ got'[m] = NoReport /\ at'[m] = 1
    BY <1>6, ReturnLeft
  <2>2. \A n \in Machines : Id(n)' = Id(n) /\ (Ending(n)' <=> Ending(n))
    BY <1>1, <1>2, <1>3, <2>1 DEF Id, Ending, Left
  <2>3. SameKept
    BY <1>1, <1>2, <1>3, <2>1 DEF SameKept, Kept, Left, NoDisks
  <2>4. CoreInv' /\ \A f : f # NoFile /\ Over(f) => Over(f)'
    <3>1. UNCHANGED <<obj, disk, cdisk, used>>
      BY <1>2, <1>6
    <3>2. ASSUME NEW n \in Machines, NEW r \in Slots PROVE got'[n].disk[r] \in {got[n].disk[r], NoFile}
      BY <1>3, <2>1 DEF Left, NoReport, NoFiles
    <3>3. /\ vm[v].st \notin {"unused", "removed"}
          /\ new.st \notin {"unused", "preparing", "running", "removed", "updating"}
      BY <1>6
    <3>4. \A r \in Slots : new.disk[r] = vm[v].disk[r] \/ Dropped(v, new, r)
      BY <1>6
    <3>5. \A f \in files' \ files : \E r \in Slots : new.disk[r] = f
      BY <1>6
    <3>6. \E n \in Machines : obj[n].id = v /\ Ending(n)
      BY <1>1
    <3>7. \A n \in Machines : Id(n) = v => \A s \in Slots : Kept(n, s) = NoDisk
      BY <1>1, <2>0 DEF FilesInv, CoreInv, DistinctVms
    <3>8. ASSUME NEW s \in Slots, new.disk[s] # NoFile PROVE new.disk[s] \notin used
      BY <1>0, <1>1, <1>6, <2>0, <3>8 DEF MachineOK, KeptOK, Secret
    <3> QED
      BY <1>6, <2>0, <2>2, <2>3, <3>1, <3>2, <3>3, <3>4, <3>5, <3>6, <3>7, <3>8, SettlingCore
  <2>5. ASSUME NEW n \in Machines PROVE Around(n)
    <3>1. UNCHANGED <<disk, cdisk, fresh, used>> /\ vm[v].st # "removed" /\ (n \in current' => n \in current)
      BY <1>2, <1>6
    <3> QED
      BY <1>6, <2>0, <2>4, <3>1, SettlingAround
  <2>6. CopyOK(m)'
    BY <1>0, <1>1, <1>2, <2>1 DEF CopyOK, Forward, Backward, Claiming, NoMachine
  <2>7. StageOK(m)'
    BY <1>1, <1>2, <2>1 DEF StageOK, ChoiceOK, LookedUp, Claiming
  <2> QED
    BY <1>3, <2>4, <2>5, <2>6, <2>7, Whole
<1>7. ASSUME Exists(v), RemoveVM(v), Return(m, TRUE) PROVE FilesInv'
  <2>1. v \in VmIds /\ vm[v] \in Vm
    BY <1>7 DEF Exists, TypeInv, TypeOK
  <2>2. ASSUME vm[v].st \in {"off", "running"}, NEW st \in {"removing", "stopping"},
               vm' = [vm EXCEPT ![v].st = st]
        PROVE  FilesInv'
    <3>new. PICK new : new = [vm[v] EXCEPT !.st = st]
      OBVIOUS
    <3>1. new \in Vm
      <4>1. st \in VmStates
        BY DEF VmStates
      <4>2. [vm[v] EXCEPT !.st = st] \in Vm
        BY <2>1, <4>1, VmFields, Zenon
      <4> QED
        BY <3>new, <4>2
    <3>2. new.st = st /\ new.disk = vm[v].disk
      BY <2>1, <3>new DEF Vm
    <3>3. vm' = [vm EXCEPT ![v] = new] /\ UNCHANGED <<files, used>>
      BY <1>7, <2>2, <3>new DEF RemoveVM
    <3> QED
      BY <1>6, <1>7, <2>2, <3>1, <3>2, <3>3
  <2>3. CASE vm[v].st = "running"
    <3>1. vm' = [vm EXCEPT ![v].st = "stopping"]
      BY <1>7, <2>3 DEF RemoveVM
    <3> QED
      BY <2>2, <2>3, <3>1
  <2>4. CASE vm[v].st = "off"
    <3>1. vm' = [vm EXCEPT ![v].st = "removing"]
      BY <1>7, <2>4 DEF RemoveVM
    <3> QED
      BY <2>2, <2>4, <3>1
  <2>5. CASE vm[v].st \notin {"off", "running"}
    BY <1>4, <1>7, <2>5 DEF RemoveVM
  <2> QED
    BY <2>3, <2>4, <2>5
<1> QED
  <2>1. UNCHANGED scvmmVars => UNCHANGED <<vm, files, used>>
    BY DEF scvmmVars
  <2> QED
    BY <1>v, <1>4, <1>5, <1>7, <2>1 DEF SendRemoveVM

-----------------------------------------------------------------------------
(* Steps of the environment.                                               *)
LEMMA TaskKeeps ==
    ASSUME TypeInv, FilesInv, NEW v \in VmIds, VmTaskDone(v)
    PROVE  FilesInv'
<1>1. /\ UNCHANGED <<obj, disk, cdisk, fresh, used, pc, rd, mem, file, at, pick, current, got>>
      /\ vm[v].st \notin {"unused", "removed"} /\ vm[v] \in Vm /\ VmOK(v)
  BY DEF VmTaskDone, Busy, apiVars, cacheVars, workVars, TypeInv, TypeOK, FilesInv, CoreInv
<1>2. \A n \in Machines : Id(n)' = Id(n) /\ (Ending(n)' <=> Ending(n))
  BY <1>1 DEF Id, Ending
<1>3. SameKept
  BY <1>1 DEF SameKept, Kept
<1>4. \A n \in Machines : Left(n) /\ obj'[n] = obj[n]
  BY <1>1 DEF Left
<1>5. ASSUME NEW new \in Vm, vm' = [vm EXCEPT ![v] = new],
             \A s \in Slots : new.disk[s] = vm[v].disk[s] \/ Dropped(v, new, s),
             \A f \in files' \ files : \E s \in Slots : new.disk[s] = f,
             \/ new.st \in {"creating", "off"}
             \/ new.st = "removed" /\ vm[v].st = "removing" /\ new.disk = NoFiles
      PROVE  FilesInv'
  <2>1. CoreInv' /\ \A f : f # NoFile /\ Over(f) => Over(f)'
    <3>1. /\ new.st \notin {"unused", "preparing", "running", "removing", "updating"}
          /\ new.st = "removed" => new.disk = NoFiles
      BY <1>5
    <3>2. UNCHANGED <<obj, disk, cdisk, used>>
      BY <1>1
    <3>3. \A n \in Machines : \A s \in Slots : got'[n].disk[s] \in {got[n].disk[s], NoFile}
      BY <1>1
    <3>4. new.st \in {"creating", "off"} \/ \E m \in Machines : obj[m].id = v /\ Ending(m)
      <4>1. SUFFICES ASSUME vm[v].st = "removing" PROVE \E m \in Machines : obj[m].id = v /\ Ending(m)
        BY <1>5
      <4>2. PICK m \in Machines : obj[m].id = v
        BY <1>1, <4>1 DEF VmOK
      <4>3. Id(m) = v /\ v # NoVm
        BY <4>2, IdRecorded, Facts DEF FilesInv
      <4>4. Ending(m)
        BY <4>1, <4>3 DEF FilesInv, CoreInv, MachineOK, VmOfOK
      <4> QED
        BY <4>2, <4>4
    <3>5. new.st \in {"removing", "removed"} =>
              \A n \in Machines : Id(n) = v => \A s \in Slots : Kept(n, s) = NoDisk
      BY <1>5, Facts DEF FilesInv, CoreInv, MachineOK, VmOfOK
    <3> QED
      BY <1>1, <1>2, <1>3, <1>5, <3>1, <3>2, <3>3, <3>4, <3>5, SettlingCore
  <2>2. ASSUME NEW n \in Machines PROVE Around(n)
    <3>1. UNCHANGED <<disk, cdisk, fresh, used>> /\ vm[v].st # "removed" /\ (n \in current' => n \in current)
      BY <1>1
    <3> QED
      BY <1>5, <2>1, <3>1, SettlingAround
  <2> QED
    BY <1>4, <2>1, <2>2, Whole, NullAssumption
<1>6. On(v) = {vm[v].disk[s] : s \in Slots} \ {NoFile}
  BY DEF On
<1>7. CASE /\ vm[v].st = "removing"
           /\ vm' = [vm EXCEPT ![v] = [st |-> "removed", disk |-> NoFiles, out |-> 0]]
           /\ files' = files \ On(v)
  <2>new. PICK new : new = [st |-> "removed", disk |-> NoFiles, out |-> 0]
    OBVIOUS
  <2>1. new \in Vm /\ new.st = "removed" /\ new.disk = NoFiles
    BY <2>new, Values, BoundAssumption DEF Vm, VmStates
  <2>2. \A s \in Slots : Dropped(v, new, s)
    BY <1>7, <2>1 DEF Dropped, NoFiles
  <2>3. vm' = [vm EXCEPT ![v] = new]
    BY <1>7, <2>new
  <2>4. files' \ files = {}
    BY <1>7
  <2> QED
    BY <1>5, <1>7, <2>1, <2>2, <2>3, <2>4
<1>8. CASE /\ vm[v].st = "updating"
           /\ vm' = [vm EXCEPT ![v] =
                [st |-> "off", disk |-> [vm[v].disk EXCEPT ![vm[v].out] = NoFile], out |-> 0]]
           /\ UNCHANGED files
  <2>D. PICK D : D = [vm[v].disk EXCEPT ![vm[v].out] = NoFile]
    OBVIOUS
  <2>new. PICK new : new = [st |-> "off", disk |-> D, out |-> 0]
    OBVIOUS
  <2>0. vm[v].disk \in Attached /\ vm[v].out \in Slots
    BY <1>1, <1>8 DEF Vm, VmOK
  <2>1. D \in Attached /\ D[vm[v].out] = NoFile /\ \A s \in Slots \ {vm[v].out} : D[s] = vm[v].disk[s]
    BY <2>0, <2>D DEF Attached
  <2>2. new \in Vm /\ new.st = "off" /\ new.disk = D
    BY <2>1, <2>new, BoundAssumption DEF Vm, VmStates
  <2>3. vm[v].disk[vm[v].out] = NoFile \/ Noted(vm[v].disk[vm[v].out])
    BY <1>1, <1>8, <2>0 DEF VmOK
  <2>4. \A s \in Slots : new.disk[s] = vm[v].disk[s] \/ Dropped(v, new, s)
    BY <1>8, <2>1, <2>2, <2>3 DEF Dropped
  <2>5. vm' = [vm EXCEPT ![v] = new]
    BY <1>8, <2>D, <2>new
  <2> QED
    BY <1>5, <1>8, <2>2, <2>4, <2>5
<1>9. ASSUME NEW st \in {"creating", "off"}, vm' = [vm EXCEPT ![v].st = st], files' \subseteq files \cup On(v)
      PROVE  FilesInv'
  <2>new. PICK new : new = [vm[v] EXCEPT !.st = st]
    OBVIOUS
  <2>1. new \in Vm
    <3>1. st \in VmStates
      BY DEF VmStates
    <3>2. [vm[v] EXCEPT !.st = st] \in Vm
      BY <1>1, <3>1, VmFields, Zenon
    <3> QED
      BY <2>new, <3>2
  <2>2. new.st = st /\ new.disk = vm[v].disk
    BY <1>1, <2>new DEF Vm
  <2>3. vm' = [vm EXCEPT ![v] = new]
    BY <1>9, <2>new
  <2>4. \A f \in files' \ files : \E s \in Slots : new.disk[s] = f
    BY <1>6, <1>9, <2>2
  <2> QED
    BY <1>5, <2>1, <2>2, <2>3, <2>4
<1> QED
  BY <1>7, <1>8, <1>9 DEF VmTaskDone

(* A machine is created or deleted, or nothing happens.                    *)
LEMMA QuietKeeps ==
    ASSUME TypeInv, FilesInv, NEW m \in Machines,
           UNCHANGED <<disk, cdisk, fresh, vm, files, used, pc, rd, mem, file, at, pick, current, got>>,
           \A n \in Machines \ {m} : obj'[n] = obj[n],
           obj'[m].id = obj[m].id, obj'[m].disk = obj[m].disk,
           \/ obj'[m].phase = obj[m].phase
           \/ obj[m].phase = "absent" /\ obj'[m].phase = "new"
           \/ obj[m].phase = "new" /\ obj'[m].phase = "gone"
           \/ obj[m].phase = "live" /\ obj'[m].phase = "deleting"
    PROVE  FilesInv'
<1>1. \A n \in Machines : Left(n)
  BY DEF Left
<1>2. \A n \in Machines : StillWorks(n)
  BY DEF StillWorks, Id, Ending, Kept, Reports
<1>3. Idle
  BY <1>2 DEF Idle
<1>4. CopyOK(m) /\ StageOK(m)
  BY DEF FilesInv
<1>5. CopyOK(m)'
  <2>1. CASE obj'[m].phase = obj[m].phase
    BY <1>4, <2>1 DEF CopyOK
  <2>2. CASE obj[m].phase \in {"absent", "new"} /\ obj'[m].phase \in {"new", "gone"}
             /\ (obj[m].phase = "absent" => obj'[m].phase = "new")
             /\ (obj[m].phase = "new" => obj'[m].phase = "gone")
    <3>1. /\ pc[m] \notin Forward \cup Backward \cup {"patch"} /\ rd[m].phase # "deleting"
          /\ obj[m].phase = "absent" => pc[m] # "finalizer"
      BY <1>4, <2>2 DEF CopyOK
    <3>2. pc[m] \in {"idle", "finalizer"}
      BY <3>1 DEF TypeInv, TypeOK, Labels, Forward, Backward, Claiming
    <3> QED
      BY <1>4, <2>2, <3>1, <3>2 DEF CopyOK
  <2>3. CASE obj[m].phase = "live" /\ obj'[m].phase = "deleting"
    <3>1. pc[m] # "finalizer" /\ rd[m].phase # "deleting" /\ pc[m] \notin Backward
      BY <1>4, <2>3 DEF CopyOK
    <3> QED
      BY <1>4, <2>3, <3>1 DEF CopyOK
  <2> QED
    BY <2>1, <2>2, <2>3
<1>6. \A f : Over(f) => Over(f)'
  BY <1>2, IdRecorded DEF FilesInv, Over, StillWorks
<1>7. Around(m)
  <2>1. \A f : Secret(f) => Secret(f)'
    BY DEF Secret, Noted
  <2> QED
    BY <1>6, <2>1, OwnChoice DEF Around
<1>8. obj'[m].phase = "gone" => obj[m].phase = "gone" \/ Id(m) = NoVm
  BY <1>4 DEF CopyOK, Id, Forward, Backward, Claiming, TypeInv, TypeOK, Labels
<1>9. StageOK(m)'
  BY <1>1, <1>4, <1>7, <1>8, LeftStage
<1> QED
  BY <1>1, <1>3, <1>5, <1>9, QuietStep

LEMMA MachineKeeps ==
    ASSUME TypeInv, FilesInv, NEW m \in Machines, CreateMachine(m) \/ DeleteMachine(m) \/ SyncMachine(m)
    PROVE  FilesInv'
<1>1. /\ UNCHANGED <<disk, cdisk, fresh, vm, files, used, pc, rd, mem, file, at, pick, current, got>>
      /\ obj[m] \in Machine
  BY DEF CreateMachine, DeleteMachine, SyncMachine, apiVars, cacheVars, scvmmVars, workVars, TypeInv, TypeOK
<1>2. CASE SyncMachine(m)
  <2>1. obj' = obj
    BY <1>2 DEF SyncMachine, apiVars
  <2> QED
    BY <1>1, <2>1, QuietKeeps
<1>3. ASSUME NEW p, obj' = [obj EXCEPT ![m].phase = p],
             \/ obj[m].phase = "absent" /\ p = "new"
             \/ obj[m].phase = "new" /\ p = "gone"
             \/ obj[m].phase = "live" /\ p = "deleting"
      PROVE  FilesInv'
  <2>1. obj'[m] = [obj[m] EXCEPT !.phase = p] /\ \A n \in Machines \ {m} : obj'[n] = obj[n]
    BY <1>3 DEF TypeInv, TypeOK
  <2>2. obj'[m].phase = p /\ obj'[m].id = obj[m].id /\ obj'[m].disk = obj[m].disk
    BY <1>1, <2>1 DEF Machine
  <2> QED
    BY <1>1, <1>3, <2>1, <2>2, QuietKeeps
<1>4. CASE CreateMachine(m)
  BY <1>3, <1>4 DEF CreateMachine
<1>5. CASE DeleteMachine(m)
  <2>1. CASE obj[m].phase = "new"
    <3>1. obj' = [obj EXCEPT ![m].phase = "gone"]
      BY <1>5, <2>1 DEF DeleteMachine
    <3> QED
      BY <1>3, <2>1, <3>1
  <2>2. CASE obj[m].phase = "live"
    <3>1. obj' = [obj EXCEPT ![m].phase = "deleting"]
      BY <1>5, <2>2 DEF DeleteMachine
    <3> QED
      BY <1>3, <2>2, <3>1
  <2> QED
    BY <1>5, <2>1, <2>2 DEF DeleteMachine
<1> QED
  BY <1>2, <1>4, <1>5

LEMMA SyncDiskKeeps ==
    ASSUME TypeInv, FilesInv, NEW d \in Disks, SyncDisk(d)
    PROVE  FilesInv'
<1>1. /\ UNCHANGED <<obj, disk, vm, files, used, pc, rd, mem, file, at, pick, current, got>>
      /\ fresh \subseteq fresh' /\ cdisk'[d] = disk[d] /\ \A e \in Disks \ {d} : cdisk'[e] = cdisk[e]
  BY DEF SyncDisk, apiVars, scvmmVars, workVars, TypeInv, TypeOK
<1>2. \A n \in Machines : Left(n) /\ obj'[n] = obj[n]
  BY <1>1 DEF Left
<1>3. \A f : (Over(f)' <=> Over(f)) /\ (Secret(f)' <=> Secret(f))
  BY <1>1 DEF Over, Ending, Secret, Noted
<1>4. ASSUME NEW n \in Machines PROVE Around(n)
  <2>1. ASSUME pc[n] = "new" PROVE cdisk'[pick[n]].file = NoFile \/ cdisk'[pick[n]].file.by # NoVm
    <3>1. pick[n] \in Disks /\ CacheOK(pick[n]) /\ (cdisk[pick[n]].file = NoFile \/ cdisk[pick[n]].file.by # NoVm)
      BY <2>1, OwnChoice DEF TypeInv, DisksInv, PickOK, FilesInv, CoreInv
    <3> QED
      BY <1>1, <3>1 DEF CacheOK
  <2> QED
    BY <1>1, <1>3, <2>1, OwnChoice DEF Around
<1>5. CoreInv'
  BY SyncDiskCore
<1> QED
  BY <1>2, <1>4, <1>5, Whole, NullAssumption

LEMMA RemoveFileKeeps ==
    ASSUME TypeInv, FilesInv, NEW d \in Disks, RemovePersistentDisk(d)
    PROVE  FilesInv'
<1>1. /\ UNCHANGED <<obj, disk, cdisk, fresh, vm, used, pc, rd, mem, file, at, pick, current, got>>
      /\ files' \subseteq files
  BY DEF RemovePersistentDisk, apiVars, cacheVars, workVars
<1>2. \A n \in Machines : Left(n) /\ obj'[n] = obj[n]
  BY <1>1 DEF Left
<1>3. \A f : (Over(f) => Over(f)') /\ (Secret(f)' <=> Secret(f))
  BY <1>1 DEF Over, Ending, Secret, Noted
<1>4. ASSUME NEW n \in Machines PROVE Around(n)
  BY <1>1, <1>3, OwnChoice DEF Around
<1>5. CoreInv'
  BY RemovePersistentDiskCore
<1> QED
  BY <1>2, <1>4, <1>5, Whole, NullAssumption

(* A disk that no machine keeps is written by somebody else.               *)
LEMMA UnownedKeeps ==
    ASSUME TypeInv, FilesInv, NEW d \in Disks, NEW new \in Disk, WriteDisk(d, new),
           UNCHANGED <<obj, scvmmVars, pc, rd, mem, file, at, pick, got>>,
           new.file \in {disk[d].file, NoFile},
           \A n \in Machines : obj[n].phase # "gone" => \A r \in Slots : Kept(n, r) # d,
           CacheOK(d)'
    PROVE  FilesInv'
<1>1. UNCHANGED <<obj, vm, files, used, pc, rd, mem, file, at, pick, got, cdisk>> /\ disk' = [disk EXCEPT ![d] = new]
  BY DEF WriteDisk, scvmmVars
<1>2. SameMachines /\ SameKept
  BY <1>1 DEF SameMachines, SameKept, Id, Ending, Kept
<1>3. CoreInv'
  BY <1>1, <1>2, UnownedCore
<1>4. \A f : Over(f)' <=> Over(f)
  BY <1>1 DEF Over, Ending
<1>5. ASSUME NEW f \in File, Secret(f) PROVE Secret(f)'
  <2>1. disk[f.of].file # f /\ f # NoFile /\ f.of \in Disks
    BY <1>5, Facts DEF Secret, Noted
  <2>2. disk'[f.of].file # f
    BY <1>1, <2>1 DEF TypeInv, TypeOK
  <2> QED
    BY <1>1, <1>5, <2>2 DEF Secret, Noted
<1>6. \A n \in Machines : Left(n) /\ obj'[n] = obj[n]
  BY <1>1 DEF Left
<1>7. ASSUME NEW n \in Machines PROVE Around(n)
  <2>1. Id(n) # NoVm => \A s \in Slots : \A f :
            f = vm[Id(n)].disk[s] /\ f # NoFile /\ Secret(f) => Secret(f)'
    BY <1>5, Facts
  <2>2. new.file # disk[d].file => obj[n].phase = "gone" \/ \A s \in Slots : Kept(n, s) # d
    OBVIOUS
  <2> QED
    BY <1>1, <1>4, <1>6, <2>1, <2>2, WriteAround
<1> QED
  BY <1>3, <1>6, <1>7, Whole, NullAssumption

(* It is deleted ...                                                       *)
LEMMA CondemnedKeeps ==
    ASSUME TypeInv, FilesInv, NEW d \in Disks, WriteDisk(d, Condemned(disk[d])),
           UNCHANGED <<obj, scvmmVars, pc, rd, mem, file, at, pick, got>>,
           \A n \in Machines : obj[n].phase # "gone" => \A r \in Slots : Kept(n, r) # d
    PROVE  FilesInv'
<1>new. PICK new : new = Condemned(disk[d])
  OBVIOUS
<1>0. disk[d] \in Disk /\ new \in Disk
  <2>1. disk[d] \in Disk
    BY DEF TypeInv, TypeOK
  <2> QED
    BY <1>new, <2>1, DiskFields
<1>1. \/ disk[d].phase = "live" /\ new.phase = "deleting" /\ new.file = disk[d].file
      \/ disk[d].phase = "loose" /\ new.phase = "absent" /\ new.file = NoFile
      \/ new = disk[d]
  BY <1>0, <1>new DEF Condemned, Disk, AbsentDisk
<1>2. UNCHANGED <<obj, vm, files, used, pc, rd, cdisk>> /\ disk'[d] = new
  BY <1>0, <1>new DEF WriteDisk, scvmmVars, TypeInv, TypeOK
<1>3. \A f : Over(f)' <=> Over(f)
  BY <1>2 DEF Over, Ending
<1>4. CacheOK(d)
  BY DEF FilesInv, CoreInv
<1>5. CacheOK(d)'
  BY <1>1, <1>2, <1>3, <1>4 DEF CacheOK, UserFile
<1>6. WriteDisk(d, new) /\ new.file \in {disk[d].file, NoFile}
  BY <1>1, <1>new
<1> QED
  BY <1>0, <1>5, <1>6, UnownedKeeps

LEMMA AdminKeeps ==
    ASSUME Undisturbed, TypeInv, FilesInv, NEW d \in Disks, AdminDeletesDisk(d)
    PROVE  FilesInv'
<1>0. disk[d].refs \cap Machines = {}
  BY DEF AdminDeletesDisk, Undisturbed
<1>1. \A n \in Machines : obj[n].phase # "gone" => \A r \in Slots : Kept(n, r) # d
  BY <1>0, Facts DEF FilesInv, CoreInv, MachineOK, OwnedOK
<1> QED
  BY <1>1, CondemnedKeeps DEF AdminDeletesDisk

(* ... loses its owners ...                                                *)
LEMMA CollectKeeps ==
    ASSUME TypeInv, FilesInv, NEW d \in Disks, CollectGarbage(d)
    PROVE  FilesInv'
<1>1. \A n \in Machines : obj[n].phase # "gone" => \A r \in Slots : Kept(n, r) # d
  <2>1. PICK m \in Machines : m \in disk[d].refs /\ obj[m].phase = "gone"
    BY DEF CollectGarbage, Dangling
  <2>2. \A n \in Machines : n \in disk[d].refs => n = m
    BY <2>1 DEF TypeInv, DisksInv, DisksOK, IsDisk
  <2> QED
    BY <2>1, <2>2, Facts DEF FilesInv, CoreInv, MachineOK, OwnedOK
<1>2. UNCHANGED <<obj, scvmmVars, pc, rd, mem, file, at, pick, got>>
  BY DEF CollectGarbage
<1>3. CASE WriteDisk(d, Condemned(disk[d]))
  BY <1>1, <1>2, <1>3, CondemnedKeeps
<1>4. CASE WriteDisk(d, [disk[d] EXCEPT !.refs = @ \ Dangling(d)])
  <2>new. PICK new : new = [disk[d] EXCEPT !.refs = @ \ Dangling(d)]
    OBVIOUS
  <2>0. disk[d] \in Disk
    BY DEF TypeInv, TypeOK
  <2>1. new \in Disk
    <3>1. disk[d].refs \ Dangling(d) \in SUBSET (Machines \cup {ThePool})
      BY <2>0, DiskFields
    <3>2. [disk[d] EXCEPT !.refs = disk[d].refs \ Dangling(d)] \in Disk
      BY <2>0, <3>1, DiskFields
    <3> QED
      BY <2>new, <3>2
  <2>2. new.file = disk[d].file /\ new.phase = disk[d].phase
    BY <2>0, <2>new DEF Disk
  <2>3. WriteDisk(d, new) /\ disk'[d] = new /\ cdisk' = cdisk
    BY <1>4, <2>new DEF WriteDisk, TypeInv, TypeOK
  <2>4. \A f : Over(f)' <=> Over(f)
    BY <1>2 DEF Over, Ending, scvmmVars
  <2>5. CacheOK(d)
    BY DEF FilesInv, CoreInv
  <2>6. CacheOK(d)'
    BY <2>2, <2>3, <2>4, <2>5 DEF CacheOK
  <2> QED
    BY <1>1, <1>2, <2>1, <2>2, <2>3, <2>6, UnownedKeeps
<1> QED
  BY <1>3, <1>4 DEF CollectGarbage

(* ... or goes once its file is gone.                                      *)
LEMMA ForgetKeeps ==
    ASSUME TypeInv, FilesInv, NEW d \in Disks, ForgetDisk(d)
    PROVE  FilesInv'
<1>g. PICK g : g = disk[d].file
  OBVIOUS
<1>1. /\ cdisk[d] = disk[d] /\ disk[d].phase = "deleting" /\ g \in File /\ g \notin files /\ g # NoFile
  BY <1>g, NoFileAssumption DEF ForgetDisk, TypeInv, DisksInv, FreshOK
<1>2. \A n \in Machines : obj[n].phase # "gone" => \A r \in Slots : Kept(n, r) # d
  BY <1>1, Facts DEF FilesInv, CoreInv, MachineOK, OwnedOK
<1>3. UNCHANGED <<obj, scvmmVars, pc, rd, mem, file, at, pick, got>> /\ WriteDisk(d, AbsentDisk)
  BY DEF ForgetDisk
<1>4. g.of = d /\ Noted(g)
  BY <1>g, <1>1 DEF FilesInv, CoreInv, NotedOK, Noted
<1>5. \A v \in VmIds : \A s \in Slots : vm[v].disk[s] # g
  BY <1>1, <1>4, NotedIsKept
<1>6. Over(g)
  <2>1. ASSUME g.by # NoVm PROVE \E m \in Machines : obj[m].id = g.by /\ Ending(m)
    <3>1. PICK m \in Machines : obj[m].id = g.by
      BY <1>g, <1>1, <2>1 DEF FilesInv, CoreInv, NotedOK
    <3>2. g.by \in VmIds
      BY <1>1, <2>1, Facts
    <3>3. Ending(m)
      BY <1>g, <1>1, <1>5, <2>1, <3>1, <3>2 DEF FilesInv, CoreInv, NotedOK
    <3> QED
      BY <3>1, <3>3
  <2> QED
    BY <1>1, <1>5, <2>1 DEF Over
<1>7. Over(g)'
  BY <1>3, <1>6 DEF Over, Ending, scvmmVars
<1>8. disk'[d] = AbsentDisk /\ cdisk' = cdisk
  BY <1>3 DEF WriteDisk, TypeInv, TypeOK
<1>9. CacheOK(d)'
  BY <1>g, <1>1, <1>4, <1>7, <1>8 DEF CacheOK, AbsentDisk
<1>10. AbsentDisk \in Disk /\ AbsentDisk.file = NoFile
  BY Values DEF AbsentDisk
<1> QED
  BY <1>2, <1>3, <1>9, <1>10, UnownedKeeps

-----------------------------------------------------------------------------
(* The invariant holds at the start and is kept by every step.             *)
LEMMA InitFiles == Init => FilesInv
<1> SUFFICES ASSUME Init PROVE FilesInv
  OBVIOUS
<1>1. TypeInv
  BY InitTypes
<1>2. ASSUME NEW m \in Machines
      PROVE  /\ obj[m] = NoMachine /\ rd[m] = NoMachine /\ mem[m] = NoMachine
             /\ pc[m] = "idle" /\ got[m] = NoReport /\ at[m] = 1
             /\ Id(m) = NoVm /\ \A s \in Slots : Kept(m, s) = NoDisk /\ got[m].disk[s] = NoFile
  BY DEF Init, Id, Kept, NoMachine, NoDisks, NoReport, NoFiles
<1>3. ASSUME NEW v \in VmIds
      PROVE  vm[v].st = "unused" /\ vm[v].disk = NoFiles /\ \A s \in Slots : vm[v].disk[s] = NoFile
  BY DEF Init, NoFiles
<1>4. ASSUME NEW d \in Disks
      PROVE  /\ disk[d].phase \in {"absent", "loose"} /\ cdisk[d] = disk[d]
             /\ disk[d].phase = "absent" => disk[d].file = NoFile
             /\ disk[d].phase = "loose" => disk[d].file = UserFile(d)
  BY DEF Init, UserDisk, AbsentDisk
<1>5. ASSUME NEW m \in Machines PROVE CopyOK(m) /\ StageOK(m) /\ MachineOK(m)
  <2>1. CopyOK(m)
    BY <1>2 DEF CopyOK, Forward, Backward, Claiming, NoMachine
  <2>2. StageOK(m)
    BY <1>2 DEF StageOK, ChoiceOK, LookedUp
  <2>3. VmOfOK(m) /\ OwnedOK(m) /\ KeptOK(m) /\ ReportOK(m) /\ ShownOK(m)
    BY <1>2 DEF VmOfOK, OwnedOK, KeptOK, ReportOK, ShownOK
  <2> QED
    BY <2>1, <2>2, <2>3 DEF MachineOK
<1>6. \A v \in VmIds : VmOK(v)
  BY <1>3 DEF VmOK
<1>7. ASSUME NEW d \in Disks PROVE NotedOK(d) /\ CacheOK(d)
  BY <1>4, <1>7 DEF NotedOK, CacheOK, UserFile
<1>8. DistinctVms /\ UsedOK
  BY <1>2 DEF DistinctVms, UsedOK, Init, UserFile
<1> QED
  BY <1>5, <1>6, <1>7, <1>8 DEF FilesInv, CoreInv

LEMMA ReconcileKeeps ==
    ASSUME Undisturbed, TypeInv, FilesInv, NoSlotTwice, NEW m \in Machines, Reconcile(m)
    PROVE  FilesInv'
<1>1. CASE Begin(m) \/ AddFinalizer(m) \/ PatchReason(m) \/ GetVMInfo(m) \/ RemoveFinalizer(m)
  BY <1>1, BeginKeeps, AddFinalizerKeeps, PatchKeeps, RemoveFinalizerKeeps
<1>2. CASE ClaimDisk(m) \/ UpdateClaim(m) \/ CreateClaim(m)
  BY <1>2, ClaimKeeps, UpdateClaimKeeps, CreateClaimKeeps
<1>3. CASE GetVM(m) \/ SendCreateVM(m) \/ NoteDisks(m) \/ ExpandDisks(m) \/ SendStartVM(m)
  BY <1>3, GetVMKeeps, SendCreateVMKeeps, NoteKeeps, ExpandKeeps, StartKeeps
<1>4. CASE LookAtVM(m) \/ GiveBack(m) \/ DetachDisk(m) \/ SendRemoveVM(m)
  BY <1>4, LookKeeps, GiveBackKeeps, DetachKeeps, RemoveKeeps
<1> QED
  BY <1>1, <1>2, <1>3, <1>4 DEF Reconcile

LEMMA NothingKeeps == TypeInv /\ FilesInv /\ UNCHANGED vars => FilesInv'
<1> SUFFICES ASSUME TypeInv, FilesInv, UNCHANGED vars PROVE FilesInv'
  OBVIOUS
<1>1. UNCHANGED <<obj, disk, cdisk, fresh, vm, files, used, pc, rd, mem, file, at, pick, current, got>>
  BY DEF vars, apiVars, cacheVars, scvmmVars, workVars
<1>2. \A n \in Machines : Left(n)
  BY <1>1 DEF Left
<1>3. \A n \in Machines : StillWorks(n)
  BY <1>1 DEF StillWorks, Id, Ending, Kept, Reports
<1>4. CoreInv'
  BY <1>1, <1>3, IdleCore DEF Idle, FilesInv
<1>5. \A f : (Over(f)' <=> Over(f)) /\ (Secret(f)' <=> Secret(f))
  BY <1>1 DEF Over, Ending, Secret, Noted
<1>6. \A n \in Machines : Around(n)
  BY <1>1, <1>5, OwnChoice DEF Around
<1> QED
  BY <1>1, <1>2, <1>4, <1>6, Whole, NullAssumption

LEMMA FilesKept ==
    ASSUME Undisturbed, TypeInv, FilesInv, NoSlotTwice, [Next]_vars
    PROVE  FilesInv'
<1>1. ~ Crash
  BY DEF Undisturbed, Crash
<1>2. ASSUME NEW m \in Machines, Reconcile(m) PROVE FilesInv'
  BY <1>2, ReconcileKeeps
<1>3. ASSUME NEW m \in Machines, CreateMachine(m) \/ DeleteMachine(m) \/ SyncMachine(m) PROVE FilesInv'
  BY <1>3, MachineKeeps
<1>4. ASSUME NEW d \in Disks, SyncDisk(d) \/ CollectGarbage(d) \/ AdminDeletesDisk(d) \/ ReconcileDisk(d)
      PROVE  FilesInv'
  BY <1>4, SyncDiskKeeps, CollectKeeps, AdminKeeps, RemoveFileKeeps, ForgetKeeps DEF ReconcileDisk
<1>5. ASSUME NEW v \in VmIds, VmTaskDone(v) PROVE FilesInv'
  BY <1>5, TaskKeeps
<1> QED
  BY <1>1, <1>2, <1>3, <1>4, <1>5, NothingKeeps DEF Next

(* While no patch fails, nothing is cut off, no reconcile starts from an   *)
(* old copy, nobody deletes a disk that a machine owns and no machine has  *)
(* a disk twice, what the disk objects, their copies, the VMs and the      *)
(* reconciles under way say of the files agrees (vmClaimPersistentDisks,   *)
(* vmUpdatePersistentDisks, expandDisks, removePersistentDisks,            *)
(* RemovePersistentDisk).                                                  *)
THEOREM FilesInvAlways ==
    ASSUME Undisturbed
    PROVE  Spec /\ []NoSlotTwice => []FilesInv
<1>1. TypeInv /\ FilesInv /\ NoSlotTwice /\ [Next]_vars => FilesInv'
  BY FilesKept
<1> QED
  BY InitFiles, TypesAlways, <1>1, PTL DEF Spec

-----------------------------------------------------------------------------
(* What it says of the properties.                                         *)
LEMMA NotedOnce == TypeInv /\ FilesInv => OneDiskPerFile
<1> SUFFICES ASSUME TypeInv, FilesInv, NEW d \in Disks, NEW e \in Disks,
                    disk[d].file = disk[e].file, disk[d].file # NoFile
             PROVE  d = e
  BY DEF OneDiskPerFile
<1> QED
  BY DEF FilesInv, CoreInv, NotedOK

LEMMA RunningIsOwn == TypeInv /\ FilesInv => RunsOnItsOwnDisks
<1> SUFFICES ASSUME TypeInv, FilesInv, NEW v \in VmIds, NEW s \in Slots,
                    vm[v].st = "running", vm[v].disk[s] # NoFile
             PROVE  \E m \in Machines, d \in Disks :
                       /\ obj[m].id = v /\ m \in disk[d].refs
                       /\ disk[d].file \in {vm[v].disk[s], NoFile}
                       /\ d \in {obj[m].disk[s], mem[m].disk[s]}
  BY DEF RunsOnItsOwnDisks
<1>1. PICK m \in Machines : obj[m].id = v
  BY DEF FilesInv, CoreInv, VmOK
<1>2. Id(m) = v /\ v # NoVm
  BY <1>1, IdRecorded, Facts DEF FilesInv
<1>3. MachineOK(m) /\ StageOK(m) /\ VmOK(v)
  BY DEF FilesInv, CoreInv
<1>4. obj[m].phase # "gone"
  BY <1>2, <1>3 DEF StageOK
<1>5. ~ Secret(vm[v].disk[s])
  BY <1>3 DEF VmOK, AttachedFileOK, Secret
<1>6. /\ Kept(m, s) # NoDisk /\ vm[v].disk[s].of = Kept(m, s)
      /\ disk[vm[v].disk[s].of].file \in {vm[v].disk[s], NoFile}
  BY <1>2, <1>3, <1>5 DEF MachineOK, KeptOK
<1>7. m \in disk[Kept(m, s)].refs /\ Kept(m, s) \in Disks
  BY <1>3, <1>4, <1>6, Facts DEF MachineOK, OwnedOK
<1>8. Kept(m, s) \in {obj[m].disk[s], mem[m].disk[s]}
  BY DEF Kept
<1> QED
  BY <1>1, <1>6, <1>7, <1>8

(* Only two steps remove files.                                            *)
LEMMA FilesStay ==
    ASSUME [Next]_vars
    PROVE  \/ files \subseteq files'
           \/ \E v \in VmIds : vm[v].st = "removing" /\ files' = files \ On(v)
           \/ \E d \in Disks : RemovePersistentDisk(d)
<1>1. ASSUME NEW m \in Machines, Reconcile(m) PROVE files \subseteq files'
  <2>1. CASE \/ Begin(m) \/ AddFinalizer(m) \/ PatchReason(m) \/ GetVM(m) \/ GetVMInfo(m)
             \/ LookAtVM(m) \/ RemoveFinalizer(m)
    BY <2>1 DEF Begin, AddFinalizer, PatchReason, GetVM, GetVMInfo, LookAtVM, RemoveFinalizer, scvmmVars
  <2>4. CASE SendCreateVM(m) \/ SendStartVM(m) \/ DetachDisk(m) \/ SendRemoveVM(m)
    <3>1. UNCHANGED scvmmVars => files' = files
      BY DEF scvmmVars
    <3>2. /\ \A v : CreateVM(v, m) => files' = files
          /\ \A v, s : RemoveDiskFromVM(v, s) => files' = files
          /\ \A v : RemoveVM(v) => files' = files
      BY DEF CreateVM, RemoveDiskFromVM, RemoveVM
    <3>3. \A v : StartVM(v) => files' = files
      BY <3>1 DEF StartVM
    <3>4. CASE SendCreateVM(m)
      BY <3>1, <3>2, <3>4 DEF SendCreateVM
    <3>5. CASE SendStartVM(m)
      BY <3>1, <3>3, <3>5 DEF SendStartVM
    <3>6. CASE DetachDisk(m) \/ SendRemoveVM(m)
      BY <3>1, <3>2, <3>6 DEF DetachDisk, SendRemoveVM
    <3> QED
      BY <2>4, <3>4, <3>5, <3>6
  <2>5. CASE ExpandDisks(m)
    <3>1. ExpandVMDisks(mem[m].id, m) => files \subseteq files'
      <4>1. ExpandVMDisks(mem[m].id, m) => UNCHANGED scvmmVars \/ \E f : files' = files \cup {f}
        BY Zenon DEF ExpandVMDisks
      <4> QED
        BY <4>1 DEF scvmmVars
    <3> QED
      BY <2>5, <3>1 DEF ExpandDisks, scvmmVars
  <2>2. CASE ClaimDisk(m) \/ UpdateClaim(m) \/ CreateClaim(m) \/ NoteDisks(m)
    BY <2>2 DEF ClaimDisk, UpdateClaim, CreateClaim, NoteDisks, scvmmVars
  <2>3. CASE GiveBack(m)
    BY <2>3, GiveBackFrame
  <2> QED
    BY <1>1, <2>1, <2>2, <2>3, <2>4, <2>5 DEF Reconcile
<1>2. ASSUME NEW m \in Machines, CreateMachine(m) \/ DeleteMachine(m) \/ SyncMachine(m)
      PROVE  files \subseteq files'
  BY <1>2 DEF CreateMachine, DeleteMachine, SyncMachine, scvmmVars
<1>3. ASSUME NEW d \in Disks, SyncDisk(d) \/ CollectGarbage(d) \/ AdminDeletesDisk(d) \/ ForgetDisk(d)
      PROVE  files \subseteq files'
  BY <1>3 DEF SyncDisk, CollectGarbage, AdminDeletesDisk, ForgetDisk, scvmmVars
<1>4. ASSUME NEW v \in VmIds, VmTaskDone(v)
      PROVE  files \subseteq files' \/ (vm[v].st = "removing" /\ files' = files \ On(v))
  BY <1>4 DEF VmTaskDone
<1>5. Crash \/ UNCHANGED vars => files \subseteq files'
  BY DEF Crash, vars, scvmmVars
<1> QED
  BY <1>1, <1>2, <1>3, <1>4, <1>5 DEF Next, ReconcileDisk

LEMMA RemovedWithItsDisk ==
    ASSUME TypeInv, FilesInv, [Next]_vars, NEW f \in used, f \in files, f \notin files'
    PROVE  \E d \in Disks : disk[d].file = f /\ disk[d].phase = "deleting"
<1>1. ASSUME NEW v \in VmIds, vm[v].st = "removing", files' = files \ On(v) PROVE FALSE
  <2>1. PICK s \in Slots : f = vm[v].disk[s] /\ f # NoFile
    BY <1>1 DEF On
  <2> QED
    BY <1>1, <2>1 DEF FilesInv, CoreInv, VmOK, AttachedFileOK
<1>2. ASSUME NEW d \in Disks, RemovePersistentDisk(d)
      PROVE  disk[d].file = f /\ disk[d].phase = "deleting"
  <2>1. f = cdisk[d].file /\ cdisk[d].phase = "deleting"
    BY <1>2 DEF RemovePersistentDisk
  <2>2. f # NoFile /\ ~ Over(f)
    BY Facts DEF Over, TypeInv, TypeOK
  <2> QED
    BY <2>1, <2>2 DEF FilesInv, CoreInv, CacheOK
<1> QED
  BY <1>1, <1>2, FilesStay

(* Two disk objects never stand for the same file, although the file of a  *)
(* disk is noted from what the VM has at the slot's LUN                    *)
(* (vmUpdatePersistentDisks, removePersistentDisks).                       *)
THEOREM SpecOneDiskPerFile ==
    ASSUME Undisturbed
    PROVE  Spec /\ []NoSlotTwice => []OneDiskPerFile
  BY TypesAlways, FilesInvAlways, NotedOnce, PTL

(* A VM only runs with disks its machine owns and has in those slots       *)
(* (vmClaimPersistentDisks, expandDisks, removePersistentDisks).           *)
THEOREM SpecRunsOnItsOwnDisks ==
    ASSUME Undisturbed
    PROVE  Spec /\ []NoSlotTwice => []RunsOnItsOwnDisks
  BY TypesAlways, FilesInvAlways, RunningIsOwn, PTL

(* A file that a VM has run with goes only with its disk object, never     *)
(* with a VM (removePersistentDisks, RemoveVM, RemovePersistentDisk).      *)
THEOREM SpecDataKept ==
    ASSUME Undisturbed
    PROVE  Spec /\ []NoSlotTwice => DataKept
<1>1. TypeInv /\ FilesInv /\ [Next]_vars =>
         [\A f \in used : f \in files /\ f \notin files' =>
             \E d \in Disks : disk[d].file = f /\ disk[d].phase = "deleting"]_vars
  BY RemovedWithItsDisk
<1> QED
  BY TypesAlways, FilesInvAlways, <1>1, PTL DEF Spec, DataKept

(* A single slot is not filled twice.                                      *)
LEMMA OneSlot == NumSlots = 1 => NoSlotTwice
<1>1. NumSlots = 1 => \A r, s \in Slots : r = s
  BY DEF Slots
<1> QED
  BY <1>1 DEF NoSlotTwice

(* With one disk for each machine the hypothesis on slots holds by itself, *)
(* and files, disks and VMs stay together (vmClaimPersistentDisks,         *)
(* removePersistentDisks).                                                 *)
THEOREM OneSlotIsSafe ==
    ASSUME Undisturbed, NumSlots = 1
    PROVE  Spec => []OneDiskPerFile /\ []RunsOnItsOwnDisks /\ DataKept
<1>1. NoSlotTwice
  BY OneSlot
<1> QED
  BY <1>1, SpecOneDiskPerFile, SpecRunsOnItsOwnDisks, SpecDataKept, PTL

=============================================================================
