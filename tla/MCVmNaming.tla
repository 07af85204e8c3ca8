----------------------------- MODULE MCVmNaming -----------------------------
(* Small instances of VmNaming. *)
EXTENDS VmNamingInv, TLC

CONSTANTS m1, m2, p1, n1, n2, ns1, v1, v2

(* Two machines of one pool with two names. *)
OnePoolOf == [m \in Machines |-> p1]
OneNamespace == [x \in Machines \cup Pools |-> ns1]
TwoNames == [p \in Pools |-> <<n1, n2>>]
AllNames == [p \in Pools |-> {n1, n2}]

(* The users name no machine, or the second one may come with a name, of    *)
(* the pool for one that has a pool.                                       *)
NoPresets == [m \in Machines |-> {}]
OnePreset == m1 :> {} @@ m2 :> {n1}

(* Without a pool the object names are the VM names. *)
OwnName == m1 :> n1 @@ m2 :> n2
SharedName == [m \in Machines |-> n1]

SameName == [p \in Pools |-> <<n1>>]
SameAdopt == [p \in Pools |-> {n1}]

(* One machine of the pool beside one without, whose name the pool has. *)
PoolBeside == m1 :> p1 @@ m2 :> NoPool

VmSymmetry == Permutations(VmIds)

=============================================================================
