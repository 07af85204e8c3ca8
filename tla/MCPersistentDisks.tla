-------------------------- MODULE MCPersistentDisks --------------------------
(* Small instances of PersistentDisks. *)
EXTENDS PersistentDisks, TLC

DiskSymmetry == Permutations(Machines) \cup Permutations(VmIds)

=============================================================================
