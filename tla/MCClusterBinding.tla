--------------------------- MODULE MCClusterBinding ---------------------------
(* Small instances of ClusterBinding. *)
EXTENDS ClusterBinding

CONSTANT m1   \* a machine

(* The ScvmmMachine has the name of its Machine, or another one.           *)
Alike == [m \in {m1} |-> m]
OtherName == [m \in {m1} |-> Nobody]

=============================================================================
