---------------------------- MODULE MCMachineBoot ----------------------------
(* A small instance of MachineBoot. *)
EXTENDS MachineBoot

CONSTANTS eth0, eth1   \* devices

(* The first device's addresses are from claims, the second's from SCVMM.  *)
TwoOnFirst == [c \in {1, 2} |-> eth0]

TwoAndStatic == [i \in {1, 2, eth1} |-> "gw"]

(* Failures that pass, interference, and commands and caches that lag.     *)
Passing == [kinds |-> {"api", "command", "share", "patch", "crash"}, max |-> 2]
Interference == [kinds |-> {"command", "share", "patch", "admin"}, max |-> 3]
Lagging == [kinds |-> {"api", "stale", "crash", "late"}, max |-> 2]
Behind == [kinds |-> {"stale", "patch"}, max |-> 1]
AllScenarios == {Passing, Interference, Lagging, Behind}

=============================================================================
