--------------------------- MODULE MCWinrmWorkers ---------------------------
(* Small instances of WinrmWorkers. *)
EXTENDS WinrmWorkersInv

CONSTANTS c1, c2, c3, r1, r2, w1

(* All calls for one provider, or the last one for another. *)
OneProvider == [c \in Calls |-> r1]
TwoProviders == [c \in Calls |-> IF c = c3 THEN r2 ELSE r1]

(* The first call's script prints two documents, as RemoveDiskFromVM.       *)
OneMore == [c \in Calls |-> IF c = c1 THEN 1 ELSE 0]

=============================================================================
