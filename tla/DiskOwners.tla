----------------------------- MODULE DiskOwners -----------------------------
(***************************************************************************)
(* What a pool of persistent disks promises the machines that use it: a    *)
(* disk has at most one holder, passes from one to the next only by being  *)
(* given up in between, and is not taken once it is to be deleted.         *)
(***************************************************************************)
CONSTANTS Disks, Machines, Nobody

VARIABLES
    holder,   \* disk -> the machine that holds it, or Nobody
    doomed    \* the disks that are to be deleted

vars == <<holder, doomed>>

Init ==
    /\ holder = [d \in Disks |-> Nobody]
    /\ doomed = {}

Take(d, m) ==
    /\ holder[d] = Nobody /\ d \notin doomed
    /\ holder' = [holder EXCEPT ![d] = m]
    /\ UNCHANGED doomed

GiveUp(d) ==
    /\ holder' = [holder EXCEPT ![d] = Nobody]
    /\ UNCHANGED doomed

Doom(d) ==
    /\ doomed' = doomed \cup {d}
    /\ UNCHANGED holder

(* A disk that has been deleted may be made anew.                          *)
Vanish(d) ==
    /\ d \in doomed
    /\ doomed' = doomed \ {d}
    /\ holder' = [holder EXCEPT ![d] = Nobody]

Next ==
    \E d \in Disks : GiveUp(d) \/ Doom(d) \/ Vanish(d) \/ \E m \in Machines : Take(d, m)

Spec == Init /\ [][Next]_vars

=============================================================================
