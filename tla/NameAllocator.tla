---------------------------- MODULE NameAllocator ----------------------------
(***************************************************************************)
(* What a ScvmmNamePool promises the machines: a name has one owner, an    *)
(* owner has one name, and a name is taken from its owner only when the    *)
(* owner is on its way out.  Names of several machines may be entered or   *)
(* dropped at once.                                                        *)
(***************************************************************************)
CONSTANTS Machines, Pools, Names, Nobody

VARIABLES
    owner,    \* pool -> name -> machine or Nobody
    active,   \* the machines that keep what they own
    left      \* the machines that were active once

vars == <<owner, active, left>>

Init ==
    /\ owner = [p \in Pools |-> [n \in Names |-> Nobody]]
    /\ active = {} /\ left = {}

(* Free names get owners that have none in this pool yet.                  *)
Enter(p) ==
    /\ \E new \in [Names -> Machines \cup {Nobody}] :
         /\ owner' = [owner EXCEPT ![p] = new]
         /\ \A n \in Names : owner[p][n] # Nobody => new[n] = owner[p][n]
         /\ \A n1, n2 \in Names : new[n1] = new[n2] /\ new[n1] # Nobody => n1 = n2
         /\ \A n \in Names : new[n] # Nobody => new[n] \in active \cup left
    /\ UNCHANGED <<active, left>>

(* Owners that are no longer active lose their names.                      *)
Drop(p) ==
    /\ \E out \in SUBSET (Machines \ active) :
         owner' = [owner EXCEPT ![p] =
                     [n \in Names |-> IF owner[p][n] \in out THEN Nobody ELSE owner[p][n]]]
    /\ UNCHANGED <<active, left>>

Join(m) ==
    /\ m \notin active \cup left
    /\ active' = active \cup {m}
    /\ UNCHANGED <<owner, left>>

Leave(m) ==
    /\ m \in active
    /\ active' = active \ {m} /\ left' = left \cup {m}
    /\ UNCHANGED owner

Next ==
    \/ \E p \in Pools : Enter(p) \/ Drop(p)
    \/ \E m \in Machines : Join(m) \/ Leave(m)

Spec == Init /\ [][Next]_vars

=============================================================================
