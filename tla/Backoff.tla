-------------------------------- MODULE Backoff --------------------------------
(***************************************************************************)
(* When a machine is looked at again: the requeue that patchReasonCondition *)
(* makes of the wait its caller asks for and of the backoff in the status   *)
(* of the machine, which counts the steps tried for one reason.  The status *)
(* is patched in passing, and a patch may fail unnoticed.  Times are in     *)
(* seconds; a reconcile reads what the last one left.                       *)
(***************************************************************************)
EXTENDS Integers

CONSTANTS
    Reasons,     \* the reasons of steps; that of a mere wait is empty
    NoReason,    \* the empty reason
    Asked,       \* the waits the callers ask for, 0 for none
    None,        \* no backoff in the status
    MaxTries     \* the bound on the tries

Cap == 600
Breather == 60

ASSUME BackoffAssumption ==
    /\ NoReason \notin Reasons /\ None \notin [reason : Reasons, try : Nat]
    /\ Asked \subseteq 0 .. Cap /\ MaxTries \in Nat

VARIABLES
    backoff,    \* the backoff in the status
    call,       \* the last call: what it asked for, its reason and error, the delay returned
    row,        \* the reason of the last step that left a trace in the status
    tried       \* how many in a row left one for that reason

vars == <<backoff, call, row, tried>>

Errors == {"none", "script", "other"}

Call == [asked : 0 .. Cap, reason : Reasons \cup {NoReason}, error : Errors, delay : Int]

Init ==
    /\ backoff = None
    /\ call = [asked |-> 0, reason |-> NoReason, error |-> "none", delay |-> 0]
    /\ row = NoReason /\ tried = 0

(* Variant: the cap comes before the addition. *)
CapFirst(wait, more) == (IF wait > Cap THEN Cap ELSE wait) + more

Capped(wait, more) == IF wait + more > Cap THEN Cap ELSE wait + more

(* Variant: every step starts anew. *)
AfterFirst(wait, why) ==
    IF wait = 0 \/ why = NoReason THEN backoff ELSE [reason |-> why, try |-> 0]

(* The backoff after a call.                                               *)
After(wait, why) ==
    IF wait = 0 \/ why = NoReason THEN backoff
    ELSE IF backoff = None \/ backoff.reason # why THEN [reason |-> why, try |-> 0]
    ELSE [backoff EXCEPT !.try = @ + 1]

Requeue(wait, why) ==
    IF wait = 0 \/ backoff = None THEN wait
    ELSE IF why \notin {NoReason, backoff.reason} THEN wait
    ELSE Capped(wait, 10 * After(wait, why).try)

(* Script errors give SCVMM a breather; others are returned, and the work  *)
(* queue sees to them.                                                     *)
Delay(wait, why, err) ==
    IF err = "other" THEN 0
    ELSE IF err = "script" /\ Requeue(wait, why) < Breather THEN Breather
    ELSE Requeue(wait, why)

PatchReasonCondition(wait, why, err) ==
    /\ tried <= MaxTries
    /\ call' = [asked |-> wait, reason |-> why, error |-> err, delay |-> Delay(wait, why, err)]
    /\ \/ UNCHANGED <<backoff, row, tried>>
       \/ /\ backoff' = After(wait, why)
          /\ \/ (wait = 0 \/ why = NoReason) /\ UNCHANGED <<row, tried>>
             \/ /\ wait # 0 /\ why # NoReason
                /\ row' = why /\ tried' = IF why = row THEN tried + 1 ELSE 1

(* getVMInfo of a VM that runs forgets the backoff; until the VM has told  *)
(* its addresses it is asked again.                                        *)
Up ==
    /\ \E again \in {0, Breather} :
          call' = [asked |-> again, reason |-> NoReason, error |-> "none", delay |-> again]
    /\ \/ UNCHANGED <<backoff, row, tried>>
       \/ backoff' = None /\ row' = NoReason /\ tried' = 0

Next ==
    \/ \E wait \in Asked, err \in Errors :
          \/ \E why \in Reasons : PatchReasonCondition(wait, why, err)
          \/ err = "none" /\ PatchReasonCondition(wait, NoReason, err)
    \/ Up

Spec == Init /\ [][Next]_vars

-----------------------------------------------------------------------------
(* Properties.                                                             *)

(* The status agrees with the steps that left a trace, and no delay is     *)
(* shorter than asked for, or longer than ten minutes, whatever has been   *)
(* counted before (patchReasonCondition).                                  *)
Bounded ==
    /\ backoff = None <=> tried = 0
    /\ backoff # None => backoff = [reason |-> row, try |-> tried - 1]
    /\ call \in Call /\ call.delay \in 0 .. Cap
    /\ call.error # "other" => call.delay >= call.asked

(* The load a machine puts on SCVMM falls while it gets nowhere: each      *)
(* further step for one reason waits ten seconds longer than the one       *)
(* before, with any number of mere waits, errors and lost patches between  *)
(* them (patchReasonCondition).                                            *)
Grows ==
    [][call'.asked # 0 /\ call'.reason = row /\ call'.error # "other" /\ tried # 0 =>
          call'.delay >= Capped(call'.asked, 10 * tried)]_vars

=============================================================================
