---------------------------- MODULE Backoff_proofs ----------------------------
(***************************************************************************)
(* The delays of Backoff for every set of reasons and waits, any number of *)
(* tries included.                                                         *)
(***************************************************************************)
EXTENDS Backoff, TLAPS

Stored == [reason : Reasons, try : Nat]

(* What Bounded says of the status, with its type.                         *)
Agrees ==
    /\ backoff \in Stored \cup {None} /\ tried \in Nat
    /\ backoff = None <=> tried = 0
    /\ backoff # None => backoff = [reason |-> row, try |-> tried - 1]

(* A capped sum is between the wait and the cap (patchReasonCondition,     *)
(* where requeue exceeds 600).                                             *)
LEMMA CappedBetween ==
    ASSUME NEW wait \in 0 .. Cap, NEW more \in Nat
    PROVE  Capped(wait, more) \in 0 .. Cap /\ Capped(wait, more) >= wait
BY DEF Capped, Cap

(* What a call leaves in the status, and what it returns.                  *)
LEMMA AfterStep ==
    ASSUME Agrees, NEW wait \in Asked, NEW why \in Reasons
    PROVE  /\ wait = 0 => After(wait, why) = backoff
           /\ wait # 0 =>
                /\ After(wait, why) \in Stored
                /\ After(wait, why) =
                      [reason |-> why, try |-> IF why = row THEN tried ELSE 0]
<1>1. CASE wait = 0
  BY <1>1 DEF After
<1>2. CASE wait # 0 /\ backoff = None
  <2>1. After(wait, why) = [reason |-> why, try |-> 0]
    BY <1>2, BackoffAssumption DEF After
  <2>2. tried = 0
    BY <1>2 DEF Agrees
  <2> QED BY <1>2, <2>1, <2>2 DEF Stored
<1>3. CASE wait # 0 /\ backoff # None
  <2>1. backoff = [reason |-> row, try |-> tried - 1] /\ tried \in Nat \ {0} /\ row \in Reasons
    BY <1>3 DEF Agrees, Stored
  <2>2. CASE why = row
    <3>1. After(wait, why) = [backoff EXCEPT !.try = backoff.try + 1]
      BY <1>3, <2>1, <2>2, BackoffAssumption DEF After
    <3>2. After(wait, why) = [reason |-> row, try |-> tried]
      BY <2>1, <3>1
    <3> QED BY <1>3, <2>1, <2>2, <3>2 DEF Stored
  <2>3. CASE why # row
    BY <1>3, <2>1, <2>3, BackoffAssumption DEF After, Stored
  <2> QED BY <2>2, <2>3
<1> QED BY <1>1, <1>2, <1>3

(* The requeue is between what was asked for and the cap, and for the      *)
(* reason of the backoff it has grown with its tries.                      *)
LEMMA RequeueSound ==
    ASSUME Agrees, NEW wait \in Asked, NEW why \in Reasons \cup {NoReason}
    PROVE  /\ Requeue(wait, why) \in 0 .. Cap /\ Requeue(wait, why) >= wait
           /\ wait # 0 /\ tried # 0 /\ why = row => Requeue(wait, why) >= Capped(wait, 10 * tried)
<1>1. wait \in 0 .. Cap
  BY BackoffAssumption
<1>2. CASE wait = 0 \/ backoff = None
  BY <1>1, <1>2 DEF Requeue, Agrees
<1>3. CASE wait # 0 /\ backoff # None
  <2>1. /\ backoff = [reason |-> row, try |-> tried - 1] /\ backoff.reason = row
        /\ row \in Reasons /\ tried \in Nat \ {0} /\ backoff.try = tried - 1
    BY <1>3 DEF Agrees, Stored
  <2>2. CASE why = row
    <3>1. After(wait, why).try = tried
      <4>1. After(wait, why) = [reason |-> why, try |-> tried]
        BY <1>3, <2>1, <2>2, AfterStep
      <4> QED BY <4>1
    <3>2. Requeue(wait, why) = Capped(wait, 10 * tried)
      BY <1>3, <2>1, <2>2, <3>1 DEF Requeue
    <3>3. 10 * tried \in Nat
      BY <2>1
    <3>4. /\ Capped(wait, 10 * tried) \in 0 .. Cap
          /\ Capped(wait, 10 * tried) >= wait
      BY <1>1, <3>3, CappedBetween
    <3>5. Requeue(wait, why) >= Capped(wait, 10 * tried)
      BY <3>2, <3>4 DEF Cap
    <3> QED BY <3>2, <3>4, <3>5
  <2>3. CASE why = NoReason
    <3>1. Requeue(wait, why) = Capped(wait, 10 * (tried - 1))
      BY <1>3, <2>1, <2>3 DEF Requeue, After
    <3>2. 10 * (tried - 1) \in Nat
      BY <2>1
    <3> QED BY <1>1, <3>1, <3>2, CappedBetween, <2>1, <2>3, BackoffAssumption
  <2>4. CASE why \notin {NoReason, row}
    BY <1>1, <1>3, <2>1, <2>4 DEF Requeue
  <2> QED BY <2>2, <2>3, <2>4
<1> QED BY <1>2, <1>3

LEMMA DelaySound ==
    ASSUME Agrees, NEW wait \in Asked, NEW why \in Reasons \cup {NoReason}, NEW err \in Errors
    PROVE  /\ Delay(wait, why, err) \in 0 .. Cap
           /\ err # "other" => Delay(wait, why, err) >= Requeue(wait, why)
           /\ err # "other" => Delay(wait, why, err) >= wait
<1>1. Requeue(wait, why) \in 0 .. Cap /\ Requeue(wait, why) >= wait
  BY RequeueSound
<1>2. wait \in 0 .. Cap
  BY BackoffAssumption
<1>3. CASE err = "none"
  BY <1>1, <1>2, <1>3 DEF Delay
<1>4. CASE err = "script"
  BY <1>1, <1>2, <1>4 DEF Delay, Breather, Cap
<1>5. CASE err = "other"
  BY <1>5 DEF Delay, Cap
<1> QED BY <1>3, <1>4, <1>5 DEF Errors

(* Every call, its effects on the status apart.                            *)
LEMMA CallSound ==
    ASSUME Agrees, Next
    PROVE  /\ call' \in Call /\ call'.delay \in 0 .. Cap
           /\ call'.error # "other" => call'.delay >= call'.asked
           /\ call'.asked # 0 /\ call'.reason = row /\ call'.error # "other" /\ tried # 0 =>
                 call'.delay >= Capped(call'.asked, 10 * tried)
<1>1. ASSUME NEW wait \in Asked, NEW why \in Reasons \cup {NoReason}, NEW err \in Errors,
             PatchReasonCondition(wait, why, err)
      PROVE  /\ call' \in Call /\ call'.delay \in 0 .. Cap
             /\ call'.error # "other" => call'.delay >= call'.asked
             /\ call'.asked # 0 /\ call'.reason = row /\ call'.error # "other" /\ tried # 0 =>
                   call'.delay >= Capped(call'.asked, 10 * tried)
  <2>1. call' = [asked |-> wait, reason |-> why, error |-> err, delay |-> Delay(wait, why, err)]
    BY <1>1 DEF PatchReasonCondition
  <2>2. /\ call'.asked = wait /\ call'.reason = why /\ call'.error = err
        /\ call'.delay = Delay(wait, why, err)
    BY <2>1
  <2>3. wait \in 0 .. Cap
    BY BackoffAssumption
  <2>4. /\ Delay(wait, why, err) \in 0 .. Cap
        /\ err # "other" => Delay(wait, why, err) >= Requeue(wait, why)
        /\ err # "other" => Delay(wait, why, err) >= wait
    BY DelaySound
  <2>5. /\ Requeue(wait, why) \in 0 .. Cap
        /\ wait # 0 /\ tried # 0 /\ why = row => Requeue(wait, why) >= Capped(wait, 10 * tried)
    BY RequeueSound
  <2>6. call' \in Call
    BY <2>1, <2>3, <2>4 DEF Call, Cap
  <2>7. Capped(wait, 10 * tried) \in Int
    BY <2>3 DEF Capped, Agrees, Cap
  <2>8. ASSUME wait # 0, why = row, err # "other", tried # 0
        PROVE  Delay(wait, why, err) >= Capped(wait, 10 * tried)
    <3>1. Delay(wait, why, err) >= Requeue(wait, why) /\ Delay(wait, why, err) \in Int
      BY <2>4, <2>8 DEF Cap
    <3>2. Requeue(wait, why) >= Capped(wait, 10 * tried) /\ Requeue(wait, why) \in Int
      BY <2>5, <2>8 DEF Cap
    <3> HIDE DEF Capped
    <3> QED BY <2>7, <3>1, <3>2
  <2> QED BY <2>2, <2>4, <2>6, <2>8
<1>2. CASE Up
  <2>1. PICK again \in {0, Breather} :
          call' = [asked |-> again, reason |-> NoReason, error |-> "none", delay |-> again]
    BY <1>2 DEF Up
  <2>2. tried # 0 => row \in Reasons
    BY DEF Agrees, Stored
  <2>3. call' \in Call
    BY <2>1 DEF Call, Breather, Cap, Errors
  <2> QED BY <2>1, <2>2, <2>3, BackoffAssumption DEF Breather, Cap
<1> QED BY <1>1, <1>2 DEF Next, Errors

LEMMA AgreesStep ==
    ASSUME Agrees, [Next]_vars
    PROVE  Agrees'
<1>1. ASSUME NEW wait \in Asked, NEW why \in Reasons \cup {NoReason}, NEW err \in Errors,
             PatchReasonCondition(wait, why, err)
      PROVE  Agrees'
  <2>1. CASE UNCHANGED <<backoff, row, tried>>
    BY <2>1 DEF Agrees
  <2>2. CASE backoff' = After(wait, why) /\ (wait = 0 \/ why = NoReason) /\ UNCHANGED <<row, tried>>
    BY <2>2 DEF Agrees, After
  <2>3. CASE /\ backoff' = After(wait, why) /\ wait # 0 /\ why # NoReason
             /\ row' = why /\ tried' = IF why = row THEN tried + 1 ELSE 1
    <3>1. /\ backoff' \in Stored
          /\ backoff' = [reason |-> why, try |-> IF why = row THEN tried ELSE 0]
      BY <2>3, AfterStep
    <3>2. tried' \in Nat \ {0} /\ (IF why = row THEN tried ELSE 0) = tried' - 1
      BY <2>3 DEF Agrees
    <3>3. backoff' # None
      BY <3>1, BackoffAssumption DEF Stored
    <3> QED BY <2>3, <3>1, <3>2, <3>3 DEF Agrees
  <2> QED BY <1>1, <2>1, <2>2, <2>3 DEF PatchReasonCondition
<1>2. CASE Up
  BY <1>2 DEF Up, Agrees
<1>3. CASE UNCHANGED vars
  BY <1>3 DEF vars, Agrees
<1> QED BY <1>1, <1>2, <1>3 DEF Next, Errors

IInv == Agrees /\ Bounded

LEMMA IInvStep ==
    ASSUME IInv, [Next]_vars
    PROVE  IInv'
<1>1. Agrees'
  BY AgreesStep DEF IInv
<1>2. CASE Next
  <2>1. /\ call' \in Call /\ call'.delay \in 0 .. Cap
        /\ call'.error # "other" => call'.delay >= call'.asked
    BY <1>2, CallSound DEF IInv
  <2> QED BY <1>1, <2>1 DEF IInv, Bounded, Agrees
<1>3. CASE UNCHANGED vars
  BY <1>1, <1>3 DEF IInv, Bounded, vars
<1> QED BY <1>2, <1>3

(* The status agrees with the steps taken, and every delay is as long as   *)
(* asked for and at most ten minutes, after any number of tries            *)
(* (patchReasonCondition).                                                 *)
THEOREM BoundedAlways == Spec => []Bounded
<1>1. Init => IInv
  BY DEF Init, IInv, Agrees, Bounded, Call, Errors, Cap
<1>2. IInv /\ [Next]_vars => IInv'
  BY IInvStep
<1>3. IInv => Bounded
  BY DEF IInv
<1> QED BY <1>1, <1>2, <1>3, PTL DEF Spec

(* Each further step for one reason waits ten seconds longer, up to ten    *)
(* minutes, whatever comes between (patchReasonCondition).                 *)
THEOREM GrowsAlways == Spec => Grows
<1>1. Init => Agrees
  BY DEF Init, Agrees
<1>2. Agrees /\ [Next]_vars => Agrees'
  BY AgreesStep
<1>3. Agrees /\ [Next]_vars =>
        [call'.asked # 0 /\ call'.reason = row /\ call'.error # "other" /\ tried # 0 =>
           call'.delay >= Capped(call'.asked, 10 * tried)]_vars
  BY CallSound
<1> QED BY <1>1, <1>2, <1>3, PTL DEF Spec, Grows

=============================================================================
