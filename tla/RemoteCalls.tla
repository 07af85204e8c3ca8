----------------------------- MODULE RemoteCalls -----------------------------
(***************************************************************************)
(* What the WinRM workers promise their callers: a call is answered once,  *)
(* and a script runs at most once per call.  A call that fails may have    *)
(* run, may never run, or may run after its caller has been told.          *)
(*                                                                         *)
(* A call that succeeds gets a piece of output that nobody has got before: *)
(* its own, or one that was left by an earlier call to the same provider   *)
(* which succeeded.  A call leaves output when its script prints more than *)
(* one piece, or when it was itself answered with what another had left.   *)
(***************************************************************************)
CONSTANTS
    Calls,
    RefOf,    \* call -> the provider it is for
    Loose,    \* the calls whose scripts may print more than one piece
    NoCall

VARIABLES
    status,   \* call -> new, asked, ok or failed
    answer,   \* call -> the call whose output it got
    ran       \* the calls whose script has run

vars == <<status, answer, ran>>

Init ==
    /\ status = [c \in Calls |-> "new"]
    /\ answer = [c \in Calls |-> NoCall]
    /\ ran = {}

Ask(c) ==
    /\ status[c] = "new"
    /\ status' = [status EXCEPT ![c] = "asked"]
    /\ UNCHANGED <<answer, ran>>

Run(c) ==
    /\ status[c] # "new" /\ c \notin ran
    /\ ran' = ran \cup {c}
    /\ UNCHANGED <<status, answer>>

Unread(d) == d \in Loose \/ \A c \in Calls : answer[c] # d

Succeed(c) ==
    /\ status[c] = "asked"
    /\ \E d \in ran :
         /\ d = c \/ (status[d] = "ok" /\ RefOf[d] = RefOf[c])
         /\ Unread(d)
         /\ answer' = [answer EXCEPT ![c] = d]
    /\ status' = [status EXCEPT ![c] = "ok"]
    /\ UNCHANGED ran

Fail(c) ==
    /\ status[c] = "asked"
    /\ status' = [status EXCEPT ![c] = "failed"]
    /\ UNCHANGED <<answer, ran>>

Next == \E c \in Calls : Ask(c) \/ Run(c) \/ Succeed(c) \/ Fail(c)

Spec == Init /\ [][Next]_vars

=============================================================================
