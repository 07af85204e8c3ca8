--------------------------- MODULE WinrmWorkersInv ---------------------------
(***************************************************************************)
(* The inductive invariant of WinrmWorkers: where a call is, where its     *)
(* command is, and what may still come out of a connection.                *)
(***************************************************************************)
EXTENDS WinrmWorkers

Busy(w) == worker[w].pc \in {"lookup", "connect", "report", "send", "read"}
NotSent(w) == worker[w].pc \in {"lookup", "connect", "report", "send"}

(* A call that is asked for once is in the queue once or with one worker.  *)
QueueInv ==
    /\ \A i \in 1..Len(queue) : state[queue[i]] = "asked"
    /\ \A i, j \in 1..Len(queue) : queue[i] = queue[j] => i = j

BusyInv ==
    \A w \in Workers : Busy(w) =>
        /\ worker[w].cmd \in Calls /\ state[worker[w].cmd] = "asked"
        /\ \A i \in 1..Len(queue) : queue[i] # worker[w].cmd
        /\ \A x \in Workers : Busy(x) /\ worker[x].cmd = worker[w].cmd => x = w

(* Before it is sent, a call's command is nowhere and has not run.         *)
Unsent(c) ==
    \/ state[c] = "new"
    \/ \E i \in 1..Len(queue) : queue[i] = c
    \/ \E w \in Workers : NotSent(w) /\ worker[w].cmd = c

Fresh(c) == runs[c] = 0 /\ c \notin orphans /\ \A w \in Workers : c \notin Pending(w)

UnsentInv == \A c \in Calls : Unsent(c) => Fresh(c)

(* A call with a worker that waits for output is that worker's, or has been *)
(* answered with output that another left.                                 *)
Sends(w, c) ==
    /\ RefOf[c] = worker[w].ref
    /\ (worker[w].pc = "read" /\ worker[w].cmd = c) \/ state[c] = "ok"

(* Commands that are still to run, on a connection or without one.         *)
TodoInv ==
    /\ \A w \in Workers : \A c \in Pending(w) :
         /\ Sends(w, c) /\ runs[c] = 0 /\ c \notin orphans
         /\ \A x \in Workers : c \in Pending(x) => x = w
    /\ \A w \in Workers : \A i, j \in 1..Len(conn[w].todo) :
         conn[w].todo[i] = conn[w].todo[j] => i = j
    /\ \A c \in orphans : runs[c] = 0

(* What may still be read: output of the connection's own provider, that    *)
(* nobody has got unless its script prints more than one piece.            *)
Readable(w, c) ==
    /\ Sends(w, c) /\ runs[c] > 0
    /\ Further[c] > 0 \/ \A e \in Calls : from[e] # c

OutputOK(w) ==
    /\ ~conn[w].open => conn[w] = NoConnection
    /\ conn[w].open => worker[w].pc \in {"report", "send", "read", "wait"}
    /\ worker[w].pc \in {"send", "read", "wait"} => conn[w].open
    /\ worker[w].pc = "report" => conn[w].todo = <<>> /\ conn[w].output = <<>>
    /\ worker[w].pc \in {"connect", "report", "send", "read"} =>
         worker[w].ref = RefOf[worker[w].cmd]
    /\ \A i \in 1..Len(conn[w].output) : conn[w].output[i].out =>
         Readable(w, conn[w].output[i].call)
    /\ \A i, j \in 1..Len(conn[w].output) :
         /\ conn[w].output[i].out /\ conn[w].output[j].out
         /\ conn[w].output[i].call = conn[w].output[j].call
         => i = j \/ Further[conn[w].output[i].call] > 0

OutputInv == \A w \in Workers : OutputOK(w)

(* A script's output is on one connection.                                 *)
ApartInv ==
    \A w, x \in Workers :
        \A i \in 1..Len(conn[w].output), j \in 1..Len(conn[x].output) :
            /\ conn[w].output[i].out /\ conn[x].output[j].out
            /\ conn[w].output[i].call = conn[x].output[j].call
            => w = x

OnePiece(r) == \A c \in Calls : RefOf[c] = r => Further[c] = 0

(* Whose output a call may have got.                                       *)
AnswerInv ==
    /\ \A c \in Calls : state[c] = "ok" <=> from[c] # NoCall
    /\ \A c \in Calls : from[c] # NoCall =>
         /\ RefOf[from[c]] = RefOf[c] /\ state[from[c]] = "ok" /\ runs[from[c]] > 0
         /\ OnePiece(RefOf[c]) => from[c] = c

(* The versions a call may be sent to.                                     *)
VersionInv ==
    /\ \A r \in Refs : providers[r] <= api[r].version
    /\ \A c \in Calls :
         /\ since[c] <= api[RefOf[c]].version
         /\ providers[RefOf[c]] # 0 => since[c] <= providers[RefOf[c]]

ReferenceOK(w) ==
    worker[w].pc \in {"connect", "report", "send"} =>
        since[worker[w].cmd] <= worker[w].version

ReferenceInv == \A w \in Workers : ReferenceOK(w)

(* The hosts tried so far.                                                 *)
HostsTried(first, tried) == {HostInTurn(first, k) : k \in 0..(tried - 1)}

TriedOK(w) ==
    /\ worker[w].pc \in {"connect", "report"} =>
         worker[w].failed = HostsTried(worker[w].first, worker[w].tried)
    /\ worker[w].pc = "report" /\ ~conn[w].open => worker[w].tried = Hosts

TriedInv == \A w \in Workers : TriedOK(w)

CallInv ==
    /\ QueueInv /\ BusyInv /\ UnsentInv /\ TodoInv /\ OutputInv /\ ApartInv
    /\ AnswerInv /\ RunsAtMostOnce

WorkersInv == TypeOK /\ CallInv /\ VersionInv /\ ReferenceInv /\ TriedInv

=============================================================================
