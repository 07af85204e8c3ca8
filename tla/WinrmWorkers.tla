---------------------------- MODULE WinrmWorkers ----------------------------
(***************************************************************************)
(* The WinRM workers of helper_winrmcommand.go, the map of providers they  *)
(* share with the ScvmmProvider reconciler, and the PowerShell hosts.      *)
(*                                                                         *)
(* A reconciler that calls a script blocks in a send on an unbuffered      *)
(* channel and then on its answer.  A worker takes a call, looks up the    *)
(* provider, connects to one of its hosts and keeps the connection for     *)
(* later calls until it times out, fails or belongs to another provider    *)
(* or to an older version of it.  Connections carry no call ids: the next  *)
(* piece of output on stdout is the answer, and what a script prints after *)
(* it stays in the connection for the next call.                           *)
(***************************************************************************)
EXTENDS Naturals, Sequences

CONSTANTS
    Calls,            \* calls of sendWinrmCommand, each made once
    Refs,             \* provider references
    RefOf,            \* call -> the provider it is for
    Workers,
    Further,          \* call -> how many pieces of output its script may print after
                      \* the first: a second JSON document, or JSON on several lines
    Hosts,            \* number of a provider's exec hosts
    Filled,           \* the references SetupWithManager fills from the environment
    KeepAliveSeconds, TimeoutSeconds,   \* of the providers' specs, 0 when not set
    MaxVersion,       \* bound on the versions of a provider
    Faults,           \* what may go wrong, see Failures
    NoCall, NoRef

Failures == {"connect", "connection", "timeout", "report", "stderr",
             "edit", "delete", "foreground", "race"}

ASSUME ConstantsAssumption ==
    /\ RefOf \in [Calls -> Refs] /\ Further \in [Calls -> Nat] /\ Filled \subseteq Refs
    /\ NoCall \notin Calls /\ NoRef \notin Refs
    /\ KeepAliveSeconds \in Nat /\ TimeoutSeconds \in Nat
    /\ Faults \subseteq Failures
ASSUME BoundsAssumption == Hosts \in Nat \ {0} /\ MaxVersion \in Nat \ {0}

VARIABLES
    api,        \* ref -> the ScvmmProvider at the API server, and whether an event is due
    providers,  \* winrmProviders: ref -> version of the provider in the map, 0 if absent
    health,     \* ref -> version -> status.execHosts of the worker's object of that version
    state,      \* call -> new, asked, ok or failed
    from,       \* call -> the call whose output was its answer
    since,      \* call -> version in the map when the call was made
    runs,       \* call -> how often its script has run
    queue,      \* calls blocked in the send on winrmCommandChannel
    worker,     \* worker -> its place in winrmWorker and doWinrmWork; "failed" is a
                \* history of the hosts tried for the call
    conn,       \* worker -> its connection and the PowerShell behind it
    orphans,    \* commands whose connection was dropped before they ran
    process     \* up, stopping (the channel is closed) or dead (of a panic)

callVars == <<state, from, since, runs>>
vars == <<api, providers, health, callVars, queue, worker, conn, orphans, process>>

HostIds == 1..Hosts
Versions == 0..MaxVersion
HostStatus == [HostIds -> {"unknown", "OK", "Failed"}]
NoStatus == [h \in HostIds |-> "unknown"]
Provider == [phase: {"live", "deleting", "gone"}, version: 1..MaxVersion,
             health: HostStatus, event: BOOLEAN]
WorkerFields ==
    [pc: {"idle", "lookup", "connect", "report", "send", "read", "wait", "done"},
     cmd: Calls \cup {NoCall}, ref: Refs \cup {NoRef}, version: Versions,
     first: HostIds, tried: 0..Hosts, failed: SUBSET HostIds, noisy: BOOLEAN]
WorkerState ==
    {x \in WorkerFields :
        /\ x.pc \notin {"idle", "done"} => x.cmd \in Calls
        /\ x.pc \notin {"idle", "done", "lookup"} => x.ref \in Refs
        /\ x.pc = "lookup" => x.tried = 0 /\ x.failed = {}
        /\ x.pc = "connect" => x.tried < Hosts}
Chunk == [call: Calls, out: BOOLEAN, err: BOOLEAN]   \* what one ReadOutput returns
Connection ==    \* todo: the commands PowerShell has been sent and has not come to
    [open: BOOLEAN, todo: Seq(Calls), output: Seq(Chunk), stderr: BOOLEAN, limit: Nat]

IdleWorker == [pc |-> "idle", cmd |-> NoCall, ref |-> NoRef, version |-> 0,
               first |-> 1, tried |-> 0, failed |-> {}, noisy |-> FALSE]
NoConnection == [open |-> FALSE, todo |-> <<>>, output |-> <<>>,
                 stderr |-> FALSE, limit |-> 0]

(* createWinrmConnection: the limit of a single HTTP request.               *)
RequestLimit == IF KeepAliveSeconds = 0 THEN 60 ELSE KeepAliveSeconds

(***************************************************************************)
(* The manager starts: only the default provider is in the map, and the    *)
(* informer announces the others.                                          *)
(***************************************************************************)
Init ==
    /\ api = [r \in Refs |-> [phase |-> "live", version |-> 1, health |-> NoStatus,
                              event |-> r \notin Filled]]
    /\ providers = [r \in Refs |-> IF r \in Filled THEN 1 ELSE 0]
    /\ health = [r \in Refs |-> [v \in Versions |-> NoStatus]]
    /\ state = [c \in Calls |-> "new"] /\ from = [c \in Calls |-> NoCall]
    /\ since = [c \in Calls |-> 0] /\ runs = [c \in Calls |-> 0]
    /\ queue = <<>>
    /\ worker = [w \in Workers |-> IdleWorker]
    /\ conn = [w \in Workers |-> NoConnection]
    /\ orphans = {} /\ process = "up"

-----------------------------------------------------------------------------
(* Callers.  A waiting worker is handed the call at once; the queue holds   *)
(* it for the moment in between as well.                                    *)

Ask(c) ==
    /\ state[c] = "new" /\ process = "up"
    /\ state' = [state EXCEPT ![c] = "asked"]
    /\ since' = [since EXCEPT ![c] = providers[RefOf[c]]]
    /\ queue' = Append(queue, c)
    /\ UNCHANGED <<api, providers, health, from, runs, worker, conn, orphans, process>>

(* winrmReturn with an error, and with output.                              *)
Fail(c) == state' = [state EXCEPT ![c] = "failed"] /\ UNCHANGED from
Answer(c, whose) ==
    /\ state' = [state EXCEPT ![c] = "ok"]
    /\ from' = [from EXCEPT ![c] = whose]

(* main returns after the manager has waited for its reconcilers.           *)
Stop ==
    /\ process = "up" /\ \A c \in Calls : state[c] # "asked"
    /\ process' = "stopping"
    /\ UNCHANGED <<api, providers, health, callVars, queue, worker, conn, orphans>>

-----------------------------------------------------------------------------
(* Workers.                                                                 *)

Goto(w, pc) == worker' = [worker EXCEPT ![w].pc = pc]
BecomeIdle(w) == worker' = [worker EXCEPT ![w] = IdleWorker]

Pending(w) == {conn[w].todo[i] : i \in 1..Len(conn[w].todo)}

(* The deferred Close: the host may or may not still run what it was sent.  *)
Drop(w, sent) ==
    /\ conn' = [conn EXCEPT ![w] = NoConnection]
    /\ orphans' = orphans \cup Pending(w) \cup sent

(* doWinrmWork is entered with a call, new or passed back.                  *)
StartWork(c) == [IdleWorker EXCEPT !.pc = "lookup", !.cmd = c]

(* Variant: doWinrmWork returns no call.                                    *)
PassNothing(c) == IdleWorker

(* The call doWinrmWork returns for another round.                          *)
PassBack(c) == StartWork(c)

Take(w) ==
    /\ worker[w].pc = "idle" /\ queue # <<>>
    /\ worker' = [worker EXCEPT ![w] = StartWork(Head(queue))]
    /\ queue' = Tail(queue)
    /\ UNCHANGED <<api, providers, health, callVars, conn, orphans, process>>

(* The first host not known to have failed, or else the first one.          *)
FirstHealthy(status) ==
    LET good == {h \in HostIds : status[h] # "Failed"}
    IN  IF good = {} THEN 1 ELSE CHOOSE h \in good : \A g \in good : h <= g

Lookup(w) ==
    LET c == worker[w].cmd
        r == RefOf[c]
        v == providers[r]
    IN  /\ worker[w].pc = "lookup"
        /\ \/ /\ v = 0
              /\ Fail(c) /\ BecomeIdle(w)
           \/ /\ v # 0
              /\ worker' = [worker EXCEPT ![w] =
                   [@ EXCEPT !.pc = "connect", !.ref = r, !.version = v,
                             !.first = FirstHealthy(health[r][v])]]
              /\ UNCHANGED <<state, from>>
        /\ UNCHANGED <<api, providers, health, since, runs, queue, conn, orphans, process>>

(* Variant: no wraparound.                                                  *)
HostAfterFirst(first, tried) ==
    IF first + tried > Hosts THEN Hosts ELSE first + tried

(* The loop over the hosts starts at the first healthy one and wraps.       *)
HostInTurn(first, tried) == ((first - 1 + tried) % Hosts) + 1

NewConnection == [NoConnection EXCEPT !.open = TRUE, !.limit = RequestLimit]

(* createWinrmCmd on one host: shell, PowerShell, functions, ConnectSCVMM.  *)
Connect(w) ==
    LET me == worker[w]
        host == HostInTurn(me.first, me.tried)
        last == me.tried + 1 = Hosts
    IN  /\ me.pc = "connect"
        /\ \/ /\ health' = [health EXCEPT ![me.ref][me.version][host] = "OK"]
              /\ conn' = [conn EXCEPT ![w] = NewConnection]
              /\ Goto(w, "report")
           \/ /\ "connect" \in Faults
              /\ health' = [health EXCEPT ![me.ref][me.version][host] = "Failed"]
              /\ worker' = [worker EXCEPT ![w] =
                   [me EXCEPT !.tried = me.tried + 1, !.failed = me.failed \cup {host},
                              !.pc = IF last THEN "report" ELSE "connect"]]
              /\ UNCHANGED conn
        /\ UNCHANGED <<api, providers, callVars, queue, orphans, process>>

(* The hosts' status is patched into the provider, which announces a new    *)
(* version unless nothing has changed.  A failure is only logged.           *)
Post(r, status) ==
    \/ /\ r \notin Filled /\ api[r].phase # "gone"
       /\ \/ api[r].health = status /\ UNCHANGED api
          \/ /\ api[r].health # status /\ api[r].version < MaxVersion
             /\ api' = [api EXCEPT ![r].health = status, ![r].version = @ + 1,
                                   ![r].event = TRUE]
    \/ /\ \/ r \in Filled \/ api[r].phase = "gone" \/ "report" \in Faults
          \/ api[r].version = MaxVersion
       /\ UNCHANGED api

Report(w) ==
    LET me == worker[w]
    IN  /\ me.pc = "report"
        /\ Post(me.ref, health[me.ref][me.version])
        /\ \/ conn[w].open /\ Goto(w, "send") /\ UNCHANGED <<state, from>>
           \/ ~conn[w].open /\ Fail(me.cmd) /\ BecomeIdle(w)
        /\ UNCHANGED <<providers, health, since, runs, queue, conn, orphans, process>>

(* SendInput.  An error says nothing about whether the host got the input.  *)
Send(w) ==
    LET c == worker[w].cmd
    IN  /\ worker[w].pc = "send"
        /\ \/ /\ conn' = [conn EXCEPT ![w].todo = Append(conn[w].todo, c)]
              /\ worker' = [worker EXCEPT ![w] = [@ EXCEPT !.pc = "read", !.noisy = FALSE]]
              /\ UNCHANGED <<state, from, orphans>>
           \/ /\ "connection" \in Faults
              /\ Fail(c) /\ BecomeIdle(w)
              /\ \E sent \in {{}, {c}} : Drop(w, sent)
        /\ UNCHANGED <<api, providers, health, since, runs, queue, process>>

(* Variant: after a timeout the connection is used again.                   *)
GiveUpButKeep(w, c) == Fail(c) /\ Goto(w, "wait") /\ UNCHANGED <<conn, orphans>>

(* Variant: the call is tried again on another connection.                  *)
GiveUpAndRetry(w, c) ==
    worker' = [worker EXCEPT ![w] = StartWork(c)] /\ Drop(w, {}) /\ UNCHANGED <<state, from>>

(* An error or a timeout ends the call and the connection.                  *)
GiveUp(w, c) == Fail(c) /\ BecomeIdle(w) /\ Drop(w, {})

(* ReadOutput and what follows: output on stdout is the answer, output on   *)
(* stderr alone is collected, no output at all counts as a timeout.         *)
Read(w) ==
    LET c == worker[w].cmd
        link == conn[w]
        chunk == Head(link.output)
    IN  /\ worker[w].pc = "read"
        /\ \/ /\ link.output # <<>> /\ chunk.out
              /\ Answer(c, chunk.call)
              /\ IF worker[w].noisy
                 THEN BecomeIdle(w) /\ Drop(w, {})
                 ELSE /\ Goto(w, "wait") /\ UNCHANGED orphans
                      /\ conn' = [conn EXCEPT ![w] =
                           [link EXCEPT !.output = Tail(link.output),
                                        !.stderr = link.stderr \/ chunk.err]]
           \/ /\ link.output # <<>> /\ ~chunk.out
              /\ worker' = [worker EXCEPT ![w].noisy = TRUE]
              /\ conn' = [conn EXCEPT ![w] = [link EXCEPT !.output = Tail(link.output),
                                                      !.stderr = TRUE]]
              /\ UNCHANGED <<state, from, orphans>>
           \/ /\ \/ link.output = <<>> /\ "timeout" \in Faults
                 \/ "connection" \in Faults
              /\ GiveUp(w, c)
        /\ UNCHANGED <<api, providers, health, since, runs, queue, process>>

(* The keep-alive timer fires before another call comes.                    *)
KeepAlive(w) ==
    /\ worker[w].pc = "wait"
    /\ BecomeIdle(w) /\ Drop(w, {})
    /\ UNCHANGED <<api, providers, health, callVars, queue, process>>

(* Variant: the version of the provider is not compared.                    *)
SameReference(me, c) == me.ref = RefOf[c]

(* The next call can use the connection.                                    *)
SameProvider(me, c) == me.ref = RefOf[c] /\ me.version = providers[me.ref]

(* The version check and the log line of a mismatch both dereference the    *)
(* map's entry of the connection's provider.                                *)
Dereferences(me) == providers[me.ref] = 0

(* A call arrives in time.                                                  *)
Receive(w) ==
    LET c == Head(queue)
        me == worker[w]
    IN  /\ me.pc = "wait" /\ queue # <<>>
        /\ queue' = Tail(queue)
        /\ \/ /\ Dereferences(me)
              /\ process' = "dead"
              /\ UNCHANGED <<worker, conn, orphans>>
           \/ /\ ~Dereferences(me) /\ SameProvider(me, c)
              /\ worker' = [worker EXCEPT ![w] = [@ EXCEPT !.pc = "send", !.cmd = c]]
              /\ UNCHANGED <<conn, orphans, process>>
           \/ /\ ~Dereferences(me) /\ ~SameProvider(me, c)
              /\ worker' = [worker EXCEPT ![w] = PassBack(c)]
              /\ Drop(w, {})
              /\ UNCHANGED process
        /\ UNCHANGED <<api, providers, health, callVars>>

(* winrmWorker returns.                                                     *)
Finished == [IdleWorker EXCEPT !.pc = "done"]

(* The channel is closed.                                                   *)
Finish(w) ==
    /\ process = "stopping"
    /\ \/ /\ worker[w].pc = "idle"
          /\ worker' = [worker EXCEPT ![w] = Finished] /\ UNCHANGED <<conn, orphans, process>>
       \/ /\ worker[w].pc = "wait" /\ ~Dereferences(worker[w])
          /\ BecomeIdle(w) /\ Drop(w, {}) /\ UNCHANGED process
       \/ /\ worker[w].pc = "wait" /\ Dereferences(worker[w])
          /\ process' = "dead" /\ UNCHANGED <<worker, conn, orphans>>
    /\ UNCHANGED <<api, providers, health, callVars, queue>>

WorkerStep(w) ==
    \/ Take(w) \/ Lookup(w) \/ Connect(w) \/ Report(w) \/ Send(w) \/ Read(w)
    \/ KeepAlive(w) \/ Receive(w) \/ Finish(w)

-----------------------------------------------------------------------------
(* PowerShell hosts.                                                        *)

(* A script prints its answer, possibly followed by more; it may print to   *)
(* stderr before, with or after the first piece, and it may hang or print   *)
(* nothing.                                                                 *)
Piece(c, o, e) == [call |-> c, out |-> o, err |-> e]

FirstPieces(c) ==
    {<<Piece(c, TRUE, FALSE)>>}
    \cup (IF "stderr" \in Faults
          THEN {<<Piece(c, FALSE, TRUE), Piece(c, TRUE, FALSE)>>,
                <<Piece(c, TRUE, TRUE)>>,
                <<Piece(c, TRUE, FALSE), Piece(c, FALSE, TRUE)>>}
          ELSE {})

MorePieces(c) == {[i \in 1..k |-> Piece(c, TRUE, FALSE)] : k \in 0..Further[c]}

Outputs(c) ==
    {first \o more : first \in FirstPieces(c), more \in MorePieces(c)}
    \cup (IF "timeout" \in Faults THEN {<<>>} ELSE {})

HostRuns(w) ==
    LET link == conn[w]
        c == Head(link.todo)
    IN  /\ link.todo # <<>>
        /\ \E printed \in Outputs(c) :
             conn' = [conn EXCEPT ![w] =
               [link EXCEPT !.todo = Tail(link.todo), !.output = link.output \o printed]]
        /\ runs' = [runs EXCEPT ![c] = @ + 1]
        /\ UNCHANGED <<api, providers, health, state, from, since, queue,
                       worker, orphans, process>>

RunOrphan(c) ==
    /\ c \in orphans
    /\ orphans' = orphans \ {c}
    /\ runs' = [runs EXCEPT ![c] = @ + 1]
    /\ UNCHANGED <<api, providers, health, state, from, since, queue,
                   worker, conn, process>>

-----------------------------------------------------------------------------
(* ScvmmProviders.                                                          *)

(* A new object is due an event.  A provider that is gone may come back.    *)
Edit(r) ==
    /\ "edit" \in Faults /\ r \notin Filled
    /\ api[r].phase # "deleting" /\ api[r].version < MaxVersion
    /\ LET old == api[r]
       IN  api' = [api EXCEPT ![r] =
             [phase |-> "live", version |-> old.version + 1, event |-> TRUE,
              health |-> IF old.phase = "gone" THEN NoStatus ELSE old.health]]
    /\ UNCHANGED <<providers, health, callVars, queue, worker, conn, orphans, process>>

(* With a finalizer, a deleted provider is seen as deleting first.          *)
DeleteProvider(r) ==
    /\ r \notin Filled
    /\ \/ /\ "delete" \in Faults /\ api[r].phase # "gone"
          /\ api' = [api EXCEPT ![r].phase = "gone", ![r].event = TRUE]
       \/ /\ "foreground" \in Faults /\ api[r].phase = "live"
          /\ api[r].version < MaxVersion
          /\ api' = [api EXCEPT ![r].phase = "deleting", ![r].version = @ + 1,
                                ![r].event = TRUE]
    /\ UNCHANGED <<providers, health, callVars, queue, worker, conn, orphans, process>>

(* ScvmmProviderReconciler.Reconcile.  For a provider that is gone,         *)
(* getProvider's error does not satisfy IsNotFound: the map stays, and the  *)
(* request is retried for ever.                                             *)
StoreProvider(r) ==
    /\ process = "up" /\ api[r].event /\ api[r].phase # "gone"
    /\ \/ /\ api[r].phase = "live"
          /\ providers' = [providers EXCEPT ![r] = api[r].version]
          /\ health' = [health EXCEPT ![r][api[r].version] = api[r].health]
       \/ /\ api[r].phase = "deleting"
          /\ providers' = [providers EXCEPT ![r] = 0]
          /\ UNCHANGED health
    /\ api' = [api EXCEPT ![r].event = FALSE]
    /\ UNCHANGED <<callVars, queue, worker, conn, orphans, process>>

(* The map has no lock: a read during a write may end the process.          *)
MapRace ==
    /\ "race" \in Faults /\ process = "up"
    /\ \E r \in Refs : api[r].event /\ api[r].phase # "gone"
    /\ \E w \in Workers : \/ worker[w].pc = "lookup"
                          \/ worker[w].pc = "wait" /\ queue # <<>>
    /\ process' = "dead"
    /\ UNCHANGED <<api, providers, health, callVars, queue, worker, conn, orphans>>

-----------------------------------------------------------------------------
Next ==
    /\ process # "dead"
    /\ \/ \E c \in Calls : Ask(c) \/ RunOrphan(c)
       \/ \E w \in Workers : WorkerStep(w) \/ HostRuns(w)
       \/ \E r \in Refs : Edit(r) \/ DeleteProvider(r) \/ StoreProvider(r)
       \/ Stop \/ MapRace

Spec == Init /\ [][Next]_vars

(* A worker is a goroutine that is always ready to go on: every call it     *)
(* makes returns or times out.  Nothing is assumed of hosts and providers.  *)
FairSpec == Spec /\ \A w \in Workers : WF_vars(process # "dead" /\ WorkerStep(w))

-----------------------------------------------------------------------------
(* Properties. *)

(* Every variable keeps its type: in particular a worker that looks for a  *)
(* host always has an index of one (doWinrmWork).                          *)
TypeOK ==
    /\ api \in [Refs -> Provider] /\ providers \in [Refs -> Versions]
    /\ health \in [Refs -> [Versions -> HostStatus]]
    /\ state \in [Calls -> {"new", "asked", "ok", "failed"}]
    /\ from \in [Calls -> Calls \cup {NoCall}]
    /\ since \in [Calls -> Versions] /\ runs \in [Calls -> Nat]
    /\ queue \in Seq(Calls) /\ process \in {"up", "stopping", "dead"}
    /\ worker \in [Workers -> WorkerState] /\ conn \in [Workers -> Connection]
    /\ orphans \subseteq Calls

(* The workers keep the promise of RemoteCalls although connections carry  *)
(* no call ids, outlive calls and are given up while the host still works: *)
(* nothing runs twice, no call gets the output of one that failed or of    *)
(* another provider, and only what a script prints after its first piece   *)
(* can put the answers of a connection out of step                         *)
(* (doWinrmWork, sendWinrmCommandWithErrorResult).                         *)
RemoteCallsOf == INSTANCE RemoteCalls WITH
    Loose <- {c \in Calls : Further[c] > 0},
    status <- state, answer <- from,
    ran <- {c \in Calls : runs[c] > 0}

CallsSpec == RemoteCallsOf!Spec

(* A script runs at most once per call, retries on other connections       *)
(* included (doWinrmWork).                                                 *)
RunsAtMostOnce == \A c \in Calls : runs[c] <= 1

(* A call is sent on a connection of its own provider, opened for a        *)
(* version at least as new as the one in the map when the call was made,   *)
(* however long the connection has been kept (the mismatch check).         *)
OwnProvider ==
    \A w \in Workers : worker[w].pc = "send" =>
        LET c == worker[w].cmd
        IN  worker[w].ref = RefOf[c] /\ worker[w].version >= since[c]

(* A worker gives up on a provider only when it has tried all of its hosts *)
(* for this call, wherever the loop started (doWinrmWork).                 *)
EveryHostTried ==
    \A w \in Workers : worker[w].pc = "report" /\ ~conn[w].open =>
        worker[w].failed = HostIds

(* Every call is answered, whatever hosts, connections and providers do    *)
(* (winrmWorker, doWinrmWork).                                             *)
EveryCallAnswered ==
    \A c \in Calls : state[c] = "asked" ~> state[c] \in {"ok", "failed"} \/ process = "dead"

(* A call that finds the provider changed is passed back for reprocessing  *)
(* (comment in doWinrmWork): the worker survives.                          *)
NeverPanics == process # "dead"

(* A connection on which something came on stderr is not kept (comment in  *)
(* doWinrmWork).                                                           *)
QuietWhenKept == \A w \in Workers : worker[w].pc = "wait" => ~conn[w].stderr

(* Requests on a connection are limited by timeoutSeconds, by default 60   *)
(* (comment in ScvmmProviderSpec).                                         *)
TimeoutHonoured ==
    \A w \in Workers : conn[w].open =>
        conn[w].limit = IF TimeoutSeconds = 0 THEN 60 ELSE TimeoutSeconds

=============================================================================
