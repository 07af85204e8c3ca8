------------------------- MODULE WinrmWorkers_proofs -------------------------
(***************************************************************************)
(* Proofs about the WinRM workers, for any calls, providers and workers.   *)
(***************************************************************************)
EXTENDS WinrmWorkersInv, TLAPS, SequenceTheorems, WellFoundedInduction

(* A set of hosts has a first one.                                         *)
LEMMA FirstOne ==
    ASSUME NEW good \in SUBSET HostIds, good # {}
    PROVE  \E h \in good : \A g \in good : h <= g
<1>1. good \subseteq Nat
    BY DEF HostIds
<1>2. PICK h \in good : \A g \in good : <<g, h>> \notin OpToRel(<, Nat)
    BY <1>1, NatLessThanWellFounded, WFMin
<1>3. \A g \in good : ~(g < h)
    BY <1>1, <1>2 DEF OpToRel
<1> QED
    BY <1>1, <1>3

(* The index where doWinrmWork starts its loop over the hosts is one of    *)
(* theirs, and so is every index it comes to.                              *)
LEMMA FirstHealthyType ==
    ASSUME NEW status
    PROVE  FirstHealthy(status) \in HostIds
<1> DEFINE good == {h \in HostIds : status[h] # "Failed"}
<1>1. 1 \in HostIds
    BY BoundsAssumption DEF HostIds
<1>2. CASE good = {}
    BY <1>1, <1>2 DEF FirstHealthy
<1>3. CASE good # {}
  <2>1. \E h \in good : \A g \in good : h <= g
    BY <1>3, FirstOne
  <2> QED BY <1>3, <2>1 DEF FirstHealthy
<1> QED BY <1>2, <1>3

LEMMA HostInTurnType ==
    ASSUME NEW first \in HostIds, NEW k \in Nat
    PROVE  HostInTurn(first, k) \in HostIds
    BY BoundsAssumption DEF HostInTurn, HostIds

(* The values workers and connections are set to have their types.         *)
LEMMA Records ==
    /\ IdleWorker \in WorkerState /\ Finished \in WorkerState
    /\ \A c \in Calls : StartWork(c) \in WorkerState
    /\ NoConnection \in Connection /\ NewConnection \in Connection
<1>1. 1 \in HostIds /\ 0 \in Versions /\ 0 \in 0..Hosts
    BY BoundsAssumption DEF HostIds, Versions
<1>2. RequestLimit \in Nat
    BY ConstantsAssumption DEF RequestLimit
<1>3. IdleWorker \in WorkerState
    BY <1>1 DEF IdleWorker, WorkerState, WorkerFields
<1>4. Finished \in WorkerState /\ \A c \in Calls : StartWork(c) \in WorkerState
    BY <1>3 DEF Finished, StartWork, IdleWorker, WorkerState, WorkerFields
<1>5. NoConnection \in Connection
    BY DEF NoConnection, Connection
<1>6. NewConnection \in Connection
    BY <1>2, <1>5 DEF NewConnection, Connection
<1> QED BY <1>3, <1>4, <1>5, <1>6

LEMMA InitType == Init => TypeOK
<1>1. NoStatus \in HostStatus
    BY DEF NoStatus, HostStatus
<1>2. \A r \in Refs : [phase |-> "live", version |-> 1, health |-> NoStatus,
                       event |-> r \notin Filled] \in Provider
    BY <1>1, BoundsAssumption DEF Provider
<1>3. 0 \in Versions /\ 1 \in Versions
    BY BoundsAssumption DEF Versions
<1> QED
    BY <1>1, <1>2, <1>3, Records DEF Init, TypeOK

LEMMA CallerType ==
    ASSUME TypeOK, NEW c \in Calls, Ask(c) \/ RunOrphan(c)
    PROVE  TypeOK'
<1>1. CASE Ask(c)
  <2>1. providers[RefOf[c]] \in Versions
      BY ConstantsAssumption DEF TypeOK
  <2>2. Append(queue, c) \in Seq(Calls)
      BY DEF TypeOK
  <2> QED BY <1>1, <2>1, <2>2 DEF Ask, TypeOK
<1>2. CASE RunOrphan(c)
    BY <1>2 DEF RunOrphan, TypeOK
<1> QED BY <1>1, <1>2

LEMMA PendingType ==
    ASSUME TypeOK, NEW w \in Workers
    PROVE  conn[w].todo \in Seq(Calls) /\ Pending(w) \subseteq Calls
<1>1. conn[w].todo \in Seq(Calls)
    BY DEF TypeOK, Connection
<1> QED BY <1>1 DEF Pending

LEMMA DropType ==
    ASSUME TypeOK, NEW w \in Workers, NEW sent \in SUBSET Calls, Drop(w, sent)
    PROVE  conn' \in [Workers -> Connection] /\ orphans' \subseteq Calls
    BY Records, PendingType DEF Drop, TypeOK

(* A worker moves on with the call it has.                                 *)
LEMMA WorkerMoves ==
    ASSUME TypeOK, NEW w \in Workers, worker[w].pc \notin {"idle", "done", "lookup"},
           NEW p \in {"report", "send", "read", "wait"}
    PROVE  [worker[w] EXCEPT !.pc = p] \in WorkerState
<1>1. worker[w] \in WorkerState
    BY DEF TypeOK
<1> QED BY <1>1 DEF WorkerState, WorkerFields

LEMMA GotoType ==
    ASSUME TypeOK, NEW w \in Workers, worker[w].pc \notin {"idle", "done", "lookup"},
           NEW p \in {"report", "send", "read", "wait"}, Goto(w, p)
    PROVE  worker' \in [Workers -> WorkerState]
<1>1. worker' = [worker EXCEPT ![w] = [worker[w] EXCEPT !.pc = p]]
    BY DEF Goto, TypeOK
<1> QED BY <1>1, WorkerMoves DEF TypeOK

LEMMA IdleType ==
    ASSUME TypeOK, NEW w \in Workers, BecomeIdle(w)
    PROVE  worker' \in [Workers -> WorkerState]
    BY Records DEF BecomeIdle, TypeOK

LEMMA FailType ==
    ASSUME TypeOK, NEW c, Fail(c)
    PROVE  /\ state' \in [Calls -> {"new", "asked", "ok", "failed"}]
           /\ from' \in [Calls -> Calls \cup {NoCall}]
    BY DEF Fail, TypeOK

LEMMA LookupType ==
    ASSUME TypeOK, NEW w \in Workers, Lookup(w)
    PROVE  TypeOK'
<1> DEFINE c == worker[w].cmd
           v == providers[RefOf[c]]
           next == [worker[w] EXCEPT !.pc = "connect", !.ref = RefOf[c], !.version = v,
                                     !.first = FirstHealthy(health[RefOf[c]][v])]
<1>1. worker[w] \in WorkerState /\ c \in Calls /\ RefOf[c] \in Refs /\ v \in Versions
    BY ConstantsAssumption DEF Lookup, TypeOK, WorkerState
<1>2. CASE v = 0 /\ Fail(c) /\ BecomeIdle(w)
    BY <1>2, IdleType, FailType DEF Lookup, TypeOK
<1>3. CASE worker' = [worker EXCEPT ![w] = next] /\ UNCHANGED <<state, from>>
  <2>1. FirstHealthy(health[RefOf[c]][v]) \in HostIds
      BY FirstHealthyType
  <2>2. next \in WorkerState
    <3>1. worker[w].tried = 0 /\ 0 < Hosts
        BY <1>1, BoundsAssumption DEF Lookup, WorkerState
    <3>2. \A h \in HostIds : \A r \in Refs : \A x \in Versions :
             [worker[w] EXCEPT !.pc = "connect", !.ref = r, !.version = x, !.first = h] \in WorkerState
        BY <1>1, <3>1 DEF WorkerState, WorkerFields
    <3> QED BY <1>1, <2>1, <3>2
  <2> HIDE DEF next
  <2> QED BY <1>3, <2>2 DEF Lookup, TypeOK
<1> QED BY <1>2, <1>3 DEF Lookup

LEMMA ConnectType ==
    ASSUME TypeOK, NEW w \in Workers, Connect(w)
    PROVE  TypeOK'
<1> DEFINE me == worker[w]
           host == HostInTurn(me.first, me.tried)
<1>1. /\ me \in WorkerState /\ me.pc = "connect" /\ me.ref \in Refs /\ me.version \in Versions
      /\ me.first \in HostIds /\ me.tried \in Nat /\ me.tried < Hosts
      /\ me.failed \subseteq HostIds
    BY BoundsAssumption DEF Connect, TypeOK, WorkerState, WorkerFields
<1>2. host \in HostIds
    BY <1>1, HostInTurnType
<1>3. \A result \in {"OK", "Failed"} :
          [health EXCEPT ![me.ref][me.version][host] = result] \in [Refs -> [Versions -> HostStatus]]
    BY <1>1, <1>2 DEF TypeOK, HostStatus
<1>4. CASE /\ health' = [health EXCEPT ![me.ref][me.version][host] = "OK"]
           /\ conn' = [conn EXCEPT ![w] = NewConnection]
           /\ Goto(w, "report")
  <2>1. worker' \in [Workers -> WorkerState]
      BY <1>1, <1>4, GotoType
  <2> QED BY <1>3, <1>4, <2>1, Records DEF Connect, callVars, TypeOK
<1>5. ASSUME NEW p \in {"report", "connect"}, p = "connect" => me.tried + 1 # Hosts,
             health' = [health EXCEPT ![me.ref][me.version][host] = "Failed"],
             worker' = [worker EXCEPT ![w] =
               [me EXCEPT !.tried = me.tried + 1, !.failed = me.failed \cup {host}, !.pc = p]],
             UNCHANGED conn
      PROVE  TypeOK'
  <2> DEFINE next == [me EXCEPT !.tried = me.tried + 1, !.failed = me.failed \cup {host}, !.pc = p]
  <2>1. next \in WorkerState
    <3>1. me.tried + 1 \in 0..Hosts /\ (p = "connect" => me.tried + 1 < Hosts)
        BY <1>1, <1>5, BoundsAssumption
    <3>2. me.failed \cup {host} \in SUBSET HostIds
        BY <1>1, <1>2
    <3> HIDE DEF host
    <3> QED BY <1>1, <3>1, <3>2 DEF WorkerState, WorkerFields
  <2>2. worker' = [worker EXCEPT ![w] = next]
      BY <1>5
  <2>3. health' \in [Refs -> [Versions -> HostStatus]]
      BY <1>3, <1>5
  <2>4. worker' \in [Workers -> WorkerState]
      BY <2>1, <2>2 DEF TypeOK
  <2> QED BY <1>5, <2>3, <2>4 DEF Connect, callVars, TypeOK
<1>6. CASE /\ health' = [health EXCEPT ![me.ref][me.version][host] = "Failed"]
           /\ worker' = [worker EXCEPT ![w] =
                [me EXCEPT !.tried = me.tried + 1, !.failed = me.failed \cup {host},
                           !.pc = IF me.tried + 1 = Hosts THEN "report" ELSE "connect"]]
           /\ UNCHANGED conn
    BY <1>5, <1>6
<1> QED BY <1>4, <1>6 DEF Connect

LEMMA ReportType ==
    ASSUME TypeOK, NEW w \in Workers, Report(w)
    PROVE  TypeOK'
<1> DEFINE r == worker[w].ref
           status == health[r][worker[w].version]
<1>1. worker[w].pc = "report" /\ r \in Refs /\ worker[w].version \in Versions
    BY DEF Report, TypeOK, WorkerState, WorkerFields
<1>a. status \in HostStatus
    BY <1>1 DEF TypeOK
<1> HIDE DEF status
<1>2. api[r] \in Provider /\ Post(r, status)
    BY <1>1 DEF Report, TypeOK, status
<1>3. api' \in [Refs -> Provider]
  <2>1. CASE UNCHANGED api
      BY <2>1 DEF TypeOK
  <2>2. CASE /\ api[r].version < MaxVersion
             /\ api' = [api EXCEPT ![r].health = status, ![r].version = @ + 1, ![r].event = TRUE]
    <3>1. [api[r] EXCEPT !.health = status, !.version = api[r].version + 1, !.event = TRUE]
             \in Provider
      <4>1. api[r].version + 1 \in 1..MaxVersion
          BY <1>2, <2>2, BoundsAssumption DEF Provider
      <4> QED BY <1>2, <1>a, <4>1 DEF Provider
    <3>2. api' = [api EXCEPT ![r] = [api[r] EXCEPT
                    !.health = status, !.version = api[r].version + 1, !.event = TRUE]]
        BY <2>2 DEF TypeOK
    <3> QED BY <3>1, <3>2 DEF TypeOK
  <2> QED BY <1>2, <2>1, <2>2 DEF Post
<1>4. /\ worker' \in [Workers -> WorkerState]
      /\ state' \in [Calls -> {"new", "asked", "ok", "failed"}]
      /\ from' \in [Calls -> Calls \cup {NoCall}]
    BY <1>1, GotoType, IdleType, FailType DEF Report, TypeOK
<1> QED BY <1>3, <1>4 DEF Report, TypeOK

LEMMA SendType ==
    ASSUME TypeOK, NEW w \in Workers, Send(w)
    PROVE  TypeOK'
<1> DEFINE c == worker[w].cmd
           next == [worker[w] EXCEPT !.pc = "read", !.noisy = FALSE]
           todo == Append(conn[w].todo, c)
           link == [conn[w] EXCEPT !.todo = todo]
<1>1. worker[w] \in WorkerState /\ conn[w] \in Connection /\ c \in Calls
    BY DEF Send, TypeOK, WorkerState
<1>2. next \in WorkerState
    BY <1>1 DEF Send, WorkerState, WorkerFields
<1>3. link \in Connection
  <2>1. todo \in Seq(Calls)
      BY <1>1 DEF Connection
  <2> HIDE DEF todo
  <2> QED BY <1>1, <2>1 DEF Connection
<1>4. CASE /\ conn' = [conn EXCEPT ![w].todo = todo] /\ worker' = [worker EXCEPT ![w] = next]
           /\ UNCHANGED <<state, from, orphans>>
  <2>1. conn' = [conn EXCEPT ![w] = link]
      BY <1>4 DEF TypeOK
  <2> HIDE DEF next, link
  <2> QED BY <1>2, <1>3, <1>4, <2>1 DEF Send, TypeOK
<1>5. ASSUME Fail(c), BecomeIdle(w), NEW sent \in {{}, {c}}, Drop(w, sent) PROVE TypeOK'
    BY <1>1, <1>5, FailType, IdleType, DropType DEF Send, TypeOK
<1> QED BY <1>4, <1>5 DEF Send

LEMMA ReadType ==
    ASSUME TypeOK, NEW w \in Workers, Read(w)
    PROVE  TypeOK'
<1> DEFINE c == worker[w].cmd
           link == conn[w]
           chunk == Head(link.output)
<1>1. worker[w] \in WorkerState /\ link \in Connection /\ c \in Calls /\ worker[w].pc = "read"
    BY DEF Read, TypeOK, WorkerState
<1>2. link.output # <<>> => chunk \in Chunk /\ Tail(link.output) \in Seq(Chunk)
    BY <1>1 DEF Connection
<1>3. CASE link.output # <<>> /\ Answer(c, chunk.call) /\ worker[w].noisy
           /\ BecomeIdle(w) /\ Drop(w, {})
  <2>1. /\ state' \in [Calls -> {"new", "asked", "ok", "failed"}]
        /\ from' \in [Calls -> Calls \cup {NoCall}]
      BY <1>2, <1>3 DEF Answer, TypeOK, Chunk
  <2> QED BY <1>3, <2>1, IdleType, DropType DEF Read, TypeOK
<1>4. CASE /\ link.output # <<>> /\ Answer(c, chunk.call) /\ Goto(w, "wait") /\ UNCHANGED orphans
           /\ conn' = [conn EXCEPT ![w] = [link EXCEPT !.output = Tail(link.output),
                                                       !.stderr = link.stderr \/ chunk.err]]
  <2>1. /\ state' \in [Calls -> {"new", "asked", "ok", "failed"}]
        /\ from' \in [Calls -> Calls \cup {NoCall}]
      BY <1>2, <1>4 DEF Answer, TypeOK, Chunk
  <2>2. [link EXCEPT !.output = Tail(link.output), !.stderr = link.stderr \/ chunk.err] \in Connection
      BY <1>1, <1>2, <1>4 DEF Connection
  <2>3. conn' \in [Workers -> Connection]
      BY <1>4, <2>2 DEF TypeOK
  <2>4. worker' \in [Workers -> WorkerState]
      BY <1>1, <1>4, GotoType
  <2> QED BY <1>4, <2>1, <2>3, <2>4 DEF Read, TypeOK
<1>5. CASE /\ link.output # <<>> /\ UNCHANGED <<state, from, orphans>>
           /\ worker' = [worker EXCEPT ![w].noisy = TRUE]
           /\ conn' = [conn EXCEPT ![w] = [link EXCEPT !.output = Tail(link.output), !.stderr = TRUE]]
  <2>1. [link EXCEPT !.output = Tail(link.output), !.stderr = TRUE] \in Connection
      BY <1>1, <1>2, <1>5 DEF Connection
  <2>2. conn' \in [Workers -> Connection]
      BY <1>5, <2>1 DEF TypeOK
  <2>3. [worker[w] EXCEPT !.noisy = TRUE] \in WorkerState
      BY <1>1 DEF WorkerState, WorkerFields
  <2>4. worker' = [worker EXCEPT ![w] = [worker[w] EXCEPT !.noisy = TRUE]]
      BY <1>5 DEF TypeOK
  <2>5. worker' \in [Workers -> WorkerState]
      BY <2>3, <2>4 DEF TypeOK
  <2> QED BY <1>5, <2>2, <2>5 DEF Read, TypeOK
<1>6. CASE GiveUp(w, c)
    BY <1>6, FailType, IdleType, DropType DEF Read, GiveUp, TypeOK
<1> QED BY <1>3, <1>4, <1>5, <1>6 DEF Read

LEMMA ReceiveType ==
    ASSUME TypeOK, NEW w \in Workers, Receive(w)
    PROVE  TypeOK'
<1> DEFINE c == Head(queue)
           me == worker[w]
<1>1. me \in WorkerState /\ me.pc = "wait" /\ c \in Calls /\ queue' \in Seq(Calls)
    BY DEF Receive, TypeOK
<1>2. [me EXCEPT !.pc = "send", !.cmd = c] \in WorkerState
    BY <1>1 DEF WorkerState, WorkerFields
<1>3. /\ worker' \in [Workers -> WorkerState] /\ conn' \in [Workers -> Connection]
      /\ orphans' \subseteq Calls /\ process' \in {"up", "stopping", "dead"}
  <2>1. CASE process' = "dead" /\ UNCHANGED <<worker, conn, orphans>>
      BY <2>1 DEF TypeOK
  <2>2. CASE worker' = [worker EXCEPT ![w] = [me EXCEPT !.pc = "send", !.cmd = c]]
             /\ UNCHANGED <<conn, orphans, process>>
      BY <1>2, <2>2 DEF TypeOK
  <2>3. CASE worker' = [worker EXCEPT ![w] = PassBack(c)] /\ Drop(w, {}) /\ UNCHANGED process
      BY <1>1, <2>3, Records, DropType DEF PassBack, TypeOK
  <2> QED BY <2>1, <2>2, <2>3 DEF Receive
<1> QED BY <1>1, <1>3 DEF Receive, callVars, TypeOK

LEMMA WorkerType ==
    ASSUME TypeOK, NEW w \in Workers, WorkerStep(w)
    PROVE  TypeOK'
<1>1. CASE Take(w)
    BY <1>1, Records DEF Take, callVars, TypeOK
<1>2. CASE KeepAlive(w)
    BY <1>2, IdleType, DropType DEF KeepAlive, callVars, TypeOK
<1>3. CASE Finish(w)
    BY <1>3, Records, IdleType, DropType DEF Finish, callVars, TypeOK
<1> QED
    BY <1>1, <1>2, <1>3, LookupType, ConnectType, ReportType, SendType, ReadType, ReceiveType
       DEF WorkerStep

(* What a script prints before it prints more: one piece, and its own.     *)
LEMMA FirstPiece ==
    ASSUME NEW c \in Calls, NEW o \in BOOLEAN, NEW e \in BOOLEAN, NEW answer,
           \/ answer = <<[call |-> c, out |-> TRUE, err |-> e]>>
           \/ answer = <<[call |-> c, out |-> o, err |-> ~o], [call |-> c, out |-> ~o, err |-> o]>>
    PROVE  /\ answer \in Seq(Chunk)
           /\ \A i \in 1..Len(answer) : answer[i].call = c
           /\ \A i, j \in 1..Len(answer) : answer[i].out /\ answer[j].out => i = j
<1> DEFINE P(x, y) == [call |-> c, out |-> x, err |-> y]
<1>1. \A x, y \in BOOLEAN : P(x, y) \in Chunk
    BY DEF Chunk
<1>2. CASE answer = <<P(TRUE, e)>>
  <2>1. P(TRUE, e) \in Chunk
      BY <1>1
  <2>2. answer \in Seq(Chunk) /\ Len(answer) = 1
      BY <1>2, <2>1
  <2>3. answer[1].call = c
      BY <1>2
  <2>4. \A i \in 1..Len(answer) : i = 1
      BY <2>2
  <2> QED BY <2>2, <2>3, <2>4
<1>3. CASE answer = <<P(o, ~o), P(~o, o)>>
  <2>1. P(o, ~o) \in Chunk /\ P(~o, o) \in Chunk
      BY <1>1
  <2>2. answer \in Seq(Chunk) /\ Len(answer) = 2
      BY <1>3, <2>1
  <2>3. answer[1].call = c /\ answer[2].call = c
      BY <1>3
  <2>4. answer[1].out = o /\ answer[2].out = ~o
      BY <1>3
  <2>5. ~(answer[1].out /\ answer[2].out)
      BY <2>4
  <2>6. \A i \in 1..Len(answer) : i = 1 \/ i = 2
      BY <2>2
  <2> HIDE DEF P
  <2> QED BY <2>2, <2>3, <2>5, <2>6
<1> QED BY <1>2, <1>3

(* A piece of output after another: the parts of a concatenation.          *)
LEMMA Joined ==
    ASSUME NEW s \in Seq(Chunk), NEW t \in Seq(Chunk)
    PROVE  /\ s \o t \in Seq(Chunk) /\ Len(s \o t) = Len(s) + Len(t)
           /\ \A i \in 1..Len(s) : (s \o t)[i] = s[i]
           /\ \A i \in 1..Len(s \o t) : i \notin 1..Len(s) =>
                i - Len(s) \in 1..Len(t) /\ (s \o t)[i] = t[i - Len(s)]
<1>1. Len(s) \in Nat /\ Len(t) \in Nat
    BY LenProperties
<1> QED BY <1>1

(* What a script prints is its own, and one piece if it prints no more.    *)
LEMMA Printed ==
    ASSUME NEW c \in Calls, NEW printed \in Outputs(c)
    PROVE  /\ printed \in Seq(Chunk)
           /\ \A i \in 1..Len(printed) : printed[i].call = c
           /\ Further[c] = 0 =>
                \A i, j \in 1..Len(printed) : printed[i].out /\ printed[j].out => i = j
<1>1. CASE printed = <<>>
    BY <1>1
<1>2. ASSUME NEW first \in FirstPieces(c), NEW k \in 0..Further[c], NEW rest,
             rest = [i \in 1..k |-> Piece(c, TRUE, FALSE)], printed = first \o rest
      PROVE  /\ printed \in Seq(Chunk)
             /\ \A i \in 1..Len(printed) : printed[i].call = c
             /\ Further[c] = 0 =>
                  \A i, j \in 1..Len(printed) : printed[i].out /\ printed[j].out => i = j
  <2>1. PICK o, e \in BOOLEAN : \/ first = <<Piece(c, TRUE, e)>>
                                \/ first = <<Piece(c, o, ~o), Piece(c, ~o, o)>>
    <3>1. CASE first = <<Piece(c, TRUE, FALSE)>> \/ first = <<Piece(c, TRUE, TRUE)>>
        BY <3>1
    <3>2. CASE first = <<Piece(c, TRUE, FALSE), Piece(c, FALSE, TRUE)>>
      <4>1. first = <<Piece(c, TRUE, ~TRUE), Piece(c, ~TRUE, TRUE)>>
          BY <3>2
      <4> QED BY <4>1
    <3>3. CASE first = <<Piece(c, FALSE, TRUE), Piece(c, TRUE, FALSE)>>
      <4>1. first = <<Piece(c, FALSE, ~FALSE), Piece(c, ~FALSE, FALSE)>>
          BY <3>3
      <4> QED BY <4>1
    <3> QED BY <1>2, <3>1, <3>2, <3>3 DEF FirstPieces
  <2>2. /\ first \in Seq(Chunk)
        /\ \A i \in 1..Len(first) : first[i].call = c
        /\ \A i, j \in 1..Len(first) : first[i].out /\ first[j].out => i = j
      BY <2>1, FirstPiece DEF Piece
  <2>3. k \in Nat /\ (Further[c] = 0 => k = 0)
      BY <1>2, ConstantsAssumption
  <2>4. Piece(c, TRUE, FALSE) \in Chunk /\ Piece(c, TRUE, FALSE).call = c
      BY DEF Chunk, Piece
  <2>5. /\ rest \in Seq(Chunk) /\ Len(rest) = k
        /\ \A i \in 1..Len(rest) : rest[i].call = c
    <3>1. rest \in [1..k -> Chunk] /\ \A i \in 1..k : rest[i].call = c
        BY <1>2, <2>4
    <3>2. rest \in Seq(Chunk)
        BY <2>3, <3>1, SeqDef
    <3>3. Len(rest) \in Nat /\ 1..Len(rest) = 1..k
        BY <3>1, <3>2, LenProperties
    <3>4. Len(rest) = k
        BY <2>3, <3>3
    <3> QED BY <3>1, <3>2, <3>4
  <2>6. /\ printed \in Seq(Chunk) /\ Len(printed) = Len(first) + Len(rest)
        /\ \A i \in 1..Len(first) : printed[i] = first[i]
        /\ \A i \in 1..Len(printed) : i \notin 1..Len(first) =>
             i - Len(first) \in 1..Len(rest) /\ printed[i] = rest[i - Len(first)]
      BY <1>2, <2>2, <2>5, Joined, Zenon
  <2>7. \A i \in 1..Len(printed) : printed[i].call = c
    <3> SUFFICES ASSUME NEW i \in 1..Len(printed) PROVE printed[i].call = c
        OBVIOUS
    <3>1. CASE i \in 1..Len(first)
        BY <2>2, <2>6, <3>1, Zenon
    <3>2. CASE i \notin 1..Len(first)
        BY <2>5, <2>6, <3>2, Zenon
    <3> QED BY <3>1, <3>2
  <2>8. CASE Further[c] = 0
    <3>1. Len(first) \in Nat /\ Len(rest) = 0
        BY <2>2, <2>3, <2>5, <2>8, LenProperties
    <3>2. 1..Len(printed) = 1..Len(first)
        BY <2>6, <3>1
    <3>3. \A i, j \in 1..Len(printed) : printed[i].out /\ printed[j].out => i = j
        BY <2>2, <2>6, <3>2, Zenon
    <3> QED BY <2>6, <2>7, <3>3
  <2> QED BY <2>6, <2>7, <2>8
<1>3. \/ printed = <<>>
      \/ \E first \in FirstPieces(c), more \in MorePieces(c) : printed = first \o more
    BY DEF Outputs
<1>4. CASE printed # <<>>
  <2>1. PICK first \in FirstPieces(c), more \in MorePieces(c) : printed = first \o more
      BY <1>3, <1>4
  <2>2. PICK k \in 0..Further[c] : more = [i \in 1..k |-> Piece(c, TRUE, FALSE)]
      BY DEF MorePieces
  <2> QED BY <1>2, <2>1, <2>2
<1> QED BY <1>1, <1>4

LEMMA HostType ==
    ASSUME TypeOK, NEW w \in Workers, HostRuns(w)
    PROVE  TypeOK'
<1> DEFINE link == conn[w]
           c == Head(link.todo)
<1>1. link \in Connection /\ link.todo # <<>>
    BY DEF HostRuns, TypeOK
<1>2. c \in Calls /\ Tail(link.todo) \in Seq(Calls)
    BY <1>1 DEF Connection
<1>3. PICK printed \in Outputs(c) :
          conn' = [conn EXCEPT ![w] =
                     [link EXCEPT !.todo = Tail(link.todo), !.output = link.output \o printed]]
    BY DEF HostRuns
<1>4. link.output \o printed \in Seq(Chunk)
    BY <1>1, <1>2, <1>3, Printed DEF Connection
<1>5. [link EXCEPT !.todo = Tail(link.todo), !.output = link.output \o printed] \in Connection
    BY <1>1, <1>2, <1>4 DEF Connection
<1>6. conn' \in [Workers -> Connection]
    BY <1>3, <1>5 DEF TypeOK
<1>7. runs' \in [Calls -> Nat]
    BY <1>2 DEF HostRuns, TypeOK
<1> QED BY <1>6, <1>7 DEF HostRuns, TypeOK

LEMMA ProviderType ==
    ASSUME TypeOK, NEW r \in Refs, Edit(r) \/ DeleteProvider(r) \/ StoreProvider(r)
    PROVE  TypeOK'
<1>a. api[r] \in Provider /\ NoStatus \in HostStatus
    BY DEF TypeOK, NoStatus, HostStatus
<1>1. CASE Edit(r)
    BY <1>1, <1>a, BoundsAssumption DEF Edit, callVars, TypeOK, Provider
<1>2. CASE DeleteProvider(r)
  <2>1. api' \in [Refs -> Provider]
    <3>1. CASE api' = [api EXCEPT ![r].phase = "gone", ![r].event = TRUE]
        BY <3>1, <1>a DEF TypeOK, Provider
    <3>2. CASE /\ api[r].version < MaxVersion
               /\ api' = [api EXCEPT ![r].phase = "deleting", ![r].version = @ + 1,
                                     ![r].event = TRUE]
      <4>1. api[r].version + 1 \in 1..MaxVersion
          BY <3>2, <1>a, BoundsAssumption DEF Provider
      <4>2. [api[r] EXCEPT !.phase = "deleting", !.version = api[r].version + 1, !.event = TRUE]
               \in Provider
          BY <1>a, <4>1 DEF Provider
      <4> QED BY <3>2, <4>2 DEF TypeOK
    <3> QED BY <1>2, <3>1, <3>2 DEF DeleteProvider
  <2> QED BY <1>2, <2>1 DEF DeleteProvider, callVars, TypeOK
<1>3. CASE StoreProvider(r)
  <2>1. api[r].version \in Versions /\ 0 \in Versions /\ api[r].health \in HostStatus
      BY <1>a, BoundsAssumption DEF Provider, Versions
  <2>2. api' \in [Refs -> Provider]
      BY <1>3, <1>a DEF StoreProvider, TypeOK, Provider
  <2>3. /\ providers' \in [Refs -> Versions]
        /\ health' \in [Refs -> [Versions -> HostStatus]]
    <3>1. CASE /\ providers' = [providers EXCEPT ![r] = api[r].version]
               /\ health' = [health EXCEPT ![r][api[r].version] = api[r].health]
        BY <3>1, <2>1 DEF TypeOK
    <3>2. CASE providers' = [providers EXCEPT ![r] = 0] /\ UNCHANGED health
        BY <3>2, <2>1 DEF TypeOK
    <3> QED BY <1>3, <3>1, <3>2 DEF StoreProvider
  <2> QED BY <1>3, <2>2, <2>3 DEF StoreProvider, callVars, TypeOK
<1> QED BY <1>1, <1>2, <1>3

LEMMA NextType == TypeOK /\ [Next]_vars => TypeOK'
<1> SUFFICES ASSUME TypeOK, [Next]_vars PROVE TypeOK'
    OBVIOUS
<1>1. CASE UNCHANGED vars
    BY <1>1 DEF vars, callVars, TypeOK
<1>2. CASE Stop
    BY <1>2 DEF Stop, callVars, TypeOK
<1>3. CASE MapRace
    BY <1>3 DEF MapRace, callVars, TypeOK
<1> QED
    BY <1>1, <1>2, <1>3, CallerType, WorkerType, HostType, ProviderType DEF Next

(* Every variable of the workers, the provider map and the connections     *)
(* keeps its type; the index of the host to try is always one of a host.   *)
THEOREM TypeCorrect == Spec => []TypeOK
    BY InitType, NextType, PTL DEF Spec

-----------------------------------------------------------------------------
(* The workers answer every call with its own output and run it at most    *)
(* once: WorkersInv is inductive.  The steps fall into a few kinds of moves *)
(* of a call, with one lemma for each kind.                                *)

(* A step of worker w leaves the others and their connections alone.       *)
OnlyWorker(w) == \A x \in Workers : x # w => worker'[x] = worker[x] /\ conn'[x] = conn[x]

(* Nothing can be read from a connection that is not there or just opened. *)
LEMMA NothingToRead ==
    ASSUME NEW w \in Workers,
           worker'[w].pc \in {"connect", "report"} => worker'[w].ref = RefOf[worker'[w].cmd],
           \/ conn'[w] = NoConnection /\ worker'[w].pc \notin {"send", "read", "wait"}
           \/ conn'[w] = NewConnection /\ worker'[w].pc = "report"
    PROVE  OutputOK(w)' /\ conn'[w].todo = <<>> /\ conn'[w].output = <<>> /\ Pending(w)' = {}
<1>1. conn'[w].output = <<>> /\ Len(conn'[w].output) = 0 /\ conn'[w].todo = <<>>
  <2>1. /\ NewConnection.output = <<>> /\ NoConnection.output = <<>>
        /\ NewConnection.todo = <<>> /\ NoConnection.todo = <<>>
      BY DEF NewConnection, NoConnection
  <2> QED BY <2>1
<1>2. Len(conn'[w].todo) = 0
    BY <1>1
<1>3. Pending(w)' = {}
    BY <1>2 DEF Pending
<1>4. CASE conn'[w] = NoConnection /\ worker'[w].pc \notin {"send", "read", "wait"}
  <2>1. ~conn'[w].open
      BY <1>4 DEF NoConnection
  <2> QED BY <1>1, <1>3, <1>4, <2>1 DEF OutputOK
<1>5. CASE conn'[w] = NewConnection /\ worker'[w].pc = "report"
  <2>1. conn'[w].open
      BY <1>5 DEF NewConnection, NoConnection
  <2> QED BY <1>1, <1>3, <1>5, <2>1 DEF OutputOK
<1> QED BY <1>4, <1>5

(* A worker that has not come to a connection's first call has sent nothing. *)
LEMMA NothingSent ==
    ASSUME OutputInv, NEW w \in Workers,
           worker[w].pc \in {"idle", "done", "lookup", "connect", "report"}
    PROVE  conn[w].todo = <<>> /\ conn[w].output = <<>> /\ Pending(w) = {}
<1>1. conn[w].todo = <<>> /\ conn[w].output = <<>>
  <2>1. CASE conn[w].open
      BY <2>1 DEF OutputInv, OutputOK
  <2>2. CASE ~conn[w].open
    <3>1. conn[w] = NoConnection
        BY <2>2 DEF OutputInv, OutputOK
    <3> QED BY <3>1 DEF NoConnection
  <2> QED BY <2>1, <2>2
<1>2. Len(conn[w].todo) = 0
    BY <1>1
<1> QED BY <1>1, <1>2 DEF Pending

(* What comes out of a connection is of a call.                            *)
LEMMA ChunkCall ==
    ASSUME TypeOK, NEW w \in Workers, NEW i \in 1..Len(conn[w].output)
    PROVE  conn[w].output[i] \in Chunk /\ conn[w].output[i].call \in Calls
<1>1. conn[w].output \in Seq(Chunk)
    BY DEF TypeOK, Connection
<1>2. conn[w].output[i] \in Chunk
    BY <1>1
<1> QED BY <1>2 DEF Chunk

(* Nothing succeeds or runs any less than it did.                          *)
Grows ==
    /\ \A c \in Calls : state[c] = "ok" => state'[c] = "ok"
    /\ \A c \in Calls : runs[c] > 0 => runs'[c] > 0

(* What a caller gets is output of one connection.                         *)
AnswersFrom(w) ==
    \A c \in Calls : from'[c] # from[c] =>
        \E i \in 1..Len(conn[w].output) :
            conn[w].output[i].out /\ conn[w].output[i].call = from'[c]

(* The other workers' connections are as before.                           *)
LEMMA OtherOutput ==
    ASSUME TypeOK, OutputInv, ApartInv, NEW w \in Workers, OnlyWorker(w), Grows, AnswersFrom(w)
    PROVE  \A x \in Workers : x # w => OutputOK(x)'
<1> SUFFICES ASSUME NEW x \in Workers, x # w PROVE OutputOK(x)'
    OBVIOUS
<1>1. worker'[x] = worker[x] /\ conn'[x] = conn[x] /\ OutputOK(x)
    BY DEF OutputInv, OnlyWorker
<1>2. ASSUME NEW i \in 1..Len(conn[x].output), conn[x].output[i].out,
             NEW c \in Calls, c = conn[x].output[i].call
      PROVE  Readable(x, c)'
  <2>1. Readable(x, c)
      BY <1>1, <1>2 DEF OutputOK
  <2>2. \A e \in Calls : from[e] # c => from'[e] # c
      BY <1>2 DEF ApartInv, AnswersFrom
  <2> QED BY <1>1, <2>1, <2>2 DEF Readable, Sends, Grows
<1>3. \A i \in 1..Len(conn[x].output) : conn[x].output[i].call \in Calls
    BY ChunkCall
<1>4. \A i \in 1..Len(conn'[x].output) : conn'[x].output[i].out =>
          Readable(x, conn[x].output[i].call)'
    BY <1>1, <1>2, <1>3 DEF Readable, Sends
<1> QED BY <1>1, <1>4 DEF OutputOK

(* Nothing new has come out of the connections.                            *)
NoNewOutput ==
    \A w \in Workers : \A i \in 1..Len(conn'[w].output) :
        \E j \in 1..Len(conn[w].output) : conn'[w].output[i] = conn[w].output[j]

LEMMA StillApart == ASSUME ApartInv, NoNewOutput PROVE ApartInv'
<1> SUFFICES ASSUME NEW w \in Workers, NEW x \in Workers,
                    NEW i \in 1..Len(conn'[w].output), NEW j \in 1..Len(conn'[x].output),
                    conn'[w].output[i].out, conn'[x].output[j].out,
                    conn'[w].output[i].call = conn'[x].output[j].call
             PROVE  w = x
    BY DEF ApartInv
<1>1. PICK k \in 1..Len(conn[w].output) : conn'[w].output[i] = conn[w].output[k]
    BY DEF NoNewOutput
<1>2. PICK l \in 1..Len(conn[x].output) : conn'[x].output[j] = conn[x].output[l]
    BY DEF NoNewOutput
<1> QED BY <1>1, <1>2 DEF ApartInv

LEMMA LessOutput ==
    ASSUME TypeOK, NEW w \in Workers, OnlyWorker(w),
           \/ conn'[w].output = <<>> \/ conn'[w].output = conn[w].output
           \/ conn[w].output # <<>> /\ conn'[w].output = Tail(conn[w].output)
    PROVE  NoNewOutput
<1> DEFINE s == conn[w].output
<1>1. s \in Seq(Chunk)
    BY DEF TypeOK, Connection
<1>2. ASSUME NEW i \in 1..Len(conn'[w].output)
      PROVE  \E j \in 1..Len(s) : conn'[w].output[i] = s[j]
  <2>1. CASE conn'[w].output = <<>>
      BY <1>2, <2>1
  <2>2. CASE conn'[w].output = s
      BY <1>2, <2>2
  <2>3. CASE s # <<>> /\ conn'[w].output = Tail(s)
    <3>1. i + 1 \in 1..Len(s) /\ conn'[w].output[i] = s[i + 1]
        BY <1>1, <1>2, <2>3
    <3> QED BY <3>1
  <2> QED BY <2>1, <2>2, <2>3
<1> QED BY <1>2 DEF NoNewOutput, OnlyWorker

(* The commands of the other workers wait where they did.                  *)
LEMMA OtherTodo ==
    ASSUME TypeOK, TodoInv, NEW w \in Workers, OnlyWorker(w), Grows, UNCHANGED runs,
           NEW more \in SUBSET Calls, orphans' = orphans \cup more,
           \A c \in more : runs[c] = 0 /\ \A x \in Workers : x # w => c \notin Pending(x),
           Pending(w)' = {}, conn'[w].todo = <<>>
    PROVE  TodoInv'
<1>1. \A x \in Workers : x # w => Pending(x)' = Pending(x)
    BY DEF Pending, OnlyWorker
<1>2. ASSUME NEW x \in Workers, NEW c \in Pending(x)'
      PROVE  /\ Sends(x, c)' /\ runs'[c] = 0 /\ c \notin orphans'
             /\ \A y \in Workers : c \in Pending(y)' => y = x
  <2>1. x # w /\ c \in Pending(x) /\ c \in Calls
      BY <1>1, <1>2, PendingType
  <2>2. Sends(x, c) /\ runs[c] = 0 /\ c \notin orphans /\ c \notin more
      BY <2>1 DEF TodoInv
  <2>3. \A y \in Workers : c \in Pending(y)' => y = x
      BY <1>1, <2>1 DEF TodoInv
  <2> QED BY <2>1, <2>2, <2>3 DEF Sends, OnlyWorker, Grows
<1>3. ASSUME NEW x \in Workers, NEW i \in 1..Len(conn'[x].todo), NEW j \in 1..Len(conn'[x].todo),
             conn'[x].todo[i] = conn'[x].todo[j]
      PROVE  i = j
    BY <1>3 DEF TodoInv, OnlyWorker
<1>4. \A c \in orphans' : runs'[c] = 0
    BY DEF TodoInv
<1> QED BY <1>2, <1>3, <1>4 DEF TodoInv

(* A worker comes closer to the first call on a connection.                *)
LEMMA Advance ==
    ASSUME TypeOK, CallInv, NEW w \in Workers, OnlyWorker(w),
           worker[w].pc \in {"lookup", "connect", "report"},
           worker'[w].cmd = worker[w].cmd, worker'[w].pc \in {"connect", "report", "send"},
           worker'[w].ref = RefOf[worker[w].cmd],
           \/ conn'[w] = conn[w] /\ conn[w].open /\ worker'[w].pc # "connect"
           \/ conn'[w] = conn[w] /\ ~conn[w].open /\ worker'[w].pc # "send"
           \/ conn'[w] = NewConnection /\ worker'[w].pc = "report",
           UNCHANGED <<state, from, runs, queue, orphans>>
    PROVE  CallInv'
<1> USE DEF CallInv, OnlyWorker
<1>1. QueueInv'
    BY DEF QueueInv
<1>2. BusyInv'
    BY DEF BusyInv, Busy
<1>3. conn[w].todo = <<>> /\ conn[w].output = <<>> /\ Pending(w) = {}
    BY NothingSent
<1>4. conn'[w].todo = <<>> /\ conn'[w].output = <<>> /\ Pending(w)' = {}
    BY <1>3, NothingToRead DEF Pending
<1>5. \A x \in Workers : Pending(x)' = Pending(x)
    BY <1>3, <1>4 DEF Pending
<1>6. UnsentInv'
    BY <1>5 DEF UnsentInv, Unsent, Fresh, NotSent
<1>7. Grows /\ AnswersFrom(w)
    BY DEF Grows, AnswersFrom
<1>8. TodoInv'
    BY <1>4, <1>7, OtherTodo
<1>9. OutputInv'
  <2>1. OutputOK(w)'
    <3>1. CASE conn'[w] = NewConnection /\ worker'[w].pc = "report"
        BY <3>1, NothingToRead
    <3>2. CASE conn'[w] = conn[w] /\ conn[w].open /\ worker'[w].pc # "connect"
        BY <1>4, <3>2 DEF OutputInv, OutputOK
    <3>3. CASE conn'[w] = conn[w] /\ ~conn[w].open /\ worker'[w].pc # "send"
        BY <1>4, <3>3 DEF OutputInv, OutputOK
    <3> QED BY <3>1, <3>2, <3>3
  <2> QED BY <1>7, <2>1, OtherOutput DEF OutputInv
<1>10. ApartInv'
    BY <1>4, LessOutput, StillApart
<1>11. AnswerInv' /\ RunsAtMostOnce'
    BY DEF AnswerInv, RunsAtMostOnce
<1> QED BY <1>1, <1>2, <1>6, <1>8, <1>9, <1>10, <1>11

(* A worker fails its call; the host may have its command.                 *)
LEMMA GivenUp ==
    ASSUME TypeOK, CallInv, NEW w \in Workers, OnlyWorker(w), Busy(w), Fail(worker[w].cmd),
           worker'[w] = IdleWorker, conn'[w] = NoConnection,
           NEW sent \in SUBSET {worker[w].cmd}, NotSent(w) \/ sent = {},
           orphans' = orphans \cup Pending(w) \cup sent,
           UNCHANGED <<runs, queue>>
    PROVE  CallInv'
<1> DEFINE c == worker[w].cmd
<1> USE DEF CallInv, OnlyWorker
<1>1. /\ c \in Calls /\ state[c] = "asked" /\ state' = [state EXCEPT ![c] = "failed"]
      /\ from' = from /\ \A i \in 1..Len(queue) : queue[i] # c
      /\ \A x \in Workers : x # w /\ Busy(x) => worker[x].cmd # c
    BY DEF BusyInv, Fail
<1>2. worker'[w].pc = "idle" /\ conn'[w].todo = <<>> /\ conn'[w].output = <<>>
      /\ Pending(w)' = {} /\ OutputOK(w)'
  <2>1. worker'[w].pc = "idle"
      BY DEF IdleWorker
  <2> QED BY <2>1, NothingToRead
<1>3. sent = {} \/ Fresh(c)
    BY <1>1 DEF UnsentInv, Unsent, c
<1>4. sent \subseteq {c} /\ Pending(w) \subseteq Calls
    BY PendingType
<1> HIDE DEF c
<1>5. state'[c] = "failed" /\ \A d \in Calls : d # c => state'[d] = state[d]
    BY <1>1 DEF TypeOK
<1>6. \A i \in 1..Len(queue) : queue[i] \in Calls
    BY DEF TypeOK
<1>7. QueueInv'
    BY <1>1, <1>5, <1>6 DEF QueueInv
<1>8. BusyInv'
    BY <1>1, <1>2, <1>5 DEF BusyInv, Busy
<1>9. UnsentInv'
  <2> SUFFICES ASSUME NEW d \in Calls, Unsent(d)' PROVE Fresh(d)'
      BY DEF UnsentInv
  <2>1. d # c /\ Unsent(d)
      BY <1>1, <1>2, <1>5 DEF Unsent, NotSent, Busy, TypeOK, c
  <2>2. Fresh(d)
      BY <2>1 DEF UnsentInv
  <2>3. \A x \in Workers : d \notin Pending(x)'
      BY <1>2, <2>2 DEF Fresh, Pending
  <2> QED BY <1>4, <2>1, <2>2, <2>3 DEF Fresh
<1>10. Grows /\ AnswersFrom(w)
    BY <1>1, <1>5 DEF Grows, AnswersFrom
<1>11. TodoInv'
  <2> DEFINE more == Pending(w) \cup sent
  <2>1. more \in SUBSET Calls /\ orphans' = orphans \cup more
      BY <1>1, <1>4
  <2>2. \A d \in more : runs[d] = 0 /\ \A x \in Workers : x # w => d \notin Pending(x)
      BY <1>3, <1>4 DEF TodoInv, Fresh
  <2> HIDE DEF more
  <2> QED BY <1>2, <1>10, <2>1, <2>2, OtherTodo
<1>12. OutputInv'
    BY <1>2, <1>10, OtherOutput DEF OutputInv
<1>13. ApartInv'
    BY <1>2, LessOutput, StillApart
<1>14. AnswerInv'
  <2>1. \A d \in Calls : from[d] # NoCall => from[d] \in Calls
      BY DEF TypeOK
  <2> QED BY <1>1, <1>5, <2>1 DEF AnswerInv
<1>15. RunsAtMostOnce'
    BY DEF RunsAtMostOnce
<1> QED BY <1>7, <1>8, <1>9, <1>11, <1>12, <1>13, <1>14, <1>15

(* A worker gets a call from the channel, in its loop or on a connection   *)
(* that it drops or keeps.                                                 *)
LEMMA Received ==
    ASSUME TypeOK, CallInv, NEW w \in Workers, OnlyWorker(w), ~Busy(w),
           queue # <<>>, queue' = Tail(queue), worker'[w].cmd = Head(queue),
           \/ /\ conn'[w] = NoConnection /\ worker'[w].pc = "lookup"
              /\ orphans' = orphans \cup Pending(w)
           \/ /\ conn'[w] = conn[w] /\ conn[w].open /\ worker'[w].pc = "send"
              /\ worker[w].pc = "wait" /\ worker'[w].ref = worker[w].ref
              /\ worker[w].ref = RefOf[Head(queue)] /\ orphans' = orphans,
           UNCHANGED <<state, from, runs>>
    PROVE  CallInv'
<1> DEFINE c == Head(queue)
<1> USE DEF CallInv, OnlyWorker
<1>1. /\ c \in Calls /\ c = queue[1] /\ Len(queue) \in Nat /\ Len(queue) > 0
      /\ Len(queue') = Len(queue) - 1
      /\ \A i \in 1..Len(queue') : i + 1 \in 1..Len(queue) /\ queue'[i] = queue[i + 1]
    BY DEF TypeOK
<1>2. \A i \in 1..Len(queue') : state[queue'[i]] = "asked" /\ queue'[i] # c
    BY <1>1 DEF QueueInv
<1>3. state[c] = "asked" /\ \A x \in Workers : Busy(x) => worker[x].cmd # c
    BY <1>1 DEF QueueInv, BusyInv
<1>4. \A x \in Workers : x # w => Pending(x)' = Pending(x)
    BY DEF Pending
<1>5. Pending(w)' \subseteq Pending(w)
  <2>1. CASE conn'[w] = NoConnection /\ worker'[w].pc = "lookup"
    <3>1. Pending(w)' = {}
        BY <2>1, NothingToRead
    <3> QED BY <3>1
  <2>2. CASE conn'[w] = conn[w]
      BY <2>2 DEF Pending
  <2> QED BY <2>1, <2>2
<1> HIDE DEF c
<1>6. QueueInv'
    BY <1>1, <1>2 DEF QueueInv
<1>7. BusyInv'
    BY <1>1, <1>2, <1>3 DEF BusyInv, Busy, c
<1>8. UnsentInv'
  <2> SUFFICES ASSUME NEW d \in Calls, Unsent(d)' PROVE Fresh(d)'
      BY DEF UnsentInv
  <2>1. Unsent(d)
      BY <1>1 DEF Unsent, NotSent, c
  <2>2. Fresh(d)
      BY <2>1 DEF UnsentInv
  <2>3. \A x \in Workers : d \notin Pending(x)'
      BY <1>4, <1>5, <2>2 DEF Fresh
  <2>4. d \notin orphans'
      BY <2>2 DEF Fresh
  <2> QED BY <2>2, <2>3, <2>4 DEF Fresh
<1>9. Grows /\ AnswersFrom(w)
    BY DEF Grows, AnswersFrom
<1>10. TodoInv' /\ OutputOK(w)'
  <2>1. CASE conn'[w] = NoConnection /\ worker'[w].pc = "lookup"
             /\ orphans' = orphans \cup Pending(w)
    <3>1. OutputOK(w)' /\ Pending(w)' = {} /\ conn'[w].todo = <<>>
        BY <2>1, NothingToRead
    <3>2. Pending(w) \in SUBSET Calls
        BY PendingType
    <3>3. \A d \in Pending(w) : runs[d] = 0 /\ \A x \in Workers : x # w => d \notin Pending(x)
        BY DEF TodoInv
    <3> QED BY <1>9, <2>1, <3>1, <3>2, <3>3, OtherTodo
  <2>2. CASE /\ conn'[w] = conn[w] /\ conn[w].open /\ worker'[w].pc = "send"
             /\ worker[w].pc = "wait" /\ worker'[w].ref = worker[w].ref
             /\ worker[w].ref = RefOf[Head(queue)] /\ orphans' = orphans
    <3>1. \A x \in Workers : \A d : Sends(x, d) => Sends(x, d)'
        BY <2>2 DEF Sends
    <3>2. \A x \in Workers : Pending(x)' = Pending(x)
        BY <2>2 DEF Pending
    <3>3. TodoInv'
        BY <2>2, <3>1, <3>2 DEF TodoInv
    <3>4. worker'[w].ref = RefOf[worker'[w].cmd]
        BY <2>2
    <3>5. \A d : Readable(w, d) => Readable(w, d)'
        BY <3>1 DEF Readable
    <3>6. OutputOK(w)'
        BY <2>2, <3>4, <3>5 DEF OutputInv, OutputOK
    <3> QED BY <3>3, <3>6
  <2> QED BY <2>1, <2>2
<1>11. OutputInv'
    BY <1>9, <1>10, OtherOutput DEF OutputInv
<1>12. ApartInv'
  <2>1. conn'[w].output = <<>> \/ conn'[w].output = conn[w].output
      BY DEF NoConnection
  <2> QED BY <2>1, LessOutput, StillApart
<1>13. AnswerInv' /\ RunsAtMostOnce'
    BY DEF AnswerInv, RunsAtMostOnce
<1> QED BY <1>6, <1>7, <1>8, <1>10, <1>11, <1>12, <1>13

(* A worker without a call drops its connection.                           *)
LEMMA Dropped ==
    ASSUME TypeOK, CallInv, NEW w \in Workers, OnlyWorker(w), ~Busy(w),
           worker'[w].pc \in {"idle", "done"}, conn'[w] = NoConnection,
           orphans' = orphans \cup Pending(w),
           UNCHANGED <<state, from, runs, queue>>
    PROVE  CallInv'
<1> USE DEF CallInv, OnlyWorker
<1>1. OutputOK(w)' /\ Pending(w)' = {} /\ conn'[w].todo = <<>> /\ conn'[w].output = <<>>
    BY NothingToRead
<1>2. QueueInv' /\ BusyInv'
    BY DEF QueueInv, BusyInv, Busy
<1>3. UnsentInv'
  <2> SUFFICES ASSUME NEW d \in Calls, Unsent(d)' PROVE Fresh(d)'
      BY DEF UnsentInv
  <2>1. Unsent(d)
      BY DEF Unsent, NotSent
  <2>2. Fresh(d)
      BY <2>1 DEF UnsentInv
  <2> QED BY <1>1, <2>2 DEF Fresh, Pending
<1>4. Grows /\ AnswersFrom(w)
    BY DEF Grows, AnswersFrom
<1>5. TodoInv'
  <2>1. Pending(w) \in SUBSET Calls
      BY PendingType
  <2>2. \A d \in Pending(w) : runs[d] = 0 /\ \A x \in Workers : x # w => d \notin Pending(x)
      BY DEF TodoInv
  <2> QED BY <1>1, <1>4, <2>1, <2>2, OtherTodo
<1>6. OutputInv'
    BY <1>1, <1>4, OtherOutput DEF OutputInv
<1>7. ApartInv'
    BY <1>1, LessOutput, StillApart
<1>8. AnswerInv' /\ RunsAtMostOnce'
    BY DEF AnswerInv, RunsAtMostOnce
<1> QED BY <1>2, <1>3, <1>5, <1>6, <1>7, <1>8

(* A command goes out on a connection, after what is left of earlier ones. *)
LEMMA Sent ==
    ASSUME TypeOK, CallInv, NEW w \in Workers, OnlyWorker(w), worker[w].pc = "send",
           worker'[w].pc = "read", worker'[w].cmd = worker[w].cmd, worker'[w].ref = worker[w].ref,
           conn'[w].open, conn'[w].output = conn[w].output,
           conn'[w].todo = Append(conn[w].todo, worker[w].cmd),
           UNCHANGED <<state, from, runs, queue, orphans>>
    PROVE  CallInv'
<1> DEFINE c == worker[w].cmd
           todo == conn[w].todo
<1> USE DEF CallInv, OnlyWorker
<1>1. /\ Busy(w) /\ NotSent(w) /\ c \in Calls /\ state[c] = "asked"
      /\ worker[w].ref = RefOf[c]
    BY DEF Busy, NotSent, BusyInv, OutputInv, OutputOK
<1>2. Fresh(c)
    BY <1>1 DEF UnsentInv, Unsent
<1>3. todo \in Seq(Calls)
    BY PendingType
<1>4. /\ Len(todo) \in Nat /\ Len(conn'[w].todo) = Len(todo) + 1
      /\ \A i \in 1..Len(todo) : conn'[w].todo[i] = todo[i]
      /\ conn'[w].todo[Len(todo) + 1] = c
      /\ \A i \in 1..Len(conn'[w].todo) : i \in 1..Len(todo) \/ i = Len(todo) + 1
    BY <1>3
<1>5. Pending(w)' = Pending(w) \cup {c}
  <2>1. Pending(w)' = {conn'[w].todo[i] : i \in 1..Len(conn'[w].todo)}
      BY DEF Pending
  <2>2. Pending(w) = {todo[i] : i \in 1..Len(todo)}
      BY DEF Pending
  <2>3. Len(todo) + 1 \in 1..Len(conn'[w].todo) /\ 1..Len(todo) \subseteq 1..Len(conn'[w].todo)
      BY <1>4
  <2> HIDE DEF todo, c
  <2> QED BY <1>4, <2>1, <2>2, <2>3
<1>6. \A x \in Workers : x # w => Pending(x)' = Pending(x)
    BY DEF Pending
<1>7. QueueInv' /\ BusyInv'
    BY DEF QueueInv, BusyInv, Busy
<1>8. UnsentInv'
  <2> SUFFICES ASSUME NEW d \in Calls, Unsent(d)' PROVE Fresh(d)'
      BY DEF UnsentInv
  <2>1. Unsent(d) /\ d # c
      BY <1>1 DEF Unsent, NotSent, BusyInv, Busy
  <2>2. Fresh(d)
      BY <2>1 DEF UnsentInv
  <2> QED BY <1>5, <1>6, <2>1, <2>2 DEF Fresh
<1>9. \A x \in Workers : \A d \in Calls : Sends(x, d) => Sends(x, d)'
    BY DEF Sends
<1>10. TodoInv'
  <2>1. ASSUME NEW x \in Workers, NEW d \in Pending(x)'
        PROVE  /\ Sends(x, d)' /\ runs'[d] = 0 /\ d \notin orphans'
               /\ \A y \in Workers : d \in Pending(y)' => y = x
    <3>1. CASE d = c
      <4>1. x = w /\ \A y \in Workers : d \in Pending(y)' => y = w
          BY <1>2, <1>6, <2>1, <3>1 DEF Fresh
      <4>2. Sends(w, c)'
          BY <1>1 DEF Sends
      <4> QED BY <1>2, <3>1, <4>1, <4>2 DEF Fresh
    <3>2. CASE d # c
      <4>1. d \in Pending(x) /\ d \in Calls
          BY <1>5, <1>6, <2>1, <3>2, PendingType
      <4>2. \A y \in Workers : d \in Pending(y)' => y = x
          BY <1>5, <1>6, <3>2, <4>1 DEF TodoInv
      <4> QED BY <1>9, <4>1, <4>2 DEF TodoInv
    <3> QED BY <3>1, <3>2
  <2>2. ASSUME NEW x \in Workers, NEW i \in 1..Len(conn'[x].todo), NEW j \in 1..Len(conn'[x].todo),
               conn'[x].todo[i] = conn'[x].todo[j]
        PROVE  i = j
    <3>1. CASE x # w
        BY <2>2, <3>1 DEF TodoInv
    <3>2. CASE x = w
      <4>1. \A k \in 1..Len(todo) : todo[k] # c
          BY <1>2 DEF Fresh, Pending
      <4>2. \A k, l \in 1..Len(todo) : todo[k] = todo[l] => k = l
          BY DEF TodoInv
      <4>3. i \in 1..Len(conn'[w].todo) /\ j \in 1..Len(conn'[w].todo)
            /\ conn'[w].todo[i] = conn'[w].todo[j]
          BY <2>2, <3>2
      <4> HIDE DEF todo, c
      <4>4. CASE i \in 1..Len(todo) /\ j \in 1..Len(todo)
          BY <1>4, <4>2, <4>3, <4>4
      <4>5. CASE i = Len(todo) + 1
          BY <1>4, <4>1, <4>3, <4>5
      <4>6. CASE j = Len(todo) + 1
          BY <1>4, <4>1, <4>3, <4>6
      <4> QED BY <1>4, <4>3, <4>4, <4>5, <4>6
    <3> QED BY <3>1, <3>2
  <2> QED BY <2>1, <2>2 DEF TodoInv
<1>11. Grows /\ AnswersFrom(w)
    BY DEF Grows, AnswersFrom
<1>12. OutputInv'
  <2>1. \A i \in 1..Len(conn'[w].output) : conn'[w].output[i].out =>
            Readable(w, conn[w].output[i].call)'
    <3>1. \A d \in Calls : Readable(w, d) => Readable(w, d)'
        BY <1>9 DEF Readable
    <3>2. \A i \in 1..Len(conn[w].output) : conn[w].output[i].out =>
              conn[w].output[i].call \in Calls /\ Readable(w, conn[w].output[i].call)
        BY ChunkCall DEF OutputInv, OutputOK
    <3> QED BY <3>1, <3>2 DEF Readable, Sends
  <2>2. worker'[w].ref = RefOf[worker'[w].cmd]
      BY <1>1
  <2>3. OutputOK(w)'
      BY <2>1, <2>2 DEF OutputInv, OutputOK
  <2> QED BY <1>11, <2>3, OtherOutput DEF OutputInv
<1>13. ApartInv'
    BY LessOutput, StillApart
<1>14. AnswerInv' /\ RunsAtMostOnce'
    BY DEF AnswerInv, RunsAtMostOnce
<1> QED BY <1>7, <1>8, <1>10, <1>12, <1>13, <1>14

(* What is left after a read.                                              *)
LEMMA AfterRead ==
    ASSUME TypeOK, NEW w \in Workers, conn[w].output # <<>>
    PROVE  LET s == conn[w].output
           IN  /\ Len(s) \in Nat /\ Len(s) > 0 /\ Head(s) = s[1] /\ s[1] \in Chunk
               /\ Len(Tail(s)) = Len(s) - 1
               /\ \A i \in 1..Len(Tail(s)) : i + 1 \in 1..Len(s) /\ Tail(s)[i] = s[i + 1]
<1>1. conn[w].output \in Seq(Chunk)
    BY DEF TypeOK, Connection
<1> QED BY <1>1

(* Output on stdout answers the call that waits for it, whosever it is.    *)
LEMMA Answered ==
    ASSUME TypeOK, CallInv, NEW w \in Workers, OnlyWorker(w), worker[w].pc = "read",
           conn[w].output # <<>>, Head(conn[w].output).out,
           Answer(worker[w].cmd, Head(conn[w].output).call),
           \/ /\ conn'[w] = NoConnection /\ worker'[w].pc = "idle"
              /\ orphans' = orphans \cup Pending(w)
           \/ /\ worker'[w].pc = "wait" /\ worker'[w].ref = worker[w].ref
              /\ conn'[w].open /\ conn'[w].todo = conn[w].todo
              /\ conn'[w].output = Tail(conn[w].output) /\ orphans' = orphans,
           UNCHANGED <<runs, queue>>
    PROVE  CallInv'
<1> DEFINE c == worker[w].cmd
           s == conn[w].output
           d == s[1].call
<1> USE DEF CallInv, OnlyWorker
<1>1. /\ Busy(w) /\ c \in Calls /\ state[c] = "asked" /\ \A i \in 1..Len(queue) : queue[i] # c
      /\ \A x \in Workers : x # w /\ Busy(x) => worker[x].cmd # c
    BY DEF BusyInv, Busy
<1>2. /\ 1 \in 1..Len(s) /\ s[1].out /\ d \in Calls
      /\ \A i \in 1..Len(Tail(s)) : i + 1 \in 1..Len(s) /\ Tail(s)[i] = s[i + 1] /\ i + 1 # 1
    BY AfterRead, ChunkCall
<1>3. Readable(w, d)
    BY <1>2 DEF OutputInv, OutputOK
<1>4. state' = [state EXCEPT ![c] = "ok"] /\ from' = [from EXCEPT ![c] = d]
    BY AfterRead DEF Answer
<1>5. ASSUME NEW i \in 1..Len(Tail(s)), Tail(s)[i].out
      PROVE  /\ Tail(s)[i].call \in Calls /\ Readable(w, Tail(s)[i].call)
             /\ Tail(s)[i].call = d => Further[d] > 0
  <2>1. i + 1 \in 1..Len(s) /\ Tail(s)[i] = s[i + 1] /\ i + 1 # 1
      BY <1>2
  <2>2. s[i + 1].call \in Calls /\ Readable(w, s[i + 1].call)
      BY <1>5, <2>1, ChunkCall DEF OutputInv, OutputOK
  <2>3. s[i + 1].call = d => Further[d] > 0
      BY <1>2, <1>5, <2>1 DEF OutputInv, OutputOK
  <2> QED BY <2>1, <2>2, <2>3
<1>6. \A i, j \in 1..Len(Tail(s)) :
          Tail(s)[i].out /\ Tail(s)[j].out /\ Tail(s)[i].call = Tail(s)[j].call
          => i = j \/ Further[Tail(s)[i].call] > 0
  <2> SUFFICES ASSUME NEW i \in 1..Len(Tail(s)), NEW j \in 1..Len(Tail(s)),
                      Tail(s)[i].out, Tail(s)[j].out, Tail(s)[i].call = Tail(s)[j].call
               PROVE  i = j \/ Further[Tail(s)[i].call] > 0
      OBVIOUS
  <2>1. i + 1 = j + 1 \/ Further[Tail(s)[i].call] > 0
      BY <1>2 DEF OutputInv, OutputOK
  <2> QED BY <2>1
<1>7. s[1] = conn[w].output[1]
    OBVIOUS
<1> HIDE DEF c, s, d
<1>8. /\ state'[c] = "ok" /\ from'[c] = d
      /\ \A e \in Calls : e # c => state'[e] = state[e] /\ from'[e] = from[e]
    BY <1>1, <1>4 DEF TypeOK
<1>9. \A i \in 1..Len(queue) : queue[i] \in Calls
    BY DEF TypeOK
<1>10. ~Busy(w)' /\ Pending(w)' \subseteq Pending(w)
  <2>1. CASE conn'[w] = NoConnection /\ worker'[w].pc = "idle"
    <3>1. Pending(w)' = {}
        BY <2>1, NothingToRead
    <3> QED BY <2>1, <3>1 DEF Busy
  <2>2. CASE worker'[w].pc = "wait" /\ conn'[w].todo = conn[w].todo
      BY <2>2 DEF Busy, Pending
  <2> QED BY <2>1, <2>2
<1>11. \A x \in Workers : x # w => Pending(x)' = Pending(x)
    BY DEF Pending
<1>12. QueueInv'
    BY <1>1, <1>8, <1>9 DEF QueueInv
<1>13. BusyInv'
    BY <1>1, <1>8, <1>10 DEF BusyInv, Busy
<1>14. UnsentInv'
  <2> SUFFICES ASSUME NEW e \in Calls, Unsent(e)' PROVE Fresh(e)'
      BY DEF UnsentInv
  <2>1. e # c /\ Unsent(e)
      BY <1>1, <1>8, <1>10 DEF Unsent, NotSent, Busy, c
  <2>2. Fresh(e)
      BY <2>1 DEF UnsentInv
  <2>3. e \notin orphans' /\ \A x \in Workers : e \notin Pending(x)'
      BY <1>10, <1>11, <2>2 DEF Fresh
  <2> QED BY <2>2, <2>3 DEF Fresh
<1>15. Grows
    BY <1>8 DEF Grows
<1>16. AnswersFrom(w)
    BY <1>2, <1>8 DEF AnswersFrom, s, d
<1>17. \A e \in Calls : Sends(w, e) => state'[e] = "ok"
    BY <1>8 DEF Sends, c
<1>18. TodoInv' /\ OutputOK(w)'
  <2>1. CASE conn'[w] = NoConnection /\ worker'[w].pc = "idle" /\ orphans' = orphans \cup Pending(w)
    <3>1. OutputOK(w)' /\ Pending(w)' = {} /\ conn'[w].todo = <<>>
        BY <2>1, NothingToRead
    <3>2. Pending(w) \in SUBSET Calls
        BY PendingType
    <3>3. \A e \in Pending(w) : runs[e] = 0 /\ \A x \in Workers : x # w => e \notin Pending(x)
        BY DEF TodoInv
    <3> QED BY <1>15, <2>1, <3>1, <3>2, <3>3, OtherTodo
  <2>2. CASE /\ worker'[w].pc = "wait" /\ worker'[w].ref = worker[w].ref
             /\ conn'[w].open /\ conn'[w].todo = conn[w].todo
             /\ conn'[w].output = Tail(s) /\ orphans' = orphans
    <3>1. \A e \in Calls : Sends(w, e) => Sends(w, e)'
        BY <1>17, <2>2 DEF Sends
    <3>2. \A x \in Workers : x # w => \A e \in Calls : Sends(x, e) => Sends(x, e)'
        BY <1>15 DEF Sends, Grows
    <3>3. \A x \in Workers : Pending(x)' = Pending(x) /\ Pending(x) \subseteq Calls
        BY <1>11, <2>2, PendingType DEF Pending
    <3>4. \A x \in Workers : conn'[x].todo = conn[x].todo
        BY <2>2
    <3>5. TodoInv'
        BY <2>2, <3>1, <3>2, <3>3, <3>4 DEF TodoInv
    <3>6. ASSUME NEW i \in 1..Len(Tail(s)), Tail(s)[i].out,
                 NEW e \in Calls, e = Tail(s)[i].call
          PROVE  Readable(w, e)'
      <4>1. Readable(w, e) /\ (e = d => Further[e] > 0)
          BY <1>5, <3>6
      <4>2. Sends(w, e)'
          BY <3>1, <4>1 DEF Readable
      <4>3. Further[e] > 0 \/ \A a \in Calls : from'[a] # e
          BY <1>8, <4>1 DEF Readable
      <4> QED BY <4>1, <4>2, <4>3 DEF Readable
    <3>7. \A i \in 1..Len(conn'[w].output) : conn'[w].output[i].out =>
              Readable(w, conn[w].output[i].call)'
      <4>1. \A i \in 1..Len(Tail(s)) : Tail(s)[i].out => Tail(s)[i].call \in Calls
          BY <1>5
      <4> QED BY <2>2, <3>6, <4>1 DEF Readable, Sends
    <3>8. OutputOK(w)'
        BY <1>6, <2>2, <3>7 DEF OutputOK
    <3> QED BY <3>5, <3>8
  <2> QED BY <2>1, <2>2 DEF s
<1>19. OutputInv'
    BY <1>15, <1>16, <1>18, OtherOutput DEF OutputInv
<1>20. ApartInv'
  <2>1. conn'[w].output = <<>> \/ conn'[w].output = Tail(conn[w].output)
      BY DEF NoConnection
  <2> QED BY <2>1, LessOutput, StillApart
<1>21. AnswerInv'
  <2>1. c = d \/ state[d] = "ok"
      BY <1>3 DEF Readable, Sends, c
  <2>2. RefOf[d] = RefOf[c]
      BY <1>1, <1>3 DEF Readable, Sends, OutputInv, OutputOK, c
  <2>3. OnePiece(RefOf[c]) => c = d
    <3> SUFFICES ASSUME OnePiece(RefOf[c]), state[d] = "ok" PROVE FALSE
        BY <2>1
    <3>1. from[d] # d
        BY <1>2, <1>3, <2>2, ConstantsAssumption DEF Readable, OnePiece
    <3>2. from[d] = d
        BY <1>2, <2>2 DEF AnswerInv
    <3> QED BY <3>1, <3>2
  <2>4. \A e \in Calls : from[e] # NoCall => from[e] \in Calls
      BY DEF TypeOK
  <2>5. d # NoCall /\ runs[d] > 0 /\ state'[d] = "ok"
      BY <1>2, <1>3, <1>8, <2>1, ConstantsAssumption DEF Readable
  <2>6. ASSUME NEW e \in Calls
        PROVE  /\ state'[e] = "ok" <=> from'[e] # NoCall
               /\ from'[e] # NoCall =>
                    /\ RefOf[from'[e]] = RefOf[e]
                    /\ state'[from'[e]] = "ok" /\ runs'[from'[e]] > 0
                    /\ OnePiece(RefOf[e]) => from'[e] = e
    <3>1. CASE e = c
        BY <1>8, <2>2, <2>3, <2>5, <3>1
    <3>2. CASE e # c
        BY <1>8, <2>4, <3>2 DEF AnswerInv
    <3> QED BY <3>1, <3>2
  <2> QED BY <2>6 DEF AnswerInv, OnePiece
<1>22. RunsAtMostOnce'
    BY DEF RunsAtMostOnce
<1> QED BY <1>12, <1>13, <1>14, <1>18, <1>19, <1>20, <1>21, <1>22

(* Output on stderr alone is set aside.                                    *)
LEMMA Noise ==
    ASSUME TypeOK, CallInv, NEW w \in Workers, OnlyWorker(w), worker[w].pc = "read",
           conn[w].output # <<>>, worker'[w].pc = "read", worker'[w].cmd = worker[w].cmd,
           worker'[w].ref = worker[w].ref,
           conn'[w].open = conn[w].open, conn'[w].todo = conn[w].todo,
           conn'[w].output = Tail(conn[w].output),
           UNCHANGED <<state, from, runs, queue, orphans>>
    PROVE  CallInv'
<1> DEFINE s == conn[w].output
<1> USE DEF CallInv, OnlyWorker
<1>1. conn[w].open
    BY DEF OutputInv, OutputOK
<1>2. QueueInv' /\ BusyInv'
    BY DEF QueueInv, BusyInv, Busy
<1>3. \A x \in Workers : Pending(x)' = Pending(x) /\ conn'[x].todo = conn[x].todo
    BY DEF Pending
<1>4. UnsentInv'
    BY <1>3 DEF UnsentInv, Unsent, Fresh, NotSent
<1>5. \A x \in Workers : \A d : Sends(x, d) => Sends(x, d)'
    BY DEF Sends
<1>6. TodoInv'
    BY <1>3, <1>5 DEF TodoInv
<1>7. Grows /\ AnswersFrom(w)
    BY DEF Grows, AnswersFrom
<1>8. OutputInv'
  <2>1. \A i \in 1..Len(Tail(s)) : i + 1 \in 1..Len(s) /\ Tail(s)[i] = s[i + 1]
      BY AfterRead
  <2>2. \A i \in 1..Len(s) : s[i].out => Readable(w, s[i].call)
      BY DEF OutputInv, OutputOK
  <2>3. \A d : Readable(w, d) => Readable(w, d)'
      BY <1>5 DEF Readable
  <2>4. \A i \in 1..Len(conn'[w].output) : conn'[w].output[i].out =>
            Readable(w, conn[w].output[i].call)'
    <3>1. \A i \in 1..Len(Tail(s)) : Tail(s)[i].out => Readable(w, Tail(s)[i].call)
        BY <2>1, <2>2
    <3> QED BY <2>3, <3>1 DEF Readable, Sends
  <2>5. \A i, j \in 1..Len(Tail(s)) :
            Tail(s)[i].out /\ Tail(s)[j].out /\ Tail(s)[i].call = Tail(s)[j].call
            => i = j \/ Further[Tail(s)[i].call] > 0
    <3> SUFFICES ASSUME NEW i \in 1..Len(Tail(s)), NEW j \in 1..Len(Tail(s)),
                        Tail(s)[i].out, Tail(s)[j].out, Tail(s)[i].call = Tail(s)[j].call
                 PROVE  i = j \/ Further[Tail(s)[i].call] > 0
        OBVIOUS
    <3>1. i + 1 = j + 1 \/ Further[Tail(s)[i].call] > 0
        BY <2>1 DEF OutputInv, OutputOK
    <3> QED BY <3>1
  <2>6. conn'[w].output = Tail(s) /\ worker'[w].ref = RefOf[worker'[w].cmd]
      BY DEF OutputInv, OutputOK
  <2>7. OutputOK(w)'
    <3> HIDE DEF s
    <3> QED BY <1>1, <2>4, <2>5, <2>6 DEF OutputOK
  <2> QED BY <1>7, <2>7, OtherOutput DEF OutputInv
<1>9. ApartInv'
    BY LessOutput, StillApart
<1>10. AnswerInv' /\ RunsAtMostOnce'
    BY DEF AnswerInv, RunsAtMostOnce
<1> QED BY <1>2, <1>4, <1>6, <1>8, <1>9, <1>10

(* A host runs the first command that waits on a connection.               *)
LEMMA Ran ==
    ASSUME TypeOK, CallInv, NEW w \in Workers, HostRuns(w)
    PROVE  CallInv'
<1> DEFINE link == conn[w]
           todo == link.todo
           s == link.output
<1> USE DEF CallInv
<1>1. link \in Connection /\ todo \in Seq(Calls) /\ s \in Seq(Chunk) /\ todo # <<>>
    BY DEF HostRuns, TypeOK, Connection
<1>a. PICK c \in Calls : c = Head(todo)
    BY <1>1
<1>2. /\ Len(todo) \in Nat /\ 1 \in 1..Len(todo) /\ c = todo[1]
      /\ Tail(todo) \in Seq(Calls)
      /\ \A i \in 1..Len(Tail(todo)) : i + 1 \in 1..Len(todo) /\ Tail(todo)[i] = todo[i + 1] /\ i + 1 # 1
    BY <1>1, <1>a
<1>3. c \in Pending(w)
    BY <1>2 DEF Pending
<1>4. PICK printed \in Outputs(c) :
          conn' = [conn EXCEPT ![w] = [link EXCEPT !.todo = Tail(todo), !.output = s \o printed]]
    BY <1>a DEF HostRuns
<1>5. /\ UNCHANGED <<state, from, queue, orphans, worker>>
      /\ runs' = [runs EXCEPT ![c] = runs[c] + 1]
    BY <1>a DEF HostRuns
<1>6. /\ conn'[w].todo = Tail(todo) /\ conn'[w].open = link.open /\ conn'[w].output = s \o printed
      /\ \A x \in Workers : x # w => conn'[x] = conn[x]
    BY <1>1, <1>4 DEF TypeOK, Connection
<1>7. Sends(w, c) /\ runs[c] = 0 /\ c \notin orphans /\ \A x \in Workers : c \in Pending(x) => x = w
    BY <1>3 DEF TodoInv
<1>8. runs'[c] = 1 /\ \A d \in Calls : d # c => runs'[d] = runs[d]
    BY <1>2, <1>5, <1>7 DEF TypeOK
<1>9. Pending(w)' \subseteq Pending(w) /\ c \notin Pending(w)'
  <2> SUFFICES ASSUME NEW i \in 1..Len(Tail(todo)) PROVE Tail(todo)[i] \in Pending(w) /\ Tail(todo)[i] # c
      BY <1>6 DEF Pending
  <2>1. i + 1 \in 1..Len(todo) /\ Tail(todo)[i] = todo[i + 1] /\ i + 1 # 1
      BY <1>2
  <2>2. todo[i + 1] # todo[1]
      BY <1>2, <2>1 DEF TodoInv
  <2> QED BY <1>2, <2>1, <2>2 DEF Pending
<1>10. \A x \in Workers : x # w => Pending(x)' = Pending(x)
    BY <1>6 DEF Pending
<1>11. \A i, j \in 1..Len(Tail(todo)) : Tail(todo)[i] = Tail(todo)[j] => i = j
  <2> SUFFICES ASSUME NEW i \in 1..Len(Tail(todo)), NEW j \in 1..Len(Tail(todo)),
                      Tail(todo)[i] = Tail(todo)[j]
               PROVE  i = j
      OBVIOUS
  <2>1. i + 1 = j + 1
      BY <1>2 DEF TodoInv
  <2> QED BY <2>1
<1>12. /\ OutputOK(w) /\ link.open /\ worker[w].pc # "report"
  <2>1. OutputOK(w)
      BY DEF OutputInv
  <2>2. link.open
    <3> SUFFICES ASSUME ~link.open PROVE FALSE
        OBVIOUS
    <3>1. link = NoConnection
        BY <2>1 DEF OutputOK
    <3> QED BY <1>1, <3>1 DEF NoConnection
  <2> QED BY <1>1, <2>1, <2>2 DEF OutputOK
<1> HIDE DEF s, todo, link
<1>13. QueueInv' /\ BusyInv'
    BY <1>5 DEF QueueInv, BusyInv, Busy
<1>14. UnsentInv'
  <2> SUFFICES ASSUME NEW d \in Calls, Unsent(d)' PROVE Fresh(d)'
      BY DEF UnsentInv
  <2>1. Unsent(d)
      BY <1>5 DEF Unsent, NotSent
  <2>2. Fresh(d) /\ d # c
      BY <1>3, <2>1 DEF UnsentInv, Fresh
  <2>3. \A x \in Workers : d \notin Pending(x)'
      BY <1>9, <1>10, <2>2 DEF Fresh
  <2> QED BY <1>5, <1>8, <2>2, <2>3 DEF Fresh
<1>15. \A x \in Workers : \A d : Sends(x, d) => Sends(x, d)'
    BY <1>5 DEF Sends
<1>16. TodoInv'
  <2>1. ASSUME NEW x \in Workers, NEW d \in Pending(x)'
        PROVE  /\ Sends(x, d)' /\ runs'[d] = 0 /\ d \notin orphans'
               /\ \A y \in Workers : d \in Pending(y)' => y = x
    <3>1. d \in Pending(x) /\ d # c /\ d \in Calls
        BY <1>7, <1>9, <1>10, <2>1, PendingType
    <3>2. \A y \in Workers : d \in Pending(y)' => y = x
        BY <1>9, <1>10, <3>1 DEF TodoInv
    <3>3. Sends(x, d) /\ runs[d] = 0 /\ d \notin orphans
        BY <3>1 DEF TodoInv
    <3> QED BY <1>5, <1>8, <1>15, <3>1, <3>2, <3>3
  <2>2. \A x \in Workers : \A i, j \in 1..Len(conn'[x].todo) :
            conn'[x].todo[i] = conn'[x].todo[j] => i = j
      BY <1>6, <1>11 DEF TodoInv
  <2>3. \A d \in orphans' : runs'[d] = 0
      BY <1>5, <1>7, <1>8 DEF TodoInv, TypeOK
  <2> QED BY <2>1, <2>2, <2>3 DEF TodoInv
<1>17. /\ printed \in Seq(Chunk) /\ \A i \in 1..Len(printed) : printed[i].call = c
       /\ Further[c] = 0 => \A i, j \in 1..Len(printed) : printed[i].out /\ printed[j].out => i = j
    BY <1>2, <1>4, Printed
<1>18. /\ Len(s) \in Nat /\ Len(printed) \in Nat /\ Len(s \o printed) = Len(s) + Len(printed)
       /\ \A i \in 1..Len(s) : (s \o printed)[i] = s[i]
       /\ \A i \in 1..Len(s \o printed) : i \notin 1..Len(s) =>
            i - Len(s) \in 1..Len(printed) /\ (s \o printed)[i] = printed[i - Len(s)]
    BY <1>1, <1>17
<1>19. ASSUME NEW x \in Workers, NEW i \in 1..Len(conn[x].output), conn[x].output[i].out
       PROVE  /\ conn[x].output[i].call \in Calls /\ conn[x].output[i].call # c
              /\ Readable(x, conn[x].output[i].call)
  <2>1. conn[x].output[i].call \in Calls /\ Readable(x, conn[x].output[i].call)
      BY <1>19, ChunkCall DEF OutputInv, OutputOK
  <2> QED BY <1>7, <2>1 DEF Readable
<1>20. \A x \in Workers : \A d \in Calls : Readable(x, d) => Readable(x, d)'
    BY <1>5, <1>8, <1>15 DEF Readable, TypeOK
<1>21. Readable(w, c)'
  <2>1. \A e \in Calls : from[e] # c
      BY <1>2, <1>7, ConstantsAssumption DEF AnswerInv
  <2> QED BY <1>5, <1>7, <1>8, <1>15, <2>1 DEF Readable
<1>22. OutputInv'
  <2>1. ASSUME NEW i \in 1..Len(s \o printed), (s \o printed)[i].out,
               NEW d, d = (s \o printed)[i].call
        PROVE  Readable(w, d)' /\ (d = c <=> i \notin 1..Len(s))
    <3>1. CASE i \in 1..Len(s)
      <4>1. s[i].call = d /\ s[i].out
          BY <1>18, <2>1, <3>1
      <4>2. d \in Calls /\ d # c /\ Readable(w, d)
          BY <1>19, <3>1, <4>1 DEF s, link
      <4> QED BY <1>20, <3>1, <4>2
    <3>2. CASE i \notin 1..Len(s)
      <4>1. d = c
          BY <1>17, <1>18, <2>1, <3>2
      <4> QED BY <1>21, <3>2, <4>1
    <3> QED BY <3>1, <3>2
  <2>2. ASSUME NEW i \in 1..Len(s \o printed), NEW j \in 1..Len(s \o printed),
               (s \o printed)[i].out, (s \o printed)[j].out,
               (s \o printed)[i].call = (s \o printed)[j].call
        PROVE  i = j \/ Further[(s \o printed)[i].call] > 0
    <3>1. CASE i \in 1..Len(s)
      <4>1. j \in 1..Len(s)
          BY <2>1, <2>2, <3>1
      <4> QED BY <1>12, <1>18, <2>2, <3>1, <4>1 DEF OutputOK, s, link
    <3>2. CASE i \notin 1..Len(s)
      <4>1. j \notin 1..Len(s) /\ (s \o printed)[i].call = c
          BY <2>1, <2>2, <3>2
      <4>2. CASE Further[c] > 0
          BY <4>1, <4>2
      <4>3. CASE Further[c] = 0
        <5>1. i - Len(s) = j - Len(s)
            BY <1>17, <1>18, <2>2, <3>2, <4>1, <4>3
        <5> QED BY <1>18, <5>1
      <4> QED BY <1>2, <4>2, <4>3, ConstantsAssumption
    <3> QED BY <3>1, <3>2
  <2>3. OutputOK(w)'
    <3>1. ~conn'[w].open => conn'[w] = NoConnection
        BY <1>6, <1>12
    <3>2. /\ conn'[w].open => worker'[w].pc \in {"report", "send", "read", "wait"}
          /\ worker'[w].pc \in {"send", "read", "wait"} => conn'[w].open
          /\ worker'[w].pc = "report" => conn'[w].todo = <<>> /\ conn'[w].output = <<>>
          /\ worker'[w].pc \in {"connect", "report", "send", "read"} =>
               worker'[w].ref = RefOf[worker'[w].cmd]
        BY <1>5, <1>6, <1>12 DEF OutputOK, link
    <3>3. \A i \in 1..Len(conn'[w].output) : conn'[w].output[i].out =>
              Readable(w, conn[w].output[i].call)'
        BY <1>6, <2>1 DEF Readable, Sends
    <3>4. \A i, j \in 1..Len(conn'[w].output) :
              /\ conn'[w].output[i].out /\ conn'[w].output[j].out
              /\ conn'[w].output[i].call = conn'[w].output[j].call
              => i = j \/ Further[conn'[w].output[i].call] > 0
        BY <1>6, <2>2
    <3> QED BY <3>1, <3>2, <3>3, <3>4 DEF OutputOK
  <2>4. OnlyWorker(w) /\ Grows /\ AnswersFrom(w)
      BY <1>5, <1>6, <1>8 DEF OnlyWorker, Grows, AnswersFrom, TypeOK
  <2> QED BY <2>3, <2>4, OtherOutput DEF OutputInv
<1>23. ApartInv'
  <2> SUFFICES ASSUME NEW x \in Workers, NEW y \in Workers, x # y,
                      NEW i \in 1..Len(conn'[x].output), NEW j \in 1..Len(conn'[y].output),
                      conn'[x].output[i].out, conn'[y].output[j].out
               PROVE  conn'[x].output[i].call # conn'[y].output[j].call
      BY DEF ApartInv
  <2>1. ASSUME NEW z \in Workers, NEW k \in 1..Len(conn'[z].output), conn'[z].output[k].out
        PROVE  \/ z = w /\ conn'[z].output[k].call = c
               \/ /\ k \in 1..Len(conn[z].output) /\ conn'[z].output[k] = conn[z].output[k]
                  /\ conn[z].output[k].call # c
    <3>1. CASE z # w
        BY <1>6, <1>19, <2>1, <3>1
    <3>2. CASE z = w
      <4>1. conn'[z].output = s \o printed
          BY <1>6, <3>2
      <4>2. CASE k \in 1..Len(s)
        <5>1. conn'[z].output[k] = s[k]
            BY <1>18, <4>1, <4>2
        <5> QED BY <1>19, <2>1, <3>2, <4>2, <5>1 DEF s, link
      <4>3. CASE k \notin 1..Len(s)
          BY <1>17, <1>18, <2>1, <3>2, <4>1, <4>3
      <4> QED BY <4>2, <4>3
    <3> QED BY <3>1, <3>2
  <2>2. ASSUME NEW z \in Workers, z = w, NEW v \in Workers, v # w,
               NEW k \in 1..Len(conn'[z].output), NEW l \in 1..Len(conn'[v].output),
               conn'[z].output[k].out, conn'[v].output[l].out
        PROVE  conn'[z].output[k].call # conn'[v].output[l].call
    <3>1. /\ l \in 1..Len(conn[v].output) /\ conn'[v].output[l] = conn[v].output[l]
          /\ conn[v].output[l].call # c
        BY <2>1, <2>2
    <3>2. CASE conn'[z].output[k].call = c
        BY <3>1, <3>2
    <3>3. CASE k \in 1..Len(conn[z].output) /\ conn'[z].output[k] = conn[z].output[k]
        BY <2>2, <3>1, <3>3 DEF ApartInv
    <3> QED BY <2>1, <2>2, <3>2, <3>3
  <2>3. CASE x = w
      BY <2>2, <2>3
  <2>4. CASE y = w
      BY <2>2, <2>4
  <2>5. CASE x # w /\ y # w
      BY <1>6, <2>5 DEF ApartInv
  <2> QED BY <2>3, <2>4, <2>5
<1>24. AnswerInv' /\ RunsAtMostOnce'
  <2>1. \A e \in Calls : from[e] # NoCall => from[e] \in Calls
      BY DEF TypeOK
  <2>2. \A d \in Calls : runs[d] > 0 => runs'[d] > 0
      BY <1>8
  <2> QED BY <1>2, <1>5, <1>8, <2>1, <2>2 DEF AnswerInv, RunsAtMostOnce
<1> QED BY <1>13, <1>14, <1>16, <1>22, <1>23, <1>24

(* Steps elsewhere leave what may be read.                                 *)
LEMMA SameOutput ==
    ASSUME TypeOK, OutputInv, ApartInv, Grows, UNCHANGED <<worker, conn, from>>
    PROVE  OutputInv' /\ ApartInv'
<1>1. ASSUME NEW x \in Workers PROVE OutputOK(x)'
  <2>1. ASSUME NEW i \in 1..Len(conn[x].output), conn[x].output[i].out
        PROVE  Readable(x, conn[x].output[i].call)'
    <3>1. conn[x].output[i].call \in Calls /\ Readable(x, conn[x].output[i].call)
        BY <2>1, ChunkCall DEF OutputInv, OutputOK
    <3> QED BY <3>1 DEF Readable, Sends, Grows
  <2> QED BY <2>1 DEF OutputInv, OutputOK
<1>2. ApartInv'
    BY DEF ApartInv
<1> QED BY <1>1, <1>2 DEF OutputInv

(* A script runs although nobody waits for it any more.                    *)
LEMMA OrphanRan ==
    ASSUME TypeOK, CallInv, NEW c \in Calls, RunOrphan(c)
    PROVE  CallInv'
<1> USE DEF CallInv
<1>1. /\ c \in orphans /\ orphans' = orphans \ {c}
      /\ UNCHANGED <<state, from, queue, worker, conn>>
    BY DEF RunOrphan
<1>2. runs[c] = 0 /\ runs'[c] = 1 /\ \A d \in Calls : d # c => runs'[d] = runs[d]
    BY <1>1 DEF RunOrphan, TodoInv, TypeOK
<1>3. Grows
    BY <1>1, <1>2 DEF Grows
<1>4. QueueInv' /\ BusyInv'
    BY <1>1 DEF QueueInv, BusyInv, Busy
<1>5. \A x \in Workers : Pending(x)' = Pending(x)
    BY <1>1 DEF Pending
<1>6. UnsentInv'
  <2> SUFFICES ASSUME NEW d \in Calls, Unsent(d)' PROVE Fresh(d)'
      BY DEF UnsentInv
  <2>1. Unsent(d)
      BY <1>1 DEF Unsent, NotSent
  <2>2. Fresh(d) /\ d # c
      BY <1>1, <2>1 DEF UnsentInv, Fresh
  <2> QED BY <1>1, <1>2, <1>5, <2>2 DEF Fresh
<1>7. TodoInv'
  <2>1. ASSUME NEW x \in Workers, NEW d \in Pending(x)
        PROVE  Sends(x, d)' /\ runs'[d] = 0 /\ d \notin orphans'
    <3>1. Sends(x, d) /\ runs[d] = 0 /\ d \notin orphans /\ d \in Calls
        BY PendingType DEF TodoInv
    <3> QED BY <1>1, <1>2, <3>1 DEF Sends
  <2>2. \A d \in orphans' : runs'[d] = 0
      BY <1>1, <1>2 DEF TodoInv, TypeOK
  <2> QED BY <1>1, <1>5, <2>1, <2>2 DEF TodoInv
<1>8. OutputInv' /\ ApartInv'
    BY <1>1, <1>3, SameOutput
<1>9. AnswerInv' /\ RunsAtMostOnce'
  <2>1. \A e \in Calls : from[e] # NoCall => from[e] \in Calls
      BY DEF TypeOK
  <2> QED BY <1>1, <1>2, <1>3, <2>1 DEF AnswerInv, RunsAtMostOnce, Grows
<1> QED BY <1>4, <1>6, <1>7, <1>8, <1>9

(* A reconciler makes a call.                                              *)
LEMMA Asked ==
    ASSUME TypeOK, CallInv, NEW c \in Calls, Ask(c)
    PROVE  CallInv'
<1> USE DEF CallInv
<1>1. /\ state[c] = "new" /\ state' = [state EXCEPT ![c] = "asked"] /\ queue' = Append(queue, c)
      /\ UNCHANGED <<from, runs, worker, conn, orphans>>
    BY DEF Ask
<1>2. state'[c] = "asked" /\ \A d \in Calls : d # c => state'[d] = state[d]
    BY <1>1 DEF TypeOK
<1>3. /\ Len(queue) \in Nat /\ Len(queue') = Len(queue) + 1 /\ queue'[Len(queue) + 1] = c
      /\ \A i \in 1..Len(queue) : queue[i] \in Calls /\ queue'[i] = queue[i]
    BY <1>1 DEF TypeOK
<1>4. \A i \in 1..Len(queue) : queue[i] # c
    BY <1>1 DEF QueueInv
<1>5. \A x \in Workers : Busy(x) => worker[x].cmd # c
    BY <1>1 DEF BusyInv
<1>6. \A i \in 1..Len(queue') : i \in 1..Len(queue) \/ i = Len(queue) + 1
    BY <1>3
<1>7. QueueInv'
  <2>1. \A i \in 1..Len(queue') : state'[queue'[i]] = "asked"
      BY <1>2, <1>3, <1>4, <1>6 DEF QueueInv
  <2>2. \A i, j \in 1..Len(queue') : queue'[i] = queue'[j] => i = j
      BY <1>3, <1>4, <1>6 DEF QueueInv
  <2> QED BY <2>1, <2>2 DEF QueueInv
<1>8. BusyInv'
  <2> SUFFICES ASSUME NEW x \in Workers, Busy(x)
               PROVE  /\ worker[x].cmd \in Calls /\ state'[worker[x].cmd] = "asked"
                      /\ \A i \in 1..Len(queue') : queue'[i] # worker[x].cmd
                      /\ \A y \in Workers : Busy(y) /\ worker[y].cmd = worker[x].cmd => y = x
      BY <1>1 DEF BusyInv, Busy
  <2>1. worker[x].cmd \in Calls /\ state[worker[x].cmd] = "asked" /\ worker[x].cmd # c
      BY <1>5 DEF BusyInv
  <2> QED BY <1>2, <1>3, <1>6, <2>1 DEF BusyInv
<1>9. \A x \in Workers : Pending(x)' = Pending(x) /\ Pending(x) \subseteq Calls
    BY <1>1, PendingType DEF Pending
<1>10. UnsentInv'
  <2> SUFFICES ASSUME NEW d \in Calls, Unsent(d)' PROVE Fresh(d)'
      BY DEF UnsentInv
  <2>1. Unsent(d)
      BY <1>1, <1>2, <1>3, <1>6 DEF Unsent, NotSent
  <2> QED BY <1>1, <1>9, <2>1 DEF UnsentInv, Fresh
<1>11. Grows
    BY <1>1, <1>2 DEF Grows
<1>12. TodoInv'
  <2>1. \A x \in Workers : \A d \in Calls : Sends(x, d) => Sends(x, d)'
      BY <1>1, <1>11 DEF Sends, Grows
  <2> QED BY <1>1, <1>9, <2>1 DEF TodoInv
<1>13. OutputInv' /\ ApartInv'
    BY <1>1, <1>11, SameOutput
<1>14. AnswerInv' /\ RunsAtMostOnce'
  <2>1. \A e \in Calls : from[e] # NoCall => from[e] \in Calls
      BY DEF TypeOK
  <2> QED BY <1>1, <1>2, <2>1 DEF AnswerInv, RunsAtMostOnce
<1> QED BY <1>7, <1>8, <1>10, <1>12, <1>13, <1>14

(* Providers, the end of the program and stuttering do not touch calls.    *)
LEMMA Untouched ==
    ASSUME CallInv, UNCHANGED <<state, from, runs, queue, worker, conn, orphans>>
    PROVE  CallInv'
<1>1. QueueInv' /\ BusyInv'
    BY DEF CallInv, QueueInv, BusyInv, Busy
<1>2. UnsentInv'
    BY DEF CallInv, UnsentInv, Unsent, Fresh, NotSent, Pending
<1>3. TodoInv'
    BY DEF CallInv, TodoInv, Pending, Sends
<1>4. OutputInv' /\ ApartInv'
    BY DEF CallInv, OutputInv, OutputOK, Readable, Sends, ApartInv
<1>5. AnswerInv' /\ RunsAtMostOnce'
    BY DEF CallInv, AnswerInv, RunsAtMostOnce
<1> QED BY <1>1, <1>2, <1>3, <1>4, <1>5 DEF CallInv

(* A call that is taken from the channel by a worker that then panics.     *)
LEMMA CallLost ==
    ASSUME TypeOK, CallInv, queue # <<>>, queue' = Tail(queue),
           UNCHANGED <<state, from, runs, worker, conn, orphans>>
    PROVE  CallInv'
<1>1. /\ Len(queue) \in Nat /\ Len(queue') = Len(queue) - 1
      /\ \A i \in 1..Len(queue') : i + 1 \in 1..Len(queue) /\ queue'[i] = queue[i + 1]
    BY DEF TypeOK
<1>2. QueueInv' /\ BusyInv'
    BY <1>1 DEF CallInv, QueueInv, BusyInv, Busy
<1>3. UnsentInv'
    BY <1>1 DEF CallInv, UnsentInv, Unsent, Fresh, NotSent, Pending
<1>4. TodoInv'
  <2>1. \A x \in Workers : Pending(x)' = Pending(x) /\ \A d : Sends(x, d)' <=> Sends(x, d)
      BY DEF Pending, Sends
  <2> QED BY <2>1 DEF CallInv, TodoInv
<1>5. OutputInv' /\ ApartInv'
    BY DEF CallInv, OutputInv, OutputOK, Readable, Sends, ApartInv
<1>6. AnswerInv' /\ RunsAtMostOnce'
    BY DEF CallInv, AnswerInv, RunsAtMostOnce
<1> QED BY <1>2, <1>3, <1>4, <1>5, <1>6 DEF CallInv

(* What a worker and its connection become is what the step says, and the  *)
(* others stay as they are.                                                *)
LEMMA WorkerBecomes ==
    ASSUME TypeOK, NEW w \in Workers, NEW next, worker' = [worker EXCEPT ![w] = next]
    PROVE  worker'[w] = next /\ \A x \in Workers : x # w => worker'[x] = worker[x]
BY DEF TypeOK

LEMMA ConnBecomes ==
    ASSUME TypeOK, NEW w \in Workers, NEW next, conn' = [conn EXCEPT ![w] = next]
    PROVE  conn'[w] = next /\ \A x \in Workers : x # w => conn'[x] = conn[x]
BY DEF TypeOK

-----------------------------------------------------------------------------
(* The steps of a worker are moves of those kinds.                         *)

(* Drop, when the worker's call was not sent or the worker fails it.       *)
LEMMA DropGivesUp ==
    ASSUME TypeOK, CallInv, NEW w \in Workers, Busy(w), Fail(worker[w].cmd), BecomeIdle(w),
           NEW sent \in SUBSET {worker[w].cmd}, NotSent(w) \/ sent = {}, Drop(w, sent),
           UNCHANGED <<runs, queue>>
    PROVE  CallInv'
<1>1. worker'[w] = IdleWorker /\ conn'[w] = NoConnection /\ OnlyWorker(w)
    BY WorkerBecomes, ConnBecomes DEF BecomeIdle, Drop, OnlyWorker
<1>2. orphans' = orphans \cup Pending(w) \cup sent
    BY DEF Drop
<1> QED BY <1>1, <1>2, GivenUp

LEMMA DropWithoutCall ==
    ASSUME TypeOK, NEW w \in Workers, Drop(w, {})
    PROVE  orphans' = orphans \cup Pending(w) /\ conn'[w] = NoConnection
BY ConnBecomes DEF Drop

LEMMA NothingToDrop ==
    ASSUME TypeOK, CallInv, NEW w \in Workers, worker[w].pc \in {"idle", "lookup", "report"},
           ~conn[w].open, UNCHANGED <<conn, orphans>>
    PROVE  Drop(w, {}) /\ conn'[w] = NoConnection
<1>1. conn[w] = NoConnection
    BY DEF CallInv, OutputInv, OutputOK
<1>2. Pending(w) = {}
    BY NothingSent DEF CallInv
<1>3. conn' = [conn EXCEPT ![w] = NoConnection]
    BY <1>1 DEF TypeOK
<1> QED BY <1>1, <1>2, <1>3 DEF Drop

LEMMA LookupCall ==
    ASSUME TypeOK, CallInv, NEW w \in Workers, Lookup(w)
    PROVE  CallInv'
<1> DEFINE r == RefOf[worker[w].cmd]
           v == providers[r]
           next == [worker[w] EXCEPT !.pc = "connect", !.ref = r, !.version = v,
                                     !.first = FirstHealthy(health[r][v])]
<1>1. worker[w].pc = "lookup" /\ UNCHANGED <<runs, queue, conn, orphans>>
    BY DEF Lookup
<1>2. ~conn[w].open /\ conn[w] = NoConnection
    BY <1>1 DEF CallInv, OutputInv, OutputOK
<1>3. CASE Fail(worker[w].cmd) /\ BecomeIdle(w)
  <2>1. Busy(w) /\ Drop(w, {})
      BY <1>1, <1>2, NothingToDrop DEF Busy
  <2> QED BY <1>1, <1>3, <2>1, DropGivesUp
<1>4. CASE worker' = [worker EXCEPT ![w] = next] /\ UNCHANGED <<state, from>>
  <2>1. next.pc = "connect" /\ next.cmd = worker[w].cmd /\ next.ref = r
      BY DEF TypeOK, WorkerState, WorkerFields
  <2> HIDE DEF next
  <2>2. worker'[w] = next /\ OnlyWorker(w)
      BY <1>1, <1>4, WorkerBecomes DEF OnlyWorker
  <2> QED BY <1>1, <1>2, <1>4, <2>1, <2>2, Advance
<1> QED BY <1>3, <1>4 DEF Lookup

LEMMA ConnectCall ==
    ASSUME TypeOK, CallInv, NEW w \in Workers, Connect(w)
    PROVE  CallInv'
<1> DEFINE me == worker[w]
           host == HostInTurn(me.first, me.tried)
           next == [me EXCEPT !.tried = me.tried + 1, !.failed = me.failed \cup {host},
                              !.pc = IF me.tried + 1 = Hosts THEN "report" ELSE "connect"]
           done == [me EXCEPT !.pc = "report"]
<1>1. me.pc = "connect" /\ UNCHANGED <<state, from, runs, queue, orphans>>
    BY DEF Connect, callVars
<1>2. ~conn[w].open /\ me.ref = RefOf[me.cmd]
    BY <1>1 DEF CallInv, OutputInv, OutputOK
<1>3. CASE conn' = [conn EXCEPT ![w] = NewConnection] /\ Goto(w, "report")
  <2>1. worker' = [worker EXCEPT ![w] = done]
      BY <1>3 DEF Goto
  <2>2. done.pc = "report" /\ done.cmd = me.cmd /\ done.ref = me.ref
      BY DEF TypeOK, WorkerState, WorkerFields
  <2> HIDE DEF done
  <2>3. worker'[w] = done /\ conn'[w] = NewConnection /\ OnlyWorker(w)
      BY <1>3, <2>1, WorkerBecomes, ConnBecomes DEF OnlyWorker
  <2> QED BY <1>1, <1>2, <2>2, <2>3, Advance
<1>4. CASE worker' = [worker EXCEPT ![w] = next] /\ UNCHANGED conn
  <2>1. next.pc \in {"connect", "report"} /\ next.cmd = me.cmd /\ next.ref = me.ref
      BY DEF TypeOK, WorkerState, WorkerFields
  <2> HIDE DEF next
  <2>2. worker'[w] = next /\ conn'[w] = conn[w] /\ OnlyWorker(w)
      BY <1>4, WorkerBecomes DEF OnlyWorker
  <2> QED BY <1>1, <1>2, <2>1, <2>2, Advance
<1> QED BY <1>3, <1>4 DEF Connect

LEMMA ReportCall ==
    ASSUME TypeOK, CallInv, NEW w \in Workers, Report(w)
    PROVE  CallInv'
<1> DEFINE next == [worker[w] EXCEPT !.pc = "send"]
<1>1. worker[w].pc = "report" /\ UNCHANGED <<runs, queue, conn, orphans>>
    BY DEF Report
<1>2. CASE conn[w].open /\ Goto(w, "send") /\ UNCHANGED <<state, from>>
  <2>1. next.pc = "send" /\ next.cmd = worker[w].cmd /\ next.ref = worker[w].ref
      BY DEF TypeOK, WorkerState, WorkerFields
  <2>2. worker' = [worker EXCEPT ![w] = next]
      BY <1>2 DEF Goto
  <2> HIDE DEF next
  <2>3. worker'[w] = next /\ conn'[w] = conn[w] /\ OnlyWorker(w)
      BY <1>1, <2>2, WorkerBecomes DEF OnlyWorker
  <2>4. worker[w].ref = RefOf[worker[w].cmd]
      BY <1>1 DEF CallInv, OutputInv, OutputOK
  <2> QED BY <1>1, <1>2, <2>1, <2>3, <2>4, Advance
<1>3. CASE ~conn[w].open /\ Fail(worker[w].cmd) /\ BecomeIdle(w)
  <2>1. Busy(w) /\ Drop(w, {})
      BY <1>1, <1>3, NothingToDrop DEF Busy
  <2> QED BY <1>1, <1>3, <2>1, DropGivesUp
<1> QED BY <1>2, <1>3 DEF Report

LEMMA SendCall ==
    ASSUME TypeOK, CallInv, NEW w \in Workers, Send(w)
    PROVE  CallInv'
<1> DEFINE c == worker[w].cmd
           next == [worker[w] EXCEPT !.pc = "read", !.noisy = FALSE]
           todo == Append(conn[w].todo, c)
           link == [conn[w] EXCEPT !.todo = todo]
<1>1. worker[w].pc = "send" /\ conn[w].open /\ UNCHANGED <<runs, queue>>
    BY DEF Send, CallInv, OutputInv, OutputOK
<1>2. CASE /\ conn' = [conn EXCEPT ![w].todo = todo]
           /\ worker' = [worker EXCEPT ![w] = [@ EXCEPT !.pc = "read", !.noisy = FALSE]]
           /\ UNCHANGED <<state, from, orphans>>
  <2>1. next.pc = "read" /\ next.cmd = c /\ next.ref = worker[w].ref
      BY DEF TypeOK, WorkerState, WorkerFields
  <2>2. link.open = conn[w].open /\ link.output = conn[w].output /\ link.todo = todo
      BY DEF TypeOK, Connection
  <2>3. worker' = [worker EXCEPT ![w] = next] /\ conn' = [conn EXCEPT ![w] = link]
      BY <1>2
  <2> HIDE DEF next, link
  <2>4. worker'[w] = next /\ conn'[w] = link /\ OnlyWorker(w)
      BY <2>3, WorkerBecomes, ConnBecomes DEF OnlyWorker
  <2> QED BY <1>1, <1>2, <2>1, <2>2, <2>4, Sent
<1>3. CASE Fail(c) /\ BecomeIdle(w) /\ \E sent \in {{}, {c}} : Drop(w, sent)
  <2>1. Busy(w) /\ NotSent(w)
      BY <1>1 DEF Busy, NotSent
  <2>2. PICK sent \in {{}, {c}} : Drop(w, sent)
      BY <1>3
  <2>3. sent \in SUBSET {c}
      BY <2>2
  <2> QED BY <1>1, <1>3, <2>1, <2>2, <2>3, DropGivesUp
<1> QED BY <1>2, <1>3 DEF Send

LEMMA ReadCall ==
    ASSUME TypeOK, CallInv, NEW w \in Workers, Read(w)
    PROVE  CallInv'
<1> DEFINE c == worker[w].cmd
           link == conn[w]
           chunk == Head(link.output)
           waiting == [worker[w] EXCEPT !.pc = "wait"]
           noisy == [worker[w] EXCEPT !.noisy = TRUE]
           rest == [link EXCEPT !.output = Tail(link.output),
                                !.stderr = link.stderr \/ chunk.err]
           after == [link EXCEPT !.output = Tail(link.output), !.stderr = TRUE]
<1>1. worker[w].pc = "read" /\ link.open /\ Busy(w) /\ UNCHANGED <<runs, queue>>
    BY DEF Read, CallInv, OutputInv, OutputOK, Busy
<1>2. link \in Connection /\ worker[w] \in WorkerFields
    BY DEF TypeOK, WorkerState
<1>3. CASE link.output # <<>> /\ chunk.out /\ Answer(c, chunk.call)
           /\ BecomeIdle(w) /\ Drop(w, {})
  <2>1. worker'[w] = IdleWorker /\ conn'[w] = NoConnection /\ OnlyWorker(w)
      BY <1>3, WorkerBecomes, ConnBecomes DEF BecomeIdle, Drop, OnlyWorker
  <2>2. worker'[w].pc = "idle" /\ orphans' = orphans \cup Pending(w)
      BY <1>3, <2>1 DEF IdleWorker, Drop
  <2> QED BY <1>1, <1>3, <2>1, <2>2, Answered
<1>4. CASE /\ link.output # <<>> /\ chunk.out /\ Answer(c, chunk.call)
           /\ Goto(w, "wait") /\ UNCHANGED orphans /\ conn' = [conn EXCEPT ![w] = rest]
  <2>1. worker' = [worker EXCEPT ![w] = waiting] /\ waiting.pc = "wait" /\ waiting.ref = worker[w].ref
      BY <1>2, <1>4 DEF Goto, WorkerFields
  <2>2. rest.open /\ rest.todo = link.todo /\ rest.output = Tail(link.output)
      BY <1>1, <1>2 DEF Connection
  <2>3. conn' = [conn EXCEPT ![w] = rest]
      BY <1>4
  <2> HIDE DEF waiting, rest
  <2>4. worker'[w] = waiting /\ conn'[w] = rest /\ OnlyWorker(w)
      BY <2>1, <2>3, WorkerBecomes, ConnBecomes DEF OnlyWorker
  <2> QED BY <1>1, <1>4, <2>1, <2>2, <2>4, Answered
<1>5. CASE /\ link.output # <<>> /\ ~chunk.out /\ UNCHANGED <<state, from, orphans>>
           /\ worker' = [worker EXCEPT ![w].noisy = TRUE] /\ conn' = [conn EXCEPT ![w] = after]
  <2>1. worker' = [worker EXCEPT ![w] = noisy] /\ noisy.pc = "read" /\ noisy.cmd = c
        /\ noisy.ref = worker[w].ref
      BY <1>1, <1>2, <1>5 DEF WorkerFields
  <2>2. after.open = link.open /\ after.todo = link.todo /\ after.output = Tail(link.output)
      BY <1>2 DEF Connection
  <2>3. conn' = [conn EXCEPT ![w] = after]
      BY <1>5
  <2> HIDE DEF noisy, after
  <2>4. worker'[w] = noisy /\ conn'[w] = after /\ OnlyWorker(w)
      BY <2>1, <2>3, WorkerBecomes, ConnBecomes DEF OnlyWorker
  <2> QED BY <1>1, <1>5, <2>1, <2>2, <2>4, Noise
<1>6. CASE GiveUp(w, c)
    BY <1>1, <1>6, DropGivesUp DEF GiveUp
<1> QED BY <1>3, <1>4, <1>5, <1>6 DEF Read

LEMMA TakeCall ==
    ASSUME TypeOK, CallInv, NEW w \in Workers, Take(w)
    PROVE  CallInv'
<1> DEFINE next == StartWork(Head(queue))
<1>1. /\ worker[w].pc = "idle" /\ queue # <<>> /\ worker' = [worker EXCEPT ![w] = next]
      /\ queue' = Tail(queue) /\ UNCHANGED <<state, from, runs, conn, orphans>>
    BY DEF Take, callVars
<1>2. next.pc = "lookup" /\ next.cmd = Head(queue)
    BY DEF StartWork, IdleWorker
<1> HIDE DEF next
<1>3. worker'[w] = next /\ OnlyWorker(w)
    BY <1>1, WorkerBecomes DEF OnlyWorker
<1>4. ~Busy(w) /\ ~conn[w].open
    BY <1>1 DEF Busy, CallInv, OutputInv, OutputOK
<1>5. conn'[w] = NoConnection /\ orphans' = orphans \cup Pending(w)
    BY <1>1, <1>4, NothingToDrop DEF Drop
<1> QED BY <1>1, <1>2, <1>3, <1>4, <1>5, Received

LEMMA ReceiveCall ==
    ASSUME TypeOK, CallInv, NEW w \in Workers, Receive(w)
    PROVE  CallInv'
<1> DEFINE c == Head(queue)
           again == [worker[w] EXCEPT !.pc = "send", !.cmd = c]
           back == PassBack(c)
<1>1. /\ worker[w].pc = "wait" /\ ~Busy(w) /\ conn[w].open /\ queue # <<>> /\ queue' = Tail(queue)
      /\ UNCHANGED <<state, from, runs>>
    BY DEF Receive, callVars, Busy, CallInv, OutputInv, OutputOK
<1>2. worker[w] \in WorkerFields
    BY DEF TypeOK, WorkerState
<1>3. CASE /\ SameProvider(worker[w], c)
           /\ worker' = [worker EXCEPT ![w] = [@ EXCEPT !.pc = "send", !.cmd = c]]
           /\ UNCHANGED <<conn, orphans>>
  <2>1. /\ worker' = [worker EXCEPT ![w] = again] /\ again.pc = "send" /\ again.cmd = c
        /\ again.ref = worker[w].ref /\ worker[w].ref = RefOf[c]
      BY <1>2, <1>3 DEF WorkerFields, SameProvider
  <2> HIDE DEF again
  <2>2. worker'[w] = again /\ OnlyWorker(w)
      BY <1>3, <2>1, WorkerBecomes DEF OnlyWorker
  <2> QED BY <1>1, <1>3, <2>1, <2>2, Received
<1>4. CASE worker' = [worker EXCEPT ![w] = back] /\ Drop(w, {})
  <2>1. back.pc = "lookup" /\ back.cmd = c
      BY DEF PassBack, StartWork, IdleWorker
  <2>2. worker' = [worker EXCEPT ![w] = back]
      BY <1>4
  <2> HIDE DEF back
  <2>3. worker'[w] = back /\ orphans' = orphans \cup Pending(w) /\ conn'[w] = NoConnection /\ OnlyWorker(w)
      BY <1>1, <1>4, <2>2, WorkerBecomes, ConnBecomes, DropWithoutCall DEF OnlyWorker, Drop
  <2> QED BY <1>1, <2>1, <2>3, Received
<1>5. CASE UNCHANGED <<worker, conn, orphans>>
    BY <1>1, <1>5, CallLost
<1> QED BY <1>3, <1>4, <1>5 DEF Receive

LEMMA KeepAliveCall ==
    ASSUME TypeOK, CallInv, NEW w \in Workers, KeepAlive(w)
    PROVE  CallInv'
<1>1. /\ worker[w].pc = "wait" /\ BecomeIdle(w) /\ Drop(w, {})
      /\ UNCHANGED <<state, from, runs, queue>>
    BY DEF KeepAlive, callVars
<1>2. worker'[w] = IdleWorker /\ orphans' = orphans \cup Pending(w) /\ conn'[w] = NoConnection /\ OnlyWorker(w)
    BY <1>1, WorkerBecomes, ConnBecomes, DropWithoutCall DEF OnlyWorker, BecomeIdle, Drop
<1>3. ~Busy(w) /\ worker'[w].pc = "idle"
    BY <1>1, <1>2 DEF Busy, IdleWorker
<1> QED BY <1>1, <1>2, <1>3, Dropped

LEMMA FinishCall ==
    ASSUME TypeOK, CallInv, NEW w \in Workers, Finish(w)
    PROVE  CallInv'
<1>1. UNCHANGED <<state, from, runs, queue>>
    BY DEF Finish, callVars
<1>2. CASE /\ worker[w].pc = "idle" /\ worker' = [worker EXCEPT ![w] = Finished]
           /\ UNCHANGED <<conn, orphans>>
  <2>1. worker'[w] = Finished /\ OnlyWorker(w)
      BY <1>2, WorkerBecomes DEF OnlyWorker
  <2>2. Finished.pc = "done"
      BY DEF Finished, IdleWorker
  <2>3. ~Busy(w) /\ ~conn[w].open
      BY <1>2 DEF Busy, CallInv, OutputInv, OutputOK
  <2>4. conn'[w] = NoConnection /\ orphans' = orphans \cup Pending(w)
      BY <1>2, <2>3, NothingToDrop DEF Drop
  <2> QED BY <1>1, <1>2, <2>1, <2>2, <2>3, <2>4, Dropped
<1>3. CASE worker[w].pc = "wait" /\ BecomeIdle(w) /\ Drop(w, {})
  <2>1. worker'[w] = IdleWorker /\ orphans' = orphans \cup Pending(w) /\ conn'[w] = NoConnection /\ OnlyWorker(w)
      BY <1>3, WorkerBecomes, ConnBecomes, DropWithoutCall DEF OnlyWorker, BecomeIdle, Drop
  <2>2. ~Busy(w) /\ worker'[w].pc = "idle"
      BY <1>3, <2>1 DEF Busy, IdleWorker
  <2> QED BY <1>1, <2>1, <2>2, Dropped
<1>4. CASE UNCHANGED <<worker, conn, orphans>>
    BY <1>1, <1>4, Untouched
<1> QED BY <1>2, <1>3, <1>4 DEF Finish

(* Every step keeps calls, commands and output in their places.            *)
LEMMA CallStep ==
    TypeOK /\ CallInv /\ [Next]_vars => CallInv'
<1> SUFFICES ASSUME TypeOK, CallInv, [Next]_vars PROVE CallInv'
    OBVIOUS
<1>1. ASSUME NEW c \in Calls, Ask(c) \/ RunOrphan(c) PROVE CallInv'
    BY <1>1, Asked, OrphanRan
<1>2. ASSUME NEW w \in Workers, WorkerStep(w) PROVE CallInv'
    BY <1>2, TakeCall, LookupCall, ConnectCall, ReportCall, SendCall, ReadCall,
       KeepAliveCall, ReceiveCall, FinishCall DEF WorkerStep
<1>3. ASSUME NEW w \in Workers, HostRuns(w) PROVE CallInv'
    BY <1>3, Ran
<1>4. ASSUME NEW r \in Refs, Edit(r) \/ DeleteProvider(r) \/ StoreProvider(r) PROVE CallInv'
  <2>1. UNCHANGED <<state, from, runs, queue, worker, conn, orphans>>
      BY <1>4 DEF Edit, DeleteProvider, StoreProvider, callVars
  <2> QED BY <2>1, Untouched
<1>5. CASE Stop \/ MapRace \/ UNCHANGED vars
  <2>1. UNCHANGED <<state, from, runs, queue, worker, conn, orphans>>
      BY <1>5 DEF Stop, MapRace, vars, callVars
  <2> QED BY <2>1, Untouched
<1> QED BY <1>1, <1>2, <1>3, <1>4, <1>5 DEF Next

LEMMA CallInit == Init => CallInv
<1> SUFFICES ASSUME Init PROVE CallInv
    OBVIOUS
<1>1. /\ \A c \in Calls : state[c] = "new" /\ runs[c] = 0
      /\ queue = <<>> /\ Len(queue) = 0 /\ orphans = {}
      /\ \A w \in Workers : worker[w] = IdleWorker /\ conn[w] = NoConnection
    BY DEF Init
<1>2. \A w \in Workers : /\ worker[w].pc = "idle" /\ conn[w].todo = <<>> /\ Len(conn[w].todo) = 0
                         /\ conn[w].output = <<>> /\ Len(conn[w].output) = 0
    BY <1>1 DEF IdleWorker, NoConnection
<1>3. QueueInv /\ BusyInv
    BY <1>1, <1>2 DEF QueueInv, BusyInv, Busy
<1>4. UnsentInv /\ TodoInv
    BY <1>1, <1>2 DEF UnsentInv, Fresh, TodoInv, Pending
<1>5. OutputInv
  <2> SUFFICES ASSUME NEW w \in Workers PROVE OutputOK(w)
      BY DEF OutputInv
  <2>1. conn[w] = NoConnection
      BY <1>1
  <2>2. ~conn[w].open
      BY <2>1 DEF NoConnection
  <2> QED BY <1>2, <2>1, <2>2 DEF OutputOK
<1>6. ApartInv /\ AnswerInv /\ RunsAtMostOnce
  <2>1. \A c \in Calls : from[c] = NoCall
      BY DEF Init
  <2> QED BY <1>1, <1>2, <2>1 DEF ApartInv, AnswerInv, RunsAtMostOnce
<1> QED BY <1>3, <1>4, <1>5, <1>6 DEF CallInv

CallsInv == TypeOK /\ CallInv

LEMMA CallsInvariant == Spec => []CallsInv
<1>1. Init => CallsInv
    BY InitType, CallInit DEF CallsInv
<1>2. CallsInv /\ [Next]_vars => CallsInv'
    BY NextType, CallStep DEF CallsInv
<1> QED BY <1>1, <1>2, PTL DEF Spec

(* Whatever hosts, connections and workers do, no script runs twice for    *)
(* one call: doWinrmWork passes a call back only before it was sent, and a *)
(* failure after that ends it.                                             *)
THEOREM RunsOnce == Spec => []RunsAtMostOnce
<1>1. CallsInv => RunsAtMostOnce
    BY DEF CallsInv, CallInv
<1> QED BY <1>1, CallsInvariant, PTL

-----------------------------------------------------------------------------
(* The workers implement RemoteCalls.                                      *)

(* What a step does to the callers and the scripts.                        *)
Asks(c) ==
    state[c] = "new" /\ state' = [state EXCEPT ![c] = "asked"] /\ UNCHANGED <<from, runs>>
Succeeds(c, d) ==
    /\ state[c] = "asked" /\ runs[d] > 0
    /\ d = c \/ (state[d] = "ok" /\ RefOf[d] = RefOf[c])
    /\ Further[d] > 0 \/ \A e \in Calls : from[e] # d
    /\ state' = [state EXCEPT ![c] = "ok"] /\ from' = [from EXCEPT ![c] = d] /\ UNCHANGED runs
Fails(c) ==
    state[c] = "asked" /\ state' = [state EXCEPT ![c] = "failed"] /\ UNCHANGED <<from, runs>>
RunsFirst(c) ==
    /\ state[c] # "new" /\ runs[c] = 0
    /\ runs' = [runs EXCEPT ![c] = 1] /\ UNCHANGED <<state, from>>

LEMMA BusyAsked ==
    ASSUME CallsInv, NEW w \in Workers, Busy(w)
    PROVE  worker[w].cmd \in Calls /\ state[worker[w].cmd] = "asked"
BY DEF CallsInv, CallInv, BusyInv

LEMMA Replies ==
    ASSUME CallsInv, NEW w \in Workers, WorkerStep(w)
    PROVE  \/ UNCHANGED <<state, from, runs>>
           \/ \E c \in Calls : Fails(c) \/ \E d \in Calls : Succeeds(c, d)
<1> DEFINE c == worker[w].cmd
<1>1. UNCHANGED runs
    BY DEF WorkerStep, Take, Lookup, Connect, Report, Send, Read, KeepAlive, Receive, Finish,
           callVars
<1>2. CASE Take(w) \/ Connect(w) \/ KeepAlive(w) \/ Receive(w) \/ Finish(w)
    BY <1>1, <1>2 DEF Take, Connect, KeepAlive, Receive, Finish, callVars
<1>3. ASSUME Fail(c), Busy(w) PROVE \E d \in Calls : Fails(d)
    BY <1>1, <1>3, BusyAsked DEF Fails, Fail
<1>4. CASE Lookup(w)
    BY <1>1, <1>3, <1>4 DEF Lookup, Busy
<1>5. CASE Report(w)
    BY <1>1, <1>3, <1>5 DEF Report, Busy
<1>6. CASE Send(w)
    BY <1>1, <1>3, <1>6 DEF Send, Busy
<1>7. CASE Read(w)
  <2>1. Busy(w) /\ c \in Calls /\ state[c] = "asked"
      BY <1>7, BusyAsked DEF Read, Busy
  <2>2. ASSUME conn[w].output # <<>>, Head(conn[w].output).out,
               Answer(c, Head(conn[w].output).call)
        PROVE  \E d \in Calls : Succeeds(c, d)
    <3> DEFINE d == conn[w].output[1].call
    <3>1. Head(conn[w].output) = conn[w].output[1] /\ 1 \in 1..Len(conn[w].output)
        BY <2>2, AfterRead DEF CallsInv
    <3>2. d \in Calls
        BY <3>1, ChunkCall DEF CallsInv
    <3>3. Readable(w, d) /\ worker[w].ref = RefOf[c]
        BY <1>7, <2>2, <3>1 DEF Read, CallsInv, CallInv, OutputInv, OutputOK
    <3>4. Answer(c, d)
        BY <2>2, <3>1
    <3> HIDE DEF d
    <3>5. Succeeds(c, d)
        BY <1>1, <2>1, <3>3, <3>4 DEF Succeeds, Answer, Readable, Sends
    <3> QED BY <3>2, <3>5
  <2> QED BY <1>1, <1>3, <1>7, <2>1, <2>2 DEF Read, GiveUp
<1> QED BY <1>2, <1>4, <1>5, <1>6, <1>7 DEF WorkerStep

LEMMA CallMoves ==
    ASSUME CallsInv, [Next]_vars
    PROVE  \/ UNCHANGED <<state, from, runs>>
           \/ \E c \in Calls : Asks(c) \/ Fails(c) \/ RunsFirst(c) \/ \E d \in Calls : Succeeds(c, d)
<1> USE DEF callVars
<1>1. ASSUME NEW c \in Calls, Ask(c) PROVE Asks(c)
    BY <1>1 DEF Ask, Asks
<1>2. ASSUME NEW c \in Calls, RunOrphan(c) PROVE RunsFirst(c)
  <2>1. state[c] # "new" /\ runs[c] = 0
      BY <1>2 DEF RunOrphan, CallsInv, CallInv, TodoInv, UnsentInv, Unsent, Fresh
  <2> QED BY <1>2, <2>1 DEF RunOrphan, RunsFirst
<1>3. ASSUME NEW w \in Workers, HostRuns(w) PROVE \E c \in Calls : RunsFirst(c)
  <2> DEFINE c == Head(conn[w].todo)
  <2>1. /\ conn[w].todo # <<>> /\ runs' = [runs EXCEPT ![c] = runs[c] + 1]
        /\ UNCHANGED <<state, from>>
      BY <1>3 DEF HostRuns
  <2>2. conn[w].todo \in Seq(Calls)
      BY PendingType DEF CallsInv
  <2>3. c \in Pending(w) /\ c \in Calls
      BY <2>1, <2>2 DEF Pending
  <2> HIDE DEF c
  <2>4. Sends(w, c) /\ runs[c] = 0
      BY <2>3 DEF CallsInv, CallInv, TodoInv
  <2>5. state[c] # "new"
      BY <2>4, BusyAsked DEF Sends, Busy
  <2>6. runs' = [runs EXCEPT ![c] = 1]
      BY <2>1, <2>4
  <2> QED BY <2>1, <2>3, <2>4, <2>5, <2>6 DEF RunsFirst
<1>4. ASSUME NEW r \in Refs, Edit(r) \/ DeleteProvider(r) \/ StoreProvider(r)
      PROVE  UNCHANGED <<state, from, runs>>
    BY <1>4 DEF Edit, DeleteProvider, StoreProvider
<1>5. CASE Stop \/ MapRace \/ UNCHANGED vars
    BY <1>5 DEF Stop, MapRace, vars
<1> QED BY <1>1, <1>2, <1>3, <1>4, <1>5, Replies DEF Next

LEMMA CallsStep ==
    ASSUME CallsInv, [Next]_vars
    PROVE  [RemoteCallsOf!Next]_(RemoteCallsOf!vars)
<1> DEFINE ran == {c \in Calls : runs[c] > 0}
           loose == {c \in Calls : Further[c] > 0}
<1>1. runs \in [Calls -> Nat]
    BY DEF CallsInv, TypeOK
<1>2. ASSUME UNCHANGED <<state, from, runs>> PROVE UNCHANGED RemoteCallsOf!vars
    BY <1>2 DEF RemoteCallsOf!vars
<1>3. ASSUME NEW c \in Calls, Asks(c) PROVE RemoteCallsOf!Ask(c)
    BY <1>3 DEF RemoteCallsOf!Ask, Asks
<1>4. ASSUME NEW c \in Calls, NEW d \in Calls, Succeeds(c, d) PROVE RemoteCallsOf!Succeed(c)
  <2>1. d \in ran /\ ran' = ran /\ RemoteCallsOf!Unread(d)
      BY <1>4 DEF Succeeds, RemoteCallsOf!Unread
  <2> QED BY <1>4, <2>1 DEF RemoteCallsOf!Succeed, Succeeds
<1>5. ASSUME NEW c \in Calls, Fails(c) PROVE RemoteCallsOf!Fail(c)
    BY <1>5 DEF RemoteCallsOf!Fail, Fails
<1>6. ASSUME NEW c \in Calls, RunsFirst(c) PROVE RemoteCallsOf!Run(c)
  <2>1. runs'[c] = 1 /\ \A d \in Calls : d # c => runs'[d] = runs[d]
      BY <1>1, <1>6 DEF RunsFirst
  <2>2. ran' = ran \cup {c} /\ c \notin ran
      BY <1>6, <2>1 DEF RunsFirst
  <2> QED BY <1>6, <2>2 DEF RemoteCallsOf!Run, RunsFirst
<1> QED BY <1>2, <1>3, <1>4, <1>5, <1>6, CallMoves DEF RemoteCallsOf!Next

(* Seen by the reconcilers, the workers are RemoteCalls, however many      *)
(* pieces the scripts print: output is read once, never by a call to       *)
(* another provider, and never that of a call that failed, because         *)
(* doWinrmWork drops a connection with an answer that is late; what a      *)
(* script prints after its first piece, the next call on the connection    *)
(* may get (the loop over ReadOutput).                                     *)
THEOREM KeepsPromise == Spec => CallsSpec
<1>1. Init => RemoteCallsOf!Init
    BY DEF Init, RemoteCallsOf!Init
<1>2. CallsInv /\ [Next]_vars => [RemoteCallsOf!Next]_(RemoteCallsOf!vars)
    BY CallsStep
<1> QED BY <1>1, <1>2, CallsInvariant, PTL DEF Spec, CallsSpec, RemoteCallsOf!Spec

(* Whose output a call gets from doWinrmWork, whose connections carry no    *)
(* call ids and outlive calls: that of a script which ran for a call to the *)
(* same provider that succeeded, never of one that was given up; and its    *)
(* own where every script for that provider prints one piece.  It need not  *)
(* be its own after RemoveDiskFromVM with its two documents, or after JSON  *)
(* over several lines.                                                      *)
THEOREM OwnAnswers ==
    Spec => [](\A c \in Calls : state[c] = "ok" =>
                 /\ from[c] \in Calls /\ RefOf[from[c]] = RefOf[c]
                 /\ state[from[c]] = "ok" /\ runs[from[c]] > 0
                 /\ OnePiece(RefOf[c]) => from[c] = c)
<1>1. CallsInv => \A c \in Calls : state[c] = "ok" =>
                    /\ from[c] \in Calls /\ RefOf[from[c]] = RefOf[c]
                    /\ state[from[c]] = "ok" /\ runs[from[c]] > 0
                    /\ OnePiece(RefOf[c]) => from[c] = c
    BY DEF CallsInv, CallInv, AnswerInv, TypeOK
<1> QED BY <1>1, CallsInvariant, PTL

-----------------------------------------------------------------------------
(* Calls go to their own provider, in a version that is recent enough.     *)

(* The versions of a provider only grow.                                   *)
NewerProviders == \A r \in Refs : api'[r].version \in Nat /\ api'[r].version >= api[r].version

LEMMA VersionsAreNumbers ==
    ASSUME TypeOK
    PROVE  /\ \A r \in Refs : api[r].version \in Nat /\ providers[r] \in Nat
           /\ \A c \in Calls : RefOf[c] \in Refs /\ since[c] \in Nat
BY ConstantsAssumption DEF TypeOK, Provider, Versions

LEMMA PostIsNewer ==
    ASSUME TypeOK, NEW r \in Refs, NEW status, Post(r, status)
    PROVE  NewerProviders
<1>1. CASE UNCHANGED api
    BY <1>1, VersionsAreNumbers DEF NewerProviders
<1>2. CASE api' = [api EXCEPT ![r].health = status, ![r].version = @ + 1, ![r].event = TRUE]
  <2>1. api'[r].version = api[r].version + 1
      BY <1>2 DEF TypeOK, Provider
  <2>2. \A q \in Refs : q # r => api'[q] = api[q]
      BY <1>2 DEF TypeOK
  <2> QED BY <2>1, <2>2, VersionsAreNumbers DEF NewerProviders
<1> QED BY <1>1, <1>2 DEF Post

LEMMA EditIsNewer ==
    ASSUME TypeOK, NEW r \in Refs, Edit(r)
    PROVE  NewerProviders
<1>1. api'[r].version = api[r].version + 1 /\ \A q \in Refs : q # r => api'[q] = api[q]
    BY DEF Edit, TypeOK
<1> QED BY <1>1, VersionsAreNumbers DEF NewerProviders

LEMMA DeleteIsNewer ==
    ASSUME TypeOK, NEW r \in Refs, DeleteProvider(r)
    PROVE  NewerProviders
<1>1. \A q \in Refs : q # r => api'[q] = api[q]
    BY DEF DeleteProvider, TypeOK
<1>2. CASE api' = [api EXCEPT ![r].phase = "gone", ![r].event = TRUE]
  <2>1. api'[r].version = api[r].version
      BY <1>2 DEF TypeOK, Provider
  <2> QED BY <1>1, <2>1, VersionsAreNumbers DEF NewerProviders
<1>3. CASE api' = [api EXCEPT ![r].phase = "deleting", ![r].version = @ + 1, ![r].event = TRUE]
  <2>1. api'[r].version = api[r].version + 1
      BY <1>3 DEF TypeOK, Provider
  <2> QED BY <1>1, <2>1, VersionsAreNumbers DEF NewerProviders
<1> QED BY <1>2, <1>3 DEF DeleteProvider

(* Only the reconciler of ScvmmProviders writes the map.                   *)
LEMMA SameMap ==
    ASSUME TypeOK, VersionInv, NewerProviders, UNCHANGED <<providers, since>>
    PROVE  VersionInv'
<1>1. \A r \in Refs : providers'[r] <= api'[r].version
    BY VersionsAreNumbers DEF VersionInv, NewerProviders
<1>2. \A c \in Calls : since'[c] <= api'[RefOf[c]].version
    BY VersionsAreNumbers DEF VersionInv, NewerProviders
<1> QED BY <1>1, <1>2 DEF VersionInv

LEMMA AskVersion ==
    ASSUME TypeOK, VersionInv, NEW c \in Calls, Ask(c)
    PROVE  VersionInv'
<1>1. UNCHANGED <<api, providers>>
    BY DEF Ask
<1>2. since'[c] = providers[RefOf[c]] /\ \A d \in Calls : d # c => since'[d] = since[d]
    BY DEF Ask, TypeOK
<1> QED BY <1>1, <1>2, VersionsAreNumbers DEF VersionInv

LEMMA StoreVersion ==
    ASSUME TypeOK, VersionInv, NEW r \in Refs, StoreProvider(r)
    PROVE  VersionInv'
<1>1. UNCHANGED since
    BY DEF StoreProvider, callVars
<1>2. \A q \in Refs : api'[q].version = api[q].version
    BY DEF StoreProvider, TypeOK, Provider
<1>3. providers'[r] \in {0, api[r].version} /\ \A q \in Refs : q # r => providers'[q] = providers[q]
    BY DEF StoreProvider, TypeOK
<1> QED BY <1>1, <1>2, <1>3, VersionsAreNumbers DEF VersionInv

LEMMA VersionStep ==
    ASSUME TypeOK, VersionInv, [Next]_vars
    PROVE  VersionInv'
<1> USE DEF callVars
<1>1. UNCHANGED api => NewerProviders
    BY VersionsAreNumbers DEF NewerProviders
<1>2. ASSUME NEW c \in Calls, Ask(c) \/ RunOrphan(c) PROVE VersionInv'
    BY <1>1, <1>2, AskVersion, SameMap DEF RunOrphan
<1>3. ASSUME NEW w \in Workers, WorkerStep(w) PROVE VersionInv'
  <2>1. UNCHANGED <<providers, since>>
      BY <1>3 DEF WorkerStep, Take, Lookup, Connect, Report, Send, Read, KeepAlive, Receive, Finish
  <2>2. CASE Report(w)
    <3>1. worker[w].ref \in Refs
        BY <2>2 DEF Report, TypeOK, WorkerState
    <3> QED BY <2>1, <2>2, <3>1, PostIsNewer, SameMap DEF Report
  <2>3. CASE ~Report(w)
    <3>1. UNCHANGED api
        BY <1>3, <2>3 DEF WorkerStep, Take, Lookup, Connect, Send, Read, KeepAlive, Receive, Finish
    <3> QED BY <1>1, <2>1, <3>1, SameMap
  <2> QED BY <2>2, <2>3
<1>4. ASSUME NEW w \in Workers, HostRuns(w) PROVE VersionInv'
    BY <1>1, <1>4, SameMap DEF HostRuns
<1>5. ASSUME NEW r \in Refs, Edit(r) \/ DeleteProvider(r) PROVE VersionInv'
  <2>1. UNCHANGED <<providers, since>>
      BY <1>5 DEF Edit, DeleteProvider
  <2> QED BY <1>5, <2>1, EditIsNewer, DeleteIsNewer, SameMap
<1>6. CASE Stop \/ MapRace \/ UNCHANGED vars
  <2>1. UNCHANGED <<api, providers, since>>
      BY <1>6 DEF Stop, MapRace, vars
  <2> QED BY <1>1, <2>1, SameMap
<1> QED BY <1>2, <1>3, <1>4, <1>5, <1>6, StoreVersion DEF Next

-----------------------------------------------------------------------------
(* Where a worker is with the provider of its call, and with its hosts.    *)

PlaceOK(w) == ReferenceOK(w) /\ TriedOK(w)
PlaceInv == \A w \in Workers : PlaceOK(w)

LEMMA FarFromSending ==
    ASSUME NEW w \in Workers, worker'[w].pc \notin {"connect", "report", "send"}
    PROVE  PlaceOK(w)'
BY DEF PlaceOK, ReferenceOK, TriedOK

LEMMA OtherPlaces ==
    ASSUME PlaceInv, NEW w \in Workers, OnlyWorker(w), UNCHANGED since, PlaceOK(w)'
    PROVE  PlaceInv'
<1> SUFFICES ASSUME NEW x \in Workers, x # w PROVE PlaceOK(x)'
    BY DEF PlaceInv
<1>1. PlaceOK(x) /\ worker'[x] = worker[x] /\ conn'[x] = conn[x] /\ since' = since
    BY DEF PlaceInv, OnlyWorker
<1> QED BY <1>1 DEF PlaceOK, ReferenceOK, TriedOK

(* Nothing has been tried at first, and every attempt adds its host.       *)
LEMMA NothingTried == ASSUME NEW first PROVE HostsTried(first, 0) = {}
BY DEF HostsTried

LEMMA OneMoreTried ==
    ASSUME NEW first, NEW tried \in Nat
    PROVE  HostsTried(first, tried + 1) = HostsTried(first, tried) \cup {HostInTurn(first, tried)}
<1>1. 0..((tried + 1) - 1) = 0..(tried - 1) \cup {tried}
    OBVIOUS
<1> QED BY <1>1 DEF HostsTried

(* As many attempts as there are hosts reach them all, from any first one. *)
LEMMA AllTried ==
    ASSUME NEW first \in HostIds PROVE HostsTried(first, Hosts) = HostIds
<1>1. Hosts \in Nat \ {0} /\ first \in Nat /\ first >= 1 /\ first <= Hosts
    BY BoundsAssumption DEF HostIds
<1>2. ASSUME NEW h \in HostIds PROVE h \in HostsTried(first, Hosts)
  <2>1. h \in Nat /\ h - 1 \in 0..(Hosts - 1)
      BY <1>1 DEF HostIds
  <2>2. CASE h >= first
    <3>1. h - first \in 0..(Hosts - 1) /\ first - 1 + (h - first) = h - 1
        BY <1>1, <2>1, <2>2
    <3>2. (h - 1) % Hosts = h - 1
        BY <1>1, <2>1, SMT
    <3>3. HostInTurn(first, h - first) = h
        BY <1>1, <2>1, <3>1, <3>2 DEF HostInTurn
    <3> QED BY <3>1, <3>3 DEF HostsTried
  <2>3. CASE h < first
    <3> DEFINE k == (h - first) + Hosts
    <3>1. k \in 0..(Hosts - 1) /\ first - 1 + k = (h - 1) + Hosts
        BY <1>1, <2>1, <2>3
    <3>2. ((h - 1) + Hosts) % Hosts = h - 1
        BY <1>1, <2>1, SMT
    <3>3. HostInTurn(first, k) = h
        BY <1>1, <2>1, <3>1, <3>2 DEF HostInTurn
    <3> HIDE DEF k
    <3> QED BY <3>1, <3>3 DEF HostsTried
  <2> QED BY <1>1, <2>1, <2>2, <2>3
<1>3. ASSUME NEW k \in 0..(Hosts - 1) PROVE HostInTurn(first, k) \in HostIds
  <2>1. first - 1 + k \in Nat
      BY <1>1, <1>3
  <2>2. (first - 1 + k) % Hosts \in 0..(Hosts - 1)
      BY <1>1, <2>1, SMT
  <2> QED BY <1>1, <2>2 DEF HostInTurn, HostIds
<1> QED BY <1>2, <1>3 DEF HostsTried

LEMMA LookupPlace ==
    ASSUME TypeOK, VersionInv, NEW w \in Workers, Lookup(w)
    PROVE  PlaceOK(w)'
<1> DEFINE c == worker[w].cmd
           r == RefOf[c]
           v == providers[r]
           first == FirstHealthy(health[r][v])
           next == [worker[w] EXCEPT !.pc = "connect", !.ref = r, !.version = v, !.first = first]
<1>1. c \in Calls /\ r \in Refs /\ worker[w].tried = 0 /\ worker[w].failed = {} /\ since' = since
    BY ConstantsAssumption DEF Lookup, TypeOK, WorkerState
<1>2. CASE BecomeIdle(w)
  <2>1. worker'[w] = IdleWorker
      BY <1>2, WorkerBecomes DEF BecomeIdle
  <2>2. worker'[w].pc = "idle"
      BY <2>1 DEF IdleWorker
  <2> QED BY <2>2, FarFromSending
<1>3. CASE v # 0 /\ worker' = [worker EXCEPT ![w] = next]
  <2>1. worker[w] \in WorkerFields
      BY DEF TypeOK, WorkerState
  <2>2. /\ next.pc = "connect" /\ next.ref = r /\ next.version = v /\ next.first = first
        /\ next.cmd = c /\ next.tried = 0 /\ next.failed = {}
      BY <1>1, <2>1 DEF WorkerFields
  <2>3. since[c] <= v
      BY <1>1, <1>3 DEF VersionInv
  <2> HIDE DEF next, first, v, r
  <2>4. worker'[w] = next
      BY <1>3, WorkerBecomes
  <2>5. ReferenceOK(w)'
      BY <1>1, <2>2, <2>3, <2>4 DEF ReferenceOK, r
  <2>6. TriedOK(w)'
      BY <2>2, <2>4, NothingTried DEF TriedOK
  <2> QED BY <2>5, <2>6 DEF PlaceOK
<1> QED BY <1>2, <1>3 DEF Lookup

LEMMA ConnectPlace ==
    ASSUME TypeOK, PlaceInv, NEW w \in Workers, Connect(w)
    PROVE  PlaceOK(w)'
<1> DEFINE me == worker[w]
           host == HostInTurn(me.first, me.tried)
           next == [me EXCEPT !.tried = me.tried + 1, !.failed = me.failed \cup {host},
                              !.pc = IF me.tried + 1 = Hosts THEN "report" ELSE "connect"]
           done == [me EXCEPT !.pc = "report"]
<1>1. me.pc = "connect" /\ since' = since /\ PlaceOK(w)
    BY DEF Connect, callVars, PlaceInv
<1>2. me \in WorkerFields /\ me.tried \in Nat
    BY DEF TypeOK, WorkerState, WorkerFields
<1>3. CASE conn' = [conn EXCEPT ![w] = NewConnection] /\ Goto(w, "report")
  <2>1. worker' = [worker EXCEPT ![w] = done]
      BY <1>3 DEF Goto
  <2>2. /\ done.ref = me.ref /\ done.version = me.version /\ done.first = me.first
        /\ done.cmd = me.cmd /\ done.tried = me.tried /\ done.failed = me.failed
      BY <1>2 DEF WorkerFields
  <2>3. conn'[w] = NewConnection
      BY <1>3, ConnBecomes
  <2>4. conn'[w].open
      BY <2>3 DEF NewConnection, NoConnection
  <2> HIDE DEF done
  <2>5. worker'[w] = done
      BY <2>1, WorkerBecomes
  <2> QED BY <1>1, <2>2, <2>4, <2>5 DEF PlaceOK, ReferenceOK, TriedOK
<1>4. CASE worker' = [worker EXCEPT ![w] = next] /\ UNCHANGED conn
  <2>1. /\ next.ref = me.ref /\ next.version = me.version /\ next.first = me.first
        /\ next.cmd = me.cmd /\ next.tried = me.tried + 1 /\ next.failed = me.failed \cup {host}
        /\ next.pc = "report" => me.tried + 1 = Hosts
      BY <1>2 DEF WorkerFields
  <2> HIDE DEF next
  <2>2. worker'[w] = next
      BY <1>4, WorkerBecomes
  <2>3. ReferenceOK(w)'
      BY <1>1, <2>1, <2>2 DEF PlaceOK, ReferenceOK
  <2>4. me.failed = HostsTried(me.first, me.tried)
      BY <1>1 DEF PlaceOK, TriedOK
  <2>5. next.failed = HostsTried(next.first, next.tried)
      BY <1>2, <2>1, <2>4, OneMoreTried
  <2>6. TriedOK(w)'
      BY <2>1, <2>2, <2>5 DEF TriedOK
  <2> QED BY <2>3, <2>6 DEF PlaceOK
<1> QED BY <1>3, <1>4 DEF Connect

LEMMA ReportPlace ==
    ASSUME TypeOK, PlaceInv, NEW w \in Workers, Report(w)
    PROVE  PlaceOK(w)'
<1> DEFINE next == [worker[w] EXCEPT !.pc = "send"]
<1>1. worker[w].pc = "report" /\ since' = since /\ ReferenceOK(w)
    BY DEF Report, PlaceInv, PlaceOK
<1>2. CASE BecomeIdle(w)
  <2>1. worker'[w] = IdleWorker
      BY <1>2, WorkerBecomes DEF BecomeIdle
  <2>2. worker'[w].pc = "idle"
      BY <2>1 DEF IdleWorker
  <2> QED BY <2>2, FarFromSending
<1>3. CASE Goto(w, "send")
  <2>1. /\ next.pc = "send" /\ next.ref = worker[w].ref /\ next.cmd = worker[w].cmd
        /\ next.version = worker[w].version
      BY DEF TypeOK, WorkerState, WorkerFields
  <2>2. worker' = [worker EXCEPT ![w] = next]
      BY <1>3 DEF Goto
  <2> HIDE DEF next
  <2>3. worker'[w] = next
      BY <2>2, WorkerBecomes
  <2> QED BY <1>1, <2>1, <2>3 DEF PlaceOK, ReferenceOK, TriedOK
<1> QED BY <1>2, <1>3 DEF Report

LEMMA ReceivePlace ==
    ASSUME TypeOK, VersionInv, PlaceInv, NEW w \in Workers, Receive(w)
    PROVE  PlaceOK(w)'
<1> DEFINE c == Head(queue)
           me == worker[w]
           next == [me EXCEPT !.pc = "send", !.cmd = c]
<1>1. me.pc = "wait" /\ since' = since /\ c \in Calls
    BY DEF Receive, callVars, TypeOK
<1>2. CASE UNCHANGED worker
    BY <1>1, <1>2, FarFromSending
<1>3. CASE worker' = [worker EXCEPT ![w] = PassBack(c)]
  <2>1. worker'[w] = PassBack(c)
      BY <1>3, WorkerBecomes
  <2>2. worker'[w].pc = "lookup"
      BY <2>1 DEF PassBack, StartWork, IdleWorker
  <2> QED BY <2>2, FarFromSending
<1>4. CASE /\ ~Dereferences(me) /\ SameProvider(me, c)
           /\ worker' = [worker EXCEPT ![w] = next]
  <2>1. /\ next.pc = "send" /\ next.ref = me.ref /\ next.cmd = c /\ next.version = me.version
      BY DEF TypeOK, WorkerState, WorkerFields
  <2>2. me.ref = RefOf[c] /\ me.version = providers[RefOf[c]] /\ providers[RefOf[c]] # 0
      BY <1>4 DEF SameProvider, Dereferences
  <2>3. since[c] <= me.version
      BY <1>1, <2>2 DEF VersionInv
  <2> HIDE DEF next
  <2>4. worker'[w] = next
      BY <1>4, WorkerBecomes
  <2> QED BY <1>1, <2>1, <2>2, <2>3, <2>4 DEF PlaceOK, ReferenceOK, TriedOK
<1> QED BY <1>2, <1>3, <1>4 DEF Receive

(* A worker far from sending after its step, or not moved at all.          *)
LEMMA OtherPlace ==
    ASSUME TypeOK, NEW w \in Workers,
           Take(w) \/ Send(w) \/ Read(w) \/ KeepAlive(w) \/ Finish(w)
    PROVE  PlaceOK(w)'
<1>1. CASE BecomeIdle(w)
  <2>1. worker'[w] = IdleWorker
      BY <1>1, WorkerBecomes DEF BecomeIdle
  <2>2. worker'[w].pc = "idle"
      BY <2>1 DEF IdleWorker
  <2> QED BY <2>2, FarFromSending
<1>2. CASE Take(w)
  <2>1. worker'[w] = StartWork(Head(queue))
      BY <1>2, WorkerBecomes DEF Take
  <2>2. worker'[w].pc = "lookup"
      BY <2>1 DEF StartWork, IdleWorker
  <2> QED BY <2>2, FarFromSending
<1>3. CASE Send(w) /\ ~BecomeIdle(w)
  <2> DEFINE next == [worker[w] EXCEPT !.pc = "read", !.noisy = FALSE]
  <2>1. worker' = [worker EXCEPT ![w] = next]
      BY <1>3 DEF Send
  <2>2. next.pc = "read"
      BY DEF TypeOK, WorkerState, WorkerFields
  <2> HIDE DEF next
  <2>3. worker'[w] = next
      BY <2>1, WorkerBecomes
  <2> QED BY <2>2, <2>3, FarFromSending
<1>4. CASE Read(w) /\ ~BecomeIdle(w)
  <2>1. worker'[w].pc \in {"read", "wait"}
      BY <1>4 DEF Read, GiveUp, Goto, TypeOK, WorkerState, WorkerFields
  <2> QED BY <2>1, FarFromSending
<1>5. CASE KeepAlive(w)
    BY <1>1, <1>5 DEF KeepAlive
<1>6. CASE Finish(w) /\ ~BecomeIdle(w)
  <2>1. worker'[w] = Finished \/ worker'[w].pc = "wait"
      BY <1>6, WorkerBecomes DEF Finish
  <2>2. worker'[w].pc \in {"done", "wait"}
      BY <2>1 DEF Finished, IdleWorker
  <2> QED BY <2>2, FarFromSending
<1> QED BY <1>1, <1>2, <1>3, <1>4, <1>5, <1>6

LEMMA OneWorkerMoves ==
    ASSUME TypeOK, NEW w \in Workers, WorkerStep(w)
    PROVE  OnlyWorker(w)
<1>1. \A x \in Workers : x # w => worker'[x] = worker[x]
    BY DEF TypeOK, WorkerStep, Take, Lookup, Connect, Report, Send, Read, KeepAlive, Receive,
           Finish, Goto, BecomeIdle, GiveUp
<1>2. \A x \in Workers : x # w => conn'[x] = conn[x]
    BY DEF TypeOK, WorkerStep, Take, Lookup, Connect, Report, Send, Read, KeepAlive, Receive,
           Finish, Drop, GiveUp
<1> QED BY <1>1, <1>2 DEF OnlyWorker

LEMMA PlaceStep ==
    ASSUME TypeOK, CallInv, VersionInv, PlaceInv, [Next]_vars
    PROVE  PlaceInv'
<1> USE DEF callVars
<1>1. ASSUME NEW c \in Calls, Ask(c) PROVE PlaceInv'
  <2>1. UNCHANGED <<worker, conn>> /\ \A d \in Calls : d # c => since'[d] = since[d]
      BY <1>1 DEF Ask, TypeOK
  <2>2. \A w \in Workers : Busy(w) => worker[w].cmd \in Calls /\ worker[w].cmd # c
      BY <1>1 DEF Ask, CallInv, BusyInv
  <2> QED BY <2>1, <2>2 DEF PlaceInv, PlaceOK, ReferenceOK, TriedOK, Busy
<1>2. ASSUME NEW w \in Workers, WorkerStep(w) PROVE PlaceInv'
  <2>1. PlaceOK(w)'
      BY <1>2, LookupPlace, ConnectPlace, ReportPlace, ReceivePlace, OtherPlace DEF WorkerStep
  <2>2. UNCHANGED since
      BY <1>2 DEF WorkerStep, Take, Lookup, Connect, Report, Send, Read, KeepAlive, Receive, Finish
  <2> QED BY <1>2, <2>1, <2>2, OneWorkerMoves, OtherPlaces
<1>3. ASSUME NEW w \in Workers, HostRuns(w) PROVE PlaceInv'
  <2>1. UNCHANGED <<worker, since>> /\ \A x \in Workers : conn'[x].open = conn[x].open
      BY <1>3 DEF HostRuns, TypeOK, Connection
  <2> QED BY <2>1 DEF PlaceInv, PlaceOK, ReferenceOK, TriedOK
<1>4. CASE UNCHANGED <<worker, conn, since>>
    BY <1>4 DEF PlaceInv, PlaceOK, ReferenceOK, TriedOK
<1>5. ASSUME NEW r \in Refs, Edit(r) \/ DeleteProvider(r) \/ StoreProvider(r) PROVE PlaceInv'
    BY <1>4, <1>5 DEF Edit, DeleteProvider, StoreProvider
<1>6. CASE Stop \/ MapRace \/ UNCHANGED vars \/ \E c \in Calls : RunOrphan(c)
    BY <1>4, <1>6 DEF Stop, MapRace, vars, RunOrphan
<1> QED BY <1>1, <1>2, <1>3, <1>5, <1>6 DEF Next

LEMMA WorkersInvariant == Spec => []WorkersInv
<1>1. Init => VersionInv /\ PlaceInv
  <2> SUFFICES ASSUME Init PROVE VersionInv /\ PlaceInv
      OBVIOUS
  <2>1. /\ \A r \in Refs : api[r].version = 1 /\ providers[r] \in {0, 1}
        /\ \A c \in Calls : since[c] = 0 /\ RefOf[c] \in Refs
      BY ConstantsAssumption DEF Init
  <2>2. VersionInv
      BY <2>1 DEF VersionInv
  <2>3. \A w \in Workers : worker[w].pc = "idle"
      BY DEF Init, IdleWorker
  <2> QED BY <2>2, <2>3 DEF PlaceInv, PlaceOK, ReferenceOK, TriedOK
<1>2. CallsInv /\ VersionInv /\ PlaceInv /\ [Next]_vars => VersionInv' /\ PlaceInv'
    BY VersionStep, PlaceStep DEF CallsInv
<1>3. CallsInv /\ VersionInv /\ PlaceInv => WorkersInv
    BY DEF CallsInv, PlaceInv, PlaceOK, WorkersInv, ReferenceInv, TriedInv
<1> QED BY <1>1, <1>2, <1>3, CallsInvariant, PTL DEF Spec

(* However long a connection has been kept, a call that is sent on it is   *)
(* for its provider, in a version at least as new as the one in the map    *)
(* when the call was made (the mismatch check of doWinrmWork).             *)
THEOREM OwnProviders == Spec => []OwnProvider
<1>1. WorkersInv => OwnProvider
    BY DEF WorkersInv, CallInv, OutputInv, OutputOK, ReferenceInv, ReferenceOK, OwnProvider
<1> QED BY <1>1, WorkersInvariant, PTL

(* A worker that gives up has tried every host of the provider, wherever   *)
(* it started (the loop over the hosts in doWinrmWork).                    *)
THEOREM AllHosts == Spec => []EveryHostTried
<1>1. WorkersInv => EveryHostTried
  <2> SUFFICES ASSUME WorkersInv, NEW w \in Workers, worker[w].pc = "report", ~conn[w].open
               PROVE  worker[w].failed = HostIds
      BY DEF EveryHostTried
  <2>1. worker[w].failed = HostsTried(worker[w].first, Hosts)
      BY DEF WorkersInv, TriedInv, TriedOK
  <2>2. worker[w].first \in HostIds
      BY DEF WorkersInv, TypeOK, WorkerState, WorkerFields
  <2> QED BY <2>1, <2>2, AllTried
<1> QED BY <1>1, WorkersInvariant, PTL

=============================================================================
