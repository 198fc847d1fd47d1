---------------------------- MODULE RouterProofs ----------------------------
(* Theorems about the router: its tasks and results (Router), for any      *)
(* number of handlers, tasks and results, and its models (ModelIndex), for *)
(* any sets of users, names, ids and engines.                              *)
EXTENDS Router, ModelIndex, TLAPS

-----------------------------------------------------------------------------
(* Commands and requests at work                                           *)

Place == {"negotiate", "deploy", "terminate", "wait", "sleep", "status", "data", "succeed",
          "fail", "cancel"}
Busy == Place \ {"negotiate"}

\* A command has a task for as long as it is about one, and only a blocking
\* CPSTART waits.
CmdInv ==
  /\ cmd.pc = "negotiate" => taskid = 0 /\ current < MaxTasks
  /\ cmd.pc \in Busy => taskid # 0
  /\ taskid # 0 => current # 0
  /\ cmd.pc \in {"wait", "sleep"} => cmd.kind = "block"
  /\ cmd.pc \in {"status", "data"} => cmd.kind # "nonblock"
BaseInv == TypeOK /\ CmdInv

LEMMA RestingPc == Resting.pc = "idle" /\ "idle" \notin Place
BY DEF Resting, Place

LEMMA CmdRunning ==
  ASSUME TypeOK, cmd.pc # "idle"
  PROVE  cmd \in Running
BY RestingPc DEF TypeOK

LEMMA GoType ==
  ASSUME cmd \in Running, NEW p \in Place, Go(p)
  PROVE  /\ cmd' \in Running /\ cmd'.pc = p
         /\ cmd'.kind = cmd.kind /\ cmd'.read = cmd.read
BY DEF Running, Go, Place

LEMMA BeginType ==
  ASSUME NEW p \in Place, NEW kind \in Kind,
         cmd' = [pc |-> p, kind |-> kind, read |-> Empty]
  PROVE  cmd' \in Running /\ cmd'.pc = p /\ cmd'.kind = kind
BY DEF Running, Place, Value

LEMMA DoneType ==
  ASSUME Done
  PROVE  cmd' = Resting /\ cmd'.pc = "idle"
BY RestingPc DEF Done

\* A handler moves on with its request.
LEMMA HandlerMoves ==
  ASSUME TypeOK, NEW h \in Handler, http[h].pc # "idle", NEW p \in {"write", "status", "notify"},
         http' = [http EXCEPT ![h].pc = p]
  PROVE  /\ http[h] \in Incoming
         /\ http' \in [Handler -> {Resting} \cup Incoming]
         /\ http'[h].pc = p /\ http'[h].task = http[h].task /\ http'[h].empty = http[h].empty
         /\ \A k \in Handler : k # h => http'[k] = http[k]
<1>1. http[h] \in Incoming
  BY RestingPc DEF TypeOK
<1>2. http' = [http EXCEPT ![h] = [http[h] EXCEPT !.pc = p]]
  OBVIOUS
<1>3. /\ [http[h] EXCEPT !.pc = p] \in Incoming
      /\ [http[h] EXCEPT !.pc = p].pc = p
      /\ [http[h] EXCEPT !.pc = p].task = http[h].task
      /\ [http[h] EXCEPT !.pc = p].empty = http[h].empty
  BY <1>1 DEF Incoming
<1> QED BY <1>1, <1>2, <1>3 DEF TypeOK

LEMMA HandlerRests ==
  ASSUME TypeOK, NEW h \in Handler, http' = [http EXCEPT ![h] = Resting]
  PROVE  /\ http' \in [Handler -> {Resting} \cup Incoming]
         /\ http'[h].pc = "idle"
         /\ \A k \in Handler : k # h => http'[k] = http[k]
BY RestingPc DEF TypeOK

LEMMA HandlerTakes ==
  ASSUME TypeOK, NEW h \in Handler, NEW g \in Task, NEW empty \in BOOLEAN,
         http' = [http EXCEPT ![h] = [pc |-> "write", task |-> g, empty |-> empty]]
  PROVE  /\ http' \in [Handler -> {Resting} \cup Incoming]
         /\ http'[h].pc = "write" /\ http'[h].task = g /\ http'[h].empty = empty
         /\ \A k \in Handler : k # h => http'[k] = http[k]
BY DEF TypeOK, Incoming

-----------------------------------------------------------------------------
(* Types                                                                   *)

LEMMA ValueFacts ==
  /\ Empty \in Value /\ Torn \in Value /\ Task \subseteq Value
  /\ \A g \in Task : g \in Nat /\ g # Empty
  /\ \A n \in Nat : n # 0 /\ n <= MaxTasks => n \in Task
BY RouterAssumption DEF Empty, Torn, Value, Task

\* Every step keeps the types and CmdInv.
LEMMA BaseStep ==
  ASSUME BaseInv, [Next]_vars
  PROVE  BaseInv'
<1> USE RestingPc
<1>0. TypeOK /\ CmdInv
  BY DEF BaseInv
\* Steps of the command that leave all else alone.
<1>a. ASSUME cmd' \in {Resting} \cup Running, UNCHANGED <<http, current, last>>,
             taskid' \in TaskId \cup {0}, status' \in BOOLEAN, data' \in Value,
             deployed' \subseteq Task, sent' \in [Task -> Nat],
             abandoned' \in BOOLEAN, raced' \in BOOLEAN
      PROVE  TypeOK'
  BY <1>0, <1>a DEF TypeOK
<1>1. ASSUME NEW kind \in Kind, CPSTART(kind)
      PROVE  BaseInv'
  <2>1. cmd' \in Running /\ cmd'.pc = "negotiate"
    BY <1>1, BeginType DEF CPSTART, Place
  <2>2. UNCHANGED <<taskid, status, data, http, deployed, sent, current, last, abandoned, raced>>
    BY <1>1 DEF CPSTART, fields, remote
  <2>3. TypeOK'
    BY <1>0, <1>a, <2>1, <2>2 DEF TypeOK
  <2>4. CmdInv'
    BY <1>0, <1>1, <2>1, <2>2 DEF CPSTART, CmdInv, Busy
  <2> QED BY <2>3, <2>4 DEF BaseInv
<1>2. ASSUME CPVAL \/ CPMOD
      PROVE  BaseInv'
  <2>1. cmd' \in Running /\ cmd'.pc \in {"status", "cancel"} /\ cmd'.kind = "val"
    BY <1>2, BeginType DEF CPVAL, CPMOD, Place, Kind
  <2>2. /\ UNCHANGED <<taskid, status, data, http, deployed, sent, current, last, abandoned, raced>>
        /\ taskid # 0
    BY <1>2 DEF CPVAL, CPMOD, fields, remote
  <2>3. TypeOK'
    BY <1>0, <1>a, <2>1, <2>2 DEF TypeOK
  <2>4. CmdInv'
    BY <1>0, <2>1, <2>2 DEF CmdInv
  <2> QED BY <2>3, <2>4 DEF BaseInv
\* The command ends and leaves its task as it is.
<1>3. ASSUME NegotiationFailed \/ FailedTerminated
      PROVE  BaseInv'
  <2>1. cmd' = Resting /\ cmd'.pc = "idle"
    BY <1>3, DoneType DEF NegotiationFailed, FailedTerminated
  <2>2. UNCHANGED <<taskid, status, data, http, deployed, sent, current, last, abandoned, raced>>
    BY <1>3 DEF NegotiationFailed, FailedTerminated, fields, remote
  <2>3. TypeOK'
    BY <1>0, <1>a, <2>1, <2>2 DEF TypeOK
  <2>4. CmdInv'
    BY <1>0, <2>1, <2>2 DEF CmdInv, Busy
  <2> QED BY <2>3, <2>4 DEF BaseInv
<1>4. ASSUME NEW id \in TaskId, Negotiated(id)
      PROVE  BaseInv'
  <2>1. cmd \in Running
    BY <1>0, <1>4, CmdRunning DEF Negotiated
  <2>2. cmd' \in Running /\ cmd'.pc = "deploy"
    BY <1>4, <2>1, GoType DEF Negotiated, Place
  <2>3. /\ taskid' = id /\ status' = TRUE /\ data' = Empty /\ current' = current + 1
        /\ UNCHANGED <<http, deployed, sent, last, abandoned, raced>>
    BY <1>4 DEF Negotiated, set, remote
  <2>4. id # 0 /\ current \in Nat /\ current < MaxTasks
    BY <1>0, <1>4, RouterAssumption DEF Negotiated, CmdInv, TypeOK, Task
  <2>5. current' \in Task
    BY <2>3, <2>4, RouterAssumption DEF Task
  <2>6. TypeOK'
    BY <1>0, <2>2, <2>3, <2>5, ValueFacts DEF TypeOK
  <2>7. CmdInv'
    BY <2>2, <2>3, <2>4, <2>5, ValueFacts DEF CmdInv, Empty
  <2> QED BY <2>6, <2>7 DEF BaseInv
<1>5. ASSUME cmd.pc = "deploy"
      PROVE  current \in Task
  BY <1>0, <1>5 DEF TypeOK, CmdInv, Busy, Place
<1>6. ASSUME TakenOn
      PROVE  BaseInv'
  <2>1. /\ UNCHANGED <<taskid, status, data, cmd, http, sent, current, last, abandoned, raced>>
        /\ deployed' = deployed \cup {current} /\ current \in Task
    BY <1>5, <1>6 DEF TakenOn, fields
  <2>2. TypeOK'
    BY <1>0, <1>a, <2>1 DEF TypeOK
  <2>3. CmdInv'
    BY <1>0, <2>1 DEF CmdInv
  <2> QED BY <2>2, <2>3 DEF BaseInv
<1>7. ASSUME Deployed
      PROVE  BaseInv'
  <2>1. cmd \in Running /\ taskid # 0
    BY <1>0, <1>7, CmdRunning DEF Deployed, CmdInv, Busy, Place
  <2>2. UNCHANGED <<taskid, status, data, http, deployed, sent, current, last, abandoned, raced>>
    BY <1>7 DEF Deployed, fields, remote
  <2>3. \/ cmd' = Resting /\ cmd'.pc = "idle"
        \/ cmd' \in Running /\ cmd'.pc = "wait" /\ cmd'.kind = "block"
    BY <1>7, <2>1, GoType, DoneType DEF Deployed, Place
  <2>4. TypeOK'
    BY <1>0, <1>a, <2>2, <2>3 DEF TypeOK
  <2>5. CmdInv'
    BY <1>0, <2>1, <2>2, <2>3 DEF CmdInv, Busy
  <2> QED BY <2>4, <2>5 DEF BaseInv
<1>8. ASSUME DeployFailed
      PROVE  BaseInv'
  <2>1. cmd \in Running /\ taskid # 0
    BY <1>0, <1>8, CmdRunning DEF DeployFailed, CmdInv, Busy, Place
  <2>2. /\ UNCHANGED <<taskid, status, data, http, sent, current, last, raced>>
        /\ abandoned' = TRUE /\ deployed' \subseteq deployed \cup {current} /\ current \in Task
    BY <1>5, <1>8 DEF DeployFailed, fields
  <2>3. cmd' \in Running /\ cmd'.pc = "terminate"
    BY <1>8, <2>1, GoType DEF DeployFailed, Place
  <2>4. TypeOK'
    BY <1>0, <1>a, <2>2, <2>3 DEF TypeOK
  <2>5. CmdInv'
    BY <1>0, <2>1, <2>2, <2>3 DEF CmdInv
  <2> QED BY <2>4, <2>5 DEF BaseInv
<1>9. ASSUME Wait
      PROVE  BaseInv'
  <2>1. cmd \in Running /\ taskid # 0 /\ cmd.kind = "block"
    BY <1>0, <1>9, CmdRunning DEF Wait, CmdInv, Busy, Place
  <2>2. UNCHANGED <<taskid, status, data, http, deployed, sent, current, last, abandoned, raced>>
    BY <1>9 DEF Wait, fields, remote
  <2>3. cmd' \in Running /\ cmd'.pc \in {"status", "sleep"} /\ cmd'.kind = "block"
    BY <1>9, <2>1, GoType DEF Wait, Place
  <2>4. TypeOK'
    BY <1>0, <1>a, <2>2, <2>3 DEF TypeOK
  <2>5. CmdInv'
    BY <1>0, <2>1, <2>2, <2>3 DEF CmdInv
  <2> QED BY <2>4, <2>5 DEF BaseInv
<1>10. ASSUME GetStatus
       PROVE  BaseInv'
  <2>1. cmd \in Running /\ taskid # 0 /\ cmd.kind # "nonblock"
    BY <1>0, <1>10, CmdRunning DEF GetStatus, CmdInv, Busy, Place
  <2>2. UNCHANGED <<taskid, status, data, http, deployed, sent, current, last, abandoned, raced>>
    BY <1>10 DEF GetStatus, fields, remote
  <2>3. cmd' \in Running /\ cmd'.pc \in {"data", "fail"} /\ cmd'.kind = cmd.kind
    BY <1>10, <2>1, GoType DEF GetStatus, Place
  <2>4. TypeOK'
    BY <1>0, <1>a, <2>2, <2>3 DEF TypeOK
  <2>5. CmdInv'
    BY <1>0, <2>1, <2>2, <2>3 DEF CmdInv
  <2> QED BY <2>4, <2>5 DEF BaseInv
<1>11. ASSUME GetData
       PROVE  BaseInv'
  <2>1. cmd \in Running /\ taskid # 0
    BY <1>0, <1>11, CmdRunning DEF GetData, CmdInv, Busy, Place
  <2>2. /\ UNCHANGED <<taskid, status, data, http, deployed, sent, current, last, abandoned>>
        /\ raced' \in BOOLEAN
    BY <1>11 DEF GetData, fields, remote
  <2>3. cmd' = Resting \/ \E read \in Value : cmd' = [cmd EXCEPT !.pc = "succeed", !.read = read]
    BY <1>0, <1>11, ValueFacts DEF GetData, Done, TypeOK
  <2>4. cmd' = Resting \/ (cmd' \in Running /\ cmd'.pc = "succeed")
    BY <2>1, <2>3 DEF Running
  <2>5. TypeOK'
    BY <1>0, <1>a, <2>2, <2>4 DEF TypeOK
  <2>6. CmdInv'
    BY <1>0, <2>1, <2>2, <2>4 DEF CmdInv, Busy
  <2> QED BY <2>5, <2>6 DEF BaseInv
\* The command ends and its task with it.
<1>12. ASSUME Succeed \/ Fail \/ Cancelled
       PROVE  BaseInv'
  <2>1. current \in Task /\ cmd \in Running
    BY <1>0, <1>12, CmdRunning DEF Succeed, Fail, Cancelled, TypeOK, CmdInv, Busy, Place
  <2>2. cmd.read \in Value
    BY <2>1 DEF Running
  <2>3. /\ taskid' = 0 /\ status' = TRUE /\ data' = Empty
        /\ UNCHANGED <<http, deployed, sent, current, raced>>
    BY <1>12 DEF Succeed, Fail, Cancelled, remove, remote
  <2>4. cmd' = Resting /\ cmd'.pc = "idle"
    BY <1>12, DoneType DEF Succeed, Fail, Cancelled
  <2>5. abandoned' \in BOOLEAN
    BY <1>0, <1>12 DEF Succeed, Fail, Cancelled, TypeOK
  <2>6. last' \in {NoReply} \cup [code : {"ok", "fail"}, task : Task, data : Value]
    BY <1>0, <1>12, <2>1, <2>2, ValueFacts DEF Succeed, Fail, Cancelled, TypeOK
  <2>7. TypeOK'
    BY <1>0, <2>3, <2>4, <2>5, <2>6, ValueFacts DEF TypeOK
  <2>8. CmdInv'
    BY <2>3, <2>4 DEF CmdInv, Busy
  <2> QED BY <2>7, <2>8 DEF BaseInv
<1>13. ASSUME NEW h \in Handler, NEW g \in Task, NEW empty \in BOOLEAN, RecvResult(h, g, empty)
       PROVE  BaseInv'
  <2>1. UNCHANGED <<taskid, status, data, cmd, deployed, current, last, raced>>
    BY <1>13 DEF RecvResult, fields
  <2>2. http' \in [Handler -> {Resting} \cup Incoming]
    BY <1>0, <1>13, HandlerTakes DEF RecvResult, TypeOK
  <2>3. sent' \in [Task -> Nat]
    BY <1>0, <1>13 DEF RecvResult, TypeOK
  <2>4. abandoned' \in BOOLEAN
    BY <1>13 DEF RecvResult
  <2>5. TypeOK'
    BY <1>0, <2>1, <2>2, <2>3, <2>4 DEF TypeOK
  <2>6. CmdInv'
    BY <1>0, <2>1 DEF CmdInv
  <2> QED BY <2>5, <2>6 DEF BaseInv
<1>14. ASSUME NEW h \in Handler, HttpWrite(h)
       PROVE  BaseInv'
  <2>1. UNCHANGED <<taskid, status, cmd, deployed, sent, current, last, abandoned, raced>>
    BY <1>14 DEF HttpWrite, remote
  <2>2. http[h] \in Incoming /\ http' \in [Handler -> {Resting} \cup Incoming]
    BY <1>0, <1>14, HandlerMoves DEF HttpWrite
  <2>3. data' \in Value
    BY <1>14, <2>2, ValueFacts DEF HttpWrite, Incoming
  <2>4. TypeOK'
    BY <1>0, <2>1, <2>2, <2>3 DEF TypeOK
  <2>5. CmdInv'
    BY <1>0, <2>1 DEF CmdInv
  <2> QED BY <2>4, <2>5 DEF BaseInv
<1>15. ASSUME NEW h \in Handler, HttpStatus(h)
       PROVE  BaseInv'
  <2>1. UNCHANGED <<taskid, data, cmd, deployed, sent, current, last, abandoned, raced>>
    BY <1>15 DEF HttpStatus, remote
  <2>2. status' \in BOOLEAN /\ http' \in [Handler -> {Resting} \cup Incoming]
    BY <1>0, <1>15, HandlerMoves DEF HttpStatus
  <2>3. TypeOK'
    BY <1>0, <2>1, <2>2 DEF TypeOK
  <2>4. CmdInv'
    BY <1>0, <2>1 DEF CmdInv
  <2> QED BY <2>3, <2>4 DEF BaseInv
<1>16. ASSUME NEW h \in Handler, HttpNotify(h)
       PROVE  BaseInv'
  <2>1. UNCHANGED <<taskid, status, data, deployed, sent, current, last, abandoned, raced>>
    BY <1>16 DEF HttpNotify, fields, remote
  <2>2. http' \in [Handler -> {Resting} \cup Incoming]
    BY <1>0, <1>16, HandlerRests DEF HttpNotify
  <2>3. \/ cmd' = cmd
        \/ /\ cmd.pc = "sleep" /\ taskid # 0 /\ cmd.kind = "block"
           /\ cmd' \in Running /\ cmd'.pc = "wait" /\ cmd'.kind = "block"
    BY <1>0, <1>16, CmdRunning, GoType DEF HttpNotify, CmdInv, Busy, Place
  <2>4. TypeOK'
    BY <1>0, <2>1, <2>2, <2>3 DEF TypeOK
  <2>5. CmdInv'
    BY <1>0, <2>1, <2>3 DEF CmdInv
  <2> QED BY <2>4, <2>5 DEF BaseInv
<1>17. ASSUME UNCHANGED vars
       PROVE  BaseInv'
  BY <1>0, <1>17 DEF vars, BaseInv, TypeOK, CmdInv
<1> QED
  BY <1>1, <1>2, <1>3, <1>4, <1>6, <1>7, <1>8, <1>9, <1>10, <1>11, <1>12, <1>13, <1>14,
     <1>15, <1>16, <1>17
  DEF Next, Command, Http

LEMMA BaseInvariant == Spec => []BaseInv
<1>1. ASSUME Init
      PROVE  BaseInv
  <2>1. TypeOK
    BY <1>1, ValueFacts DEF Init, TypeOK
  <2>2. CmdInv
    BY <1>1, RestingPc DEF Init, CmdInv, Busy
  <2> QED BY <2>1, <2>2 DEF BaseInv
<1>2. BaseInv /\ [Next]_vars => BaseInv'
  BY BaseStep
<1> QED BY <1>1, <1>2, PTL DEF Spec

\* Every reachable state of the commands, the handlers and the task they
\* share is well typed.
THEOREM TypeCorrect == Spec => []TypeOK
<1>1. BaseInv => TypeOK
  BY DEF BaseInv
<1> QED BY <1>1, BaseInvariant, PTL

-----------------------------------------------------------------------------
(* Wake-ups                                                                *)

LEMMA SleeperStep ==
  ASSUME BaseInv, SleeperIsNotified, [Next]_vars
  PROVE  SleeperIsNotified'
<1> USE RestingPc
<1>0. TypeOK /\ CmdInv
  BY DEF BaseInv
<1>1. SUFFICES ASSUME cmd'.pc = "sleep", WaitOver'
               PROVE  \E h \in Handler : http'[h].pc \in {"status", "notify"}
  BY DEF SleeperIsNotified
\* Only Wait begins a sleep, and only on a result that is not there.
<1>2. ASSUME ~(\E h \in Handler, g \in Task, empty \in BOOLEAN : RecvResult(h, g, empty)),
             ~(\E h \in Handler : Http(h)), ~UNCHANGED vars
      PROVE  FALSE
  <2>1. ~(\E kind \in Kind : CPSTART(kind)) /\ ~CPVAL /\ ~CPMOD
    BY <1>1, BeginType DEF CPSTART, CPVAL, CPMOD, Kind, Place
  <2>2. ~NegotiationFailed /\ ~FailedTerminated /\ ~Succeed /\ ~Fail /\ ~Cancelled
    BY <1>1, DoneType DEF NegotiationFailed, FailedTerminated, Succeed, Fail, Cancelled
  <2>3. ~TakenOn
    BY <1>1 DEF TakenOn
  <2>4. ~(\E id \in TaskId : Negotiated(id))
    BY <1>0, <1>1, CmdRunning, GoType DEF Negotiated, Place
  <2>5. ~Deployed /\ ~DeployFailed
    BY <1>0, <1>1, CmdRunning, GoType, DoneType DEF Deployed, DeployFailed, Place
  <2>6. ~GetStatus
    BY <1>0, <1>1, CmdRunning, GoType DEF GetStatus, Place
  <2>7. ~GetData
    <3>1. SUFFICES ASSUME GetData PROVE FALSE
      OBVIOUS
    <3>2. cmd \in Running
      BY <1>0, <3>1, CmdRunning DEF GetData
    <3>3. cmd' = Resting \/ \E read : cmd' = [cmd EXCEPT !.pc = "succeed", !.read = read]
      BY <3>1 DEF GetData, Done
    <3> QED BY <1>1, <3>2, <3>3 DEF Running
  <2>8. ~Wait
    <3>1. SUFFICES ASSUME Wait PROVE FALSE
      OBVIOUS
    <3>2. cmd \in Running
      BY <1>0, <3>1, CmdRunning DEF Wait
    <3>3. WaitOver
      BY <1>1, <3>1 DEF Wait, WaitOver, fields
    <3>4. Go("status")
      BY <3>1, <3>3 DEF Wait
    <3> QED BY <1>1, <3>2, <3>4, GoType DEF Place
  <2> QED BY <1>2, <2>1, <2>2, <2>3, <2>4, <2>5, <2>6, <2>7, <2>8 DEF Next, Command
<1>3. ASSUME NEW h \in Handler, NEW g \in Task, NEW empty \in BOOLEAN, RecvResult(h, g, empty)
      PROVE  \E k \in Handler : http'[k].pc \in {"status", "notify"}
  <2>1. cmd.pc = "sleep" /\ WaitOver
    BY <1>1, <1>3 DEF RecvResult, WaitOver, fields
  <2>2. PICK k \in Handler : http[k].pc \in {"status", "notify"}
    BY <2>1 DEF SleeperIsNotified
  <2>3. k # h
    BY <1>3, <2>2 DEF RecvResult
  <2>4. http'[k] = http[k]
    BY <1>0, <1>3, <2>3, HandlerTakes DEF RecvResult
  <2> QED BY <2>2, <2>4
<1>4. ASSUME NEW h \in Handler, HttpWrite(h) \/ HttpStatus(h)
      PROVE  \E k \in Handler : http'[k].pc \in {"status", "notify"}
  <2>1. http'[h].pc \in {"status", "notify"}
    BY <1>0, <1>4, HandlerMoves DEF HttpWrite, HttpStatus
  <2> QED BY <2>1
<1>5. ASSUME NEW h \in Handler, HttpNotify(h)
      PROVE  FALSE
  <2>1. cmd.pc = "sleep" /\ Go("wait")
    BY <1>1, <1>5 DEF HttpNotify
  <2>2. cmd \in Running
    BY <1>0, <2>1, CmdRunning
  <2> QED BY <1>1, <2>1, <2>2, GoType DEF Place
<1>6. ASSUME UNCHANGED vars
      PROVE  \E h \in Handler : http'[h].pc \in {"status", "notify"}
  BY <1>1, <1>6 DEF vars, SleeperIsNotified, WaitOver
<1> QED BY <1>2, <1>3, <1>4, <1>5, <1>6 DEF Http

\* A blocking CPSTART never sleeps through its result: the data is stored
\* outside the lock and the status set under it, in two steps, yet while the
\* predicate of wait holds and the command sleeps, a handler that has still
\* to notify it is at work.
THEOREM SleeperCorrect == Spec => []SleeperIsNotified
<1>1. Init => SleeperIsNotified
  BY RestingPc DEF Init, SleeperIsNotified
<1>2. BaseInv /\ SleeperIsNotified /\ [Next]_vars => SleeperIsNotified'
  BY SleeperStep
<1> QED BY <1>1, <1>2, BaseInvariant, PTL DEF Spec

-----------------------------------------------------------------------------
(* Results                                                                 *)

Clean == ~abandoned /\ ~raced

\* Handlers that have a result of the task in hand and not stored all of it.
Filling == {h \in Handler : http[h].pc \in {"write", "status"}}

\* A result is in data, or is being stored there.
Awaited == data # Empty \/ \E h \in Handler : http[h].pc = "write" /\ ~http[h].empty

\* What the fields and the handlers hold is of the current task: every
\* earlier one has sent its only result, and this one at most one.
ResultsOfCurrent ==
  /\ \A g \in deployed : g <= current /\ (g < current \/ taskid = 0 => sent[g] > 0)
  /\ \A h \in Filling : /\ http[h].task = current /\ taskid # 0 /\ sent[current] > 0
                        /\ data = Empty /\ status = TRUE
  /\ \A h, k \in Filling : h = k
  /\ data \in {Empty, current}
  /\ data # Empty \/ status = FALSE => taskid # 0 /\ sent[current] > 0

\* A blocking command that is past its wait has a result to read.
ReadsResult ==
  /\ cmd.pc = "status" /\ cmd.kind = "block" => Awaited \/ status = FALSE
  /\ cmd.pc = "data" /\ cmd.kind = "block" => Awaited
  /\ cmd.pc = "succeed" => cmd.read = current /\ data = current
  /\ cmd.pc = "fail" => status = FALSE

ResultInv == Clean => ResultsOfCurrent /\ ReadsResult /\ ReplyMatches

LEMMA CleanStep ==
  ASSUME [Next]_vars, Clean'
  PROVE  Clean
<1>1. CASE UNCHANGED vars
  BY <1>1 DEF vars, Clean
<1>2. CASE Next
  <2>1. (\E kind \in Kind : CPSTART(kind)) \/ CPVAL \/ CPMOD => Clean
    BY DEF CPSTART, CPVAL, CPMOD, Clean
  <2>2. Command => Clean
    <3>1. GetData => abandoned' = abandoned /\ (raced' = (raced \/ Storing # {}))
      BY DEF GetData
    <3>2. GetData => Clean
      BY <3>1, Zenon DEF Clean
    <3>3. Command /\ ~GetData => Clean
      BY DEF Command, NegotiationFailed, TakenOn, Deployed, DeployFailed, FailedTerminated,
             Negotiated, Wait, GetStatus, Succeed, Fail, Cancelled, Clean
    <3> QED BY <3>2, <3>3
  <2>3. ASSUME NEW h \in Handler, NEW g \in Task, NEW empty \in BOOLEAN, RecvResult(h, g, empty)
        PROVE  Clean
    <3>1. (abandoned' = (abandoned \/ sent[g] > 0)) /\ raced' = raced
      BY <2>3 DEF RecvResult
    <3> QED BY <3>1, Zenon DEF Clean
  <2>4. (\E h \in Handler : Http(h)) => Clean
    BY DEF Http, HttpWrite, HttpStatus, HttpNotify, Clean
  <2> QED BY <1>2, <2>1, <2>2, <2>3, <2>4 DEF Next
<1> QED BY <1>1, <1>2

LEMMA SameResults ==
  ASSUME UNCHANGED <<taskid, status, data, http, deployed, sent, current>>, ResultsOfCurrent
  PROVE  ResultsOfCurrent' /\ Filling' = Filling /\ Awaited' = Awaited
BY DEF ResultsOfCurrent, Filling, Awaited

\* The command ends with its task: the result it had is the only one.
LEMMA TaskOver ==
  ASSUME BaseInv, ResultsOfCurrent, remove, UNCHANGED <<http, deployed, sent, current>>,
         current \in Task, data = current \/ status = FALSE
  PROVE  ResultsOfCurrent'
<1>1. data # Empty \/ status = FALSE
  BY ValueFacts
<1>2. Filling = {} /\ sent[current] > 0
  BY <1>1 DEF ResultsOfCurrent
<1>3. Filling' = {}
  BY <1>2 DEF Filling
<1>4. taskid' = 0 /\ status' = TRUE /\ data' = Empty
  BY DEF remove
<1>5. \A g \in deployed' : g <= current' /\ sent'[g] > 0
  <2>1. SUFFICES ASSUME NEW g \in deployed
                 PROVE  g <= current /\ sent[g] > 0
    OBVIOUS
  <2>2. g \in Nat /\ current \in Nat /\ g <= current
    BY <2>1, ValueFacts DEF BaseInv, TypeOK, ResultsOfCurrent
  <2> QED BY <1>2, <2>1, <2>2 DEF ResultsOfCurrent
<1> QED BY <1>3, <1>4, <1>5 DEF ResultsOfCurrent

LEMMA ResultStep ==
  ASSUME BaseInv, ResultInv, [Next]_vars
  PROVE  ResultInv'
<1> USE RestingPc
<1>0. TypeOK /\ CmdInv
  BY DEF BaseInv
<1>a. SUFFICES ASSUME Clean'
               PROVE  ResultsOfCurrent' /\ ReadsResult' /\ ReplyMatches'
  BY DEF ResultInv
<1>b. Clean /\ ResultsOfCurrent /\ ReadsResult /\ ReplyMatches
  BY <1>a, CleanStep DEF ResultInv
<1>c. ASSUME last' = last
      PROVE  ReplyMatches'
  BY <1>b, <1>c DEF ReplyMatches
<1>d. taskid # 0 => current \in Task /\ current \in Nat /\ current # Empty
  BY <1>0, ValueFacts DEF TypeOK, CmdInv
<1>e. ASSUME cmd'.pc \notin {"status", "data", "succeed", "fail"}
      PROVE  ReadsResult'
  BY <1>e DEF ReadsResult
\* Steps after which no result is looked at and nothing shared has changed.
<1>1. ASSUME \/ \E kind \in Kind : CPSTART(kind)
             \/ CPMOD \/ NegotiationFailed \/ FailedTerminated \/ Deployed
      PROVE  ResultsOfCurrent' /\ ReadsResult' /\ ReplyMatches'
  <2>1. UNCHANGED <<taskid, status, data, http, deployed, sent, current, last>>
    BY <1>1 DEF CPSTART, CPMOD, NegotiationFailed, FailedTerminated, Deployed, fields, remote
  <2>2. cmd'.pc \notin {"status", "data", "succeed", "fail"}
    <3>1. ASSUME \E kind \in Kind : CPSTART(kind)
          PROVE  cmd'.pc = "negotiate"
      BY <3>1, BeginType DEF CPSTART, Place
    <3>2. CPMOD => cmd'.pc = "cancel"
      BY BeginType DEF CPMOD, Place, Kind
    <3>3. NegotiationFailed \/ FailedTerminated => cmd'.pc = "idle"
      BY DoneType DEF NegotiationFailed, FailedTerminated
    <3>4. Deployed => cmd'.pc \in {"idle", "wait"}
      BY <1>0, DoneType, GoType, CmdRunning DEF Deployed, Place
    <3> QED BY <1>1, <3>1, <3>2, <3>3, <3>4
  <2> QED BY <1>b, <1>c, <1>e, <2>1, <2>2, SameResults
<1>2. ASSUME CPVAL
      PROVE  ResultsOfCurrent' /\ ReadsResult' /\ ReplyMatches'
  <2>1. UNCHANGED <<taskid, status, data, http, deployed, sent, current, last>>
    BY <1>2 DEF CPVAL, fields, remote
  <2>2. cmd'.pc = "status" /\ cmd'.kind = "val"
    BY <1>2, BeginType DEF CPVAL, Place, Kind
  <2>3. ReadsResult'
    BY <2>2 DEF ReadsResult
  <2> QED BY <1>b, <1>c, <2>1, <2>3, SameResults
\* A task begins: all that earlier ones sent has been taken in and removed.
<1>3. ASSUME NEW id \in TaskId, Negotiated(id)
      PROVE  ResultsOfCurrent' /\ ReadsResult' /\ ReplyMatches'
  <2>1. taskid = 0 /\ cmd \in Running
    BY <1>0, <1>3, CmdRunning DEF Negotiated, CmdInv
  <2>2. Filling = {} /\ current \in Nat /\ deployed \subseteq Task
    BY <1>0, <1>b, <2>1, ValueFacts DEF ResultsOfCurrent, TypeOK, Task
  <2>3. /\ status' = TRUE /\ data' = Empty /\ current' = current + 1
        /\ UNCHANGED <<http, deployed, sent, last>>
    BY <1>3 DEF Negotiated, set, remote
  <2>4. Filling' = {}
    BY <2>2, <2>3 DEF Filling
  <2>5. \A g \in deployed' : g <= current' /\ sent'[g] > 0
    <3>1. SUFFICES ASSUME NEW g \in deployed
                   PROVE  g <= current + 1 /\ sent[g] > 0
      BY <2>3
    <3>2. g \in Nat
      BY <2>2, ValueFacts
    <3> QED BY <1>b, <2>1, <2>2, <3>2 DEF ResultsOfCurrent
  <2>6. ResultsOfCurrent'
    BY <2>3, <2>4, <2>5 DEF ResultsOfCurrent
  <2>7. cmd'.pc = "deploy"
    BY <1>3, <2>1, GoType DEF Negotiated, Place
  <2> QED BY <1>c, <1>e, <2>3, <2>6, <2>7
<1>4. ASSUME TakenOn
      PROVE  ResultsOfCurrent' /\ ReadsResult' /\ ReplyMatches'
  <2>1. taskid # 0 /\ cmd.pc = "deploy"
    BY <1>0, <1>4 DEF TakenOn, CmdInv, Busy, Place
  <2>2. /\ UNCHANGED <<taskid, status, data, cmd, http, sent, current, last>>
        /\ deployed' = deployed \cup {current}
    BY <1>4 DEF TakenOn, fields
  <2>3. Filling' = Filling
    BY <2>2 DEF Filling
  <2>4. current \in Nat
    BY <1>d, <2>1
  <2>5. \A g \in deployed' : g <= current' /\ (g < current' \/ taskid' = 0 => sent'[g] > 0)
    BY <1>b, <2>1, <2>2, <2>4 DEF ResultsOfCurrent
  <2>6. ResultsOfCurrent'
    BY <1>b, <2>2, <2>3, <2>5 DEF ResultsOfCurrent
  <2> QED BY <1>c, <1>e, <2>1, <2>2, <2>6
<1>5. ASSUME DeployFailed \/ Cancelled
      PROVE  FALSE
  BY <1>a, <1>5 DEF DeployFailed, Cancelled, Clean
\* The predicate of wait held, or saw the length of a body being stored.
<1>6. ASSUME Wait
      PROVE  ResultsOfCurrent' /\ ReadsResult' /\ ReplyMatches'
  <2>1. taskid # 0 /\ cmd \in Running /\ cmd.kind = "block"
    BY <1>0, <1>6, CmdRunning DEF Wait, CmdInv, Busy, Place
  <2>2. UNCHANGED <<taskid, status, data, http, deployed, sent, current, last>>
    BY <1>6 DEF Wait, fields, remote
  <2>3. PICK early \in {FALSE, \E h \in Storing : ~http[h].empty} :
           Go(IF WaitOver \/ early THEN "status" ELSE "sleep")
    BY <1>6 DEF Wait
  <2>4. CASE WaitOver \/ early
    <3>1. cmd'.pc = "status"
      BY <2>1, <2>3, <2>4, GoType DEF Place
    <3>2. Awaited \/ status = FALSE
      BY <1>0, <2>1, <2>3, <2>4 DEF WaitOver, Awaited, Storing, TypeOK
    <3>3. ReadsResult'
      BY <1>b, <2>2, <3>1, <3>2, SameResults DEF ReadsResult
    <3> QED BY <1>b, <1>c, <2>2, <3>3, SameResults
  <2>5. CASE ~(WaitOver \/ early)
    <3>1. cmd'.pc = "sleep"
      BY <2>1, <2>3, <2>5, GoType DEF Place
    <3> QED BY <1>b, <1>c, <1>e, <2>2, <3>1, SameResults
  <2> QED BY <2>4, <2>5
<1>7. ASSUME GetStatus
      PROVE  ResultsOfCurrent' /\ ReadsResult' /\ ReplyMatches'
  <2>1. cmd \in Running /\ cmd.pc = "status"
    BY <1>0, <1>7, CmdRunning DEF GetStatus
  <2>2. UNCHANGED <<taskid, status, data, http, deployed, sent, current, last>>
    BY <1>7 DEF GetStatus, fields, remote
  <2>3. \/ status = TRUE /\ cmd'.pc = "data" /\ cmd'.kind = cmd.kind
        \/ status = FALSE /\ cmd'.pc = "fail"
    <3>1. CASE status = TRUE
      BY <1>7, <2>1, <3>1, GoType DEF GetStatus, Place
    <3>2. CASE status = FALSE
      BY <1>7, <2>1, <3>2, GoType DEF GetStatus, Place
    <3> QED BY <1>0, <3>1, <3>2 DEF TypeOK
  <2>4. ReadsResult'
    BY <1>b, <2>1, <2>2, <2>3, SameResults DEF ReadsResult
  <2> QED BY <1>b, <1>c, <2>2, <2>4, SameResults
\* The copy is made while no handler stores: what it yields is data.
<1>8. ASSUME GetData
      PROVE  ResultsOfCurrent' /\ ReadsResult' /\ ReplyMatches'
  <2>1. cmd \in Running /\ cmd.pc = "data" /\ cmd.kind # "nonblock"
    BY <1>0, <1>8, CmdRunning DEF GetData, CmdInv
  <2>2. UNCHANGED <<taskid, status, data, http, deployed, sent, current, last>>
    BY <1>8 DEF GetData, fields, remote
  <2>3. Storing = {}
    BY <1>8, <1>a DEF GetData, Clean
  <2>4. \/ cmd' = Resting
        \/ /\ ~(cmd.kind = "val" /\ data = Empty)
           /\ cmd' = [cmd EXCEPT !.pc = "succeed", !.read = data]
    BY <1>8, <2>3 DEF GetData, Done
  <2>5. CASE cmd' = Resting
    BY <1>b, <1>c, <1>e, <2>2, <2>5, SameResults
  <2>6. CASE /\ ~(cmd.kind = "val" /\ data = Empty)
             /\ cmd' = [cmd EXCEPT !.pc = "succeed", !.read = data]
    <3>1. cmd'.pc = "succeed" /\ cmd'.read = data
      BY <2>1, <2>6 DEF Running
    <3>2. cmd.kind \in {"block", "val"}
      BY <2>1 DEF Running, Kind
    <3>3. data # Empty
      BY <1>b, <2>1, <2>3, <2>6, <3>2 DEF ReadsResult, Awaited, Storing
    <3>4. data = current
      BY <1>b, <3>3 DEF ResultsOfCurrent
    <3>5. ReadsResult'
      BY <2>2, <3>1, <3>4 DEF ReadsResult
    <3> QED BY <1>b, <1>c, <2>2, <3>5, SameResults
  <2> QED BY <2>4, <2>5, <2>6
<1>9. ASSUME Succeed \/ Fail
      PROVE  ResultsOfCurrent' /\ ReadsResult' /\ ReplyMatches'
  <2>1. current \in Task
    BY <1>0, <1>9, <1>d DEF Succeed, Fail, CmdInv, Busy, Place
  <2>2. data = current \/ status = FALSE
    BY <1>9, <1>b DEF Succeed, Fail, ReadsResult
  <2>3. ResultsOfCurrent'
    BY <1>9, <1>b, <2>1, <2>2, TaskOver DEF Succeed, Fail, remote
  <2>4. cmd'.pc = "idle"
    BY <1>9, DoneType DEF Succeed, Fail
  <2>5. Succeed => last'.data = last'.task
    BY <1>b DEF Succeed, ReadsResult
  <2>6. Fail => last'.code = "fail"
    BY DEF Fail
  <2>7. ReplyMatches'
    BY <1>9, <2>5, <2>6 DEF ReplyMatches
  <2> QED BY <1>e, <2>3, <2>4, <2>7
\* The one result of the current task comes in.
<1>10. ASSUME NEW h \in Handler, NEW g \in Task, NEW empty \in BOOLEAN, RecvResult(h, g, empty)
       PROVE  ResultsOfCurrent' /\ ReadsResult' /\ ReplyMatches'
  <2>1. UNCHANGED <<taskid, status, data, cmd, deployed, current, last>>
    BY <1>10 DEF RecvResult, fields
  <2>2. g \in deployed /\ sent[g] = 0 /\ sent' = [sent EXCEPT ![g] = sent[g] + 1]
    <3>1. /\ g \in deployed /\ sent' = [sent EXCEPT ![g] = sent[g] + 1]
          /\ (abandoned' = (abandoned \/ sent[g] > 0))
      BY <1>10 DEF RecvResult
    <3>2. ~(sent[g] > 0)
      BY <1>a, <3>1, Zenon DEF Clean
    <3>3. sent[g] \in Nat
      BY <1>0 DEF TypeOK
    <3> QED BY <3>1, <3>2, <3>3
  <2>3. g = current /\ taskid # 0 /\ current \in Nat
    <3>1. g <= current /\ ~(g < current) /\ taskid # 0
      BY <1>b, <2>2 DEF ResultsOfCurrent
    <3>2. g \in Nat /\ current \in Nat
      BY <1>d, <3>1, ValueFacts
    <3> QED BY <3>1, <3>2
  <2>4. Filling = {} /\ data = Empty /\ status = TRUE
    BY <1>0, <1>b, <2>2, <2>3 DEF ResultsOfCurrent, TypeOK
  <2>5. http' = [http EXCEPT ![h] = [pc |-> "write", task |-> g, empty |-> empty]]
    BY <1>10, <2>3 DEF RecvResult
  <2>6. /\ http'[h].pc = "write" /\ http'[h].task = g
        /\ \A k \in Handler : k # h => http'[k] = http[k]
    BY <1>0, <2>5, HandlerTakes
  <2>7. Filling' = {h}
    BY <2>4, <2>6 DEF Filling
  <2>8. /\ sent'[current] > 0
        /\ \A t \in deployed : sent[t] > 0 => sent'[t] > 0
    BY <1>0, <2>2, <2>3 DEF TypeOK
  <2>9. ResultsOfCurrent'
    BY <1>b, <2>1, <2>3, <2>4, <2>6, <2>7, <2>8 DEF ResultsOfCurrent
  <2>10. ~Awaited
    BY <2>4 DEF Filling, Awaited
  <2>11. ReadsResult'
    BY <1>b, <2>1, <2>4, <2>10 DEF ReadsResult
  <2> QED BY <1>c, <2>1, <2>9, <2>11
\* Its only handler stores it: the store is not torn.
<1>11. ASSUME NEW h \in Handler, HttpWrite(h)
       PROVE  ResultsOfCurrent' /\ ReadsResult' /\ ReplyMatches'
  <2>1. UNCHANGED <<taskid, status, cmd, deployed, sent, current, last>>
    BY <1>11 DEF HttpWrite, remote
  <2>2. h \in Filling /\ Filling = {h} /\ Storing = {h}
    BY <1>11, <1>b DEF HttpWrite, Filling, Storing, ResultsOfCurrent
  <2>3. /\ http[h].task = current /\ taskid # 0 /\ sent[current] > 0 /\ data = Empty
        /\ status = TRUE /\ current # Empty
    BY <1>b, <1>d, <2>2 DEF ResultsOfCurrent
  <2>4. /\ http[h] \in Incoming
        /\ http'[h].pc = IF http[h].empty THEN "status" ELSE "notify"
        /\ http'[h].task = http[h].task
        /\ \A k \in Handler : k # h => http'[k] = http[k]
    BY <1>0, <1>11, HandlerMoves DEF HttpWrite
  <2>5. data' = IF http[h].empty THEN Empty ELSE current
    BY <1>11, <2>2, <2>3 DEF HttpWrite
  <2>6. CASE http[h].empty
    <3>1. http'[h].pc = "status" /\ data' = Empty
      BY <2>4, <2>5, <2>6
    <3>2. Filling' = {h}
      BY <2>2, <2>4, <3>1 DEF Filling
    <3>3. ResultsOfCurrent'
      BY <1>b, <2>1, <2>3, <2>4, <3>1, <3>2 DEF ResultsOfCurrent
    <3>4. ~Awaited
      BY <2>2, <2>3, <2>6 DEF Awaited, Filling
    <3>5. ReadsResult'
      BY <1>b, <2>1, <2>3, <3>4 DEF ReadsResult
    <3> QED BY <1>c, <2>1, <3>3, <3>5
  <2>7. CASE ~http[h].empty
    <3>1. http'[h].pc = "notify" /\ data' = current
      BY <2>4, <2>5, <2>7
    <3>2. Filling' = {}
      BY <2>2, <2>4, <3>1 DEF Filling
    <3>3. ResultsOfCurrent'
      BY <1>b, <2>1, <2>3, <3>1, <3>2 DEF ResultsOfCurrent
    <3>4. Awaited'
      BY <2>1, <2>3, <3>1 DEF Awaited, Empty
    <3>5. ReadsResult'
      BY <1>b, <2>1, <2>3, <3>4 DEF ReadsResult
    <3> QED BY <1>c, <2>1, <3>3, <3>5
  <2> QED BY <2>6, <2>7
<1>12. ASSUME NEW h \in Handler, HttpStatus(h)
       PROVE  ResultsOfCurrent' /\ ReadsResult' /\ ReplyMatches'
  <2>1. UNCHANGED <<taskid, data, cmd, deployed, sent, current, last>> /\ status' = FALSE
    BY <1>12 DEF HttpStatus, remote
  <2>2. h \in Filling /\ Filling = {h} /\ http[h].pc = "status"
    BY <1>12, <1>b DEF HttpStatus, Filling, ResultsOfCurrent
  <2>3. taskid # 0 /\ sent[current] > 0 /\ data = Empty /\ current # Empty
    BY <1>b, <1>d, <2>2 DEF ResultsOfCurrent
  <2>4. http'[h].pc = "notify" /\ \A k \in Handler : k # h => http'[k] = http[k]
    BY <1>0, <1>12, HandlerMoves DEF HttpStatus
  <2>5. Filling' = {}
    BY <2>2, <2>4 DEF Filling
  <2>6. ResultsOfCurrent'
    BY <1>b, <2>1, <2>3, <2>5 DEF ResultsOfCurrent
  <2>7. ~Awaited
    BY <2>2, <2>3 DEF Awaited, Filling
  <2>8. ReadsResult'
    BY <1>b, <2>1, <2>3, <2>7 DEF ReadsResult
  <2> QED BY <1>c, <2>1, <2>6, <2>8
<1>13. ASSUME NEW h \in Handler, HttpNotify(h)
       PROVE  ResultsOfCurrent' /\ ReadsResult' /\ ReplyMatches'
  <2>1. UNCHANGED <<taskid, status, data, deployed, sent, current, last>>
    BY <1>13 DEF HttpNotify, fields, remote
  <2>2. http[h].pc = "notify" /\ http'[h].pc = "idle"
        /\ \A k \in Handler : k # h => http'[k] = http[k]
    BY <1>0, <1>13, HandlerRests DEF HttpNotify
  <2>3. Filling' = Filling /\ \A k \in Filling : http'[k] = http[k]
    BY <2>2 DEF Filling
  <2>4. ResultsOfCurrent'
    BY <1>b, <2>1, <2>3 DEF ResultsOfCurrent
  <2>5. Awaited' = Awaited
    BY <2>1, <2>2 DEF Awaited, Empty
  <2>6. cmd' = cmd \/ cmd'.pc = "wait"
    BY <1>0, <1>13, CmdRunning, GoType DEF HttpNotify, Place
  <2>7. ReadsResult'
    BY <1>b, <2>1, <2>5, <2>6 DEF ReadsResult
  <2> QED BY <1>c, <2>1, <2>4, <2>7
<1>14. ASSUME UNCHANGED vars
       PROVE  ResultsOfCurrent' /\ ReadsResult' /\ ReplyMatches'
  <2>1. UNCHANGED <<taskid, status, data, cmd, http, deployed, sent, current, last>>
    BY <1>14 DEF vars
  <2>2. ReadsResult'
    BY <1>b, <2>1, SameResults DEF ReadsResult
  <2> QED BY <1>b, <1>c, <2>1, <2>2, SameResults
<1> QED
  BY <1>1, <1>2, <1>3, <1>4, <1>5, <1>6, <1>7, <1>8, <1>9, <1>10, <1>11, <1>12, <1>13, <1>14
  DEF Next, Command, Http

\* A reply CPRES=0 carries the result of the task it is about, until a task
\* is given up, a second result of one task comes in or data is copied while
\* it is being stored: however the steps of a command and of the handlers
\* alternate, the field every task uses in turn holds the current one's.
THEOREM ReplyCorrect == Spec => []ReplyMatchesUntilAbandoned
<1>1. Init => ResultInv
  <2>1. SUFFICES ASSUME Init
                 PROVE  ResultInv
    OBVIOUS
  <2>2. Filling = {}
    BY <2>1, RestingPc DEF Init, Filling
  <2>3. ResultsOfCurrent
    BY <2>1, <2>2 DEF Init, ResultsOfCurrent
  <2>4. ReadsResult /\ ReplyMatches
    BY <2>1, RestingPc DEF Init, ReadsResult, ReplyMatches, NoReply
  <2> QED BY <2>3, <2>4 DEF ResultInv
<1>2. BaseInv /\ ResultInv /\ [Next]_vars => ResultInv'
  BY ResultStep
<1>3. ResultInv => ReplyMatchesUntilAbandoned
  BY DEF ResultInv, Clean, ReplyMatchesUntilAbandoned
<1> QED BY <1>1, <1>2, <1>3, BaseInvariant, PTL DEF Spec

-----------------------------------------------------------------------------
(* The models of the router: ModelIndex, which shares no state with the    *)
(* tasks and results above.                                                *)

-----------------------------------------------------------------------------
(* Tables                                                                  *)

\* A table from keys to engines, as ModelsTypeOK describes files, declared
\* and pushed.  The storage may also hold a part of an engine.
Table(f, K) == DOMAIN f \subseteq K /\ f \in [DOMAIN f -> Content]
Store(f) == DOMAIN f \subseteq Model /\ f \in [DOMAIN f -> Content \cup {Part}]

LEMMA EmptyTable ==
  ASSUME NEW K
  PROVE  Table(<<>>, K) /\ Store(<<>>) /\ DOMAIN <<>> = {}
BY DEF Table, Store

FilePlace == (User \cup {NoUser}) \X Id

\* TypeOK in terms of tables.
LEMMA TypeTables ==
  ModelsTypeOK <=> /\ user \in User \cup {NoUser}
                    /\ engine_private \subseteq Model /\ engine_cloud \subseteq Model
                    /\ Table(files, FilePlace) /\ Store(stored)
                    /\ Table(declared, Model) /\ DOMAIN declared = engine_private
                    /\ Table(pushed, engine_cloud) /\ doubtful \subseteq Model
                    /\ disturbed \in BOOLEAN
BY DEF ModelsTypeOK, Table, Store, FilePlace

LEMMA TypeTablesNext ==
  ModelsTypeOK' <=> /\ user' \in User \cup {NoUser}
                     /\ engine_private' \subseteq Model /\ engine_cloud' \subseteq Model
                     /\ Table(files', FilePlace) /\ Store(stored')
                     /\ Table(declared', Model) /\ DOMAIN declared' = engine_private'
                     /\ Table(pushed', engine_cloud') /\ doubtful' \subseteq Model
                     /\ disturbed' \in BOOLEAN
BY DEF ModelsTypeOK, Table, Store, FilePlace

\* engineattr holds the name and the id as they are.
LEMMA OwnAttr ==
  ASSUME NEW e \in Model
  PROVE  Engineattr(e[1], e[2]) = e /\ e[1] \in Name /\ e[2] \in Id
BY DEF Model, Engineattr

\* What a push may change: its own key.  Afterwards the storage has the
\* engine there, or one it had before, unless the key is doubtful.
LEMMA PushKeeps ==
  ASSUME ModelsTypeOK, NEW k \in Model, NEW c \in Content,
         NEW o \in Outcome, NEW listed \in BOOLEAN, push(k, c, o, listed)
  PROVE  /\ Store(stored') /\ doubtful' \subseteq Model
         /\ DOMAIN stored \subseteq DOMAIN stored' /\ DOMAIN stored' \subseteq DOMAIN stored \cup {k}
         /\ \A x \in DOMAIN stored : stored'[x] = stored[x]
         /\ \A x \in Model : x # k => (x \in doubtful' <=> x \in doubtful)
         /\ k \in DOMAIN stored => doubtful' = doubtful
         /\ k \notin DOMAIN stored /\ k \notin doubtful' /\ o.handled =>
              k \in DOMAIN stored' /\ stored'[k] = c /\ listed
         /\ k \notin DOMAIN stored /\ ~o.handled => stored' = stored
<1>1. Store(stored) /\ doubtful \subseteq Model
  BY TypeTables
<1>2. CASE ~New(k, o)
  <2>1. stored' = stored /\ doubtful' = doubtful
    BY <1>2 DEF push
  <2>2. k \in DOMAIN stored \/ ~o.handled
    BY <1>2 DEF New
  <2> QED BY <1>1, <2>1, <2>2
<1>3. CASE New(k, o)
  <2>0. k \notin DOMAIN stored /\ o.handled
    BY <1>3 DEF New
  <2>1. /\ o.taken = "all" /\ listed => doubtful' = doubtful \ {k}
        /\ ~(o.taken = "all" /\ listed) => doubtful' = doubtful \cup {k}
    BY <1>3, Zenon DEF push
  <2>2. CASE o.taken = "none"
    <3>1. stored' = stored /\ doubtful' = doubtful \cup {k}
      BY <2>1, <2>2 DEF push
    <3> QED BY <1>1, <2>0, <3>1
  <2>3. CASE o.taken # "none"
    <3>1. PICK d \in Content \cup {Part} : stored' = Put(stored, k, d) /\ (o.taken = "all" => d = c)
      BY <1>3, <2>3 DEF push
    <3>2. /\ Store(stored') /\ DOMAIN stored' = DOMAIN stored \cup {k} /\ stored'[k] = d
          /\ \A x \in DOMAIN stored : stored'[x] = stored[x]
      BY <1>1, <2>0, <3>1 DEF Store, Put
    <3>3. /\ doubtful' \subseteq Model
          /\ \A x \in Model : x # k => (x \in doubtful' <=> x \in doubtful)
          /\ k \notin doubtful' => o.taken = "all" /\ listed
      BY <1>1, <2>1
    <3> QED BY <2>0, <3>1, <3>2, <3>3
  <2> QED BY <2>2, <2>3
<1> QED BY <1>2, <1>3

\* A file that can be read is there and holds what is read.
LEMMA ReadFile ==
  ASSUME NEW id, NEW c
  PROVE  read_(id) = {c} <=> <<user, id>> \in DOMAIN files /\ files[<<user, id>>] = c
BY DEF read_

-----------------------------------------------------------------------------
(* The invariant                                                           *)

\* The name and the id of every private model lead to what was declared.
Backed == \A e \in engine_private : <<user, e[2]>> \in DOMAIN files
                                    /\ files[<<user, e[2]>>] = declared[e]

\* Files are the user's or those of an unregistered one, and what a
\* registered user reads under the id of a private model was declared.
OwnFiles ==
  /\ \A f \in DOMAIN files : f[1] \in {user, NoUser}
  /\ \A e \in engine_private : user # NoUser /\ <<user, e[2]>> \in DOMAIN files
                              => files[<<user, e[2]>>] = declared[e]

\* What the storage has at a key that is not doubtful is of a model that is
\* still listed, and is what was declared of it or pushed.
Sound ==
  /\ \A k \in DOMAIN stored : k \notin doubtful => k \in Known
  /\ \A e \in engine_private : e \notin doubtful /\ e \in DOMAIN stored => stored[e] = declared[e]
  /\ \A e \in DOMAIN pushed : e \notin doubtful => e \in DOMAIN stored /\ stored[e] = pushed[e]

IndexInv ==
  /\ ModelsTypeOK
  /\ IndexUnique
  /\ disturbed = FALSE => Backed
  /\ OwnFiles
  /\ Sound

\* The ways a command changes the indexes: it enters a model that is new
\* under its name and its id, removes one, or moves one.
LEMMA EnterUnique ==
  ASSUME ModelsTypeOK, IndexUnique, NEW name \in Name, NEW id \in Id,
         NameFree(name), IdFree(id),
         \/ engine_private' = engine_private /\ engine_cloud' = engine_cloud \cup {<<name, id>>}
         \/ engine_cloud' = engine_cloud /\ engine_private' = engine_private \cup {<<name, id>>}
  PROVE  IndexUnique'
<1>1. Known' = Known \cup {<<name, id>>} /\ <<name, id>> \notin Known
  BY DEF Known, NameFree
<1>2. \A d \in Known : d[1] # name /\ d[2] # id
  BY DEF NameFree, IdFree
<1>3. \A d, e \in Known' : d[1] = e[1] \/ d[2] = e[2] => d = e
  BY <1>1, <1>2 DEF IndexUnique
<1>4. engine_private' \cap engine_cloud' = {}
  BY <1>1 DEF IndexUnique, Known
<1> QED BY <1>3, <1>4 DEF IndexUnique

LEMMA LessUnique ==
  ASSUME IndexUnique, Known' \subseteq Known,
         engine_private' \cap engine_cloud' = {}
  PROVE  IndexUnique'
BY DEF IndexUnique

\* No other private model has the id of e.
LEMMA OwnId ==
  ASSUME IndexUnique, NEW e \in engine_private, NEW d \in engine_private, d # e
  PROVE  d[2] # e[2]
BY DEF IndexUnique, Known

LEMMA IndexStep ==
  ASSUME IndexInv, [ModelsNext]_modelsVars
  PROVE  IndexInv'
<1>0. /\ ModelsTypeOK /\ IndexUnique /\ OwnFiles /\ Sound
      /\ disturbed = FALSE => Backed
  BY DEF IndexInv
<1>t. /\ user \in User \cup {NoUser}
      /\ engine_private \subseteq Model /\ engine_cloud \subseteq Model
      /\ Table(files, FilePlace) /\ Store(stored)
      /\ Table(declared, Model) /\ DOMAIN declared = engine_private
      /\ Table(pushed, engine_cloud) /\ doubtful \subseteq Model
      /\ disturbed \in BOOLEAN
  BY <1>0, TypeTables
\* The user changes and the old directory is removed.
<1>1. ASSUME (\E name \in User : REG(name)) \/ RTUNREG
      PROVE  IndexInv'
  <2>1. /\ UNCHANGED <<engine_private, engine_cloud, stored, declared, pushed, doubtful>>
        /\ (disturbed' = (disturbed \/ engine_private # {}))
    BY <1>1 DEF REG, RTUNREG, indexes
  <2>2. user' \in User \cup {NoUser} /\ user' # user
    BY <1>1, ModelIndexAssumption DEF REG, RTUNREG
  <2>3. files' = Drop(files, RemoveDirectory(user)) \/ (user = NoUser /\ files' = files)
    BY <1>1 DEF REG, RTUNREG
  <2>4. Table(files', FilePlace)
    BY <1>t, <2>3 DEF Table, Drop
  <2>5. disturbed' \in BOOLEAN
    BY <2>1
  <2>6. ModelsTypeOK'
    BY <1>t, <2>1, <2>2, <2>4, <2>5, TypeTablesNext
  <2>7. IndexUnique' /\ Sound'
    BY <1>0, <2>1 DEF IndexUnique, Sound, Known
  <2>a. \A f \in DOMAIN files' : f \in DOMAIN files /\ f[1] = NoUser
    BY <1>0, <2>3 DEF OwnFiles, Drop, RemoveDirectory
  <2>b. OwnFiles'
    <3>1. \A e \in engine_private' : user' # NoUser => <<user', e[2]>> \notin DOMAIN files'
      BY <2>a
    <3> QED BY <2>a, <3>1 DEF OwnFiles
  <2>8. disturbed' = FALSE => engine_private = {}
    BY <2>1, Zenon
  <2>9. disturbed' = FALSE => Backed'
    BY <2>1, <2>8 DEF Backed
  <2> QED BY <2>6, <2>7, <2>9, <2>b DEF IndexInv
<1>2. ASSUME NEW name \in Name, NEW mid \in Id, MDDECL_cloud(name, mid)
      PROVE  IndexInv'
  <2>1. /\ UNCHANGED <<user, engine_private, files, stored, declared, pushed, doubtful, disturbed>>
        /\ engine_cloud' = engine_cloud \cup {<<name, mid>>}
        /\ NameFree(name) /\ IdFree(mid)
    BY <1>2 DEF MDDECL_cloud, history
  <2>2. ModelsTypeOK'
    <3>1. engine_cloud' \subseteq Model /\ Table(pushed, engine_cloud')
      BY <1>t, <2>1 DEF Model, Table
    <3> QED BY <1>t, <2>1, <3>1, TypeTablesNext
  <2>3. IndexUnique'
    BY <1>0, <2>1, EnterUnique
  <2>4. OwnFiles' /\ Sound' /\ (disturbed' = FALSE => Backed')
    BY <1>0, <2>1 DEF OwnFiles, Sound, Known, Backed
  <2> QED BY <2>2, <2>3, <2>4 DEF IndexInv
\* The new id is not that of another model, so no other file is replaced.
<1>3. ASSUME NEW name \in Name, NEW id \in Id, NEW c \in Content, MDDECL_private(name, id, c)
      PROVE  IndexInv'
  <2>1. /\ UNCHANGED <<user, engine_cloud, stored, pushed, doubtful, disturbed>>
        /\ files' = Put(files, <<user, id>>, c)
        /\ engine_private' = engine_private \cup {<<name, id>>}
        /\ declared' = Put(declared, <<name, id>>, c)
        /\ NameFree(name) /\ IdFree(id)
    BY <1>3 DEF MDDECL_private, create_id
  <2>2. <<user, id>> \in FilePlace /\ <<name, id>> \in Model
    BY <1>t DEF FilePlace, Model
  <2>3. /\ Table(files', FilePlace) /\ DOMAIN files' = DOMAIN files \cup {<<user, id>>}
        /\ files'[<<user, id>>] = c
        /\ \A x \in DOMAIN files : x # <<user, id>> => files'[x] = files[x]
    BY <1>t, <2>1, <2>2 DEF Table, Put
  <2>4. /\ Table(declared', Model) /\ DOMAIN declared' = engine_private \cup {<<name, id>>}
        /\ declared'[<<name, id>>] = c
        /\ \A e \in engine_private : e # <<name, id>> => declared'[e] = declared[e]
    BY <1>t, <2>1, <2>2 DEF Table, Put
  <2>5. ModelsTypeOK'
    BY <1>t, <2>1, <2>2, <2>3, <2>4, TypeTablesNext
  <2>6. IndexUnique'
    BY <1>0, <2>1, EnterUnique
  <2>7. ASSUME disturbed' = FALSE, NEW e \in engine_private'
        PROVE  <<user', e[2]>> \in DOMAIN files' /\ files'[<<user', e[2]>>] = declared'[e]
    <3>1. CASE e = <<name, id>>
      BY <2>1, <2>3, <2>4, <3>1
    <3>2. CASE e # <<name, id>>
      <4>1. e \in engine_private /\ e[2] # id
        BY <2>1, <2>7, <3>2 DEF IdFree, Known
      <4>2. <<user, e[2]>> \in DOMAIN files /\ files[<<user, e[2]>>] = declared[e]
        BY <1>0, <2>1, <2>7, <4>1 DEF Backed
      <4>3. <<user, e[2]>> # <<user, id>>
        BY <4>1
      <4> QED BY <2>1, <2>3, <2>4, <3>2, <4>1, <4>2, <4>3
    <3> QED BY <3>1, <3>2
  <2>8. disturbed' = FALSE => Backed'
    BY <2>7 DEF Backed
  <2>9. OwnFiles'
    <3>1. ASSUME NEW e \in engine_private', user' # NoUser, <<user', e[2]>> \in DOMAIN files'
          PROVE  files'[<<user', e[2]>>] = declared'[e]
      <4>1. CASE e = <<name, id>>
        BY <2>1, <2>3, <2>4, <4>1
      <4>2. CASE e # <<name, id>>
        <5>1. e \in engine_private /\ e[2] # id
          BY <2>1, <3>1, <4>2 DEF IdFree, Known
        <5>2. <<user, e[2]>> # <<user, id>>
          BY <5>1
        <5>3. <<user, e[2]>> \in DOMAIN files
          BY <2>1, <2>3, <3>1, <5>2
        <5> QED BY <1>0, <2>1, <2>3, <2>4, <3>1, <4>2, <5>1, <5>2, <5>3 DEF OwnFiles
      <4> QED BY <4>1, <4>2
    <3>2. \A f \in DOMAIN files' : f[1] \in {user', NoUser}
      BY <1>0, <2>1, <2>3 DEF OwnFiles
    <3> QED BY <3>1, <3>2 DEF OwnFiles
  <2>10. Sound'
    <3>1. <<name, id>> \notin Known
      BY <2>1 DEF NameFree
    <3>2. Known' = Known \cup {<<name, id>>}
      BY <2>1 DEF Known
    <3>3. \A e \in engine_private' : e \notin doubtful' /\ e \in DOMAIN stored'
                                    => stored'[e] = declared'[e]
      BY <1>0, <2>1, <2>4, <3>1 DEF Sound, Known
    <3> QED BY <1>0, <2>1, <3>2, <3>3 DEF Sound
  <2> QED BY <2>5, <2>6, <2>8, <2>9, <2>10 DEF IndexInv
<1>4. ASSUME NEW e \in engine_cloud, MDRM_cloud(e)
      PROVE  IndexInv'
  <2>1. /\ UNCHANGED <<user, engine_private, files, stored, declared, disturbed>>
        /\ engine_cloud' = engine_cloud \ {e} /\ pushed' = Drop(pushed, {e})
        /\ doubtful' = doubtful \cup Outlives(e)
    BY <1>4 DEF MDRM_cloud
  <2>a. e \in Model /\ Outlives(e) = {e} \cap DOMAIN stored
    BY <1>t, OwnAttr DEF Outlives
  <2>b. /\ Table(pushed', engine_cloud') /\ DOMAIN pushed' = DOMAIN pushed \ {e}
        /\ \A d \in DOMAIN pushed \ {e} : pushed'[d] = pushed[d]
    BY <1>t, <2>1 DEF Table, Drop
  <2>2. ModelsTypeOK'
    BY <1>t, <2>1, <2>a, <2>b, TypeTablesNext
  <2>3. IndexUnique'
    BY <1>0, <2>1, LessUnique DEF IndexUnique, Known
  <2>4. OwnFiles' /\ (disturbed' = FALSE => Backed')
    BY <1>0, <2>1 DEF OwnFiles, Backed
  <2>5. Sound'
    BY <1>0, <2>1, <2>a, <2>b DEF Sound, Known
  <2> QED BY <2>2, <2>3, <2>4, <2>5 DEF IndexInv
\* The file that goes may be that of another model: then it is disturbed.
<1>5. ASSUME NEW e \in engine_private, NEW by \in {"id", "name"}, MDRM_private(e, by)
      PROVE  IndexInv'
  <2> DEFINE gone == IF by = "id" THEN e[2] ELSE e[1]
  <2>1. /\ UNCHANGED <<user, engine_cloud, stored, pushed>>
        /\ engine_private' = engine_private \ {e}
        /\ files' = Drop(files, {<<user, gone>>})
        /\ (disturbed' = (disturbed \/ \E d \in engine_private' : d[2] = gone))
        /\ declared' = Drop(declared, {e})
        /\ doubtful' = doubtful \cup Outlives(e)
    BY <1>5 DEF MDRM_private, RemoveFile
  <2>a. e \in Model /\ Outlives(e) = {e} \cap DOMAIN stored
    BY <1>t, OwnAttr DEF Outlives
  <2>2. /\ Table(files', FilePlace) /\ DOMAIN files' = DOMAIN files \ {<<user, gone>>}
        /\ \A x \in DOMAIN files \ {<<user, gone>>} : files'[x] = files[x]
    BY <1>t, <2>1 DEF Table, Drop
  <2>3. /\ Table(declared', Model) /\ DOMAIN declared' = engine_private \ {e}
        /\ \A d \in engine_private \ {e} : declared'[d] = declared[d]
    BY <1>t, <2>1 DEF Table, Drop
  <2>4. ModelsTypeOK'
    <3>1. disturbed' \in BOOLEAN
      BY <2>1
    <3> HIDE DEF gone
    <3> QED BY <1>t, <2>1, <2>2, <2>3, <2>a, <3>1, TypeTablesNext
  <2>5. IndexUnique'
    BY <1>0, <2>1, LessUnique DEF IndexUnique, Known
  <2>6. ASSUME disturbed' = FALSE, NEW d \in engine_private'
        PROVE  <<user', d[2]>> \in DOMAIN files' /\ files'[<<user', d[2]>>] = declared'[d]
    <3> HIDE DEF gone
    <3>1. disturbed = FALSE /\ d[2] # gone
      <4>1. ~disturbed /\ ~\E x \in engine_private' : x[2] = gone
        BY <2>1, <2>6, Zenon
      <4> QED BY <1>t, <2>6, <4>1
    <3>2. d \in engine_private \ {e}
      BY <2>1, <2>6
    <3>3. <<user, d[2]>> \in DOMAIN files /\ files[<<user, d[2]>>] = declared[d]
      BY <1>0, <3>1, <3>2 DEF Backed
    <3>4. <<user, d[2]>> # <<user, gone>>
      BY <3>1
    <3> QED BY <2>1, <2>2, <2>3, <3>2, <3>3, <3>4
  <2>7. disturbed' = FALSE => Backed'
    BY <2>6 DEF Backed
  <2>8. OwnFiles'
    <3> HIDE DEF gone
    <3>1. \A f \in DOMAIN files' : f \in DOMAIN files /\ files'[f] = files[f]
      BY <2>2
    <3>2. \A d \in engine_private' : d \in engine_private /\ declared'[d] = declared[d]
      BY <2>1, <2>3
    <3> QED BY <1>0, <2>1, <3>1, <3>2 DEF OwnFiles
  <2>9. Sound'
    <3> HIDE DEF gone
    <3> QED BY <1>0, <2>1, <2>3, <2>a DEF Sound, Known
  <2> QED BY <2>4, <2>5, <2>7, <2>8, <2>9 DEF IndexInv
\* The private copy goes only when the storage has confirmed its own.
<1>6. ASSUME NEW e \in engine_private, NEW o \in Outcome, MDPUSH_private(e, o)
      PROVE  IndexInv'
  <2>0. UNCHANGED <<user, disturbed>> /\ e \in Model
    BY <1>6, <1>t DEF MDPUSH_private
  <2>1. Engineattr(e[1], e[2]) = e /\ e[2] \in Id
    BY <2>0, OwnAttr
  <2>2. PICK c \in read_(e[2]) : /\ push(e, c, o, TRUE)
                                /\ pushed' = IF o.result THEN Put(pushed, e, c) ELSE pushed
    BY <1>6, <2>1 DEF MDPUSH_private
  <2>3. c \in Content /\ c = declared[e]
    <3>1. user # NoUser /\ <<user, e[2]>> \in DOMAIN files /\ c = files[<<user, e[2]>>]
      BY <1>6 DEF MDPUSH_private, read_
    <3> QED BY <1>0, <1>t, <3>1 DEF OwnFiles, Table
  <2>4. /\ Store(stored') /\ doubtful' \subseteq Model
        /\ DOMAIN stored \subseteq DOMAIN stored' /\ DOMAIN stored' \subseteq DOMAIN stored \cup {e}
        /\ \A x \in DOMAIN stored : stored'[x] = stored[x]
        /\ \A x \in Model : x # e => (x \in doubtful' <=> x \in doubtful)
        /\ e \in DOMAIN stored => doubtful' = doubtful
        /\ e \notin DOMAIN stored /\ e \notin doubtful' /\ o.handled =>
             e \in DOMAIN stored' /\ stored'[e] = c
        /\ e \notin DOMAIN stored /\ ~o.handled => stored' = stored
    BY <1>0, <2>0, <2>2, <2>3, PushKeeps
\* What is stored under e is what was declared.
  <2>a. e \notin doubtful' /\ e \in DOMAIN stored' => stored'[e] = c
    <3>1. CASE e \in DOMAIN stored
      BY <1>0, <2>3, <2>4, <3>1 DEF Sound
    <3>2. CASE e \notin DOMAIN stored
      BY <2>4, <3>2
    <3> QED BY <3>1, <3>2
  <2>b. e \notin doubtful' /\ o.result => e \in DOMAIN stored'
    <3>1. o.result => o.handled
      BY DEF Outcome
    <3>2. e \notin DOMAIN stored /\ e \notin doubtful' /\ o.handled => e \in DOMAIN stored'
      BY <2>4
    <3> QED BY <2>4, <3>1, <3>2
  <2>5. CASE o.result
    <3>1. /\ engine_private' = engine_private \ {e}
          /\ engine_cloud' = engine_cloud \cup {e}
          /\ files' = Drop(files, {<<user, e[2]>>})
          /\ declared' = Drop(declared, {e})
      BY <1>6, <2>5 DEF MDPUSH_private
    <3>a. pushed' = Put(pushed, e, c)
      BY <2>2, <2>5
    <3>b. /\ Table(pushed', engine_cloud') /\ DOMAIN pushed' = DOMAIN pushed \cup {e}
          /\ pushed'[e] = c /\ \A d \in DOMAIN pushed : d # e => pushed'[d] = pushed[d]
      BY <1>t, <2>3, <3>1, <3>a DEF Table, Put
    <3>2. /\ Table(files', FilePlace) /\ DOMAIN files' = DOMAIN files \ {<<user, e[2]>>}
          /\ \A x \in DOMAIN files \ {<<user, e[2]>>} : files'[x] = files[x]
      BY <1>t, <3>1 DEF Table, Drop
    <3>3. /\ Table(declared', Model) /\ DOMAIN declared' = engine_private \ {e}
          /\ \A d \in engine_private \ {e} : declared'[d] = declared[d]
      BY <1>t, <3>1 DEF Table, Drop
    <3>4. ModelsTypeOK'
      BY <1>t, <2>0, <2>4, <3>1, <3>2, <3>3, <3>b, TypeTablesNext
    <3>5. IndexUnique'
      BY <1>0, <3>1, LessUnique DEF IndexUnique, Known
    <3>6. ASSUME disturbed' = FALSE, NEW d \in engine_private'
          PROVE  <<user', d[2]>> \in DOMAIN files' /\ files'[<<user', d[2]>>] = declared'[d]
      <4>1. d \in engine_private \ {e}
        BY <3>1, <3>6
      <4>2. d[2] # e[2]
        BY <1>0, <4>1, OwnId
      <4>3. <<user, d[2]>> \in DOMAIN files /\ files[<<user, d[2]>>] = declared[d]
        BY <1>0, <2>0, <3>6, <4>1 DEF Backed
      <4>4. <<user, d[2]>> # <<user, e[2]>>
        BY <4>2
      <4> QED BY <2>0, <3>2, <3>3, <4>1, <4>3, <4>4
    <3>7. disturbed' = FALSE => Backed'
      BY <3>6 DEF Backed
    <3>8. OwnFiles'
      <4>1. \A f \in DOMAIN files' : f \in DOMAIN files /\ files'[f] = files[f]
        BY <3>2
      <4>2. \A d \in engine_private' : d \in engine_private /\ declared'[d] = declared[d]
        BY <3>1, <3>3
      <4> QED BY <1>0, <2>0, <4>1, <4>2 DEF OwnFiles
    <3>9. Sound'
      <4>1. Known' = Known /\ e \in Known
        BY <3>1 DEF Known
      <4>2. \A k \in DOMAIN stored' : k \notin doubtful' => k \in Known'
        <5>1. SUFFICES ASSUME NEW k \in DOMAIN stored', k \notin doubtful', k # e
                       PROVE  k \in Known
          BY <4>1
        <5>2. k \in DOMAIN stored /\ k \in Model
          BY <1>t, <2>4, <5>1 DEF Store
        <5> QED BY <1>0, <2>4, <5>1, <5>2 DEF Sound
      <4>3. \A d \in engine_private' : d \notin doubtful' /\ d \in DOMAIN stored'
                                       => stored'[d] = declared'[d]
        BY <1>0, <1>t, <2>4, <3>1, <3>3 DEF Sound
      <4>4. \A d \in DOMAIN pushed' : d \notin doubtful' =>
                                       d \in DOMAIN stored' /\ stored'[d] = pushed'[d]
        <5>1. ASSUME NEW d \in DOMAIN pushed', d \notin doubtful'
              PROVE  d \in DOMAIN stored' /\ stored'[d] = pushed'[d]
          <6>1. CASE d = e
            BY <2>a, <2>b, <2>5, <3>b, <5>1, <6>1
          <6>2. CASE d # e
            <7>1. d \in DOMAIN pushed /\ d \in Model
              BY <1>t, <3>b, <5>1, <6>2 DEF Table
            <7> QED BY <1>0, <2>4, <3>b, <5>1, <6>2, <7>1 DEF Sound
          <6> QED BY <6>1, <6>2
        <5> QED BY <5>1
      <4> QED BY <4>2, <4>3, <4>4 DEF Sound
    <3> QED BY <3>4, <3>5, <3>7, <3>8, <3>9 DEF IndexInv
  <2>6. CASE ~o.result
    <3>1. UNCHANGED <<engine_private, engine_cloud, files, declared, pushed>>
      BY <1>6, <2>2, <2>6 DEF MDPUSH_private, indexes
    <3>2. ModelsTypeOK'
      BY <1>t, <2>0, <2>4, <3>1, TypeTablesNext
    <3>3. IndexUnique'
      BY <1>0, <3>1 DEF IndexUnique, Known
    <3>4. OwnFiles' /\ (disturbed' = FALSE => Backed')
      BY <1>0, <2>0, <3>1 DEF OwnFiles, Backed
    <3>5. Sound'
      <4>1. \A k \in DOMAIN stored' : k \notin doubtful' => k \in Known'
        <5>1. SUFFICES ASSUME NEW k \in DOMAIN stored', k \notin doubtful', k # e
                       PROVE  k \in Known
          BY <3>1 DEF Known
        <5>2. k \in DOMAIN stored /\ k \in Model
          BY <1>t, <2>4, <5>1 DEF Store
        <5> QED BY <1>0, <2>4, <5>1, <5>2 DEF Sound
      <4>2. \A d \in engine_private : d # e /\ d \notin doubtful' /\ d \in DOMAIN stored'
                                       => stored'[d] = declared[d]
        BY <1>0, <1>t, <2>4 DEF Sound
      <4>3. \A d \in DOMAIN pushed : d # e /\ d \in Model
        BY <1>0, <1>t DEF Table, IndexUnique
      <4>4. \A d \in DOMAIN pushed : d \notin doubtful' =>
                                      d \in DOMAIN stored' /\ stored'[d] = pushed[d]
        BY <1>0, <2>4, <4>3 DEF Sound
      <4> QED BY <2>3, <2>a, <3>1, <4>1, <4>2, <4>4 DEF Sound
    <3> QED BY <3>2, <3>3, <3>4, <3>5 DEF IndexInv
  <2> QED BY <2>5, <2>6
<1>7. ASSUME NEW name \in Name, NEW mid \in Id, NEW c \in Content, NEW o \in Outcome,
             MDPUSH_data(name, mid, c, o)
      PROVE  IndexInv'
  <2> DEFINE k == <<name, mid>>
  <2>1. /\ UNCHANGED <<user, engine_private, files, declared, disturbed>>
        /\ NameFree(name) /\ IdFree(mid) /\ push(k, c, o, o.result)
    BY <1>7 DEF MDPUSH_data, create_id, Engineattr
  <2>2. k \in Model /\ k \notin Known /\ o.result \in BOOLEAN /\ (o.result => o.handled)
    BY <2>1 DEF Model, NameFree, Outcome
  <2> HIDE DEF k
  <2>3. /\ Store(stored') /\ doubtful' \subseteq Model
        /\ DOMAIN stored \subseteq DOMAIN stored' /\ DOMAIN stored' \subseteq DOMAIN stored \cup {k}
        /\ \A x \in DOMAIN stored : stored'[x] = stored[x]
        /\ \A x \in Model : x # k => (x \in doubtful' <=> x \in doubtful)
        /\ k \in DOMAIN stored => doubtful' = doubtful
        /\ k \notin DOMAIN stored /\ k \notin doubtful' /\ o.handled =>
             k \in DOMAIN stored' /\ stored'[k] = c /\ o.result
        /\ k \notin DOMAIN stored /\ ~o.handled => stored' = stored
    BY <1>0, <2>1, <2>2, PushKeeps
  <2>4. OwnFiles' /\ (disturbed' = FALSE => Backed')
    BY <1>0, <2>1 DEF OwnFiles, Backed
\* The model is new, so what the storage already had under k is doubtful.
  <2>5. k \in DOMAIN stored => k \in doubtful'
    BY <1>0, <2>2, <2>3 DEF Sound
  <2>6. k \in DOMAIN stored' /\ k \notin doubtful' => o.result /\ stored'[k] = c
    BY <2>3, <2>5
  <2>7. \A x \in DOMAIN stored' : x \notin doubtful' /\ x # k => x \in Known
    <3>1. SUFFICES ASSUME NEW x \in DOMAIN stored', x \notin doubtful', x # k
                   PROVE  x \in Known
      OBVIOUS
    <3>2. x \in DOMAIN stored /\ x \in Model
      BY <1>t, <2>3, <3>1 DEF Store
    <3> QED BY <1>0, <2>3, <3>1, <3>2 DEF Sound
  <2>8. \A d \in engine_private : d \notin doubtful' /\ d \in DOMAIN stored'
                                  => stored'[d] = declared[d]
    <3>1. \A d \in engine_private : d # k /\ d \in Model
      BY <1>t, <2>2 DEF Known
    <3> QED BY <1>0, <2>3, <3>1 DEF Sound
  <2>9. \A d \in DOMAIN pushed : d # k /\ (d \notin doubtful' =>
                                            d \in DOMAIN stored' /\ stored'[d] = pushed[d])
    <3>1. \A d \in DOMAIN pushed : d # k /\ d \in Model
      BY <1>t, <2>2 DEF Known, Table
    <3> QED BY <1>0, <2>3, <3>1 DEF Sound
  <2>10. CASE o.result
    <3>1. /\ engine_cloud' = engine_cloud \cup {k}
          /\ pushed' = Put(pushed, k, c)
      BY <1>7, <2>10 DEF MDPUSH_data, k
    <3>2. /\ Table(pushed', engine_cloud') /\ DOMAIN pushed' = DOMAIN pushed \cup {k}
          /\ pushed'[k] = c /\ \A d \in DOMAIN pushed : d # k => pushed'[d] = pushed[d]
      BY <1>t, <3>1 DEF Table, Put
    <3>3. ModelsTypeOK'
      BY <1>t, <2>1, <2>2, <2>3, <3>1, <3>2, TypeTablesNext
    <3>4. IndexUnique'
      BY <1>0, <2>1, <3>1, EnterUnique DEF k
    <3>5. Known' = Known \cup {k}
      BY <2>1, <3>1 DEF Known
    <3>6. k \notin doubtful' => k \in DOMAIN stored' /\ stored'[k] = c
      BY <2>2, <2>3, <2>5, <2>10
    <3>7. Sound'
      <4>1. \A d \in DOMAIN pushed' : d \notin doubtful' =>
                                       d \in DOMAIN stored' /\ stored'[d] = pushed'[d]
        BY <2>9, <3>2, <3>6
      <4> QED BY <2>1, <2>7, <2>8, <3>5, <4>1 DEF Sound
    <3> QED BY <2>4, <3>3, <3>4, <3>7 DEF IndexInv
  <2>11. CASE ~o.result
    <3>1. UNCHANGED <<engine_cloud, pushed>>
      BY <1>7, <2>11 DEF MDPUSH_data
    <3>2. ModelsTypeOK'
      BY <1>t, <2>1, <2>3, <3>1, TypeTablesNext
    <3>3. IndexUnique' /\ Known' = Known
      BY <1>0, <2>1, <3>1 DEF IndexUnique, Known
    <3>4. \A x \in DOMAIN stored' : x \notin doubtful' => x \in Known
      BY <2>6, <2>7, <2>11
    <3>5. Sound'
      BY <2>1, <2>8, <2>9, <3>1, <3>3, <3>4 DEF Sound
    <3> QED BY <2>4, <3>2, <3>3, <3>5 DEF IndexInv
  <2> QED BY <2>10, <2>11
<1>8. ASSUME UNCHANGED modelsVars
      PROVE  IndexInv'
  <2>1. UNCHANGED <<user, engine_private, engine_cloud, files, stored, declared, pushed, doubtful,
                    disturbed>>
    BY <1>8 DEF modelsVars
  <2>2. ModelsTypeOK'
    BY <1>t, <2>1, TypeTablesNext
  <2> QED BY <1>0, <2>1, <2>2 DEF IndexInv, IndexUnique, Known,
                                       OwnFiles, Sound, Backed
<1> QED
  BY <1>1, <1>2, <1>3, <1>4, <1>5, <1>6, <1>7, <1>8 DEF ModelsNext

LEMMA IndexInvariant == ModelsSpec => []IndexInv
<1>1. ModelsInit => IndexInv
  <2>1. SUFFICES ASSUME ModelsInit
                 PROVE  IndexInv
    OBVIOUS
  <2>2. ModelsTypeOK
    BY <2>1, EmptyTable, TypeTables DEF ModelsInit
  <2>3. IndexUnique /\ OwnFiles /\ Sound /\ Backed
    BY <2>1 DEF ModelsInit, IndexUnique, Known, OwnFiles, Sound, Backed
  <2> QED BY <2>2, <2>3 DEF IndexInv
<1>2. IndexInv /\ [ModelsNext]_modelsVars => IndexInv'
  BY IndexStep
<1> QED BY <1>1, <1>2, PTL DEF ModelsSpec

-----------------------------------------------------------------------------
(* Theorems                                                                *)

\* The indexes, the files and the storage's engines are well typed, and the
\* history follows the indexes.
THEOREM ModelsTypeCorrect == ModelsSpec => []ModelsTypeOK
<1>1. IndexInv => ModelsTypeOK
  BY DEF IndexInv
<1> QED BY <1>1, IndexInvariant, PTL

\* No name and no id is in use twice, in neither index nor across the two:
\* MDDECL, create_id and MDPUSH check both indexes before they enter a model,
\* and a model that is pushed changes the index in one step.
THEOREM UniqueCorrect == ModelsSpec => []IndexUnique
<1>1. IndexInv => IndexUnique
  BY DEF IndexInv
<1> QED BY <1>1, IndexInvariant, PTL

\* The file of a private model holds the engine that was declared, through
\* failed pushes, removals and reused ids, until a command has removed or
\* left behind the file of a model that is still listed.
THEOREM BackedCorrect == ModelsSpec => []PrivateBackedUntilDisturbed
<1>1. ASSUME IndexInv
      PROVE  PrivateBackedUntilDisturbed
  <2>1. SUFFICES ASSUME ~disturbed, NEW e \in engine_private
                 PROVE  read_(e[2]) = {declared[e]}
    BY DEF PrivateBackedUntilDisturbed
  <2>2. Backed
    BY <1>1, <2>1 DEF IndexInv, ModelsTypeOK
  <2> QED BY <2>2, ReadFile DEF Backed
<1> QED BY <1>1, IndexInvariant, PTL

\* MDPUSH gives the private copy of a model up only when the storage has
\* what was pushed, whatever requests and replies are lost and however often
\* it is done again, unless the storage's disk failed to take the engine or
\* one pushed under that name and id outlived its model.
THEOREM PushedCorrect == ModelsSpec => []PushedStoredUnlessDoubtful
<1>1. ASSUME IndexInv
      PROVE  PushedStoredUnlessDoubtful
  <2>1. SUFFICES ASSUME NEW e \in DOMAIN pushed, Engineattr(e[1], e[2]) \notin doubtful
                 PROVE  /\ Engineattr(e[1], e[2]) \in DOMAIN stored
                        /\ stored[Engineattr(e[1], e[2])] = pushed[e]
    BY DEF PushedStoredUnlessDoubtful
  <2>2. e \in Model
    BY <1>1, <2>1 DEF IndexInv, ModelsTypeOK
  <2>3. Engineattr(e[1], e[2]) = e
    BY <2>2, OwnAttr
  <2> QED BY <1>1, <2>1, <2>3 DEF IndexInv, Sound
<1> QED BY <1>1, IndexInvariant, PTL
=============================================================================
