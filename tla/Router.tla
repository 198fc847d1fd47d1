------------------------------- MODULE Router -------------------------------
(***************************************************************************)
(* The one task of a router (router/lib/cmd.cc, class Taskresult) and the  *)
(* two sides that share it: the loop of router/bin/main.cc, which runs the *)
(* commands CPSTART, CPMOD and CPVAL one after the other, and the HTTP     *)
(* server on port 2222, whose handlers take in the results clusters send.  *)
(*                                                                         *)
(* Every accessor of Taskresult locks mutex_ by itself, so a command is a  *)
(* sequence of steps and handlers run between them.  Tasks are numbered by *)
(* the CPSTART that began them; a result names no task, the model keeps    *)
(* the number of the task that computed it.                                *)
(***************************************************************************)
EXTENDS Naturals, FiniteSets

CONSTANTS
  TaskId,     \* ids a negotiation may return, all different from 0
  Handler,    \* handler threads of the HTTP server
  MaxTasks,   \* bound: tasks started
  MaxResults  \* bound: results one task sends, retries of the PUT included

ASSUME RouterAssumption ==
  /\ TaskId \subseteq Nat \ {0}
  /\ MaxTasks \in Nat /\ MaxResults \in Nat

VARIABLES
  taskid, status, data,  \* the fields of Taskresult
  cmd,       \* the command being run: where it is, which one, what it has read
  http,      \* the request each handler thread is working on
  deployed,  \* tasks a cluster has taken on, whatever it answered
  sent,      \* task -> results its cluster has sent
  \* history, read by the properties only
  current,   \* number of the task started last
  last,      \* the last CPRES reply that ended a task
  abandoned, \* a task was given up, or sent a second result
  raced      \* data was read while a handler was storing it

vars == <<taskid, status, data, cmd, http, deployed, sent, current, last, abandoned, raced>>

Task == 1..MaxTasks
Empty == 0            \* the empty string; a full result is its task's number
Torn == MaxTasks + 1  \* what a copy or a store that races with a store may yield
Kind == {"block", "nonblock", "val"}
Resting == [pc |-> "idle"]
NoReply == [code |-> "none"]

Init ==
  /\ taskid = 0 /\ status = TRUE /\ data = Empty
  /\ cmd = Resting
  /\ http = [h \in Handler |-> Resting]
  /\ deployed = {} /\ sent = [g \in Task |-> 0]
  /\ current = 0 /\ last = NoReply
  /\ abandoned = FALSE /\ raced = FALSE

fields == <<taskid, status, data>>
remote == <<deployed, sent>>

\* Taskresult::remove and Taskresult::set
remove == taskid' = 0 /\ status' = TRUE /\ data' = Empty
set(id) == taskid' = id /\ status' = TRUE /\ data' = Empty

\* Handlers that are storing a body in data, outside the lock.
Storing == {h \in Handler : http[h].pc = "write"}

\* The predicate of Taskresult::wait.
FaultyWaitOver == taskid = 0 \/ data # Empty  \* an empty result is not noticed
WaitOver == taskid = 0 \/ ~status \/ data # Empty

-----------------------------------------------------------------------------
(* Commands                                                                *)

Go(pc) == cmd' = [cmd EXCEPT !.pc = pc]
Done == cmd' = Resting

\* CPSTART, refused with -9 while taskid is not 0.
CPSTART(kind) ==
  /\ cmd = Resting /\ kind # "val"
  /\ taskid = 0
  /\ current < MaxTasks
  /\ cmd' = [pc |-> "negotiate", kind |-> kind, read |-> Empty]
  /\ UNCHANGED <<fields, http, remote, current, last, abandoned, raced>>

\* create_neogiate_task returned 0: reply -7.
NegotiationFailed ==
  /\ cmd.pc = "negotiate"
  /\ Done
  /\ UNCHANGED <<fields, http, remote, current, last, abandoned, raced>>

Negotiated(id) ==
  /\ cmd.pc = "negotiate"
  /\ set(id)
  /\ current' = current + 1
  /\ Go("deploy")
  /\ UNCHANGED <<http, remote, last, abandoned, raced>>

\* The cluster takes the task on; its result may overtake its answer.
TakenOn ==
  /\ cmd.pc = "deploy"
  /\ current \notin deployed
  /\ deployed' = deployed \cup {current}
  /\ UNCHANGED <<fields, cmd, http, sent, current, last, abandoned, raced>>

\* create_deploy_task succeeded: wait for the result, or reply at once.
Deployed ==
  /\ cmd.pc = "deploy"
  /\ current \in deployed
  /\ IF cmd.kind = "block" THEN Go("wait") ELSE Done
  /\ UNCHANGED <<fields, http, remote, current, last, abandoned, raced>>

\* It returned -1; the cluster may have taken the task all the same.
DeployFailed ==
  /\ cmd.pc = "deploy"
  /\ deployed' \in {deployed, deployed \cup {current}}
  /\ Go("terminate")
  /\ abandoned' = TRUE
  /\ UNCHANGED <<fields, http, sent, current, last, raced>>

\* create_terminate_task, then the reply -7.  taskid keeps its value.
FailedTerminated ==
  /\ cmd.pc = "terminate"
  /\ Done
  /\ UNCHANGED <<fields, http, remote, current, last, abandoned, raced>>

\* condition.wait: evaluate the predicate under the lock, sleep if not over.
\* data.empty() may already see the length of a body that is being stored.
Wait ==
  /\ cmd.pc = "wait"
  /\ \E early \in {FALSE, \E h \in Storing : ~http[h].empty} :
       Go(IF WaitOver \/ early THEN "status" ELSE "sleep")
  /\ UNCHANGED <<fields, http, remote, current, last, abandoned, raced>>

\* CPVAL, after its timer: -7 without a task, else the status is looked at.
CPVAL ==
  /\ cmd = Resting
  /\ taskid # 0
  /\ cmd' = [pc |-> "status", kind |-> "val", read |-> Empty]
  /\ UNCHANGED <<fields, http, remote, current, last, abandoned, raced>>

GetStatus ==
  /\ cmd.pc = "status"
  /\ Go(IF status THEN "data" ELSE "fail")
  /\ UNCHANGED <<fields, http, remote, current, last, abandoned, raced>>

\* CPVAL answers -9 to empty data; CPSTART does not look at it again.  The
\* copy is made under the lock, the store it may race with is not.
GetData ==
  /\ cmd.pc = "data"
  /\ \E read \in {data} \cup (IF Storing = {} THEN {} ELSE {Torn}) :
       IF cmd.kind = "val" /\ read = Empty THEN Done
       ELSE cmd' = [cmd EXCEPT !.pc = "succeed", !.read = read]
  /\ raced' = (raced \/ Storing # {})
  /\ UNCHANGED <<fields, http, remote, current, last, abandoned>>

\* remove, then the reply 0 with the data, or -8.
FaultySucceed ==  \* the field is read again instead of the copy
  /\ cmd.pc = "succeed"
  /\ remove
  /\ last' = [code |-> "ok", task |-> current, data |-> data']
  /\ Done
  /\ UNCHANGED <<http, remote, current, abandoned, raced>>
Succeed ==
  /\ cmd.pc = "succeed"
  /\ remove
  /\ last' = [code |-> "ok", task |-> current, data |-> cmd.read]
  /\ Done
  /\ UNCHANGED <<http, remote, current, abandoned, raced>>

FaultyFail ==  \* the task is looked up after remove
  /\ cmd.pc = "fail"
  /\ remove
  /\ last' = [code |-> "fail", task |-> taskid', data |-> Empty]
  /\ Done
  /\ UNCHANGED <<http, remote, current, abandoned, raced>>
Fail ==
  /\ cmd.pc = "fail"
  /\ remove
  /\ last' = [code |-> "fail", task |-> current, data |-> Empty]
  /\ Done
  /\ UNCHANGED <<http, remote, current, abandoned, raced>>

\* CPMOD: create_terminate_task, then remove.
CPMOD ==
  /\ cmd = Resting
  /\ taskid # 0
  /\ cmd' = [pc |-> "cancel", kind |-> "val", read |-> Empty]
  /\ UNCHANGED <<fields, http, remote, current, last, abandoned, raced>>

Cancelled ==
  /\ cmd.pc = "cancel"
  /\ remove
  /\ Done
  /\ abandoned' = TRUE
  /\ UNCHANGED <<http, remote, current, last, raced>>

-----------------------------------------------------------------------------
(* The HTTP handler, process.                                              *)

\* A cluster sends a result; the handler drops it while taskid is 0.
\* Neither CPMOD nor a failed deploy stops a submission that is running.
RecvResult(h, g, empty) ==
  /\ http[h] = Resting
  /\ g \in deployed /\ sent[g] < MaxResults
  /\ sent' = [sent EXCEPT ![g] = @ + 1]
  /\ abandoned' = (abandoned \/ sent[g] > 0)
  /\ http' = IF taskid = 0 THEN http
             ELSE [http EXCEPT ![h] = [pc |-> "write", task |-> g, empty |-> empty]]
  /\ UNCHANGED <<fields, cmd, deployed, current, last, raced>>

\* result->get_data_set() = body, outside the lock
HttpWrite(h) ==
  /\ http[h].pc = "write"
  /\ data' \in {IF http[h].empty THEN Empty ELSE http[h].task}
              \cup (IF Storing = {h} THEN {} ELSE {Torn})
  /\ http' = [http EXCEPT ![h].pc = IF http[h].empty THEN "status" ELSE "notify"]
  /\ UNCHANGED <<taskid, status, cmd, remote, current, last, abandoned, raced>>

HttpStatus(h) ==
  /\ http[h].pc = "status"
  /\ status' = FALSE
  /\ http' = [http EXCEPT ![h].pc = "notify"]
  /\ UNCHANGED <<taskid, data, cmd, remote, current, last, abandoned, raced>>

FaultyNotify(h) ==  \* the waiter is not notified
  /\ http[h].pc = "notify"
  /\ http' = [http EXCEPT ![h] = Resting]
  /\ UNCHANGED <<fields, cmd, remote, current, last, abandoned, raced>>
HttpNotify(h) ==
  /\ http[h].pc = "notify"
  /\ http' = [http EXCEPT ![h] = Resting]
  /\ IF cmd.pc = "sleep" THEN Go("wait") ELSE UNCHANGED cmd
  /\ UNCHANGED <<fields, remote, current, last, abandoned, raced>>

Command ==
  \/ NegotiationFailed \/ TakenOn \/ Deployed \/ DeployFailed \/ FailedTerminated
  \/ \E id \in TaskId : Negotiated(id)
  \/ Wait \/ GetStatus \/ GetData \/ Succeed \/ Fail \/ Cancelled
Http(h) == HttpWrite(h) \/ HttpStatus(h) \/ HttpNotify(h)

Next ==
  \/ \E kind \in Kind : CPSTART(kind)
  \/ CPVAL
  \/ CPMOD
  \/ Command
  \/ \E h \in Handler, g \in Task, empty \in BOOLEAN : RecvResult(h, g, empty)
  \/ \E h \in Handler : Http(h)

Spec == Init /\ [][Next]_vars

\* The threads that are not blocked go on; clients and clusters need not.
FairSpec == Spec /\ WF_vars(Command) /\ \A h \in Handler : WF_vars(Http(h))

-----------------------------------------------------------------------------
(* Properties                                                              *)

Value == {Empty, Torn} \cup Task
Running == [pc : {"negotiate", "deploy", "terminate", "wait", "sleep", "status",
                  "data", "succeed", "fail", "cancel"},
            kind : Kind, read : Value]
Incoming == [pc : {"write", "status", "notify"}, task : Task, empty : BOOLEAN]

TypeOK ==
  /\ taskid \in TaskId \cup {0} /\ status \in BOOLEAN /\ data \in Value
  /\ cmd \in {Resting} \cup Running
  /\ http \in [Handler -> {Resting} \cup Incoming]
  /\ deployed \subseteq Task /\ sent \in [Task -> Nat]
  /\ current \in {0} \cup Task
  /\ last \in {NoReply} \cup [code : {"ok", "fail"}, task : Task, data : Value]
  /\ abandoned \in BOOLEAN /\ raced \in BOOLEAN

\* A CPRES=0 reply carries a result, and one of the task it is about.
ReplyMatches == last.code = "ok" => last.data = last.task

\* It does until a task is given up (cancelled, or its deploy failed), a
\* second result comes in, or data is copied while a handler stores it: the
\* commands and the handlers, which lock around every single access only,
\* mix up tasks and results in no other way.
ReplyMatchesUntilAbandoned == ~abandoned /\ ~raced => ReplyMatches

\* No wake-up is lost although the handler stores the data outside the
\* lock: while CPSTART sleeps on a result that is there, some handler has
\* still to notify it.
SleeperIsNotified ==
  cmd.pc = "sleep" /\ WaitOver =>
    \E h \in Handler : http[h].pc \in {"status", "notify"}

\* A blocking CPSTART returns once a handler has taken a result in, even an
\* empty one and whatever other handlers overwrite.
AcceptedResultEndsWait ==
  \A h \in Handler :
    http[h].pc = "write" /\ cmd.pc \in {"wait", "sleep"} ~> cmd = Resting

\* cmd.cc:640 "the task is running": between commands, a taskid other than
\* 0 is that of a task whose deploy has succeeded.
BusyMeansDeployed == cmd = Resting /\ taskid # 0 => current \in deployed
=============================================================================
