------------------------------ MODULE Lifecycle ------------------------------
(***************************************************************************)
(* The life of a task across the three kinds of nodes: a management client *)
(* (management/taskdep/taskdep.cc) negotiates an id with the storage,      *)
(* deploys the task on a cluster and terminates it on both, over a network *)
(* that loses and delays messages; the cluster reports the end of a task   *)
(* to the storage.                                                         *)
(*                                                                         *)
(* Of the storage only the set of bound ids is kept, of the cluster only   *)
(* the set of deployed ones: StorageServer and Taskmanager detail them.    *)
(* A call of a client is one exchange at a time.  The Workflow library     *)
(* sends a request that fails a second time before it calls back.          *)
(***************************************************************************)
EXTENDS Integers, FiniteSets

CONSTANTS
  Client,       \* management clients, each making one call at a time
  TaskId,       \* task ids
  FirstId,      \* the id every negotiation asks for first
  BusyRetries,  \* busy_retry_max of create_deploy_task
  MaxCalls,     \* bound: negotiations started
  MaxLosses,    \* bound: exchanges that fail
  MaxLate,      \* bound: requests under way after their sender gave up
  MaxBusy       \* bound: busy answers to one deploy

ASSUME LifecycleAssumption ==
  /\ FirstId \in TaskId
  /\ BusyRetries \in Nat
  /\ MaxCalls \in Nat /\ MaxLosses \in Nat /\ MaxLate \in Nat /\ MaxBusy \in Nat

RetryMax == 1  \* retry_max of every create_client_task

VARIABLES
  pc,        \* what each client does: the exchange it is in, or its rest
  task,      \* the id the client's call is about
  leg,       \* where the exchange is: "out", the request; "back", the reply
  tries,     \* times the library has sent this request again
  repeater,  \* the exchange is one of a repeater task
  busy_retry_max,
  busies,    \* busy answers to this deploy
  answer,    \* the reply under way
  bound,     \* storage: ids with an engine
  deployed,  \* cluster: ids in its task table
  reporting, \* cluster: it sends done messages (its endpoints are set)
  late,      \* requests under way whose sender has given up
  dones,     \* id -> done messages under way
  \* history, read by the properties only
  calls, losses, finished,
  undeploys, \* terminate requests addressed to the cluster
  stale      \* a terminate was handled twice or late, or a done was sent

call == <<pc, task, leg, tries, repeater, busy_retry_max, busies, answer>>
servers == <<bound, deployed, reporting>>
history == <<calls, losses, finished, undeploys, stale>>
vars == <<pc, task, leg, tries, repeater, busy_retry_max, busies, answer,
          bound, deployed, reporting, late, dones, calls, losses, finished, undeploys,
          stale>>

Exchange == {"neogiate", "deploy", "unbind", "undeploy"}
Rest == {"idle", "held", "running"}
Status == {"none", "succeed", "conflict", "busy", "illegal", "err"}
NoAnswer == [status |-> "none", alternative |-> FirstId]
Reply(status) == [status |-> status, alternative |-> FirstId]
Late == [op : Exchange, task : TaskId]

Init ==
  /\ pc = [c \in Client |-> "idle"]
  /\ task = [c \in Client |-> FirstId]
  /\ leg = [c \in Client |-> "none"]
  /\ tries = [c \in Client |-> 0]
  /\ repeater = [c \in Client |-> FALSE]
  /\ busy_retry_max = [c \in Client |-> BusyRetries]
  /\ busies = [c \in Client |-> 0]
  /\ answer = [c \in Client |-> NoAnswer]
  /\ bound = {} /\ deployed = {} /\ late = {}
  /\ reporting \in BOOLEAN
  /\ dones = [t \in TaskId |-> 0]
  /\ calls = 0 /\ losses = 0 /\ finished = 0 /\ undeploys = 0 /\ stale = FALSE

-----------------------------------------------------------------------------
(* The client                                                              *)

\* A new client task: its request is under way.
Send(c, op, t) ==
  /\ pc' = [pc EXCEPT ![c] = op]
  /\ task' = [task EXCEPT ![c] = t]
  /\ leg' = [leg EXCEPT ![c] = "out"]
  /\ tries' = [tries EXCEPT ![c] = 0]
  /\ answer' = [answer EXCEPT ![c] = NoAnswer]

\* The call returns.
Return(c, rest) ==
  /\ pc' = [pc EXCEPT ![c] = rest]
  /\ leg' = [leg EXCEPT ![c] = "none"]
  /\ answer' = [answer EXCEPT ![c] = NoAnswer]
  /\ UNCHANGED <<task, tries>>

create_neogiate_task(c) ==
  /\ pc[c] = "idle"
  /\ calls < MaxCalls
  /\ calls' = calls + 1
  /\ Send(c, "neogiate", FirstId)
  /\ repeater' = [repeater EXCEPT ![c] = FALSE]
  /\ UNCHANGED <<busy_retry_max, busies, servers, late, dones, losses, finished,
                 undeploys, stale>>

create_deploy_task(c) ==
  /\ pc[c] = "held"
  /\ Send(c, "deploy", task[c])
  /\ repeater' = [repeater EXCEPT ![c] = FALSE]
  /\ busy_retry_max' = [busy_retry_max EXCEPT ![c] = BusyRetries]
  /\ busies' = [busies EXCEPT ![c] = 0]
  /\ UNCHANGED <<servers, late, dones, history>>

\* create_terminate_task, called when the user cancels the task: first to
\* the storage, then to the cluster.
create_terminate_task(c) ==
  /\ pc[c] \in {"held", "running"}
  /\ Send(c, "unbind", task[c])
  /\ UNCHANGED <<repeater, busy_retry_max, busies, servers, late, dones, history>>

\* The user has the result: the router forgets the task and sends nothing.
Finish(c) ==
  /\ pc[c] = "running"
  /\ Return(c, "idle")
  /\ finished' = finished + 1
  /\ UNCHANGED <<repeater, busy_retry_max, busies, servers, late, dones, calls, losses,
                 undeploys, stale>>

FaultyRecvNeogiate(c) ==  \* a conflict is taken for a success
  /\ pc[c] = "neogiate" /\ leg[c] = "back"
  /\ Return(c, "held")
  /\ UNCHANGED <<repeater, busy_retry_max, busies, servers, late, dones, history>>

FaultyConflict(c) ==  \* the same id is asked for again
  /\ pc[c] = "neogiate" /\ leg[c] = "back"
  /\ IF answer[c].status = "succeed"
     THEN Return(c, "held") /\ UNCHANGED repeater
     ELSE /\ Send(c, "neogiate", task[c])
          /\ repeater' = [repeater EXCEPT ![c] = TRUE]
  /\ UNCHANGED <<busy_retry_max, busies, servers, late, dones, history>>

\* The callbacks.  A conflict makes the alternative the next id asked for.
RecvNeogiate(c) ==
  /\ pc[c] = "neogiate" /\ leg[c] = "back"
  /\ IF answer[c].status = "succeed"
     THEN Return(c, "held") /\ UNCHANGED repeater
     ELSE /\ Send(c, "neogiate", answer[c].alternative)
          /\ repeater' = [repeater EXCEPT ![c] = TRUE]
  /\ UNCHANGED <<busy_retry_max, busies, servers, late, dones, history>>

FaultyRecvDeploy(c) ==  \* the caller does not terminate a task it cannot deploy
  /\ pc[c] = "deploy" /\ leg[c] = "back"
  /\ Return(c, IF answer[c].status = "succeed" THEN "running" ELSE "idle")
  /\ UNCHANGED <<repeater, busy_retry_max, busies, servers, late, dones, history>>

\* A busy cluster is asked again: the assignment of success that stops the
\* repeater when busy_retry_max is 0 is overwritten by the next statement.
\* Any other status but succeed makes the caller terminate the task, and so
\* may every answer to a repeater: its callback compares the answer's id
\* with a parameter of a function that has returned (taskdep.cc:99).
RecvDeploy(c) ==
  /\ pc[c] = "deploy" /\ leg[c] = "back"
  /\ \/ /\ answer[c].status = "succeed"
        /\ Return(c, "running")
        /\ UNCHANGED <<repeater, busy_retry_max, busies>>
     \/ /\ answer[c].status = "busy"
        /\ Send(c, "deploy", task[c])
        /\ repeater' = [repeater EXCEPT ![c] = TRUE]
        /\ busy_retry_max' = [busy_retry_max EXCEPT ![c] = IF repeater[c] THEN @ - 1 ELSE @]
        /\ busies' = [busies EXCEPT ![c] = @ + 1]
     \/ /\ repeater[c] \/ answer[c].status \notin {"succeed", "busy"}
        /\ Send(c, "unbind", task[c])
        /\ UNCHANGED <<repeater, busy_retry_max, busies>>
  /\ UNCHANGED <<servers, late, dones, history>>

\* The answers to terminate are not looked at.
AfterUnbind(c) == Send(c, "undeploy", task[c]) /\ undeploys' = undeploys + 1
AfterUndeploy(c) == Return(c, "idle") /\ UNCHANGED undeploys
RecvTerminate(c) ==
  /\ leg[c] = "back"
  /\ \/ pc[c] = "unbind" /\ AfterUnbind(c)
     \/ pc[c] = "undeploy" /\ AfterUndeploy(c)
  /\ UNCHANGED <<repeater, busy_retry_max, busies, servers, late, dones, calls, losses,
                 finished, stale>>

\* An exchange fails: its request or reply is lost, or the request stays
\* under way (lag).  The library sends it once more; then the callback of a
\* repeater has it sent again, and the others give up.
GiveUp(c) ==
  \/ pc[c] = "unbind" /\ AfterUnbind(c)
  \/ pc[c] = "undeploy" /\ AfterUndeploy(c)
  \/ /\ \/ pc[c] = "neogiate" /\ ~repeater[c] /\ Return(c, "idle")
        \/ pc[c] = "deploy" /\ ~repeater[c] /\ Send(c, "unbind", task[c])
        \/ pc[c] \in {"neogiate", "deploy"} /\ repeater[c] /\ Send(c, pc[c], task[c])
     /\ UNCHANGED undeploys

Fail(c, lag) ==
  /\ leg[c] \in {"out", "back"}
  /\ losses < MaxLosses
  /\ losses' = losses + 1
  /\ lag => leg[c] = "out" /\ Cardinality(late) < MaxLate
  /\ late' = IF lag THEN late \cup {[op |-> pc[c], task |-> task[c]]} ELSE late
  /\ stale' = (stale \/ (pc[c] = "unbind" /\ (lag \/ (leg[c] = "back" /\ tries[c] < RetryMax))))
  /\ IF tries[c] < RetryMax
     THEN /\ leg' = [leg EXCEPT ![c] = "out"]
          /\ tries' = [tries EXCEPT ![c] = @ + 1]
          /\ answer' = [answer EXCEPT ![c] = NoAnswer]
          /\ UNCHANGED <<pc, task, undeploys>>
     ELSE GiveUp(c)
  /\ UNCHANGED <<repeater, busy_retry_max, busies, servers, dones, calls, finished>>

\* A reply without its last fields parses all the same.  Without the id it
\* is another task's answer and ends the call; without neogiate or deploy
\* the callback dereferences a null pointer, and the client starts anew.
CutReply(c) ==
  /\ pc[c] \in {"neogiate", "deploy"} /\ leg[c] = "back"
  /\ losses < MaxLosses
  /\ losses' = losses + 1
  /\ Return(c, "idle") \/ (pc[c] = "deploy" /\ Send(c, "unbind", task[c]))
  /\ UNCHANGED <<repeater, busy_retry_max, busies, servers, late, dones, calls, finished,
                 undeploys, stale>>

-----------------------------------------------------------------------------
(* The storage and the cluster                                             *)

Arrived(c, op) == pc[c] = op /\ leg[c] = "out"
Answer(c, reply) ==
  /\ leg' = [leg EXCEPT ![c] = "back"]
  /\ answer' = [answer EXCEPT ![c] = reply]
  /\ UNCHANGED <<pc, task, tries, repeater, busy_retry_max, busies>>

FaultyStorageNeogiate(c, alternative) ==  \* the alternative is the id 0
  /\ Arrived(c, "neogiate")
  /\ IF task[c] \in bound
     THEN /\ Answer(c, [status |-> "conflict", alternative |-> 0])
          /\ UNCHANGED bound
     ELSE /\ bound' = bound \cup {task[c]}
          /\ Answer(c, Reply("succeed"))
  /\ UNCHANGED <<deployed, reporting, late, dones, history>>
FaultyStorageConflict(c, alternative) ==  \* the check for a conflict is left out
  /\ Arrived(c, "neogiate")
  /\ bound' = bound \cup {task[c]}
  /\ Answer(c, Reply("succeed"))
  /\ UNCHANGED <<deployed, reporting, late, dones, history>>
\* A bound id is in conflict; the alternative is random.
StorageNeogiate(c, alternative) ==
  /\ Arrived(c, "neogiate")
  /\ IF task[c] \in bound
     THEN /\ Answer(c, [status |-> "conflict", alternative |-> alternative])
          /\ UNCHANGED bound
     ELSE /\ bound' = bound \cup {task[c]}
          /\ Answer(c, Reply("succeed"))
  /\ UNCHANGED <<deployed, reporting, late, dones, history>>

StorageTerminate(c) ==
  /\ Arrived(c, "unbind")
  /\ bound' = bound \ {task[c]}
  /\ Answer(c, NoAnswer)
  /\ UNCHANGED <<deployed, reporting, late, dones, history>>

\* started: the submission could be started, else the deploy is undone.
ClusterDeploy(c, started) ==
  /\ Arrived(c, "deploy")
  /\ IF task[c] \in deployed
     THEN Answer(c, Reply("illegal")) /\ UNCHANGED deployed
     ELSE /\ deployed' = IF started THEN deployed \cup {task[c]} ELSE deployed
          /\ Answer(c, Reply(IF started THEN "succeed" ELSE "err"))
  /\ UNCHANGED <<bound, reporting, late, dones, history>>

\* The protocol knows the status busy; this repository's cluster never
\* answers it.
ClusterBusy(c) ==
  /\ Arrived(c, "deploy")
  /\ busies[c] < MaxBusy
  /\ Answer(c, Reply("busy"))
  /\ UNCHANGED <<servers, late, dones, history>>

ClusterTerminate(c) ==
  /\ Arrived(c, "undeploy")
  /\ deployed' = deployed \ {task[c]}
  /\ Answer(c, NoAnswer)
  /\ UNCHANGED <<bound, reporting, late, dones, history>>

\* A request whose sender has given up is handled all the same.
LateArrives(m) ==
  /\ m \in late
  /\ late' = late \ {m}
  /\ bound' = CASE m.op = "neogiate" -> bound \cup {m.task}
                [] m.op = "unbind"   -> bound \ {m.task}
                [] OTHER             -> bound
  /\ \/ deployed' = CASE m.op = "deploy"   -> deployed \cup {m.task}
                      [] m.op = "undeploy" -> deployed \ {m.task}
                      [] OTHER             -> deployed
     \/ m.op = "deploy" /\ UNCHANGED deployed
  /\ UNCHANGED <<call, reporting, dones, history>>

\* The result of a task is back at the cluster: remove_task(taskid, true).
ClusterResult(t) ==
  /\ t \in deployed
  /\ deployed' = deployed \ {t}
  /\ dones' = IF reporting THEN [dones EXCEPT ![t] = @ + 1] ELSE dones
  /\ stale' = (stale \/ reporting)
  /\ UNCHANGED <<call, bound, reporting, late, calls, losses, finished, undeploys>>

FaultyDone(t) ==  \* the storage does not unbind the task
  /\ dones[t] > 0
  /\ dones' = [dones EXCEPT ![t] = @ - 1]
  /\ UNCHANGED <<call, servers, late, history>>

DoneArrives(t) ==
  /\ dones[t] > 0
  /\ dones' = [dones EXCEPT ![t] = @ - 1]
  /\ bound' = bound \ {t}
  /\ UNCHANGED <<call, deployed, reporting, late, history>>

DoneLost(t) ==
  /\ dones[t] > 0
  /\ losses < MaxLosses
  /\ losses' = losses + 1
  /\ dones' = [dones EXCEPT ![t] = @ - 1]
  /\ UNCHANGED <<call, servers, late, calls, finished, undeploys, stale>>

\* The storage has handled done and its reply is lost: the library sends the
\* message again.
DoneRepeated(t) ==
  /\ dones[t] > 0
  /\ losses < MaxLosses
  /\ losses' = losses + 1
  /\ bound' = bound \ {t}
  /\ UNCHANGED <<call, deployed, reporting, late, dones, calls, finished, undeploys, stale>>

Recv(c) == RecvNeogiate(c) \/ RecvDeploy(c) \/ RecvTerminate(c)
Serve(c) ==
  \/ \E alternative \in TaskId : StorageNeogiate(c, alternative)
  \/ StorageTerminate(c)
  \/ \E started \in BOOLEAN : ClusterDeploy(c, started)
  \/ ClusterTerminate(c)

Next ==
  \/ \E c \in Client : create_neogiate_task(c)
  \/ \E c \in Client : create_deploy_task(c)
  \/ \E c \in Client : create_terminate_task(c)
  \/ \E c \in Client : Finish(c)
  \/ \E c \in Client : Recv(c)
  \/ \E c \in Client, lag \in BOOLEAN : Fail(c, lag)
  \/ \E c \in Client : CutReply(c)
  \/ \E c \in Client : Serve(c)
  \/ \E c \in Client : ClusterBusy(c)
  \/ \E m \in late : LateArrives(m)
  \/ \E t \in TaskId : ClusterResult(t)
  \/ \E t \in TaskId : DoneArrives(t)
  \/ \E t \in TaskId : DoneLost(t)
  \/ \E t \in TaskId : DoneRepeated(t)

Spec == Init /\ [][Next]_vars

\* An exchange under way moves on: requests are handled, replies are taken
\* in.  A random alternative is a free id now and again; losses are bounded,
\* so the network recovers.
FreeAlternative(c) ==
  \E alternative \in TaskId \ bound : StorageNeogiate(c, alternative)
FairSpec ==
  /\ Spec
  /\ \A c \in Client : WF_vars(Recv(c) \/ Serve(c)) /\ SF_vars(FreeAlternative(c))

-----------------------------------------------------------------------------
(* Properties                                                              *)

TypeOK ==
  /\ pc \in [Client -> Exchange \cup Rest]
  /\ task \in [Client -> TaskId]
  /\ leg \in [Client -> {"none", "out", "back"}]
  /\ tries \in [Client -> 0..RetryMax]
  /\ repeater \in [Client -> BOOLEAN]
  /\ busy_retry_max \in [Client -> Int] /\ busies \in [Client -> Nat]
  /\ answer \in [Client -> [status : Status, alternative : TaskId]]
  /\ bound \subseteq TaskId /\ deployed \subseteq TaskId /\ reporting \in BOOLEAN
  /\ late \subseteq Late
  /\ dones \in [TaskId -> Nat]
  /\ calls \in Nat /\ losses \in Nat /\ finished \in Nat
  /\ undeploys \in Nat /\ stale \in BOOLEAN

\* The client has been given the id and has not begun to give it back.
Holds(c) == pc[c] \in {"held", "deploy", "running"}

\* test_taskdep.cc:50: a negotiation returns another id than the one of a
\* task that an earlier negotiation has returned and nobody has ended.
IdsDistinct ==
  \A c, d \in Client : Holds(c) /\ Holds(d) /\ task[c] = task[d] => c = d

\* Lost requests and replies, repeated and delayed negotiations do not
\* break that, and the storage keeps the engine of every task a client
\* holds; only a terminate that is handled twice or late, or the done
\* message of a cluster, can take them away.
IdsExclusiveUntilStale ==
  ~stale => IdsDistinct /\ \A c \in Client : Holds(c) => task[c] \in bound

\* The negotiation of ids as its users see it: every step of the exchanges
\* above is a step of TaskLife or changes nothing there.  Requests, replies
\* and done messages under way are not part of that view.
Life == INSTANCE TaskLife WITH
  holds <- [c \in Client |-> IF Holds(c) THEN {task[c]} ELSE {}],
  started <- {c \in Client : pc[c] = "running"},
  spoiled <- stale
ImplementsTaskLife == Life!Spec

\* Bindings nobody will ever remove: no client holds the id or is about to
\* and no terminate or done that removes it is to come.
Accounted(c, t) ==
  /\ task[c] = t
  /\ \/ Holds(c)
     \/ pc[c] = "neogiate" /\ leg[c] = "back" /\ answer[c].status = "succeed"
     \/ pc[c] = "unbind" /\ leg[c] = "out"
Orphans ==
  {t \in bound : /\ \A c \in Client : ~Accounted(c, t)
                 /\ dones[t] = 0
                 /\ ~(reporting /\ t \in deployed)}

\* The storage leaks at most one binding per failed exchange, and besides:
\* one per finished task when clusters do not report; when they do, one per
\* terminate sent to the cluster, which comes after the storage has freed
\* the id and may hit a task that was given the id in between.
OrphansBounded ==
  Cardinality(Orphans) <= losses + (IF reporting THEN undeploys ELSE finished)

\* A negotiation returns, whatever ids conflict and although the repeater
\* never gives up.
NegotiationReturns == \A c \in Client : pc[c] = "neogiate" ~> pc[c] \in Rest

\* cmd.cc:739 "busy is retried 5 times": a deploy that is answered busy is
\* asked again busy_retry_max times and not more.  The code means to allow
\* one more: the first request is not the repeater's, and the repeater tests
\* its counter for 0 before it counts.
BusyBounded == \A c \in Client : busies[c] <= BusyRetries + 2
=============================================================================
