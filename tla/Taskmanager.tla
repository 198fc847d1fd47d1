----------------------------- MODULE Taskmanager -----------------------------
(***************************************************************************)
(* The task table of a computation cluster                                 *)
(* (computation/infer/infer.cc, class Taskmanager) together with its only  *)
(* users: the request handlers of ClusterServer                            *)
(* (computation/taskdep/taskdep.cc, process) and the callback that          *)
(* receives the result of a submitted task.                                *)
(*                                                                         *)
(* task_mutex makes every method of Taskmanager atomic, so one action is   *)
(* one method call; a handler that makes several calls is a thread of its  *)
(* own and other handlers run between its calls.                           *)
(***************************************************************************)
EXTENDS Integers, Sequences, FiniteSets

CONSTANTS
  TaskId,      \* the 64-bit ids the management side may use
  IdSpan,      \* 2^32: SubmitRequest carries the id in a uint32_t
  Handler,     \* handler threads of the cluster's taskdep server
  MaxDeps,     \* bound: dependencies named by one deploy request
  MaxDeploys,  \* bound: deployments of one task id
  MaxRuns      \* bound: submissions of one task id whose result is pending

ASSUME TaskmanagerAssumption ==
  /\ TaskId \subseteq Nat
  /\ IdSpan \in Nat \ {0}
  /\ MaxDeps \in Nat /\ MaxDeploys \in Nat /\ MaxRuns \in Nat

VARIABLES
  tasks,      \* unordered_map taskid -> Taskinfo, kept as taskid -> dep_pos
  edges,      \* vector<vector<bool>>: edges[i][j], row i waits on column j
  loaded,     \* the DrccpServer this cluster submits to has been loaded
  reporting,  \* client and server endpoints are set and pass check()
  running,    \* taskid -> submissions whose result has not come back
  handler,    \* the deploy request each handler thread is working on
  crashed,    \* an exception left a handler: the process has terminated
  \* history, read by the properties only
  waits,      \* taskid -> the deployed tasks it was declared to depend on
  shifted,    \* remove_task has erased a position that was not the last
  deploys,    \* taskid -> deployments accepted so far
  dones       \* taskid -> copies of done sent to the storage so far

code == <<tasks, edges, loaded, reporting, running, handler, crashed>>
history == <<waits, shifted, deploys, dones>>
vars == <<tasks, edges, loaded, reporting, running, handler, crashed,
          waits, shifted, deploys, dones>>

RetryMax == 1  \* retry_max of the client task that carries done
Bit == {0, 1}  \* an element of a vector<bool>
Trigger == {"create", "deps", "manual"}
DepList == UNION {[1..n -> TaskId] : n \in 0..MaxDeps}
Idle == [pc |-> "idle"]
Request == [pc : {"submit", "add_deps", "rollback"},
            task : TaskId, deps : DepList]

\* static_cast of SubmitRequest::set_taskid(uint32_t): the low bits of the id.
Narrow(t) == t % IdSpan

-----------------------------------------------------------------------------
(* Vectors.  Positions count from 0 as in the code, sequences from 1.      *)

push_back(v, x) == [j \in 1..(Len(v) + 1) |-> IF j <= Len(v) THEN v[j] ELSE x]

\* v.erase(v.begin() + pos).  With pos beyond the end (undefined behaviour)
\* libstdc++ moves nothing and drops the last element, which is what the
\* same expression gives.
erase(v, pos) == [j \in 1..(Len(v) - 1) |-> IF j <= pos THEN v[j] ELSE v[j + 1]]

(* Taskmanager's methods on a table tk and a matrix ed.  The definitions   *)
(* named Faulty... are plausible bugs that the properties must notice;     *)
(* nothing in the specification uses them.                                 *)

FaultyDeployTasks(tk, t) ==  \* dep_pos = size - 1
  [x \in DOMAIN tk \cup {t} |-> IF x = t THEN Cardinality(DOMAIN tk) - 1 ELSE tk[x]]
DeployTasks(tk, t) ==
  [x \in DOMAIN tk \cup {t} |-> IF x = t THEN Cardinality(DOMAIN tk) ELSE tk[x]]

FaultyDeployEdges(tk, ed) ==  \* the old rows are not extended
  push_back(ed, [j \in 1..(Cardinality(DOMAIN tk) + 1) |-> 0])
DeployEdges(tk, ed) ==
  push_back([i \in 1..Len(ed) |-> push_back(ed[i], 0)],
            [j \in 1..(Cardinality(DOMAIN tk) + 1) |-> 0])

\* edges.at(row) and edges.at(row).at(col) throw std::out_of_range.
RowMissing(tk, ed, t) == tk[t] >= Len(ed)
CellMissing(tk, ed, t, d) ==
  RowMissing(tk, ed, t) \/ tk[d] >= Len(ed[tk[t] + 1])

\* add_deps walks the list and stops at the first name that is unknown
\* (it returns -1) or at the first cell that does not exist (it throws).
StopsAt(tk, ed, t, ds, i) ==
  ds[i] \notin DOMAIN tk \/ CellMissing(tk, ed, t, ds[i])
Walked(tk, ed, t, ds) ==
  {i \in 1..Len(ds) : \A j \in 1..i : ~StopsAt(tk, ed, t, ds, j)}
AddDepsOutcome(tk, ed, t, ds) ==
  IF t \notin DOMAIN tk THEN "missing"
  ELSE IF Walked(tk, ed, t, ds) = 1..Len(ds) THEN "ok"
  ELSE IF \E i \in 1..Len(ds) : /\ 1..(i - 1) \subseteq Walked(tk, ed, t, ds)
                                /\ ds[i] \in DOMAIN tk
                                /\ CellMissing(tk, ed, t, ds[i])
  THEN "throw" ELSE "missing"
Linked(tk, ed, t, ds) == {ds[i] : i \in Walked(tk, ed, t, ds)}
FaultyAddDepsEdges(tk, ed, t, ds) ==  \* row and column swapped
  IF t \notin DOMAIN tk THEN ed
  ELSE [i \in 1..Len(ed) |->
         [j \in 1..Len(ed[i]) |->
            IF j = tk[t] + 1 /\ \E d \in Linked(tk, ed, t, ds) : i = tk[d] + 1
            THEN 1 ELSE ed[i][j]]]
AddDepsEdges(tk, ed, t, ds) ==
  IF t \notin DOMAIN tk THEN ed
  ELSE [i \in 1..Len(ed) |->
         [j \in 1..Len(ed[i]) |->
            IF i = tk[t] + 1 /\ \E d \in Linked(tk, ed, t, ds) : j = tk[d] + 1
            THEN 1 ELSE ed[i][j]]]

\* submit refuses a task whose row still holds a set bit.
SubmitOutcome(tk, ed, t) ==
  IF t \notin DOMAIN tk THEN "refuse"
  ELSE IF RowMissing(tk, ed, t) THEN "throw"
  ELSE IF \E j \in 1..Len(ed[tk[t] + 1]) : ed[tk[t] + 1][j] = 1 THEN "refuse"
  ELSE "go"

RemoveTasks(tk, t) == [x \in DOMAIN tk \ {t} |-> tk[x]]
FaultyRemoveEdges(tk, ed, t) == erase(ed, tk[t])  \* the column stays
RemoveEdges(tk, ed, t) ==
  LET rows == erase(ed, tk[t])
  IN  [i \in 1..Len(rows) |-> erase(rows[i], tk[t])]

-----------------------------------------------------------------------------
Init ==
  /\ tasks = <<>>
  /\ edges = <<>>
  /\ loaded = FALSE
  /\ reporting \in BOOLEAN
  /\ running = [t \in TaskId |-> 0]
  /\ handler = [h \in Handler |-> Idle]
  /\ crashed = FALSE
  /\ waits = <<>>
  /\ shifted = FALSE
  /\ deploys = [t \in TaskId |-> 0]
  /\ dones = [t \in TaskId |-> 0]

\* The effect of remove_task on the table; nothing when the id is unknown.
Remove(t) ==
  IF t \in DOMAIN tasks
  THEN /\ tasks' = RemoveTasks(tasks, t)
       /\ edges' = RemoveEdges(tasks, edges, t)
       /\ waits' = [x \in DOMAIN waits \ {t} |-> waits[x] \ {t}]
       /\ shifted' = (shifted \/ tasks[t] # Cardinality(DOMAIN tasks) - 1)
  ELSE UNCHANGED <<tasks, edges, waits, shifted>>

\* submit followed by the start of the series it returned.  manager.submit
\* returns nullptr while no server of that name is loaded.
Submit(t) ==
  \/ /\ SubmitOutcome(tasks, edges, t) = "go" /\ loaded
     /\ running' = [running EXCEPT ![t] = @ + 1]
     /\ UNCHANGED crashed
  \/ /\ SubmitOutcome(tasks, edges, t) = "throw"
     /\ crashed' = TRUE
     /\ UNCHANGED running

SubmitRefused(t) ==
  \/ SubmitOutcome(tasks, edges, t) = "refuse"
  \/ SubmitOutcome(tasks, edges, t) = "go" /\ ~loaded

(* DrccpServerManager::load_server_config                                  *)
LoadServer ==
  /\ ~crashed /\ ~loaded
  /\ loaded' = TRUE
  /\ UNCHANGED <<tasks, edges, reporting, running, handler, crashed, history>>

\* MSG_TYPE::deploy: deploy_task, then by the trigger submit or add_deps.
RecvDeploy(h, t, trigger, ds) ==
  /\ ~crashed
  /\ handler[h] = Idle
  /\ t \notin DOMAIN tasks        \* otherwise Deploy_status::illegal, no change
  /\ deploys[t] < MaxDeploys
  /\ trigger # "deps" => ds = <<>>
  /\ tasks' = DeployTasks(tasks, t)
  /\ edges' = DeployEdges(tasks, edges)
  /\ waits' = [x \in DOMAIN waits \cup {t} |-> IF x = t THEN {} ELSE waits[x]]
  /\ deploys' = [deploys EXCEPT ![t] = @ + 1]
  /\ handler' = [handler EXCEPT ![h] =
       CASE trigger = "create" -> [pc |-> "submit", task |-> t, deps |-> ds]
         [] trigger = "deps"   -> [pc |-> "add_deps", task |-> t, deps |-> ds]
         [] OTHER              -> Idle]
  /\ UNCHANGED <<loaded, reporting, running, crashed, shifted, dones>>

DeploySubmit(h) ==
  /\ ~crashed
  /\ handler[h].pc = "submit"
  /\ \/ /\ running[handler[h].task] < MaxRuns
        /\ Submit(handler[h].task)
        /\ handler' = [handler EXCEPT ![h] = Idle]
     \/ /\ SubmitRefused(handler[h].task)
        /\ handler' = [handler EXCEPT ![h].pc = "rollback"]
        /\ UNCHANGED <<running, crashed>>
  /\ UNCHANGED <<tasks, edges, loaded, reporting, history>>

DeployAddDeps(h) ==
  /\ ~crashed
  /\ handler[h].pc = "add_deps"
  /\ LET t  == handler[h].task
         ds == handler[h].deps
         outcome == AddDepsOutcome(tasks, edges, t, ds)
     IN  /\ edges' = AddDepsEdges(tasks, edges, t, ds)
         /\ waits' = IF t \in DOMAIN tasks
                     THEN [waits EXCEPT ![t] = @ \cup Linked(tasks, edges, t, ds)]
                     ELSE waits
         /\ handler' = IF outcome = "missing"
                       THEN [handler EXCEPT ![h].pc = "rollback"]
                       ELSE [handler EXCEPT ![h] = Idle]
         /\ crashed' = (outcome = "throw")
  /\ UNCHANGED <<tasks, loaded, reporting, running, shifted, deploys, dones>>

\* remove_task(taskid, false) of a deploy answered err or depsbroken.
DeployRollback(h) ==
  /\ ~crashed
  /\ handler[h].pc = "rollback"
  /\ Remove(handler[h].task)
  /\ handler' = [handler EXCEPT ![h] = Idle]
  /\ UNCHANGED <<loaded, reporting, running, crashed, deploys, dones>>

(* MSG_TYPE::terminate *)
RecvTerminate(t) ==
  /\ ~crashed
  /\ t \in DOMAIN tasks
  /\ Remove(t)
  /\ UNCHANGED <<loaded, reporting, running, handler, crashed, deploys, dones>>

(* MSG_TYPE::trigger *)
RecvTrigger(t) ==
  /\ ~crashed
  /\ running[t] < MaxRuns
  /\ Submit(t)
  /\ UNCHANGED <<tasks, edges, loaded, reporting, handler, history>>

\* The result of a submission reaches on_client_recieve_result.  The empty
\* one is dropped; any other removes the task its narrowed id names and
\* reports it to the storage.
RecvEmptyResult(t) ==
  /\ ~crashed
  /\ running[t] > 0
  /\ running' = [running EXCEPT ![t] = @ - 1]
  /\ UNCHANGED <<tasks, edges, loaded, reporting, handler, crashed, history>>

FaultyRecvResult(t, again) ==  \* remove_task reports an id it does not know
  /\ ~crashed
  /\ running[t] > 0
  /\ running' = [running EXCEPT ![t] = @ - 1]
  /\ Remove(Narrow(t))
  /\ dones' = IF reporting THEN [dones EXCEPT ![Narrow(t)] = @ + 1 + again] ELSE dones
  /\ UNCHANGED <<loaded, reporting, handler, crashed, deploys>>

\* again: how often the library sends the done message another time, which
\* it does when the exchange fails; the storage may have heard it before.
RecvResult(t, again) ==
  /\ ~crashed
  /\ running[t] > 0
  /\ running' = [running EXCEPT ![t] = @ - 1]
  /\ Remove(Narrow(t))
  /\ dones' = IF Narrow(t) \in DOMAIN tasks /\ reporting
              THEN [dones EXCEPT ![Narrow(t)] = @ + 1 + again]
              ELSE dones
  /\ UNCHANGED <<loaded, reporting, handler, crashed, deploys>>

Next ==
  \/ LoadServer
  \/ \E h \in Handler, t \in TaskId, trigger \in Trigger, ds \in DepList :
       RecvDeploy(h, t, trigger, ds)
  \/ \E h \in Handler : DeploySubmit(h)
  \/ \E h \in Handler : DeployAddDeps(h)
  \/ \E h \in Handler : DeployRollback(h)
  \/ \E t \in TaskId : RecvTerminate(t)
  \/ \E t \in TaskId : RecvTrigger(t)
  \/ \E t \in TaskId : RecvEmptyResult(t)
  \/ \E t \in TaskId, again \in 0..RetryMax : RecvResult(t, again)

Spec == Init /\ [][Next]_vars

-----------------------------------------------------------------------------
(* Properties                                                              *)

TypeOK ==
  /\ DOMAIN tasks \subseteq TaskId /\ IsFiniteSet(DOMAIN tasks)
  /\ tasks \in [DOMAIN tasks -> Nat]
  /\ edges \in Seq(Seq(Bit))
  /\ loaded \in BOOLEAN /\ reporting \in BOOLEAN
  /\ running \in [TaskId -> Nat]
  /\ handler \in [Handler -> {Idle} \cup Request]
  /\ crashed \in BOOLEAN
  /\ waits \in [DOMAIN tasks -> SUBSET DOMAIN tasks]
  /\ shifted \in BOOLEAN
  /\ deploys \in [TaskId -> Nat] /\ dones \in [TaskId -> Nat]

\* deploy_task and remove_task keep the dependency matrix square, with one
\* row and one column per deployed task, whatever handlers interleave and
\* even when remove_task erases beyond the end of a row.
SquareMatrix ==
  /\ Len(edges) = Cardinality(DOMAIN tasks)
  /\ \A i \in 1..Len(edges) : Len(edges[i]) = Cardinality(DOMAIN tasks)

\* dep_pos numbers the deployed tasks 0, 1, ... and the matrix holds
\* exactly the declared dependencies that are still deployed.
PositionsExact ==
  LET n == Cardinality(DOMAIN tasks)
  IN  /\ \A t \in DOMAIN tasks : tasks[t] < n
      /\ \A t, u \in DOMAIN tasks : tasks[t] = tasks[u] => t = u
      /\ \A p \in 0..(n - 1) : \E t \in DOMAIN tasks : tasks[t] = p
      /\ \A t, d \in DOMAIN tasks :
           edges[tasks[t] + 1][tasks[d] + 1] = 1 <=> d \in waits[t]

\* What submit promises: a deployed task is started exactly when every task
\* it depends on is gone, and no lookup in the matrix throws.
SubmitFollowsDeps ==
  /\ ~crashed
  /\ \A t \in DOMAIN tasks :
       SubmitOutcome(tasks, edges, t) = IF waits[t] = {} THEN "go" ELSE "refuse"

\* remove_task does not renumber the tasks behind the one it erases, so the
\* promise is kept only as long as every removal took the task deployed
\* last.  Until the first other removal it is kept, whatever the handlers
\* interleave, and the positions are exact.
ExactUntilShift == ~shifted => PositionsExact /\ SubmitFollowsDeps

\* Tasks of this id whose deployment has come to an end.
Ended(t) == deploys[t] - (IF t \in DOMAIN tasks THEN 1 ELSE 0)

\* However often a task is triggered and however many of its results come
\* back, late ones and those of an id with the same low bits included, the
\* storage hears of no task that is still deployed, and of an ended one at
\* most what the library makes of one done message (infer.cc:612).
OneDonePerDeployment == \A t \in TaskId : dones[t] <= (1 + RetryMax) * Ended(t)

\* A deploy whose dependencies are broken is undone without a trace: with
\* no other handler in between, remove_task takes back what deploy_task
\* and the part of add_deps before the unknown name have written.
RollbackExact ==
  \A t \in TaskId \ DOMAIN tasks, ds \in DepList :
    LET tk == DeployTasks(tasks, t)
        ed == AddDepsEdges(tk, DeployEdges(tasks, edges), t, ds)
    IN  /\ RemoveTasks(tk, t) = tasks
        /\ RemoveEdges(tk, ed, t) = edges

\* The callback of a submission carries out the removal of the task that
\* was submitted (infer.cc:483).
ResultRetiresTask ==
  [][\A t \in TaskId, again \in 0..RetryMax :
       RecvResult(t, again) => t \notin DOMAIN tasks']_vars

\* test_infer.cc:115: submit starts no task that depends on another one
\* still in the table.  It does once remove_task has shifted the rows: the
\* task at a stale position is judged by the row of another.
DepsBeforeSubmit ==
  [][\A t \in DOMAIN tasks : running'[t] > running[t] => waits[t] \subseteq {t}]_vars
=============================================================================
