----------------------------- MODULE Inference -----------------------------
(***************************************************************************)
(* A task from its submission to its result (computation/infer/infer.cc,   *)
(* computation/datatransfer/client_task.cc, computation/engine/Engine.cc): *)
(* the cluster submits it, a node receives the payload, pulls the task's   *)
(* engine from the storage, writes it to a file, loads that file, computes *)
(* and answers; the result goes to its output and ends the task.           *)
(*                                                                         *)
(* The handlers are threads of the servers of one DrccpServerManager: they *)
(* share a process and a working directory, with the cluster's task table  *)
(* when the node runs its own submissions.  Of the drccp exchange only     *)
(* this is kept: a payload is received again until one answer to it is     *)
(* accepted (Drccp has the details).  Negotiation and deployment are one   *)
(* step here (Lifecycle, Taskmanager).  Times are left out, and so are the *)
(* period and the policies of a task, which are carried along and not read.*)
(***************************************************************************)
EXTENDS Naturals, Sequences, FiniteSets, SequencesExt

CONSTANTS
  Handler,     \* handlers of the node's process
  TaskId,      \* task ids, 64 bits wide in the cluster and the storage
  Width,       \* ids are cut to 32 bits on the way: % Width
  Model,       \* engines stored under a model id and a name
  Private,     \* binaries that come with a negotiation
  Absent,      \* engines the storage has no file of, or an empty one
  Symbol,      \* engine -> the name its generator was compiled under
  Bytes,       \* engines whose output is not plain text
  Job,         \* the engines, inputs and outputs tasks are started with
  MaxDeps,     \* bound: models an engine depends on
  MaxTasks,    \* bound: tasks started
  MaxFaults,   \* bound: exchanges and file operations that fail, cancellations
  MaxCrashes   \* bound: crashes of the node's process

ASSUME InferenceAssumption ==
  /\ TaskId \subseteq Nat
  /\ Width \in Nat \ {0}
  /\ Absent \subseteq Model \cup Private
  /\ DOMAIN Symbol = Model \cup Private
  /\ Bytes \subseteq Model \cup Private
  /\ MaxDeps \in Nat /\ MaxTasks \in Nat /\ MaxFaults \in Nat /\ MaxCrashes \in Nat

Nothing == "nothing"        \* no file, no engine, no output
Empty == "empty"            \* a file that was opened and not, or not all, written
Garbled == "garbled"        \* an output cut at its first NUL
Anonymous == "0000aaaa"     \* name of the engine that came with a negotiation

Short == {t % Width : t \in TaskId}
Binary == Model \cup Private
Name == Model \cup {Anonymous}
Input == {"data", "http", "jxtd", "other"}
\* An http output is a request to another system: nothing here changes.
Output == {"none", "jxtd"}

\* The engine a task is bound to and the models it depends on.
Binding == {b \in [name : Name, binary : Binary, deps : BoundedSeq(Model, MaxDeps)] :
              IF b.name = Anonymous THEN b.binary \in Private ELSE b.binary = b.name}
ASSUME JobAssumption == Job \subseteq [engine : Binding, input : Input, output : Output]

VARIABLES
  tasks,     \* cluster: the ids in Taskmanager::tasks
  payloads,  \* submissions no answer to which has been accepted
  answers,   \* answers accepted and not yet handed to the client
  binding,   \* storage: task id -> its engine
  runtime,   \* storage: short id -> the pieces of runtime data
  file,      \* node: <<short id, name>> -> file ../Task_<id>/JXTDENGINE_<name>.so
  run,       \* handler -> what it does
  started, faults, crashes,
  \* history, read by the properties only
  failed,    \* tasks whose client was handed the empty result
  asked      \* short id -> submissions whose result goes to the runtime data

vars == <<tasks, payloads, answers, binding, runtime, file, run, started, faults, crashes,
          failed, asked>>

Put(f, k, v) == [x \in DOMAIN f \cup {k} |-> IF x = k THEN v ELSE f[x]]
Drop(f, k) == [x \in DOMAIN f \ {k} |-> f[x]]
Fault(n) == faults + n <= MaxFaults /\ faults' = faults + n

\* SubmitRequest: the id goes through set_taskid(uint32_t).  of and nr tell
\* submissions apart and are not part of the message.
Request(t, j) ==
  [of |-> t, nr |-> started, taskid |-> t % Width, input |-> j.input, output |-> j.output]
Payload == [of : TaskId, nr : 0..MaxTasks, taskid : Short, input : Input, output : Output]
Answer == [stage : {"push", "client"}, tries : 0..1, req : Payload, taskid : Short,
           parsed : BOOLEAN, result : Binary \cup {Nothing, Garbled}, output : Output]

\* What EnginePull answers: the master and the binaries of its dependencies,
\* a record of Nothing when there is no engine to send.
NoEngine == [name |-> Nothing, binary |-> Nothing, deps |-> <<>>]
NoRequest == [nr |-> Nothing]
Idle == [pc |-> "idle", req |-> NoRequest, got |-> NoEngine, own |-> Nothing, todo |-> <<>>,
         opened |-> FALSE, engine |-> Nothing, result |-> Nothing, disturbed |-> "no"]

Init ==
  /\ tasks = {} /\ payloads = {} /\ answers = {}
  /\ binding = <<>>
  /\ runtime = [n \in Short |-> <<>>]
  /\ file = [p \in Short \X Name |-> Nothing]
  /\ run = [h \in Handler |-> Idle]
  /\ started = 0 /\ faults = 0 /\ crashes = 0
  /\ failed = {} /\ asked = [n \in Short |-> 0]

cluster == <<tasks, payloads, answers, started, failed, asked>>
storage == <<binding, runtime>>

-----------------------------------------------------------------------------
(* The cluster                                                             *)

\* A task is negotiated, deployed and submitted.
Start(t, j) ==
  /\ started < MaxTasks
  /\ started' = started + 1
  /\ t \notin DOMAIN binding /\ t \notin tasks
  /\ binding' = Put(binding, t, j.engine)
  /\ tasks' = tasks \cup {t}
  /\ payloads' = payloads \cup {Request(t, j)}
  /\ failed' = failed \ {t}
  /\ asked' = IF j.output = "jxtd" THEN [asked EXCEPT ![t % Width] = @ + 1] ELSE asked
  /\ UNCHANGED <<answers, runtime, file, run, faults, crashes>>

\* The user cancels the task: it is terminated at the storage and at the
\* cluster; its payload is not called back.
Terminate(t) ==
  /\ t \in tasks
  /\ Fault(1)
  /\ tasks' = tasks \ {t}
  /\ binding' = Drop(binding, t)
  /\ UNCHANGED <<payloads, answers, runtime, file, run, started, crashes, failed, asked>>

Become(a, b) == answers' = (answers \ {a}) \cup {b}
\* A try of the push fails: the library makes one more.
PushFailed(a) == IF a.tries = 0 THEN [a EXCEPT !.tries = 1] ELSE [a EXCEPT !.stage = "client"]

FaultyPush(a, heard) ==  \* a push that is answered is made again
  /\ a.stage = "push"
  /\ Fault(IF heard THEN 0 ELSE 1)
  /\ IF a.output = "jxtd"
     THEN /\ runtime' = IF a.result = Nothing THEN runtime
                        ELSE [runtime EXCEPT ![a.taskid] = Append(@, a.result)]
          /\ Become(a, PushFailed(a))
     ELSE heard /\ Become(a, [a EXCEPT !.stage = "client"]) /\ UNCHANGED runtime
  /\ UNCHANGED <<tasks, payloads, binding, file, run, started, crashes, failed, asked>>
\* drccp_on_server_receive_result: a result with an output of this system
\* goes to the storage, which appends it to the runtime data of its id (an
\* empty one adds nothing); the reply may be lost (~heard).
drccp_on_server_receive_result(a, heard) ==
  /\ a.stage = "push"
  /\ Fault(IF heard THEN 0 ELSE 1)
  /\ IF a.output = "jxtd"
     THEN /\ runtime' = IF a.result = Nothing THEN runtime
                        ELSE [runtime EXCEPT ![a.taskid] = Append(@, a.result)]
          /\ Become(a, IF heard THEN [a EXCEPT !.stage = "client"] ELSE PushFailed(a))
     ELSE heard /\ Become(a, [a EXCEPT !.stage = "client"]) /\ UNCHANGED runtime
  /\ UNCHANGED <<tasks, payloads, binding, file, run, started, crashes, failed, asked>>

PushLost(a) ==
  /\ a.stage = "push" /\ a.output = "jxtd"
  /\ Fault(1)
  /\ Become(a, PushFailed(a))
  /\ UNCHANGED <<tasks, payloads, storage, file, run, started, crashes, failed, asked>>

\* remove_task(id, true): when the task is there the storage is told done;
\* that message may be lost (~heard), or the cluster has no endpoint to send
\* it to.
remove_task(a, heard) ==
  /\ a.taskid \notin tasks => heard
  /\ tasks' = tasks \ {a.taskid}
  /\ binding' = IF heard /\ a.taskid \in tasks THEN Drop(binding, a.taskid) ELSE binding
  /\ UNCHANGED failed

\* The callback of submit: the empty answer is ignored, any other ends the
\* task it names.
on_client_recieve_result(a, heard) ==
  /\ a.stage = "client"
  /\ answers' = answers \ {a}
  /\ Fault(IF heard THEN 0 ELSE 1)
  /\ IF a.parsed THEN remove_task(a, heard)
     ELSE heard /\ failed' = failed \cup {a.req.of} /\ UNCHANGED <<tasks, binding>>
  /\ UNCHANGED <<payloads, runtime, file, run, started, crashes, asked>>

\* The answer to the client is lost: the submission is made again, or the
\* client is handed an empty result.
AnswerLost(a, again) ==
  /\ a.stage = "client"
  /\ Fault(1)
  /\ answers' = answers \ {a}
  /\ IF again
     THEN payloads' = payloads \cup {a.req} /\ UNCHANGED failed
     ELSE failed' = failed \cup {a.req.of} /\ UNCHANGED payloads
  /\ UNCHANGED <<tasks, binding, runtime, file, run, started, crashes, asked>>

-----------------------------------------------------------------------------
(* A node: drccp_on_server_receive_payload                                 *)

Step(h, r) ==
  /\ run' = [run EXCEPT ![h] = r]
  /\ UNCHANGED <<cluster, storage, file, crashes>>

\* The process dies and is started again; its files stay.  When it is the
\* one that submitted the tasks, its table, its exchanges and its answers go
\* with it.
Crash ==
  /\ crashes < MaxCrashes
  /\ crashes' = crashes + 1
  /\ run' = [h \in Handler |-> Idle]
  /\ \/ UNCHANGED <<tasks, payloads, answers>>
     \/ tasks' = {} /\ payloads' = {} /\ answers' = {}
  /\ UNCHANGED <<storage, file, started, faults, failed, asked>>

FaultyReceive(h, p) ==  \* input of an unknown kind is not answered
  /\ run[h].pc = "idle"
  /\ p \in payloads
  /\ Fault(IF \E g \in Handler : run[g].req = p THEN 1 ELSE 0)
  /\ p.input \notin {"jxtd", "other"}
  /\ Step(h, [Idle EXCEPT !.pc = "pull", !.req = p])

\* Input of an unknown kind is answered with the empty string.  http loads
\* nothing.  jxtd reads the front of a vector that the task, not yet
\* started, has not filled.  A payload that is being handled is received
\* again when its sender has given up waiting.
Receive(h, p) ==
  /\ run[h].pc = "idle"
  /\ p \in payloads
  /\ Fault(IF \E g \in Handler : run[g].req = p THEN 1 ELSE 0)
  /\ p.input # "jxtd"
  /\ Step(h, [Idle EXCEPT !.pc = IF p.input = "other" THEN "empty" ELSE "pull", !.req = p])
ReceiveJxtd(h, p) ==
  /\ run[h].pc = "idle"
  /\ p \in payloads
  /\ p.input = "jxtd"
  /\ Crash

\* storage/datatrans EnginePull.  Id 0 means no task: it asks for the model
\* whose id and name the request leaves empty.  Every dependency is sent
\* with the path of the master's file.
Stored(b) == IF b \in Absent THEN Nothing ELSE b
EnginePull(n) ==
  IF n = 0 \/ n \notin DOMAIN binding THEN NoEngine
  ELSE [name |-> binding[n].name,
        binary |-> Stored(binding[n].binary),
        deps |-> [i \in 1..Len(binding[n].deps) |-> Stored(binding[n].deps[i])]]

\* The handler waits for the callback until every file is written.
After(todo) == IF todo = <<>> THEN "load" ELSE "write"
OwnEngine(t) ==  \* what the property expects
  IF t \in DOMAIN binding THEN binding[t].binary ELSE Nothing
FaultyPull(h) ==  \* an answer without a binary is kept
  /\ run[h].pc = "pull"
  /\ LET got == EnginePull(run[h].req.taskid)
         files == <<got.binary>> \o got.deps
     IN  Step(h, [run[h] EXCEPT !.pc = After(files), !.todo = files, !.got = got,
                    !.own = OwnEngine(run[h].req.of)])
  /\ UNCHANGED faults
\* client_task.cc call_back_t, resp_dispose: an answer without a name or a
\* binary is dropped.
Pull(h) ==
  /\ run[h].pc = "pull"
  /\ LET got == EnginePull(run[h].req.taskid)
         files == IF got.binary = Nothing THEN <<>>
                  ELSE <<got.binary>> \o got.deps
     IN  Step(h, [run[h] EXCEPT !.pc = After(files), !.todo = files,
                    !.got = IF got.binary = Nothing THEN NoEngine ELSE got,
                    !.own = OwnEngine(run[h].req.of)])
  /\ UNCHANGED faults

\* The exchange fails, or its answer is cut where it parses without the
\* engine: the callback returns, and the handler goes on without an engine.
PullFails(h) ==
  /\ run[h].pc = "pull"
  /\ Fault(1)
  /\ Step(h, [run[h] EXCEPT !.pc = "load"])

Path(h) == <<run[h].req.taskid, run[h].got.name>>
InUse == {"write", "load", "run"}
\* The handlers whose engine lies in the file that h works on.
Others(h) ==
  {g \in Handler \ {h} : run[g].pc \in InUse /\ run[g].got # NoEngine /\ Path(g) = Path(h)}

FaultyOpen(h) ==  \* the master's file is opened for appending
  /\ run[h].pc = "write" /\ ~run[h].opened
  /\ file' = [file EXCEPT ![Path(h)] = IF @ = Nothing THEN Empty ELSE @]
  /\ run' = [g \in Handler |->
       CASE g = h -> [run[h] EXCEPT !.opened = TRUE,
                                    !.disturbed = IF Others(h) = {} THEN @ ELSE "shared",
                                    !.todo = IF file[Path(h)] \notin Binary THEN @
                                             ELSE <<file[Path(h)]>> \o Tail(@)]
         [] g \in Others(h) -> [run[g] EXCEPT !.disturbed = "shared"]
         [] OTHER -> run[g]]
  /\ UNCHANGED <<cluster, storage, faults, crashes>>

\* ofstream::open truncates the file, whoever uses it.
Open(h) ==
  /\ run[h].pc = "write" /\ ~run[h].opened
  /\ file' = [file EXCEPT ![Path(h)] = Empty]
  /\ run' = [g \in Handler |->
       CASE g = h -> [run[h] EXCEPT !.opened = TRUE,
                                    !.disturbed = IF Others(h) = {} THEN @ ELSE "shared"]
         [] g \in Others(h) -> [run[g] EXCEPT !.disturbed = "shared"]
         [] OTHER -> run[g]]
  /\ UNCHANGED <<cluster, storage, faults, crashes>>

\* It fails: without the master's file the dependencies are not looked at
\* (but mid_name has its entry), without a dependency's the next one is.
OpenFails(h) ==
  /\ run[h].pc = "write" /\ ~run[h].opened
  /\ Fault(1)
  /\ LET rest == IF Len(run[h].todo) = 1 + Len(run[h].got.deps) THEN <<>> ELSE Tail(run[h].todo)
     IN  Step(h, [run[h] EXCEPT !.disturbed = IF @ = "no" THEN "failed" ELSE @,
                    !.todo = rest, !.pc = After(rest)])

Write(h) ==
  /\ run[h].pc = "write" /\ run[h].opened
  /\ file' = [file EXCEPT ![Path(h)] = IF Head(run[h].todo) = Nothing THEN @
                                       ELSE Head(run[h].todo)]
  /\ LET rest == Tail(run[h].todo)
     IN  run' = [run EXCEPT ![h].opened = FALSE, ![h].todo = rest, ![h].pc = After(rest)]
  /\ UNCHANGED <<cluster, storage, faults, crashes>>

\* A write that fails is not noticed, and leaves the file without contents,
\* with part of them, or with what another handler has written.
WriteFails(h) ==
  /\ run[h].pc = "write" /\ run[h].opened
  /\ Fault(1)
  /\ \E c \in {Empty, file[Path(h)]} : file' = [file EXCEPT ![Path(h)] = c]
  /\ LET rest == Tail(run[h].todo)
     IN  run' = [run EXCEPT ![h].opened = FALSE, ![h].todo = rest, ![h].pc = After(rest),
                            ![h].disturbed = IF @ = "no" THEN "failed" ELSE @]
  /\ UNCHANGED <<cluster, storage, crashes>>

\* dlopen of the file: a file that is not there, is empty or cut yields no
\* handle, and dlclose of no handle crashes.  The generator is looked up by
\* the name the engine is stored under, which for a private engine is the id
\* of its task; it was compiled under a name of its own, and yields no
\* engine when its check fails (~made).
Exports(b, name, taskid) == Symbol[b] = IF name = Anonymous THEN taskid ELSE name
Load(h, made) ==
  /\ run[h].pc = "load"
  /\ \/ /\ run[h].got = NoEngine
        /\ Step(h, [run[h] EXCEPT !.pc = "reply"])
        /\ UNCHANGED faults
     \/ /\ run[h].got # NoEngine /\ file[Path(h)] \in Binary
        /\ Step(h, [run[h] EXCEPT !.pc = "run",
                      !.engine = IF made /\ Exports(file[Path(h)], run[h].got.name,
                                                    run[h].req.taskid)
                                 THEN file[Path(h)] ELSE Nothing])
        /\ UNCHANGED faults
LoadCrashes(h) ==
  /\ run[h].pc = "load" /\ run[h].got # NoEngine
  /\ file[Path(h)] \notin Binary
  /\ Crash

\* init_env, compute and post_env are not checked: an engine whose parent
\* cannot be loaded leaves the output empty (~good).  set_result takes the
\* output as a C string.  The directory that is removed afterwards is not
\* the one the file is in.
Compute(h, good) ==
  /\ run[h].pc = "run"
  /\ Step(h, [run[h] EXCEPT !.pc = "reply",
                !.result = IF run[h].engine = Nothing \/ ~good THEN Nothing
                           ELSE IF run[h].engine \in Bytes THEN Garbled ELSE run[h].engine])
  /\ UNCHANGED faults

\* The mapped file was truncated under the engine.
ComputeCrashes(h) ==
  /\ run[h].pc = "run" /\ run[h].disturbed = "shared"
  /\ Crash

\* The answer: a protobuf message whose result must be text, or else its
\* reader stops before the output path (cut).  Only the first answer to a
\* payload is accepted, the sender of the others has given up.
Reply(h, cut) ==
  /\ run[h].pc \in {"reply", "empty"}
  /\ cut => run[h].result = Garbled
  /\ LET p == run[h].req IN
     IF p \in payloads
     THEN /\ payloads' = payloads \ {p}
          /\ answers' = answers \cup
               {[stage |-> "push", tries |-> 0, req |-> p, taskid |-> p.taskid,
                 parsed |-> run[h].pc = "reply", result |-> run[h].result,
                 output |-> IF cut \/ run[h].pc = "empty" THEN "none" ELSE p.output]}
     ELSE UNCHANGED <<payloads, answers>>
  /\ run' = [run EXCEPT ![h] = Idle]
  /\ UNCHANGED <<tasks, storage, file, started, faults, crashes, failed, asked>>

ReplyLost(h) ==
  /\ run[h].pc \in {"reply", "empty"}
  /\ Fault(1)
  /\ Step(h, Idle)

Handle(h) ==
  \/ Pull(h)
  \/ Open(h) \/ Write(h)
  \/ \E made \in BOOLEAN : Load(h, made)
  \/ LoadCrashes(h)
  \/ \E good \in BOOLEAN : Compute(h, good)
  \/ \E cut \in BOOLEAN : Reply(h, cut)

\* A payload that nobody handles is received.
Accept(p) == \E h \in Handler : Receive(h, p) \/ ReceiveJxtd(h, p)
Deliver == \E a \in answers : \/ drccp_on_server_receive_result(a, TRUE)
                             \/ on_client_recieve_result(a, TRUE)

Next ==
  \/ \E t \in TaskId, j \in Job : Start(t, j)
  \/ \E t \in tasks : Terminate(t)
  \/ \E a \in answers, heard \in BOOLEAN : drccp_on_server_receive_result(a, heard)
  \/ \E a \in answers : PushLost(a)
  \/ \E a \in answers, heard \in BOOLEAN : on_client_recieve_result(a, heard)
  \/ \E a \in answers, again \in BOOLEAN : AnswerLost(a, again)
  \/ \E h \in Handler : Handle(h)
  \/ \E p \in payloads : Accept(p)
  \/ \E h \in Handler : PullFails(h)
  \/ \E h \in Handler : OpenFails(h)
  \/ \E h \in Handler : WriteFails(h)
  \/ \E h \in Handler : ComputeCrashes(h)
  \/ \E h \in Handler : ReplyLost(h)

Spec == Init /\ [][Next]_vars

\* The repeater forwards a payload until it is answered, every handler is
\* run, and answers are handed on.
FairSpec ==
  /\ Spec
  /\ \A h \in Handler : WF_vars(Handle(h))
  /\ WF_vars(\E p \in payloads : Accept(p))
  /\ WF_vars(Deliver)

-----------------------------------------------------------------------------
(* Properties                                                              *)

Run == [pc : {"idle", "empty", "pull", "write", "load", "run", "reply"},
        req : Payload \cup {NoRequest}, got : [name : Name, binary : Binary,
        deps : BoundedSeq(Model \cup {Nothing}, MaxDeps)] \cup {NoEngine},
        own : Binary \cup {Nothing}, todo : BoundedSeq(Binary \cup {Nothing}, MaxDeps + 1),
        opened : BOOLEAN, engine : Binary \cup {Nothing},
        result : Binary \cup {Nothing, Garbled}, disturbed : {"no", "failed", "shared"}]
TypeOK ==
  /\ tasks \subseteq TaskId /\ failed \subseteq TaskId
  /\ payloads \subseteq Payload /\ answers \subseteq Answer
  /\ DOMAIN binding \subseteq TaskId /\ \A t \in DOMAIN binding : binding[t] \in Binding
  /\ runtime \in [Short -> Seq(Binary \cup {Garbled})]
  /\ file \in [Short \X Name -> Binary \cup {Nothing, Empty}]
  /\ run \in [Handler -> Run]
  /\ asked \in [Short -> Nat]
  /\ started \in Nat /\ faults \in Nat /\ crashes \in Nat

\* A handler loads the engine its task is bound to when it pulls it, and
\* runs that one or none (when its generator has another name or refuses),
\* whatever file an earlier task of the same id has left behind and whatever
\* other handlers do, unless one of four things happens: the id has more
\* than 32 bits, the engine has dependencies (each overwrites the master's
\* file), the file cannot be opened or written, or another handler runs the
\* same task at the same time.
RunsOwnEngine ==
  \A h \in Handler : LET r == run[h] IN
    r.got # NoEngine /\ r.req.of < Width /\ r.got.deps = <<>> /\ r.disturbed = "no" =>
      /\ r.pc = "load" => file[Path(h)] = r.own
      /\ r.pc = "run" => r.engine \in {r.own, Nothing}

\* A result is appended to the runtime data once: every further copy, by a
\* push or a submission that is made again, answers for a fault.
AppendsBounded == \A n \in Short : Len(runtime[n]) <= asked[n] + faults

\* A submitted task leaves the cluster's table, although pulling, loading
\* and computing may fail, or its client is handed the empty result;
\* unless the node's process crashes for good.
TaskEnds ==
  \A t \in TaskId : t < Width =>
    (t \in tasks ~> t \notin tasks \/ t \in failed \/ crashes = MaxCrashes)
=============================================================================
