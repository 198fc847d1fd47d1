# jxtd in TLA+

Specifications of the distributed part of jxtd: the programs that negotiate,
deploy, run and clean up inference tasks, the storage they share, and the
router and recorder in front of them. TLC checks every module on small
instances; TLAPS proves the safety properties of all nine for every instance, and that two
of them implement an abstract specification of what they promise.

## The system

jxtd is a set of cooperating programs. A **router** takes AT commands from a
serial line or a socket. To start a task it uses a **management client**,
which negotiates a task id and an engine with the **storage**, then deploys the
task on a computation **cluster**. The cluster keeps a table of tasks with
dependencies, submits a task through its own protocol, **drccp**, to one of its
nodes, and reports the end of the task to the storage. The result goes to an
HTTP server inside the router. **Recorders** (nvr) register data sources with a
server of the management unit. All of it talks protobuf over the Workflow
library, which runs handlers on a thread pool and sends a failed request again
(`retry_max`).

| component (source) | state | operations | hard part |
|---|---|---|---|
| task table: `computation/infer/infer.cc` class Taskmanager, `computation/taskdep/taskdep.cc` | `tasks`, matrix `edges`, pending submissions | deploy, add_deps, submit, remove; handlers deploy, terminate, trigger; result callback | handlers call the table several times and others run between; positions go stale; ids are narrowed |
| drccp: `computation/drccp` | cluster tag, shares, LOCAL/FORWARD series | start, stop, signin, logout, submit; MEET, HELLO, LOCAL, FORWARD | unlocked shares, retries that run a payload again, dangling references, a repeater without a limit |
| inference: `computation/infer/infer.cc`, `computation/datatransfer`, `computation/engine` | payloads and answers under way, engine files in the working directory, the run of each handler | submit, receive payload, pull, write, load, compute, receive result, end the task | handlers share files, any step may fail unnoticed, payloads and results come twice |
| task client: `management/taskdep` | the call in progress | negotiate, deploy, terminate, with repeaters | lost and late requests, ids reused while a terminate is under way |
| storage: `storage/taskdep`, `storage/datatrans`, `storage/datamanagement`, `storage/bin` | bindings and extfiles in memory, engine, runtime and binary files on disk | negotiate, terminate, done, push, pull, init, backend_choose, deinit | memory is lost in a crash and files are not; O_EXCL |
| file system scheduler: `storage/fs/scheduler` | services, scope index, current service | register, enable, disable, unload, choose, change_scope, file operations | raw pointers in three places |
| router, tasks: `router/lib/cmd.cc`, `router/bin/main.cc` | Taskresult: id, status, data, condition variable | CPSTART, CPMOD, CPVAL; result server | partly locked state shared by the command loop and server threads |
| router, models: `router/lib/cmd.cc` | user, two indexes, files | REG, RTUNREG, MDDECL, MDRM, MDPUSH | a model moves between two indexes, files and a remote store |
| data sources: `management/datasource`, `nvr/datasource`, `proto/datasource` | the list of sources, the registry's configurations | register_datasource, load_config, start, stop | unlocked check-then-insert, messages without a length |

What makes them correct, in a line each: a task runs only after what it depends
on, with its own engine, and ends; a task id has one holder; what was agreed
with the storage is what a cluster pulls; nothing stays bound for ever; a reply
belongs to the task it was asked for; no wait sleeps through its notification;
no model is given up before another place has it; whoever is told "registered"
is.

Not modelled: what an engine computes and the layout of a Tensor (Inference keeps
which engine ran and whether its output is text); the chain of parent engines
beyond "it worked or not"; the local file service (one system call each);
`proto/onvif` and the accessors of the other messages (of `proto/taskdep` and
`proto/datatransfer` the effects of a cut message are modelled where it is used);
`nvr/onvif` (a stateless proxy to a camera library); `management/inferprovider`
(used by no program); `misc` (wrappers and a parser of one line, without state);
the Rust crates `dadga` and `engug`, whose modules are private to libraries that
no program links, and the stub `renob`; the empty `dispatcher`; `vendors` and
`target`. The third-party code under `vendors` is most of the repository's
lines; the specifications treat what they use of it (Workflow, protobuf) as
external.

## The modules

Every component's `X.tla` has an `MCX.tla` that extends it for TLC; the abstract
specifications TaskLife and SourceList are checked through those that implement them. Definitions named
`Faulty...` are plausible bugs placed before the definition they replace; no
specification uses them, and each property is violated by one of them. The map
in `PROJECT.json` gives the lines of every definition.

**Taskmanager** (core). `task_mutex` makes each method atomic, so a method call
is an action; a deploy handler is a thread with a `pc` between its calls
(`RecvDeploy`, then `DeploySubmit` or `DeployAddDeps`, then perhaps
`DeployRollback`). Positions are kept as the code keeps them, stale ones
included; `erase` beyond the end does what libstdc++ does; `at()` out of range
sets `crashed`. Ids are narrowed with `% IdSpan`, which stands for 2^32. The done
message of a removal is sent with one retry, so the storage may get it twice
(`again`). `waits`, `shifted`, `deploys`, `dones` are history.

**Lifecycle** composes the task client with the storage and the cluster, of each
of which only the set of ids is kept (StorageServer and Taskmanager have the
rest). Each exchange has a request leg and a reply leg and may fail on either;
the library sends again once, repeaters again and again, and a request may stay
under way after its sender gave up (`late`). `reporting` says whether the
cluster's endpoints pass `check()`: in the shipped `computation/bin/main.cc` the
port is commented out, so they do not. `busy` is a status of the protocol that
this repository's cluster never sends.

**TaskLife** is what the negotiation promises its callers, without messages: a
client acquires an id that is bound and that nobody holds, starts its task and
releases the id; an id that somebody holds is not unbound. `Spoil` is the one
event after which nothing is promised. Lifecycle implements it
(`ImplementsTaskLife`) with this mapping: a client holds its id from the reply that
grants it until its call of terminate (or the failure that ends the task), `bound`
is the storage's set, and the state is spoiled when a terminate is delayed or sent
a second time after it was handled, or a cluster reports a task done (`stale`). All steps of the
network and the repeaters map to stutters.

**StorageServer**: one action per request, because `task_mutex` covers each
(the data transfer server locks per entry, and an entry is an action). `memory`
is lost by `Crash`, `disk` is not; `CrashInPush` leaves a part of an engine file, and so does
a write that fails (`Fault`), which no caller of `engine_push` looks at. `damaged` holds
the tasks whose file is not what was agreed for that reason or was there since a crash;
it is history. Removing a file or the root directory is taken not to fail.
`boot` is the sequence of calls before the servers start.

**Scheduler**: the heap of services is explicit (`heap`), so an operation through
a deleted one is seen. A module is the set of functions it has; `init` and `destroy` may
be missing, and `set_operations` exchanges the module of a service, online or not.
`session` follows the calls of init and destroy, `paired` holds the services whose
module has both and was set while they were offline; both are history.

**Router**: the command loop is one thread (`cmd`), the result server several
(`http`). Every critical section is an action, and the write of the data outside
the lock is two, so that a racing copy may be `Torn`.

**ModelIndex**: `router/bin/main.cc` runs one command at a time, so a command is an
action. A file is named by its directory and file name; the storage's file by
the pair of fields it is sent. The storage's disk may take a part of an engine or
nothing, and its reply is the same (`Outcome`); `doubtful` holds the pairs under
which that happened or an engine outlived its model.

**Drccp**: a submission is a LOCAL exchange of a node with itself, its handler a
`series` that forwards until it is answered. `Message::setdest` assigns `src`, as
in the code. Shares are counted in halves; the hash ring is given by what its
search returns, since the loop after the first look-up never runs
(`code != code`). An access to the shares is one step, although they have no lock: a
`std::map` torn by two threads is not modelled. The callback of a HELLO uses a dangling reference, hence
`Crash`.

**DataSource**: look-up and insertion are an action each (a look-up that reads the tree
while an insertion changes it is left out). Handlers that are past the
look-up of one list at the same time are `clashed`; their insertions into the
`std::map` may overlap, and then any part of it may be lost. `append` reads a message
of which the first k fields have arrived; fields after them have their defaults
(and `Status_ok` is a default).

**SourceList** is what a registration promises: a server decides on it in one step,
entering a name that is not listed and refusing one that is, and the caller is
told that verdict or that it is unknown. Nothing is promised of a `spoiled` server.
DataSource implements it (`ImplementsSourceList`): the decision is the look-up that
refuses or the insertion, the verdict is in the reply the handler has, and a server
is spoiled when handlers meet at its list or a message is cut.

**Inference**: a submission is a payload that is received, perhaps twice, until one
answer to it is accepted (what Drccp has in detail); negotiation and deployment
are one step (`Start`). A handler of the node walks through
`drccp_on_server_receive_payload`: `Pull`, one `Open` and one `Write` per file, `Load`,
`Compute`, `Reply`, and each of them may fail as the code lets it. The generator of an
engine has the name it was compiled under (`Symbol`); it is looked up by the name of a
model, or by the task's id for an engine that came with the negotiation, which only an
engine compiled for that very id has, and it may refuse. The files are
those of the one working directory all handlers share; they outlive a crash and
the task, since the directory the code removes is another one. An id is cut with
`% Width`. `dlclose` of no handle, the front of an unfilled vector and a file
truncated under a running engine are crashes; a crash takes the task table and what
is under way with it when the node runs its own submissions. `own` and `disturbed` of a
run, `failed` and `asked` are history. Id 0, which asks the storage for a model
instead of a task, is handled by `EnginePull` and not in the instance.

`XProofs.tla` extends `X.tla` and holds its theorems (see The proofs):
**TaskmanagerProofs**, **LifecycleProofs** (of TaskLife too), **StorageServerProofs**,
**SchedulerProofs**, **RouterProofs** (of both parts of the router, Router and
ModelIndex), **DrccpProofs**, **DataSourceProofs** (of SourceList too),
**InferenceProofs**.

## The runs

Deadlock is checked where operations never run out (Scheduler, StorageServer,
ModelIndex, Drccp, DataSource). It is not in Taskmanager, whose process ends with
an uncaught exception, nor in Router, Lifecycle and Inference, whose bounded calls
end.

| run | instance | shows |
|---|---|---|
| Taskmanager | 2 tasks (5 and 1 have the same low bits), 2 handler threads, 2 deployments per id, 2 dependencies | `SquareMatrix`, `ExactUntilShift`, `RollbackExact`, `OneDonePerDeployment`, `TypeOK` |
| Taskmanager_stale_position | 4 tasks, 1 handler, 1 dependency | violates `DepsBeforeSubmit` |
| Scheduler | 3 addresses (symmetric), 2 positive ids and 0, 2 scopes | `IndexesAgree`, `InitDestroyBalanced`, `CurrentOnlineUntilWithdrawn`, `TypeOK` |
| StorageServer | 2 tasks, 1 named model, 2 contents, 1 crash, 1 failed push, 2 runtime pushes | `RecordsAgree`, `ServesAgreedUnlessDamaged`, `StoredDataStable`, `TypeOK` |
| StorageServer_boot | the calls of `storage/bin/main.cc` | violates `StartsInitialised` |
| Router | 2 task ids, 2 server threads, 2 tasks, 2 results | `ReplyMatchesUntilAbandoned`, `SleeperIsNotified`, `AcceptedResultEndsWait`, `TypeOK` |
| Lifecycle | 2 clients, 3 ids, 2 negotiations, 1 loss or cut reply, 1 late request, 1 busy answer, with and without done messages | `IdsExclusiveUntilStale`, `OrphansBounded`, `ImplementsTaskLife`, `NegotiationReturns`, `TypeOK` |
| ModelIndex | 2 users, 2 contents, 2 names and 2 ids, one of them the same word | `IndexUnique`, `PrivateBackedUntilDisturbed`, `PushedStoredUnlessDoubtful`, `ModelsTypeOK` |
| Drccp | 2 nodes, 3 names, 1 submission, 1 join, 1 loss | `OwnShareKnown`, `AnswerIsResult`, `RunsBounded`, `AnsweredUnlessStopped`, `TypeOK` |
| Drccp_newcomer | the same, 2 joins | violates `NewcomerKnown` |
| DataSource | 2 calls, 2 servers, 2 names, 1 loss, 1 cut | `ToldMeansListed`, `RegisterReturns`, `ImplementsSourceList`, `TypeOK` |
| Inference | 2 handlers, ids 1 and 5 with 4 for 2^32, 2 tasks out of 6 kinds, 1 failure or cancellation, 1 crash, 1 dependency | `RunsOwnEngine`, `AppendsBounded`, `TaskEnds`, `TypeOK` |

Why the bounds are enough: two tasks are the fewest for which a removal shifts a
row and an id is mistaken for another, and two handlers the fewest that
interleave (the theorems need no bound). Two clients with a negotiation each let
an id be released and taken by the other while the first holder's terminate is
under way; `ImplementsTaskLife` was also seen to hold for three negotiations (5.8
million states). With three ids there is a free one after two negotiations and one
leaked binding, or the negotiation rightly never ends. One loss suffices in Drccp
because refusals by a node that is stopped or has another tag come free. In
Inference two tasks in turn under one id meet the file the first has left, two
handlers the file of each other, and ids 1 and 5 each other's engine; one failure
is spent on any one exchange, file, cancellation or repetition.
Two registrations meet at a list or not; a third adds nothing they do not.

Properties named `...Until...` and `...Unless...` say how long, or for what, something
holds: the history variable in their premise is set by the very step that the code gets
wrong, so they show both that the rest is right and where the damage begins. What such a
step does they do not show; that is in the expectations below, and the hazards of
`PROJECT.json` say so in a note.

**Fairness.** `Router`: the command thread, the server threads and the wake-up
after `notify` go on. `Drccp`, `DataSource`: an exchange goes on or fails, since
the library answers, times out or retries. `Lifecycle`: replies are taken and
requests are handled (weak), and the storage's random alternative is free now
and again (strong: `random_uint64_t` draws from 2^64 ids). `Inference`: each handler
goes on, a payload nobody handles is received (the repeater of drccp forwards it
until it is answered), answers are handed on; all weak. Losses are bounded, as
liveness needs a network that recovers; no fairness is assumed of users, of
crashes or of late messages.

### Expectations the code does not meet

Three are kept as runs, with the line they quote in `PROJECT.json`. The others are
definitions beside the properties; put the name in place of the INVARIANTS or
PROPERTIES of the module's cfg to see the trace.

| definition | what the code does |
|---|---|
| `DepsBeforeSubmit` (run) | `remove_task` leaves the `dep_pos` of later tasks, `infer.cc:603`, so a task whose dependency has not finished is submitted |
| `StartsInitialised` (run) | `storage/bin/main.cc:20-21` calls init before backend_choose, against the comment at `datamanagement.cc:72` |
| `IdsDistinct` (Lifecycle) | a done message, or a terminate sent twice (with more clients), frees an id that a client holds, `infer.cc:617` and `management/taskdep/taskdep.cc:306`, against `storage/taskdep/test_taskdep.cc:50` |
| `NewcomerKnown` (run) | `setdest` assigns `src`, `drccp/message.cc:103`: no cluster grows beyond one node |
| `ResultRetiresTask` (Taskmanager) | `set_taskid(uint32_t)`, `infer.cc:60`, against the comment "执行删除" at line 483 |
| `ServesAgreed` (StorageServer) | after a restart O_EXCL keeps an old engine, and a failed write goes unnoticed, `storage/taskdep/taskdep.cc:170`, against `test_taskdep.cc:58` |
| `OperationsDefined` (Scheduler) | `unload_service` leaves `current_service`, `Scheduler.cc:142`, against `Scheduler.h:50` |
| `BusyMeansDeployed` (Router) | a failed deployment keeps the router busy, `cmd.cc:740`, which answers "the task is running" (640) |
| `BusyBounded` (Lifecycle, MaxBusy above BusyRetries + 2) | the test of the limit on busy answers is overwritten, `management/taskdep/taskdep.cc:118-121`, against the comment at `cmd.cc:739`; this cluster does not answer busy yet |
| `PushedStored` (ModelIndex) | `EnginePush` drops the result of `engine_push` and replies success, `DatatranServer.cc:140`: the router gives its copy up, `cmd.cc:594` |
| `PushedFound` (ModelIndex) | MDPUSH exchanges mid and name, `cmd.cc:526`, against `DatatranServer.cc:91` |
| `AnsweredOnce` (Drccp) | a missing return, `server.cc:164-171`, against `test_offlineserver.cc:48` |
| `MineListed`, `EntriesAsSent` (DataSource) | the unlocked list and the framing, against `test_datasource_registry.cc:50` |

Inference states what the code does in the guards of its properties and actions:

- an engine that comes with a negotiation runs only when it was compiled for the very id
  the negotiation gives it (`infer.cc:371`, `Engine.h:66`); the result is empty otherwise;
- every dependency is sent with the path of the master's file and overwrites it
  (`DatatranServer.cc:123`, against the comment at `proto/datatransfer/message.h:85`), so
  the engine of a task with dependencies is not found and its result is empty;
- an input path of the system's own protocol crashes the node: the data is read
  before the task that fetches it is started (`infer.cc:333`);
- input of an unknown kind is answered with the empty string, and the task stays
  in the cluster's table for good (`infer.cc:340`, 478);
- an engine file that cannot be loaded ends in `dlclose(nullptr)` (`infer.cc:383`);
- the files of a task are never removed (`infer.cc:384` names another directory);
- an output is cut at its first NUL, and is not valid text for protobuf otherwise
  (`infer.cc:389`).

## The proofs

Every theorem is of the form `Spec => []Inv` (or `Spec =>` an action property, or
the abstract specification) and holds for any sets of clients, ids, nodes and so on
and any bounds; the only assumptions are the named `ASSUME`s of each module, which
say that bounds are naturals and that the values for "nothing" are no members of the
sets they are added to. Each proof finds an inductive invariant, has a lemma with one
step per action, and closes with the temporal step. The inductive invariants that are
more than the property were checked with TLC before they were proved.

`TaskmanagerProofs` (`TaskmanagerAssumption`: ids and bounds are naturals, `IdSpan` is
positive):

- `TypeCorrect`, `MatrixSquare`: the inductive invariant is `TableInv`, `TypeOK` with
  "the matrix is square and as large as the table". The second conjunct is needed
  because `RemoveEdges` erases through positions that may be stale: only the sizes
  survive, and they keep the rows of equal length. `DeployShape`, `RemoveShape` and
  `AddDepsShape` say what each method does to a square matrix; `TableStep` has one
  step per action.
- `DoneOnce`: the done messages of an id are at most two (the one sent and the library's
  copy) for every deployment that is no longer in the table.
- `ExactBeforeShift`: `ExactInv` adds to the property that positions are distinct and
  dense until the first shift; each `Exact...` lemma is one method.
- `RollbackUndoes`: directly from the shapes.

The argument uses cardinalities (FiniteSetTheorems) where the code uses
`tasks.size()`. Matrix cells are 0 and 1 because the SMT backend treats them better
than Booleans.

`LifecycleProofs` (`LifecycleAssumption`: the first id is an id, bounds are naturals):

- `TypeCorrect`: `CallInv` adds that a client at rest has no exchange under way,
  without which a failure could leave a late request of no kind.
- `IdsExclusive`: holders alone are not inductive. `OwnInv` speaks of owners, who hold an
  id from the storage's grant, whose reply is still under way, to the storage's handling of
  the terminate; while nothing stale is about they are exclusive, their ids
  are bound, and no other terminate or done message is under way.
- `Refinement`: `Spec => Life!Spec`. `View...` lemmas say what each kind of step does
  to the mapped state (`HoldsView`, `StartedView`); `LifeStep` maps each action to
  one step of TaskLife or to a stutter, with `OwnInv` where TaskLife has a guard.
- `PromiseKept`: TaskLife, under the mapping of Lifecycle, implies that until it is
  spoiled an id has one holder and its engine is at the storage; `PromiseInv` is that
  with the type of what is held. `ExchangesKeepPromise` follows with `Refinement`.
- `LeaksBounded`: a potential argument. `Debt` collects the bindings nobody will end, and
  what can still turn into one: late requests, and terminates a reporting
  cluster has not handled. A failure pays for one element and every other step keeps
  or lowers the count; `DebtPaid`, `DebtMoved` and the like are the ways a step
  changes it. `IsFiniteSet(Debt)` is part of the invariant (`LeakInv`).

`StorageServerProofs` (`StorageAssumption`):

- `RecordsCorrect` needs `RootInv` (requests are served only while the root
  directory is there) so that a negotiation that is answered has also been recorded.
- `ServesCorrect`: `FilesInv`, apart from the damaged ones the anonymous files are those of
  the tasks negotiated with a binary, so that O_EXCL never meets an old one.
- `StoredDataKept` is an action property, one step per action; `AppendKeeps` says that an
  append keeps what was there.

`SchedulerProofs` (`SchedulerAssumption`, `SchedulerNull`): `TypeCorrect`,
`IndexesCorrect`, `BalancedCorrect`, `CurrentCorrect` come from one joint invariant,
`SchedulerInv`: none is inductive alone, since an unload goes through the index by id
to an object, closes it when it is open, and must not meet it in the index by scope.

`RouterProofs` (`RouterAssumption`):

- `TypeCorrect`: `BaseInv` adds which fields a command at each place relies on.
- `SleeperCorrect`: inductive given `BaseInv`; the lost wake-up is excluded although the
  result is stored outside the lock, because the handler that stored it has still to
  notify.
- `ReplyCorrect`: `ResultInv` says what the unlocked fields may hold while nothing was
  abandoned and no copy raced: at most one handler is storing, what it stores and
  what is stored is of the current task, and every earlier task has had its result.

- Of ModelIndex, whose definitions are called `Models...` so that both parts can be
  extended (its assumption is not needed):
  `ModelsTypeCorrect`, `UniqueCorrect`, `BackedCorrect`, `PushedCorrect` from `IndexInv`,
  their conjunction. Uniqueness is what lets a removal under a name take away the
  entry of the right id, and so carries the other two.

`DrccpProofs` (`DrccpAssumption`: addresses resolve to their nodes):

- `TypeCorrect`, `OwnShareCorrect`: shares of a node that takes requests only grow.
- `AnswerCorrect`: `AnswersInv`, a series that is past its forward has had the payload run
  and carries its result.
- `RunsCorrect`: a potential argument. The runs of a payload and those that its client
  and its two tries may still come to without a loss are at most one more than the
  losses (`RunsInv`).

`InferenceProofs` (`InferenceAssumption`: ids and bounds are naturals, `Width` is
positive; `JobAssumption`: the jobs are engines with inputs and outputs):

- `TypeCorrect`: `BaseInv` adds to the types that every copy of a request carries the
  lower bits of its task's id, and what a handler at each place has: a request, an
  engine only after the pull, something to write while it writes.
- `EngineCorrect`: `EngineInv` says of two handlers at one file that the one whose file the
  other has open knows it (`Apart`), and of each handler what it is about to write
  and to load (`OwnOK`). `Apart` is needed because a handler that opened the file
  may write to it long after another has loaded it.
- `AppendsCorrect`: a potential argument. Per id, the pieces of runtime data and the
  submissions and answers that will still add one are at most the requests and
  the faults (`AppendInv`); `Changes` is what a step adds to either side.

`DataSourceProofs` (`DataSourceAssumption`: the bounds are naturals):

- `TypeCorrect`, `ToldCorrect` come from one inductive invariant,
  `SourceInv`. `HandlerInv` says that a handler works on the request of its call, of
  which a cut leaves the empty string, and that handlers about to enter names in one
  list have clashed. `ListedInv` puts the name in the list already when the handler
  replies, since the call learns of it later. `OwnInv` adds, while nothing is cut, that
  the name of a handler past its look-up is still free, which is what the
  missing lock endangers. All are about `Calm` calls, those at servers where no
  handlers met. `FieldsRead` is the lemma about `append`; the empty string is kept
  behind the name `Empty`, because the SMT backend has no such literal.
- `Refinement`: `Spec => List!Spec`, one `...Maps` lemma per step of an exchange. A
  look-up that finds the name and an insertion are `Decide`, a return is `Tell`, whatever
  happens at a spoiled server is `Disturb`, and the rest are stutters. `OwnInv` gives
  the guard of `Decide` when a handler enters its name.
- `PromiseKept`: SourceList, under this mapping, implies `Promise`: who is told "entered"
  finds the name with its own address, who is told "refused" finds it, and of the calls for
  one name at a server at most one is told "entered". `PromiseInv` speaks of verdicts, which
  precede what is told. `RegistrationsKeepPromise` follows with `Refinement`.

Only model-checked: all liveness and everything with fairness or ENABLED, which
this prover does not handle, and the violations, which are counterexamples. No module uses a RECURSIVE
operator, so all can be proved about.

## Plan

1. Done: Taskmanager with its proofs, Lifecycle with TaskLife, StorageServer, Router,
   ModelIndex, Scheduler, Drccp, DataSource, Inference.
2. Done: the proofs of Taskmanager, Lifecycle with the refinement of TaskLife,
   StorageServer, Scheduler, Router, ModelIndex, Drccp, Inference, and DataSource with
   the refinement of SourceList. The liveness properties stay with TLC.
3. Left open: the stop of a drccp node with a repeater at work (it never ends, and no
   document says that it should), and the hazards of `PROJECT.json` that carry a
   note.
