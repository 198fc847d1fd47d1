---------------------------- MODULE StorageServer ----------------------------
(***************************************************************************)
(* The storage process: Datamanager (storage/datamanagement), the taskdep  *)
(* server that binds tasks to engines (storage/taskdep) and the data       *)
(* transfer server that reads and writes the files (storage/datatrans).    *)
(*                                                                         *)
(* Both servers take task_mutex around every request, the data transfer    *)
(* server around every entry of a request, so a request (an entry) is one  *)
(* action.  The maps of Datamanager live in memory, the files on disk: a   *)
(* crash loses the former and keeps the latter.                            *)
(***************************************************************************)
EXTENDS Naturals, Sequences, FiniteSets

CONSTANTS
  TaskId,      \* task ids
  Model,       \* engines stored under a model id and a name
  Content,     \* contents of engine files and of runtime data
  Ext,         \* lists of external files
  BootOrder,   \* the calls the owner makes before it starts the servers
  MaxCrashes,  \* bound: crashes of the process
  MaxFaults,   \* bound: pushes the file system fails
  MaxRuntime   \* bound: pieces of runtime data of one task

Nothing == "nothing"  \* an empty binary, and what an unreadable file yields
Part == "part"        \* what a failed write leaves: less than was to be written
NoExt == "no extfiles"

ASSUME StorageAssumption ==
  /\ BootOrder \in Seq({"init", "backend_choose"})
  /\ MaxCrashes \in Nat /\ MaxFaults \in Nat /\ MaxRuntime \in Nat
  /\ Nothing \notin Content /\ Part \notin Content /\ NoExt \notin Ext

VARIABLES
  \* memory
  boot,           \* calls of BootOrder that are still to be made
  is_init,        \* Datamanager::is_init
  root_path,      \* Datamanager::root_path is not empty
  task_engine,    \* task id -> the engine it is bound to
  task_extfiles,  \* task id -> its external files
  \* disk
  rootdir,        \* the root directory and its three subdirectories exist
  anonymous,      \* task id -> file engine/JXTDENGINE_0000aaaa_<task id>.so
  engines,        \* model -> file engine/JXTDENGINE_<mid>_<name>.so
  runtime,        \* task id -> file runtime/Task_<task id>
  binary,         \* the one file BinaryPush writes
  \* history, read by the properties only
  agreed,         \* task id -> the negotiation that bound it
  damaged,        \* ids whose push failed or whose file a crash left behind
  crashes, faults

memory == <<boot, is_init, root_path, task_engine, task_extfiles>>
disk == <<rootdir, anonymous, engines, runtime, binary>>
vars == <<boot, is_init, root_path, task_engine, task_extfiles,
          rootdir, anonymous, engines, runtime, binary, agreed, damaged, crashes, faults>>

\* The engine of a negotiation: with a binary of its own, or one stored
\* before under a model id and name.
Engine == [binary : Content \cup {Nothing}, model : Model,
           deps : SUBSET Model, ext : Ext \cup {NoExt}]
Anonymous == "0000aaaa"
Binding == [file : Model \cup {Anonymous}, deps : SUBSET Model]

File == Content \cup {Part}

Put(f, k, v) == [x \in DOMAIN f \cup {k} |-> IF x = k THEN v ELSE f[x]]
Drop(f, k) == [x \in DOMAIN f \ {k} |-> f[x]]
\* emplace of an unordered_map: an entry that is there stays.
Emplace(f, k, v) == IF k \in DOMAIN f THEN f ELSE Put(f, k, v)

Init ==
  /\ boot = BootOrder
  /\ is_init = FALSE /\ root_path = FALSE
  /\ task_engine = <<>> /\ task_extfiles = <<>>
  /\ rootdir \in BOOLEAN
  /\ anonymous = <<>> /\ engines = <<>> /\ binary = Nothing
  /\ runtime = [t \in TaskId |-> <<>>]
  /\ agreed = <<>> /\ damaged = {} /\ crashes = 0 /\ faults = 0

Serving == boot = <<>>
\* open() of a file below the root succeeds.
Reachable == root_path /\ rootdir

-----------------------------------------------------------------------------
(* Datamanager                                                             *)

\* init(path, is_new_root): a new root must not exist, an old one must.
init(new) ==
  /\ boot # <<>> /\ Head(boot) = "init"
  /\ boot' = Tail(boot)
  /\ task_engine' = <<>> /\ task_extfiles' = <<>> /\ agreed' = <<>>
  /\ IF new = rootdir
     THEN UNCHANGED <<is_init, root_path, rootdir>>          \* return -1
     ELSE rootdir' = TRUE /\ is_init' = TRUE /\ root_path' = TRUE
  /\ UNCHANGED <<anonymous, engines, runtime, binary, damaged, crashes, faults>>

\* backend_choose(filesystem): only "local" is known; it clears the root.
backend_choose(known) ==
  /\ boot # <<>> /\ Head(boot) = "backend_choose"
  /\ boot' = Tail(boot)
  /\ IF known THEN is_init' = FALSE /\ root_path' = FALSE
     ELSE UNCHANGED <<is_init, root_path>>
  /\ UNCHANGED <<task_engine, task_extfiles, disk, agreed, damaged, crashes, faults>>

\* deinit removes the root with everything below it.
deinit ==
  /\ Serving /\ is_init
  /\ task_engine' = <<>> /\ task_extfiles' = <<>> /\ agreed' = <<>>
  /\ is_init' = FALSE
  /\ rootdir' = FALSE /\ anonymous' = <<>> /\ engines' = <<>>
  /\ runtime' = [t \in TaskId |-> <<>>] /\ binary' = Nothing
  /\ damaged' = {}
  /\ UNCHANGED <<boot, root_path, crashes, faults>>

\* What the file system makes of a push: open may fail, and write may fail
\* or write a part, when the file is there already.
Fault == {"none", "open", "write"}
Faults(fault) ==
  /\ fault # "none" => faults < MaxFaults
  /\ faults' = IF fault = "none" THEN faults ELSE faults + 1
Written(c, fault) == IF fault = "write" THEN Part ELSE c

\* engine_push on the files f: O_EXCL, so a file that is there stays and the
\* push fails.  The callers do not look at its result.
FaultyPush(f, k, c, fault) == IF Reachable THEN Put(f, k, c) ELSE f  \* O_TRUNC
engine_push(f, k, c, fault) ==
  IF Reachable /\ fault # "open" THEN Emplace(f, k, Written(c, fault)) ELSE f
\* engine_pull: what can be read, "" otherwise.
engine_pull(f, k) == IF Reachable /\ k \in DOMAIN f THEN f[k] ELSE Nothing

-----------------------------------------------------------------------------
(* storage/taskdep process.  A request is dropped unless is_init; a        *)
(* negotiation of an id that is bound is answered with a conflict.         *)

FaultyNeogiate(t, engine, fault) ==  \* records empty external files too
  /\ Serving /\ is_init
  /\ t \notin DOMAIN task_engine
  /\ Faults(fault) /\ (fault # "none" => engine.binary # Nothing)
  /\ anonymous' = IF engine.binary # Nothing THEN engine_push(anonymous, t, engine.binary, fault)
                  ELSE anonymous
  /\ task_engine' = Emplace(task_engine, t,
       [file |-> IF engine.binary # Nothing THEN Anonymous ELSE engine.model, deps |-> engine.deps])
  /\ task_extfiles' = Emplace(task_extfiles, t, engine.ext)
  /\ agreed' = Put(agreed, t, engine)
  /\ damaged' = IF fault = "none" THEN damaged ELSE damaged \cup {t}
  /\ UNCHANGED <<boot, is_init, root_path, rootdir, engines, runtime, binary, crashes>>
neogiate(t, engine, fault) ==
  /\ Serving /\ is_init
  /\ t \notin DOMAIN task_engine
  /\ Faults(fault) /\ (fault # "none" => engine.binary # Nothing)
  /\ anonymous' = IF engine.binary # Nothing THEN engine_push(anonymous, t, engine.binary, fault)
                  ELSE anonymous
  /\ task_engine' = Emplace(task_engine, t,
       [file |-> IF engine.binary # Nothing THEN Anonymous ELSE engine.model, deps |-> engine.deps])
  /\ task_extfiles' = IF engine.ext # NoExt THEN Emplace(task_extfiles, t, engine.ext)
                      ELSE task_extfiles
  /\ agreed' = Put(agreed, t, engine)
  /\ damaged' = IF fault = "none" THEN damaged ELSE damaged \cup {t}
  /\ UNCHANGED <<boot, is_init, root_path, rootdir, engines, runtime, binary, crashes>>

\* terminate from the management and done from a cluster have one effect.
FaultyRetire(t) ==  \* the external files are kept
  /\ anonymous' = IF t \in DOMAIN task_engine /\ task_engine[t].file = Anonymous
                  THEN Drop(anonymous, t) ELSE anonymous
  /\ task_engine' = Drop(task_engine, t)
  /\ agreed' = Drop(agreed, t)
  /\ damaged' = IF t \in DOMAIN task_engine /\ task_engine[t].file = Anonymous
                THEN damaged \ {t} ELSE damaged
  /\ UNCHANGED task_extfiles
FaultyRetireFile(t) ==  \* the anonymous engine file is kept
  /\ task_engine' = Drop(task_engine, t)
  /\ task_extfiles' = Drop(task_extfiles, t)
  /\ agreed' = Drop(agreed, t)
  /\ damaged' = IF t \in DOMAIN task_engine /\ task_engine[t].file = Anonymous
                THEN damaged \ {t} ELSE damaged
  /\ UNCHANGED anonymous

Retire(t) ==
  /\ anonymous' = IF t \in DOMAIN task_engine /\ task_engine[t].file = Anonymous
                  THEN Drop(anonymous, t) ELSE anonymous
  /\ task_engine' = Drop(task_engine, t)
  /\ task_extfiles' = Drop(task_extfiles, t)
  /\ agreed' = Drop(agreed, t)
  /\ damaged' = IF t \in DOMAIN task_engine /\ task_engine[t].file = Anonymous
                THEN damaged \ {t} ELSE damaged

terminate(t) ==
  /\ Serving /\ is_init
  /\ Retire(t)
  /\ UNCHANGED <<boot, is_init, root_path, rootdir, engines, runtime, binary, crashes, faults>>

done(t) ==
  /\ Serving /\ is_init
  /\ Retire(t)
  /\ UNCHANGED <<boot, is_init, root_path, rootdir, engines, runtime, binary, crashes, faults>>

-----------------------------------------------------------------------------
(* storage/datatrans process, one entry of a request.  It does not look at *)
(* is_init.                                                                *)

EnginePush(m, c, fault) ==
  /\ Serving
  /\ Faults(fault)
  /\ engines' = engine_push(engines, m, c, fault)
  /\ UNCHANGED <<memory, rootdir, anonymous, runtime, binary, agreed, damaged, crashes>>

\* O_APPEND
RuntimePush(t, c, fault) ==
  /\ Serving /\ Reachable /\ fault # "open"
  /\ Faults(fault)
  /\ Len(runtime[t]) < MaxRuntime
  /\ runtime' = [runtime EXCEPT ![t] = Append(@, Written(c, fault))]
  /\ UNCHANGED <<memory, rootdir, anonymous, engines, binary, agreed, damaged, crashes>>

\* Every binary is pushed to one and the same path, the root path, O_EXCL.
BinaryPush(c, fault) ==
  /\ Serving /\ Reachable /\ binary = Nothing /\ fault # "open"
  /\ Faults(fault)
  /\ binary' = Written(c, fault)
  /\ UNCHANGED <<memory, rootdir, anonymous, engines, runtime, agreed, damaged, crashes>>

\* What EnginePull answers for a task: the master and its dependencies.
EnginePull(t) ==
  IF t \notin DOMAIN task_engine THEN [master |-> Nothing, deps |-> <<>>]
  ELSE [master |-> IF task_engine[t].file = Anonymous THEN engine_pull(anonymous, t)
                   ELSE engine_pull(engines, task_engine[t].file),
        deps |-> [m \in task_engine[t].deps |-> engine_pull(engines, m)]]

-----------------------------------------------------------------------------
\* The process dies and is started again.
Restart ==
  /\ crashes < MaxCrashes
  /\ crashes' = crashes + 1
  /\ boot' = BootOrder
  /\ is_init' = FALSE /\ root_path' = FALSE
  /\ task_engine' = <<>> /\ task_extfiles' = <<>> /\ agreed' = <<>>
  /\ damaged' = DOMAIN anonymous'
  /\ UNCHANGED faults

Crash == UNCHANGED disk /\ Restart

\* It dies in engine_push, after open and before write is through.
CrashInPush(t) ==
  /\ Serving /\ is_init /\ Reachable
  /\ t \notin DOMAIN task_engine /\ t \notin DOMAIN anonymous
  /\ anonymous' = Put(anonymous, t, Part)
  /\ Restart
  /\ UNCHANGED <<rootdir, engines, runtime, binary>>

Next ==
  \/ \E new \in BOOLEAN : init(new)
  \/ \E known \in BOOLEAN : backend_choose(known)
  \/ deinit
  \/ \E t \in TaskId, engine \in Engine, fault \in Fault : neogiate(t, engine, fault)
  \/ \E t \in TaskId : terminate(t)
  \/ \E t \in TaskId : done(t)
  \/ \E m \in Model, c \in Content, fault \in Fault : EnginePush(m, c, fault)
  \/ \E t \in TaskId, c \in Content, fault \in Fault : RuntimePush(t, c, fault)
  \/ \E c \in Content, fault \in Fault : BinaryPush(c, fault)
  \/ Crash
  \/ \E t \in TaskId : CrashInPush(t)

Spec == Init /\ [][Next]_vars

-----------------------------------------------------------------------------
(* Properties                                                              *)

TypeOK ==
  /\ boot \in Seq({"init", "backend_choose"})
  /\ is_init \in BOOLEAN /\ root_path \in BOOLEAN /\ rootdir \in BOOLEAN
  /\ DOMAIN task_engine \subseteq TaskId /\ task_engine \in [DOMAIN task_engine -> Binding]
  /\ DOMAIN task_extfiles \subseteq TaskId /\ task_extfiles \in [DOMAIN task_extfiles -> Ext]
  /\ DOMAIN anonymous \subseteq TaskId
  /\ anonymous \in [DOMAIN anonymous -> File]
  /\ DOMAIN engines \subseteq Model /\ engines \in [DOMAIN engines -> File]
  /\ runtime \in [TaskId -> Seq(File)]
  /\ binary \in File \cup {Nothing}
  /\ agreed \in [DOMAIN agreed -> Engine] /\ damaged \subseteq TaskId
  /\ crashes \in Nat /\ faults \in Nat

\* The binding and the external files of a task are those of the
\* negotiation that bound it: emplace would keep stale ones, so every way a
\* task ends must have removed both.
RecordsAgree ==
  /\ DOMAIN task_engine = DOMAIN agreed
  /\ \A t \in DOMAIN agreed :
       task_engine[t] = [file |-> IF agreed[t].binary # Nothing THEN Anonymous ELSE agreed[t].model,
                         deps |-> agreed[t].deps]
  /\ DOMAIN task_extfiles = {t \in DOMAIN agreed : agreed[t].ext # NoExt}
  /\ \A t \in DOMAIN task_extfiles : task_extfiles[t] = agreed[t].ext

\* test_taskdep.cc:58: a cluster that pulls the engine of a task negotiated
\* with a binary gets that binary.
ServesAgreed ==
  \A t \in DOMAIN agreed :
    agreed[t].binary # Nothing => EnginePull(t).master = agreed[t].binary

\* It does, crash or no crash, unless the push of that very task failed,
\* which nobody is told, or a crash left a file under its id: engine_push
\* does not overwrite.  Either harm ends with the task, and no other
\* anonymous file outlives its own: every task that ends removes the file,
\* or the next one of that id would be served a stranger's engine.
ServesAgreedUnlessDamaged ==
  /\ \A t \in DOMAIN agreed \ damaged :
       agreed[t].binary # Nothing => EnginePull(t).master = agreed[t].binary
  /\ \A t \in DOMAIN anonymous \ damaged : t \in DOMAIN agreed /\ agreed[t].binary # Nothing

\* Stored models never change or vanish and runtime data only grows, across
\* pushes, retries of pushes and crashes; only deinit gives them up.
StoredDataStable ==
  [][rootdir' \/ ~rootdir =>
       /\ \A m \in DOMAIN engines : m \in DOMAIN engines' /\ engines'[m] = engines[m]
       /\ \A t \in TaskId : runtime[t] = SubSeq(runtime'[t], 1, Len(runtime[t]))]_vars

\* datamanagement.cc:72 "after backend_choose, init must be called again":
\* the last call before the servers start does not take an initialisation
\* back, which would have them drop every request.
StartsInitialised == [][Serving' /\ ~Serving /\ is_init => is_init']_vars
=============================================================================
