------------------------- MODULE StorageServerProofs -------------------------
(* Theorems about StorageServer, for any tasks, models and contents, any   *)
(* order of the calls at the start and any number of crashes and failed    *)
(* writes.                                                                 *)
EXTENDS StorageServer, SequenceTheorems, TLAPS

-----------------------------------------------------------------------------
(* The maps                                                                *)

\* f is a map from some of the keys K to values V.
Maps(f, K, V) == DOMAIN f \subseteq K /\ f \in [DOMAIN f -> V]

LEMMA NoEntries == DOMAIN << >> = {}
OBVIOUS

LEMMA EmptyMaps ==
  ASSUME NEW K, NEW V
  PROVE  Maps(<< >>, K, V)
BY DEF Maps

LEMMA DropEntry ==
  ASSUME NEW f, NEW k
  PROVE  /\ DOMAIN Drop(f, k) = DOMAIN f \ {k}
         /\ \A x \in DOMAIN f : x # k => Drop(f, k)[x] = f[x]
BY DEF Drop

LEMMA PutMaps ==
  ASSUME NEW f, NEW K, NEW V, Maps(f, K, V), NEW k \in K, NEW v \in V
  PROVE  Maps(Put(f, k, v), K, V) /\ Maps(Emplace(f, k, v), K, V)
BY DEF Maps, Put, Emplace

LEMMA DropMaps ==
  ASSUME NEW f, NEW K, NEW V, Maps(f, K, V), NEW k
  PROVE  Maps(Drop(f, k), K, V)
BY DEF Maps, Drop

-----------------------------------------------------------------------------
(* Types                                                                   *)

\* TypeOK by its parts, one per map.
MemoryType ==
  /\ boot \in Seq({"init", "backend_choose"})
  /\ is_init \in BOOLEAN /\ root_path \in BOOLEAN
  /\ Maps(task_engine, TaskId, Binding)
  /\ Maps(task_extfiles, TaskId, Ext)
DiskType ==
  /\ rootdir \in BOOLEAN
  /\ Maps(anonymous, TaskId, File)
  /\ Maps(engines, Model, File)
  /\ runtime \in [TaskId -> Seq(File)]
  /\ binary \in File \cup {Nothing}
HistoryType ==
  /\ agreed \in [DOMAIN agreed -> Engine] /\ damaged \subseteq TaskId
  /\ crashes \in Nat /\ faults \in Nat

LEMMA TypeParts ==
  /\ TypeOK <=> MemoryType /\ DiskType /\ HistoryType
  /\ TypeOK' <=> MemoryType' /\ DiskType' /\ HistoryType'
BY DEF TypeOK, MemoryType, DiskType, HistoryType, Maps

LEMMA FaultsCount ==
  ASSUME TypeOK, NEW fault, Faults(fault)
  PROVE  faults' \in Nat
BY DEF TypeOK, Faults

LEMMA WrittenFile ==
  ASSUME NEW c \in Content, NEW fault
  PROVE  Written(c, fault) \in File
BY DEF Written, File

LEMMA PushMaps ==
  ASSUME NEW f, NEW K, Maps(f, K, File), NEW k \in K, NEW c \in Content, NEW fault
  PROVE  Maps(engine_push(f, k, c, fault), K, File)
BY PutMaps, WrittenFile DEF engine_push

\* The end of a task, and of the process.
LEMMA RetireType ==
  ASSUME TypeOK, NEW t \in TaskId, Retire(t),
         UNCHANGED <<boot, is_init, root_path, rootdir, engines, runtime, binary, crashes, faults>>
  PROVE  TypeOK'
<1>1. MemoryType /\ DiskType /\ HistoryType
  BY TypeParts
<1>2. Maps(task_engine, TaskId, Binding)' /\ Maps(task_extfiles, TaskId, Ext)'
  BY <1>1, DropMaps DEF Retire, MemoryType
<1>3. Maps(anonymous, TaskId, File)'
  BY <1>1, DropMaps DEF Retire, DiskType
<1>4. agreed' \in [DOMAIN agreed' -> Engine] /\ damaged' \subseteq TaskId
  BY <1>1, DropEntry DEF Retire, HistoryType, Drop
<1>5. MemoryType'
  BY <1>1, <1>2 DEF MemoryType
<1>6. DiskType'
  BY <1>1, <1>3 DEF DiskType
<1>7. HistoryType'
  BY <1>1, <1>4 DEF HistoryType
<1> QED BY <1>5, <1>6, <1>7, TypeParts

LEMMA RestartType ==
  ASSUME TypeOK, Restart, DiskType'
  PROVE  MemoryType' /\ HistoryType'
<1>1. HistoryType
  BY TypeParts
<1>2. Maps(task_engine, TaskId, Binding)' /\ Maps(task_extfiles, TaskId, Ext)'
  BY EmptyMaps DEF Restart
<1>3. boot' \in Seq({"init", "backend_choose"})
  BY StorageAssumption DEF Restart
<1>4. MemoryType'
  BY <1>2, <1>3 DEF MemoryType, Restart
<1>5. agreed' \in [DOMAIN agreed' -> Engine] /\ damaged' \subseteq TaskId
  BY DEF Restart, DiskType, Maps
<1> QED BY <1>1, <1>4, <1>5 DEF HistoryType, Restart

LEMMA TypeStep ==
  ASSUME TypeOK, [Next]_vars
  PROVE  TypeOK'
<1> USE StorageAssumption
<1>0. MemoryType /\ DiskType /\ HistoryType
  BY TypeParts
<1>1. ASSUME NEW new \in BOOLEAN, init(new)
      PROVE  TypeOK'
  <2>1. boot' \in Seq({"init", "backend_choose"})
    BY <1>0, <1>1, HeadTailProperties DEF init, MemoryType
  <2>2. Maps(task_engine, TaskId, Binding)' /\ Maps(task_extfiles, TaskId, Ext)'
    BY <1>1, EmptyMaps DEF init
  <2>3. /\ is_init' \in BOOLEAN /\ root_path' \in BOOLEAN /\ rootdir' \in BOOLEAN
    BY <1>0, <1>1 DEF init, MemoryType, DiskType
  <2>4. MemoryType'
    BY <2>1, <2>2, <2>3 DEF MemoryType
  <2>5. DiskType'
    BY <1>0, <1>1, <2>3 DEF init, DiskType
  <2>6. HistoryType'
    BY <1>0, <1>1 DEF init, HistoryType
  <2> QED BY <2>4, <2>5, <2>6, TypeParts
<1>2. ASSUME NEW known \in BOOLEAN, backend_choose(known)
      PROVE  TypeOK'
  <2>1. boot' \in Seq({"init", "backend_choose"})
    BY <1>0, <1>2, HeadTailProperties DEF backend_choose, MemoryType
  <2>2. is_init' \in BOOLEAN /\ root_path' \in BOOLEAN
    BY <1>0, <1>2 DEF backend_choose, MemoryType
  <2>3. MemoryType'
    BY <1>0, <1>2, <2>1, <2>2 DEF backend_choose, MemoryType
  <2>4. DiskType' /\ HistoryType'
    BY <1>0, <1>2 DEF backend_choose, DiskType, HistoryType, disk
  <2> QED BY <2>3, <2>4, TypeParts
<1>3. ASSUME deinit
      PROVE  TypeOK'
  <2>1. Maps(task_engine, TaskId, Binding)' /\ Maps(task_extfiles, TaskId, Ext)'
    BY <1>3, EmptyMaps DEF deinit
  <2>2. Maps(anonymous, TaskId, File)' /\ Maps(engines, Model, File)'
    BY <1>3, EmptyMaps DEF deinit
  <2>3. MemoryType'
    BY <1>0, <1>3, <2>1 DEF deinit, MemoryType
  <2>4. DiskType'
    <3>1. runtime' \in [TaskId -> Seq(File)]
      BY <1>3 DEF deinit
    <3> QED BY <1>3, <2>2, <3>1 DEF deinit, DiskType
  <2>5. HistoryType'
    BY <1>0, <1>3 DEF deinit, HistoryType
  <2> QED BY <2>3, <2>4, <2>5, TypeParts
<1>4. ASSUME NEW t \in TaskId, NEW engine \in Engine, NEW fault \in Fault, neogiate(t, engine, fault)
      PROVE  TypeOK'
  <2>1. /\ engine.binary \in Content \cup {Nothing} /\ engine.model \in Model
        /\ engine.deps \in SUBSET Model /\ engine.ext \in Ext \cup {NoExt}
    BY DEF Engine
  <2>2. [file |-> IF engine.binary # Nothing THEN Anonymous ELSE engine.model,
         deps |-> engine.deps] \in Binding
    <3>1. (IF engine.binary # Nothing THEN Anonymous ELSE engine.model) \in Model \cup {Anonymous}
      BY <2>1
    <3> QED BY <2>1, <3>1 DEF Binding
  <2>3. Maps(task_engine, TaskId, Binding)'
    BY <1>0, <1>4, <2>2, PutMaps DEF neogiate, MemoryType
  <2>4. Maps(task_extfiles, TaskId, Ext)'
    BY <1>0, <1>4, <2>1, PutMaps DEF neogiate, MemoryType
  <2>5. Maps(anonymous, TaskId, File)'
    BY <1>0, <1>4, <2>1, PushMaps DEF neogiate, DiskType
  <2>6. agreed' \in [DOMAIN agreed' -> Engine] /\ damaged' \subseteq TaskId /\ faults' \in Nat
    <3>1. agreed' \in [DOMAIN agreed' -> Engine]
      BY <1>0, <1>4 DEF neogiate, HistoryType, Put
    <3> QED BY <1>0, <1>4, <3>1, FaultsCount DEF neogiate, HistoryType
  <2>7. MemoryType'
    BY <1>0, <1>4, <2>3, <2>4 DEF neogiate, MemoryType
  <2>8. DiskType'
    BY <1>0, <1>4, <2>5 DEF neogiate, DiskType
  <2>9. HistoryType'
    BY <1>0, <1>4, <2>6 DEF neogiate, HistoryType
  <2> QED BY <2>7, <2>8, <2>9, TypeParts
<1>5. ASSUME NEW t \in TaskId, terminate(t) \/ done(t)
      PROVE  TypeOK'
  BY <1>5, RetireType DEF terminate, done
<1>6. ASSUME NEW m \in Model, NEW c \in Content, NEW fault \in Fault, EnginePush(m, c, fault)
      PROVE  TypeOK'
  <2>1. Maps(engines, Model, File)'
    BY <1>0, <1>6, PushMaps DEF EnginePush, DiskType
  <2>2. DiskType'
    BY <1>0, <1>6, <2>1 DEF EnginePush, DiskType
  <2>3. MemoryType' /\ HistoryType'
    BY <1>0, <1>6, FaultsCount DEF EnginePush, memory, MemoryType, HistoryType
  <2> QED BY <2>2, <2>3, TypeParts
<1>7. ASSUME NEW t \in TaskId, NEW c \in Content, NEW fault \in Fault, RuntimePush(t, c, fault)
      PROVE  TypeOK'
  <2>1. Append(runtime[t], Written(c, fault)) \in Seq(File)
    BY <1>0, WrittenFile, AppendProperties DEF DiskType
  <2>2. runtime' \in [TaskId -> Seq(File)]
    BY <1>0, <1>7, <2>1 DEF RuntimePush, DiskType
  <2>3. DiskType'
    BY <1>0, <1>7, <2>2 DEF RuntimePush, DiskType
  <2>4. MemoryType' /\ HistoryType'
    BY <1>0, <1>7, FaultsCount DEF RuntimePush, memory, MemoryType, HistoryType
  <2> QED BY <2>3, <2>4, TypeParts
<1>8. ASSUME NEW c \in Content, NEW fault \in Fault, BinaryPush(c, fault)
      PROVE  TypeOK'
  <2>1. DiskType'
    BY <1>0, <1>8, WrittenFile DEF BinaryPush, DiskType
  <2>2. MemoryType' /\ HistoryType'
    BY <1>0, <1>8, FaultsCount DEF BinaryPush, memory, MemoryType, HistoryType
  <2> QED BY <2>1, <2>2, TypeParts
<1>9. ASSUME Crash
      PROVE  TypeOK'
  <2>1. DiskType'
    BY <1>0, <1>9 DEF Crash, disk, DiskType
  <2>2. MemoryType' /\ HistoryType'
    BY <1>9, <2>1, RestartType DEF Crash
  <2> QED BY <2>1, <2>2, TypeParts
<1>10. ASSUME NEW t \in TaskId, CrashInPush(t)
       PROVE  TypeOK'
  <2>1. Maps(anonymous, TaskId, File)'
    BY <1>0, <1>10, PutMaps DEF CrashInPush, DiskType, File
  <2>2. DiskType'
    BY <1>0, <1>10, <2>1 DEF CrashInPush, DiskType
  <2>3. MemoryType' /\ HistoryType'
    BY <1>10, <2>2, RestartType DEF CrashInPush
  <2> QED BY <2>2, <2>3, TypeParts
<1>11. ASSUME UNCHANGED vars
       PROVE  TypeOK'
  BY <1>11 DEF vars, TypeOK
<1> QED
  BY <1>1, <1>2, <1>3, <1>4, <1>5, <1>6, <1>7, <1>8, <1>9, <1>10, <1>11 DEF Next

\* Every reachable state of the storage process and its disk is well typed.
THEOREM TypeCorrect == Spec => []TypeOK
<1>1. ASSUME Init
      PROVE  TypeOK
  <2>1. Maps(task_engine, TaskId, Binding) /\ Maps(task_extfiles, TaskId, Ext)
    BY <1>1, EmptyMaps DEF Init
  <2>2. Maps(anonymous, TaskId, File) /\ Maps(engines, Model, File)
    BY <1>1, EmptyMaps DEF Init
  <2>3. MemoryType
    BY <1>1, <2>1, StorageAssumption DEF Init, MemoryType
  <2>4. DiskType
    BY <1>1, <2>2 DEF Init, DiskType
  <2>5. HistoryType
    BY <1>1 DEF Init, HistoryType
  <2> QED BY <2>3, <2>4, <2>5, TypeParts
<1>2. TypeOK /\ [Next]_vars => TypeOK'
  BY TypeStep
<1> QED BY <1>1, <1>2, PTL DEF Spec

-----------------------------------------------------------------------------
(* The records of a task are those of its negotiation                      *)

\* Requests are served only when the root is there: backend_choose and
\* deinit, which take the root away, take is_init with it.
RootInv ==
  /\ is_init => Reachable
  /\ DOMAIN agreed # {} => Serving /\ is_init

LEMMA RootStep ==
  ASSUME TypeOK, RootInv, [Next]_vars
  PROVE  RootInv'
<1> USE NoEntries DEF RootInv, Reachable, Serving
<1>1. ASSUME NEW new \in BOOLEAN, init(new)
      PROVE  RootInv'
  BY <1>1 DEF init
<1>2. ASSUME NEW known \in BOOLEAN, backend_choose(known)
      PROVE  RootInv'
  BY <1>2 DEF backend_choose, disk
<1>3. ASSUME deinit
      PROVE  RootInv'
  BY <1>3 DEF deinit
<1>4. ASSUME NEW t \in TaskId, NEW engine \in Engine, NEW fault \in Fault, neogiate(t, engine, fault)
      PROVE  RootInv'
  BY <1>4 DEF neogiate
<1>5. ASSUME NEW t \in TaskId, terminate(t) \/ done(t)
      PROVE  RootInv'
  BY <1>5 DEF terminate, done
<1>6. ASSUME NEW m \in Model, NEW c \in Content, NEW fault \in Fault, EnginePush(m, c, fault)
      PROVE  RootInv'
  BY <1>6 DEF EnginePush, memory
<1>7. ASSUME NEW t \in TaskId, NEW c \in Content, NEW fault \in Fault, RuntimePush(t, c, fault)
      PROVE  RootInv'
  BY <1>7 DEF RuntimePush, memory
<1>8. ASSUME NEW c \in Content, NEW fault \in Fault, BinaryPush(c, fault)
      PROVE  RootInv'
  BY <1>8 DEF BinaryPush, memory
<1>9. ASSUME Restart
      PROVE  RootInv'
  BY <1>9 DEF Restart
<1>10. ASSUME UNCHANGED vars
       PROVE  RootInv'
  BY <1>10 DEF vars
<1> QED
  BY <1>1, <1>2, <1>3, <1>4, <1>5, <1>6, <1>7, <1>8, <1>9, <1>10 DEF Next, Crash, CrashInPush

LEMMA RootInvariant == Spec => [](TypeOK /\ RootInv)
<1>1. Init => RootInv
  BY NoEntries DEF Init, RootInv
<1>2. TypeOK /\ RootInv /\ [Next]_vars => RootInv'
  BY RootStep
<1> QED BY <1>1, <1>2, TypeCorrect, PTL DEF Spec

\* The state a step makes when it ends every task.
Cleared ==
  task_engine' = << >> /\ task_extfiles' = << >> /\ agreed' = << >>

\* A step of Next is a negotiation, the end of a task, the end of all, or
\* leaves the records of the tasks alone.
LEMMA RecordSteps ==
  ASSUME [Next]_vars
  PROVE  \/ \E t \in TaskId, engine \in Engine, fault \in Fault : neogiate(t, engine, fault)
         \/ \E t \in TaskId : Retire(t)
         \/ /\ Cleared
            /\ \/ damaged' = DOMAIN anonymous' \/ deinit
               \/ boot # << >> /\ UNCHANGED <<anonymous, damaged>>
         \/ UNCHANGED <<task_engine, task_extfiles, anonymous, agreed, damaged>>
<1>1. ASSUME NEW new \in BOOLEAN, init(new)
      PROVE  Cleared /\ boot # << >> /\ UNCHANGED <<anonymous, damaged>>
  BY <1>1 DEF init, Cleared
<1>2. ASSUME NEW known \in BOOLEAN, backend_choose(known)
      PROVE  UNCHANGED <<task_engine, task_extfiles, anonymous, agreed, damaged>>
  BY <1>2 DEF backend_choose, disk
<1>3. ASSUME deinit
      PROVE  Cleared
  BY <1>3 DEF deinit, Cleared
<1>4. ASSUME NEW t \in TaskId, terminate(t) \/ done(t)
      PROVE  Retire(t)
  BY <1>4 DEF terminate, done
<1>5. ASSUME \/ \E m \in Model, c \in Content, fault \in Fault : EnginePush(m, c, fault)
             \/ \E t \in TaskId, c \in Content, fault \in Fault : RuntimePush(t, c, fault)
             \/ \E c \in Content, fault \in Fault : BinaryPush(c, fault)
      PROVE  UNCHANGED <<task_engine, task_extfiles, anonymous, agreed, damaged>>
  BY <1>5 DEF EnginePush, RuntimePush, BinaryPush, memory
<1>6. ASSUME Crash \/ \E t \in TaskId : CrashInPush(t)
      PROVE  Cleared /\ damaged' = DOMAIN anonymous'
  BY <1>6 DEF Crash, CrashInPush, Restart, Cleared
<1>7. ASSUME UNCHANGED vars
      PROVE  UNCHANGED <<task_engine, task_extfiles, anonymous, agreed, damaged>>
  BY <1>7 DEF vars
<1> QED BY <1>1, <1>2, <1>3, <1>4, <1>5, <1>6, <1>7 DEF Next

\* What RecordsAgree says of one task.
EngineOf(engine) ==
  [file |-> IF engine.binary # Nothing THEN Anonymous ELSE engine.model, deps |-> engine.deps]

LEMMA RecordsStep ==
  ASSUME TypeOK, RecordsAgree, [Next]_vars
  PROVE  RecordsAgree'
<1>0. /\ DOMAIN task_engine = DOMAIN agreed
      /\ \A t \in DOMAIN agreed : task_engine[t] = EngineOf(agreed[t])
      /\ DOMAIN task_extfiles = {t \in DOMAIN agreed : agreed[t].ext # NoExt}
      /\ \A t \in DOMAIN task_extfiles : task_extfiles[t] = agreed[t].ext
  BY DEF RecordsAgree, EngineOf
<1> SUFFICES /\ DOMAIN task_engine' = DOMAIN agreed'
             /\ \A t \in DOMAIN agreed' : task_engine'[t] = EngineOf(agreed'[t])
             /\ DOMAIN task_extfiles' = {t \in DOMAIN agreed' : agreed'[t].ext # NoExt}
             /\ \A t \in DOMAIN task_extfiles' : task_extfiles'[t] = agreed'[t].ext
  BY DEF RecordsAgree, EngineOf
<1>1. ASSUME NEW t \in TaskId, NEW engine \in Engine, NEW fault \in Fault, neogiate(t, engine, fault)
      PROVE  /\ DOMAIN task_engine' = DOMAIN agreed'
             /\ \A u \in DOMAIN agreed' : task_engine'[u] = EngineOf(agreed'[u])
             /\ DOMAIN task_extfiles' = {u \in DOMAIN agreed' : agreed'[u].ext # NoExt}
             /\ \A u \in DOMAIN task_extfiles' : task_extfiles'[u] = agreed'[u].ext
  <2>1. t \notin DOMAIN task_engine /\ t \notin DOMAIN agreed /\ t \notin DOMAIN task_extfiles
    BY <1>0, <1>1 DEF neogiate
  <2>2. task_engine' = Put(task_engine, t, EngineOf(engine)) /\ agreed' = Put(agreed, t, engine)
    BY <1>1, <2>1 DEF neogiate, Emplace, EngineOf
  <2>3. task_extfiles' = IF engine.ext # NoExt THEN Put(task_extfiles, t, engine.ext)
                         ELSE task_extfiles
    BY <1>1, <2>1 DEF neogiate, Emplace
  <2>4. DOMAIN agreed' = DOMAIN agreed \cup {t} /\ agreed'[t] = engine
        /\ \A u \in DOMAIN agreed : u # t => agreed'[u] = agreed[u]
    BY <2>2 DEF Put
  <2>5. DOMAIN task_engine' = DOMAIN task_engine \cup {t} /\ task_engine'[t] = EngineOf(engine)
        /\ \A u \in DOMAIN task_engine : u # t => task_engine'[u] = task_engine[u]
    BY <2>2 DEF Put
  <2>6. CASE engine.ext # NoExt
    <3>1. DOMAIN task_extfiles' = DOMAIN task_extfiles \cup {t} /\ task_extfiles'[t] = engine.ext
          /\ \A u \in DOMAIN task_extfiles : u # t => task_extfiles'[u] = task_extfiles[u]
      BY <2>3, <2>6 DEF Put
    <3> QED BY <1>0, <2>1, <2>4, <2>5, <2>6, <3>1
  <2>7. CASE engine.ext = NoExt
    <3>1. task_extfiles' = task_extfiles
      BY <2>3, <2>7
    <3> QED BY <1>0, <2>1, <2>4, <2>5, <2>7, <3>1
  <2> QED BY <2>6, <2>7
<1>2. ASSUME NEW t \in TaskId, Retire(t)
      PROVE  /\ DOMAIN task_engine' = DOMAIN agreed'
             /\ \A u \in DOMAIN agreed' : task_engine'[u] = EngineOf(agreed'[u])
             /\ DOMAIN task_extfiles' = {u \in DOMAIN agreed' : agreed'[u].ext # NoExt}
             /\ \A u \in DOMAIN task_extfiles' : task_extfiles'[u] = agreed'[u].ext
  <2>1. DOMAIN agreed' = DOMAIN agreed \ {t}
        /\ \A u \in DOMAIN agreed : u # t => agreed'[u] = agreed[u]
    BY <1>2, DropEntry DEF Retire
  <2>2. DOMAIN task_engine' = DOMAIN task_engine \ {t}
        /\ \A u \in DOMAIN task_engine : u # t => task_engine'[u] = task_engine[u]
    BY <1>2, DropEntry DEF Retire
  <2>3. DOMAIN task_extfiles' = DOMAIN task_extfiles \ {t}
        /\ \A u \in DOMAIN task_extfiles : u # t => task_extfiles'[u] = task_extfiles[u]
    BY <1>2, DropEntry DEF Retire
  <2> QED BY <1>0, <2>1, <2>2, <2>3
<1>3. ASSUME Cleared
      PROVE  /\ DOMAIN task_engine' = {} /\ DOMAIN task_extfiles' = {} /\ DOMAIN agreed' = {}
  BY <1>3, NoEntries DEF Cleared
<1> QED BY <1>0, <1>1, <1>2, <1>3, RecordSteps

\* However often an id is negotiated, terminated, reported done and
\* negotiated again, and wherever the process is restarted, the binding and
\* the external files kept for a task are those it was negotiated with.
THEOREM RecordsCorrect == Spec => []RecordsAgree
<1>1. Init => RecordsAgree
  BY NoEntries DEF Init, RecordsAgree
<1>2. TypeOK /\ RecordsAgree /\ [Next]_vars => RecordsAgree'
  BY RecordsStep
<1> QED BY <1>1, <1>2, TypeCorrect, PTL DEF Spec

-----------------------------------------------------------------------------
(* A cluster is served the engine its task was negotiated with             *)

\* ServesAgreedUnlessDamaged, strengthened to what each anonymous file
\* holds: apart from the damaged ones the files are those of the tasks
\* negotiated with a binary, so O_EXCL never finds one that is there.
FilesInv ==
  /\ \A t \in DOMAIN anonymous \ damaged : t \in DOMAIN agreed /\ agreed[t].binary # Nothing
  /\ \A t \in DOMAIN agreed \ damaged :
       agreed[t].binary # Nothing => t \in DOMAIN anonymous /\ anonymous[t] = agreed[t].binary

LEMMA FilesStep ==
  ASSUME TypeOK, RootInv, RecordsAgree, FilesInv, [Next]_vars
  PROVE  FilesInv'
<1> USE DEF FilesInv
<1>1. ASSUME NEW t \in TaskId, NEW engine \in Engine, NEW fault \in Fault, neogiate(t, engine, fault)
      PROVE  FilesInv'
  <2>1. t \notin DOMAIN agreed /\ Reachable
    BY <1>1 DEF neogiate, RecordsAgree, RootInv
  <2>2. /\ DOMAIN agreed' = DOMAIN agreed \cup {t} /\ agreed'[t] = engine
        /\ \A u \in DOMAIN agreed : u # t => agreed'[u] = agreed[u]
    BY <1>1 DEF neogiate, Put
  <2>3. /\ damaged \subseteq damaged' /\ damaged' \subseteq damaged \cup {t}
        /\ fault # "none" => t \in damaged'
    BY <1>1 DEF neogiate
  <2>4. /\ DOMAIN anonymous \subseteq DOMAIN anonymous'
        /\ DOMAIN anonymous' \subseteq DOMAIN anonymous \cup {t}
        /\ \A u \in DOMAIN anonymous : anonymous'[u] = anonymous[u]
    BY <1>1 DEF neogiate, engine_push, Emplace, Put
  <2>5. ASSUME t \notin damaged'
        PROVE  engine.binary # Nothing <=> t \in DOMAIN anonymous'
    <3>1. t \notin DOMAIN anonymous /\ fault = "none"
      BY <2>1, <2>3, <2>5
    <3> QED BY <1>1, <2>1, <3>1 DEF neogiate, engine_push, Emplace, Put
  <2>6. ASSUME t \notin damaged', engine.binary # Nothing
        PROVE  anonymous'[t] = engine.binary
    <3>1. t \notin DOMAIN anonymous /\ fault = "none"
      BY <2>1, <2>3, <2>6
    <3> QED BY <1>1, <2>1, <2>6, <3>1 DEF neogiate, engine_push, Emplace, Put, Written
  <2> QED BY <2>1, <2>2, <2>3, <2>4, <2>5, <2>6
<1>2. ASSUME NEW t \in TaskId, Retire(t)
      PROVE  FilesInv'
  <2>1. /\ DOMAIN agreed' = DOMAIN agreed \ {t}
        /\ \A u \in DOMAIN agreed : u # t => agreed'[u] = agreed[u]
    BY <1>2, DropEntry DEF Retire
  <2>2. CASE t \in DOMAIN task_engine /\ task_engine[t].file = Anonymous
    <3>1. /\ DOMAIN anonymous' = DOMAIN anonymous \ {t} /\ damaged' = damaged \ {t}
          /\ \A u \in DOMAIN anonymous : u # t => anonymous'[u] = anonymous[u]
      BY <1>2, <2>2, DropEntry DEF Retire
    <3> QED BY <1>2, <2>1, <3>1
  <2>3. CASE ~(t \in DOMAIN task_engine /\ task_engine[t].file = Anonymous)
    <3>1. anonymous' = anonymous /\ damaged' = damaged
      BY <1>2, <2>3 DEF Retire
    <3>2. t \in DOMAIN agreed => agreed[t].binary = Nothing
      BY <2>3 DEF RecordsAgree
    <3>3. t \notin DOMAIN anonymous \ damaged
      BY <3>2
    <3> QED BY <1>2, <2>1, <3>1, <3>3
  <2> QED BY <2>2, <2>3
\* A crash leaves no task, and every file there is may be a stranger's.
<1>3. ASSUME Cleared, damaged' = DOMAIN anonymous'
      PROVE  FilesInv'
  BY <1>3, NoEntries DEF Cleared
<1>4. ASSUME deinit
      PROVE  FilesInv'
  BY <1>4, NoEntries DEF deinit
\* The process is starting: there is no task.
<1>5. ASSUME Cleared, boot # << >>, UNCHANGED <<anonymous, damaged>>
      PROVE  FilesInv'
  <2>1. DOMAIN agreed = {} /\ DOMAIN agreed' = {}
    BY <1>5, NoEntries DEF RootInv, Serving, Cleared
  <2> QED BY <1>5, <2>1
<1>6. ASSUME UNCHANGED <<task_engine, task_extfiles, anonymous, agreed, damaged>>
      PROVE  FilesInv'
  BY <1>6
<1> QED BY <1>1, <1>2, <1>3, <1>4, <1>5, <1>6, RecordSteps

\* A cluster that pulls the engine of a task that was negotiated with a
\* binary gets that binary, unless the push of this task failed or a crash
\* had left a file under its id, and no other anonymous file outlives its
\* task.
THEOREM ServesCorrect == Spec => []ServesAgreedUnlessDamaged
<1>1. Init => FilesInv
  BY NoEntries DEF Init, FilesInv
<1>2. TypeOK /\ RootInv /\ RecordsAgree /\ FilesInv /\ [Next]_vars => FilesInv'
  BY FilesStep
<1>3. ASSUME RootInv, RecordsAgree, FilesInv
      PROVE  ServesAgreedUnlessDamaged
  <2>1. ASSUME NEW t \in DOMAIN agreed \ damaged, agreed[t].binary # Nothing
        PROVE  EnginePull(t).master = agreed[t].binary
    <3>1. t \in DOMAIN task_engine /\ task_engine[t].file = Anonymous
      BY <1>3, <2>1 DEF RecordsAgree
    <3>2. Reachable
      BY <1>3, <2>1 DEF RootInv
    <3>3. EnginePull(t).master = engine_pull(anonymous, t)
      BY <3>1 DEF EnginePull
    <3> QED BY <1>3, <2>1, <3>2, <3>3 DEF engine_pull, FilesInv
  <2> QED BY <1>3, <2>1 DEF ServesAgreedUnlessDamaged, FilesInv
<1> QED BY <1>1, <1>2, <1>3, RootInvariant, RecordsCorrect, PTL DEF Spec

-----------------------------------------------------------------------------
(* Stored data is never lost                                               *)

LEMMA AppendKeeps ==
  ASSUME NEW S, NEW s \in Seq(S), NEW e \in S
  PROVE  SubSeq(Append(s, e), 1, Len(s)) = s
<1>1. Append(s, e) \in Seq(S) /\ Len(Append(s, e)) = Len(s) + 1
      /\ \A i \in 1 .. Len(s) : Append(s, e)[i] = s[i]
  BY AppendProperties
<1>2. Len(s) \in Nat
  OBVIOUS
<1>3. \A i \in 1 .. Len(s) : Append(s, e)[i] \in S
  BY <1>1
<1>4. /\ SubSeq(Append(s, e), 1, Len(s)) \in Seq(S)
      /\ Len(SubSeq(Append(s, e), 1, Len(s))) = Len(s)
      /\ \A i \in 1 .. Len(s) : SubSeq(Append(s, e), 1, Len(s))[i] = Append(s, e)[i]
  BY <1>2, <1>3, SubSeqProperties
<1> QED BY <1>1, <1>4, SeqEqual

\* What the property asks of a step.
Kept ==
  /\ \A m \in DOMAIN engines : m \in DOMAIN engines' /\ engines'[m] = engines[m]
  /\ \A t \in TaskId : runtime[t] = SubSeq(runtime'[t], 1, Len(runtime[t]))

LEMMA KeptSame ==
  ASSUME TypeOK, UNCHANGED <<engines, runtime>>
  PROVE  Kept
<1>1. \A t \in TaskId : runtime[t] \in Seq(File)
  BY DEF TypeOK
<1>2. \A t \in TaskId : runtime[t] = SubSeq(runtime[t], 1, Len(runtime[t]))
  BY <1>1, SubSeqFull
<1> QED BY <1>2 DEF Kept

\* Engines stored under a model are never changed or removed and runtime
\* data only grows, across repeated pushes, crashes and restarts; only deinit,
\* which removes the root, gives them up.
THEOREM StoredDataKept == Spec => StoredDataStable
<1>1. ASSUME TypeOK, RootInv, [Next]_vars, rootdir' \/ ~rootdir
      PROVE  Kept
  <2>0. DiskType
    BY <1>1, TypeParts
  <2>1. CASE \E new \in BOOLEAN : init(new)
    BY <1>1, <2>1, KeptSame DEF init
  <2>2. CASE \E known \in BOOLEAN : backend_choose(known)
    BY <1>1, <2>2, KeptSame DEF backend_choose, disk
  <2>3. CASE deinit
    BY <1>1, <2>3 DEF deinit, RootInv, Reachable
  <2>4. CASE \E t \in TaskId, engine \in Engine, fault \in Fault : neogiate(t, engine, fault)
    BY <1>1, <2>4, KeptSame DEF neogiate
  <2>5. CASE \E t \in TaskId : terminate(t) \/ done(t)
    BY <1>1, <2>5, KeptSame DEF terminate, done
  <2>6. ASSUME NEW m \in Model, NEW c \in Content, NEW fault \in Fault, EnginePush(m, c, fault)
        PROVE  Kept
    <3>1. CASE engines' = engines
      BY <1>1, <2>6, <3>1, KeptSame DEF EnginePush
    <3>2. CASE m \notin DOMAIN engines /\ engines' = Put(engines, m, Written(c, fault))
      <4>1. \A n \in DOMAIN engines : n \in DOMAIN engines' /\ engines'[n] = engines[n]
        BY <3>2 DEF Put
      <4>2. \A t \in TaskId : runtime'[t] = runtime[t] /\ runtime[t] \in Seq(File)
        BY <2>0, <2>6 DEF EnginePush, DiskType
      <4> QED BY <4>1, <4>2, SubSeqFull DEF Kept
    <3> QED BY <2>6, <3>1, <3>2 DEF EnginePush, engine_push, Emplace
  <2>7. ASSUME NEW t \in TaskId, NEW c \in Content, NEW fault \in Fault, RuntimePush(t, c, fault)
        PROVE  Kept
    <3>1. runtime[t] \in Seq(File) /\ runtime'[t] = Append(runtime[t], Written(c, fault)) /\ engines' = engines
      BY <2>0, <2>7 DEF RuntimePush, DiskType
    <3>2. \A u \in TaskId \ {t} : runtime'[u] = runtime[u] /\ runtime[u] \in Seq(File)
      BY <2>0, <2>7 DEF RuntimePush, DiskType
    <3>3. runtime[t] = SubSeq(runtime'[t], 1, Len(runtime[t]))
      BY <3>1, WrittenFile, AppendKeeps
    <3> QED BY <3>1, <3>2, <3>3, SubSeqFull DEF Kept
  <2>8. CASE \E c \in Content, fault \in Fault : BinaryPush(c, fault)
    BY <1>1, <2>8, KeptSame DEF BinaryPush
  <2>9. CASE Crash \/ \E t \in TaskId : CrashInPush(t)
    BY <1>1, <2>9, KeptSame DEF Crash, CrashInPush, disk
  <2>10. CASE UNCHANGED vars
    BY <1>1, <2>10, KeptSame DEF vars
  <2> QED BY <1>1, <2>1, <2>2, <2>3, <2>4, <2>5, <2>6, <2>7, <2>8, <2>9, <2>10 DEF Next
<1>2. TypeOK /\ RootInv /\ [Next]_vars =>
        [rootdir' \/ ~rootdir =>
           /\ \A m \in DOMAIN engines : m \in DOMAIN engines' /\ engines'[m] = engines[m]
           /\ \A t \in TaskId : runtime[t] = SubSeq(runtime'[t], 1, Len(runtime[t]))]_vars
  BY <1>1 DEF Kept
<1> QED BY <1>2, RootInvariant, PTL DEF Spec, StoredDataStable
=============================================================================
