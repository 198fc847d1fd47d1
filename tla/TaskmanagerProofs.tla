-------------------------- MODULE TaskmanagerProofs --------------------------
(***************************************************************************)
(* Proofs about Taskmanager, for every set of task ids, every number of    *)
(* handler threads and every width of the id in SubmitRequest.             *)
(*                                                                         *)
(* The dependency matrix is treated as a function from 1..n to rows, and   *)
(* deploy_task, add_deps and remove_task as maps between such functions;   *)
(* TableInv, that the matrix is square and as large as the table, is the   *)
(* inductive invariant under the other results.                            *)
(***************************************************************************)
EXTENDS Taskmanager, FiniteSetTheorems, SequenceTheorems, TLAPS

\* A function on 1..n is a sequence of length n.
LEMMA FunctionIsSeq ==
  ASSUME NEW S, NEW n \in Nat, NEW f \in [1..n -> S]
  PROVE  f \in Seq(S) /\ Len(f) = n
  <1>1. f \in Seq(S)
    BY SeqDef
  <1>2. DOMAIN f = 1..n /\ DOMAIN f = 1..Len(f) /\ Len(f) \in Nat
    BY <1>1, LenProperties
  <1>. QED
    BY <1>2

\* The n by n matrices of edges (infer.h: vector<vector<bool>>).
Matrix(n) == [1..n -> [1..n -> Bit]]

\* deploy_task borders the matrix with a row and a column of cleared bits.
LEMMA DeployShape ==
  ASSUME NEW tk, NEW n \in Nat, n = Cardinality(DOMAIN tk), NEW ed \in Matrix(n)
  PROVE  DeployEdges(tk, ed) =
           [i \in 1..(n + 1) |-> [j \in 1..(n + 1) |->
              IF i <= n /\ j <= n THEN ed[i][j] ELSE 0]]
  <1> DEFINE Row  == [1..(n + 1) -> Bit]
             row  == [j \in 1..(n + 1) |-> 0]
             wide == [i \in 1..n |-> push_back(ed[i], 0)]
  <1>1. Len(ed) = n /\ \A i \in 1..n : Len(ed[i]) = n
    BY FunctionIsSeq DEF Matrix
  <1>2. DeployEdges(tk, ed) = push_back(wide, row)
    BY <1>1 DEF DeployEdges
  <1>3. \A i \in 1..n : push_back(ed[i], 0) = [j \in 1..(n + 1) |-> IF j <= n THEN ed[i][j] ELSE 0]
    BY <1>1 DEF push_back
  <1>4. wide \in [1..n -> Row]
    BY <1>3 DEF Matrix, Bit
  <1>5. Len(wide) = n
    BY <1>4, FunctionIsSeq
  <1>6. push_back(wide, row) = [i \in 1..(n + 1) |-> IF i <= n THEN wide[i] ELSE row]
    BY <1>5 DEF push_back
  <1>7. ASSUME NEW i \in 1..(n + 1)
        PROVE  (IF i <= n THEN wide[i] ELSE row) =
               [j \in 1..(n + 1) |-> IF i <= n /\ j <= n THEN ed[i][j] ELSE 0]
    <2>1. CASE i <= n
      <3>1. wide[i] = [j \in 1..(n + 1) |-> IF j <= n THEN ed[i][j] ELSE 0]
        BY <1>3, <2>1
      <3>. QED
        BY <2>1, <3>1
    <2>2. CASE ~(i <= n)
      BY <2>2
    <2>. QED
      BY <2>1, <2>2
  <1>8. [i \in 1..(n + 1) |-> IF i <= n THEN wide[i] ELSE row] =
        [i \in 1..(n + 1) |-> [j \in 1..(n + 1) |-> IF i <= n /\ j <= n THEN ed[i][j] ELSE 0]]
    BY <1>7, Zenon
  <1>. QED
    BY <1>2, <1>6, <1>8, Zenon

\* remove_task takes out row and column dep_pos; with a stale dep_pos beyond
\* the end it takes the last ones.
LEMMA RemoveShape ==
  ASSUME NEW tk, NEW t, NEW n \in Nat, NEW ed \in Matrix(n), n > 0, tk[t] \in Nat
  PROVE  RemoveEdges(tk, ed, t) =
           [i \in 1..(n - 1) |-> [j \in 1..(n - 1) |->
              ed[IF i <= tk[t] THEN i ELSE i + 1][IF j <= tk[t] THEN j ELSE j + 1]]]
  <1> DEFINE Row  == [1..n -> Bit]
             rows == [i \in 1..(n - 1) |-> IF i <= tk[t] THEN ed[i] ELSE ed[i + 1]]
  <1>1. erase(ed, tk[t]) = rows
    BY FunctionIsSeq DEF Matrix, erase
  <1>2. rows \in [1..(n - 1) -> Row]
    BY DEF Matrix
  <1>3. Len(rows) = n - 1
    BY <1>2, n - 1 \in Nat, FunctionIsSeq
  <1>4. \A i \in 1..(n - 1) : Len(rows[i]) = n
    BY <1>2, FunctionIsSeq
  <1>5. RemoveEdges(tk, ed, t) = [i \in 1..(n - 1) |-> erase(rows[i], tk[t])]
    BY <1>1, <1>3 DEF RemoveEdges
  <1>6. \A i \in 1..(n - 1) : erase(rows[i], tk[t]) =
           [j \in 1..(n - 1) |-> rows[i][IF j <= tk[t] THEN j ELSE j + 1]]
    BY <1>4 DEF erase
  <1>. QED
    BY <1>5, <1>6

\* add_deps keeps the size of the matrix.
LEMMA AddDepsShape ==
  ASSUME NEW tk, NEW t, NEW ds, NEW n \in Nat, NEW ed \in Matrix(n)
  PROVE  AddDepsEdges(tk, ed, t, ds) \in Matrix(n)
  <1>1. Len(ed) = n /\ \A i \in 1..n : Len(ed[i]) = n
    BY FunctionIsSeq DEF Matrix
  <1>2. \A i, j \in 1..n : ed[i][j] \in Bit
    BY DEF Matrix
  <1>3. CASE t \notin DOMAIN tk
    BY <1>3 DEF AddDepsEdges
  <1>4. CASE t \in DOMAIN tk
    <2> DEFINE cell(i, j) ==
          IF i = tk[t] + 1 /\ \E d \in Linked(tk, ed, t, ds) : j = tk[d] + 1
          THEN 1 ELSE ed[i][j]
    <2>1. AddDepsEdges(tk, ed, t, ds) = [i \in 1..n |-> [j \in 1..n |-> cell(i, j)]]
      BY <1>1, <1>4 DEF AddDepsEdges
    <2>2. \A i, j \in 1..n : cell(i, j) \in Bit
      BY <1>2 DEF Bit
    <2> HIDE DEF cell
    <2>. QED
      BY <2>1, <2>2 DEF Matrix
  <1>. QED
    BY <1>3, <1>4

-----------------------------------------------------------------------------
(* The inductive invariant of the table.                                   *)

Size == Cardinality(DOMAIN tasks)
TableInv == TypeOK /\ edges \in Matrix(Size)

\* An n by n matrix is a sequence of n sequences of length n.
LEMMA MatrixIsSquare ==
  ASSUME NEW n \in Nat, NEW ed \in Matrix(n)
  PROVE  /\ ed \in Seq(Seq(Bit))
         /\ Len(ed) = n
         /\ \A i \in 1..n : Len(ed[i]) = n
  <1>1. \A i \in 1..n : ed[i] \in Seq(Bit) /\ Len(ed[i]) = n
    BY FunctionIsSeq DEF Matrix
  <1>2. ed \in [1..n -> Seq(Bit)]
    BY <1>1 DEF Matrix
  <1>. QED
    BY <1>1, <1>2, FunctionIsSeq

\* The size of the table is a natural number.
LEMMA SizeType ==
  ASSUME TypeOK
  PROVE  Size \in Nat
  BY FS_CardinalityType DEF TypeOK, Size

\* remove_task keeps the table well formed, whether or not the id is known
\* and whether or not its position is still right.
LEMMA RemoveTable ==
  ASSUME TableInv, NEW t, Remove(t)
  PROVE  /\ DOMAIN tasks' \subseteq TaskId /\ IsFiniteSet(DOMAIN tasks')
         /\ tasks' \in [DOMAIN tasks' -> Nat]
         /\ edges' \in Matrix(Size')
         /\ waits' \in [DOMAIN tasks' -> SUBSET DOMAIN tasks']
         /\ shifted' \in BOOLEAN
         /\ DOMAIN tasks' = DOMAIN tasks \ {t}
  <1>1. Size \in Nat
    BY SizeType DEF TableInv
  <1>2. CASE t \notin DOMAIN tasks
    BY <1>2 DEF Remove, TableInv, TypeOK, Size
  <1>3. CASE t \in DOMAIN tasks
    <2>1. tasks' = [x \in DOMAIN tasks \ {t} |-> tasks[x]]
      BY <1>3 DEF Remove, RemoveTasks
    <2>2. DOMAIN tasks' = DOMAIN tasks \ {t}
      BY <2>1
    <2>3. IsFiniteSet(DOMAIN tasks') /\ Size' = Size - 1
      BY <1>3, <2>2, FS_RemoveElement DEF TableInv, TypeOK, Size
    <2>4. Size > 0
      <3>1. Size # 0
        BY <1>3, FS_EmptySet DEF TableInv, TypeOK, Size
      <3>. QED
        BY <1>1, <3>1
    <2>5. edges' \in Matrix(Size')
      <3>1. tasks[t] \in Nat
        BY <1>3 DEF TableInv, TypeOK
      <3> DEFINE r(i) == IF i <= tasks[t] THEN i ELSE i + 1
      <3>2. edges' = [i \in 1..(Size - 1) |-> [j \in 1..(Size - 1) |-> edges[r(i)][r(j)]]]
        BY <1>1, <1>3, <2>4, <3>1, RemoveShape DEF Remove, TableInv
      <3>3. \A i \in 1..(Size - 1) : r(i) \in 1..Size
        BY <1>1, <3>1
      <3> HIDE DEF r
      <3>4. \A i, j \in 1..(Size - 1) : edges[r(i)][r(j)] \in Bit
        BY <3>3 DEF TableInv, Matrix
      <3>. QED
        BY <2>3, <3>2, <3>4 DEF Matrix
    <2>6. waits' \in [DOMAIN tasks' -> SUBSET DOMAIN tasks']
      <3>1. DOMAIN waits = DOMAIN tasks /\ \A x \in DOMAIN tasks : waits[x] \subseteq DOMAIN tasks
        BY DEF TableInv, TypeOK
      <3>2. waits' = [x \in DOMAIN tasks \ {t} |-> waits[x] \ {t}]
        BY <1>3, <3>1 DEF Remove
      <3>. QED
        BY <2>2, <3>1, <3>2
    <2>7. shifted' \in BOOLEAN
      BY <1>3, Zenon DEF Remove
    <2>. QED
      BY <2>1, <2>2, <2>3, <2>5, <2>6, <2>7 DEF TableInv, TypeOK
  <1>. QED
    BY <1>2, <1>3

\* deploy_task keeps the table well formed.
LEMMA DeployTable ==
  ASSUME TableInv, NEW h, NEW t \in TaskId, NEW trigger, NEW ds, RecvDeploy(h, t, trigger, ds)
  PROVE  /\ DOMAIN tasks' \subseteq TaskId /\ IsFiniteSet(DOMAIN tasks')
         /\ tasks' \in [DOMAIN tasks' -> Nat]
         /\ edges' \in Matrix(Size')
         /\ waits' \in [DOMAIN tasks' -> SUBSET DOMAIN tasks']
         /\ DOMAIN tasks' = DOMAIN tasks \cup {t}
         /\ Size' = Size + 1
  <1>1. Size \in Nat
    BY SizeType DEF TableInv
  <1>2. tasks' = [x \in DOMAIN tasks \cup {t} |-> IF x = t THEN Size ELSE tasks[x]]
    BY DEF RecvDeploy, DeployTasks, Size
  <1>3. DOMAIN tasks' = DOMAIN tasks \cup {t}
    BY <1>2
  <1>4. IsFiniteSet(DOMAIN tasks') /\ Size' = Size + 1
    BY <1>3, FS_AddElement DEF RecvDeploy, TableInv, TypeOK, Size
  <1>5. edges' = [i \in 1..(Size + 1) |-> [j \in 1..(Size + 1) |->
                    IF i <= Size /\ j <= Size THEN edges[i][j] ELSE 0]]
    BY <1>1, DeployShape DEF RecvDeploy, TableInv, Size
  <1>6. \A i, j \in 1..(Size + 1) : (IF i <= Size /\ j <= Size THEN edges[i][j] ELSE 0) \in Bit
    BY <1>1 DEF TableInv, Matrix, Bit
  <1>7. edges' \in Matrix(Size')
    BY <1>4, <1>5, <1>6 DEF Matrix
  <1>8. waits' \in [DOMAIN tasks' -> SUBSET DOMAIN tasks']
    <2>1. DOMAIN waits = DOMAIN tasks /\ \A x \in DOMAIN tasks : waits[x] \subseteq DOMAIN tasks
      BY DEF TableInv, TypeOK
    <2>2. waits' = [x \in DOMAIN tasks \cup {t} |-> IF x = t THEN {} ELSE waits[x]]
      BY <2>1 DEF RecvDeploy
    <2>. QED
      BY <1>3, <2>1, <2>2
  <1>. QED
    BY <1>1, <1>2, <1>3, <1>4, <1>7, <1>8 DEF TableInv, TypeOK

\* The names add_deps has linked are deployed tasks.
LEMMA LinkedDeployed ==
  ASSUME NEW tk, NEW ed, NEW t, NEW ds \in DepList
  PROVE  Linked(tk, ed, t, ds) \subseteq DOMAIN tk
  <1>1. PICK n \in 0..MaxDeps : ds \in [1..n -> TaskId]
    BY DEF DepList
  <1>2. n \in Nat
    BY <1>1
  <1>3. Len(ds) = n
    BY <1>1, <1>2, FunctionIsSeq
  <1>4. \A i \in Walked(tk, ed, t, ds) : ds[i] \in DOMAIN tk
    BY <1>2, <1>3 DEF Walked, StopsAt
  <1>. QED
    BY <1>4 DEF Linked

\* A handler that works on a deploy request keeps its task and its list.
LEMMA HandlerRequest ==
  ASSUME TypeOK, NEW h \in Handler, handler[h].pc \in {"submit", "add_deps", "rollback"}
  PROVE  /\ handler[h] \in Request
         /\ handler[h].task \in TaskId
         /\ handler[h].deps \in DepList
  <1>1. handler[h] \in {Idle} \cup Request
    BY DEF TypeOK
  <1>2. handler[h] # Idle
    BY DEF Idle
  <1>. QED
    BY <1>1, <1>2 DEF Request

\* A handler that goes on to the rollback still holds its request.
LEMMA SetPc ==
  ASSUME TypeOK, NEW h \in Handler, handler[h] \in Request
  PROVE  [handler EXCEPT ![h].pc = "rollback"] \in [Handler -> {Idle} \cup Request]
  <1>1. [handler[h] EXCEPT !.pc = "rollback"] \in Request
    BY DEF Request
  <1>. QED
    BY <1>1 DEF TypeOK

\* submit counts one more running submission or ends the process.
LEMMA SubmitType ==
  ASSUME TypeOK, NEW t \in TaskId, Submit(t)
  PROVE  running' \in [TaskId -> Nat] /\ crashed' \in BOOLEAN
  <1>1. CASE running' = [running EXCEPT ![t] = @ + 1] /\ crashed' = crashed
    BY <1>1 DEF TypeOK
  <1>2. CASE running' = running /\ crashed' = TRUE
    BY <1>2 DEF TypeOK
  <1>. QED
    BY <1>1, <1>2 DEF Submit

\* The empty table of a fresh cluster satisfies the invariant.
LEMMA TableInit == Init => TableInv
  <1> SUFFICES ASSUME Init PROVE TableInv
    OBVIOUS
  <1>1. DOMAIN tasks = {} /\ DOMAIN waits = {}
    BY DEF Init
  <1>2. IsFiniteSet({}) /\ Size = 0
    BY <1>1, FS_EmptySet DEF Size
  <1>3. edges \in Matrix(0)
    BY DEF Init, Matrix
  <1>4. TypeOK
    <2>1. edges \in Seq(Seq(Bit))
      BY <1>3, MatrixIsSquare
    <2>2. tasks \in [DOMAIN tasks -> Nat] /\ waits \in [DOMAIN tasks -> SUBSET DOMAIN tasks]
      BY <1>1 DEF Init
    <2>3. handler \in [Handler -> {Idle} \cup Request]
      BY DEF Init
    <2>. QED
      BY <1>1, <1>2, <2>1, <2>2, <2>3 DEF Init, TypeOK
  <1>. QED
    BY <1>2, <1>3, <1>4 DEF TableInv

\* Every method call of every handler preserves it.
LEMMA TableStep == TableInv /\ [Next]_vars => TableInv'
  <1> SUFFICES ASSUME TableInv, [Next]_vars PROVE TableInv'
    OBVIOUS
  <1> USE DEF TableInv
  <1>1. CASE LoadServer
    BY <1>1 DEF LoadServer, TypeOK, history, Size
  <1>2. ASSUME NEW h \in Handler, NEW t \in TaskId, NEW trigger \in Trigger, NEW ds \in DepList,
               RecvDeploy(h, t, trigger, ds)
        PROVE  TableInv'
    <2>1. handler' \in [Handler -> {Idle} \cup Request]
      <3>1. \A pc \in {"submit", "add_deps"} : [pc |-> pc, task |-> t, deps |-> ds] \in Request
        BY DEF Request
      <3>. QED
        BY <1>2, <3>1 DEF RecvDeploy, TypeOK
    <2>2. deploys' \in [TaskId -> Nat]
      BY <1>2 DEF RecvDeploy, TypeOK
    <2>3. edges' \in Seq(Seq(Bit))
      <3>1. Size \in Nat /\ Size' = Size + 1 /\ edges' \in Matrix(Size')
        BY <1>2, DeployTable, SizeType
      <3>. QED
        BY <3>1, Size + 1 \in Nat, MatrixIsSquare
    <2>. QED
      BY <1>2, <2>1, <2>2, <2>3, DeployTable DEF RecvDeploy, TypeOK
  <1>3. ASSUME NEW h \in Handler, DeploySubmit(h)
        PROVE  TableInv'
    <2>1. handler[h] \in Request /\ handler[h].task \in TaskId
      BY <1>3, HandlerRequest DEF DeploySubmit
    <2>2. handler' \in [Handler -> {Idle} \cup Request]
      BY <1>3, <2>1, SetPc DEF DeploySubmit, TypeOK
    <2>3. running' \in [TaskId -> Nat] /\ crashed' \in BOOLEAN
      BY <1>3, <2>1, SubmitType DEF DeploySubmit, TypeOK
    <2>. QED
      BY <1>3, <2>2, <2>3 DEF DeploySubmit, TypeOK, history, Size
  <1>4. ASSUME NEW h \in Handler, DeployAddDeps(h)
        PROVE  TableInv'
    <2> DEFINE t == handler[h].task
               ds == handler[h].deps
    <2>1. handler[h] \in Request /\ t \in TaskId /\ ds \in DepList
      BY <1>4, HandlerRequest DEF DeployAddDeps
    <2>2. handler' \in [Handler -> {Idle} \cup Request]
      BY <1>4, <2>1, SetPc DEF DeployAddDeps, TypeOK
    <2>3. waits' \in [DOMAIN tasks' -> SUBSET DOMAIN tasks']
      <3>1. Linked(tasks, edges, t, ds) \subseteq DOMAIN tasks
        BY <2>1, LinkedDeployed
      <3>2. waits' = IF t \in DOMAIN tasks
                     THEN [waits EXCEPT ![t] = @ \cup Linked(tasks, edges, t, ds)]
                     ELSE waits
        BY <1>4 DEF DeployAddDeps
      <3>3. tasks' = tasks /\ waits \in [DOMAIN tasks -> SUBSET DOMAIN tasks]
        BY <1>4 DEF DeployAddDeps, TypeOK
      <3>. QED
        BY <3>1, <3>2, <3>3
    <2>4. Size' = Size /\ Size \in Nat
      BY <1>4, SizeType DEF DeployAddDeps, Size
    <2>5. edges' \in Matrix(Size)
      BY <1>4, <2>4, AddDepsShape DEF DeployAddDeps
    <2>6. edges' \in Seq(Seq(Bit))
      BY <2>4, <2>5, MatrixIsSquare
    <2>7. crashed' \in BOOLEAN
      BY <1>4, Zenon DEF DeployAddDeps
    <2>. QED
      BY <1>4, <2>2, <2>3, <2>4, <2>5, <2>6, <2>7 DEF DeployAddDeps, TypeOK
  <1>5. ASSUME NEW h \in Handler, DeployRollback(h)
        PROVE  TableInv'
    <2>1. handler' \in [Handler -> {Idle} \cup Request]
      BY <1>5 DEF DeployRollback, TypeOK
    <2>. QED
      BY <1>5, <2>1, RemoveTable, MatrixIsSquare, FS_CardinalityType DEF DeployRollback, TypeOK, Size
  <1>6. ASSUME NEW t \in TaskId, RecvTerminate(t)
        PROVE  TableInv'
    BY <1>6, RemoveTable, MatrixIsSquare, FS_CardinalityType DEF RecvTerminate, TypeOK, Size
  <1>7. ASSUME NEW t \in TaskId, RecvTrigger(t)
        PROVE  TableInv'
    <2>1. running' \in [TaskId -> Nat] /\ crashed' \in BOOLEAN
      BY <1>7, SubmitType DEF RecvTrigger
    <2>. QED
      BY <1>7, <2>1 DEF RecvTrigger, TypeOK, history, Size
  <1>8. ASSUME NEW t \in TaskId, RecvEmptyResult(t)
        PROVE  TableInv'
    <2>1. running' \in [TaskId -> Nat]
      BY <1>8 DEF RecvEmptyResult, TypeOK
    <2>. QED
      BY <1>8, <2>1 DEF RecvEmptyResult, TypeOK, history, Size
  <1>9. ASSUME NEW t \in TaskId, NEW again \in 0..RetryMax, RecvResult(t, again)
        PROVE  TableInv'
    <2>1. running' \in [TaskId -> Nat]
      BY <1>9 DEF RecvResult, TypeOK
    <2>2. dones' \in [TaskId -> Nat]
      BY <1>9 DEF RecvResult, TypeOK, RetryMax
    <2>3. Remove(Narrow(t))
      BY <1>9 DEF RecvResult
    <2>. QED
      BY <1>9, <2>1, <2>2, <2>3, RemoveTable, MatrixIsSquare, FS_CardinalityType
      DEF RecvResult, TypeOK, Size
  <1>10. CASE UNCHANGED vars
    BY <1>10 DEF vars, TypeOK, Size
  <1>. QED
    BY <1>1, <1>2, <1>3, <1>4, <1>5, <1>6, <1>7, <1>8, <1>9, <1>10 DEF Next

\* The matrix is Size by Size in every reachable state.
THEOREM TableInductive == Spec => []TableInv
  BY TableInit, TableStep, PTL DEF Spec

\* The type invariant holds of every behaviour.
THEOREM TypeCorrect == Spec => []TypeOK
  BY TableInductive, PTL DEF TableInv

\* deploy_task, add_deps and remove_task keep one row and one column per
\* deployed task, for any number of tasks and handlers.
THEOREM MatrixSquare == Spec => []SquareMatrix
  <1>1. TableInv => SquareMatrix
    BY SizeType, MatrixIsSquare DEF TableInv, SquareMatrix, Size
  <1>. QED
    BY <1>1, TableInductive, PTL

-----------------------------------------------------------------------------
(* One done message per deployment.                                        *)

\* Of a deployed task the storage hears nothing, of an ended one only the
\* one done message and the copy the library may make of it, however many
\* results of it, late ones included, come back.
THEOREM DoneOnce == Spec => []OneDonePerDeployment
  <1> DEFINE P == OneDonePerDeployment
  <1>1. Init => P
    <2> SUFFICES ASSUME Init, NEW t \in TaskId
                 PROVE  dones[t] <= (1 + RetryMax) * Ended(t)
      BY DEF OneDonePerDeployment
    <2>1. t \notin DOMAIN tasks
      BY DEF Init
    <2>. QED
      BY <2>1 DEF Init, Ended, RetryMax
  <1>2. TableInv /\ P /\ [Next]_vars => P'
    <2> SUFFICES ASSUME TableInv, P, [Next]_vars PROVE P'
      OBVIOUS
    <2>0. /\ TypeOK
          /\ \A t \in TaskId : dones[t] \in Nat /\ deploys[t] \in Nat
      BY DEF TableInv, TypeOK
    <2>1. ASSUME DOMAIN tasks' \subseteq DOMAIN tasks, UNCHANGED <<deploys, dones>>
          PROVE  P'
      BY <2>0, <2>1 DEF OneDonePerDeployment, Ended, RetryMax
    <2>2. ASSUME NEW h \in Handler, NEW t \in TaskId, NEW trigger \in Trigger, NEW ds \in DepList,
                 RecvDeploy(h, t, trigger, ds)
          PROVE  P'
      <3>1. /\ DOMAIN tasks' = DOMAIN tasks \cup {t}
            /\ t \notin DOMAIN tasks
            /\ deploys' = [deploys EXCEPT ![t] = @ + 1]
            /\ dones' = dones
        BY <2>2, DeployTable DEF RecvDeploy
      <3>2. deploys \in [TaskId -> Nat]
        BY <2>0 DEF TypeOK
      <3>. QED
        BY <2>0, <3>1, <3>2 DEF OneDonePerDeployment, Ended, RetryMax
    <2>3. ASSUME NEW t \in TaskId, NEW again \in 0..RetryMax, RecvResult(t, again)
          PROVE  P'
      <3>1. DOMAIN tasks' = DOMAIN tasks \ {Narrow(t)}
        BY <2>3, RemoveTable DEF RecvResult
      <3>2. deploys' = deploys /\ dones \in [TaskId -> Nat] /\ DOMAIN tasks \subseteq TaskId
        BY <2>0, <2>3 DEF RecvResult, TypeOK
      <3>3. CASE Narrow(t) \in DOMAIN tasks /\ reporting
        <4>1. dones' = [dones EXCEPT ![Narrow(t)] = @ + 1 + again]
          BY <2>3, <3>3 DEF RecvResult
        <4>2. ASSUME NEW u \in TaskId PROVE dones'[u] <= (1 + RetryMax) * Ended(u)'
          <5>1. dones[u] <= (1 + RetryMax) * Ended(u)
            BY DEF OneDonePerDeployment
          <5>2. CASE u = Narrow(t)
            <6>1. dones'[u] = dones[u] + 1 + again /\ u \in DOMAIN tasks /\ u \notin DOMAIN tasks'
              BY <3>1, <3>2, <3>3, <4>1, <5>2
            <6>. QED
              BY <2>0, <3>2, <5>1, <6>1 DEF Ended, RetryMax
          <5>3. CASE u # Narrow(t)
            <6>1. dones'[u] = dones[u] /\ (u \in DOMAIN tasks <=> u \in DOMAIN tasks')
              BY <3>1, <3>2, <4>1, <5>3
            <6>. QED
              BY <2>0, <3>2, <5>1, <6>1 DEF Ended, RetryMax
          <5>. QED
            BY <5>2, <5>3
        <4>. QED
          BY <4>2 DEF OneDonePerDeployment, RetryMax
      <3>4. CASE ~(Narrow(t) \in DOMAIN tasks /\ reporting)
        <4>1. dones' = dones
          BY <2>3, <3>4 DEF RecvResult
        <4>. QED
          BY <2>1, <3>1, <3>2, <4>1
      <3>. QED
        BY <3>3, <3>4
    <2>4. ASSUME NEW h \in Handler, DeployRollback(h)
          PROVE  P'
      BY <2>1, <2>4, RemoveTable DEF DeployRollback
    <2>5. ASSUME NEW t \in TaskId, RecvTerminate(t)
          PROVE  P'
      BY <2>1, <2>5, RemoveTable DEF RecvTerminate
    <2>6. ASSUME UNCHANGED tasks, UNCHANGED <<deploys, dones>>
          PROVE  P'
      BY <2>1, <2>6
    <2>. QED
      BY <2>2, <2>3, <2>4, <2>5, <2>6
      DEF Next, LoadServer, DeploySubmit, DeployAddDeps, RecvTrigger, RecvEmptyResult, history, vars
  <1>. QED
    BY <1>1, <1>2, TableInductive, PTL DEF Spec

-----------------------------------------------------------------------------
(* The dependency matrix before the first removal in the middle.           *)

\* With exact positions every lookup of submit and add_deps is in range.
LEMMA ExactInRange ==
  ASSUME TableInv, PositionsExact, NEW t \in DOMAIN tasks, NEW d \in DOMAIN tasks
  PROVE  ~RowMissing(tasks, edges, t) /\ ~CellMissing(tasks, edges, t, d)
  <1>1. Size \in Nat
    BY SizeType DEF TableInv
  <1>2. Len(edges) = Size /\ \A i \in 1..Size : Len(edges[i]) = Size
    BY <1>1, MatrixIsSquare DEF TableInv
  <1>3. \A x \in DOMAIN tasks : tasks[x] \in Nat /\ tasks[x] < Size
    BY DEF TableInv, TypeOK, PositionsExact, Size
  <1>4. tasks[t] + 1 \in 1..Size
    BY <1>1, <1>3
  <1>. QED
    BY <1>1, <1>2, <1>3, <1>4 DEF RowMissing, CellMissing

\* With exact positions submit starts a task exactly when nothing it
\* depends on is left.
LEMMA ExactSubmit ==
  ASSUME TableInv, PositionsExact, NEW t \in DOMAIN tasks
  PROVE  SubmitOutcome(tasks, edges, t) = IF waits[t] = {} THEN "go" ELSE "refuse"
  <1>1. Size \in Nat
    BY SizeType DEF TableInv
  <1>2. Len(edges) = Size /\ \A i \in 1..Size : Len(edges[i]) = Size
    BY <1>1, MatrixIsSquare DEF TableInv
  <1>3. tasks[t] \in Nat /\ tasks[t] < Size
    BY DEF TableInv, TypeOK, PositionsExact, Size
  <1>4. tasks[t] + 1 \in 1..Size /\ Len(edges[tasks[t] + 1]) = Size
    BY <1>1, <1>2, <1>3
  <1>5. ~RowMissing(tasks, edges, t)
    BY ExactInRange
  <1>6. (\E j \in 1..Size : edges[tasks[t] + 1][j] = 1) <=> waits[t] # {}
    <2>1. ASSUME NEW j \in 1..Size, edges[tasks[t] + 1][j] = 1
          PROVE  waits[t] # {}
      <3>1. j - 1 \in 0..(Size - 1)
        BY <1>1
      <3>2. PICK d \in DOMAIN tasks : tasks[d] = j - 1
        BY <3>1 DEF PositionsExact, Size
      <3>3. j = tasks[d] + 1
        BY <3>2
      <3>. QED
        BY <2>1, <3>3 DEF PositionsExact
    <2>2. ASSUME NEW d \in waits[t]
          PROVE  \E j \in 1..Size : edges[tasks[t] + 1][j] = 1
      <3>1. d \in DOMAIN tasks
        BY DEF TableInv, TypeOK
      <3>2. tasks[d] \in Nat /\ tasks[d] < Size
        BY <3>1 DEF TableInv, TypeOK, PositionsExact, Size
      <3>3. tasks[d] + 1 \in 1..Size
        BY <1>1, <3>2
      <3>4. edges[tasks[t] + 1][tasks[d] + 1] = 1
        BY <3>1 DEF PositionsExact
      <3>. QED
        BY <3>3, <3>4
    <2>. QED
      BY <2>1, <2>2
  <1>. QED
    BY <1>4, <1>5, <1>6 DEF SubmitOutcome

\* deploy_task appends the new task at the end: the positions stay exact.
LEMMA ExactDeploy ==
  ASSUME TableInv, PositionsExact, NEW h, NEW t \in TaskId, NEW trigger, NEW ds,
         RecvDeploy(h, t, trigger, ds)
  PROVE  PositionsExact'
  <1>1. Size \in Nat /\ Size' = Size + 1 /\ DOMAIN tasks' = DOMAIN tasks \cup {t}
    BY SizeType, DeployTable DEF TableInv
  <1>2. t \notin DOMAIN tasks /\ tasks'[t] = Size /\ \A x \in DOMAIN tasks : tasks'[x] = tasks[x]
    BY DEF RecvDeploy, DeployTasks, Size
  <1>3. \A x \in DOMAIN tasks : tasks[x] \in Nat /\ tasks[x] < Size
    BY DEF TableInv, TypeOK, PositionsExact, Size
  <1>4. edges' = [i \in 1..(Size + 1) |-> [j \in 1..(Size + 1) |->
                    IF i <= Size /\ j <= Size THEN edges[i][j] ELSE 0]]
    BY <1>1, DeployShape DEF RecvDeploy, TableInv, Size
  <1>5. /\ waits'[t] = {}
        /\ \A x \in DOMAIN tasks : waits'[x] = waits[x] /\ waits[x] \subseteq DOMAIN tasks
    BY <1>2 DEF RecvDeploy, TableInv, TypeOK
  <1>6. \A x \in DOMAIN tasks' : tasks'[x] < Size'
    BY <1>1, <1>2, <1>3
  <1>7. \A x, y \in DOMAIN tasks' : tasks'[x] = tasks'[y] => x = y
    BY <1>1, <1>2, <1>3 DEF PositionsExact
  <1>8. \A q \in 0..(Size' - 1) : \E x \in DOMAIN tasks' : tasks'[x] = q
    <2> SUFFICES ASSUME NEW q \in 0..(Size' - 1)
                 PROVE  \E x \in DOMAIN tasks' : tasks'[x] = q
      OBVIOUS
    <2>1. CASE q = Size
      BY <1>1, <1>2, <2>1
    <2>2. CASE q # Size
      <3>1. q \in 0..(Size - 1)
        BY <1>1, <2>2
      <3>2. PICK x \in DOMAIN tasks : tasks[x] = q
        BY <3>1 DEF PositionsExact, Size
      <3>. QED
        BY <1>1, <1>2, <3>2
    <2>. QED
      BY <2>1, <2>2
  <1>9. ASSUME NEW x \in DOMAIN tasks', NEW d \in DOMAIN tasks'
        PROVE  edges'[tasks'[x] + 1][tasks'[d] + 1] = 1 <=> d \in waits'[x]
    <2>1. CASE x \in DOMAIN tasks /\ d \in DOMAIN tasks
      <3>1. tasks'[x] + 1 \in 1..Size /\ tasks'[d] + 1 \in 1..Size
        BY <1>1, <1>2, <1>3, <2>1
      <3>2. edges'[tasks'[x] + 1][tasks'[d] + 1] = edges[tasks[x] + 1][tasks[d] + 1]
        BY <1>1, <1>2, <1>4, <2>1, <3>1
      <3>. QED
        BY <1>5, <2>1, <3>2 DEF PositionsExact
    <2>2. CASE x = t \/ d = t
      <3>1. tasks'[x] + 1 \in 1..(Size + 1) /\ tasks'[d] + 1 \in 1..(Size + 1)
        BY <1>1, <1>2, <1>3
      <3>2. edges'[tasks'[x] + 1][tasks'[d] + 1] = 0
        BY <1>1, <1>2, <1>4, <2>2, <3>1
      <3>3. d \notin waits'[x]
        BY <1>1, <1>2, <1>5, <2>2
      <3>. QED
        BY <3>2, <3>3
    <2>. QED
      BY <1>1, <2>1, <2>2
  <1>. QED
    BY <1>6, <1>7, <1>8, <1>9 DEF PositionsExact, Size

\* add_deps sets exactly the cells of the names it has walked, and with
\* exact positions it does not throw.
LEMMA ExactAddDeps ==
  ASSUME TableInv, PositionsExact, NEW h \in Handler, DeployAddDeps(h)
  PROVE  PositionsExact' /\ crashed' = FALSE
  <1> DEFINE t  == handler[h].task
             ds == handler[h].deps
             linked == Linked(tasks, edges, t, ds)
  <1>1. Size \in Nat /\ Len(edges) = Size /\ \A i \in 1..Size : Len(edges[i]) = Size
    BY SizeType, MatrixIsSquare DEF TableInv
  <1>2. ds \in DepList
    BY HandlerRequest DEF DeployAddDeps, TableInv
  <1>3. \A x \in DOMAIN tasks : tasks[x] \in Nat /\ tasks[x] < Size /\ tasks[x] + 1 \in 1..Size
    BY <1>1 DEF TableInv, TypeOK, PositionsExact, Size
  <1>4. tasks' = tasks
    BY DEF DeployAddDeps
  <1>5. linked \subseteq DOMAIN tasks
    BY <1>2, LinkedDeployed
  <1>6. PositionsExact'
    <2>1. CASE t \notin DOMAIN tasks
      <3>1. edges' = edges /\ waits' = waits
        BY <2>1 DEF DeployAddDeps, AddDepsEdges
      <3>. QED
        BY <1>4, <3>1 DEF PositionsExact
    <2>2. CASE t \in DOMAIN tasks
      <3>1. edges' = [i \in 1..Size |-> [j \in 1..Size |->
                        IF i = tasks[t] + 1 /\ \E d \in linked : j = tasks[d] + 1
                        THEN 1 ELSE edges[i][j]]]
        BY <1>1, <2>2 DEF DeployAddDeps, AddDepsEdges
      <3>2. waits' = [waits EXCEPT ![t] = @ \cup linked] /\ DOMAIN waits = DOMAIN tasks
        BY <2>2 DEF DeployAddDeps, TableInv, TypeOK
      <3>3. ASSUME NEW x \in DOMAIN tasks, NEW y \in DOMAIN tasks
            PROVE  edges'[tasks[x] + 1][tasks[y] + 1] = 1 <=> y \in waits'[x]
        <4>1. edges'[tasks[x] + 1][tasks[y] + 1] =
                IF tasks[x] + 1 = tasks[t] + 1 /\ \E d \in linked : tasks[y] + 1 = tasks[d] + 1
                THEN 1 ELSE edges[tasks[x] + 1][tasks[y] + 1]
          BY <1>3, <3>1
        <4>2. tasks[x] + 1 = tasks[t] + 1 <=> x = t
          BY <1>3, <2>2 DEF PositionsExact
        <4>3. (\E d \in linked : tasks[y] + 1 = tasks[d] + 1) <=> y \in linked
          BY <1>3, <1>5 DEF PositionsExact
        <4>4. edges[tasks[x] + 1][tasks[y] + 1] = 1 <=> y \in waits[x]
          BY DEF PositionsExact
        <4> HIDE DEF linked
        <4>5. y \in waits'[x] <=> y \in waits[x] \/ (x = t /\ y \in linked)
          BY <2>2, <3>2
        <4>. QED
          BY <4>1, <4>2, <4>3, <4>4, <4>5
      <3>. QED
        BY <1>4, <3>3 DEF PositionsExact
    <2>. QED
      BY <2>1, <2>2
  <1>7. crashed' = FALSE
    <2>1. CASE t \notin DOMAIN tasks
      BY <2>1 DEF DeployAddDeps, AddDepsOutcome
    <2>2. CASE t \in DOMAIN tasks
      <3>1. \A d \in DOMAIN tasks : ~CellMissing(tasks, edges, t, d)
        BY <2>2, ExactInRange
      <3>2. AddDepsOutcome(tasks, edges, t, ds) # "throw"
        BY <2>2, <3>1 DEF AddDepsOutcome
      <3>. QED
        BY <3>2 DEF DeployAddDeps
    <2>. QED
      BY <2>1, <2>2
  <1>. QED
    BY <1>6, <1>7

\* Removing the task at the last position leaves the others exact.
LEMMA ExactRemove ==
  ASSUME TableInv, PositionsExact, NEW t, Remove(t), ~shifted, ~shifted'
  PROVE  PositionsExact'
  <1>1. CASE t \notin DOMAIN tasks
    BY <1>1 DEF Remove, PositionsExact
  <1>2. CASE t \in DOMAIN tasks
    <2>1. Size \in Nat /\ Size > 0
      <3>1. Size \in Nat /\ Size # 0
        BY <1>2, SizeType, FS_EmptySet DEF TableInv, TypeOK, Size
      <3>. QED
        BY <3>1
    <2>2. tasks[t] = Size - 1
      BY <1>2 DEF Remove, Size
    <2>3. tasks' = [x \in DOMAIN tasks \ {t} |-> tasks[x]] /\ Size' = Size - 1
      BY <1>2, FS_RemoveElement DEF Remove, RemoveTasks, TableInv, TypeOK, Size
    <2>4. waits' = [x \in DOMAIN tasks \ {t} |-> waits[x] \ {t}]
      BY <1>2 DEF Remove, TableInv, TypeOK
    <2>5. edges' = [i \in 1..(Size - 1) |-> [j \in 1..(Size - 1) |-> edges[i][j]]]
      <3>1. edges' = [i \in 1..(Size - 1) |-> [j \in 1..(Size - 1) |->
               edges[IF i <= tasks[t] THEN i ELSE i + 1][IF j <= tasks[t] THEN j ELSE j + 1]]]
        BY <1>2, <2>1, <2>2, RemoveShape DEF Remove, TableInv
      <3>. QED
        BY <2>1, <2>2, <3>1
    <2>6. \A x \in DOMAIN tasks : tasks[x] \in Nat /\ tasks[x] < Size
      BY DEF TableInv, TypeOK, PositionsExact, Size
    <2>7. \A x \in DOMAIN tasks \ {t} : tasks[x] < Size - 1 /\ tasks[x] + 1 \in 1..(Size - 1)
      <3>1. \A x \in DOMAIN tasks \ {t} : tasks[x] # tasks[t]
        BY <1>2 DEF PositionsExact
      <3>. QED
        BY <2>1, <2>2, <2>6, <3>1
    <2>8. \A q \in 0..(Size' - 1) : \E x \in DOMAIN tasks' : tasks'[x] = q
      <3> SUFFICES ASSUME NEW q \in 0..(Size' - 1)
                   PROVE  \E x \in DOMAIN tasks' : tasks'[x] = q
        OBVIOUS
      <3>1. q \in 0..(Size - 1) /\ q # Size - 1
        BY <2>1, <2>3
      <3>2. PICK x \in DOMAIN tasks : tasks[x] = q
        BY <3>1 DEF PositionsExact, Size
      <3>. QED
        BY <2>2, <2>3, <3>1, <3>2
    <2>9. ASSUME NEW x \in DOMAIN tasks', NEW d \in DOMAIN tasks'
          PROVE  edges'[tasks'[x] + 1][tasks'[d] + 1] = 1 <=> d \in waits'[x]
      <3>1. x \in DOMAIN tasks \ {t} /\ d \in DOMAIN tasks \ {t}
        BY <2>3
      <3>2. edges'[tasks'[x] + 1][tasks'[d] + 1] = edges[tasks[x] + 1][tasks[d] + 1]
        BY <2>3, <2>5, <2>7, <3>1
      <3>3. d \in waits'[x] <=> d \in waits[x]
        BY <2>4, <3>1
      <3>. QED
        BY <3>1, <3>2, <3>3 DEF PositionsExact
    <2>10. \A x, y \in DOMAIN tasks' : tasks'[x] = tasks'[y] => x = y
      BY <2>3 DEF PositionsExact
    <2>11. \A x \in DOMAIN tasks' : tasks'[x] < Size'
      BY <2>3, <2>7
    <2>. QED
      BY <2>8, <2>9, <2>10, <2>11 DEF PositionsExact, Size
  <1>. QED
    BY <1>1, <1>2

\* What is invariant until the first removal in the middle of the table.
ExactInv == ~shifted => ~crashed /\ PositionsExact

\* Every handler step keeps it.
LEMMA ExactStep == TableInv /\ ExactInv /\ [Next]_vars => ExactInv'
  <1> SUFFICES ASSUME TableInv, ExactInv, [Next]_vars, ~shifted'
               PROVE  ~crashed' /\ PositionsExact'
    BY DEF ExactInv
  <1>1. ASSUME NEW h \in Handler, NEW t \in TaskId, NEW trigger \in Trigger, NEW ds \in DepList,
               RecvDeploy(h, t, trigger, ds)
        PROVE  ~crashed' /\ PositionsExact'
    BY <1>1, ExactDeploy DEF RecvDeploy, ExactInv
  <1>2. ASSUME NEW h \in Handler, DeployAddDeps(h)
        PROVE  ~crashed' /\ PositionsExact'
    <2>1. ~shifted
      BY <1>2 DEF DeployAddDeps
    <2>. QED
      BY <1>2, <2>1, ExactAddDeps DEF ExactInv
  <1>3. ASSUME NEW t, Remove(t), UNCHANGED crashed
        PROVE  ~crashed' /\ PositionsExact'
    <2>1. ~shifted
      BY <1>3 DEF Remove
    <2>. QED
      BY <1>3, <2>1, ExactRemove DEF ExactInv
  <1>4. ASSUME UNCHANGED <<tasks, edges, waits, shifted, crashed>>
        PROVE  ~crashed' /\ PositionsExact'
    BY <1>4 DEF ExactInv, PositionsExact
  <1>5. ASSUME NEW t \in TaskId, Submit(t), UNCHANGED <<tasks, edges, waits, shifted>>
        PROVE  ~crashed' /\ PositionsExact'
    <2>1. ~shifted /\ PositionsExact /\ ~crashed
      BY <1>5 DEF ExactInv
    <2>2. SubmitOutcome(tasks, edges, t) # "throw"
      <3>1. CASE t \in DOMAIN tasks
        BY <2>1, <3>1, ExactSubmit
      <3>2. CASE t \notin DOMAIN tasks
        BY <3>2 DEF SubmitOutcome
      <3>. QED
        BY <3>1, <3>2
    <2>3. UNCHANGED crashed
      BY <1>5, <2>2 DEF Submit
    <2>. QED
      BY <1>4, <1>5, <2>3
  <1>6. ASSUME NEW h \in Handler, DeploySubmit(h)
        PROVE  ~crashed' /\ PositionsExact'
    <2>1. handler[h].task \in TaskId
      BY <1>6, HandlerRequest DEF DeploySubmit, TableInv
    <2>. QED
      BY <1>4, <1>5, <1>6, <2>1 DEF DeploySubmit, history
  <1>7. ASSUME NEW t \in TaskId, RecvTrigger(t)
        PROVE  ~crashed' /\ PositionsExact'
    BY <1>5, <1>7 DEF RecvTrigger, history
  <1>. QED
    BY <1>1, <1>2, <1>3, <1>4, <1>6, <1>7
    DEF Next, LoadServer, DeployRollback, RecvTerminate, RecvEmptyResult, RecvResult, history, vars

\* As long as every removal took the task deployed last, submit starts a
\* task exactly when its dependencies are gone, and no handler throws, for
\* any number of tasks, dependencies and interleaved handlers.
THEOREM ExactBeforeShift == Spec => []ExactUntilShift
  <1>1. Init => ExactInv
    <2> SUFFICES ASSUME Init PROVE ~crashed /\ PositionsExact
      BY DEF ExactInv
    <2>1. DOMAIN tasks = {} /\ Cardinality(DOMAIN tasks) = 0
      BY FS_EmptySet DEF Init
    <2>. QED
      BY <2>1 DEF Init, PositionsExact
  <1>2. TableInv /\ ExactInv => ExactUntilShift
    BY ExactSubmit DEF ExactInv, ExactUntilShift, SubmitFollowsDeps
  <1>. QED
    BY <1>1, <1>2, ExactStep, TableInductive, PTL DEF Spec

-----------------------------------------------------------------------------
(* Rollback.                                                               *)

\* In every reachable state, stale positions included, a deploy request
\* whose dependencies turn out broken is undone by remove_task without a
\* trace, provided no other handler runs in between.
THEOREM RollbackUndoes == Spec => []RollbackExact
  <1>1. TableInv => RollbackExact
    <2> SUFFICES ASSUME TableInv, NEW t \in TaskId \ DOMAIN tasks, NEW ds \in DepList
                 PROVE  LET tk == DeployTasks(tasks, t)
                            ed == AddDepsEdges(tk, DeployEdges(tasks, edges), t, ds)
                        IN  RemoveTasks(tk, t) = tasks /\ RemoveEdges(tk, ed, t) = edges
      BY DEF RollbackExact
    <2> DEFINE tk == DeployTasks(tasks, t)
               de == DeployEdges(tasks, edges)
               ed == AddDepsEdges(tk, de, t, ds)
               linked == Linked(tk, de, t, ds)
    <2>1. Size \in Nat /\ edges \in Matrix(Size)
      BY SizeType DEF TableInv
    <2>2. t \in DOMAIN tk /\ tk[t] = Size
      BY DEF DeployTasks, Size
    <2>3. RemoveTasks(tk, t) = tasks
      BY DEF DeployTasks, RemoveTasks, TableInv, TypeOK
    <2>4. de = [i \in 1..(Size + 1) |-> [j \in 1..(Size + 1) |->
                  IF i <= Size /\ j <= Size THEN edges[i][j] ELSE 0]]
      BY <2>1, DeployShape DEF Size
    <2>5. de \in Matrix(Size + 1)
      <3>1. \A i, j \in 1..(Size + 1) : (IF i <= Size /\ j <= Size THEN edges[i][j] ELSE 0) \in Bit
        BY <2>1 DEF Matrix, Bit
      <3>. QED
        BY <2>4, <3>1 DEF Matrix
    <2> HIDE DEF tk, de
    <2>6. Len(de) = Size + 1 /\ \A i \in 1..(Size + 1) : Len(de[i]) = Size + 1
      BY <2>1, <2>5, Size + 1 \in Nat, MatrixIsSquare
    <2>7. ed \in Matrix(Size + 1)
      BY <2>1, <2>5, Size + 1 \in Nat, AddDepsShape
    <2>8. ed = [i \in 1..(Size + 1) |-> [j \in 1..(Size + 1) |->
                  IF i = tk[t] + 1 /\ \E d \in linked : j = tk[d] + 1
                  THEN 1 ELSE de[i][j]]]
      BY <2>2, <2>6 DEF AddDepsEdges
    <2>9. \A i, j \in 1..Size : ed[i][j] = edges[i][j]
      <3> SUFFICES ASSUME NEW i \in 1..Size, NEW j \in 1..Size
                   PROVE  ed[i][j] = edges[i][j]
        OBVIOUS
      <3>1. i \in 1..(Size + 1) /\ j \in 1..(Size + 1) /\ i # tk[t] + 1 /\ i <= Size /\ j <= Size
        BY <2>1, <2>2
      <3>2. ed[i][j] = de[i][j]
        BY <2>8, <3>1
      <3>. QED
        BY <2>4, <3>1, <3>2
    <2> HIDE DEF ed
    <2>10. RemoveEdges(tk, ed, t) = [i \in 1..Size |-> [j \in 1..Size |-> ed[i][j]]]
      <3>1. RemoveEdges(tk, ed, t) =
              [i \in 1..(Size + 1 - 1) |-> [j \in 1..(Size + 1 - 1) |->
                 ed[IF i <= tk[t] THEN i ELSE i + 1][IF j <= tk[t] THEN j ELSE j + 1]]]
        BY <2>1, <2>2, <2>7, Size + 1 \in Nat, Size + 1 > 0, RemoveShape
      <3>2. Size + 1 - 1 = Size
        BY <2>1
      <3>. QED
        BY <2>1, <2>2, <3>1, <3>2
    <2>11. RemoveEdges(tk, ed, t) = edges
      <3>1. edges = [i \in 1..Size |-> [j \in 1..Size |-> edges[i][j]]]
        BY <2>1 DEF Matrix
      <3>. QED
        BY <2>9, <2>10, <3>1
    <2>. QED
      BY <2>3, <2>11 DEF tk, ed, de
  <1>. QED
    BY <1>1, TableInductive, PTL
=============================================================================
