--------------------------- MODULE LifecycleProofs ---------------------------
(* Theorems about Lifecycle, for any number of clients and ids and any     *)
(* bounds.                                                                 *)
EXTENDS Lifecycle, FiniteSetTheorems, TLAPS

-----------------------------------------------------------------------------
(* Types                                                                   *)

\* A client at rest has no exchange under way: Fail, which records the
\* client's exchange among the late requests, needs it.
LegInv == \A c \in Client : pc[c] \in Rest => leg[c] = "none"
CallInv == TypeOK /\ LegInv

\* What Send and Return do to the call of a well-typed state.
CallType ==
  /\ pc \in [Client -> Exchange \cup Rest]
  /\ task \in [Client -> TaskId]
  /\ leg \in [Client -> {"none", "out", "back"}]
  /\ tries \in [Client -> 0..RetryMax]
  /\ answer \in [Client -> [status : Status, alternative : TaskId]]
  /\ LegInv

LEMMA SendType ==
  ASSUME CallType, NEW c \in Client, NEW op \in Exchange, NEW t \in TaskId, Send(c, op, t)
  PROVE  CallType'
BY LifecycleAssumption DEF CallType, LegInv, Send, NoAnswer, Status, Exchange, Rest, RetryMax

LEMMA ReturnType ==
  ASSUME CallType, NEW c \in Client, NEW rest \in Rest, Return(c, rest)
  PROVE  CallType'
BY LifecycleAssumption DEF CallType, LegInv, Return, NoAnswer, Status, Exchange, Rest, RetryMax

LEMMA AnswerType ==
  ASSUME CallType, NEW c \in Client, pc[c] \in Exchange, NEW status \in Status,
         NEW alternative \in TaskId,
         Answer(c, [status |-> status, alternative |-> alternative])
  PROVE  CallType'
BY DEF CallType, LegInv, Answer, Exchange, Rest

\* Every step keeps the types.
LEMMA TypeStep ==
  ASSUME CallInv, [Next]_vars
  PROVE  CallInv'
<1> USE LifecycleAssumption
<1>0. TypeOK /\ LegInv /\ CallType
  BY DEF CallInv, TypeOK, CallType
<1>a. ASSUME CallType', UNCHANGED <<busy_retry_max, busies, late, dones, servers>>,
             repeater' \in [Client -> BOOLEAN],
             calls' \in Nat, losses' \in Nat, finished' \in Nat, undeploys' \in Nat,
             stale' \in BOOLEAN
      PROVE  CallInv'
  BY <1>0, <1>a DEF CallInv, TypeOK, CallType, servers
<1>1. ASSUME NEW c \in Client, create_neogiate_task(c)
      PROVE  CallInv'
  <2>1. CallType'
    BY <1>0, <1>1, SendType DEF create_neogiate_task, Exchange
  <2> QED BY <1>0, <1>1, <1>a, <2>1 DEF create_neogiate_task, TypeOK
<1>2. ASSUME NEW c \in Client, create_deploy_task(c)
      PROVE  CallInv'
  <2>1. CallType'
    BY <1>0, <1>2, SendType DEF create_deploy_task, Exchange, TypeOK
  <2>2. repeater' \in [Client -> BOOLEAN]
    BY <1>0, <1>2 DEF create_deploy_task, TypeOK
  <2>3. busy_retry_max' \in [Client -> Int] /\ busies' \in [Client -> Nat]
    BY <1>0, <1>2 DEF create_deploy_task, TypeOK
  <2> QED BY <1>0, <1>2, <2>1, <2>2, <2>3
          DEF create_deploy_task, TypeOK, CallInv, CallType, servers, history
<1>3. ASSUME NEW c \in Client, create_terminate_task(c)
      PROVE  CallInv'
  <2>1. CallType'
    BY <1>0, <1>3, SendType DEF create_terminate_task, Exchange, TypeOK
  <2> QED BY <1>0, <1>3, <1>a, <2>1 DEF create_terminate_task, TypeOK, history
<1>4. ASSUME NEW c \in Client, Finish(c)
      PROVE  CallInv'
  <2>1. CallType'
    BY <1>0, <1>4, ReturnType DEF Finish, Rest
  <2> QED BY <1>0, <1>4, <1>a, <2>1 DEF Finish, TypeOK
<1>5. ASSUME NEW c \in Client, RecvNeogiate(c)
      PROVE  CallInv'
  <2>1. answer[c].alternative \in TaskId
    BY <1>0 DEF TypeOK
  <2>2. CallType'
    BY <1>0, <1>5, <2>1, SendType, ReturnType DEF RecvNeogiate, Rest, Exchange
  <2>3. repeater' \in [Client -> BOOLEAN]
    BY <1>0, <1>5 DEF RecvNeogiate, TypeOK
  <2> QED BY <1>0, <1>5, <1>a, <2>2, <2>3 DEF RecvNeogiate, TypeOK, history
<1>6. ASSUME NEW c \in Client, RecvDeploy(c)
      PROVE  CallInv'
  <2>1. task[c] \in TaskId
    BY <1>0 DEF TypeOK
  <2>2. CallType'
    BY <1>0, <1>6, <2>1, SendType, ReturnType DEF RecvDeploy, Rest, Exchange
  <2>3. repeater' \in [Client -> BOOLEAN]
    BY <1>0, <1>6 DEF RecvDeploy, TypeOK
  <2>4. busy_retry_max' \in [Client -> Int]
    BY <1>0, <1>6 DEF RecvDeploy, TypeOK
  <2>5. busies' \in [Client -> Nat]
    BY <1>0, <1>6 DEF RecvDeploy, TypeOK
  <2> QED BY <1>0, <1>6, <2>2, <2>3, <2>4, <2>5
          DEF RecvDeploy, TypeOK, CallInv, CallType, servers, history
<1>7. ASSUME NEW c \in Client, RecvTerminate(c)
      PROVE  CallInv'
  <2>1. task[c] \in TaskId
    BY <1>0 DEF TypeOK
  <2>2. CallType'
    BY <1>0, <1>7, <2>1, SendType, ReturnType
    DEF RecvTerminate, AfterUnbind, AfterUndeploy, Rest, Exchange
  <2>3. undeploys' \in Nat
    BY <1>0, <1>7 DEF RecvTerminate, AfterUnbind, AfterUndeploy, TypeOK
  <2> QED BY <1>0, <1>7, <1>a, <2>2, <2>3 DEF RecvTerminate, TypeOK
<1>8. ASSUME NEW c \in Client, NEW lag \in BOOLEAN, Fail(c, lag)
      PROVE  CallInv'
  <2>1. task[c] \in TaskId /\ pc[c] \in Exchange
    BY <1>0, <1>8 DEF Fail, TypeOK, LegInv
  <2>2. ASSUME tries[c] < RetryMax
        PROVE  CallType' /\ undeploys' \in Nat
    <3>1. /\ leg' = [leg EXCEPT ![c] = "out"]
          /\ tries' = [tries EXCEPT ![c] = @ + 1]
          /\ answer' = [answer EXCEPT ![c] = NoAnswer]
          /\ UNCHANGED <<pc, task, undeploys>>
      BY <1>8, <2>2 DEF Fail
    <3>2. pc[c] \notin Rest
      BY <2>1 DEF Exchange, Rest
    <3>3. NoAnswer \in [status : Status, alternative : TaskId]
      BY DEF NoAnswer, Status
    <3>4. tries' \in [Client -> 0..RetryMax]
      BY <1>0, <2>2, <3>1 DEF TypeOK, RetryMax
    <3> QED BY <1>0, <3>1, <3>2, <3>3, <3>4 DEF CallType, LegInv, TypeOK
  <2>3. ASSUME ~(tries[c] < RetryMax)
        PROVE  CallType' /\ undeploys' \in Nat
    <3>1. GiveUp(c)
      BY <1>8, <2>3 DEF Fail
    <3>2. CallType'
      BY <1>0, <2>1, <3>1, SendType, ReturnType
      DEF GiveUp, AfterUnbind, AfterUndeploy, Rest, Exchange
    <3>3. undeploys' \in Nat
      BY <1>0, <3>1 DEF GiveUp, AfterUnbind, AfterUndeploy, TypeOK
    <3> QED BY <3>2, <3>3
  <2>4. CallType' /\ undeploys' \in Nat
    BY <2>2, <2>3
  <2>5. late' \subseteq Late
    BY <1>0, <1>8, <2>1 DEF Fail, TypeOK, Late
  <2>6. stale' \in BOOLEAN /\ losses' \in Nat
    BY <1>0, <1>8 DEF Fail, TypeOK
  <2> QED BY <1>0, <1>8, <2>4, <2>5, <2>6 DEF Fail, TypeOK, CallInv, CallType, servers
<1>9. ASSUME NEW c \in Client, CutReply(c)
      PROVE  CallInv'
  <2>1. task[c] \in TaskId
    BY <1>0 DEF TypeOK
  <2>2. CallType'
    BY <1>0, <1>9, <2>1, SendType, ReturnType DEF CutReply, Rest, Exchange
  <2> QED BY <1>0, <1>9, <1>a, <2>2 DEF CutReply, TypeOK
<1>10. ASSUME NEW c \in Client, NEW alternative \in TaskId, StorageNeogiate(c, alternative)
       PROVE  CallInv'
  <2>1. CallType'
    BY <1>0, <1>10, AnswerType DEF StorageNeogiate, Arrived, Exchange, Status, Reply
  <2>2. bound' \subseteq TaskId
    BY <1>0, <1>10 DEF StorageNeogiate, TypeOK
  <2>3. UNCHANGED <<repeater, busy_retry_max, busies>>
    BY <1>10 DEF StorageNeogiate, Answer
  <2> QED BY <1>0, <1>10, <2>1, <2>2, <2>3
          DEF StorageNeogiate, TypeOK, CallInv, CallType, history
<1>11. ASSUME NEW c \in Client, StorageTerminate(c)
       PROVE  CallInv'
  <2>1. CallType'
    BY <1>0, <1>11, AnswerType DEF StorageTerminate, Arrived, Exchange, Status, NoAnswer
  <2> QED BY <1>0, <1>11, <2>1
          DEF StorageTerminate, Answer, TypeOK, CallInv, CallType, history
<1>12. ASSUME NEW c \in Client, NEW started \in BOOLEAN, ClusterDeploy(c, started)
       PROVE  CallInv'
  <2>1. CallType'
    BY <1>0, <1>12, AnswerType DEF ClusterDeploy, Arrived, Exchange, Status, Reply
  <2>2. deployed' \subseteq TaskId
    BY <1>0, <1>12 DEF ClusterDeploy, TypeOK
  <2>3. UNCHANGED <<repeater, busy_retry_max, busies>>
    BY <1>12 DEF ClusterDeploy, Answer
  <2> QED BY <1>0, <1>12, <2>1, <2>2, <2>3
          DEF ClusterDeploy, TypeOK, CallInv, CallType, history
<1>13. ASSUME NEW c \in Client, ClusterTerminate(c)
       PROVE  CallInv'
  <2>1. CallType'
    BY <1>0, <1>13, AnswerType DEF ClusterTerminate, Arrived, Exchange, Status, NoAnswer
  <2> QED BY <1>0, <1>13, <2>1
          DEF ClusterTerminate, Answer, TypeOK, CallInv, CallType, history
<1>14. ASSUME NEW c \in Client, ClusterBusy(c)
       PROVE  CallInv'
  <2>1. CallType'
    BY <1>0, <1>14, AnswerType DEF ClusterBusy, Arrived, Exchange, Status, Reply
  <2> QED BY <1>0, <1>14, <1>a, <2>1 DEF ClusterBusy, Answer, TypeOK, history
<1>15. ASSUME NEW m \in late, LateArrives(m)
       PROVE  CallInv'
  <2>1. m.task \in TaskId
    BY <1>0 DEF TypeOK, Late
  <2>2. bound' \subseteq TaskId
    BY <1>0, <1>15, <2>1 DEF LateArrives, TypeOK
  <2>3. deployed' \subseteq TaskId
    BY <1>0, <1>15, <2>1 DEF LateArrives, TypeOK
  <2> QED BY <1>0, <1>15, <2>2, <2>3 DEF LateArrives, TypeOK, CallInv, LegInv, call, history
<1>16. ASSUME NEW t \in TaskId, ClusterResult(t)
       PROVE  CallInv'
  BY <1>0, <1>16 DEF ClusterResult, TypeOK, CallInv, LegInv, call
<1>17. ASSUME NEW t \in TaskId, DoneArrives(t)
       PROVE  CallInv'
  BY <1>0, <1>17 DEF DoneArrives, TypeOK, CallInv, LegInv, call, history
<1>18. ASSUME NEW t \in TaskId, DoneLost(t)
       PROVE  CallInv'
  BY <1>0, <1>18 DEF DoneLost, TypeOK, CallInv, LegInv, call, servers
<1>19. ASSUME NEW t \in TaskId, DoneRepeated(t)
       PROVE  CallInv'
  BY <1>0, <1>19 DEF DoneRepeated, TypeOK, CallInv, LegInv, call
<1>20. ASSUME UNCHANGED vars
       PROVE  CallInv'
  BY <1>0, <1>20 DEF vars, TypeOK, CallInv, LegInv
<1> QED
  BY <1>1, <1>2, <1>3, <1>4, <1>5, <1>6, <1>7, <1>8, <1>9, <1>10, <1>11, <1>12, <1>13,
     <1>14, <1>15, <1>16, <1>17, <1>18, <1>19, <1>20
  DEF Next, Recv, Serve

LEMMA CallInvariant == Spec => []CallInv
<1>1. ASSUME Init
      PROVE  CallInv
  <2>1. NoAnswer \in [status : Status, alternative : TaskId]
    BY LifecycleAssumption DEF NoAnswer, Status
  <2>2. /\ repeater \in [Client -> BOOLEAN]
        /\ reporting \in BOOLEAN /\ stale \in BOOLEAN
    BY <1>1 DEF Init
  <2>3. /\ pc \in [Client -> Exchange \cup Rest]
        /\ task \in [Client -> TaskId]
        /\ leg \in [Client -> {"none", "out", "back"}]
        /\ tries \in [Client -> 0..RetryMax]
    BY <1>1, LifecycleAssumption DEF Init, Rest, RetryMax
  <2>4. busy_retry_max \in [Client -> Int] /\ busies \in [Client -> Nat]
    BY <1>1, LifecycleAssumption DEF Init
  <2>5. LegInv
    BY <1>1 DEF Init, LegInv
  <2> QED BY <1>1, <2>1, <2>2, <2>3, <2>4, <2>5 DEF Init, CallInv, TypeOK
<1>2. CallInv /\ [Next]_vars => CallInv'
  BY TypeStep
<1> QED BY <1>1, <1>2, PTL DEF Spec

\* Every reachable state of clients, storage, cluster and network is well
\* typed.
THEOREM TypeCorrect == Spec => []TypeOK
<1>1. CallInv => TypeOK
  BY DEF CallInv
<1> QED BY <1>1, CallInvariant, PTL

-----------------------------------------------------------------------------
(* What a step of one client leaves alone                                  *)

Same(d) ==
  pc'[d] = pc[d] /\ task'[d] = task[d] /\ leg'[d] = leg[d] /\ answer'[d] = answer[d]
Others(c) == \A d \in Client \ {c} : Same(d)

LEMMA SendSame ==
  ASSUME CallType, NEW c \in Client, NEW op, NEW t, Send(c, op, t)
  PROVE  /\ Others(c)
         /\ pc'[c] = op /\ task'[c] = t /\ leg'[c] = "out" /\ answer'[c] = NoAnswer
BY DEF CallType, Send, Others, Same

LEMMA ReturnSame ==
  ASSUME CallType, NEW c \in Client, NEW rest, Return(c, rest)
  PROVE  /\ Others(c)
         /\ pc'[c] = rest /\ task'[c] = task[c] /\ leg'[c] = "none" /\ answer'[c] = NoAnswer
BY DEF CallType, Return, Others, Same

LEMMA AnswerSame ==
  ASSUME CallType, NEW c \in Client, NEW reply, Answer(c, reply)
  PROVE  /\ Others(c)
         /\ pc'[c] = pc[c] /\ task'[c] = task[c] /\ leg'[c] = "back" /\ answer'[c] = reply
BY DEF CallType, Answer, Others, Same

\* A failed exchange: the request is made again, or the client gives up.
LEMMA FailSame ==
  ASSUME CallInv, NEW c \in Client, NEW lag \in BOOLEAN, Fail(c, lag)
  PROVE  /\ Others(c)
         /\ pc[c] \in Exchange
         /\ answer'[c] = NoAnswer
         /\ task'[c] = task[c]
         /\ \/ pc'[c] = pc[c] /\ leg'[c] = "out" /\ undeploys' = undeploys
            \/ pc[c] = "neogiate" /\ pc'[c] = "idle" /\ leg'[c] = "none" /\ undeploys' = undeploys
            \/ pc[c] = "deploy" /\ pc'[c] = "unbind" /\ leg'[c] = "out" /\ undeploys' = undeploys
            \/ pc[c] = "unbind" /\ pc'[c] = "undeploy" /\ leg'[c] = "out"
               /\ undeploys' = undeploys + 1
               /\ stale' = (stale \/ lag)
            \/ pc[c] = "undeploy" /\ pc'[c] = "idle" /\ leg'[c] = "none" /\ undeploys' = undeploys
         /\ pc[c] = "unbind" /\ pc'[c] = "unbind" /\ leg[c] = "back" => stale'
<1>0. CallType
  BY DEF CallInv, TypeOK, CallType
<1>1. pc[c] \in Exchange
  BY DEF Fail, CallInv, TypeOK, LegInv
<1>2. CASE tries[c] < RetryMax
  <2>1. /\ leg' = [leg EXCEPT ![c] = "out"]
        /\ answer' = [answer EXCEPT ![c] = NoAnswer]
        /\ UNCHANGED <<pc, task, undeploys>>
    BY <1>2 DEF Fail
  <2>2. pc[c] = "unbind" /\ leg[c] = "back" => stale'
    BY <1>2 DEF Fail
  <2> QED BY <1>0, <1>1, <2>1, <2>2 DEF CallType, Others, Same
<1>3. CASE ~(tries[c] < RetryMax)
  <2>1. GiveUp(c) /\ stale' = (stale \/ (pc[c] = "unbind" /\ lag))
    BY <1>3 DEF Fail
  <2>2. CASE pc[c] = "unbind" /\ AfterUnbind(c)
    BY <1>0, <1>1, <2>1, <2>2, SendSame DEF AfterUnbind
  <2>3. CASE pc[c] = "undeploy" /\ AfterUndeploy(c)
    BY <1>0, <1>1, <2>3, ReturnSame DEF AfterUndeploy
  <2>4. CASE pc[c] = "neogiate" /\ ~repeater[c] /\ Return(c, "idle") /\ UNCHANGED undeploys
    BY <1>0, <1>1, <2>4, ReturnSame
  <2>5. CASE pc[c] = "deploy" /\ ~repeater[c] /\ Send(c, "unbind", task[c]) /\ UNCHANGED undeploys
    BY <1>0, <1>1, <2>5, SendSame
  <2>6. CASE /\ pc[c] \in {"neogiate", "deploy"} /\ repeater[c] /\ Send(c, pc[c], task[c])
             /\ UNCHANGED undeploys
    BY <1>0, <1>1, <2>6, SendSame
  <2> QED BY <2>1, <2>2, <2>3, <2>4, <2>5, <2>6 DEF GiveUp
<1> QED BY <1>2, <1>3

-----------------------------------------------------------------------------
(* An id has one owner                                                     *)

\* A client owns its id from the moment the storage grants it, when the
\* reply is still under way, until the storage handles its terminate.
Owner(c) ==
  \/ Holds(c)
  \/ pc[c] = "neogiate" /\ leg[c] = "back" /\ answer[c].status = "succeed"
  \/ pc[c] = "unbind" /\ leg[c] = "out"

\* IdsExclusiveUntilStale, strengthened: owners instead of holders, since a
\* grant under way becomes a holder and a terminate under way unbinds; and
\* nothing else that unbinds is under way.
Exclusive ==
  /\ \A c, d \in Client : Owner(c) /\ Owner(d) /\ task[c] = task[d] => c = d
  /\ \A c \in Client : Owner(c) => task[c] \in bound
Quiet ==
  /\ \A m \in late : m.op # "unbind"
  /\ \A t \in TaskId : dones[t] = 0
OwnInv == ~stale => Exclusive /\ Quiet

LEMMA OwnerSame ==
  ASSUME NEW d \in Client, Same(d)
  PROVE  (Owner(d)' <=> Owner(d)) /\ (Holds(d)' <=> Holds(d))
BY DEF Same, Owner, Holds

\* A step in which a client becomes no owner it was not before, and in
\* which nothing is unbound, keeps the owners apart.
LEMMA ExclusiveKept ==
  ASSUME Exclusive, NEW c \in Client, Others(c), bound \subseteq bound',
         Owner(c)' => Owner(c) /\ task'[c] = task[c]
  PROVE  Exclusive'
<1>1. \A d \in Client : Owner(d)' => Owner(d) /\ task'[d] = task[d]
  BY OwnerSame DEF Others, Same
<1> QED BY <1>1 DEF Exclusive

LEMMA OwnStep ==
  ASSUME CallInv, OwnInv, [Next]_vars
  PROVE  OwnInv'
<1> SUFFICES ASSUME ~stale' PROVE Exclusive' /\ Quiet'
  BY DEF OwnInv
<1>0. CallType /\ TypeOK
  BY DEF CallInv, TypeOK, CallType
\* stale is never taken back.
<1>a. stale' = stale => Exclusive /\ Quiet
  BY DEF OwnInv
<1>b. UNCHANGED <<late, dones>> /\ Quiet => Quiet'
  BY DEF Quiet
<1>1. ASSUME NEW c \in Client, create_neogiate_task(c)
      PROVE  Exclusive' /\ Quiet'
  <2>1. stale' = stale /\ UNCHANGED <<bound, late, dones>> /\ Send(c, "neogiate", FirstId)
    BY <1>1 DEF create_neogiate_task, servers
  <2>2. Others(c) /\ ~Owner(c)'
    BY <1>0, <2>1, SendSame DEF Owner, Holds
  <2> QED BY <1>a, <1>b, <2>1, <2>2, ExclusiveKept
<1>2. ASSUME NEW c \in Client, create_deploy_task(c)
      PROVE  Exclusive' /\ Quiet'
  <2>1. stale' = stale /\ UNCHANGED <<bound, late, dones>> /\ Send(c, "deploy", task[c])
    BY <1>2 DEF create_deploy_task, servers, history
  <2>2. Others(c) /\ Owner(c) /\ task'[c] = task[c]
    BY <1>0, <1>2, <2>1, SendSame DEF create_deploy_task, Owner, Holds
  <2> QED BY <1>a, <1>b, <2>1, <2>2, ExclusiveKept
<1>3. ASSUME NEW c \in Client, create_terminate_task(c)
      PROVE  Exclusive' /\ Quiet'
  <2>1. stale' = stale /\ UNCHANGED <<bound, late, dones>> /\ Send(c, "unbind", task[c])
    BY <1>3 DEF create_terminate_task, servers, history
  <2>2. Others(c) /\ Owner(c) /\ task'[c] = task[c]
    BY <1>0, <1>3, <2>1, SendSame DEF create_terminate_task, Owner, Holds
  <2> QED BY <1>a, <1>b, <2>1, <2>2, ExclusiveKept
<1>4. ASSUME NEW c \in Client, Finish(c)
      PROVE  Exclusive' /\ Quiet'
  <2>1. stale' = stale /\ UNCHANGED <<bound, late, dones>> /\ Return(c, "idle")
    BY <1>4 DEF Finish, servers
  <2>2. Others(c) /\ ~Owner(c)'
    BY <1>0, <2>1, ReturnSame DEF Owner, Holds
  <2> QED BY <1>a, <1>b, <2>1, <2>2, ExclusiveKept
<1>5. ASSUME NEW c \in Client, RecvNeogiate(c)
      PROVE  Exclusive' /\ Quiet'
  <2>1. stale' = stale /\ UNCHANGED <<bound, late, dones>>
    BY <1>5 DEF RecvNeogiate, servers, history
  <2>2. CASE answer[c].status = "succeed" /\ Return(c, "held")
    <3>1. Others(c) /\ Owner(c) /\ task'[c] = task[c]
      BY <1>0, <1>5, <2>2, ReturnSame DEF RecvNeogiate, Owner
    <3> QED BY <1>a, <1>b, <2>1, <3>1, ExclusiveKept
  <2>3. CASE Send(c, "neogiate", answer[c].alternative)
    <3>1. Others(c) /\ ~Owner(c)'
      BY <1>0, <2>3, SendSame DEF Owner, Holds
    <3> QED BY <1>a, <1>b, <2>1, <3>1, ExclusiveKept
  <2> QED BY <1>5, <2>2, <2>3 DEF RecvNeogiate
<1>6. ASSUME NEW c \in Client, RecvDeploy(c)
      PROVE  Exclusive' /\ Quiet'
  <2>1. stale' = stale /\ UNCHANGED <<bound, late, dones>>
    BY <1>6 DEF RecvDeploy, servers, history
  <2>2. Others(c) /\ Owner(c) /\ task'[c] = task[c]
    BY <1>0, <1>6, SendSame, ReturnSame DEF RecvDeploy, Owner, Holds
  <2> QED BY <1>a, <1>b, <2>1, <2>2, ExclusiveKept
<1>7. ASSUME NEW c \in Client, RecvTerminate(c)
      PROVE  Exclusive' /\ Quiet'
  <2>1. stale' = stale /\ UNCHANGED <<bound, late, dones>>
    BY <1>7 DEF RecvTerminate, servers
  <2>2. Others(c) /\ ~Owner(c)'
    BY <1>0, <1>7, SendSame, ReturnSame
    DEF RecvTerminate, AfterUnbind, AfterUndeploy, Owner, Holds
  <2> QED BY <1>a, <1>b, <2>1, <2>2, ExclusiveKept
<1>8. ASSUME NEW c \in Client, NEW lag \in BOOLEAN, Fail(c, lag)
      PROVE  Exclusive' /\ Quiet'
  <2>1. UNCHANGED <<bound, dones>> /\ ~stale
    BY <1>8 DEF Fail, servers
  <2>2. Exclusive /\ Quiet
    BY <2>1 DEF OwnInv
  <2>3. Quiet'
    BY <1>0, <1>8, <2>1, <2>2 DEF Fail, Quiet, TypeOK
  <2>4. NoAnswer.status # "succeed"
    BY DEF NoAnswer
  <2>5. Others(c) /\ (Owner(c)' => Owner(c) /\ task'[c] = task[c])
    <3>1. Others(c) /\ answer'[c] = NoAnswer /\ task'[c] = task[c]
      BY <1>8, FailSame
    <3>2. ASSUME Owner(c)'
          PROVE  Owner(c)
      BY <1>8, <2>4, <3>2, FailSame DEF Owner, Holds, Exchange, Fail
    <3> QED BY <3>1, <3>2
  <2> QED BY <2>1, <2>2, <2>3, <2>5, ExclusiveKept
<1>9. ASSUME NEW c \in Client, CutReply(c)
      PROVE  Exclusive' /\ Quiet'
  <2>1. stale' = stale /\ UNCHANGED <<bound, late, dones>>
    BY <1>9 DEF CutReply, servers
  <2>2. CASE Return(c, "idle")
    <3>1. Others(c) /\ ~Owner(c)'
      BY <1>0, <2>2, ReturnSame DEF Owner, Holds
    <3> QED BY <1>a, <1>b, <2>1, <3>1, ExclusiveKept
  <2>3. CASE pc[c] = "deploy" /\ Send(c, "unbind", task[c])
    <3>1. Others(c) /\ Owner(c) /\ task'[c] = task[c]
      BY <1>0, <2>3, SendSame DEF Owner, Holds
    <3> QED BY <1>a, <1>b, <2>1, <3>1, ExclusiveKept
  <2> QED BY <1>9, <2>2, <2>3 DEF CutReply
<1>10. ASSUME NEW c \in Client, NEW alternative \in TaskId, StorageNeogiate(c, alternative)
       PROVE  Exclusive' /\ Quiet'
  <2>1. stale' = stale /\ UNCHANGED <<late, dones>>
    BY <1>10 DEF StorageNeogiate, history
  <2>2. CASE task[c] \in bound
    <3>1. /\ Answer(c, [status |-> "conflict", alternative |-> alternative])
          /\ UNCHANGED bound
      BY <1>10, <2>2 DEF StorageNeogiate
    <3>2. Others(c) /\ ~Owner(c)'
      BY <1>0, <1>10, <3>1, AnswerSame DEF Owner, Holds, StorageNeogiate, Arrived
    <3> QED BY <1>a, <1>b, <2>1, <3>1, <3>2, ExclusiveKept
  <2>3. CASE task[c] \notin bound
    <3>1. bound' = bound \cup {task[c]} /\ Answer(c, Reply("succeed"))
      BY <1>10, <2>3 DEF StorageNeogiate
    <3>2. Others(c) /\ task'[c] = task[c]
      BY <1>0, <3>1, AnswerSame
    <3>3. \A d \in Client \ {c} :
            (Owner(d)' <=> Owner(d)) /\ task'[d] = task[d]
      BY <3>2, OwnerSame DEF Others, Same
    <3>4. \A d \in Client : Owner(d) => task[d] # task[c]
      BY <1>a, <2>1, <2>3 DEF Exclusive
    <3>5. Exclusive'
      BY <1>a, <2>1, <3>1, <3>2, <3>3, <3>4 DEF Exclusive
    <3> QED BY <1>a, <1>b, <2>1, <3>5
  <2> QED BY <2>2, <2>3
<1>11. ASSUME NEW c \in Client, StorageTerminate(c)
       PROVE  Exclusive' /\ Quiet'
  <2>1. stale' = stale /\ UNCHANGED <<late, dones>> /\ bound' = bound \ {task[c]}
    BY <1>11 DEF StorageTerminate, history
  <2>2. Owner(c)
    BY <1>11 DEF StorageTerminate, Arrived, Owner
  <2>3. Others(c) /\ ~Owner(c)'
    BY <1>0, <1>11, AnswerSame DEF Owner, Holds, StorageTerminate, Arrived
  <2>4. \A d \in Client : Owner(d)' => Owner(d) /\ d # c /\ task'[d] = task[d]
    BY <2>3, OwnerSame DEF Others, Same
  <2>5. Exclusive'
    BY <1>a, <2>1, <2>2, <2>4 DEF Exclusive
  <2> QED BY <1>a, <1>b, <2>1, <2>5
<1>12. ASSUME NEW c \in Client, NEW started \in BOOLEAN, ClusterDeploy(c, started)
       PROVE  Exclusive' /\ Quiet'
  <2>1. stale' = stale /\ UNCHANGED <<bound, late, dones>>
    BY <1>12 DEF ClusterDeploy, history
  <2>2. Others(c) /\ Owner(c) /\ task'[c] = task[c]
    BY <1>0, <1>12, AnswerSame DEF ClusterDeploy, Arrived, Owner, Holds
  <2> QED BY <1>a, <1>b, <2>1, <2>2, ExclusiveKept
<1>13. ASSUME NEW c \in Client, ClusterTerminate(c)
       PROVE  Exclusive' /\ Quiet'
  <2>1. stale' = stale /\ UNCHANGED <<bound, late, dones>>
    BY <1>13 DEF ClusterTerminate, history
  <2>2. Others(c) /\ ~Owner(c)'
    BY <1>0, <1>13, AnswerSame DEF ClusterTerminate, Arrived, Owner, Holds
  <2> QED BY <1>a, <1>b, <2>1, <2>2, ExclusiveKept
<1>14. ASSUME NEW c \in Client, ClusterBusy(c)
       PROVE  Exclusive' /\ Quiet'
  <2>1. stale' = stale /\ UNCHANGED <<bound, late, dones>>
    BY <1>14 DEF ClusterBusy, servers, history
  <2>2. Others(c) /\ Owner(c) /\ task'[c] = task[c]
    BY <1>0, <1>14, AnswerSame DEF ClusterBusy, Arrived, Owner, Holds
  <2> QED BY <1>a, <1>b, <2>1, <2>2, ExclusiveKept
<1>c. UNCHANGED call /\ bound \subseteq bound' /\ Exclusive => Exclusive'
  BY DEF call, Exclusive, Owner, Holds
<1>15. ASSUME NEW m \in late, LateArrives(m)
       PROVE  Exclusive' /\ Quiet'
  <2>1. stale' = stale /\ UNCHANGED <<call, dones>> /\ late' = late \ {m}
    BY <1>15 DEF LateArrives, history
  <2>2. bound \subseteq bound'
    BY <1>15, <1>a, <2>1 DEF LateArrives, Quiet
  <2>3. Quiet'
    BY <1>a, <2>1 DEF Quiet
  <2> QED BY <1>a, <1>c, <2>1, <2>2, <2>3
<1>16. ASSUME NEW t \in TaskId, ClusterResult(t)
       PROVE  Exclusive' /\ Quiet'
  <2>1. ~reporting /\ ~stale
    BY <1>16 DEF ClusterResult
  <2>2. stale' = stale /\ UNCHANGED <<call, bound, late, dones>>
    BY <1>0, <1>16, <2>1 DEF ClusterResult, TypeOK
  <2> QED BY <1>a, <1>b, <1>c, <2>2
<1>17. ASSUME NEW t \in TaskId, DoneArrives(t)
       PROVE  Exclusive' /\ Quiet'
  BY <1>17, <1>a DEF DoneArrives, history, Quiet
<1>18. ASSUME NEW t \in TaskId, DoneLost(t)
       PROVE  Exclusive' /\ Quiet'
  BY <1>18, <1>a DEF DoneLost, Quiet
<1>19. ASSUME NEW t \in TaskId, DoneRepeated(t)
       PROVE  Exclusive' /\ Quiet'
  BY <1>19, <1>a DEF DoneRepeated, Quiet
<1>20. ASSUME UNCHANGED vars
       PROVE  Exclusive' /\ Quiet'
  <2>1. stale' = stale /\ UNCHANGED <<call, bound, late, dones>>
    BY <1>20 DEF vars, call
  <2> QED BY <1>a, <1>b, <1>c, <2>1
<1> QED
  BY <1>1, <1>2, <1>3, <1>4, <1>5, <1>6, <1>7, <1>8, <1>9, <1>10, <1>11, <1>12, <1>13,
     <1>14, <1>15, <1>16, <1>17, <1>18, <1>19, <1>20
  DEF Next, Recv, Serve

LEMMA OwnInvariant == Spec => []OwnInv
<1>1. Init => OwnInv
  BY DEF Init, OwnInv, Exclusive, Quiet, Owner, Holds
<1>2. CallInv /\ OwnInv /\ [Next]_vars => OwnInv'
  BY OwnStep
<1> QED BY <1>1, <1>2, CallInvariant, PTL DEF Spec

\* Until a terminate is handled twice or late, or a cluster reports a task
\* done, no two clients hold one id and the storage keeps the engine of
\* every id a client holds, however exchanges fail, are cut or repeated.
THEOREM IdsExclusive == Spec => []IdsExclusiveUntilStale
<1>1. OwnInv => IdsExclusiveUntilStale
  BY DEF OwnInv, Exclusive, Owner, IdsExclusiveUntilStale, IdsDistinct
<1> QED BY <1>1, OwnInvariant, PTL

-----------------------------------------------------------------------------
(* The exchanges implement TaskLife                                        *)

\* The values Life gives the variables of TaskLife.
HoldsView == [c \in Client |-> IF Holds(c) THEN {task[c]} ELSE {}]
StartedView == {c \in Client : pc[c] = "running"}

LEMMA ViewChange ==
  ASSUME NEW c \in Client, Others(c)
  PROVE  /\ HoldsView' = [HoldsView EXCEPT ![c] = IF Holds(c)' THEN {task'[c]} ELSE {}]
         /\ pc'[c] = "running" => StartedView' = StartedView \cup {c}
         /\ pc'[c] # "running" => StartedView' = StartedView \ {c}
<1>1. \A d \in Client \ {c} : (Holds(d)' <=> Holds(d)) /\ Same(d)
  BY OwnerSame DEF Others
<1>2. HoldsView' = [HoldsView EXCEPT ![c] = IF Holds(c)' THEN {task'[c]} ELSE {}]
  BY <1>1 DEF HoldsView, Same
<1>3. /\ pc'[c] = "running" => StartedView' = StartedView \cup {c}
      /\ pc'[c] # "running" => StartedView' = StartedView \ {c}
  BY <1>1 DEF StartedView, Same
<1> QED BY <1>2, <1>3

\* A step within one phase of a client's task does not show.
LEMMA ViewKept ==
  ASSUME NEW c \in Client, Others(c), Holds(c)' <=> Holds(c),
         Holds(c) => task'[c] = task[c], pc'[c] = "running" <=> pc[c] = "running"
  PROVE  HoldsView' = HoldsView /\ StartedView' = StartedView
<1>1. \A d \in Client \ {c} : (Holds(d)' <=> Holds(d)) /\ Same(d)
  BY OwnerSame DEF Others
<1>2. HoldsView' = HoldsView
  BY <1>1 DEF HoldsView, Same
<1>3. StartedView' = StartedView
  BY <1>1 DEF StartedView, Same
<1> QED BY <1>2, <1>3

LEMMA ViewStutter ==
  ASSUME HoldsView' = HoldsView, StartedView' = StartedView, bound' = bound, stale' = stale
  PROVE  UNCHANGED Life!vars
BY DEF Life!vars, HoldsView, StartedView

LEMMA ViewSpoil ==
  ASSUME HoldsView' = HoldsView, StartedView' = StartedView, bound' = bound,
         stale \in BOOLEAN, stale' \in BOOLEAN, stale => stale'
  PROVE  [Life!Next]_(Life!vars)
<1>1. CASE stale' = stale
  BY <1>1, ViewStutter
<1>2. CASE ~stale /\ stale' = TRUE
  BY <1>2 DEF Life!Spoil, Life!Next, HoldsView, StartedView
<1> QED BY <1>1, <1>2

\* A client gives its id back, or drops it.
LEMMA ViewRelease ==
  ASSUME NEW c \in Client, Others(c), Holds(c), ~Holds(c)', UNCHANGED <<bound, stale>>
  PROVE  [Life!Next]_(Life!vars)
<1>1. HoldsView[c] # {}
  BY DEF HoldsView
<1>2. HoldsView' = [HoldsView EXCEPT ![c] = {}] /\ StartedView' = StartedView \ {c}
  BY ViewChange DEF Holds
<1>3. Life!Release(c)
  BY <1>1, <1>2 DEF Life!Release, HoldsView, StartedView
<1> QED BY <1>3 DEF Life!Next

LEMMA ViewUnbind ==
  ASSUME NEW t \in TaskId, HoldsView' = HoldsView, StartedView' = StartedView,
         bound' = bound \ {t}, stale' = stale,
         ~stale => \A c \in Client : Holds(c) => task[c] # t
  PROVE  [Life!Next]_(Life!vars)
<1>1. CASE t \in bound
  <2>1. ~stale => \A c \in Client : t \notin HoldsView[c]
    BY DEF HoldsView
  <2>2. Life!Unbind(t)
    BY <1>1, <2>1 DEF Life!Unbind, HoldsView, StartedView
  <2> QED BY <2>2 DEF Life!Next
<1>2. CASE t \notin bound
  BY <1>2, ViewStutter
<1> QED BY <1>1, <1>2

LEMMA ViewBind ==
  ASSUME NEW t \in TaskId, HoldsView' = HoldsView, StartedView' = StartedView,
         bound' = bound \cup {t}, stale' = stale
  PROVE  [Life!Next]_(Life!vars)
<1>1. CASE t \notin bound
  <2>1. Life!Bind(t)
    BY <1>1 DEF Life!Bind, HoldsView, StartedView
  <2> QED BY <2>1 DEF Life!Next
<1>2. CASE t \in bound
  BY <1>2, ViewStutter
<1> QED BY <1>1, <1>2

\* Every step of the exchanges is a step of TaskLife or does not show there.
LEMMA LifeStep ==
  ASSUME CallInv, OwnInv, [Next]_vars
  PROVE  [Life!Next]_(Life!vars)
<1>0. CallType /\ TypeOK
  BY DEF CallInv, TypeOK, CallType
\* Steps of one client that move no id.
<1>a. ASSUME NEW c \in Client, Others(c), Holds(c)' <=> Holds(c),
             Holds(c) => task'[c] = task[c], pc'[c] = "running" <=> pc[c] = "running",
             UNCHANGED <<bound, stale>>
      PROVE  [Life!Next]_(Life!vars)
  BY <1>a, ViewKept, ViewStutter
<1>b. UNCHANGED call => HoldsView' = HoldsView /\ StartedView' = StartedView
  BY DEF call, HoldsView, StartedView, Holds
<1>1. ASSUME NEW c \in Client, create_neogiate_task(c)
      PROVE  [Life!Next]_(Life!vars)
  BY <1>0, <1>1, <1>a, SendSame DEF create_neogiate_task, servers, Holds
<1>2. ASSUME NEW c \in Client, create_deploy_task(c)
      PROVE  [Life!Next]_(Life!vars)
  BY <1>0, <1>2, <1>a, SendSame DEF create_deploy_task, servers, history, Holds
<1>3. ASSUME NEW c \in Client, create_terminate_task(c)
      PROVE  [Life!Next]_(Life!vars)
  BY <1>0, <1>3, ViewRelease, SendSame DEF create_terminate_task, servers, history, Holds
<1>4. ASSUME NEW c \in Client, Finish(c)
      PROVE  [Life!Next]_(Life!vars)
  BY <1>0, <1>4, ViewRelease, ReturnSame DEF Finish, servers, Holds
<1>5. ASSUME NEW c \in Client, RecvNeogiate(c)
      PROVE  [Life!Next]_(Life!vars)
  <2>1. UNCHANGED <<bound, stale>> /\ pc[c] = "neogiate" /\ leg[c] = "back"
    BY <1>5 DEF RecvNeogiate, servers, history
  <2>2. CASE answer[c].status = "succeed"
    <3>1. Others(c) /\ pc'[c] = "held" /\ task'[c] = task[c]
      BY <1>0, <1>5, <2>2, ReturnSame DEF RecvNeogiate
    <3>2. HoldsView' = [HoldsView EXCEPT ![c] = {task[c]}] /\ StartedView' = StartedView
      BY <2>1, <3>1, ViewChange DEF Holds, StartedView
    <3>3. Owner(c) /\ HoldsView[c] = {}
      BY <2>1, <2>2 DEF Owner, HoldsView, Holds
    <3>4. ~stale => task[c] \in bound /\ \A d \in Client : Holds(d) => task[d] # task[c]
      BY <2>1, <3>3 DEF OwnInv, Exclusive, Owner, Holds
    <3>5. ~stale => task[c] \in bound /\ \A d \in Client : task[c] \notin HoldsView[d]
      BY <3>4 DEF HoldsView
    <3>6. PICK t \in TaskId : t = task[c]
      BY <1>0 DEF TypeOK
    <3>7. Life!Acquire(c, t)
      BY <2>1, <3>2, <3>3, <3>5, <3>6 DEF Life!Acquire, HoldsView, StartedView
    <3> QED BY <3>7 DEF Life!Next
  <2>3. CASE answer[c].status # "succeed"
    <3>1. Send(c, "neogiate", answer[c].alternative)
      BY <1>5, <2>3 DEF RecvNeogiate
    <3> QED BY <1>0, <1>a, <2>1, <3>1, SendSame DEF Holds
  <2> QED BY <2>2, <2>3
<1>6. ASSUME NEW c \in Client, RecvDeploy(c)
      PROVE  [Life!Next]_(Life!vars)
  <2>1. UNCHANGED <<bound, stale>> /\ pc[c] = "deploy" /\ Holds(c)
    BY <1>6 DEF RecvDeploy, servers, history, Holds
  <2>2. CASE Return(c, "running")
    <3>1. Others(c) /\ pc'[c] = "running" /\ task'[c] = task[c]
      BY <1>0, <2>2, ReturnSame
    <3>2. HoldsView' = HoldsView
      BY <2>1, <3>1, ViewChange DEF Holds, HoldsView
    <3>3. StartedView' = StartedView \cup {c} /\ c \notin StartedView /\ HoldsView[c] # {}
      BY <2>1, <3>1, ViewChange DEF StartedView, HoldsView
    <3>4. Life!Start(c)
      BY <2>1, <3>2, <3>3 DEF Life!Start, HoldsView, StartedView
    <3> QED BY <3>4 DEF Life!Next
  <2>3. CASE Send(c, "deploy", task[c])
    BY <1>0, <1>a, <2>1, <2>3, SendSame DEF Holds
  <2>4. CASE Send(c, "unbind", task[c])
    BY <1>0, <2>1, <2>4, SendSame, ViewRelease DEF Holds
  <2> QED BY <1>6, <2>2, <2>3, <2>4 DEF RecvDeploy
<1>7. ASSUME NEW c \in Client, RecvTerminate(c)
      PROVE  [Life!Next]_(Life!vars)
  BY <1>0, <1>7, <1>a, SendSame, ReturnSame
  DEF RecvTerminate, AfterUnbind, AfterUndeploy, servers, Holds
<1>8. ASSUME NEW c \in Client, NEW lag \in BOOLEAN, Fail(c, lag)
      PROVE  [Life!Next]_(Life!vars)
  <2>1. Others(c) /\ task'[c] = task[c] /\ bound' = bound
    BY <1>8, FailSame DEF Fail, servers
  <2>2. stale \in BOOLEAN /\ stale' \in BOOLEAN /\ (stale => stale')
    BY <1>0, <1>8 DEF Fail, TypeOK
  <2>3. CASE pc[c] = "deploy" /\ pc'[c] = "unbind"
    <3>1. stale' = stale
      BY <1>0, <1>8, <2>3 DEF Fail, TypeOK
    <3> QED BY <2>1, <2>3, <3>1, ViewRelease DEF Holds
  <2>4. CASE ~(pc[c] = "deploy" /\ pc'[c] = "unbind")
    <3>1. (Holds(c)' <=> Holds(c)) /\ (pc'[c] = "running" <=> pc[c] = "running")
      BY <1>8, <2>4, FailSame DEF Holds, Exchange
    <3> QED BY <2>1, <2>2, <3>1, ViewKept, ViewSpoil
  <2> QED BY <2>3, <2>4
<1>9. ASSUME NEW c \in Client, CutReply(c)
      PROVE  [Life!Next]_(Life!vars)
  <2>1. UNCHANGED <<bound, stale>> /\ pc[c] \in {"neogiate", "deploy"}
    BY <1>9 DEF CutReply, servers
  <2>2. Others(c) /\ pc'[c] \in {"idle", "unbind"}
    BY <1>0, <1>9, SendSame, ReturnSame DEF CutReply
  <2> QED BY <1>a, <2>1, <2>2, ViewRelease DEF Holds
<1>10. ASSUME NEW c \in Client, NEW alternative \in TaskId, StorageNeogiate(c, alternative)
       PROVE  [Life!Next]_(Life!vars)
  <2>1. Others(c) /\ pc'[c] = pc[c] /\ task'[c] = task[c]
    BY <1>0, <1>10, AnswerSame DEF StorageNeogiate
  <2>2. HoldsView' = HoldsView /\ StartedView' = StartedView
    BY <2>1, ViewKept DEF Holds
  <2>3. stale' = stale /\ (bound' = bound \/ bound' = bound \cup {task[c]})
    BY <1>10 DEF StorageNeogiate, history
  <2>4. task[c] \in TaskId
    BY <1>0 DEF TypeOK
  <2> QED BY <2>2, <2>3, <2>4, ViewBind, ViewStutter
<1>11. ASSUME NEW c \in Client, StorageTerminate(c)
       PROVE  [Life!Next]_(Life!vars)
  <2>1. Others(c) /\ pc'[c] = pc[c] /\ task'[c] = task[c]
    BY <1>0, <1>11, AnswerSame DEF StorageTerminate
  <2>2. HoldsView' = HoldsView /\ StartedView' = StartedView
    BY <2>1, ViewKept DEF Holds
  <2>3. Owner(c) /\ ~Holds(c) /\ stale' = stale /\ bound' = bound \ {task[c]}
    BY <1>11 DEF StorageTerminate, Arrived, Owner, Holds, history
  <2>4. ~stale => \A d \in Client : Holds(d) => task[d] # task[c]
    BY <2>3 DEF OwnInv, Exclusive, Owner
  <2>5. task[c] \in TaskId
    BY <1>0 DEF TypeOK
  <2> QED BY <2>2, <2>3, <2>4, <2>5, ViewUnbind
<1>12. ASSUME NEW c \in Client, NEW started \in BOOLEAN, ClusterDeploy(c, started)
       PROVE  [Life!Next]_(Life!vars)
  BY <1>0, <1>12, <1>a, AnswerSame DEF ClusterDeploy, history, Holds
<1>13. ASSUME NEW c \in Client, ClusterTerminate(c)
       PROVE  [Life!Next]_(Life!vars)
  BY <1>0, <1>13, <1>a, AnswerSame DEF ClusterTerminate, history, Holds
<1>14. ASSUME NEW c \in Client, ClusterBusy(c)
       PROVE  [Life!Next]_(Life!vars)
  BY <1>0, <1>14, <1>a, AnswerSame DEF ClusterBusy, servers, history, Holds
<1>15. ASSUME NEW m \in late, LateArrives(m)
       PROVE  [Life!Next]_(Life!vars)
  <2>1. m.task \in TaskId /\ stale' = stale
    BY <1>0, <1>15 DEF TypeOK, Late, LateArrives, history
  <2>2. HoldsView' = HoldsView /\ StartedView' = StartedView
    BY <1>15, <1>b DEF LateArrives
  <2>3. CASE m.op = "neogiate"
    BY <1>15, <2>1, <2>2, <2>3, ViewBind DEF LateArrives
  <2>4. CASE m.op = "unbind"
    <3>1. stale
      BY <1>15, <2>4 DEF OwnInv, Quiet
    <3>2. bound' = bound \ {m.task}
      BY <1>15, <2>4 DEF LateArrives
    <3> QED BY <2>1, <2>2, <3>1, <3>2, ViewUnbind
  <2>5. CASE m.op \notin {"neogiate", "unbind"}
    BY <1>15, <2>1, <2>2, <2>5, ViewStutter DEF LateArrives
  <2> QED BY <2>3, <2>4, <2>5
<1>16. ASSUME NEW t \in TaskId, ClusterResult(t)
       PROVE  [Life!Next]_(Life!vars)
  <2>1. stale \in BOOLEAN /\ stale' \in BOOLEAN /\ (stale => stale') /\ bound' = bound
    BY <1>0, <1>16 DEF ClusterResult, TypeOK
  <2> QED BY <1>16, <1>b, <2>1, ViewSpoil DEF ClusterResult
<1>17. ASSUME NEW t \in TaskId, DoneArrives(t)
       PROVE  [Life!Next]_(Life!vars)
  <2>1. stale' = stale /\ bound' = bound \ {t}
    BY <1>17 DEF DoneArrives, history
  <2>2. stale
    BY <1>17 DEF DoneArrives, OwnInv, Quiet
  <2> QED BY <1>17, <1>b, <2>1, <2>2, ViewUnbind DEF DoneArrives
<1>18. ASSUME NEW t \in TaskId, DoneLost(t)
       PROVE  [Life!Next]_(Life!vars)
  BY <1>18, <1>b, ViewStutter DEF DoneLost, servers
<1>19. ASSUME NEW t \in TaskId, DoneRepeated(t)
       PROVE  [Life!Next]_(Life!vars)
  <2>1. stale' = stale /\ bound' = bound \ {t}
    BY <1>19 DEF DoneRepeated
  <2>2. stale
    BY <1>19 DEF DoneRepeated, OwnInv, Quiet
  <2> QED BY <1>19, <1>b, <2>1, <2>2, ViewUnbind DEF DoneRepeated
<1>20. ASSUME UNCHANGED vars
       PROVE  [Life!Next]_(Life!vars)
  BY <1>20, <1>b, ViewStutter DEF vars, call
<1> QED
  BY <1>1, <1>2, <1>3, <1>4, <1>5, <1>6, <1>7, <1>8, <1>9, <1>10, <1>11, <1>12, <1>13,
     <1>14, <1>15, <1>16, <1>17, <1>18, <1>19, <1>20
  DEF Next, Recv, Serve

\* The exchanges of management clients, storage and cluster, with every
\* loss, repetition and delay, implement the negotiation of TaskLife.
THEOREM Refinement == Spec => ImplementsTaskLife
<1>1. Init => Life!Init
  BY DEF Init, Life!Init, Holds
<1>2. CallInv /\ OwnInv /\ [Next]_vars => [Life!Next]_(Life!vars)
  BY LifeStep
<1> QED BY <1>1, <1>2, CallInvariant, OwnInvariant, PTL DEF Spec, ImplementsTaskLife, Life!Spec

\* What TaskLife promises, with the type of the ids held.
PromiseInv == HoldsView \in [Client -> SUBSET TaskId] /\ Life!Exclusive

\* A client may be given an id only when it is bound and free, and an id is
\* unbound only when nobody holds it: each step of TaskLife keeps the
\* promise, or the state is spoiled and nothing is promised.
LEMMA PromiseStep ==
  ASSUME PromiseInv, [Life!Next]_(Life!vars)
  PROVE  PromiseInv'
<1> DEFINE Promise == stale \/ \A c \in Client : \A t \in HoldsView[c] :
                        t \in bound /\ \A d \in Client : t \in HoldsView[d] => d = c
<1>0. /\ HoldsView \in [Client -> SUBSET TaskId] /\ Promise
      /\ Promise' => Life!Exclusive'
  BY DEF PromiseInv, Life!Exclusive, HoldsView
<1>1. SUFFICES HoldsView' \in [Client -> SUBSET TaskId] /\ Promise'
  BY <1>0 DEF PromiseInv
<1>2. ASSUME NEW c \in Client, Life!Start(c)
      PROVE  HoldsView' = HoldsView /\ bound' = bound /\ stale' = stale
  BY <1>2 DEF Life!Start, HoldsView
<1>3. ASSUME NEW c \in Client, Life!Release(c)
      PROVE  HoldsView' = [HoldsView EXCEPT ![c] = {}] /\ bound' = bound /\ stale' = stale
  BY <1>3 DEF Life!Release, HoldsView
<1>4. ASSUME NEW c \in Client, NEW t \in TaskId, Life!Acquire(c, t)
      PROVE  /\ HoldsView' = [HoldsView EXCEPT ![c] = {t}] /\ bound' = bound /\ stale' = stale
             /\ ~stale => t \in bound /\ \A d \in Client : t \notin HoldsView[d]
  BY <1>4 DEF Life!Acquire, HoldsView
<1>5. ASSUME NEW t \in TaskId, Life!Bind(t)
      PROVE  HoldsView' = HoldsView /\ bound' = bound \cup {t} /\ stale' = stale
  BY <1>5 DEF Life!Bind, HoldsView
<1>6. ASSUME NEW t \in TaskId, Life!Unbind(t)
      PROVE  /\ HoldsView' = HoldsView /\ bound' = bound \ {t} /\ stale' = stale
             /\ ~stale => \A c \in Client : t \notin HoldsView[c]
  BY <1>6 DEF Life!Unbind, HoldsView
<1>7. Life!Spoil => HoldsView' = HoldsView /\ stale' = TRUE
  BY DEF Life!Spoil, HoldsView
<1>8. UNCHANGED Life!vars => HoldsView' = HoldsView /\ bound' = bound /\ stale' = stale
  BY DEF Life!vars, HoldsView
<1> HIDE DEF HoldsView
<1>9. ASSUME NEW c \in Client, Life!Start(c) \/ Life!Release(c)
      PROVE  HoldsView' \in [Client -> SUBSET TaskId] /\ Promise'
  BY <1>0, <1>2, <1>3, <1>9
<1>10. ASSUME NEW c \in Client, NEW t \in TaskId, Life!Acquire(c, t)
       PROVE  HoldsView' \in [Client -> SUBSET TaskId] /\ Promise'
  BY <1>0, <1>4, <1>10
<1>11. ASSUME NEW t \in TaskId, Life!Bind(t) \/ Life!Unbind(t)
       PROVE  HoldsView' \in [Client -> SUBSET TaskId] /\ Promise'
  BY <1>0, <1>5, <1>6, <1>11
<1>12. ASSUME Life!Spoil \/ UNCHANGED Life!vars
       PROVE  HoldsView' \in [Client -> SUBSET TaskId] /\ Promise'
  BY <1>0, <1>7, <1>8, <1>12
<1> QED BY <1>9, <1>10, <1>11, <1>12 DEF Life!Next

\* While no stale request is about, the abstract negotiation keeps an id to
\* one holder and its engine at the storage (what the callers of
\* management/taskdep rely on).
THEOREM PromiseKept == Life!Spec => []Life!Exclusive
<1>1. Life!Init => PromiseInv
  <2> SUFFICES ASSUME Life!Init
               PROVE  PromiseInv
    OBVIOUS
  <2>1. HoldsView = [c \in Client |-> {}]
    BY DEF Life!Init, HoldsView
  <2>2. \A c \in Client : HoldsView[c] = {}
    BY <2>1
  <2>3. Life!Exclusive
    BY <2>2 DEF Life!Exclusive, HoldsView
  <2> QED BY <2>1, <2>3 DEF PromiseInv
<1>2. PromiseInv /\ [Life!Next]_(Life!vars) => PromiseInv'
  BY PromiseStep
<1>3. PromiseInv => Life!Exclusive
  BY DEF PromiseInv
<1> QED BY <1>1, <1>2, <1>3, PTL DEF Life!Spec

\* So the exchanges of management/taskdep with storage and cluster keep that
\* promise, because they implement TaskLife.
THEOREM ExchangesKeepPromise == Spec => []Life!Exclusive
BY Refinement, PromiseKept, PTL DEF ImplementsTaskLife

-----------------------------------------------------------------------------
(* The storage leaks one binding per failure                               *)

\* The client itself sees to it that its id is unbound.  A task that runs
\* on a cluster that reports is left to the done message.
Keeps(c) ==
  /\ Owner(c)
  /\ ~ /\ reporting
       /\ \/ pc[c] = "running"
          \/ pc[c] = "deploy" /\ leg[c] = "back" /\ answer[c].status = "succeed"

Unbinding(t) == [op |-> "unbind", task |-> t]

\* Bindings that no client keeps, no done and no late terminate will end.
Loose ==
  {t \in bound : /\ \A c \in Client : Keeps(c) => task[c] # t
                 /\ reporting => dones[t] = 0 /\ t \notin deployed
                 /\ Unbinding(t) \notin late}

\* What is loose and what can still loosen a binding: a late request, and a
\* terminate that a reporting cluster has yet to handle.
Undeploying == {c \in Client : reporting /\ pc[c] = "undeploy" /\ leg[c] = "out"}
Debt ==
  ({"loose"} \X Loose) \cup ({"late"} \X late) \cup ({"undeploy"} \X Undeploying)
Budget == losses + (IF reporting THEN undeploys ELSE finished)

\* OrphansBounded, strengthened: each failed exchange, each terminate sent to
\* a reporting cluster and each task finished elsewhere pays for one element
\* of Debt, and an element is paid before it turns into a loose binding.
LeakInv == IsFiniteSet(Debt) /\ Cardinality(Debt) <= Budget

LEMMA BudgetType ==
  ASSUME TypeOK
  PROVE  Budget \in Nat
BY DEF TypeOK, Budget

\* Sizes of finite sets, with their types.
LEMMA PartSize ==
  ASSUME NEW S, IsFiniteSet(S), NEW T, T \subseteq S
  PROVE  /\ IsFiniteSet(T)
         /\ Cardinality(S) \in Nat /\ Cardinality(T) \in Nat
         /\ Cardinality(T) <= Cardinality(S)
<1>1. IsFiniteSet(T) /\ Cardinality(T) <= Cardinality(S)
  BY FS_Subset
<1> QED BY <1>1, FS_CardinalityType

LEMMA AddSize ==
  ASSUME NEW S, IsFiniteSet(S), NEW x
  PROVE  /\ IsFiniteSet(S \cup {x})
         /\ Cardinality(S) \in Nat
         /\ Cardinality(S \cup {x}) <= Cardinality(S) + 1
<1>1. Cardinality(S) \in Nat
  BY FS_CardinalityType
<1>2. /\ IsFiniteSet(S \cup {x})
      /\ Cardinality(S \cup {x}) = IF x \in S THEN Cardinality(S) ELSE Cardinality(S) + 1
  BY FS_AddElement
<1> QED BY <1>1, <1>2

LEMMA RemoveSize ==
  ASSUME NEW S, IsFiniteSet(S), NEW x \in S
  PROVE  /\ IsFiniteSet(S \ {x})
         /\ Cardinality(S) \in Nat /\ Cardinality(S \ {x}) \in Nat
         /\ Cardinality(S \ {x}) = Cardinality(S) - 1
<1>1. IsFiniteSet(S \ {x}) /\ Cardinality(S \ {x}) = Cardinality(S) - 1
  BY FS_RemoveElement
<1> QED BY <1>1, FS_CardinalityType

LEMMA DebtKept ==
  ASSUME LeakInv, Debt' \subseteq Debt,
         Budget \in Nat, Budget' \in Nat, Budget' >= Budget
  PROVE  LeakInv'
<1>1. /\ IsFiniteSet(Debt')
      /\ Cardinality(Debt) \in Nat /\ Cardinality(Debt') \in Nat
      /\ Cardinality(Debt') <= Cardinality(Debt)
  BY PartSize DEF LeakInv
<1> QED BY <1>1 DEF LeakInv

LEMMA DebtPaid ==
  ASSUME LeakInv, NEW x, Debt' \subseteq Debt \cup {x},
         Budget \in Nat, Budget' \in Nat, Budget' >= Budget + 1
  PROVE  LeakInv'
<1>1. /\ IsFiniteSet(Debt \cup {x})
      /\ Cardinality(Debt) \in Nat
      /\ Cardinality(Debt \cup {x}) <= Cardinality(Debt) + 1
  BY AddSize DEF LeakInv
<1>2. /\ IsFiniteSet(Debt')
      /\ Cardinality(Debt') \in Nat /\ Cardinality(Debt \cup {x}) \in Nat
      /\ Cardinality(Debt') <= Cardinality(Debt \cup {x})
  BY <1>1, PartSize
<1> QED BY <1>1, <1>2 DEF LeakInv

LEMMA DebtPaidTwice ==
  ASSUME LeakInv, NEW x, NEW y, Debt' \subseteq (Debt \cup {x}) \cup {y},
         Budget \in Nat, Budget' \in Nat, Budget' >= Budget + 2
  PROVE  LeakInv'
<1>1. /\ IsFiniteSet(Debt \cup {x})
      /\ Cardinality(Debt) \in Nat
      /\ Cardinality(Debt \cup {x}) <= Cardinality(Debt) + 1
  BY AddSize DEF LeakInv
<1>2. /\ IsFiniteSet((Debt \cup {x}) \cup {y})
      /\ Cardinality(Debt \cup {x}) \in Nat
      /\ Cardinality((Debt \cup {x}) \cup {y}) <= Cardinality(Debt \cup {x}) + 1
  BY <1>1, AddSize
<1>3. /\ IsFiniteSet(Debt')
      /\ Cardinality(Debt') \in Nat /\ Cardinality((Debt \cup {x}) \cup {y}) \in Nat
      /\ Cardinality(Debt') <= Cardinality((Debt \cup {x}) \cup {y})
  BY <1>2, PartSize
<1> QED BY <1>1, <1>2, <1>3 DEF LeakInv

LEMMA DebtMoved ==
  ASSUME LeakInv, NEW x, NEW y \in Debt, Debt' \subseteq (Debt \ {y}) \cup {x},
         Budget \in Nat, Budget' \in Nat, Budget' >= Budget
  PROVE  LeakInv'
<1>1. /\ IsFiniteSet(Debt \ {y})
      /\ Cardinality(Debt) \in Nat /\ Cardinality(Debt \ {y}) \in Nat
      /\ Cardinality(Debt \ {y}) = Cardinality(Debt) - 1
  BY RemoveSize DEF LeakInv
<1>2. /\ IsFiniteSet((Debt \ {y}) \cup {x})
      /\ Cardinality((Debt \ {y}) \cup {x}) <= Cardinality(Debt \ {y}) + 1
  BY <1>1, AddSize
<1>3. /\ IsFiniteSet(Debt')
      /\ Cardinality(Debt') \in Nat /\ Cardinality((Debt \ {y}) \cup {x}) \in Nat
      /\ Cardinality(Debt') <= Cardinality((Debt \ {y}) \cup {x})
  BY <1>2, PartSize
<1> QED BY <1>1, <1>2, <1>3 DEF LeakInv

\* What keeps an id that was not loose from becoming loose in a step of c.
LEMMA LooseStep ==
  ASSUME NEW c \in Client, Others(c), reporting' = reporting,
         NEW t \in bound, t \in Loose',
         Keeps(c) /\ task[c] = t => Keeps(c)' /\ task'[c] = t,
         reporting /\ (dones[t] # 0 \/ t \in deployed) => dones'[t] # 0 \/ t \in deployed',
         Unbinding(t) \in late => Unbinding(t) \in late'
  PROVE  t \in Loose
<1>1. \A d \in Client \ {c} : (Keeps(d)' <=> Keeps(d)) /\ task'[d] = task[d]
  BY OwnerSame DEF Others, Same, Keeps
<1>2. \A d \in Client : Keeps(d)' => task'[d] # t
  BY DEF Loose
<1>3. \A d \in Client : Keeps(d) => task[d] # t
  BY <1>1, <1>2
<1>4. reporting => dones[t] = 0 /\ t \notin deployed
  BY DEF Loose
<1>5. Unbinding(t) \notin late
  BY DEF Loose
<1> QED BY <1>3, <1>4, <1>5 DEF Loose

\* The clients other than c are undeploying as before.
LEMMA UndeployingStep ==
  ASSUME NEW c \in Client, Others(c), reporting' = reporting
  PROVE  Undeploying' \subseteq Undeploying \cup {c}
BY DEF Others, Same, Undeploying

\* A step of c that leaves servers and network alone loosens its id at most.
LEMMA LooseOwn ==
  ASSUME NEW c \in Client, Others(c), UNCHANGED <<bound, deployed, reporting, late, dones>>
  PROVE  /\ Loose' \subseteq Loose \cup {task[c]}
         /\ (Keeps(c) => Keeps(c)' /\ task'[c] = task[c]) => Loose' \subseteq Loose
<1>1. \A t \in Loose' : t \in bound
  BY DEF Loose
<1>2. ASSUME NEW t \in Loose', Keeps(c) /\ task[c] = t => Keeps(c)' /\ task'[c] = t
      PROVE  t \in Loose
  BY <1>1, <1>2, LooseStep
<1> QED BY <1>2

\* Steps of one client that leave servers and network alone.
LEMMA DebtOwn ==
  ASSUME NEW c \in Client, Others(c), UNCHANGED <<bound, deployed, reporting, late, dones>>,
         c \in Undeploying' => c \in Undeploying
  PROVE  /\ Debt' \subseteq Debt \cup {<<"loose", task[c]>>}
         /\ (Keeps(c) => Keeps(c)' /\ task'[c] = task[c]) => Debt' \subseteq Debt
<1>1. Undeploying' \subseteq Undeploying
  BY UndeployingStep
<1>2. Loose' \subseteq Loose \cup {task[c]}
  BY LooseOwn
<1>3. (Keeps(c) => Keeps(c)' /\ task'[c] = task[c]) => Loose' \subseteq Loose
  BY LooseOwn
<1>4. late' = late
  OBVIOUS
<1>5. Debt' \subseteq Debt \cup {<<"loose", task[c]>>}
  BY <1>1, <1>2, <1>4 DEF Debt
<1>6. Loose' \subseteq Loose => Debt' \subseteq Debt
  BY <1>1, <1>4 DEF Debt
<1> QED BY <1>3, <1>5, <1>6

\* Every step pays for what it loosens.
LEMMA LeakStep ==
  ASSUME CallInv, CallInv', LeakInv, [Next]_vars
  PROVE  LeakInv'
<1>0. CallType /\ TypeOK /\ TypeOK'
  BY DEF CallInv, TypeOK, CallType
<1>b. Budget \in Nat /\ Budget' \in Nat
  <2>1. losses' \in Nat /\ finished' \in Nat /\ undeploys' \in Nat
    BY <1>0 DEF TypeOK
  <2>2. (IF reporting' THEN undeploys' ELSE finished') \in Nat
    BY <2>1, Zenon
  <2>3. Budget' = losses' + (IF reporting' THEN undeploys' ELSE finished')
    BY DEF Budget
  <2>4. \A i, j \in Nat : i + j \in Nat
    OBVIOUS
  <2>5. Budget' \in Nat
    BY <2>1, <2>2, <2>3, <2>4, Zenon
  <2>6. Budget \in Nat
    BY <1>0, BudgetType
  <2> QED BY <2>5, <2>6
\* Steps of one client that loosen nothing.
<1>a. ASSUME NEW c \in Client, Others(c), UNCHANGED <<bound, deployed, reporting, late, dones>>,
             c \in Undeploying' => c \in Undeploying,
             Keeps(c) => Keeps(c)' /\ task'[c] = task[c],
             UNCHANGED <<losses, finished, undeploys>>
      PROVE  LeakInv'
  <2>1. Debt' \subseteq Debt
    BY <1>a, DebtOwn
  <2>2. Budget' = Budget
    BY <1>a DEF Budget
  <2> QED BY <1>b, <2>1, <2>2, DebtKept
<1>1. ASSUME NEW c \in Client, create_neogiate_task(c)
      PROVE  LeakInv'
  <2>1. /\ Others(c) /\ pc'[c] = "neogiate"
        /\ UNCHANGED <<bound, deployed, reporting, late, dones, losses, finished, undeploys>>
    BY <1>0, <1>1, SendSame DEF create_neogiate_task, servers
  <2>2. ~Keeps(c)
    BY <1>1 DEF create_neogiate_task, Keeps, Owner, Holds
  <2> QED BY <1>a, <2>1, <2>2 DEF Undeploying
<1>2. ASSUME NEW c \in Client, create_deploy_task(c)
      PROVE  LeakInv'
  <2>1. /\ Others(c) /\ pc'[c] = "deploy" /\ leg'[c] = "out" /\ task'[c] = task[c]
        /\ UNCHANGED <<bound, deployed, reporting, late, dones, losses, finished, undeploys>>
    BY <1>0, <1>2, SendSame DEF create_deploy_task, servers, history
  <2>2. Keeps(c)'
    BY <2>1 DEF Keeps, Owner, Holds
  <2> QED BY <1>a, <2>1, <2>2 DEF Undeploying
<1>3. ASSUME NEW c \in Client, create_terminate_task(c)
      PROVE  LeakInv'
  <2>1. /\ Others(c) /\ pc'[c] = "unbind" /\ leg'[c] = "out" /\ task'[c] = task[c]
        /\ UNCHANGED <<bound, deployed, reporting, late, dones, losses, finished, undeploys>>
    BY <1>0, <1>3, SendSame DEF create_terminate_task, servers, history
  <2>2. Keeps(c)'
    BY <2>1 DEF Keeps, Owner, Holds
  <2> QED BY <1>a, <2>1, <2>2 DEF Undeploying
<1>4. ASSUME NEW c \in Client, Finish(c)
      PROVE  LeakInv'
  <2>1. /\ Others(c) /\ pc[c] = "running" /\ pc'[c] = "idle"
        /\ UNCHANGED <<bound, deployed, reporting, late, dones, losses, undeploys>>
        /\ finished' = finished + 1
    BY <1>0, <1>4, ReturnSame DEF Finish, servers
  <2>2. c \in Undeploying' => c \in Undeploying
    BY <2>1 DEF Undeploying
  <2>3. CASE reporting
    <3>1. ~Keeps(c)
      BY <2>1, <2>3 DEF Keeps
    <3>2. Debt' \subseteq Debt /\ Budget' = Budget
      BY <2>1, <2>2, <2>3, <3>1, DebtOwn DEF Budget
    <3> QED BY <1>b, <3>2, DebtKept
  <2>4. CASE ~reporting
    <3>1. Budget' = Budget + 1
      BY <1>0, <2>1, <2>4 DEF Budget, TypeOK
    <3>2. Debt' \subseteq Debt \cup {<<"loose", task[c]>>}
      BY <2>1, <2>2, DebtOwn
    <3> QED BY <1>b, <3>1, <3>2, DebtPaid
  <2> QED BY <2>3, <2>4
<1>5. ASSUME NEW c \in Client, RecvNeogiate(c)
      PROVE  LeakInv'
  <2>1. /\ pc[c] = "neogiate" /\ leg[c] = "back"
        /\ UNCHANGED <<bound, deployed, reporting, late, dones, losses, finished, undeploys>>
    BY <1>5 DEF RecvNeogiate, servers, history
  <2>2. CASE answer[c].status = "succeed"
    <3>1. Others(c) /\ pc'[c] = "held" /\ task'[c] = task[c]
      BY <1>0, <1>5, <2>2, ReturnSame DEF RecvNeogiate
    <3>2. Keeps(c)'
      BY <3>1 DEF Keeps, Owner, Holds
    <3> QED BY <1>a, <2>1, <3>1, <3>2 DEF Undeploying
  <2>3. CASE answer[c].status # "succeed"
    <3>1. Others(c) /\ pc'[c] = "neogiate"
      BY <1>0, <1>5, <2>3, SendSame DEF RecvNeogiate
    <3>2. ~Keeps(c)
      BY <2>1, <2>3 DEF Keeps, Owner, Holds
    <3> QED BY <1>a, <2>1, <3>1, <3>2 DEF Undeploying
  <2> QED BY <2>2, <2>3
<1>6. ASSUME NEW c \in Client, RecvDeploy(c)
      PROVE  LeakInv'
  <2>1. /\ pc[c] = "deploy" /\ leg[c] = "back"
        /\ UNCHANGED <<bound, deployed, reporting, late, dones, losses, finished, undeploys>>
    BY <1>6 DEF RecvDeploy, servers, history
  <2>2. CASE answer[c].status = "succeed" /\ Return(c, "running")
    <3>1. Others(c) /\ pc'[c] = "running" /\ task'[c] = task[c]
      BY <1>0, <2>2, ReturnSame
    <3>2. Keeps(c) => Keeps(c)'
      BY <2>1, <2>2, <3>1 DEF Keeps, Owner, Holds
    <3> QED BY <1>a, <2>1, <3>1, <3>2 DEF Undeploying
  <2>3. CASE Send(c, "deploy", task[c]) \/ Send(c, "unbind", task[c])
    <3>1. /\ Others(c) /\ pc'[c] \in {"deploy", "unbind"} /\ leg'[c] = "out"
          /\ task'[c] = task[c]
      BY <1>0, <2>3, SendSame
    <3>2. Keeps(c)'
      BY <3>1 DEF Keeps, Owner, Holds
    <3> QED BY <1>a, <2>1, <3>1, <3>2 DEF Undeploying
  <2> QED BY <1>6, <2>2, <2>3 DEF RecvDeploy
<1>7. ASSUME NEW c \in Client, RecvTerminate(c)
      PROVE  LeakInv'
  <2>1. /\ leg[c] = "back" /\ pc[c] \in {"unbind", "undeploy"} /\ ~Keeps(c)
        /\ UNCHANGED <<bound, deployed, reporting, late, dones, losses, finished>>
    BY <1>7 DEF RecvTerminate, servers, Keeps, Owner, Holds
  <2>2. CASE AfterUnbind(c)
    <3>1. Others(c) /\ pc'[c] = "undeploy" /\ undeploys' = undeploys + 1
      BY <1>0, <2>2, SendSame DEF AfterUnbind
    <3>2. Loose' \subseteq Loose
      BY <2>1, <3>1, LooseOwn
    <3>3. CASE reporting
      <4>1. Undeploying' \subseteq Undeploying \cup {c}
        BY <2>1, <3>1, UndeployingStep
      <4>2. Debt' \subseteq Debt \cup {<<"undeploy", c>>}
        BY <2>1, <3>2, <4>1 DEF Debt
      <4>3. Budget' = Budget + 1
        BY <1>0, <2>1, <3>1, <3>3 DEF Budget, TypeOK
      <4> QED BY <1>b, <4>2, <4>3, DebtPaid
    <3>4. CASE ~reporting
      <4>1. Undeploying' = {}
        BY <2>1, <3>4 DEF Undeploying
      <4>2. Debt' \subseteq Debt
        BY <2>1, <3>2, <4>1 DEF Debt
      <4>3. Budget' = Budget
        BY <2>1, <3>4 DEF Budget
      <4> QED BY <1>b, <4>2, <4>3, DebtKept
    <3> QED BY <3>3, <3>4
  <2>3. CASE AfterUndeploy(c)
    <3>1. Others(c) /\ pc'[c] = "idle" /\ undeploys' = undeploys
      BY <1>0, <2>3, ReturnSame DEF AfterUndeploy
    <3> QED BY <1>a, <2>1, <3>1 DEF Undeploying
  <2> QED BY <1>7, <2>2, <2>3 DEF RecvTerminate
<1>8. ASSUME NEW c \in Client, NEW lag \in BOOLEAN, Fail(c, lag)
      PROVE  LeakInv'
  <2> DEFINE m == [op |-> pc[c], task |-> task[c]]
  <2>1. /\ Others(c) /\ pc[c] \in Exchange /\ task'[c] = task[c] /\ answer'[c] = NoAnswer
        /\ UNCHANGED <<bound, deployed, reporting, dones, finished>>
        /\ losses' = losses + 1
    BY <1>8, FailSame DEF Fail, servers
  <2>2. late' = (IF lag THEN late \cup {m} ELSE late) /\ (lag => leg[c] = "out")
    BY <1>8 DEF Fail
  <2>3. /\ pc'[c] = "undeploy" /\ pc[c] # "undeploy" =>
             pc[c] = "unbind" /\ undeploys' = undeploys + 1
        /\ undeploys' = undeploys \/ undeploys' = undeploys + 1
    BY <1>8, FailSame
  <2>4. Budget' >= Budget + 1
    <3>1. losses \in Nat /\ finished \in Nat /\ undeploys \in Nat
      BY <1>0 DEF TypeOK
    <3>2. /\ losses' = losses + 1 /\ finished' = finished /\ reporting' = reporting
          /\ undeploys' = undeploys \/ undeploys' = undeploys + 1
      BY <2>1, <2>3
    <3> QED BY <3>1, <3>2 DEF Budget
  <2>5. ASSUME pc[c] = "unbind", pc'[c] = "undeploy", reporting
        PROVE  Budget' >= Budget + 2
    BY <1>0, <2>1, <2>3, <2>5 DEF Budget, TypeOK
  <2>6. Undeploying' \subseteq Undeploying \cup {c} /\ (~reporting => Undeploying' = {})
    BY <2>1, UndeployingStep DEF Undeploying
  \* The id becomes loose when a grant is lost, or a terminate is given up.
  <2>7. ASSUME Keeps(c), ~Keeps(c)'
        PROVE  pc[c] = "neogiate" \/ (pc[c] = "unbind" /\ pc'[c] = "undeploy")
    <3>1. pc[c] # "undeploy"
      BY <2>7 DEF Keeps, Owner, Holds
    <3>2. pc[c] = "deploy" => (pc'[c] = "deploy" \/ pc'[c] = "unbind") /\ leg'[c] = "out"
      BY <1>8, FailSame
    <3>3. pc[c] = "unbind" => (pc'[c] = "unbind" \/ pc'[c] = "undeploy") /\ leg'[c] = "out"
      BY <1>8, FailSame
    <3>4. pc[c] # "deploy"
      BY <2>1, <2>7, <3>2 DEF Keeps, Owner, Holds
    <3>5. pc[c] = "unbind" => pc'[c] = "undeploy"
      BY <2>1, <2>7, <3>3 DEF Keeps, Owner, Holds
    <3> QED BY <2>1, <3>1, <3>4, <3>5 DEF Exchange
  <2>8. \A t \in Loose' : t \in bound
    BY <2>1 DEF Loose
  <2>9. ASSUME NEW t \in Loose', t # task[c] \/ (Keeps(c) => Keeps(c)')
        PROVE  t \in Loose
    BY <2>1, <2>2, <2>8, <2>9, LooseStep
  <2>10. CASE lag /\ pc[c] = "unbind"
    <3>1. m = Unbinding(task[c]) /\ m \in late'
      BY <2>2, <2>10 DEF Unbinding
    <3>2. task[c] \notin Loose'
      BY <3>1 DEF Loose
    <3>3. Loose' \subseteq Loose
      BY <2>9, <3>2
    <3>4. CASE pc'[c] = "undeploy" /\ reporting
      <4>1. Debt' \subseteq (Debt \cup {<<"late", m>>}) \cup {<<"undeploy", c>>}
        BY <2>2, <2>6, <3>3 DEF Debt
      <4> QED BY <1>b, <2>5, <2>10, <3>4, <4>1, DebtPaidTwice
    <3>5. CASE ~(pc'[c] = "undeploy" /\ reporting)
      <4>1. Undeploying' \subseteq Undeploying
        BY <2>1, <2>6, <3>5 DEF Undeploying
      <4>2. Debt' \subseteq Debt \cup {<<"late", m>>}
        BY <2>2, <3>3, <4>1 DEF Debt
      <4> QED BY <1>b, <2>4, <4>2, DebtPaid
    <3> QED BY <3>4, <3>5
  <2>11. CASE lag /\ pc[c] # "unbind"
    <3>1. ~Keeps(c) \/ Keeps(c)'
      BY <2>2, <2>7, <2>11 DEF Keeps, Owner, Holds
    <3>2. Loose' \subseteq Loose
      BY <2>9, <3>1
    <3>3. Undeploying' \subseteq Undeploying
      BY <2>1, <2>2, <2>3, <2>6, <2>11 DEF Undeploying
    <3>4. Debt' \subseteq Debt \cup {<<"late", m>>}
      BY <2>2, <3>2, <3>3 DEF Debt
    <3> QED BY <1>b, <2>4, <3>4, DebtPaid
  <2>12. CASE ~lag /\ pc[c] = "unbind" /\ pc'[c] = "undeploy" /\ reporting
    <3>1. Loose' \subseteq Loose \cup {task[c]}
      BY <2>9
    <3>2. Debt' \subseteq (Debt \cup {<<"loose", task[c]>>}) \cup {<<"undeploy", c>>}
      BY <2>2, <2>6, <2>12, <3>1 DEF Debt
    <3> QED BY <1>b, <2>5, <2>12, <3>2, DebtPaidTwice
  <2>13. CASE ~lag /\ ~(pc[c] = "unbind" /\ pc'[c] = "undeploy" /\ reporting)
    <3>1. late' = late
      BY <2>2, <2>13
    <3>2. CASE c \in Undeploying' \ Undeploying
      <4>1. pc[c] = "undeploy"
        BY <2>1, <2>3, <2>13, <3>2 DEF Undeploying
      <4>2. Loose' \subseteq Loose
        BY <2>7, <2>9, <4>1
      <4>3. Debt' \subseteq Debt \cup {<<"undeploy", c>>}
        BY <2>6, <3>1, <4>2 DEF Debt
      <4> QED BY <1>b, <2>4, <4>3, DebtPaid
    <3>3. CASE c \notin Undeploying' \ Undeploying
      <4>1. Undeploying' \subseteq Undeploying
        BY <2>6, <3>3
      <4>2. Loose' \subseteq Loose \cup {task[c]}
        BY <2>9
      <4>3. Debt' \subseteq Debt \cup {<<"loose", task[c]>>}
        BY <3>1, <4>1, <4>2 DEF Debt
      <4> QED BY <1>b, <2>4, <4>3, DebtPaid
    <3> QED BY <3>2, <3>3
  <2> QED BY <2>10, <2>11, <2>12, <2>13
<1>9. ASSUME NEW c \in Client, CutReply(c)
      PROVE  LeakInv'
  <2>1. /\ pc[c] \in {"neogiate", "deploy"} /\ losses' = losses + 1
        /\ UNCHANGED <<bound, deployed, reporting, late, dones, finished, undeploys>>
    BY <1>9 DEF CutReply, servers
  <2>2. Others(c) /\ pc'[c] \in {"idle", "unbind"}
    BY <1>0, <1>9, SendSame, ReturnSame DEF CutReply
  <2>3. c \in Undeploying' => c \in Undeploying
    BY <2>2 DEF Undeploying
  <2>4. Debt' \subseteq Debt \cup {<<"loose", task[c]>>}
    BY <2>1, <2>2, <2>3, DebtOwn
  <2>5. Budget' = Budget + 1
    BY <1>0, <2>1 DEF Budget, TypeOK
  <2> QED BY <1>b, <2>4, <2>5, DebtPaid
<1>10. ASSUME NEW c \in Client, NEW alternative \in TaskId, StorageNeogiate(c, alternative)
       PROVE  LeakInv'
  <2>1. /\ pc[c] = "neogiate" /\ leg[c] = "out" /\ ~Keeps(c)
        /\ UNCHANGED <<deployed, reporting, late, dones, losses, finished, undeploys>>
    BY <1>10 DEF StorageNeogiate, Arrived, history, Keeps, Owner, Holds
  <2>2. Others(c) /\ pc'[c] = "neogiate" /\ task'[c] = task[c] /\ leg'[c] = "back"
    BY <1>0, <1>10, <2>1, AnswerSame DEF StorageNeogiate
  <2>3. CASE task[c] \in bound
    <3>1. bound' = bound
      BY <1>10, <2>3 DEF StorageNeogiate
    <3> QED BY <1>a, <2>1, <2>2, <3>1 DEF Undeploying
  <2>4. CASE task[c] \notin bound
    <3>1. bound' = bound \cup {task[c]} /\ Answer(c, Reply("succeed"))
      BY <1>10, <2>4 DEF StorageNeogiate
    <3>2. Keeps(c)'
      BY <1>0, <2>1, <2>2, <3>1, AnswerSame DEF Keeps, Owner, Reply
    <3>3. ASSUME NEW t \in Loose'
          PROVE  t \in Loose
      <4>1. t \in bound
        BY <2>2, <3>1, <3>2 DEF Loose
      <4> QED BY <2>1, <2>2, <4>1, LooseStep
    <3>4. Undeploying' \subseteq Undeploying
      BY <2>1, <2>2, UndeployingStep DEF Undeploying
    <3>5. Debt' \subseteq Debt /\ Budget' = Budget
      BY <2>1, <3>3, <3>4 DEF Debt, Budget
    <3> QED BY <1>b, <3>5, DebtKept
  <2> QED BY <2>3, <2>4
<1>11. ASSUME NEW c \in Client, StorageTerminate(c)
       PROVE  LeakInv'
  <2>1. /\ pc[c] = "unbind" /\ bound' = bound \ {task[c]}
        /\ UNCHANGED <<deployed, reporting, late, dones, losses, finished, undeploys>>
    BY <1>11 DEF StorageTerminate, Arrived, history
  <2>2. Others(c) /\ pc'[c] = "unbind"
    BY <1>0, <1>11, <2>1, AnswerSame DEF StorageTerminate
  <2>3. ASSUME NEW t \in Loose'
        PROVE  t \in Loose
    <3>1. t \in bound /\ t # task[c]
      BY <2>1 DEF Loose
    <3> QED BY <2>1, <2>2, <3>1, LooseStep
  <2>4. Undeploying' \subseteq Undeploying
    BY <2>1, <2>2, UndeployingStep DEF Undeploying
  <2>5. Debt' \subseteq Debt /\ Budget' = Budget
    BY <2>1, <2>3, <2>4 DEF Debt, Budget
  <2> QED BY <1>b, <2>5, DebtKept
<1>12. ASSUME NEW c \in Client, NEW started \in BOOLEAN, ClusterDeploy(c, started)
       PROVE  LeakInv'
  <2>1. /\ pc[c] = "deploy" /\ leg[c] = "out"
        /\ UNCHANGED <<bound, reporting, late, dones, losses, finished, undeploys>>
        /\ deployed \subseteq deployed'
    BY <1>12 DEF ClusterDeploy, Arrived, history
  <2>2. PICK status : Answer(c, Reply(status)) /\ (status = "succeed" => task[c] \in deployed')
    BY <1>12 DEF ClusterDeploy
  <2>3. /\ Others(c) /\ pc'[c] = "deploy" /\ task'[c] = task[c] /\ leg'[c] = "back"
        /\ answer'[c].status = status
    BY <1>0, <2>1, <2>2, AnswerSame DEF Reply
  <2>4. ASSUME NEW t \in Loose'
        PROVE  t \in Loose
    <3>1. t \in bound /\ (reporting => t \notin deployed')
      BY <2>1 DEF Loose
    <3>2. reporting /\ status = "succeed" => t # task[c]
      BY <2>2, <3>1
    <3>3. Keeps(c)' \/ t # task[c]
      BY <2>1, <2>3, <3>2 DEF Keeps, Owner, Holds
    <3> QED BY <2>1, <2>3, <3>1, <3>3, LooseStep
  <2>5. Undeploying' \subseteq Undeploying
    BY <2>1, <2>3, UndeployingStep DEF Undeploying
  <2>6. Debt' \subseteq Debt /\ Budget' = Budget
    BY <2>1, <2>4, <2>5 DEF Debt, Budget
  <2> QED BY <1>b, <2>6, DebtKept
<1>13. ASSUME NEW c \in Client, ClusterTerminate(c)
       PROVE  LeakInv'
  <2>1. /\ pc[c] = "undeploy" /\ leg[c] = "out" /\ deployed' = deployed \ {task[c]} /\ ~Keeps(c)
        /\ UNCHANGED <<bound, reporting, late, dones, losses, finished, undeploys>>
    BY <1>13 DEF ClusterTerminate, Arrived, history, Keeps, Owner, Holds
  <2>2. Others(c) /\ pc'[c] = "undeploy" /\ leg'[c] = "back"
    BY <1>0, <1>13, <2>1, AnswerSame DEF ClusterTerminate
  <2>3. ASSUME NEW t \in Loose', t # task[c] \/ ~reporting
        PROVE  t \in Loose
    <3>1. t \in bound
      BY <2>1 DEF Loose
    <3> QED BY <2>1, <2>2, <2>3, <3>1, LooseStep
  <2>4. Undeploying' \subseteq Undeploying \ {c}
    BY <2>1, <2>2, UndeployingStep DEF Undeploying
  <2>5. Budget' = Budget
    BY <2>1 DEF Budget
  <2>6. CASE reporting
    <3>1. <<"undeploy", c>> \in Debt
      BY <2>1, <2>6 DEF Debt, Undeploying
    <3>2. Loose' \subseteq Loose \cup {task[c]}
      BY <2>3
    <3>3. Debt' \subseteq (Debt \ {<<"undeploy", c>>}) \cup {<<"loose", task[c]>>}
      BY <2>1, <2>4, <3>2 DEF Debt
    <3> QED BY <1>b, <2>5, <3>1, <3>3, DebtMoved
  <2>7. CASE ~reporting
    <3>1. Debt' \subseteq Debt
      BY <2>1, <2>3, <2>4, <2>7 DEF Debt
    <3> QED BY <1>b, <2>5, <3>1, DebtKept
  <2> QED BY <2>6, <2>7
<1>14. ASSUME NEW c \in Client, ClusterBusy(c)
       PROVE  LeakInv'
  <2>1. /\ pc[c] = "deploy"
        /\ UNCHANGED <<bound, deployed, reporting, late, dones, losses, finished, undeploys>>
    BY <1>14 DEF ClusterBusy, Arrived, servers, history
  <2>2. /\ Others(c) /\ pc'[c] = "deploy" /\ task'[c] = task[c]
        /\ answer'[c].status = "busy"
    BY <1>0, <1>14, <2>1, AnswerSame DEF ClusterBusy, Reply
  <2>3. Keeps(c)'
    BY <2>2 DEF Keeps, Owner, Holds
  <2> QED BY <1>a, <2>1, <2>2, <2>3 DEF Undeploying
<1>15. ASSUME NEW m \in late, LateArrives(m)
       PROVE  LeakInv'
  <2>1. /\ late' = late \ {m} /\ m.task \in TaskId /\ m = [op |-> m.op, task |-> m.task]
        /\ UNCHANGED <<call, reporting, dones, losses, finished, undeploys>>
    BY <1>0, <1>15 DEF LateArrives, history, TypeOK, Late
  <2>2. bound' \subseteq bound \cup {m.task} /\ (m.op = "unbind" => bound' = bound \ {m.task})
    BY <1>15 DEF LateArrives
  <2>3. deployed \subseteq deployed' \cup {m.task}
    BY <1>15 DEF LateArrives
  <2>4. Undeploying' = Undeploying /\ \A c \in Client : (Keeps(c)' <=> Keeps(c)) /\ task'[c] = task[c]
    BY <2>1 DEF call, Undeploying, Keeps, Owner, Holds
  <2>5. ASSUME NEW t \in Loose', t # m.task
        PROVE  t \in Loose
    <3>1. t \in bound /\ Unbinding(t) \notin late
      BY <2>1, <2>2, <2>5 DEF Loose, Unbinding
    <3>2. reporting => dones[t] = 0 /\ t \notin deployed
      BY <2>1, <2>3, <2>5 DEF Loose
    <3> QED BY <2>4, <3>1, <3>2 DEF Loose
  <2>6. Loose' \subseteq Loose \cup {m.task}
    BY <2>5
  <2>7. Debt' \subseteq (Debt \ {<<"late", m>>}) \cup {<<"loose", m.task>>}
    BY <2>1, <2>4, <2>6 DEF Debt
  <2>8. <<"late", m>> \in Debt /\ Budget' = Budget
    BY <1>15, <2>1 DEF Debt, Budget
  <2> QED BY <1>b, <2>7, <2>8, DebtMoved
\* Steps of the cluster and of done messages.
<1>c. UNCHANGED <<call, reporting>> =>
        Undeploying' = Undeploying /\ \A c \in Client : (Keeps(c)' <=> Keeps(c)) /\ task'[c] = task[c]
  BY DEF call, Undeploying, Keeps, Owner, Holds
<1>16. ASSUME NEW t \in TaskId, ClusterResult(t)
       PROVE  LeakInv'
  <2>1. /\ UNCHANGED <<call, bound, reporting, late, losses, finished, undeploys>>
        /\ deployed' = deployed \ {t}
        /\ dones' = IF reporting THEN [dones EXCEPT ![t] = @ + 1] ELSE dones
    BY <1>16 DEF ClusterResult
  <2>2. dones \in [TaskId -> Nat] /\ bound \subseteq TaskId
    BY <1>0 DEF TypeOK
  <2>3. ASSUME NEW u \in Loose'
        PROVE  u \in Loose
    <3>1. u \in bound /\ Unbinding(u) \notin late
      BY <2>1 DEF Loose
    <3>2. reporting => dones[u] = 0 /\ u # t /\ u \notin deployed
      BY <2>1, <2>2, <3>1 DEF Loose
    <3> QED BY <1>c, <2>1, <3>1, <3>2 DEF Loose
  <2>4. Debt' \subseteq Debt
    BY <1>c, <2>1, <2>3 DEF Debt
  <2>5. Budget' = Budget
    BY <2>1 DEF Budget
  <2> QED BY <1>b, <2>4, <2>5, DebtKept
<1>17. ASSUME NEW t \in TaskId, DoneArrives(t)
       PROVE  LeakInv'
  <2>1. /\ UNCHANGED <<call, deployed, reporting, late, losses, finished, undeploys>>
        /\ bound' = bound \ {t} /\ dones' = [dones EXCEPT ![t] = @ - 1]
    BY <1>17 DEF DoneArrives, history
  <2>2. dones \in [TaskId -> Nat] /\ bound \subseteq TaskId
    BY <1>0 DEF TypeOK
  <2>3. ASSUME NEW u \in Loose'
        PROVE  u \in Loose
    <3>1. u \in bound /\ u # t /\ dones'[u] = dones[u]
      BY <2>1, <2>2 DEF Loose
    <3> QED BY <1>c, <2>1, <3>1 DEF Loose
  <2>4. Debt' \subseteq Debt /\ Budget' = Budget
    BY <1>c, <2>1, <2>3 DEF Debt, Budget
  <2> QED BY <1>b, <2>4, DebtKept
<1>18. ASSUME NEW t \in TaskId, DoneLost(t)
       PROVE  LeakInv'
  <2>1. /\ UNCHANGED <<call, bound, deployed, reporting, late, finished, undeploys>>
        /\ losses' = losses + 1 /\ dones' = [dones EXCEPT ![t] = @ - 1]
    BY <1>18 DEF DoneLost, servers
  <2>2. dones \in [TaskId -> Nat] /\ bound \subseteq TaskId
    BY <1>0 DEF TypeOK
  <2>3. ASSUME NEW u \in Loose', u # t
        PROVE  u \in Loose
    <3>1. u \in bound /\ dones'[u] = dones[u]
      BY <2>1, <2>2, <2>3 DEF Loose
    <3> QED BY <1>c, <2>1, <3>1 DEF Loose
  <2>4. Debt' \subseteq Debt \cup {<<"loose", t>>}
    BY <1>c, <2>1, <2>3 DEF Debt
  <2>5. Budget' = Budget + 1
    BY <1>0, <2>1 DEF Budget, TypeOK
  <2> QED BY <1>b, <2>4, <2>5, DebtPaid
<1>19. ASSUME NEW t \in TaskId, DoneRepeated(t)
       PROVE  LeakInv'
  <2>1. /\ UNCHANGED <<call, deployed, reporting, late, dones, finished, undeploys>>
        /\ losses' = losses + 1 /\ bound' = bound \ {t}
    BY <1>19 DEF DoneRepeated
  <2>2. Loose' \subseteq Loose
    BY <1>c, <2>1 DEF Loose
  <2>3. Debt' \subseteq Debt
    BY <1>c, <2>1, <2>2 DEF Debt
  <2>4. Budget' = Budget + 1
    BY <1>0, <2>1 DEF Budget, TypeOK
  <2> QED BY <1>b, <2>3, <2>4, DebtPaid
<1>20. ASSUME UNCHANGED vars
       PROVE  LeakInv'
  <2>1. UNCHANGED <<call, bound, deployed, reporting, late, dones, losses, finished, undeploys>>
    BY <1>20 DEF vars, call
  <2>2. Loose' = Loose
    BY <1>c, <2>1 DEF Loose
  <2>3. Debt' \subseteq Debt /\ Budget' = Budget
    BY <1>c, <2>1, <2>2 DEF Debt, Budget
  <2> QED BY <1>b, <2>3, DebtKept
<1> QED
  BY <1>1, <1>2, <1>3, <1>4, <1>5, <1>6, <1>7, <1>8, <1>9, <1>10, <1>11, <1>12, <1>13,
     <1>14, <1>15, <1>16, <1>17, <1>18, <1>19, <1>20
  DEF Next, Recv, Serve

LEMMA LeakInvariant == Spec => []LeakInv
<1>1. Init => LeakInv
  <2> SUFFICES ASSUME Init PROVE LeakInv
    OBVIOUS
  <2>1. Loose = {} /\ late = {} /\ Undeploying = {}
    BY DEF Init, Loose, Undeploying
  <2>2. Debt = {}
    BY <2>1 DEF Debt
  <2>3. Budget = 0
    BY DEF Init, Budget
  <2> QED BY <2>2, <2>3, FS_EmptySet DEF LeakInv
<1>2. CallInv /\ CallInv' /\ LeakInv /\ [Next]_vars => LeakInv'
  BY LeakStep
<1> QED BY <1>1, <1>2, CallInvariant, PTL DEF Spec

\* The storage leaks at most one binding per failed exchange, and one per
\* finished task (clusters that do not report) or per terminate sent to a
\* cluster that does, for any number of clients, ids and failures.
THEOREM LeaksBounded == Spec => []OrphansBounded
<1>1. ASSUME CallInv, LeakInv
      PROVE  OrphansBounded
  <2> DEFINE f == [t \in Orphans |-> IF Unbinding(t) \in late THEN <<"late", Unbinding(t)>>
                                                            ELSE <<"loose", t>>]
  <2>1. ASSUME NEW t \in Orphans, Unbinding(t) \notin late
        PROVE  t \in Loose
    BY <2>1 DEF Orphans, Accounted, Loose, Keeps, Owner
  <2>2. \A t \in Orphans : f[t] \in Debt
    BY <2>1 DEF Debt
  <2>3. ASSUME NEW t \in Orphans, NEW u \in Orphans, f[t] = f[u]
        PROVE  t = u
    BY <2>3 DEF Unbinding
  <2>4. f \in Injection(Orphans, Debt)
    BY <2>2, <2>3 DEF Injection, IsInjective
  <2>5. Cardinality(Orphans) <= Cardinality(Debt) /\ IsFiniteSet(Orphans)
    BY <1>1, <2>4, FS_Injection DEF LeakInv
  <2>6. Cardinality(Orphans) \in Nat /\ Cardinality(Debt) \in Nat
    BY <1>1, <2>5, FS_CardinalityType DEF LeakInv
  <2>7. Budget \in Nat /\ Cardinality(Debt) <= Budget
    BY <1>1, BudgetType DEF CallInv, LeakInv
  <2>8. Cardinality(Orphans) <= Budget
    BY <2>5, <2>6, <2>7
  <2> QED BY <2>8 DEF Budget, OrphansBounded
<1> QED BY <1>1, CallInvariant, LeakInvariant, PTL
=============================================================================
