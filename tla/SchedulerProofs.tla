--------------------------- MODULE SchedulerProofs ---------------------------
(* Theorems about Scheduler, for any ids, scopes, addresses and modules.    *)
EXTENDS Scheduler, TLAPS

-----------------------------------------------------------------------------
(* Services and the index by scope                                         *)

LEMMA StatusSet ==
  ASSUME NEW s \in Service, NEW b \in BOOLEAN
  PROVE  /\ [s EXCEPT !.status = b] \in Service
         /\ [s EXCEPT !.status = b].status = b
         /\ [s EXCEPT !.status = b].scope = s.scope
         /\ [s EXCEPT !.status = b].ops = s.ops
BY DEF Service

LEMMA ScopeSet ==
  ASSUME NEW s \in Service, NEW scope \in Scope
  PROVE  /\ [s EXCEPT !.scope = scope] \in Service
         /\ [s EXCEPT !.scope = scope].status = s.status
         /\ [s EXCEPT !.scope = scope].scope = scope
         /\ [s EXCEPT !.scope = scope].ops = s.ops
BY DEF Service

LEMMA OpsSet ==
  ASSUME NEW s \in Service, NEW ops \in Operations
  PROVE  /\ [s EXCEPT !.ops = ops] \in Service
         /\ [s EXCEPT !.ops = ops].status = s.status
         /\ [s EXCEPT !.ops = ops].scope = s.scope
         /\ [s EXCEPT !.ops = ops].ops = ops
BY DEF Service

\* The types, the objects and the ids apart.
HeapType == DOMAIN heap \subseteq Addr /\ heap \in [DOMAIN heap -> Service]
IdType == DOMAIN services \subseteq Id /\ services \in [DOMAIN services -> Addr]
ChoiceType ==
  /\ policy \in Policy /\ range \in Range
  /\ select_id \in Id \cup {-1} /\ select_scope \in Scope \cup {NoScope}
  /\ current_service \in Addr \cup {Null}
  /\ withdrawn \in BOOLEAN
SessionType == session \in [Addr -> Session] /\ paired \subseteq Addr

\* The indexes, by id and by scope.
IdsAgree ==
  /\ \A i \in DOMAIN services : i > 0 /\ services[i] \in DOMAIN heap
  /\ \A i, j \in DOMAIN services : services[i] = services[j] => i = j
  /\ \A p \in DOMAIN heap : \E i \in DOMAIN services : services[i] = p
ScopesAgree == service_scope = {<<heap[p].scope, p>> : p \in DOMAIN heap}

\* A paired module that is still in use has both functions.
PairedHas == \A p \in paired \cap DOMAIN heap : Pairs(heap[p].ops)

\* None of the four properties is inductive alone: a destroyed module has
\* both functions and was opened, an id names a live object, the current
\* service is live.
SchedulerInv ==
  /\ HeapType /\ IdType /\ ChoiceType /\ SessionType
  /\ IdsAgree /\ ScopesAgree
  /\ PairedHas /\ InitDestroyBalanced
  /\ CurrentOnlineUntilWithdrawn

LEMMA InvImplies ==
  ASSUME SchedulerInv
  PROVE  TypeOK /\ IndexesAgree
<1>1. service_scope \subseteq Scope \X Addr
  BY DEF SchedulerInv, ScopesAgree, HeapType, Service
<1> QED
  BY <1>1
  DEF SchedulerInv, HeapType, IdType, ChoiceType, SessionType, TypeOK, IndexesAgree,
  IdsAgree, ScopesAgree

-----------------------------------------------------------------------------
(* The steps                                                               *)

LEMMA RegisterStep ==
  ASSUME SchedulerInv, NEW id \in Id, NEW ops \in Operations, NEW scope \in Scope,
         register_service(id, ops, scope)
  PROVE  SchedulerInv'
<1> DEFINE new == [status |-> FALSE, scope |-> scope, ops |-> ops]
<1>0. HeapType /\ IdType /\ IdsAgree
  BY DEF SchedulerInv
<1>1. PICK p \in Addr \ DOMAIN heap :
        /\ services' = [i \in DOMAIN services \cup {id} |-> IF i = id THEN p ELSE services[i]]
        /\ heap' = [q \in DOMAIN heap \cup {p} |-> IF q = p THEN new ELSE heap[q]]
        /\ service_scope' = service_scope \cup {<<scope, p>>}
        /\ session' = [session EXCEPT ![p] = "closed"]
        /\ paired' = IF Pairs(ops) THEN paired \cup {p} ELSE paired \ {p}
  BY DEF register_service
<1>2. /\ id > 0 /\ id \notin DOMAIN services
      /\ UNCHANGED <<policy, range, select_id, select_scope, current_service, withdrawn>>
  <2>1. id \in DOMAIN services => services[id] # Null
    BY <1>0, SchedulerNull DEF IdType
  <2> QED BY <2>1 DEF register_service, find_service, fields
<1>3. new \in Service /\ new.status = FALSE /\ new.scope = scope /\ new.ops = ops
  BY DEF Service
<1> HIDE DEF new
<1>4. /\ DOMAIN heap' = DOMAIN heap \cup {p} /\ heap'[p] = new
      /\ \A q \in DOMAIN heap : heap'[q] = heap[q]
  BY <1>1
<1>5. /\ DOMAIN services' = DOMAIN services \cup {id} /\ services'[id] = p
      /\ \A i \in DOMAIN services : services'[i] = services[i]
  BY <1>1, <1>2
<1>6. HeapType'
  BY <1>0, <1>1, <1>3 DEF HeapType
<1>7. IdType'
  BY <1>0, <1>1 DEF IdType
<1>8. ChoiceType' /\ SessionType'
  <2>1. ChoiceType'
    BY <1>2 DEF SchedulerInv, ChoiceType
  <2>2. SessionType'
    BY <1>1 DEF SchedulerInv, SessionType, Session
  <2> QED BY <2>1, <2>2
<1>9. IdsAgree'
  <2>1. \A i \in DOMAIN services : services[i] # p
    BY <1>0, <1>1 DEF IdsAgree
  <2>2. \A i \in DOMAIN services' : i > 0 /\ services'[i] \in DOMAIN heap'
    BY <1>0, <1>2, <1>4, <1>5 DEF IdsAgree
  <2>3. \A i, j \in DOMAIN services' : services'[i] = services'[j] => i = j
    BY <1>0, <1>5, <2>1 DEF IdsAgree
  <2>4. \A q \in DOMAIN heap' : \E i \in DOMAIN services' : services'[i] = q
    BY <1>0, <1>4, <1>5 DEF IdsAgree
  <2> QED BY <2>2, <2>3, <2>4 DEF IdsAgree
<1>10. ScopesAgree'
  <2>1. {<<heap'[q].scope, q>> : q \in DOMAIN heap'}
          = {<<heap[q].scope, q>> : q \in DOMAIN heap} \cup {<<scope, p>>}
    BY <1>3, <1>4
  <2> QED BY <1>1, <2>1 DEF SchedulerInv, ScopesAgree
<1>11. PairedHas' /\ InitDestroyBalanced'
  <2>1. PairedHas'
    BY <1>1, <1>3, <1>4 DEF SchedulerInv, PairedHas
  <2>2. \A q \in Addr : q # p => session'[q] = session[q] /\ (q \in paired' => q \in paired)
    BY <1>1 DEF SchedulerInv, SessionType
  <2>3. session'[p] = "closed" /\ paired' \subseteq Addr
    BY <1>1 DEF SchedulerInv, SessionType
  <2>4. ASSUME NEW q \in paired'
        PROVE  session'[q] = IF q \in DOMAIN heap' /\ heap'[q].status THEN "open" ELSE "closed"
    <3>1. CASE q = p
      BY <1>3, <1>4, <2>3, <3>1
    <3>2. CASE q # p
      <4>1. session[q] = IF q \in DOMAIN heap /\ heap[q].status THEN "open" ELSE "closed"
        BY <2>2, <2>3, <3>2 DEF SchedulerInv, InitDestroyBalanced, Online
      <4> QED BY <1>4, <2>2, <2>3, <3>2, <4>1
    <3> QED BY <3>1, <3>2
  <2> QED BY <2>1, <2>4 DEF InitDestroyBalanced, Online
<1>12. CurrentOnlineUntilWithdrawn'
  BY <1>2, <1>4 DEF SchedulerInv, CurrentOnlineUntilWithdrawn, Online
<1> QED BY <1>6, <1>7, <1>8, <1>9, <1>10, <1>11, <1>12 DEF SchedulerInv

\* A step that keeps the objects, their scopes and the ids.
LEMMA IndexesKept ==
  ASSUME SchedulerInv, HeapType', UNCHANGED <<services, service_scope>>,
         DOMAIN heap' = DOMAIN heap, \A p \in DOMAIN heap : heap'[p].scope = heap[p].scope
  PROVE  IdType' /\ IdsAgree' /\ ScopesAgree'
<1>1. IdType'
  BY DEF SchedulerInv, IdType
<1>2. IdsAgree'
  BY DEF SchedulerInv, IdsAgree
<1>3. {<<heap'[p].scope, p>> : p \in DOMAIN heap'} = {<<heap[p].scope, p>> : p \in DOMAIN heap}
  OBVIOUS
<1>4. ScopesAgree'
  BY <1>3 DEF SchedulerInv, ScopesAgree
<1> QED BY <1>1, <1>2, <1>4

LEMMA NamedLive ==
  ASSUME SchedulerInv, NEW ids
  PROVE  Named(ids) \subseteq DOMAIN heap /\ DOMAIN heap \subseteq Addr
BY DEF SchedulerInv, Named, IdsAgree, HeapType

LEMMA EnableStep ==
  ASSUME SchedulerInv, NEW ids \in SUBSET Id, NEW ok, enable_service(ids, ok)
  PROVE  SchedulerInv'
<1> DEFINE up == Starting(ids) \ Failing(ids, ok)
<1>0. /\ HeapType /\ Starting(ids) \subseteq DOMAIN heap /\ DOMAIN heap \subseteq Addr
      /\ \A p \in Starting(ids) : ~heap[p].status
  BY NamedLive DEF SchedulerInv, Starting, Online
<1>1. /\ heap' = [p \in DOMAIN heap |-> [heap[p] EXCEPT !.status = heap[p].status \/ p \in up]]
      /\ session' = [p \in Addr |->
                       IF p \in Failing(ids, ok) /\ Has(p, "destroy")
                       THEN AfterDestroy(Started(ids, p)) ELSE Started(ids, p)]
      /\ UNCHANGED <<services, service_scope, policy, range, select_id, select_scope,
                     current_service, paired, withdrawn>>
  BY DEF enable_service, fields
<1> HIDE DEF up
<1>2. DOMAIN heap' = DOMAIN heap
  BY <1>1
<1>3. \A p \in DOMAIN heap :
        /\ heap'[p] \in Service
        /\ heap'[p].status = (heap[p].status \/ p \in up)
        /\ heap'[p].scope = heap[p].scope /\ heap'[p].ops = heap[p].ops
  <2> SUFFICES ASSUME NEW p \in DOMAIN heap
               PROVE  /\ heap'[p] \in Service
                      /\ heap'[p].status = (heap[p].status \/ p \in up)
                      /\ heap'[p].scope = heap[p].scope /\ heap'[p].ops = heap[p].ops
    OBVIOUS
  <2>1. heap[p] \in Service
    BY <1>0 DEF HeapType
  <2>2. heap[p].status \in BOOLEAN
    BY <2>1 DEF Service
  <2> QED BY <1>1, <2>1, <2>2, StatusSet
<1>4. HeapType'
  BY <1>0, <1>1, <1>2, <1>3 DEF HeapType
<1>5. IdType' /\ IdsAgree' /\ ScopesAgree'
  BY <1>1, <1>2, <1>3, <1>4, IndexesKept
<1>6. ChoiceType'
  BY <1>1 DEF SchedulerInv, ChoiceType
<1>7. SessionType'
  <2>1. \A p \in Addr : Started(ids, p) \in Session
    BY DEF SchedulerInv, SessionType, Started, AfterInit, Session
  <2>2. \A s \in Session : AfterDestroy(s) \in Session
    BY DEF AfterDestroy, Session
  <2>3. \A p \in Addr : session'[p] \in Session
    BY <1>1, <2>1, <2>2
  <2> QED BY <1>1, <2>3 DEF SchedulerInv, SessionType
<1>8. PairedHas'
  BY <1>1, <1>2, <1>3 DEF SchedulerInv, PairedHas
<1>9. InitDestroyBalanced'
  <2> SUFFICES ASSUME NEW p \in paired
               PROVE  session'[p] = IF p \in DOMAIN heap' /\ heap'[p].status THEN "open" ELSE "closed"
    BY <1>1 DEF InitDestroyBalanced, Online
  <2>1. p \in Addr /\ session[p] = IF p \in DOMAIN heap /\ heap[p].status THEN "open" ELSE "closed"
    BY DEF SchedulerInv, SessionType, InitDestroyBalanced, Online
  <2>2. session'[p] = IF p \in Failing(ids, ok) /\ Has(p, "destroy")
                      THEN AfterDestroy(Started(ids, p)) ELSE Started(ids, p)
    BY <1>1, <2>1
  <2>3. p \in DOMAIN heap => Has(p, "init") /\ Has(p, "destroy")
    BY DEF SchedulerInv, PairedHas, Pairs, Has
  <2>4. CASE p \notin Starting(ids)
    <3>1. session'[p] = session[p] /\ p \notin up
      BY <2>2, <2>4 DEF Failing, Started, up
    <3> QED BY <1>2, <1>3, <2>1, <3>1
  <2>5. CASE p \in Starting(ids)
    <3>1. p \in DOMAIN heap /\ ~heap[p].status
      BY <1>0, <2>5
    <3>2. session[p] = "closed" /\ Started(ids, p) = "open"
      BY <2>1, <2>3, <2>5, <3>1 DEF Started, AfterInit
    <3>3. p \in up <=> p \notin Failing(ids, ok)
      BY <2>5 DEF up
    <3>4. heap'[p].status = (p \in up)
      BY <1>3, <3>1
    <3>5. CASE p \in Failing(ids, ok)
      BY <2>2, <2>3, <3>1, <3>2, <3>3, <3>4, <3>5 DEF AfterDestroy
    <3>6. CASE p \notin Failing(ids, ok)
      BY <1>2, <2>2, <3>1, <3>2, <3>3, <3>4, <3>6
    <3> QED BY <3>5, <3>6
  <2> QED BY <2>4, <2>5
<1>10. CurrentOnlineUntilWithdrawn'
  BY <1>1, <1>2, <1>3 DEF SchedulerInv, CurrentOnlineUntilWithdrawn, Online
<1> QED BY <1>4, <1>5, <1>6, <1>7, <1>8, <1>9, <1>10 DEF SchedulerInv

\* destroy of the paired modules of online services closes them, and keeps
\* the others as they are.
LEMMA ClosedPaired ==
  ASSUME SchedulerInv, NEW gone \in SUBSET DOMAIN heap, \A p \in gone : heap[p].status
  PROVE  /\ Closed(gone) \in [Addr -> Session]
         /\ \A p \in paired : Closed(gone)[p] =
              IF p \in DOMAIN heap /\ heap[p].status /\ p \notin gone THEN "open" ELSE "closed"
<1>1. Closed(gone) \in [Addr -> Session]
  <2>1. \A s \in Session : AfterDestroy(s) \in Session
    BY DEF AfterDestroy, Session
  <2> QED BY <2>1 DEF SchedulerInv, SessionType, Closed
<1>2. ASSUME NEW p \in paired
      PROVE  Closed(gone)[p] =
               IF p \in DOMAIN heap /\ heap[p].status /\ p \notin gone THEN "open" ELSE "closed"
  <2>1. p \in Addr /\ session[p] = IF p \in DOMAIN heap /\ heap[p].status THEN "open" ELSE "closed"
    BY DEF SchedulerInv, SessionType, InitDestroyBalanced, Online
  <2>2. p \in DOMAIN heap => Has(p, "destroy")
    BY DEF SchedulerInv, PairedHas, Pairs, Has
  <2>3. CASE p \in gone
    BY <2>1, <2>2, <2>3 DEF Closed, AfterDestroy
  <2>4. CASE p \notin gone
    BY <2>1, <2>4 DEF Closed
  <2> QED BY <2>3, <2>4
<1> QED BY <1>1, <1>2

\* The history of disable_service and unload_service: what is destroyed was
\* online, and the current service leaves only as withdrawn.
LEMMA ClosingSteps ==
  ASSUME SchedulerInv, NEW ids, Closing(ids), UNCHANGED paired
  PROVE  /\ SessionType' /\ withdrawn' \in BOOLEAN
         /\ \A p \in paired : session'[p] =
              IF p \in DOMAIN heap /\ heap[p].status /\ p \notin Named(ids) THEN "open" ELSE "closed"
         /\ ~withdrawn' /\ current_service # Null =>
              /\ current_service \in DOMAIN heap /\ heap[current_service].status
              /\ current_service \notin Named(ids)
<1>0. Named(ids) \subseteq DOMAIN heap
  BY NamedLive
<1>1. Stopping(ids) \in SUBSET DOMAIN heap /\ \A p \in Stopping(ids) : heap[p].status
  BY <1>0 DEF Stopping, Online
<1>2. session' = Closed(Stopping(ids))
  BY DEF Closing
<1>3. SessionType'
  BY <1>1, <1>2, ClosedPaired DEF SchedulerInv, SessionType
<1>4. withdrawn' \in BOOLEAN
  BY DEF Closing
<1>5. ASSUME NEW p \in paired
      PROVE  session'[p] =
               IF p \in DOMAIN heap /\ heap[p].status /\ p \notin Named(ids) THEN "open" ELSE "closed"
  <2>1. session'[p] =
          IF p \in DOMAIN heap /\ heap[p].status /\ p \notin Stopping(ids) THEN "open" ELSE "closed"
    BY <1>1, <1>2, ClosedPaired
  <2>2. heap[p].status => (p \in Stopping(ids) <=> p \in Named(ids))
    BY DEF Stopping, Online
  <2> QED BY <2>1, <2>2
<1>6. ASSUME ~withdrawn', current_service # Null
      PROVE  /\ current_service \in DOMAIN heap /\ heap[current_service].status
             /\ current_service \notin Named(ids)
  <2>1. ~withdrawn /\ current_service \notin Stopping(ids)
    BY <1>6 DEF Closing
  <2>2. current_service \in DOMAIN heap /\ heap[current_service].status
    BY <1>6, <2>1 DEF SchedulerInv, CurrentOnlineUntilWithdrawn, Online
  <2> QED BY <2>1, <2>2 DEF Stopping, Online
<1> QED BY <1>3, <1>4, <1>5, <1>6

LEMMA DisableStep ==
  ASSUME SchedulerInv, NEW ids \in SUBSET Id, disable_service(ids)
  PROVE  SchedulerInv'
<1>0. HeapType /\ Closing(ids)
  BY DEF SchedulerInv, disable_service
<1>1. /\ heap' = [p \in DOMAIN heap |->
                    [heap[p] EXCEPT !.status = heap[p].status /\ p \notin Named(ids)]]
      /\ UNCHANGED <<services, service_scope, policy, range, select_id, select_scope,
                     current_service, paired>>
  BY DEF disable_service, fields
<1>2. DOMAIN heap' = DOMAIN heap
  BY <1>1
<1>3. \A p \in DOMAIN heap :
        /\ heap'[p] \in Service
        /\ heap'[p].status = (heap[p].status /\ p \notin Named(ids))
        /\ heap'[p].scope = heap[p].scope /\ heap'[p].ops = heap[p].ops
  <2> SUFFICES ASSUME NEW p \in DOMAIN heap
               PROVE  /\ heap'[p] \in Service
                      /\ heap'[p].status = (heap[p].status /\ p \notin Named(ids))
                      /\ heap'[p].scope = heap[p].scope /\ heap'[p].ops = heap[p].ops
    OBVIOUS
  <2>1. heap[p] \in Service
    BY <1>0 DEF HeapType
  <2>2. heap[p].status \in BOOLEAN
    BY <2>1 DEF Service
  <2> QED BY <1>1, <2>1, <2>2, StatusSet
<1>4. HeapType'
  BY <1>0, <1>1, <1>2, <1>3 DEF HeapType
<1>5. IdType' /\ IdsAgree' /\ ScopesAgree'
  BY <1>1, <1>2, <1>3, <1>4, IndexesKept
<1>6. ChoiceType' /\ SessionType'
  BY <1>0, <1>1, ClosingSteps DEF SchedulerInv, ChoiceType
<1>7. InitDestroyBalanced'
  <2> SUFFICES ASSUME NEW p \in paired
               PROVE  session'[p] = IF p \in DOMAIN heap' /\ heap'[p].status THEN "open" ELSE "closed"
    BY <1>1 DEF InitDestroyBalanced, Online
  <2>1. session'[p] =
          IF p \in DOMAIN heap /\ heap[p].status /\ p \notin Named(ids) THEN "open" ELSE "closed"
    BY <1>0, <1>1, ClosingSteps
  <2>2. p \in DOMAIN heap' /\ heap'[p].status
          <=> p \in DOMAIN heap /\ heap[p].status /\ p \notin Named(ids)
    BY <1>2, <1>3
  <2> QED BY <2>1, <2>2
<1>9. PairedHas'
  BY <1>1, <1>2, <1>3 DEF SchedulerInv, PairedHas
<1>8. CurrentOnlineUntilWithdrawn'
  <2> SUFFICES ASSUME ~withdrawn', current_service' # Null
               PROVE  current_service' \in DOMAIN heap' /\ heap'[current_service'].status
    BY DEF CurrentOnlineUntilWithdrawn, Online
  <2>1. /\ current_service \in DOMAIN heap /\ heap[current_service].status
        /\ current_service \notin Named(ids)
    BY <1>0, <1>1, ClosingSteps
  <2> QED BY <1>1, <1>2, <1>3, <2>1
<1> QED BY <1>4, <1>5, <1>6, <1>7, <1>8, <1>9 DEF SchedulerInv

\* The objects of the ids are deleted, and no other: an object has one id.
LEMMA UnloadStep ==
  ASSUME SchedulerInv, NEW ids \in SUBSET Id, unload_service(ids)
  PROVE  SchedulerInv'
<1>0. /\ HeapType /\ IdType /\ IdsAgree /\ Closing(ids)
      /\ service_scope = {<<heap[p].scope, p>> : p \in DOMAIN heap}
  BY DEF SchedulerInv, unload_service, ScopesAgree
<1>1. /\ services' = [i \in DOMAIN services \ ids |-> services[i]]
      /\ heap' = [p \in DOMAIN heap \ Named(ids) |-> heap[p]]
      /\ service_scope' = {e \in service_scope :
                             ~(e[2] \in Named(ids) /\ e[1] = heap[e[2]].scope)}
      /\ UNCHANGED <<policy, range, select_id, select_scope, current_service, paired>>
  BY DEF unload_service, fields
<1>2. /\ DOMAIN heap' = DOMAIN heap \ Named(ids)
      /\ \A p \in DOMAIN heap' : heap'[p] = heap[p]
  BY <1>1
<1>3. /\ DOMAIN services' = DOMAIN services \ ids
      /\ \A i \in DOMAIN services' : services'[i] = services[i]
  BY <1>1
<1>4. HeapType'
  BY <1>0, <1>1, <1>2 DEF HeapType
<1>5. IdType'
  BY <1>0, <1>1 DEF IdType
<1>6. IdsAgree'
  <2>1. \A i \in DOMAIN services : services[i] \in Named(ids) <=> i \in ids
    BY <1>0 DEF Named, IdsAgree
  <2>2. \A i \in DOMAIN services' : i > 0 /\ services'[i] \in DOMAIN heap'
    BY <1>0, <1>2, <1>3, <2>1 DEF IdsAgree
  <2>3. \A i, j \in DOMAIN services' : services'[i] = services'[j] => i = j
    BY <1>0, <1>3 DEF IdsAgree
  <2>4. \A p \in DOMAIN heap' : \E i \in DOMAIN services' : services'[i] = p
    BY <1>0, <1>2, <1>3, <2>1 DEF IdsAgree
  <2> QED BY <2>2, <2>3, <2>4 DEF IdsAgree
<1>7. ScopesAgree'
  <2>1. service_scope' = {<<heap[p].scope, p>> : p \in DOMAIN heap \ Named(ids)}
    BY <1>0, <1>1
  <2>2. {<<heap'[p].scope, p>> : p \in DOMAIN heap'}
          = {<<heap[p].scope, p>> : p \in DOMAIN heap \ Named(ids)}
    BY <1>2
  <2> QED BY <2>1, <2>2 DEF ScopesAgree
<1>8. ChoiceType' /\ SessionType'
  BY <1>0, <1>1, ClosingSteps DEF SchedulerInv, ChoiceType
<1>9. InitDestroyBalanced'
  <2> SUFFICES ASSUME NEW p \in paired
               PROVE  session'[p] = IF p \in DOMAIN heap' /\ heap'[p].status THEN "open" ELSE "closed"
    BY <1>1 DEF InitDestroyBalanced, Online
  <2>1. session'[p] =
          IF p \in DOMAIN heap /\ heap[p].status /\ p \notin Named(ids) THEN "open" ELSE "closed"
    BY <1>0, <1>1, ClosingSteps
  <2>2. p \in DOMAIN heap' /\ heap'[p].status
          <=> p \in DOMAIN heap /\ heap[p].status /\ p \notin Named(ids)
    BY <1>2
  <2> QED BY <2>1, <2>2
<1>11. PairedHas'
  BY <1>1, <1>2 DEF SchedulerInv, PairedHas
<1>10. CurrentOnlineUntilWithdrawn'
  <2> SUFFICES ASSUME ~withdrawn', current_service' # Null
               PROVE  current_service' \in DOMAIN heap' /\ heap'[current_service'].status
    BY DEF CurrentOnlineUntilWithdrawn, Online
  <2>1. /\ current_service \in DOMAIN heap /\ heap[current_service].status
        /\ current_service \notin Named(ids)
    BY <1>0, <1>1, ClosingSteps
  <2> QED BY <1>1, <1>2, <2>1
<1> QED BY <1>4, <1>5, <1>6, <1>7, <1>8, <1>9, <1>10, <1>11 DEF SchedulerInv

\* Both ways of choosing return a live service that is online, or none.
LEMMA ChosenOnline ==
  ASSUME SchedulerInv, NEW pol, NEW id, NEW rng, NEW scope,
         NEW p \in service_choose(pol, id, rng, scope)
  PROVE  p = Null \/ (p \in DOMAIN heap /\ heap[p].status)
<1>1. \A e \in service_scope : e[2] \in DOMAIN heap
  BY DEF SchedulerInv, ScopesAgree
<1>2. ASSUME NEW entries \in SUBSET service_scope, NEW q \in Balance_Select_Service(entries)
      PROVE  q = Null \/ (q \in DOMAIN heap /\ heap[q].status)
  BY <1>1, <1>2 DEF Balance_Select_Service, Online
<1>3. CASE pol = "Single"
  <2>1. p = Null \/ (p = find_service(id) /\ p # Null /\ heap[p].status)
    BY <1>3 DEF service_choose, Online
  <2>2. find_service(id) = Null \/ find_service(id) \in DOMAIN heap
    BY DEF find_service, SchedulerInv, IdsAgree
  <2> QED BY <2>1, <2>2
<1>4. CASE pol # "Single"
  BY <1>2, <1>4 DEF service_choose, Balanced
<1> QED BY <1>3, <1>4

LEMMA ChooseStep ==
  ASSUME SchedulerInv, NEW pol \in Policy, NEW id \in Id, NEW rng \in Range,
         NEW scope \in Scope, strategy_choose(pol, id, rng, scope)
  PROVE  SchedulerInv'
<1>1. /\ policy' = pol /\ range' = rng
      /\ select_id' \in Id \cup {-1} /\ select_scope' \in Scope \cup {NoScope}
      /\ withdrawn' = FALSE
      /\ UNCHANGED <<services, heap, service_scope, session, paired>>
  BY DEF strategy_choose
<1>2. current_service' = Null \/ (current_service' \in DOMAIN heap /\ heap[current_service'].status)
  BY ChosenOnline DEF strategy_choose
<1>3. ChoiceType'
  BY <1>1, <1>2 DEF SchedulerInv, HeapType, ChoiceType
<1>4. HeapType' /\ IdType' /\ SessionType' /\ IdsAgree' /\ ScopesAgree'
  BY <1>1 DEF SchedulerInv, HeapType, IdType, SessionType, IdsAgree, ScopesAgree
<1>5. PairedHas' /\ InitDestroyBalanced'
  BY <1>1 DEF SchedulerInv, PairedHas, InitDestroyBalanced, Online
<1>6. CurrentOnlineUntilWithdrawn'
  BY <1>1, <1>2 DEF CurrentOnlineUntilWithdrawn, Online
<1> QED BY <1>3, <1>4, <1>5, <1>6 DEF SchedulerInv

LEMMA ScopeStep ==
  ASSUME SchedulerInv, NEW id \in Id, NEW scope \in Scope, change_scope(id, scope)
  PROVE  SchedulerInv'
<1> DEFINE p == find_service(id)
<1>0. /\ HeapType /\ service_scope = {<<heap[q].scope, q>> : q \in DOMAIN heap}
      /\ p \in DOMAIN heap
  BY DEF SchedulerInv, ScopesAgree, change_scope, find_service, IdsAgree
<1>1. /\ service_scope' = (service_scope \ {<<heap[p].scope, p>>}) \cup {<<scope, p>>}
      /\ heap' = [heap EXCEPT ![p] = [heap[p] EXCEPT !.scope = scope]]
      /\ UNCHANGED <<services, policy, range, select_id, select_scope, current_service,
                     session, paired, withdrawn>>
  BY DEF change_scope, fields
<1> HIDE DEF p
<1>2. /\ [heap[p] EXCEPT !.scope = scope] \in Service
      /\ [heap[p] EXCEPT !.scope = scope].status = heap[p].status
      /\ [heap[p] EXCEPT !.scope = scope].scope = scope
      /\ [heap[p] EXCEPT !.scope = scope].ops = heap[p].ops
  BY <1>0, ScopeSet DEF HeapType
<1>3. /\ DOMAIN heap' = DOMAIN heap
      /\ heap'[p].scope = scope
      /\ \A q \in DOMAIN heap : q # p => heap'[q] = heap[q]
      /\ \A q \in DOMAIN heap : heap'[q].status = heap[q].status /\ heap'[q].ops = heap[q].ops
  BY <1>0, <1>1, <1>2 DEF HeapType
<1>4. HeapType'
  BY <1>0, <1>1, <1>2 DEF HeapType
<1>5. IdType' /\ ChoiceType' /\ SessionType' /\ IdsAgree'
  BY <1>1, <1>3 DEF SchedulerInv, IdType, ChoiceType, SessionType, IdsAgree
<1>6. ScopesAgree'
  <2>1. {<<heap'[q].scope, q>> : q \in DOMAIN heap'}
          = ({<<heap[q].scope, q>> : q \in DOMAIN heap} \ {<<heap[p].scope, p>>})
            \cup {<<scope, p>>}
    BY <1>0, <1>3
  <2> QED BY <1>0, <1>1, <2>1 DEF ScopesAgree
<1>7. PairedHas' /\ InitDestroyBalanced'
  BY <1>1, <1>3 DEF SchedulerInv, PairedHas, InitDestroyBalanced, Online
<1>8. CurrentOnlineUntilWithdrawn'
  BY <1>1, <1>3 DEF SchedulerInv, CurrentOnlineUntilWithdrawn, Online
<1> QED BY <1>4, <1>5, <1>6, <1>7, <1>8 DEF SchedulerInv

LEMMA OperationsStep ==
  ASSUME SchedulerInv, NEW id \in Id, NEW ops \in Operations, set_operations(id, ops)
  PROVE  SchedulerInv'
<1> DEFINE p == find_service(id)
<1>0. HeapType /\ p \in DOMAIN heap
  BY DEF SchedulerInv, set_operations, find_service, IdsAgree
<1>1. /\ heap' = [heap EXCEPT ![p] = [heap[p] EXCEPT !.ops = ops]]
      /\ session' = [session EXCEPT ![p] = "closed"]
      /\ paired' = IF Pairs(ops) /\ ~heap[p].status THEN paired \cup {p} ELSE paired \ {p}
      /\ UNCHANGED <<services, service_scope, policy, range, select_id, select_scope,
                     current_service, withdrawn>>
  BY DEF set_operations, fields, Online
<1> HIDE DEF p
<1>2. /\ [heap[p] EXCEPT !.ops = ops] \in Service
      /\ [heap[p] EXCEPT !.ops = ops].status = heap[p].status
      /\ [heap[p] EXCEPT !.ops = ops].scope = heap[p].scope
      /\ [heap[p] EXCEPT !.ops = ops].ops = ops
  BY <1>0, OpsSet DEF HeapType
<1>3. /\ DOMAIN heap' = DOMAIN heap
      /\ \A q \in DOMAIN heap : heap'[q].status = heap[q].status /\ heap'[q].scope = heap[q].scope
      /\ heap'[p].ops = ops /\ \A q \in DOMAIN heap : q # p => heap'[q] = heap[q]
  BY <1>0, <1>1, <1>2 DEF HeapType
<1>4. HeapType'
  BY <1>0, <1>1, <1>2 DEF HeapType
<1>5. IdType' /\ IdsAgree' /\ ScopesAgree'
  BY <1>1, <1>3, <1>4, IndexesKept
<1>6. ChoiceType' /\ SessionType'
  <2>1. ChoiceType'
    BY <1>1 DEF SchedulerInv, ChoiceType
  <2>2. session' \in [Addr -> Session] /\ p \in Addr
    BY <1>0, <1>1 DEF SchedulerInv, SessionType, Session, HeapType
  <2>3. SessionType'
    BY <1>1, <2>2 DEF SchedulerInv, SessionType
  <2> QED BY <2>1, <2>3
<1>7. PairedHas' /\ InitDestroyBalanced'
  <2>1. PairedHas'
    BY <1>1, <1>3 DEF SchedulerInv, PairedHas
  <2>2. paired \subseteq Addr /\ session \in [Addr -> Session] /\ p \in Addr
    BY <1>0 DEF SchedulerInv, SessionType, HeapType
  <2>3. ASSUME NEW q \in paired'
        PROVE  session'[q] = IF q \in DOMAIN heap' /\ heap'[q].status THEN "open" ELSE "closed"
    <3>1. CASE q = p
      <4>1. ~heap[p].status
        BY <1>1, <3>1
      <4> QED BY <1>0, <1>1, <1>3, <2>2, <3>1, <4>1
    <3>2. CASE q # p
      <4>1. q \in paired /\ session'[q] = session[q]
        BY <1>1, <2>2, <3>2
      <4>2. session[q] = IF q \in DOMAIN heap /\ heap[q].status THEN "open" ELSE "closed"
        BY <4>1 DEF SchedulerInv, InitDestroyBalanced, Online
      <4> QED BY <1>3, <4>1, <4>2
    <3> QED BY <3>1, <3>2
  <2> QED BY <2>1, <2>3 DEF InitDestroyBalanced, Online
<1>8. CurrentOnlineUntilWithdrawn'
  BY <1>1, <1>3 DEF SchedulerInv, CurrentOnlineUntilWithdrawn, Online
<1> QED BY <1>4, <1>5, <1>6, <1>7, <1>8 DEF SchedulerInv

\* A scheduler as it is constructed, after every service was destroyed.
Empty ==
  /\ services = << >> /\ heap = << >> /\ service_scope = {}
  /\ policy = "LoadBalance" /\ range = "All"
  /\ select_id = -1 /\ select_scope = NoScope /\ current_service = Null
  /\ withdrawn = FALSE
  /\ SessionType /\ \A p \in paired : session[p] = "closed"

LEMMA EmptyInv == Empty => SchedulerInv
<1> SUFFICES ASSUME Empty PROVE SchedulerInv
  OBVIOUS
<1>1. DOMAIN services = {} /\ DOMAIN heap = {}
  BY DEF Empty
<1>2. HeapType
  BY <1>1 DEF Empty, HeapType
<1>3. IdType
  BY <1>1 DEF Empty, IdType
<1>4. ChoiceType
  BY DEF Empty, ChoiceType, Policy, Range
<1>5. IdsAgree /\ ScopesAgree
  BY <1>1 DEF Empty, IdsAgree, ScopesAgree
<1>6. PairedHas /\ InitDestroyBalanced /\ CurrentOnlineUntilWithdrawn
  BY <1>1 DEF Empty, PairedHas, InitDestroyBalanced, CurrentOnlineUntilWithdrawn
<1> QED BY <1>2, <1>3, <1>4, <1>5, <1>6 DEF Empty, SchedulerInv

LEMMA EmptyInvNext == Empty' => SchedulerInv'
BY EmptyInv, PTL

LEMMA DestructStep ==
  ASSUME SchedulerInv, Destruct
  PROVE  SchedulerInv'
<1> DEFINE gone == {p \in DOMAIN heap : Online(p)}
<1>1. session' = Closed(gone) /\ paired' = paired
  BY DEF Destruct
<1>2. gone \in SUBSET DOMAIN heap /\ \A p \in gone : heap[p].status
  BY DEF Online
<1>3. SessionType'
  BY <1>1, <1>2, ClosedPaired DEF SchedulerInv, SessionType
<1>4. ASSUME NEW p \in paired
      PROVE  session'[p] = "closed"
  <2>1. session'[p] =
          IF p \in DOMAIN heap /\ heap[p].status /\ p \notin gone THEN "open" ELSE "closed"
    BY <1>1, <1>2, ClosedPaired
  <2> QED BY <2>1 DEF Online
<1>5. Empty'
  BY <1>1, <1>3, <1>4 DEF Destruct, Empty
<1> QED BY <1>5, EmptyInvNext

LEMMA SchedulerStep ==
  ASSUME SchedulerInv, [Next]_vars
  PROVE  SchedulerInv'
<1>1. CASE UNCHANGED vars
  <2>1. HeapType' /\ IdType' /\ ChoiceType' /\ SessionType' /\ IdsAgree' /\ ScopesAgree'
    BY <1>1 DEF vars, SchedulerInv, HeapType, IdType, ChoiceType, SessionType, IdsAgree, ScopesAgree
  <2>2. PairedHas' /\ InitDestroyBalanced' /\ CurrentOnlineUntilWithdrawn'
    BY <1>1 DEF vars, SchedulerInv, PairedHas, InitDestroyBalanced, CurrentOnlineUntilWithdrawn, Online
  <2> QED BY <2>1, <2>2 DEF SchedulerInv
<1> QED
  BY <1>1, RegisterStep, EnableStep, DisableStep, UnloadStep, ChooseStep, ScopeStep,
     OperationsStep, DestructStep
  DEF Next

LEMMA SchedulerInvariant == Spec => []SchedulerInv
<1>1. Init => SchedulerInv
  <2>1. Init => Empty
    BY DEF Init, Empty, SessionType, Session
  <2> QED BY <2>1, EmptyInv
<1>2. SchedulerInv /\ [Next]_vars => SchedulerInv'
  BY SchedulerStep
<1> QED BY <1>1, <1>2, PTL DEF Spec

\* Every reachable state of the scheduler is well typed.
THEOREM TypeCorrect == Spec => []TypeOK
<1>1. SchedulerInv => TypeOK
  BY InvImplies
<1> QED BY <1>1, SchedulerInvariant, PTL

\* Through every sequence of calls, addresses reused, each live service has
\* one positive id and is listed under its own scope only, and neither index
\* holds a deleted service.
THEOREM IndexesCorrect == Spec => []IndexesAgree
<1>1. SchedulerInv => IndexesAgree
  BY InvImplies
<1> QED BY <1>1, SchedulerInvariant, PTL

\* A module with both functions that was set under an offline service is
\* initialised exactly while its service is online, although init may fail,
\* and has been destroyed when the service is deleted.
THEOREM BalancedCorrect == Spec => []InitDestroyBalanced
<1>1. SchedulerInv => InitDestroyBalanced
  BY DEF SchedulerInv
<1> QED BY <1>1, SchedulerInvariant, PTL

\* Until it is itself disabled or unloaded, the service of the last choice
\* stays live and online.
THEOREM CurrentCorrect == Spec => []CurrentOnlineUntilWithdrawn
<1>1. SchedulerInv => CurrentOnlineUntilWithdrawn
  BY DEF SchedulerInv
<1> QED BY <1>1, SchedulerInvariant, PTL
=============================================================================
