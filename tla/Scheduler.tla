------------------------------ MODULE Scheduler ------------------------------
(***************************************************************************)
(* The file-system scheduler of the storage                                *)
(* (storage/fs/scheduler/Scheduler.cc): services are registered under an   *)
(* id and a scope, enabled, disabled and unloaded; strategy_choose selects *)
(* the current service, through which every file operation goes.           *)
(*                                                                         *)
(* A service is an object at an address.  unload_service deletes the       *)
(* object and a later register_service may be given the same address       *)
(* again.  The scheduler has no lock: its owner calls one method at a time. *)
(***************************************************************************)
EXTENDS Integers, FiniteSets

CONSTANTS
  Id,     \* ids the owner may pass, the illegal ones included
  Scope,  \* scope names
  Addr,   \* addresses the allocator may return for a Service
  Op      \* the file operations a module may or may not provide

ASSUME SchedulerAssumption == Id \subseteq Int

VARIABLES
  services,       \* unordered_map id -> Service*
  heap,           \* the live Service objects: address -> fields
  service_scope,  \* unordered_multimap scope -> Service*
  policy, range, select_id, select_scope,
  current_service,
  \* history, read by the properties only
  session,        \* address -> what init and destroy have made of its module
  paired,         \* addresses of services whose module has both and was set offline
  withdrawn       \* the current service was disabled after it was chosen

fields == <<policy, range, select_id, select_scope>>
vars == <<services, heap, service_scope, policy, range, select_id, select_scope,
          current_service, session, paired, withdrawn>>

Null == "nullptr"
Policy == {"LoadBalance", "Single"}
Range == {"All", "Specified"}
NoScope == "no scope"

ASSUME SchedulerNull == Null \notin Addr

\* A module: the functions of Operations that are not null.
Operations == SUBSET (Op \cup {"init", "destroy"})
Has(p, f) == f \in heap[p].ops

\* The calls a module expects, init and destroy in turn; "misused" otherwise.
Session == {"closed", "open", "misused"}
AfterInit(s) == IF s = "closed" THEN "open" ELSE "misused"
AfterDestroy(s) == IF s = "open" THEN "closed" ELSE "misused"
Pairs(ops) == {"init", "destroy"} \subseteq ops

find_service(id) == IF id \in DOMAIN services THEN services[id] ELSE Null
Online(p) == heap[p].status

Init ==
  /\ services = <<>> /\ heap = <<>> /\ service_scope = {}
  /\ policy = "LoadBalance" /\ range = "All"
  /\ select_id = -1 /\ select_scope = NoScope
  /\ current_service = Null
  /\ session = [p \in Addr |-> "closed"] /\ paired = {}
  /\ withdrawn = FALSE

-----------------------------------------------------------------------------
(* register_service returns -1, with no change, for an id that is not      *)
(* positive or already taken.                                              *)
register_service(id, ops, scope) ==
  /\ id > 0 /\ find_service(id) = Null
  /\ \E p \in Addr \ DOMAIN heap :
       /\ services' = [i \in DOMAIN services \cup {id} |->
                         IF i = id THEN p ELSE services[i]]
       /\ heap' = [q \in DOMAIN heap \cup {p} |->
                     IF q = p THEN [status |-> FALSE, scope |-> scope, ops |-> ops]
                     ELSE heap[q]]
       /\ service_scope' = service_scope \cup {<<scope, p>>}
       /\ session' = [session EXCEPT ![p] = "closed"]
       /\ paired' = IF Pairs(ops) THEN paired \cup {p} ELSE paired \ {p}
  /\ UNCHANGED <<fields, current_service, withdrawn>>

\* The objects the ids of a call name.
Named(ids) == {services[i] : i \in ids \cap DOMAIN services}

\* The offline services are set online and initialised, if the module has
\* init.  Where that fails (ok are those where it succeeds) the module is
\* destroyed, if it has destroy, and the service goes offline again.
Starting(ids) == {p \in Named(ids) : ~Online(p)}
Failing(ids, ok) == {p \in Starting(ids) : Has(p, "init") /\ p \notin ok}
Started(ids, p) ==
  IF p \in Starting(ids) /\ Has(p, "init") THEN AfterInit(session[p]) ELSE session[p]

FaultyEnable(ids, ok) ==  \* a failed init leaves the service online
  /\ heap' = [p \in DOMAIN heap |->
                [heap[p] EXCEPT !.status = @ \/ p \in Starting(ids)]]
  /\ session' = [p \in Addr |->
                   IF p \in Failing(ids, ok) /\ Has(p, "destroy")
                   THEN AfterDestroy(Started(ids, p)) ELSE Started(ids, p)]
  /\ UNCHANGED <<services, service_scope, fields, current_service, paired, withdrawn>>

enable_service(ids, ok) ==
  /\ heap' = [p \in DOMAIN heap |->
                [heap[p] EXCEPT !.status = @ \/ p \in Starting(ids) \ Failing(ids, ok)]]
  /\ session' = [p \in Addr |->
                   IF p \in Failing(ids, ok) /\ Has(p, "destroy")
                   THEN AfterDestroy(Started(ids, p)) ELSE Started(ids, p)]
  /\ UNCHANGED <<services, service_scope, fields, current_service, paired, withdrawn>>

\* destroy is called on the services that are online, if the module has it.
Stopping(ids) == {p \in Named(ids) : Online(p)}
Closed(gone) ==
  [p \in Addr |-> IF p \in gone /\ Has(p, "destroy") THEN AfterDestroy(session[p]) ELSE session[p]]
Closing(ids) ==
  /\ session' = Closed(Stopping(ids))
  /\ withdrawn' = (withdrawn \/ current_service \in Stopping(ids))

disable_service(ids) ==
  /\ Closing(ids)
  /\ heap' = [p \in DOMAIN heap |->
                [heap[p] EXCEPT !.status = @ /\ p \notin Named(ids)]]
  /\ UNCHANGED <<services, service_scope, fields, current_service, paired>>

\* disable_service, then every named object is taken out of the scope index
\* and deleted; current_service keeps its value.
FaultyUnload(ids) ==  \* the scope index keeps the deleted service
  /\ Closing(ids)
  /\ services' = [i \in DOMAIN services \ ids |-> services[i]]
  /\ heap' = [p \in DOMAIN heap \ Named(ids) |-> heap[p]]
  /\ UNCHANGED <<service_scope, fields, current_service, paired>>

FaultyErase(ids) ==  \* the id keeps its entry, with the pointer set to null
  /\ Closing(ids)
  /\ services' = [i \in DOMAIN services |-> IF i \in ids THEN Null ELSE services[i]]
  /\ heap' = [p \in DOMAIN heap \ Named(ids) |-> heap[p]]
  /\ service_scope' = {e \in service_scope : e[2] \notin Named(ids)}
  /\ UNCHANGED <<fields, current_service, paired>>

unload_service(ids) ==
  /\ Closing(ids)
  /\ services' = [i \in DOMAIN services \ ids |-> services[i]]
  /\ heap' = [p \in DOMAIN heap \ Named(ids) |-> heap[p]]
  /\ service_scope' = {e \in service_scope :
                         ~(e[2] \in Named(ids) /\ e[1] = heap[e[2]].scope)}
  /\ UNCHANGED <<fields, current_service, paired>>

-----------------------------------------------------------------------------
\* The services Balance_Select_Service may return, for an entry range.
Balance_Select_Service(entries) ==
  LET online == {e[2] : e \in {x \in entries : Online(x[2])}}
  IN  IF online = {} THEN {Null} ELSE online

Balanced(rng, scope) ==
  Balance_Select_Service(IF rng = "Specified"
                         THEN {e \in service_scope : e[1] = scope}
                         ELSE service_scope)
FaultyChoose(pol, id, rng, scope) ==  \* the status is not looked at
  IF pol = "Single" THEN {find_service(id)} ELSE Balanced(rng, scope)

service_choose(pol, id, rng, scope) ==
  IF pol = "Single"
  THEN {IF find_service(id) = Null \/ ~Online(find_service(id))
        THEN Null ELSE find_service(id)}
  ELSE Balanced(rng, scope)

strategy_choose(pol, id, rng, scope) ==
  /\ policy' = pol
  /\ select_id' = IF pol = "LoadBalance" THEN -1 ELSE id
  /\ range' = rng
  /\ select_scope' = IF rng = "All" THEN NoScope ELSE scope
  /\ current_service' \in service_choose(pol, select_id', rng, select_scope')
  /\ withdrawn' = FALSE
  /\ UNCHANGED <<services, heap, service_scope, session, paired>>

change_scope(id, scope) ==
  LET p == find_service(id)
  IN  /\ p # Null
      /\ <<heap[p].scope, p>> \in service_scope
      /\ service_scope' = (service_scope \ {<<heap[p].scope, p>>}) \cup {<<scope, p>>}
      /\ heap' = [heap EXCEPT ![p].scope = scope]
      /\ UNCHANGED <<services, fields, current_service, session, paired, withdrawn>>

\* Through the Service that find_service returns the owner may replace the
\* module, of an online service too: the new one has not been initialised
\* then, and the old one is not destroyed.
set_operations(id, ops) ==
  LET p == find_service(id)
  IN  /\ p # Null
      /\ heap' = [heap EXCEPT ![p].ops = ops]
      /\ session' = [session EXCEPT ![p] = "closed"]
      /\ paired' = IF Pairs(ops) /\ ~Online(p) THEN paired \cup {p} ELSE paired \ {p}
      /\ UNCHANGED <<services, service_scope, fields, current_service, withdrawn>>

\* The destructor destroys what is online and deletes every service; the
\* owner may then construct a new scheduler.
Destruct ==
  /\ session' = Closed({p \in DOMAIN heap : Online(p)})
  /\ services' = <<>> /\ heap' = <<>> /\ service_scope' = {}
  /\ policy' = "LoadBalance" /\ range' = "All"
  /\ select_id' = -1 /\ select_scope' = NoScope
  /\ current_service' = Null
  /\ withdrawn' = FALSE
  /\ UNCHANGED paired

\* What a file operation does: operate(op) fails without a current service
\* or without that operation, and calls the service otherwise.  A deleted
\* service is still called, which is undefined.
operate(op) ==
  IF current_service = Null THEN "fail"
  ELSE IF current_service \notin DOMAIN heap THEN "undefined"
  ELSE IF op \in heap[current_service].ops THEN "call" ELSE "fail"

Next ==
  \/ \E id \in Id, ops \in Operations, scope \in Scope : register_service(id, ops, scope)
  \/ \E ids \in SUBSET Id : \E ok \in SUBSET Starting(ids) : enable_service(ids, ok)
  \/ \E ids \in SUBSET Id : disable_service(ids)
  \/ \E ids \in SUBSET Id : unload_service(ids)
  \/ \E pol \in Policy, id \in Id, rng \in Range, scope \in Scope :
       strategy_choose(pol, id, rng, scope)
  \/ \E id \in Id, scope \in Scope : change_scope(id, scope)
  \/ \E id \in Id, ops \in Operations : set_operations(id, ops)
  \/ Destruct

Spec == Init /\ [][Next]_vars

-----------------------------------------------------------------------------
(* Properties                                                              *)

Service == [status : BOOLEAN, scope : Scope, ops : Operations]

TypeOK ==
  /\ DOMAIN services \subseteq Id /\ services \in [DOMAIN services -> Addr]
  /\ DOMAIN heap \subseteq Addr /\ heap \in [DOMAIN heap -> Service]
  /\ service_scope \subseteq Scope \X Addr
  /\ policy \in Policy /\ range \in Range
  /\ select_id \in Id \cup {-1} /\ select_scope \in Scope \cup {NoScope}
  /\ current_service \in Addr \cup {Null}
  /\ session \in [Addr -> Session] /\ paired \subseteq Addr
  /\ withdrawn \in BOOLEAN

\* The two indexes agree through every sequence of register, change_scope
\* and unload, addresses reused: each live service is registered under one
\* positive id and listed under exactly its own scope, and neither index
\* holds the address of a deleted service.
IndexesAgree ==
  /\ \A i \in DOMAIN services : i > 0 /\ services[i] \in DOMAIN heap
  /\ \A i, j \in DOMAIN services : services[i] = services[j] => i = j
  /\ \A p \in DOMAIN heap : \E i \in DOMAIN services : services[i] = p
  /\ service_scope = {<<heap[p].scope, p>> : p \in DOMAIN heap}

\* A module that has init and destroy and was given to the service while it
\* was offline is called in turn, through every order of enable, disable,
\* unload and destruction and although init fails: it is initialised exactly
\* while its service is online, and when the service is deleted it has been
\* destroyed.  A module that lacks one of the two, or was set under an
\* online service, is not; the code does not promise it.
InitDestroyBalanced ==
  \A p \in paired :
    session[p] = IF p \in DOMAIN heap /\ Online(p) THEN "open" ELSE "closed"

\* Until the current service is itself disabled or unloaded it stays the
\* online service the last strategy_choose selected, whatever happens to
\* the others.
CurrentOnlineUntilWithdrawn ==
  ~withdrawn /\ current_service # Null =>
    current_service \in DOMAIN heap /\ Online(current_service)

\* Scheduler.h:50 "every operation goes through that service", the one the
\* last strategy choice selected: no operation is sent to a deleted object.
OperationsDefined == \A op \in Op : operate(op) # "undefined"
=============================================================================
