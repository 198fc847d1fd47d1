------------------------------ MODULE TaskLife ------------------------------
(***************************************************************************)
(* What the negotiation of task ids promises its users, whatever messages  *)
(* implement it: an id is given to one client at a time and the storage    *)
(* keeps the engine of an id for as long as a client holds it.  A promise  *)
(* is made only while no stale request is about: Spoil is the moment after *)
(* which anything may be taken from anybody.                               *)
(***************************************************************************)
CONSTANTS
  Client,  \* management clients
  TaskId   \* task ids

VARIABLES
  holds,    \* client -> the ids it holds, at most one
  started,  \* clients whose task runs
  bound,    \* ids with an engine at the storage
  spoiled   \* a stale request has been made

vars == <<holds, started, bound, spoiled>>

Init ==
  /\ holds = [c \in Client |-> {}]
  /\ started = {}
  /\ bound = {}
  /\ spoiled = FALSE

\* A client is given an id that is bound and that nobody holds.
Acquire(c, t) ==
  /\ holds[c] = {}
  /\ ~spoiled => t \in bound /\ \A d \in Client : t \notin holds[d]
  /\ holds' = [holds EXCEPT ![c] = {t}]
  /\ UNCHANGED <<started, bound, spoiled>>

Start(c) ==
  /\ holds[c] # {} /\ c \notin started
  /\ started' = started \cup {c}
  /\ UNCHANGED <<holds, bound, spoiled>>

Release(c) ==
  /\ holds[c] # {}
  /\ holds' = [holds EXCEPT ![c] = {}]
  /\ started' = started \ {c}
  /\ UNCHANGED <<bound, spoiled>>

Bind(t) ==
  /\ t \notin bound
  /\ bound' = bound \cup {t}
  /\ UNCHANGED <<holds, started, spoiled>>

\* Only an id nobody holds loses its engine.
Unbind(t) ==
  /\ t \in bound
  /\ ~spoiled => \A c \in Client : t \notin holds[c]
  /\ bound' = bound \ {t}
  /\ UNCHANGED <<holds, started, spoiled>>

Spoil ==
  /\ ~spoiled
  /\ spoiled' = TRUE
  /\ UNCHANGED <<holds, started, bound>>

Next ==
  \/ \E c \in Client : Start(c) \/ Release(c) \/ \E t \in TaskId : Acquire(c, t)
  \/ \E t \in TaskId : Bind(t) \/ Unbind(t)
  \/ Spoil

Spec == Init /\ [][Next]_vars

\* The promise: an id has one holder, and its engine is at the storage.
Exclusive ==
  ~spoiled =>
    \A c \in Client : \A t \in holds[c] :
      t \in bound /\ \A d \in Client : t \in holds[d] => d = c
=============================================================================
