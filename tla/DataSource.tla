----------------------------- MODULE DataSource -----------------------------
(***************************************************************************)
(* The registration of data sources: Registry of the recorder              *)
(* (nvr/datasource) sends a name and an endpoint to a DataSourceServer of  *)
(* the management unit (management/datasource), which lists them.          *)
(*                                                                         *)
(* The server's handlers run on several threads and look the name up and   *)
(* enter it without a lock; the two are an action each.  Each is atomic: a *)
(* look-up that reads the tree while an insertion changes it is left out.  *)
(* Threads that insert into a std::map at once may leave any part of it;   *)
(* where this ends the process, the recorders see a server with an empty   *)
(* list that stops and exchanges that fail.  A message has no length:      *)
(* append takes what has arrived for the message as soon as it parses      *)
(* (proto/datasource), so a segment that ends between two fields is a      *)
(* message whose later fields have their default values.                   *)
(***************************************************************************)
EXTENDS Integers, Sequences

CONSTANTS
  Server,     \* data source servers
  Config,     \* names of server configurations at the registry
  Name,       \* names of data sources
  Url,        \* their addresses; proto and port go the same way
  Call,       \* calls of register_datasource
  MaxLosses,  \* bound: requests or replies lost or timed out
  MaxCuts     \* bound: segments that end between two fields

ASSUME DataSourceAssumption == MaxLosses \in Nat /\ MaxCuts \in Nat

VARIABLES
  config,     \* configMap: configurations loaded -> server
  running,    \* servers that take requests
  member,     \* server -> DataSourceList: name -> url
  call,       \* call -> where it is
  handler,    \* call -> the server's handler of its request
  losses, cuts,
  clashed     \* calls whose handlers are or were past the look-up in one
              \* list at the same time, so that their insertions may overlap

vars == <<config, running, member, call, handler, losses, cuts, clashed>>
servers == <<config, running, member>>

Idle == [pc |-> "idle"]
Status_ok == 0
Status_err == 1

-----------------------------------------------------------------------------
(* Messages: their fields in the order they are sent                       *)

Request(n, u) == << <<"name", n>>, <<"url", u>> >>
Response(n, s) == << <<"name", n>>, <<"status", s>> >>

Empty == ""
Default(field) == IF field = "status" THEN 0 ELSE Empty

\* What the receiver reads once the first k fields have arrived.
append(m, k) ==
  [f \in {m[i][1] : i \in DOMAIN m} |->
     LET i == CHOOSE j \in DOMAIN m : m[j][1] = f
     IN  IF i <= k THEN m[i][2] ELSE Default(f)]

\* k fields of m have arrived when append is called.
Arrives(m, k) ==
  \/ k = Len(m) /\ UNCHANGED cuts
  \/ k < Len(m) /\ cuts < MaxCuts /\ cuts' = cuts + 1

-----------------------------------------------------------------------------
Init ==
  /\ config = <<>>
  /\ running = {}
  /\ member = [s \in Server |-> <<>>]
  /\ call = [c \in Call |-> Idle]
  /\ handler = [c \in Call |-> Idle]
  /\ losses = 0 /\ cuts = 0
  /\ clashed = {}

start(s) ==
  /\ s \notin running
  /\ \A c \in Call : handler[c].pc = "insert" => handler[c].server # s
  /\ running' = running \cup {s}
  /\ UNCHANGED <<config, member, call, handler, losses, cuts, clashed>>

\* The listener is closed; handlers at work finish.  The list is kept.
stop(s) ==
  /\ s \in running
  /\ running' = running \ {s}
  /\ UNCHANGED <<config, member, call, handler, losses, cuts, clashed>>

load_config(f, s) ==
  /\ config' = [x \in DOMAIN config \cup {f} |-> IF x = f THEN s ELSE config[x]]
  /\ UNCHANGED <<running, member, call, handler, losses, cuts, clashed>>

\* register_datasource waits for the exchange; -1 without a configuration.
register_datasource(c, n, u, f) ==
  /\ call[c] = Idle
  /\ call' = [call EXCEPT ![c] =
       IF f \notin DOMAIN config
       THEN [pc |-> "over", name |-> n, url |-> u, sym |-> -1]
       ELSE [pc |-> "sent", name |-> n, url |-> u, server |-> config[f]]]
  /\ UNCHANGED <<servers, handler, losses, cuts, clashed>>

Return(c, sym) ==
  call' = [call EXCEPT ![c] = [pc |-> "over", name |-> call[c].name, url |-> call[c].url,
                               server |-> call[c].server, sym |-> sym]]

Entering(c, s) == {d \in Call \ {c} : handler[d].pc = "insert" /\ handler[d].server = s}

-----------------------------------------------------------------------------
(* process: a name that is listed is refused, another one is entered.      *)

FaultyLookUp(c, k) ==  \* the list is not asked
  /\ call[c].pc = "sent" /\ handler[c] = Idle
  /\ call[c].server \in running
  /\ Arrives(Request(call[c].name, call[c].url), k)
  /\ handler' = [handler EXCEPT ![c] =
       [pc |-> "insert", server |-> call[c].server,
        req |-> append(Request(call[c].name, call[c].url), k)]]
  /\ UNCHANGED <<servers, call, losses, clashed>>
LookUp(c, k) ==
  /\ call[c].pc = "sent" /\ handler[c] = Idle
  /\ LET s   == call[c].server
         m   == Request(call[c].name, call[c].url)
         req == append(m, k)
     IN  /\ s \in running
         /\ Arrives(m, k)
         /\ IF req.name \in DOMAIN member[s]
            THEN /\ handler' = [handler EXCEPT ![c] =
                       [pc |-> "reply", resp |-> Response(req.name, Status_err)]]
                 /\ UNCHANGED clashed
            ELSE /\ handler' = [handler EXCEPT ![c] =
                       [pc |-> "insert", server |-> s, req |-> req]]
                 /\ clashed' = IF Entering(c, s) = {} THEN clashed
                               ELSE clashed \cup Entering(c, s) \cup {c}
  /\ UNCHANGED <<servers, call, losses>>

\* std::map::insert keeps an entry that has come in the meantime.
add_datasource(list, n, u) ==
  [x \in DOMAIN list \cup {n} |-> IF x \in DOMAIN list THEN list[x] ELSE u]

\* Where insertions may overlap, any entries may be lost.
Enter(c) ==
  /\ handler[c].pc = "insert"
  /\ LET s    == handler[c].server
         n    == handler[c].req.name
         list == add_datasource(member[s], n, handler[c].req.url)
     IN  /\ \E kept \in SUBSET DOMAIN list :
              /\ c \notin clashed => kept = DOMAIN list
              /\ member' = [member EXCEPT ![s] = [x \in kept |-> list[x]]]
         /\ handler' = [handler EXCEPT ![c] =
              [pc |-> "reply", resp |-> Response(n, Status_ok)]]
  /\ UNCHANGED <<config, running, call, losses, cuts, clashed>>

-----------------------------------------------------------------------------
(* The callback of register_datasource                                     *)

FaultySymbol(resp, n) ==  \* the name is not compared
  IF resp.status # Status_ok THEN 3 ELSE 0
Symbol(resp, n) ==
  IF resp.name # n THEN 2 ELSE IF resp.status # Status_ok THEN 3 ELSE 0

FaultyRecvReply(c, k) ==  \* wait_group.done is left out where the name differs
  /\ call[c].pc = "sent" /\ handler[c].pc = "reply"
  /\ Arrives(handler[c].resp, k)
  /\ IF append(handler[c].resp, k).name # call[c].name
     THEN call' = [call EXCEPT ![c].pc = "waiting"]
     ELSE Return(c, Symbol(append(handler[c].resp, k), call[c].name))
  /\ UNCHANGED <<servers, handler, losses, clashed>>
RecvReply(c, k) ==
  /\ call[c].pc = "sent" /\ handler[c].pc = "reply"
  /\ Arrives(handler[c].resp, k)
  /\ Return(c, Symbol(append(handler[c].resp, k), call[c].name))
  /\ UNCHANGED <<servers, handler, losses, clashed>>

\* The exchange fails and is not tried again (retry_max 0).  A handler that
\* is at work goes on.
Fail(c) ==
  /\ call[c].pc = "sent"
  /\ \/ losses < MaxLosses /\ losses' = losses + 1
     \/ handler[c] = Idle /\ call[c].server \notin running /\ UNCHANGED losses
  /\ Return(c, 1)
  /\ UNCHANGED <<servers, handler, cuts, clashed>>

Exchange(c) ==
  \/ \E k \in 0..2 : LookUp(c, k) \/ RecvReply(c, k)
  \/ Enter(c)
  \/ Fail(c)

Next ==
  \/ \E s \in Server : start(s) \/ stop(s)
  \/ \E f \in Config, s \in Server : load_config(f, s)
  \/ \E c \in Call, n \in Name, u \in Url, f \in Config : register_datasource(c, n, u, f)
  \/ \E c \in Call : Exchange(c)

Spec == Init /\ [][Next]_vars

\* The library carries on with every exchange and ends those that fail.
FairSpec == Spec /\ \A c \in Call : WF_vars(Exchange(c))

-----------------------------------------------------------------------------
(* Properties                                                              *)

TypeOK ==
  /\ DOMAIN config \subseteq Config
  /\ running \subseteq Server
  /\ \A s \in Server : \A n \in DOMAIN member[s] :
       n \in Name \cup {Empty} /\ member[s][n] \in Url \cup {Empty}
  /\ \A c \in Call : call[c].pc \in {"idle", "sent", "over"}
  /\ \A c \in Call : call[c].pc = "over" => call[c].sym \in {-1, 0, 1, 2, 3}
  /\ \A c \in Call : handler[c].pc \in {"idle", "insert", "reply"}
  /\ losses \in 0..MaxLosses /\ cuts \in 0..MaxCuts

Answered(c, sym) == call[c].pc = "over" /\ call[c].sym = sym

\* Servers whose list two handlers were about to change at the same time.
Troubled == {call[c].server : c \in clashed}

Mine(c) ==
  Answered(c, 0) => LET list == member[call[c].server]
                    IN  call[c].name \in DOMAIN list /\ list[call[c].name] = call[c].url

\* Whoever is told that a name is registered, by this call (0) or before it
\* (3), finds it in the server's list, whatever was lost or cut, and the
\* call that registered it finds its own endpoint where nothing was cut,
\* until handlers are at that list at the same time.
ToldMeansListed ==
  \A c \in Call :
    (Answered(c, 0) \/ Answered(c, 3)) /\ call[c].server \notin Troubled
    => /\ call[c].name \in DOMAIN member[call[c].server]
       /\ cuts = 0 => Mine(c)

\* As a user sees it: the handler decides when it refuses a name or enters
\* it, and the server is spoiled by handlers that clash and by cut messages.
OnWire(c) == call[c].pc = "sent" \/ (call[c].pc = "over" /\ call[c].sym # -1)
AskedView ==
  [c \in Call |-> IF OnWire(c) THEN <<call[c].server, call[c].name, call[c].url>> ELSE <<>>]
VerdictView ==
  [c \in Call |-> IF handler[c].pc # "reply" THEN "none"
                  ELSE IF handler[c].resp[2][2] = Status_ok THEN "entered" ELSE "refused"]
ToldView ==
  [c \in Call |-> IF ~OnWire(c) \/ call[c].pc = "sent" THEN "none"
                  ELSE IF call[c].sym = 0 THEN "entered"
                  ELSE IF call[c].sym = 3 THEN "refused" ELSE "unknown"]
SpoiledView == IF cuts > 0 THEN Server ELSE Troubled

List == INSTANCE SourceList
          WITH list <- member, asked <- AskedView, verdict <- VerdictView,
               told <- ToldView, spoiled <- SpoiledView

\* The two steps of a handler, the messages and the failures look to the
\* recorders like a list that decides on one registration at a time, at
\* every server where no two handlers have met.
ImplementsSourceList == List!Spec

\* Every path of the callback ends the wait of register_datasource.
RegisterReturns == \A c \in Call : (call[c].pc = "sent") ~> (call[c].pc = "over")

\* nvr/datasource/test_datasource_registry.cc:50 expects the endpoint that
\* was registered under the name.
MineListed == \A c \in Call : Mine(c)

\* An endpoint in the list is one that some call has registered under this
\* name (the same expectation of the test).
EntriesAsSent ==
  \A s \in Server : \A n \in DOMAIN member[s] :
    \E c \in Call : call[c].pc # "idle" /\ call[c].name = n /\ call[c].url = member[s][n]
=============================================================================
