-------------------------- MODULE DataSourceProofs --------------------------
(* Theorems about DataSource and SourceList, for any sets of servers,      *)
(* configurations, names, addresses and calls and any bounds.              *)
EXTENDS DataSource, TLAPS

-----------------------------------------------------------------------------
(* Messages                                                                *)

\* What is read of a message of two fields of which k have arrived.
LEMMA FieldsRead ==
  ASSUME NEW m, DOMAIN m = 1..2, m[1][1] # m[2][1], NEW k \in 0..2
  PROVE  /\ append(m, k)[m[1][1]] = IF 1 <= k THEN m[1][2] ELSE Default(m[1][1])
         /\ append(m, k)[m[2][1]] = IF 2 <= k THEN m[2][2] ELSE Default(m[2][1])
<1> DEFINE at(f) == CHOOSE j \in DOMAIN m : m[j][1] = f
<1>1. {m[i][1] : i \in DOMAIN m} = {m[1][1], m[2][1]}
  OBVIOUS
<1>2. ASSUME NEW i \in 1..2
      PROVE  at(m[i][1]) = i
  <2>1. at(m[i][1]) \in DOMAIN m /\ m[at(m[i][1])][1] = m[i][1]
    BY <1>2
  <2> HIDE DEF at
  <2> QED BY <1>2, <2>1
<1>3. append(m, k) =
        [f \in {m[1][1], m[2][1]} |-> IF at(f) <= k THEN m[at(f)][2] ELSE Default(f)]
  BY <1>1 DEF append
<1> HIDE DEF at
<1> QED BY <1>2, <1>3

LEMMA RequestRead ==
  ASSUME NEW n, NEW u, NEW k \in 0..2
  PROVE  /\ Len(Request(n, u)) = 2
         /\ append(Request(n, u), k).name \in {n, Empty}
         /\ append(Request(n, u), k).url \in {u, Empty}
         /\ k = 2 => /\ append(Request(n, u), k).name = n
                     /\ append(Request(n, u), k).url = u
<1>1. "name" # "url" /\ Default("name") = Empty /\ Default("url") = Empty
  BY DEF Default
<1> DEFINE m == Request(n, u)
<1>2. /\ DOMAIN m = 1..2 /\ Len(m) = 2
      /\ m[1][1] = "name" /\ m[1][2] = n /\ m[2][1] = "url" /\ m[2][2] = u
  BY DEF Request
<1> HIDE DEF m
<1>3. /\ append(m, k)[m[1][1]] = IF 1 <= k THEN m[1][2] ELSE Default(m[1][1])
      /\ append(m, k)[m[2][1]] = IF 2 <= k THEN m[2][2] ELSE Default(m[2][1])
  BY <1>1, <1>2, FieldsRead
<1>4. append(m, k).name \in {n, Empty} /\ (k = 2 => append(m, k).name = n)
  BY <1>1, <1>2, <1>3
<1>5. append(m, k).url \in {u, Empty} /\ (k = 2 => append(m, k).url = u)
  BY <1>1, <1>2, <1>3
<1> QED BY <1>2, <1>4, <1>5 DEF m

LEMMA ResponseRead ==
  ASSUME NEW n, NEW st, NEW k \in 0..2
  PROVE  /\ Len(Response(n, st)) = 2
         /\ append(Response(n, st), k).name \in {n, Empty}
         /\ append(Response(n, st), k).status \in {st, 0}
         /\ k = 2 => /\ append(Response(n, st), k).name = n
                     /\ append(Response(n, st), k).status = st
<1>1. "name" # "status" /\ Default("name") = Empty /\ Default("status") = 0
  BY DEF Default
<1> DEFINE m == Response(n, st)
<1>2. /\ DOMAIN m = 1..2 /\ Len(m) = 2
      /\ m[1][1] = "name" /\ m[1][2] = n /\ m[2][1] = "status" /\ m[2][2] = st
  BY DEF Response
<1> HIDE DEF m
<1>3. /\ append(m, k)[m[1][1]] = IF 1 <= k THEN m[1][2] ELSE Default(m[1][1])
      /\ append(m, k)[m[2][1]] = IF 2 <= k THEN m[2][2] ELSE Default(m[2][1])
  BY <1>1, <1>2, FieldsRead
<1>4. append(m, k).name \in {n, Empty} /\ (k = 2 => append(m, k).name = n)
  BY <1>1, <1>2, <1>3
<1>5. append(m, k).status \in {st, 0} /\ (k = 2 => append(m, k).status = st)
  BY <1>1, <1>2, <1>3
<1> QED BY <1>2, <1>4, <1>5 DEF m

-----------------------------------------------------------------------------
(* The state                                                               *)

\* Calls that have sent a request.
Exchanged ==
  [pc : {"sent"}, name : Name, url : Url, server : Server]
  \cup [pc : {"over"}, name : Name, url : Url, server : Server, sym : 0..3]
CallState == {Idle} \cup [pc : {"over"}, name : Name, url : Url, sym : {-1}] \cup Exchanged

\* Requests and responses as they are read and sent.
Requests == {append(Request(n, u), k) : n \in Name, u \in Url, k \in 0..2}
Responses == {Response(n, st) : n \in Name \cup {Empty}, st \in {Status_ok, Status_err}}
HandlerState ==
  {Idle} \cup [pc : {"insert"}, server : Server, req : Requests]
         \cup [pc : {"reply"}, resp : Responses]

IsList(l) == DOMAIN l \subseteq Name \cup {Empty} /\ l \in [DOMAIN l -> Url \cup {Empty}]

\* TypeOK with the records of the calls and of the handlers.
TypeInv ==
  /\ DOMAIN config \subseteq Config /\ config \in [DOMAIN config -> Server]
  /\ running \subseteq Server
  /\ member = [s \in Server |-> member[s]] /\ \A s \in Server : IsList(member[s])
  /\ call \in [Call -> CallState]
  /\ handler \in [Call -> HandlerState]
  /\ losses \in 0..MaxLosses /\ cuts \in 0..MaxCuts
  /\ clashed \subseteq Call

\* A handler works on the request of its call.  What was cut of it is empty.
OwnRequest(c) ==
  /\ call[c] \in Exchanged
  /\ handler[c].pc = "insert" =>
       /\ handler[c].server = call[c].server
       /\ handler[c].req.name \in {call[c].name, Empty}
       /\ cuts = 0 => handler[c].req.name = call[c].name /\ handler[c].req.url = call[c].url
  /\ handler[c].pc = "reply" =>
       /\ handler[c].resp[1][2] \in {call[c].name, Empty}
       /\ cuts = 0 => handler[c].resp[1][2] = call[c].name

\* Handlers that enter names in one list at the same time have clashed.
HandlerInv ==
  /\ \A c \in Call : handler[c] # Idle => OwnRequest(c)
  /\ \A c \in clashed : handler[c] # Idle
  /\ \A c, d \in Call : /\ c # d /\ handler[c].pc = "insert" /\ handler[d].pc = "insert"
                        /\ handler[c].server = handler[d].server
                        => c \in clashed

\* The list of the server that a call is about.
ListOf(c) == member[call[c].server]

\* The calls at servers where no handlers have met.
Calm == {c \in Call : call[c].server \notin Troubled}

\* At such a server a handler has entered the name, or found it, by the
\* time it replies, and so has the call that was told so.
ListedInv ==
  \A c \in Calm :
    /\ handler[c].pc = "reply" /\ handler[c].resp[1][2] = call[c].name
         => call[c].name \in DOMAIN ListOf(c)
    /\ Answered(c, 0) \/ Answered(c, 3) => call[c].name \in DOMAIN ListOf(c)

\* While no message is cut, the name such a handler is about to enter is
\* still free, the entry of one that has entered it is its own, and a call
\* is told 0 by such a handler only.
OwnEntry(c) ==
  /\ handler[c].pc = "insert" => call[c].name \notin DOMAIN ListOf(c)
  /\ handler[c].pc = "reply" /\ handler[c].resp[2][2] = Status_ok
       => call[c].name \in DOMAIN ListOf(c) /\ ListOf(c)[call[c].name] = call[c].url
  /\ Answered(c, 0) => handler[c].pc = "reply" /\ handler[c].resp[2][2] = Status_ok
OwnInv == cuts = 0 => \A c \in Calm : OwnEntry(c)

LEMMA CallShape ==
  ASSUME TypeInv, NEW c \in Call
  PROVE  /\ call[c].pc \in {"idle", "sent", "over"}
         /\ call[c].pc = "idle" <=> call[c] = Idle
         /\ call[c].pc = "sent" => call[c] \in Exchanged
         /\ call[c].pc = "over" => call[c].sym \in {-1, 0, 1, 2, 3}
         /\ call[c].pc = "over" /\ call[c].sym # -1 => call[c] \in Exchanged
         /\ call[c] \in Exchanged =>
              /\ call[c].pc = "sent" \/ (call[c].pc = "over" /\ call[c].sym # -1)
              /\ call[c].name \in Name /\ call[c].url \in Url /\ call[c].server \in Server
<1>1. call[c] \in CallState
  BY DEF TypeInv
<1> QED BY <1>1 DEF CallState, Exchanged, Idle

LEMMA HandlerShape ==
  ASSUME TypeInv, NEW c \in Call
  PROVE  /\ handler[c].pc \in {"idle", "insert", "reply"}
         /\ handler[c].pc = "idle" <=> handler[c] = Idle
         /\ handler[c].pc = "insert" =>
              handler[c].server \in Server /\ handler[c].req \in Requests
         /\ handler[c].pc = "reply" => handler[c].resp \in Responses
<1>1. handler[c] \in HandlerState
  BY DEF TypeInv
<1> QED BY <1>1 DEF HandlerState, Idle

LEMMA RequestFields ==
  ASSUME NEW r \in Requests
  PROVE  r.name \in Name \cup {Empty} /\ r.url \in Url \cup {Empty}
<1>1. PICK n \in Name, u \in Url, k \in 0..2 : r = append(Request(n, u), k)
  BY DEF Requests
<1> QED BY <1>1, RequestRead

LEMMA ResponseFields ==
  ASSUME NEW r \in Responses
  PROVE  /\ r[1][2] \in Name \cup {Empty} /\ r[2][2] \in {Status_ok, Status_err}
         /\ r = Response(r[1][2], r[2][2])
<1>1. PICK n \in Name \cup {Empty}, st \in {Status_ok, Status_err} : r = Response(n, st)
  BY DEF Responses
<1>2. r[1][2] = n /\ r[2][2] = st
  BY <1>1 DEF Response
<1> QED BY <1>1, <1>2

\* The first fields of a message arrive, or all of them.
LEMMA ArrivesEffect ==
  ASSUME NEW m, Len(m) = 2, NEW k \in 0..2, Arrives(m, k), cuts \in 0..MaxCuts
  PROVE  /\ cuts' \in 0..MaxCuts /\ cuts <= cuts'
         /\ cuts' = 0 => cuts = 0 /\ k = 2
BY DataSourceAssumption DEF Arrives

-----------------------------------------------------------------------------
(* What the steps of an exchange do                                        *)

LEMMA LookUpEffect ==
  ASSUME TypeInv, HandlerInv, NEW c \in Call, NEW k \in 0..2, LookUp(c, k)
  PROVE  /\ UNCHANGED <<config, running, member, call, losses>>
         /\ call[c] \in Exchanged /\ call[c].pc = "sent" /\ handler[c] = Idle
         /\ cuts' \in 0..MaxCuts /\ cuts <= cuts'
         /\ \E r \in Requests :
              /\ r.name \in {call[c].name, Empty}
              /\ cuts' = 0 => r.name = call[c].name /\ r.url = call[c].url
              /\ \/ /\ r.name \in DOMAIN ListOf(c)
                    /\ handler' = [handler EXCEPT ![c] =
                          [pc |-> "reply", resp |-> Response(r.name, Status_err)]]
                    /\ clashed' = clashed
                 \/ /\ r.name \notin DOMAIN ListOf(c)
                    /\ handler' = [handler EXCEPT ![c] =
                          [pc |-> "insert", server |-> call[c].server, req |-> r]]
                    /\ clashed' = IF Entering(c, call[c].server) = {} THEN clashed
                                  ELSE clashed \cup Entering(c, call[c].server) \cup {c}
<1> DEFINE m == Request(call[c].name, call[c].url)
           r == append(m, k)
<1>1. /\ UNCHANGED <<config, running, member, call, losses>>
      /\ call[c].pc = "sent" /\ handler[c] = Idle /\ Arrives(m, k)
  BY DEF LookUp, servers
<1>2. call[c] \in Exchanged /\ call[c].name \in Name /\ call[c].url \in Url
  BY <1>1, CallShape
<1>3. /\ Len(m) = 2
      /\ r.name \in {call[c].name, Empty}
      /\ k = 2 => r.name = call[c].name /\ r.url = call[c].url
  BY RequestRead
<1>4. /\ cuts' \in 0..MaxCuts /\ cuts <= cuts'
      /\ cuts' = 0 => cuts = 0 /\ k = 2
  <2> HIDE DEF m
  <2> QED BY <1>1, <1>3, ArrivesEffect DEF TypeInv
<1>5. r \in Requests
  BY <1>2 DEF Requests
<1>6. \/ /\ r.name \in DOMAIN ListOf(c)
         /\ handler' = [handler EXCEPT ![c] =
               [pc |-> "reply", resp |-> Response(r.name, Status_err)]]
         /\ clashed' = clashed
      \/ /\ r.name \notin DOMAIN ListOf(c)
         /\ handler' = [handler EXCEPT ![c] =
               [pc |-> "insert", server |-> call[c].server, req |-> r]]
         /\ clashed' = IF Entering(c, call[c].server) = {} THEN clashed
                       ELSE clashed \cup Entering(c, call[c].server) \cup {c}
  BY DEF LookUp, ListOf
<1> HIDE DEF r, m
<1>7. /\ r.name \in {call[c].name, Empty}
      /\ cuts' = 0 => r.name = call[c].name /\ r.url = call[c].url
  BY <1>3, <1>4
<1> QED BY <1>1, <1>2, <1>4, <1>5, <1>6, <1>7

\* What insert leaves of a list.
LEMMA AddEffect ==
  ASSUME NEW l, IsList(l), NEW n \in Name \cup {Empty}, NEW u \in Url \cup {Empty}
  PROVE  /\ IsList(add_datasource(l, n, u))
         /\ DOMAIN add_datasource(l, n, u) = DOMAIN l \cup {n}
         /\ \A x \in DOMAIN l : add_datasource(l, n, u)[x] = l[x]
         /\ n \notin DOMAIN l => add_datasource(l, n, u)[n] = u
BY DEF IsList, add_datasource

LEMMA EnterEffect ==
  ASSUME TypeInv, HandlerInv, NEW c \in Call, Enter(c)
  PROVE  /\ UNCHANGED <<config, running, call, losses, cuts, clashed>>
         /\ handler[c].pc = "insert" /\ OwnRequest(c)
         /\ handler' = [handler EXCEPT ![c] =
               [pc |-> "reply", resp |-> Response(handler[c].req.name, Status_ok)]]
         /\ LET l == add_datasource(ListOf(c), handler[c].req.name, handler[c].req.url)
            IN  \E kept \in SUBSET DOMAIN l :
                  /\ c \notin clashed => kept = DOMAIN l
                  /\ member' = [member EXCEPT ![call[c].server] = [x \in kept |-> l[x]]]
<1>1. /\ UNCHANGED <<config, running, call, losses, cuts, clashed>>
      /\ handler[c].pc = "insert"
      /\ handler' = [handler EXCEPT ![c] =
            [pc |-> "reply", resp |-> Response(handler[c].req.name, Status_ok)]]
  BY DEF Enter
<1>2. OwnRequest(c) /\ handler[c].server = call[c].server
  BY <1>1 DEF HandlerInv, OwnRequest, Idle
<1> QED BY <1>1, <1>2 DEF Enter, ListOf

LEMMA RecvReplyEffect ==
  ASSUME TypeInv, HandlerInv, NEW c \in Call, NEW k \in 0..2, RecvReply(c, k)
  PROVE  /\ UNCHANGED <<config, running, member, handler, losses, clashed>>
         /\ cuts' \in 0..MaxCuts /\ cuts <= cuts'
         /\ call[c].pc = "sent" /\ handler[c].pc = "reply" /\ OwnRequest(c)
         /\ \E sym \in {0, 2, 3} :
              /\ Return(c, sym)
              /\ sym # 2 => handler[c].resp[1][2] = call[c].name
              /\ cuts' = 0 => /\ cuts = 0
                              /\ handler[c].resp[2][2] = Status_ok => sym = 0
                              /\ handler[c].resp[2][2] # Status_ok => sym = 3
<1> DEFINE n == handler[c].resp[1][2]
           st == handler[c].resp[2][2]
           r == append(handler[c].resp, k)
           sym == Symbol(r, call[c].name)
<1>1. /\ UNCHANGED <<config, running, member, handler, losses, clashed>>
      /\ call[c].pc = "sent" /\ handler[c].pc = "reply" /\ Arrives(handler[c].resp, k)
      /\ Return(c, sym)
  BY DEF RecvReply, servers
<1>2. OwnRequest(c) /\ handler[c].resp \in Responses /\ call[c].name \in Name
  BY <1>1, CallShape, HandlerShape DEF HandlerInv, Idle
<1>3. handler[c].resp = Response(n, st) /\ st \in {Status_ok, Status_err}
  BY <1>2, ResponseFields
<1>4. /\ Len(handler[c].resp) = 2
      /\ r.name \in {n, Empty} /\ (k = 2 => r.name = n /\ r.status = st)
  <2> HIDE DEF n, st
  <2>1. /\ Len(Response(n, st)) = 2
        /\ append(Response(n, st), k).name \in {n, Empty}
        /\ k = 2 => /\ append(Response(n, st), k).name = n
                    /\ append(Response(n, st), k).status = st
    BY ResponseRead
  <2> QED BY <1>3, <2>1
<1>5. /\ cuts' \in 0..MaxCuts /\ cuts <= cuts'
      /\ cuts' = 0 => cuts = 0 /\ k = 2
  BY <1>1, <1>4, ArrivesEffect DEF TypeInv
<1>6. n \in {call[c].name, Empty} /\ (cuts = 0 => n = call[c].name)
  BY <1>1, <1>2 DEF OwnRequest
<1> HIDE DEF r, n, st
<1>7. /\ sym \in {0, 2, 3}
      /\ sym # 2 => n = call[c].name
      /\ cuts' = 0 => /\ cuts = 0
                      /\ st = Status_ok => sym = 0
                      /\ st # Status_ok => sym = 3
  BY <1>4, <1>5, <1>6 DEF Symbol, Status_ok
<1> HIDE DEF sym
<1> QED BY <1>1, <1>2, <1>5, <1>7 DEF n, st

\* A call that returns keeps what it was about.
LEMMA ReturnEffect ==
  ASSUME TypeInv, NEW c \in Call, call[c] \in Exchanged, NEW sym \in 0..3, Return(c, sym)
  PROVE  /\ call' \in [Call -> CallState]
         /\ call'[c] \in Exchanged /\ call'[c].pc = "over" /\ call'[c].sym = sym
         /\ call'[c].name = call[c].name /\ call'[c].url = call[c].url
         /\ call'[c].server = call[c].server
         /\ \A d \in Call \ {c} : call'[d] = call[d]
<1> DEFINE r == [pc |-> "over", name |-> call[c].name, url |-> call[c].url,
                 server |-> call[c].server, sym |-> sym]
<1>1. call[c].name \in Name /\ call[c].url \in Url /\ call[c].server \in Server
  BY CallShape
<1>2. r \in Exchanged
  BY <1>1 DEF Exchanged
<1>3. r \in CallState
  BY <1>2 DEF CallState
<1>4. call' = [call EXCEPT ![c] = r] /\ call \in [Call -> CallState]
  BY DEF Return, TypeInv
<1>5. call'[c] = r /\ call' \in [Call -> CallState] /\ \A d \in Call \ {c} : call'[d] = call[d]
  BY <1>3, <1>4
<1> QED BY <1>2, <1>5

\* The handler of one call changes.
LEMMA HandlerEffect ==
  ASSUME TypeInv, NEW c \in Call, NEW h \in HandlerState, handler' = [handler EXCEPT ![c] = h]
  PROVE  /\ handler' \in [Call -> HandlerState]
         /\ handler'[c] = h
         /\ \A d \in Call \ {c} : handler'[d] = handler[d]
BY DEF TypeInv

-----------------------------------------------------------------------------
(* Every step keeps the invariants                                         *)

SourceInv == TypeInv /\ HandlerInv /\ ListedInv /\ OwnInv

\* A server that is troubled stays so.
LEMMA CalmBefore ==
  ASSUME clashed \subseteq clashed', \A d \in clashed : call'[d].server = call[d].server
  PROVE  Calm' \subseteq Call /\ \A d \in Calm' : call'[d].server = call[d].server => d \in Calm
BY DEF Calm, Troubled

\* A call that starts has no handler yet.
LEMMA RegisterStep ==
  ASSUME SourceInv, NEW c \in Call, NEW n \in Name, NEW u \in Url, NEW f \in Config,
         register_datasource(c, n, u, f)
  PROVE  SourceInv'
<1>1. /\ TypeInv /\ HandlerInv /\ ListedInv /\ OwnInv
      /\ UNCHANGED <<config, running, member, handler, losses, cuts, clashed>>
      /\ call[c] = Idle
  BY DEF SourceInv, register_datasource, servers
<1>2. handler[c] = Idle /\ c \notin clashed
  BY <1>1, CallShape DEF HandlerInv, OwnRequest
<1>3. PICK r \in [pc : {"over"}, name : Name, url : Url, sym : {-1}]
                 \cup [pc : {"sent"}, name : Name, url : Url, server : Server] :
        call' = [call EXCEPT ![c] = r]
  <2>1. f \in DOMAIN config => config[f] \in Server
    BY <1>1 DEF TypeInv
  <2>2. CASE f \notin DOMAIN config
    <3>1. call' = [call EXCEPT ![c] = [pc |-> "over", name |-> n, url |-> u, sym |-> -1]]
      BY <2>2 DEF register_datasource
    <3>2. [pc |-> "over", name |-> n, url |-> u, sym |-> -1]
            \in [pc : {"over"}, name : Name, url : Url, sym : {-1}]
      OBVIOUS
    <3> QED BY <3>1, <3>2
  <2>3. CASE f \in DOMAIN config
    <3>1. call' = [call EXCEPT ![c] =
                     [pc |-> "sent", name |-> n, url |-> u, server |-> config[f]]]
      BY <2>3 DEF register_datasource
    <3>2. [pc |-> "sent", name |-> n, url |-> u, server |-> config[f]]
            \in [pc : {"sent"}, name : Name, url : Url, server : Server]
      BY <2>1, <2>3
    <3> QED BY <3>1, <3>2
  <2> QED BY <2>2, <2>3
<1>4. r \in CallState /\ (r.pc = "sent" \/ r.sym = -1) /\ r.pc \in {"sent", "over"}
  BY DEF CallState, Exchanged
<1>5. call' \in [Call -> CallState] /\ call'[c] = r /\ \A d \in Call \ {c} : call'[d] = call[d]
  BY <1>1, <1>3, <1>4 DEF TypeInv
<1>6. TypeInv'
  BY <1>1, <1>5 DEF TypeInv
<1>7. HandlerInv'
  BY <1>1, <1>2, <1>5 DEF HandlerInv, OwnRequest
<1>8. ~Answered(c, 0)' /\ ~Answered(c, 3)' /\ handler'[c].pc = "idle"
  BY <1>1, <1>2, <1>4, <1>5 DEF Answered, Idle
<1>calm. Calm' \subseteq Call /\ Calm' \ {c} \subseteq Calm
  <2>1. \A d \in clashed : call'[d].server = call[d].server
    BY <1>1, <1>2, <1>5 DEF TypeInv
  <2> QED BY <1>1, <1>5, <2>1, CalmBefore
<1>9. ListedInv'
  BY <1>1, <1>5, <1>8, <1>calm DEF ListedInv, ListOf, Answered
<1>10. OwnInv'
  BY <1>1, <1>5, <1>8, <1>calm DEF OwnInv, OwnEntry, ListOf, Answered
<1> QED BY <1>6, <1>7, <1>9, <1>10 DEF SourceInv

LEMMA LookUpStep ==
  ASSUME SourceInv, NEW c \in Call, NEW k \in 0..2, LookUp(c, k)
  PROVE  SourceInv'
<1>1. /\ TypeInv /\ HandlerInv /\ ListedInv /\ OwnInv
  BY DEF SourceInv
<1>2. /\ UNCHANGED <<config, running, member, call, losses>>
      /\ call[c] \in Exchanged /\ call[c].pc = "sent" /\ handler[c] = Idle
      /\ cuts' \in 0..MaxCuts /\ cuts <= cuts'
  BY <1>1, LookUpEffect
<1>3. PICK r \in Requests :
        /\ r.name \in {call[c].name, Empty}
        /\ cuts' = 0 => r.name = call[c].name /\ r.url = call[c].url
        /\ \/ /\ r.name \in DOMAIN ListOf(c)
              /\ handler' = [handler EXCEPT ![c] =
                    [pc |-> "reply", resp |-> Response(r.name, Status_err)]]
              /\ clashed' = clashed
           \/ /\ r.name \notin DOMAIN ListOf(c)
              /\ handler' = [handler EXCEPT ![c] =
                    [pc |-> "insert", server |-> call[c].server, req |-> r]]
              /\ clashed' = IF Entering(c, call[c].server) = {} THEN clashed
                            ELSE clashed \cup Entering(c, call[c].server) \cup {c}
  BY <1>1, LookUpEffect
<1>4. cuts' = 0 => cuts = 0
  BY <1>1, <1>2 DEF TypeInv
<1>5. c \notin clashed /\ call[c].server \in Server /\ r.name \in Name \cup {Empty}
  BY <1>1, <1>2, CallShape, RequestFields DEF HandlerInv
<1>6. CASE /\ r.name \in DOMAIN ListOf(c)
           /\ handler' = [handler EXCEPT ![c] =
                 [pc |-> "reply", resp |-> Response(r.name, Status_err)]]
           /\ clashed' = clashed
  <2> DEFINE h == [pc |-> "reply", resp |-> Response(r.name, Status_err)]
  <2>1. h \in HandlerState
    BY <1>5 DEF HandlerState, Responses
  <2>2. h.pc = "reply" /\ h.resp[1][2] = r.name /\ h.resp[2][2] = Status_err /\ h # Idle
    BY DEF Response, Idle
  <2>3. handler' = [handler EXCEPT ![c] = h]
    BY <1>6
  <2> HIDE DEF h
  <2>4. /\ handler' \in [Call -> HandlerState] /\ handler'[c] = h
        /\ \A d \in Call \ {c} : handler'[d] = handler[d]
    BY <1>1, <2>1, <2>3, HandlerEffect
  <2>5. TypeInv'
    BY <1>1, <1>2, <1>6, <2>4 DEF TypeInv
  <2>6. OwnRequest(c)'
    BY <1>2, <1>3, <2>2, <2>4 DEF OwnRequest
  <2>7. HandlerInv'
    BY <1>1, <1>2, <1>4, <1>6, <2>2, <2>4, <2>6 DEF HandlerInv, OwnRequest
  <2>calm. Calm' \subseteq Call /\ Calm' \subseteq Calm
    BY <1>2, <1>6, CalmBefore
  <2>8. ListedInv'
    BY <1>1, <1>2, <1>6, <2>2, <2>4, <2>calm DEF ListedInv, ListOf, Answered
  <2>9. OwnInv'
    BY <1>1, <1>2, <1>4, <1>6, <2>2, <2>4, <2>calm
    DEF OwnInv, OwnEntry, ListOf, Answered, Status_ok, Status_err
  <2> QED BY <2>5, <2>7, <2>8, <2>9 DEF SourceInv
<1>7. CASE /\ r.name \notin DOMAIN ListOf(c)
           /\ handler' = [handler EXCEPT ![c] =
                 [pc |-> "insert", server |-> call[c].server, req |-> r]]
           /\ clashed' = IF Entering(c, call[c].server) = {} THEN clashed
                         ELSE clashed \cup Entering(c, call[c].server) \cup {c}
  <2> DEFINE h == [pc |-> "insert", server |-> call[c].server, req |-> r]
  <2>1. h \in HandlerState
    BY <1>5 DEF HandlerState
  <2>2. h.pc = "insert" /\ h.server = call[c].server /\ h.req = r /\ h # Idle
    BY DEF Idle
  <2>3. handler' = [handler EXCEPT ![c] = h]
    BY <1>7
  <2> HIDE DEF h
  <2>4. /\ handler' \in [Call -> HandlerState] /\ handler'[c] = h
        /\ \A d \in Call \ {c} : handler'[d] = handler[d]
    BY <1>1, <2>1, <2>3, HandlerEffect
  <2>5. /\ clashed \subseteq clashed' /\ clashed' \subseteq Call
        /\ \A d \in clashed' : d \in clashed \/ handler[d].pc = "insert" \/ d = c
        /\ \A d \in Call \ {c} :
             handler[d].pc = "insert" /\ handler[d].server = call[c].server
             => d \in clashed' /\ c \in clashed'
    BY <1>1, <1>7 DEF Entering, TypeInv
  <2>6. TypeInv'
    BY <1>1, <1>2, <2>4, <2>5 DEF TypeInv
  <2>7. OwnRequest(c)'
    BY <1>2, <1>3, <2>2, <2>4 DEF OwnRequest
  <2>8. HandlerInv'
    <3>1. \A d \in Call : handler'[d] # Idle => OwnRequest(d)'
      BY <1>1, <1>2, <1>4, <2>4, <2>7 DEF HandlerInv, OwnRequest
    <3>2. \A d \in clashed' : handler'[d] # Idle
      BY <1>1, <2>2, <2>4, <2>5 DEF HandlerInv, Idle, TypeInv
    <3>3. \A d, e \in Call : /\ d # e /\ handler'[d].pc = "insert" /\ handler'[e].pc = "insert"
                             /\ handler'[d].server = handler'[e].server
                             => d \in clashed'
      BY <1>1, <2>2, <2>4, <2>5 DEF HandlerInv
    <3> QED BY <3>1, <3>2, <3>3 DEF HandlerInv
  <2>calm. Calm' \subseteq Call /\ Calm' \subseteq Calm
    BY <1>2, <2>5, CalmBefore
  <2>9. ListedInv'
    BY <1>1, <1>2, <2>2, <2>4, <2>calm DEF ListedInv, ListOf, Answered
  <2>10. OwnInv'
    BY <1>1, <1>2, <1>3, <1>4, <1>7, <2>2, <2>4, <2>calm
    DEF OwnInv, OwnEntry, ListOf, Answered
  <2> QED BY <2>6, <2>8, <2>9, <2>10 DEF SourceInv
<1> QED BY <1>3, <1>6, <1>7

\* Only one list changes.  A handler that met no other adds its name to it,
\* and an entry that is there stays.
LEMMA EnterLists ==
  ASSUME TypeInv, HandlerInv, NEW c \in Call, Enter(c)
  PROVE  /\ member' = [s \in Server |-> member'[s]] /\ \A s \in Server : IsList(member'[s])
         /\ \A s \in Server \ {call[c].server} : member'[s] = member[s]
         /\ c \notin clashed =>
              LET l == member'[call[c].server]
              IN  /\ DOMAIN l = DOMAIN ListOf(c) \cup {handler[c].req.name}
                  /\ \A n \in DOMAIN ListOf(c) : l[n] = ListOf(c)[n]
                  /\ handler[c].req.name \notin DOMAIN ListOf(c) =>
                       l[handler[c].req.name] = handler[c].req.url
<1> DEFINE s0 == call[c].server
           l == add_datasource(ListOf(c), handler[c].req.name, handler[c].req.url)
<1>1. handler[c].pc = "insert" /\ OwnRequest(c)
  BY EnterEffect
<1>2. PICK kept \in SUBSET DOMAIN l : /\ c \notin clashed => kept = DOMAIN l
                                      /\ member' = [member EXCEPT ![s0] = [x \in kept |-> l[x]]]
  BY EnterEffect
<1>3. s0 \in Server /\ handler[c].req \in Requests
  BY <1>1, CallShape, HandlerShape DEF OwnRequest
<1>4. handler[c].req.name \in Name \cup {Empty} /\ handler[c].req.url \in Url \cup {Empty}
  BY <1>3, RequestFields
<1>5. member = [s \in Server |-> member[s]] /\ \A s \in Server : IsList(member[s])
  BY DEF TypeInv
<1>6. /\ IsList(l)
      /\ DOMAIN l = DOMAIN ListOf(c) \cup {handler[c].req.name}
      /\ \A x \in DOMAIN ListOf(c) : l[x] = ListOf(c)[x]
      /\ handler[c].req.name \notin DOMAIN ListOf(c) => l[handler[c].req.name] = handler[c].req.url
  BY <1>3, <1>4, <1>5, AddEffect DEF ListOf
<1> HIDE DEF l
<1>7. IsList([x \in kept |-> l[x]])
  BY <1>2, <1>6 DEF IsList
<1>8. /\ member'[s0] = [x \in kept |-> l[x]]
      /\ \A s \in Server \ {s0} : member'[s] = member[s]
      /\ member' = [s \in Server |-> member'[s]]
  <2> HIDE DEF s0
  <2> QED BY <1>2, <1>3, <1>5
<1> QED BY <1>2, <1>5, <1>6, <1>7, <1>8

LEMMA EnterStep ==
  ASSUME SourceInv, NEW c \in Call, Enter(c)
  PROVE  SourceInv'
<1>1. /\ TypeInv /\ HandlerInv /\ ListedInv /\ OwnInv
  BY DEF SourceInv
<1> DEFINE h == [pc |-> "reply", resp |-> Response(handler[c].req.name, Status_ok)]
<1>2. /\ UNCHANGED <<config, running, call, losses, cuts, clashed>>
      /\ handler[c].pc = "insert" /\ OwnRequest(c)
      /\ handler' = [handler EXCEPT ![c] = h]
  BY <1>1, EnterEffect
<1>3. /\ call[c] \in Exchanged /\ call[c].server \in Server
      /\ handler[c].server = call[c].server /\ handler[c].req \in Requests
  BY <1>1, <1>2, CallShape, HandlerShape DEF OwnRequest
<1>4. h \in HandlerState
  BY <1>3, RequestFields DEF HandlerState, Responses
<1>5. /\ h.pc = "reply" /\ h # Idle
      /\ h.resp[1][2] = handler[c].req.name /\ h.resp[2][2] = Status_ok
  BY DEF Response, Idle
<1> HIDE DEF h
<1>6. /\ handler' \in [Call -> HandlerState] /\ handler'[c] = h
      /\ \A d \in Call \ {c} : handler'[d] = handler[d]
  BY <1>1, <1>2, <1>4, HandlerEffect
<1>7. /\ member' = [s \in Server |-> member'[s]] /\ \A s \in Server : IsList(member'[s])
      /\ \A s \in Server \ {call[c].server} : member'[s] = member[s]
      /\ c \notin clashed =>
           LET l == member'[call[c].server]
           IN  /\ DOMAIN l = DOMAIN ListOf(c) \cup {handler[c].req.name}
               /\ \A n \in DOMAIN ListOf(c) : l[n] = ListOf(c)[n]
               /\ handler[c].req.name \notin DOMAIN ListOf(c) =>
                    l[handler[c].req.name] = handler[c].req.url
  BY <1>1, EnterLists
<1>8. TypeInv'
  BY <1>1, <1>2, <1>6, <1>7 DEF TypeInv
<1>9. OwnRequest(c)'
  BY <1>2, <1>5, <1>6 DEF OwnRequest
<1>10. HandlerInv'
  BY <1>1, <1>2, <1>5, <1>6, <1>9 DEF HandlerInv, OwnRequest
<1>11. Calm' = Calm /\ (c \in Calm => c \notin clashed)
  BY <1>2 DEF Calm, Troubled
\* No call at a calm server loses its entry; this one has its own.
<1>12. ASSUME NEW d \in Calm \ {c}, call[d] \in Exchanged
       PROVE  /\ DOMAIN ListOf(d) \subseteq DOMAIN ListOf(d)'
              /\ \A n \in DOMAIN ListOf(d) : ListOf(d)'[n] = ListOf(d)[n]
  <2>1. call[d].server \in Server
    BY <1>1, <1>12, CallShape DEF Calm
  <2>2. call[d].server = call[c].server => c \notin clashed
    BY <1>12 DEF Calm, Troubled
  <2> QED BY <1>2, <1>7, <2>1, <2>2 DEF ListOf
<1>13. \A d \in Call :
         /\ handler[d].pc = "reply" \/ handler[d].pc = "insert" => call[d] \in Exchanged
         /\ Answered(d, 0) \/ Answered(d, 3) => call[d] \in Exchanged
  BY <1>1, CallShape DEF HandlerInv, OwnRequest, Answered, Idle
<1>14. ListedInv'
  <2>1. SUFFICES ASSUME NEW d \in Calm
                 PROVE  /\ handler'[d].pc = "reply" /\ handler'[d].resp[1][2] = call[d].name
                             => call[d].name \in DOMAIN ListOf(d)'
                        /\ Answered(d, 0) \/ Answered(d, 3) => call[d].name \in DOMAIN ListOf(d)'
    BY <1>2, <1>11 DEF ListedInv, Answered
  <2>2. CASE d # c
    BY <1>1, <1>6, <1>12, <1>13, <2>1, <2>2 DEF ListedInv, Calm
  <2>3. CASE d = c
    <3>1. DOMAIN ListOf(c)' = DOMAIN ListOf(c) \cup {handler[c].req.name}
      BY <1>2, <1>7, <1>11, <2>1, <2>3 DEF ListOf
    <3> QED BY <1>1, <1>5, <1>6, <2>1, <2>3, <3>1 DEF ListedInv
  <2> QED BY <2>2, <2>3
<1>15. OwnInv'
  <2>1. SUFFICES ASSUME cuts = 0, NEW d \in Calm
                 PROVE  OwnEntry(d)'
    BY <1>2, <1>11 DEF OwnInv
  <2>2. OwnEntry(d)
    BY <1>1, <2>1 DEF OwnInv
  <2>3. CASE d # c
    <3>1. ASSUME handler[d].pc = "insert"
          PROVE  ListOf(d)' = ListOf(d)
      <4>1. call[d] \in Exchanged /\ handler[d].server = call[d].server
        BY <1>1, <3>1 DEF HandlerInv, OwnRequest, Idle, Calm
      <4>2. call[d].server # call[c].server
        BY <1>1, <1>2, <1>3, <2>1, <2>3, <3>1, <4>1 DEF HandlerInv, Calm, Troubled
      <4>3. call[d].server \in Server
        BY <1>1, <4>1, CallShape DEF Calm
      <4> QED BY <1>2, <1>7, <4>2, <4>3 DEF ListOf
    <3> QED BY <1>2, <1>6, <1>12, <1>13, <2>2, <2>3, <3>1
        DEF OwnEntry, Answered, Calm
  <2>4. CASE d = c
    <3>1. handler[c].req.name = call[c].name /\ handler[c].req.url = call[c].url
      BY <1>2, <2>1 DEF OwnRequest
    <3>2. call[c].name \notin DOMAIN ListOf(c)
      BY <1>2, <2>2, <2>4 DEF OwnEntry
    <3>3. call[c].name \in DOMAIN ListOf(c)' /\ ListOf(c)'[call[c].name] = call[c].url
      BY <1>2, <1>7, <1>11, <2>1, <2>4, <3>1, <3>2 DEF ListOf
    <3> QED BY <1>2, <1>5, <1>6, <2>4, <3>3 DEF OwnEntry
  <2> QED BY <2>3, <2>4
<1> QED BY <1>8, <1>10, <1>14, <1>15 DEF SourceInv

LEMMA RecvReplyStep ==
  ASSUME SourceInv, NEW c \in Call, NEW k \in 0..2, RecvReply(c, k)
  PROVE  SourceInv'
<1>1. TypeInv /\ HandlerInv /\ ListedInv /\ OwnInv
  BY DEF SourceInv
<1>2. /\ UNCHANGED <<config, running, member, handler, losses, clashed>>
      /\ cuts' \in 0..MaxCuts /\ cuts <= cuts'
      /\ call[c].pc = "sent" /\ handler[c].pc = "reply" /\ OwnRequest(c)
  BY <1>1, RecvReplyEffect
<1>3. PICK sym \in {0, 2, 3} :
        /\ Return(c, sym)
        /\ sym # 2 => handler[c].resp[1][2] = call[c].name
        /\ cuts' = 0 => /\ cuts = 0
                        /\ handler[c].resp[2][2] = Status_ok => sym = 0
                        /\ handler[c].resp[2][2] # Status_ok => sym = 3
  BY <1>1, RecvReplyEffect
<1>4. /\ call' \in [Call -> CallState]
      /\ call'[c] \in Exchanged /\ call'[c].pc = "over" /\ call'[c].sym = sym
      /\ call'[c].name = call[c].name /\ call'[c].url = call[c].url
      /\ call'[c].server = call[c].server
      /\ \A d \in Call \ {c} : call'[d] = call[d]
  <2>1. call[c] \in Exchanged /\ sym \in 0..3
    BY <1>2 DEF OwnRequest
  <2> QED BY <1>1, <1>3, <2>1, ReturnEffect
<1>5. cuts' = 0 => cuts = 0
  BY <1>3
<1>6. TypeInv'
  BY <1>1, <1>2, <1>4 DEF TypeInv
<1>7. HandlerInv'
  <2>1. \A d \in Call : handler'[d] # Idle => OwnRequest(d)'
    BY <1>1, <1>2, <1>4, <1>5 DEF HandlerInv, OwnRequest
  <2> QED BY <1>1, <1>2, <2>1 DEF HandlerInv
<1>8. \A d \in Call : ListOf(d)' = ListOf(d) /\ call'[d].name = call[d].name
                      /\ call'[d].url = call[d].url
  BY <1>2, <1>4 DEF ListOf
<1>calm. Calm' \subseteq Call /\ Calm' \subseteq Calm
  <2>1. \A d \in Call : call'[d].server = call[d].server
    BY <1>4
  <2> QED BY <1>1, <1>2, <2>1, CalmBefore DEF TypeInv
<1>9. ListedInv'
  BY <1>1, <1>2, <1>3, <1>4, <1>8, <1>calm DEF ListedInv, Answered
<1>10. OwnInv'
  BY <1>1, <1>2, <1>3, <1>4, <1>5, <1>8, <1>calm DEF OwnInv, OwnEntry, Answered
<1> QED BY <1>6, <1>7, <1>9, <1>10 DEF SourceInv

LEMMA FailEffect ==
  ASSUME TypeInv, NEW c \in Call, Fail(c)
  PROVE  /\ UNCHANGED <<config, running, member, handler, cuts, clashed>>
         /\ call[c].pc = "sent" /\ call[c] \in Exchanged
         /\ Return(c, 1) /\ losses' \in 0..MaxLosses
<1>1. /\ UNCHANGED <<config, running, member, handler, cuts, clashed>>
      /\ call[c].pc = "sent" /\ Return(c, 1)
  BY DEF Fail, servers
<1>2. losses' \in 0..MaxLosses
  BY DataSourceAssumption DEF Fail, TypeInv
<1> QED BY <1>1, <1>2, CallShape

LEMMA FailStep ==
  ASSUME SourceInv, NEW c \in Call, Fail(c)
  PROVE  SourceInv'
<1>1. TypeInv /\ HandlerInv /\ ListedInv /\ OwnInv
  BY DEF SourceInv
<1>2. /\ UNCHANGED <<config, running, member, handler, cuts, clashed>>
      /\ call[c].pc = "sent" /\ call[c] \in Exchanged
      /\ Return(c, 1) /\ losses' \in 0..MaxLosses
  BY <1>1, FailEffect
<1>3. /\ call' \in [Call -> CallState]
      /\ call'[c] \in Exchanged /\ call'[c].pc = "over" /\ call'[c].sym = 1
      /\ call'[c].name = call[c].name /\ call'[c].url = call[c].url
      /\ call'[c].server = call[c].server
      /\ \A d \in Call \ {c} : call'[d] = call[d]
  BY <1>1, <1>2, ReturnEffect
<1>4. TypeInv'
  BY <1>1, <1>2, <1>3 DEF TypeInv
<1>5. HandlerInv'
  BY <1>1, <1>2, <1>3 DEF HandlerInv, OwnRequest
<1>6. \A d \in Call : ListOf(d)' = ListOf(d) /\ call'[d].name = call[d].name
                      /\ call'[d].url = call[d].url
  BY <1>2, <1>3 DEF ListOf
<1>calm. Calm' \subseteq Call /\ Calm' \subseteq Calm
  <2>1. \A d \in Call : call'[d].server = call[d].server
    BY <1>3
  <2> QED BY <1>1, <1>2, <2>1, CalmBefore DEF TypeInv
<1>7. ListedInv'
  BY <1>1, <1>2, <1>3, <1>6, <1>calm DEF ListedInv, Answered
<1>8. OwnInv'
  BY <1>1, <1>2, <1>3, <1>6, <1>calm DEF OwnInv, OwnEntry, Answered
<1> QED BY <1>4, <1>5, <1>7, <1>8 DEF SourceInv

LEMMA SourceStep ==
  ASSUME SourceInv, [Next]_vars
  PROVE  SourceInv'
<1>1. ASSUME NEW s \in Server, start(s) \/ stop(s)
      PROVE  SourceInv'
  BY <1>1 DEF start, stop, SourceInv, TypeInv, HandlerInv, OwnRequest, ListedInv, OwnInv,
              OwnEntry, ListOf, Answered, Calm, Troubled
<1>2. ASSUME NEW f \in Config, NEW s \in Server, load_config(f, s)
      PROVE  SourceInv'
  BY <1>2 DEF load_config, SourceInv, TypeInv, HandlerInv, OwnRequest, ListedInv, OwnInv,
              OwnEntry, ListOf, Answered, Calm, Troubled
<1>3. ASSUME UNCHANGED vars
      PROVE  SourceInv'
  BY <1>3 DEF vars, SourceInv, TypeInv, HandlerInv, OwnRequest, ListedInv, OwnInv,
              OwnEntry, ListOf, Answered, Calm, Troubled
<1> QED
  BY <1>1, <1>2, <1>3, RegisterStep, LookUpStep, EnterStep, RecvReplyStep, FailStep
  DEF Next, Exchange

LEMMA SourceInvariant == Spec => []SourceInv
<1>1. Init => SourceInv
  <2>1. SUFFICES ASSUME Init
                 PROVE  SourceInv
    OBVIOUS
  <2>2. \A s \in Server : IsList(member[s])
    <3>1. IsList(<<>>)
      BY DEF IsList
    <3> QED BY <2>1, <3>1 DEF Init
  <2>3. TypeInv
    BY <2>1, <2>2, DataSourceAssumption DEF Init, TypeInv, CallState, HandlerState
  <2>4. HandlerInv /\ ListedInv /\ OwnInv
    BY <2>1 DEF Init, HandlerInv, ListedInv, OwnInv, OwnEntry, Answered, Idle, Calm
  <2> QED BY <2>3, <2>4 DEF SourceInv
<1>2. SourceInv /\ [Next]_vars => SourceInv'
  BY SourceStep
<1> QED BY <1>1, <1>2, PTL DEF Spec

-----------------------------------------------------------------------------
(* The list that decides on one registration at a time                     *)

LEMMA Views ==
  ASSUME TypeInv, HandlerInv, NEW c \in Call
  PROVE  /\ call[c] \in Exchanged =>
              AskedView[c] = <<call[c].server, call[c].name, call[c].url>>
         /\ call[c] \notin Exchanged => AskedView[c] = <<>>
         /\ call[c].pc = "sent" => ToldView[c] = "none"
         /\ handler[c].pc # "reply" => VerdictView[c] = "none"
BY CallShape DEF AskedView, ToldView, VerdictView, OnWire

LEMMA ViewFunctions ==
  /\ VerdictView = [c \in Call |-> VerdictView[c]]
  /\ VerdictView' = [c \in Call |-> VerdictView'[c]]
  /\ ToldView = [c \in Call |-> ToldView[c]]
  /\ ToldView' = [c \in Call |-> ToldView'[c]]
BY DEF VerdictView, ToldView

\* A server that is spoiled stays so.
LEMMA SpoiledGrows ==
  ASSUME TypeInv, HandlerInv, cuts' \in Nat, cuts <= cuts', clashed \subseteq clashed',
         \A d \in clashed : call'[d].server = call[d].server
  PROVE  SpoiledView \subseteq SpoiledView'
<1>1. \A d \in clashed : call[d].server \in Server
  BY CallShape DEF HandlerInv, OwnRequest, TypeInv
<1>2. cuts > 0 => cuts' > 0
  BY DEF TypeInv
<1> QED BY <1>1, <1>2 DEF SpoiledView, Troubled

LEMMA SpoiledSame ==
  ASSUME UNCHANGED <<cuts, clashed>>, \A d \in clashed : call'[d].server = call[d].server
  PROVE  SpoiledView' = SpoiledView
BY DEF SpoiledView, Troubled

\* Whatever a step does for one call at a spoiled server is allowed.
LEMMA DisturbOne ==
  ASSUME NEW c \in Call, NEW s \in Server, AskedView[c] # <<>>, AskedView[c][1] = s,
         s \in SpoiledView', SpoiledView \subseteq SpoiledView', AskedView' = AskedView,
         member' = [t \in Server |-> member'[t]],
         \A t \in Server \ {s} : member'[t] = member[t],
         \A d \in Call \ {c} : VerdictView'[d] = VerdictView[d] /\ ToldView'[d] = ToldView[d]
  PROVE  List!Disturb
<1>1. SpoiledView' # {} /\ List!At(c, SpoiledView')
  BY DEF List!At
<1>2. member' = [t \in Server |-> IF t \in SpoiledView' THEN member'[t] ELSE member[t]]
  OBVIOUS
<1>3. VerdictView' = [d \in Call |-> IF List!At(d, SpoiledView')
                                     THEN VerdictView'[d] ELSE VerdictView[d]]
  BY <1>1, ViewFunctions
<1>4. ToldView' = [d \in Call |-> IF List!At(d, SpoiledView')
                                  THEN ToldView'[d] ELSE ToldView[d]]
  BY <1>1, ViewFunctions
<1> QED BY <1>1, <1>2, <1>3, <1>4 DEF List!Disturb

\* The views of calls that a step leaves alone.
LEMMA ViewsKept ==
  ASSUME NEW c \in Call, \A d \in Call \ {c} : call'[d] = call[d] /\ handler'[d] = handler[d]
  PROVE  \A d \in Call \ {c} : /\ AskedView'[d] = AskedView[d]
                               /\ VerdictView'[d] = VerdictView[d]
                               /\ ToldView'[d] = ToldView[d]
BY DEF AskedView, VerdictView, ToldView, OnWire

LEMMA RegisterMaps ==
  ASSUME SourceInv, NEW c \in Call, NEW n \in Name, NEW u \in Url, NEW f \in Config,
         register_datasource(c, n, u, f)
  PROVE  [List!Next]_(List!vars)
<1>1. /\ TypeInv /\ HandlerInv
      /\ UNCHANGED <<config, running, member, handler, losses, cuts, clashed>>
      /\ call[c] = Idle
  BY DEF SourceInv, register_datasource, servers
<1>2. handler[c] = Idle /\ c \notin clashed /\ call[c] \notin Exchanged
  BY <1>1, CallShape DEF HandlerInv, OwnRequest, Idle
<1> DEFINE r == IF f \notin DOMAIN config
                THEN [pc |-> "over", name |-> n, url |-> u, sym |-> -1]
                ELSE [pc |-> "sent", name |-> n, url |-> u, server |-> config[f]]
<1>3. call' = [call EXCEPT ![c] = r]
  BY DEF register_datasource
<1>4. /\ r.pc \in {"sent", "over"} /\ r.name = n /\ r.url = u
      /\ r.pc = "sent" => r.server \in Server
      /\ r.pc = "over" => r.sym = -1
  BY <1>1 DEF TypeInv
<1> HIDE DEF r
<1>5. call'[c] = r /\ \A d \in Call \ {c} : call'[d] = call[d] /\ handler'[d] = handler[d]
  BY <1>1, <1>3 DEF TypeInv
<1>6. \A d \in Call \ {c} : /\ AskedView'[d] = AskedView[d] /\ VerdictView'[d] = VerdictView[d]
                            /\ ToldView'[d] = ToldView[d]
  BY <1>5, ViewsKept
<1>7. SpoiledView' = SpoiledView
  BY <1>1, <1>2, <1>5, SpoiledSame DEF TypeInv
<1>8. VerdictView' = VerdictView
  BY <1>1 DEF VerdictView
<1>9. ToldView'[c] = "none" /\ ToldView[c] = "none"
  BY <1>1, <1>4, <1>5 DEF ToldView, OnWire, Idle
<1>10. ToldView' = ToldView
  BY <1>6, <1>9 DEF ToldView
<1>11. AskedView[c] = <<>>
  BY <1>1, <1>2, Views
<1>12. CASE r.pc = "sent"
  <2>1. AskedView'[c] = <<r.server, n, u>>
    BY <1>4, <1>5, <1>12 DEF AskedView, OnWire
  <2>2. AskedView' = [AskedView EXCEPT ![c] = <<r.server, n, u>>]
    BY <1>6, <2>1 DEF AskedView
  <2>3. List!Ask(c, r.server, n, u)
    BY <1>1, <1>7, <1>8, <1>10, <1>11, <2>2 DEF List!Ask
  <2> QED BY <1>4, <1>12, <2>3 DEF List!Next
<1>13. CASE r.pc = "over"
  <2>1. AskedView'[c] = <<>>
    BY <1>4, <1>5, <1>13 DEF AskedView, OnWire
  <2>2. AskedView' = AskedView
    BY <1>6, <1>11, <2>1 DEF AskedView
  <2> QED BY <1>1, <1>7, <1>8, <1>10, <2>2 DEF List!vars
<1> QED BY <1>4, <1>12, <1>13

\* A request is refused in one step; a handler that goes on to enter the
\* name has decided nothing, but spoils the list where it meets another.
LEMMA LookUpMaps ==
  ASSUME SourceInv, NEW c \in Call, NEW k \in 0..2, LookUp(c, k)
  PROVE  [List!Next]_(List!vars)
<1>1. TypeInv /\ HandlerInv
  BY DEF SourceInv
<1> DEFINE s == call[c].server
<1>2. /\ UNCHANGED <<config, running, member, call, losses>>
      /\ call[c] \in Exchanged /\ call[c].pc = "sent" /\ handler[c] = Idle
      /\ cuts' \in 0..MaxCuts /\ cuts <= cuts'
  BY <1>1, LookUpEffect
<1>3. PICK r \in Requests :
        /\ r.name \in {call[c].name, Empty}
        /\ cuts' = 0 => r.name = call[c].name /\ r.url = call[c].url
        /\ \/ /\ r.name \in DOMAIN ListOf(c)
              /\ handler' = [handler EXCEPT ![c] =
                    [pc |-> "reply", resp |-> Response(r.name, Status_err)]]
              /\ clashed' = clashed
           \/ /\ r.name \notin DOMAIN ListOf(c)
              /\ handler' = [handler EXCEPT ![c] =
                    [pc |-> "insert", server |-> call[c].server, req |-> r]]
              /\ clashed' = IF Entering(c, call[c].server) = {} THEN clashed
                            ELSE clashed \cup Entering(c, call[c].server) \cup {c}
  BY <1>1, LookUpEffect
<1>4. /\ s \in Server /\ call[c].name \in Name /\ call[c].url \in Url
      /\ AskedView[c] = <<s, call[c].name, call[c].url>>
      /\ VerdictView[c] = "none"
  BY <1>1, <1>2, CallShape, Views DEF Idle
<1>5. AskedView' = AskedView /\ ToldView' = ToldView
  BY <1>2 DEF AskedView, ToldView, OnWire
<1>6. member' = [t \in Server |-> member'[t]]
  BY <1>1, <1>2 DEF TypeInv
<1>7. \A d \in Call \ {c} : handler'[d] = handler[d]
  BY <1>1, <1>3 DEF TypeInv
<1>8. \A d \in Call \ {c} : VerdictView'[d] = VerdictView[d]
  BY <1>2, <1>7, ViewsKept
<1>9. SpoiledView \subseteq SpoiledView'
  <2>1. clashed \subseteq clashed' /\ cuts' \in Nat
    BY <1>2, <1>3
  <2> QED BY <1>1, <1>2, <2>1, SpoiledGrows
<1>10. CASE s \in SpoiledView'
  <2>1. List!Disturb
    BY <1>2, <1>4, <1>5, <1>6, <1>8, <1>9, <1>10, DisturbOne
  <2> QED BY <2>1 DEF List!Next
<1>11. CASE s \notin SpoiledView'
  <2>1. cuts' = 0 /\ cuts = 0
    <3>1. ~(cuts' > 0)
      BY <1>4, <1>11 DEF SpoiledView, Troubled
    <3> QED BY <1>1, <1>2, <3>1 DEF TypeInv
  <2>2. r.name = call[c].name
    BY <1>3, <2>1
  <2>3. c \notin clashed'
    BY <1>2, <1>11, <2>1 DEF SpoiledView, Troubled
  <2>4. UNCHANGED <<cuts, clashed>>
    BY <1>3, <2>1, <2>3
  <2>5. SpoiledView' = SpoiledView
    BY <1>2, <2>4, SpoiledSame
  <2>6. CASE /\ r.name \in DOMAIN ListOf(c)
             /\ handler' = [handler EXCEPT ![c] =
                   [pc |-> "reply", resp |-> Response(r.name, Status_err)]]
    <3>1. VerdictView'[c] = "refused"
      <4>1. handler'[c].pc = "reply" /\ handler'[c].resp[2][2] # Status_ok
        BY <1>1, <2>6 DEF TypeInv, Response, Status_err, Status_ok
      <4> QED BY <4>1 DEF VerdictView
    <3>2. VerdictView' = [VerdictView EXCEPT ![c] = "refused"]
      BY <1>8, <3>1, ViewFunctions
    <3>3. List!Decide(c, s, call[c].name, call[c].url)
      BY <1>2, <1>4, <1>5, <2>2, <2>5, <2>6, <3>2 DEF List!Decide, ListOf
    <3> QED BY <1>4, <3>3 DEF List!Next
  <2>7. CASE handler' = [handler EXCEPT ![c] =
               [pc |-> "insert", server |-> call[c].server, req |-> r]]
    <3>1. handler'[c].pc = "insert"
      BY <1>1, <2>7 DEF TypeInv
    <3>2. VerdictView'[c] = "none"
      BY <3>1 DEF VerdictView
    <3>3. VerdictView' = VerdictView
      BY <1>4, <1>8, <3>2, ViewFunctions
    <3> QED BY <1>2, <1>5, <2>5, <3>3 DEF List!vars
  <2> QED BY <1>3, <2>6, <2>7
<1> QED BY <1>10, <1>11

\* A handler that is alone at the list enters a name that is still free.
LEMMA EnterMaps ==
  ASSUME SourceInv, NEW c \in Call, Enter(c)
  PROVE  [List!Next]_(List!vars)
<1>1. TypeInv /\ HandlerInv /\ OwnInv
  BY DEF SourceInv
<1> DEFINE s == call[c].server
           n == call[c].name
           u == call[c].url
<1>2. /\ UNCHANGED <<config, running, call, losses, cuts, clashed>>
      /\ handler[c].pc = "insert" /\ OwnRequest(c)
      /\ handler' = [handler EXCEPT ![c] =
            [pc |-> "reply", resp |-> Response(handler[c].req.name, Status_ok)]]
      /\ LET l == add_datasource(ListOf(c), handler[c].req.name, handler[c].req.url)
         IN  \E kept \in SUBSET DOMAIN l :
               /\ c \notin clashed => kept = DOMAIN l
               /\ member' = [member EXCEPT ![s] = [x \in kept |-> l[x]]]
  BY <1>1, EnterEffect
<1>3. /\ member' = [t \in Server |-> member'[t]]
      /\ \A t \in Server \ {s} : member'[t] = member[t]
  BY <1>1, EnterLists
<1>4. /\ s \in Server /\ n \in Name /\ u \in Url
      /\ AskedView[c] = <<s, n, u>> /\ VerdictView[c] = "none"
  BY <1>1, <1>2, CallShape, Views DEF OwnRequest
<1>5. AskedView' = AskedView /\ ToldView' = ToldView
  BY <1>2 DEF AskedView, ToldView, OnWire
<1>6. \A d \in Call \ {c} : handler'[d] = handler[d]
  BY <1>1, <1>2 DEF TypeInv
<1>7. \A d \in Call \ {c} : VerdictView'[d] = VerdictView[d]
  BY <1>2, <1>6, ViewsKept
<1>8. SpoiledView' = SpoiledView
  BY <1>2, SpoiledSame
<1>9. CASE s \in SpoiledView
  <2>1. List!Disturb
    BY <1>3, <1>4, <1>5, <1>7, <1>8, <1>9, DisturbOne
  <2> QED BY <2>1 DEF List!Next
<1>10. CASE s \notin SpoiledView
  <2>1. cuts = 0
    <3>1. ~(cuts > 0)
      BY <1>4, <1>10 DEF SpoiledView, Troubled
    <3> QED BY <1>1, <3>1 DEF TypeInv
  <2>2. c \notin clashed
    BY <1>10, <2>1 DEF SpoiledView, Troubled
  <2>3. handler[c].req.name = n /\ handler[c].req.url = u
    BY <1>2, <2>1 DEF OwnRequest
  <2>4. n \notin DOMAIN member[s]
    BY <1>1, <1>2, <1>10, <2>1 DEF OwnInv, OwnEntry, ListOf, Calm, SpoiledView
  <2>5. /\ add_datasource(member[s], n, u) = List!Listing(member[s], n, u)
        /\ List!Listing(member[s], n, u) =
             [x \in DOMAIN List!Listing(member[s], n, u) |-> List!Listing(member[s], n, u)[x]]
    BY <2>4 DEF add_datasource, List!Listing
  <2>6. member' = [member EXCEPT ![s] = List!Listing(member[s], n, u)]
    BY <1>2, <2>2, <2>3, <2>5 DEF ListOf
  <2>7. VerdictView'[c] = "entered"
    <3>1. handler'[c].pc = "reply" /\ handler'[c].resp[2][2] = Status_ok
      BY <1>1, <1>2 DEF TypeInv, Response
    <3> QED BY <3>1 DEF VerdictView
  <2>8. VerdictView' = [VerdictView EXCEPT ![c] = "entered"]
    BY <1>7, <2>7, ViewFunctions
  <2>9. List!Decide(c, s, n, u)
    BY <1>4, <1>5, <1>8, <2>4, <2>6, <2>8 DEF List!Decide
  <2> QED BY <1>4, <2>9 DEF List!Next
<1> QED BY <1>9, <1>10

\* How a call that returns looks to its user, and what it is told.
LEMMA ReturnViews ==
  ASSUME TypeInv, HandlerInv, NEW c \in Call, call[c].pc = "sent", NEW sym \in 0..3,
         Return(c, sym), UNCHANGED <<member, handler, clashed>>
  PROVE  /\ AskedView' = AskedView /\ AskedView[c] # <<>>
         /\ AskedView[c][1] = call[c].server /\ call[c].server \in Server
         /\ VerdictView' = VerdictView
         /\ ToldView[c] = "none"
         /\ ToldView' = [ToldView EXCEPT ![c] = IF sym = 0 THEN "entered"
                                                ELSE IF sym = 3 THEN "refused" ELSE "unknown"]
         /\ \A d \in clashed : call'[d].server = call[d].server
<1>1. call[c] \in Exchanged /\ call[c].server \in Server
  BY CallShape
<1>2. /\ call'[c] \in Exchanged /\ call'[c].pc = "over" /\ call'[c].sym = sym
      /\ call'[c].name = call[c].name /\ call'[c].url = call[c].url
      /\ call'[c].server = call[c].server
      /\ \A d \in Call \ {c} : call'[d] = call[d]
  BY <1>1, ReturnEffect
<1>3. \A d \in Call \ {c} : AskedView'[d] = AskedView[d] /\ ToldView'[d] = ToldView[d]
  BY <1>2, ViewsKept
<1>4. AskedView[c] = <<call[c].server, call[c].name, call[c].url>> /\ ToldView[c] = "none"
  BY <1>1, Views
<1>5. AskedView'[c] = <<call[c].server, call[c].name, call[c].url>>
  BY <1>2 DEF AskedView, OnWire
<1>6. AskedView' = AskedView
  BY <1>3, <1>4, <1>5 DEF AskedView
<1>7. ToldView'[c] = IF sym = 0 THEN "entered" ELSE IF sym = 3 THEN "refused" ELSE "unknown"
  BY <1>2 DEF ToldView, OnWire
<1>8. ToldView' = [ToldView EXCEPT ![c] = ToldView'[c]]
  BY <1>3, ViewFunctions
<1>9. VerdictView' = VerdictView
  BY DEF VerdictView
<1>10. \A d \in clashed : call'[d].server = call[d].server
  BY <1>2 DEF TypeInv
<1> QED BY <1>1, <1>4, <1>6, <1>7, <1>8, <1>9, <1>10

LEMMA RecvReplyMaps ==
  ASSUME SourceInv, NEW c \in Call, NEW k \in 0..2, RecvReply(c, k)
  PROVE  [List!Next]_(List!vars)
<1>1. TypeInv /\ HandlerInv
  BY DEF SourceInv
<1>2. /\ UNCHANGED <<config, running, member, handler, losses, clashed>>
      /\ cuts' \in 0..MaxCuts /\ cuts <= cuts'
      /\ call[c].pc = "sent" /\ handler[c].pc = "reply" /\ OwnRequest(c)
  BY <1>1, RecvReplyEffect
<1>3. PICK sym \in {0, 2, 3} :
        /\ Return(c, sym)
        /\ cuts' = 0 => /\ cuts = 0
                        /\ handler[c].resp[2][2] = Status_ok => sym = 0
                        /\ handler[c].resp[2][2] # Status_ok => sym = 3
  BY <1>1, RecvReplyEffect
<1> DEFINE answer == IF sym = 0 THEN "entered" ELSE IF sym = 3 THEN "refused" ELSE "unknown"
<1>4. /\ AskedView' = AskedView /\ AskedView[c] # <<>>
      /\ AskedView[c][1] = call[c].server /\ call[c].server \in Server
      /\ VerdictView' = VerdictView
      /\ ToldView[c] = "none"
      /\ ToldView' = [ToldView EXCEPT ![c] = answer]
      /\ \A d \in clashed : call'[d].server = call[d].server
  BY <1>1, <1>2, <1>3, ReturnViews
<1>5. CASE cuts' = 0
  <2>1. cuts = cuts'
    BY <1>3, <1>5
  <2>2. SpoiledView' = SpoiledView
    BY <1>2, <1>4, <2>1, SpoiledSame
  <2>3. VerdictView[c] = answer /\ answer \in {"entered", "refused"}
    BY <1>2, <1>3, <1>5 DEF VerdictView
  <2> HIDE DEF answer
  <2>4. List!Tell(c, answer)
    BY <1>2, <1>4, <2>2, <2>3 DEF List!Tell
  <2> QED BY <2>3, <2>4 DEF List!Next
<1>6. CASE cuts' # 0
  <2>1. SpoiledView' = Server
    <3>1. cuts' > 0
      BY <1>2, <1>6
    <3> QED BY <3>1 DEF SpoiledView, Troubled
  <2>2. cuts' \in Nat
    BY <1>2
  <2>3. SpoiledView \subseteq SpoiledView'
    BY <1>1, <1>2, <1>4, <2>2, SpoiledGrows
  <2>4. \A d \in Call \ {c} : ToldView'[d] = ToldView[d]
    BY <1>4, ViewFunctions
  <2>5. member' = [t \in Server |-> member'[t]]
    BY <1>1, <1>2 DEF TypeInv
  <2>6. List!Disturb
    BY <1>2, <1>4, <2>1, <2>3, <2>4, <2>5, DisturbOne
  <2> QED BY <2>6 DEF List!Next
<1> QED BY <1>5, <1>6

LEMMA FailMaps ==
  ASSUME SourceInv, NEW c \in Call, Fail(c)
  PROVE  [List!Next]_(List!vars)
<1>1. TypeInv /\ HandlerInv
  BY DEF SourceInv
<1>2. /\ UNCHANGED <<config, running, member, handler, cuts, clashed>>
      /\ call[c].pc = "sent" /\ Return(c, 1)
  BY <1>1, FailEffect
<1>3. /\ AskedView' = AskedView /\ AskedView[c] # <<>>
      /\ VerdictView' = VerdictView
      /\ ToldView[c] = "none"
      /\ ToldView' = [ToldView EXCEPT ![c] = "unknown"]
      /\ \A d \in clashed : call'[d].server = call[d].server
  BY <1>1, <1>2, ReturnViews
<1>4. SpoiledView' = SpoiledView
  BY <1>2, <1>3, SpoiledSame
<1>5. List!Tell(c, "unknown")
  BY <1>2, <1>3, <1>4 DEF List!Tell
<1> QED BY <1>5 DEF List!Next

LEMMA ListStep ==
  ASSUME SourceInv, [Next]_vars
  PROVE  [List!Next]_(List!vars)
<1>1. ASSUME UNCHANGED <<member, call, handler, cuts, clashed>>
      PROVE  UNCHANGED List!vars
  BY <1>1 DEF List!vars, AskedView, VerdictView, ToldView, SpoiledView, Troubled, OnWire
<1>2. ASSUME NEW s \in Server, start(s) \/ stop(s)
      PROVE  UNCHANGED List!vars
  BY <1>1, <1>2 DEF start, stop
<1>3. ASSUME NEW f \in Config, NEW s \in Server, load_config(f, s)
      PROVE  UNCHANGED List!vars
  BY <1>1, <1>3 DEF load_config
<1>4. ASSUME UNCHANGED vars
      PROVE  UNCHANGED List!vars
  BY <1>1, <1>4 DEF vars
<1> QED
  BY <1>2, <1>3, <1>4, RegisterMaps, LookUpMaps, EnterMaps, RecvReplyMaps, FailMaps
  DEF Next, Exchange

-----------------------------------------------------------------------------
(* What SourceList promises                                                *)

Form(a) == \E s \in Server, n \in Name, u \in Url : a = <<s, n, u>>

\* What has been decided on a call is in the list and is what it was told.
Kept(c) ==
  LET s == AskedView[c][1]
      n == AskedView[c][2]
  IN  /\ ToldView[c] \in {"entered", "refused"} => VerdictView[c] = ToldView[c]
      /\ VerdictView[c] = "entered" => n \in DOMAIN member[s] /\ member[s][n] = AskedView[c][3]
      /\ VerdictView[c] = "refused" => n \in DOMAIN member[s]

Rivals(c, d) ==
  /\ AskedView[c][1] = AskedView[d][1] /\ AskedView[c][2] = AskedView[d][2]
  /\ VerdictView[c] = "entered" /\ VerdictView[d] = "entered"

PromiseInv ==
  /\ member = [s \in Server |-> member[s]]
  /\ \A c \in Call : AskedView[c] # <<>> => Form(AskedView[c])
  /\ \A c \in Call : AskedView[c] = <<>> => VerdictView[c] = "none" /\ ToldView[c] = "none"
  /\ \A c \in Call : List!Sound(c) => Kept(c)
  /\ \A c, d \in Call : List!Sound(c) /\ List!Sound(d) /\ Rivals(c, d) => c = d

LEMMA AskedFunction ==
  AskedView = [c \in Call |-> AskedView[c]] /\ AskedView' = [c \in Call |-> AskedView'[c]]
BY DEF AskedView

LEMMA PromiseAsk ==
  ASSUME PromiseInv, NEW c \in Call, NEW s \in Server, NEW n \in Name, NEW u \in Url,
         List!Ask(c, s, n, u)
  PROVE  PromiseInv'
<1>1. /\ AskedView[c] = <<>> /\ AskedView' = [AskedView EXCEPT ![c] = <<s, n, u>>]
      /\ UNCHANGED <<member, VerdictView, ToldView, SpoiledView>>
  BY DEF List!Ask
<1>2. AskedView'[c] = <<s, n, u>> /\ \A d \in Call \ {c} : AskedView'[d] = AskedView[d]
  BY <1>1, AskedFunction
<1>3. VerdictView'[c] = "none" /\ ToldView'[c] = "none"
  BY <1>1 DEF PromiseInv
<1>4. \A d \in Call : AskedView'[d] # <<>> => Form(AskedView'[d])
  BY <1>2 DEF PromiseInv, Form
<1>5. \A d \in Call : AskedView'[d] = <<>> => VerdictView'[d] = "none" /\ ToldView'[d] = "none"
  BY <1>1, <1>2 DEF PromiseInv
<1>6. \A d \in Call : List!Sound(d)' => Kept(d)'
  BY <1>1, <1>2, <1>3 DEF PromiseInv, Kept, List!Sound
<1>7. \A d, e \in Call : List!Sound(d)' /\ List!Sound(e)' /\ Rivals(d, e)' => d = e
  BY <1>1, <1>2, <1>3 DEF PromiseInv, Rivals, List!Sound
<1>8. member' = [t \in Server |-> member'[t]]
  BY <1>1 DEF PromiseInv
<1> QED BY <1>4, <1>5, <1>6, <1>7, <1>8 DEF PromiseInv

LEMMA PromiseDecide ==
  ASSUME PromiseInv, NEW c \in Call, NEW s \in Server, NEW n \in Name, NEW u \in Url,
         List!Decide(c, s, n, u)
  PROVE  PromiseInv'
<1>1. /\ AskedView[c] = <<s, n, u>> /\ VerdictView[c] = "none"
      /\ UNCHANGED <<AskedView, ToldView, SpoiledView>>
      /\ \/ /\ n \in DOMAIN member[s] /\ VerdictView' = [VerdictView EXCEPT ![c] = "refused"]
            /\ member' = member
         \/ /\ n \notin DOMAIN member[s] /\ VerdictView' = [VerdictView EXCEPT ![c] = "entered"]
            /\ member' = [member EXCEPT ![s] = List!Listing(member[s], n, u)]
  BY DEF List!Decide
<1>2. AskedView[c] # <<>> /\ AskedView[c][1] = s /\ AskedView[c][2] = n /\ AskedView[c][3] = u
  BY <1>1
<1>3. \A d \in Call \ {c} : VerdictView'[d] = VerdictView[d]
  BY <1>1, ViewFunctions
<1>4. member = [t \in Server |-> member[t]]
  BY DEF PromiseInv
<1>5. \A d \in Call : AskedView'[d] # <<>> => Form(AskedView'[d])
  BY <1>1 DEF PromiseInv, Form
<1>6. \A d \in Call : AskedView'[d] = <<>> => VerdictView'[d] = "none" /\ ToldView'[d] = "none"
  BY <1>1, <1>2, <1>3 DEF PromiseInv
<1>7. CASE /\ n \in DOMAIN member[s] /\ VerdictView' = [VerdictView EXCEPT ![c] = "refused"]
           /\ member' = member
  <2>1. VerdictView'[c] = "refused"
    BY <1>7, ViewFunctions
  <2>2. \A d \in Call : List!Sound(d)' => Kept(d)'
    BY <1>1, <1>2, <1>3, <1>7, <2>1 DEF PromiseInv, Kept, List!Sound
  <2>3. \A d, e \in Call : List!Sound(d)' /\ List!Sound(e)' /\ Rivals(d, e)' => d = e
    BY <1>1, <1>3, <2>1 DEF PromiseInv, Rivals, List!Sound
  <2> QED BY <1>4, <1>5, <1>6, <1>7, <2>2, <2>3 DEF PromiseInv
<1>8. CASE /\ n \notin DOMAIN member[s] /\ VerdictView' = [VerdictView EXCEPT ![c] = "entered"]
           /\ member' = [member EXCEPT ![s] = List!Listing(member[s], n, u)]
  <2>1. VerdictView'[c] = "entered"
    BY <1>8, ViewFunctions
  <2>2. /\ member'[s] = List!Listing(member[s], n, u)
        /\ \A t \in Server \ {s} : member'[t] = member[t]
        /\ member' = [t \in Server |-> member'[t]]
    BY <1>4, <1>8
  <2>3. /\ DOMAIN member'[s] = DOMAIN member[s] \cup {n} /\ member'[s][n] = u
        /\ \A x \in DOMAIN member[s] : member'[s][x] = member[s][x]
    BY <1>8, <2>2 DEF List!Listing
  <2>4. ASSUME NEW d \in Call, List!Sound(d)'
        PROVE  Kept(d)'
    <3>1. CASE d = c
      <4>1. ToldView[c] \in {"entered", "refused"} => FALSE
        BY <1>1, <2>4, <3>1 DEF PromiseInv, Kept, List!Sound
      <4> QED BY <1>1, <1>2, <2>1, <2>3, <3>1, <4>1 DEF Kept
    <3>2. CASE d # c
      <4>1. Kept(d) /\ AskedView[d][1] \in Server
        BY <1>1, <2>4 DEF PromiseInv, List!Sound, Form
      <4> QED BY <1>1, <1>3, <2>2, <2>3, <3>2, <4>1 DEF Kept
    <3> QED BY <3>1, <3>2
  \* An earlier winner would have the name in the list.
  <2>5. ASSUME NEW d \in Call \ {c}, List!Sound(d)', AskedView[d][1] = s, AskedView[d][2] = n,
               VerdictView[d] = "entered"
        PROVE  FALSE
    BY <1>1, <1>8, <2>5 DEF PromiseInv, Kept, List!Sound
  <2>6. \A d, e \in Call : List!Sound(d)' /\ List!Sound(e)' /\ Rivals(d, e)' => d = e
    <3>1. SUFFICES ASSUME NEW d \in Call, NEW e \in Call, List!Sound(d)', List!Sound(e)',
                          Rivals(d, e)', d # e
                   PROVE  FALSE
      OBVIOUS
    <3>2. CASE d = c
      BY <1>1, <1>2, <1>3, <2>5, <3>1, <3>2 DEF Rivals
    <3>3. CASE e = c
      BY <1>1, <1>2, <1>3, <2>5, <3>1, <3>3 DEF Rivals
    <3>4. CASE d # c /\ e # c
      BY <1>1, <1>3, <3>1, <3>4 DEF Rivals, PromiseInv, List!Sound
    <3> QED BY <3>2, <3>3, <3>4
  <2> QED BY <1>5, <1>6, <2>2, <2>4, <2>6 DEF PromiseInv
<1> QED BY <1>1, <1>7, <1>8

LEMMA PromiseStep ==
  ASSUME PromiseInv, [List!Next]_(List!vars)
  PROVE  PromiseInv'
<1>1. ASSUME NEW c \in Call, NEW answer \in {"entered", "refused", "unknown"}, List!Tell(c, answer)
      PROVE  PromiseInv'
  <2>1. /\ AskedView[c] # <<>>
        /\ answer = "unknown" \/ answer = VerdictView[c]
        /\ ToldView' = [ToldView EXCEPT ![c] = answer]
        /\ UNCHANGED <<member, AskedView, VerdictView, SpoiledView>>
    BY <1>1 DEF List!Tell
  <2>2. ToldView'[c] = answer /\ \A d \in Call \ {c} : ToldView'[d] = ToldView[d]
    BY <2>1, ViewFunctions
  <2>3. \A d \in Call : AskedView'[d] = <<>> => VerdictView'[d] = "none" /\ ToldView'[d] = "none"
    BY <2>1, <2>2 DEF PromiseInv
  <2>4. \A d \in Call : List!Sound(d)' => Kept(d)'
    BY <2>1, <2>2 DEF PromiseInv, Kept, List!Sound
  <2> QED BY <2>1, <2>3, <2>4 DEF PromiseInv, Form, Rivals, List!Sound
<1>2. ASSUME List!Disturb
      PROVE  PromiseInv'
  <2>1. /\ SpoiledView \subseteq SpoiledView' /\ AskedView' = AskedView
        /\ member' = [s \in Server |-> IF s \in SpoiledView' THEN member'[s] ELSE member[s]]
        /\ VerdictView' = [c \in Call |-> IF List!At(c, SpoiledView')
                                          THEN VerdictView'[c] ELSE VerdictView[c]]
        /\ ToldView' = [c \in Call |-> IF List!At(c, SpoiledView')
                                       THEN ToldView'[c] ELSE ToldView[c]]
    BY <1>2 DEF List!Disturb
  <2>2. /\ member' = [s \in Server |-> member'[s]]
        /\ \A s \in Server \ SpoiledView' : member'[s] = member[s]
    BY <2>1
  <2>3. \A c \in Call : ~List!At(c, SpoiledView') =>
          VerdictView'[c] = VerdictView[c] /\ ToldView'[c] = ToldView[c]
    BY <2>1
  <2>4. ASSUME NEW c \in Call, List!Sound(c)'
        PROVE  /\ List!Sound(c) /\ AskedView[c][1] \in Server
               /\ VerdictView'[c] = VerdictView[c] /\ ToldView'[c] = ToldView[c]
               /\ member'[AskedView[c][1]] = member[AskedView[c][1]]
    <3>1. AskedView[c] # <<>> /\ AskedView[c][1] \notin SpoiledView'
      BY <2>1, <2>4 DEF List!Sound
    <3>2. List!Sound(c) /\ ~List!At(c, SpoiledView') /\ AskedView[c][1] \in Server
      BY <2>1, <3>1 DEF List!Sound, List!At, PromiseInv, Form
    <3> QED BY <2>2, <2>3, <3>1, <3>2
  <2>5. \A c \in Call : AskedView'[c] = <<>> => VerdictView'[c] = "none" /\ ToldView'[c] = "none"
    BY <2>1, <2>3 DEF PromiseInv, List!At
  <2>6. \A c \in Call : List!Sound(c)' => Kept(c)'
    BY <2>1, <2>4 DEF PromiseInv, Kept
  <2>7. \A c, d \in Call : List!Sound(c)' /\ List!Sound(d)' /\ Rivals(c, d)' => c = d
    BY <2>1, <2>4 DEF PromiseInv, Rivals
  <2>8. \A c \in Call : AskedView'[c] # <<>> => Form(AskedView'[c])
    BY <2>1 DEF PromiseInv, Form
  <2> QED BY <2>2, <2>5, <2>6, <2>7, <2>8 DEF PromiseInv
<1>3. ASSUME UNCHANGED List!vars
      PROVE  PromiseInv'
  BY <1>3 DEF List!vars, PromiseInv, Form, Kept, Rivals, List!Sound
<1> QED BY <1>1, <1>2, <1>3, PromiseAsk, PromiseDecide DEF List!Next

LEMMA PromiseFromInv ==
  ASSUME PromiseInv
  PROVE  List!Promise
<1>1. SUFFICES ASSUME NEW c \in Call, List!Sound(c)
               PROVE  LET s == AskedView[c][1]
                          n == AskedView[c][2]
                      IN  /\ ToldView[c] = "entered" =>
                               n \in DOMAIN member[s] /\ member[s][n] = AskedView[c][3]
                          /\ ToldView[c] = "refused" => n \in DOMAIN member[s]
                          /\ \A d \in Call : /\ List!Sound(d) /\ AskedView[d][1] = s
                                             /\ AskedView[d][2] = n
                                             /\ ToldView[c] = "entered" /\ ToldView[d] = "entered"
                                             => c = d
  BY DEF List!Promise
<1>2. \A d \in Call : List!Sound(d) => Kept(d)
  BY DEF PromiseInv
<1>3. \A d \in Call : List!Sound(d) /\ Rivals(c, d) => c = d
  BY <1>1 DEF PromiseInv
<1> QED BY <1>1, <1>2, <1>3 DEF Kept, Rivals

-----------------------------------------------------------------------------
(* Theorems                                                                *)

\* Calls, handlers and lists are well typed and every call that is over has
\* one of the results of register_datasource.
THEOREM TypeCorrect == Spec => []TypeOK
<1>1. ASSUME SourceInv
      PROVE  TypeOK
  <2>1. TypeInv
    BY <1>1 DEF SourceInv
  <2>2. \A s \in Server : \A n \in DOMAIN member[s] :
          n \in Name \cup {Empty} /\ member[s][n] \in Url \cup {Empty}
    BY <2>1 DEF TypeInv, IsList
  <2> QED BY <2>1, <2>2, CallShape, HandlerShape DEF TypeOK, TypeInv
<1> QED BY <1>1, SourceInvariant, PTL

\* Whoever is told that a name is registered finds it in the server's list,
\* whatever was lost or cut, and its own endpoint if it was told 0 and
\* nothing was cut, until handlers are at that list at the same time.
THEOREM ToldCorrect == Spec => []ToldMeansListed
<1>1. ASSUME SourceInv
      PROVE  ToldMeansListed
  <2>1. SUFFICES ASSUME NEW c \in Calm, Answered(c, 0) \/ Answered(c, 3)
                 PROVE  call[c].name \in DOMAIN ListOf(c) /\ (cuts = 0 => Mine(c))
    BY DEF ToldMeansListed, Calm, ListOf
  <2>2. call[c].name \in DOMAIN ListOf(c)
    BY <1>1, <2>1 DEF SourceInv, ListedInv
  <2>3. ASSUME cuts = 0
        PROVE  Mine(c)
    <3>1. OwnEntry(c)
      BY <1>1, <2>1, <2>3 DEF SourceInv, OwnInv
    <3> QED BY <3>1 DEF OwnEntry, Mine, ListOf
  <2> QED BY <2>2, <2>3
<1> QED BY <1>1, SourceInvariant, PTL

\* To the recorders the two steps of a handler look like one decision of
\* the list, at every server where no two handlers have met.
THEOREM Refinement == Spec => ImplementsSourceList
<1>1. Init => List!Init
  <2>1. SUFFICES ASSUME Init
                 PROVE  List!Init
    OBVIOUS
  <2>2. ~(cuts > 0) /\ SpoiledView = {}
    BY <2>1 DEF Init, SpoiledView, Troubled
  <2> QED BY <2>1, <2>2 DEF Init, List!Init, AskedView, VerdictView, ToldView, OnWire, Idle
<1>2. SourceInv /\ [Next]_vars => [List!Next]_(List!vars)
  BY ListStep
<1> QED BY <1>1, <1>2, SourceInvariant, PTL DEF Spec, List!Spec, ImplementsSourceList

\* SourceList keeps its promise: what a caller is told is so, and of all
\* calls for one name at a server one at most is told that it was entered.
THEOREM PromiseKept == List!Spec => []List!Promise
<1>1. List!Init => PromiseInv
  BY DEF List!Init, PromiseInv, Kept, Rivals, List!Sound
<1>2. PromiseInv /\ [List!Next]_(List!vars) => PromiseInv'
  BY PromiseStep
<1> QED BY <1>1, <1>2, PromiseFromInv, PTL DEF List!Spec

\* The registration keeps the promise of SourceList.
THEOREM RegistrationsKeepPromise == Spec => []List!Promise
BY Refinement, PromiseKept, PTL DEF ImplementsSourceList
=============================================================================
