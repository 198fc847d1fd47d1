------------------------------- MODULE Drccp -------------------------------
(***************************************************************************)
(* The computation cluster's own protocol (computation/drccp/server.cc):   *)
(* nodes join a cluster with a MEET message, keep a share for every        *)
(* endpoint they know, and run the payload of a submission on the endpoint *)
(* they select.  A submission is a LOCAL message of the node to itself;    *)
(* its handler sends FORWARD messages until one is answered, tells its     *)
(* neighbours HELLO, and answers last.                                     *)
(*                                                                         *)
(* Two exchanges are told apart by the tries of the Workflow library,      *)
(* which sends a failed request a second time; the handler of the first    *)
(* try may still be at work.  Versions other than 3 and messages of type   *)
(* UNKNOWN are never sent.  Shares are counted in halves.  Handlers change *)
(* the shares without a lock: an access to the map is one step here, and   *)
(* two that tear it are left out.                                          *)
(***************************************************************************)
EXTENDS Naturals, Sequences

CONSTANTS
  Node,
  Name,        \* the addresses nodes are called by
  Listen,      \* node -> the name it is set up with
  Resolve,     \* name -> the node it leads to
  Tag,         \* cluster tags, NoTag among them
  NoTag,       \* the empty tag
  Submission,  \* calls of submit
  MaxLosses,   \* bound: requests or replies lost or timed out
  MaxJoins     \* bound: calls of signin

ASSUME DrccpAssumption ==
  /\ Listen \in [Node -> Name]
  /\ Resolve \in [Name -> Node]
  /\ \A n \in Node : Resolve[Listen[n]] = n
  /\ NoTag \in Tag
  /\ MaxLosses \in Nat /\ MaxJoins \in Nat

VARIABLES
  mode,     \* node -> "down", "starting", "up", "stopping" or "crashed"
  tag,      \* node -> cluster_tag
  shares,   \* node -> (name -> halves of a share)
  signin,   \* node -> where its call of signin is
  client,   \* submission -> where its LOCAL exchange is
  series,   \* <<submission, try>> -> the handler's series
  losses, joins,
  \* history, read by the properties only
  ran,      \* submission -> times its payload was run
  callbacks \* submission -> the results handed to the client, in order

vars == <<mode, tag, shares, signin, client, series, losses, joins, ran, callbacks>>

Idle == [pc |-> "idle"]
Series == Submission \X {0, 1}
Empty == "empty"    \* the empty result
Result == "result"  \* what payload_process returns

-----------------------------------------------------------------------------
(* Messages.  Message::setdest assigns the field src, not dest.            *)

Message(type, g) == [type |-> type, tag |-> g, src |-> Empty, dest |-> Empty]
setsrc(m, a) == [m EXCEPT !.src = a]
setdest(m, a) == [m EXCEPT !.src = a]

\* The check every request passes first; noreply closes the connection.
Accepts(n, m) == mode[n] = "up" /\ m.tag = tag[n]

\* std::map: operator[] makes the entry, insert keeps one that is there.
Put(f, a, v) == [x \in DOMAIN f \cup {a} |-> IF x = a THEN v ELSE f[x]]
Raised(f, a) == Put(f, a, (IF a \in DOMAIN f THEN f[a] ELSE 0) + 1)
Insert(f, a, v) == [x \in DOMAIN f \cup {a} |-> IF x \in DOMAIN f THEN f[x] ELSE v]
Neighbours(n, f) == DOMAIN f \ {Listen[n]}

\* The search for the next point of the ring ends at once (code != code),
\* so only a point with the very hash of the source is found, and without
\* collisions that is the source's first one.
select_best_target(n, source) ==
  IF source \in DOMAIN shares[n] /\ 2 * shares[n][source] >= 1
  THEN source ELSE Listen[n]

Init ==
  /\ mode = [n \in Node |-> "down"]
  /\ tag = [n \in Node |-> NoTag]
  /\ shares = [n \in Node |-> <<>>]
  /\ signin = [n \in Node |-> Idle]
  /\ client = [s \in Submission |-> Idle]
  /\ series = [i \in Series |-> Idle]
  /\ losses = 0 /\ joins = 0
  /\ ran = [s \in Submission |-> 0]
  /\ callbacks = [s \in Submission |-> <<>>]

history == <<joins, ran, callbacks>>

-----------------------------------------------------------------------------
(* Start and stop                                                          *)

FaultyStart(n) ==  \* the node's own share is entered when it first runs a payload
  /\ mode[n] = "down"
  /\ mode' = [mode EXCEPT ![n] = "starting"]
  /\ UNCHANGED <<tag, shares, signin, client, series, losses, history>>
start(n) ==
  /\ mode[n] = "down"
  /\ mode' = [mode EXCEPT ![n] = "starting"]
  /\ shares' = [shares EXCEPT ![n] = Insert(@, Listen[n], 2)]
  /\ UNCHANGED <<tag, signin, client, series, losses, history>>

Listening(n) ==
  /\ mode[n] = "starting"
  /\ mode' = [mode EXCEPT ![n] = "up"]
  /\ UNCHANGED <<tag, shares, signin, client, series, losses, history>>

\* server -> stop: no new request is taken; it returns when none is left.
stop(n) ==
  /\ mode[n] = "up"
  /\ mode' = [mode EXCEPT ![n] = "stopping"]
  /\ UNCHANGED <<tag, shares, signin, client, series, losses, history>>

Working(n) ==
  \/ \E i \in Series : series[i] # Idle /\ series[i].node = n
  \/ \E d \in Node : signin[d].pc = "hello" /\ signin[d].boot = n
Stopped(n) ==
  /\ mode[n] = "stopping"
  /\ ~Working(n)
  /\ mode' = [mode EXCEPT ![n] = "down"]
  /\ UNCHANGED <<tag, shares, signin, client, series, losses, history>>

-----------------------------------------------------------------------------
(* Joining and leaving                                                     *)

\* signin sets the tag, then sends MEET to the address of a member.
SigninCall(n, g, addr) ==
  /\ mode[n] = "up"
  /\ signin[n] = Idle
  /\ joins < MaxJoins
  /\ joins' = joins + 1
  /\ tag' = [tag EXCEPT ![n] = g]
  /\ signin' = [signin EXCEPT ![n] =
       [pc |-> "meet", tries |-> 0, boot |-> Resolve[addr], peers |-> {},
        meet |-> setdest(setsrc(Message("MEET", g), Listen[n]), addr)]]
  /\ UNCHANGED <<mode, shares, client, series, losses, ran, callbacks>>

\* process, MEET: enter the source, then have the neighbours told.
RecvMeet(n) ==
  /\ signin[n].pc = "meet"
  /\ LET boot  == signin[n].boot
         known == Insert(shares[boot], signin[n].meet.src, 2)
     IN  /\ Accepts(boot, signin[n].meet)
         /\ shares' = [shares EXCEPT ![boot] = known]
         /\ signin' = [signin EXCEPT ![n].pc = "hello", ![n].peers = Neighbours(boot, known)]
  /\ UNCHANGED <<mode, tag, client, series, losses, history>>

\* The answer, ALIVE: setup_share_resp is never called, so it holds no shares.
SigninSucceeds(n) ==
  /\ signin[n].pc = "alive"
  /\ signin' = [signin EXCEPT ![n] = [pc |-> "member", boot |-> signin[n].boot]]
  /\ UNCHANGED <<mode, tag, shares, client, series, losses, history>>

\* The caller has its answer.
SigninReturns(n) ==
  /\ signin[n].pc = "member"
  /\ signin' = [signin EXCEPT ![n] = Idle]
  /\ UNCHANGED <<mode, tag, shares, client, series, losses, history>>

\* The exchange fails: it is tried once more, then the tag is given up.
SigninFails(n) ==
  /\ signin[n].pc \in {"meet", "hello", "alive"}
  /\ \/ losses < MaxLosses /\ losses' = losses + 1
     \/ /\ \/ signin[n].pc = "meet" /\ ~Accepts(signin[n].boot, signin[n].meet)
           \/ mode[signin[n].boot] = "crashed"
        /\ UNCHANGED losses
  /\ IF signin[n].tries = 0
     THEN /\ signin' = [signin EXCEPT ![n].pc = "meet", ![n].tries = 1]
          /\ UNCHANGED tag
     ELSE /\ signin' = [signin EXCEPT ![n] = Idle]
          /\ tag' = [tag EXCEPT ![n] = NoTag]
  /\ UNCHANGED <<mode, shares, client, series, history>>

logout(n) ==
  /\ mode[n] = "up" /\ signin[n] = Idle
  /\ tag[n] # NoTag
  /\ tag' = [tag EXCEPT ![n] = NoTag]
  /\ UNCHANGED <<mode, shares, signin, client, series, losses, history>>

-----------------------------------------------------------------------------
(* Neighbours are told HELLO before an answer goes out.  No HELLO carries  *)
(* shares, so update_shares changes nothing; a HELLO that fails sets the   *)
(* neighbour's share to 0.  One loss stands for both tries of a HELLO.     *)
(* The callback of a HELLO uses a parameter of process after its return    *)
(* (server.cc:297): the process may crash.                                 *)

Zeroed(f, failed) == [x \in DOMAIN f |-> IF x \in failed THEN 0 ELSE f[x]]
HelloFails(n, g, peers, failed) ==
  /\ LET refused == {a \in peers : ~Accepts(Resolve[a], Message("HELLO", g))}
     IN  /\ refused \subseteq failed /\ failed \subseteq peers
         /\ \/ failed = refused /\ UNCHANGED losses
            \/ failed # refused /\ losses < MaxLosses /\ losses' = losses + 1
  /\ shares' = [shares EXCEPT ![n] = Zeroed(@, failed)]

MeetHello(n, failed) ==
  /\ signin[n].pc = "hello"
  /\ mode[signin[n].boot] # "crashed"
  /\ HelloFails(signin[n].boot, signin[n].meet.tag, signin[n].peers, failed)
  /\ signin' = [signin EXCEPT ![n].pc = "alive"]
  /\ UNCHANGED <<mode, tag, client, series, history>>

SeriesHello(i, failed) ==
  /\ \/ /\ series[i].pc = "ran"
        /\ HelloFails(Resolve[series[i].target], series[i].tag, series[i].hellos, failed)
        /\ series' = [series EXCEPT ![i].pc = "back"]
     \/ /\ series[i].pc = "forwarded"
        /\ HelloFails(series[i].node, client[i[1]].local.tag, series[i].peers, failed)
        /\ series' = [series EXCEPT ![i].pc = "answer"]
  /\ UNCHANGED <<mode, tag, signin, client, history>>

Crash(n) ==
  /\ \/ \E d \in Node : signin[d].pc = "hello" /\ signin[d].boot = n /\ signin[d].peers # {}
     \/ \E i \in Series :
          \/ /\ series[i].pc = "ran" /\ Resolve[series[i].target] = n
             /\ series[i].hellos # {}
          \/ /\ series[i].pc = "forwarded" /\ series[i].node = n
             /\ series[i].peers # {}
  /\ mode' = [mode EXCEPT ![n] = "crashed"]
  /\ series' = [i \in Series |->
       IF series[i] # Idle /\ series[i].node = n THEN Idle ELSE series[i]]
  /\ client' = [s \in Submission |->
       IF client[s] # Idle /\ client[s].node = n THEN [client[s] EXCEPT !.pc = "over"]
       ELSE client[s]]
  /\ signin' = [signin EXCEPT ![n] = Idle]
  /\ UNCHANGED <<tag, shares, losses, history>>

-----------------------------------------------------------------------------
(* Submissions                                                             *)

\* submit: a LOCAL message to the node itself.  The origin's address is the
\* source until setdest overwrites it.
submit(s, n, origin) ==
  /\ client[s] = Idle
  /\ mode[n] \in {"up", "down"}
  /\ client' = [client EXCEPT ![s] =
       [pc |-> "local", try |-> 0, node |-> n,
        local |-> setdest(setsrc(Message("LOCAL", tag[n]), origin), Listen[n])]]
  /\ UNCHANGED <<mode, tag, shares, signin, series, losses, history>>

RecvLocal(s) ==
  /\ client[s].pc = "local"
  /\ Accepts(client[s].node, client[s].local)
  /\ client' = [client EXCEPT ![s].pc = "asked"]
  /\ series' = [series EXCEPT ![<<s, client[s].try>>] =
       [pc |-> "forward", node |-> client[s].node, sent |-> 0, target |-> client[s].local.src,
        raw |-> Empty, hellos |-> {}, peers |-> Neighbours(client[s].node, shares[client[s].node]),
        source |-> client[s].local.src, tag |-> tag[client[s].node]]]
  /\ UNCHANGED <<mode, tag, shares, signin, losses, history>>

\* forward_task_repeater: FORWARD to the selected endpoint.
forward_task_repeater(i) ==
  /\ series[i].pc = "forward"
  /\ series' = [series EXCEPT ![i].pc = "sent", ![i].sent = 0,
                              ![i].target = select_best_target(series[i].node, series[i].source),
                              ![i].tag = tag[series[i].node]]
  /\ UNCHANGED <<mode, tag, shares, signin, client, losses, history>>

\* process, FORWARD: run the payload and raise the node's own share.
RecvForward(i) ==
  /\ series[i].pc = "sent"
  /\ LET n == Resolve[series[i].target]
     IN  /\ Accepts(n, Message("FORWARD", series[i].tag))
         /\ shares' = [shares EXCEPT ![n] = Raised(@, Listen[n])]
         /\ series' = [series EXCEPT ![i].pc = "ran", ![i].hellos = Neighbours(n, shares'[n])]
  /\ ran' = [ran EXCEPT ![i[1]] = @ + 1]
  /\ UNCHANGED <<mode, tag, signin, client, losses, joins, callbacks>>

\* The callback of a FORWARD that succeeded: the result is kept for the
\* answer, the target's share is raised and the repeater stops.
FaultyForwarded(i) ==  \* forward_success is not set
  /\ series[i].pc = "back"
  /\ shares' = [shares EXCEPT ![series[i].node] = Raised(@, series[i].target)]
  /\ series' = [series EXCEPT ![i].pc = "forward"]
  /\ UNCHANGED <<mode, tag, signin, client, losses, history>>
Forwarded(i) ==
  /\ series[i].pc = "back"
  /\ shares' = [shares EXCEPT ![series[i].node] = Raised(@, series[i].target)]
  /\ series' = [series EXCEPT ![i].pc = "forwarded", ![i].raw = Result]
  /\ UNCHANGED <<mode, tag, signin, client, losses, history>>

\* A FORWARD fails: it is sent once more, then the target's share is 0 and
\* the repeater selects again.
FaultyForwardFails(i) ==  \* a failed forward ends the repeater
  /\ series[i].pc = "sent"
  /\ losses < MaxLosses /\ losses' = losses + 1
  /\ series' = [series EXCEPT ![i].pc = "answer"]
  /\ UNCHANGED <<mode, tag, shares, signin, client, history>>
ForwardFails(i) ==
  /\ series[i].pc \in {"sent", "ran", "back"}
  /\ \/ losses < MaxLosses /\ losses' = losses + 1
     \/ /\ series[i].pc = "sent"
        /\ ~Accepts(Resolve[series[i].target], Message("FORWARD", series[i].tag))
        /\ UNCHANGED losses
  /\ IF series[i].sent = 0
     THEN /\ series' = [series EXCEPT ![i].pc = "sent", ![i].sent = 1]
          /\ UNCHANGED shares
     ELSE /\ series' = [series EXCEPT ![i].pc = "forward"]
          /\ shares' = [shares EXCEPT ![series[i].node] = Put(@, series[i].target, 0)]
  /\ UNCHANGED <<mode, tag, signin, client, history>>

\* The series ends with the answer to LOCAL, RESULT with the payload's
\* result; the client has it unless it has given up this try.
FaultySeriesEnds(i) ==  \* the LOCAL request is given noreply
  /\ series[i].pc = "answer"
  /\ series' = [series EXCEPT ![i] = Idle]
  /\ UNCHANGED <<mode, tag, shares, signin, client, losses, history>>
SeriesEnds(i) ==
  /\ series[i].pc = "answer"
  /\ series' = [series EXCEPT ![i] = Idle]
  /\ IF client[i[1]].pc = "asked" /\ client[i[1]].try = i[2]
     THEN /\ client' = [client EXCEPT ![i[1]].pc = "over"]
          /\ callbacks' = [callbacks EXCEPT ![i[1]] = Append(@, series[i].raw)]
     ELSE UNCHANGED <<client, callbacks>>
  /\ UNCHANGED <<mode, tag, shares, signin, losses, joins, ran>>

\* The LOCAL exchange fails.  After the second time the callback hands out
\* the empty result, and then, for want of a return, the empty raw field.
FaultyLocalFails(s) ==  \* the exchange is tried without a limit
  /\ client[s].pc = "local" /\ ~Accepts(client[s].node, client[s].local)
  /\ client' = [client EXCEPT ![s].try = @ + 1]
  /\ UNCHANGED <<mode, tag, shares, signin, series, losses, history>>
LocalFails(s) ==
  /\ client[s].pc \in {"local", "asked"}
  /\ \/ losses < MaxLosses /\ losses' = losses + 1
     \/ /\ client[s].pc = "local" /\ ~Accepts(client[s].node, client[s].local)
        /\ UNCHANGED losses
  /\ IF client[s].try = 0
     THEN /\ client' = [client EXCEPT ![s].pc = "local", ![s].try = 1]
          /\ UNCHANGED callbacks
     ELSE /\ client' = [client EXCEPT ![s].pc = "over"]
          /\ callbacks' = [callbacks EXCEPT ![s] = @ \o <<Empty, Empty>>]
  /\ UNCHANGED <<mode, tag, shares, signin, series, joins, ran>>

Join(n) ==
  \/ RecvMeet(n) \/ SigninSucceeds(n) \/ SigninReturns(n) \/ SigninFails(n)
  \/ \E failed \in SUBSET Name : MeetHello(n, failed)
Progress(i) ==
  \/ forward_task_repeater(i) \/ RecvForward(i) \/ Forwarded(i) \/ ForwardFails(i)
  \/ \E failed \in SUBSET Name : SeriesHello(i, failed)
  \/ SeriesEnds(i)
Ask(s) == RecvLocal(s) \/ LocalFails(s)

Next ==
  \/ \E n \in Node : start(n) \/ Listening(n) \/ stop(n) \/ Stopped(n) \/ logout(n)
  \/ \E n \in Node, g \in Tag \ {NoTag}, addr \in Name : SigninCall(n, g, addr)
  \/ \E n \in Node : Join(n)
  \/ \E n \in Node : Crash(n)
  \/ \E s \in Submission, n \in Node, origin \in Name : submit(s, n, origin)
  \/ \E s \in Submission : Ask(s)
  \/ \E i \in Series : Progress(i)

Spec == Init /\ [][Next]_vars

\* The library and the handlers go on with every exchange.
FairSpec ==
  /\ Spec
  /\ \A s \in Submission : WF_vars(Ask(s))
  /\ \A i \in Series : WF_vars(Progress(i))

-----------------------------------------------------------------------------
(* Properties                                                              *)

Request == [type : {"MEET", "LOCAL"}, tag : Tag, src : Name, dest : {Empty}]

TypeOK ==
  /\ mode \in [Node -> {"down", "starting", "up", "stopping", "crashed"}]
  /\ tag \in [Node -> Tag]
  /\ \A n \in Node : DOMAIN shares[n] \subseteq Name
                    /\ \A a \in DOMAIN shares[n] : shares[n][a] \in Nat
  /\ \A n \in Node : \/ signin[n] = Idle
                     \/ signin[n].pc = "member" /\ signin[n].boot \in Node
                     \/ signin[n] \in [pc : {"meet", "hello", "alive"}, tries : {0, 1},
                                       boot : Node, peers : SUBSET Name, meet : Request]
  /\ \A s \in Submission : \/ client[s] = Idle
                           \/ client[s] \in [pc : {"local", "asked", "over"}, try : {0, 1},
                                             node : Node, local : Request]
  /\ \A i \in Series : \/ series[i] = Idle
                       \/ series[i] \in
                            [pc : {"forward", "sent", "ran", "back", "forwarded", "answer"},
                             node : Node, sent : {0, 1}, target : Name, source : Name,
                             raw : {Empty, Result}, hellos : SUBSET Name, peers : SUBSET Name,
                             tag : Tag]
  /\ losses \in 0..MaxLosses /\ joins \in 0..MaxJoins
  /\ ran \in [Submission -> Nat]
  /\ callbacks \in [Submission -> Seq({Empty, Result})]

\* update_shares takes the node's own share without looking whether it is
\* there: a node that takes requests has one, whoever called first.
OwnShareKnown ==
  \A n \in Node : mode[n] \in {"up", "stopping"} => Listen[n] \in DOMAIN shares[n]

\* The client is handed the payload's result, once and only after a node ran
\* it, or is told of the failure, and only when its second try has failed as
\* well; never both, however tries and forwards of the same submission
\* overlap.  How often it is told of the failure is left open: submit tells
\* it twice (AnsweredOnce).
AnswerIsResult ==
  \A s \in Submission :
    \/ callbacks[s] = <<>>
    \/ client[s].try = 1 /\ \A k \in 1..Len(callbacks[s]) : callbacks[s][k] = Empty
    \/ callbacks[s] = <<Result>> /\ ran[s] > 0

\* The library's second tries and the repeater run a payload again only for
\* an exchange that was lost or timed out.
RunsBounded == \A s \in Submission : ran[s] <= 1 + losses

\* Every submission is answered, unless its node is stopped or crashes
\* meanwhile: the repeater never gives up, and it need not.
AnsweredUnlessStopped ==
  \A s \in Submission, n \in Node :
    (client[s].pc = "local" /\ client[s].node = n)
      ~> (client[s].pc = "over" \/ mode[n] \in {"stopping", "crashed"})

\* server.cc:266 "add new share to shares": the node a newcomer has met
\* knows the newcomer.
NewcomerKnown ==
  \A n \in Node : signin[n].pc = "member" => Listen[n] \in DOMAIN shares[signin[n].boot]

\* test_offlineserver.cc:48-56 waits for one result of a submission: the
\* callback of submit goes on after a failure (server.cc:164-171).
AnsweredOnce == \A s \in Submission : Len(callbacks[s]) <= 1
=============================================================================
