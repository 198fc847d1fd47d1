----------------------------- MODULE DrccpProofs -----------------------------
(* Theorems about Drccp, for any nodes, names, submissions and losses.     *)
EXTENDS Drccp, TLAPS

-----------------------------------------------------------------------------
(* The state, variable by variable.  TypeOK with the domains of the        *)
(* functions, which their updates need.                                    *)

Mode == {"down", "starting", "up", "stopping", "crashed"}
Joining == [pc : {"meet", "hello", "alive"}, tries : {0, 1}, boot : Node,
            peers : SUBSET Name, meet : Request]
Member == [pc : {"member"}, boot : Node]
Asking == [pc : {"local", "asked", "over"}, try : {0, 1}, node : Node, local : Request]
Serving == [pc : {"forward", "sent", "ran", "back", "forwarded", "answer"},
            node : Node, sent : {0, 1}, target : Name, source : Name,
            raw : {Empty, Result}, hellos : SUBSET Name, peers : SUBSET Name, tag : Tag]

IsTable(f) == DOMAIN f \subseteq Name /\ \A a \in DOMAIN f : f[a] \in Nat

ModeType == mode \in [Node -> Mode]
TagType == tag \in [Node -> Tag]
SharesType == shares = [n \in Node |-> shares[n]] /\ \A n \in Node : IsTable(shares[n])
SigninType == signin \in [Node -> {Idle} \cup Member \cup Joining]
ClientType == client \in [Submission -> {Idle} \cup Asking]
SeriesType == series \in [Series -> {Idle} \cup Serving]
BoundType == losses \in 0..MaxLosses /\ joins \in 0..MaxJoins
HistoryType == /\ ran \in [Submission -> Nat]
               /\ callbacks \in [Submission -> Seq({Empty, Result})]

Types == /\ ModeType /\ TagType /\ SharesType /\ SigninType /\ ClientType /\ SeriesType
         /\ BoundType /\ HistoryType

LEMMA IdlePc == Idle.pc = "idle"
BY DEF Idle

LEMMA TypesImplyTypeOK == Types => TypeOK
<1>1. SUFFICES ASSUME Types
               PROVE  TypeOK
  OBVIOUS
<1>2. mode \in [Node -> {"down", "starting", "up", "stopping", "crashed"}] /\ tag \in [Node -> Tag]
  BY <1>1 DEF Types, ModeType, TagType, Mode
<1>3. \A n \in Node : DOMAIN shares[n] \subseteq Name
                      /\ \A a \in DOMAIN shares[n] : shares[n][a] \in Nat
  BY <1>1 DEF Types, SharesType, IsTable
<1>4. \A n \in Node : \/ signin[n] = Idle
                      \/ signin[n].pc = "member" /\ signin[n].boot \in Node
                      \/ signin[n] \in [pc : {"meet", "hello", "alive"}, tries : {0, 1},
                                        boot : Node, peers : SUBSET Name, meet : Request]
  BY <1>1 DEF Types, SigninType, Member, Joining
<1>5. \A s \in Submission : \/ client[s] = Idle
                            \/ client[s] \in [pc : {"local", "asked", "over"}, try : {0, 1},
                                              node : Node, local : Request]
  BY <1>1 DEF Types, ClientType, Asking
<1>6. \A i \in Series : series[i] = Idle \/ series[i] \in Serving
  BY <1>1 DEF Types, SeriesType
<1>7. /\ losses \in 0..MaxLosses /\ joins \in 0..MaxJoins
      /\ ran \in [Submission -> Nat]
      /\ callbacks \in [Submission -> Seq({Empty, Result})]
  BY <1>1 DEF Types, BoundType, HistoryType
<1> QED BY <1>2, <1>3, <1>4, <1>5, <1>6, <1>7 DEF TypeOK, Serving

\* What is known of an exchange or a series from its place.
LEMMA JoiningPc ==
  ASSUME Types, NEW n \in Node, signin[n].pc \in {"meet", "hello", "alive"}
  PROVE  /\ signin[n] \in Joining
         /\ signin[n].boot \in Node /\ signin[n].meet \in Request
         /\ signin[n].meet.src \in Name /\ signin[n].peers \subseteq Name
BY IdlePc DEF Types, SigninType, Member, Joining, Request

LEMMA AskingPc ==
  ASSUME Types, NEW s \in Submission, client[s].pc # "idle"
  PROVE  /\ client[s] \in Asking
         /\ client[s].node \in Node /\ client[s].local \in Request
         /\ client[s].local.src \in Name /\ client[s].try \in {0, 1}
BY IdlePc DEF Types, ClientType, Asking, Request

LEMMA ServingPc ==
  ASSUME Types, NEW i \in Series, series[i].pc # "idle"
  PROVE  /\ series[i] \in Serving
         /\ series[i].node \in Node /\ series[i].target \in Name /\ series[i].source \in Name
         /\ series[i].peers \subseteq Name /\ series[i].hellos \subseteq Name
         /\ series[i].raw \in {Empty, Result}
BY IdlePc DEF Types, SeriesType, Serving

LEMMA SeriesKey ==
  ASSUME NEW i \in Series
  PROVE  i[1] \in Submission /\ i[2] \in {0, 1} /\ i = <<i[1], i[2]>>
BY DEF Series

LEMMA NodeOfName ==
  /\ \A a \in Name : Resolve[a] \in Node
  /\ \A n \in Node : Listen[n] \in Name
BY DrccpAssumption

\* A message with its source and its destination set is a request.
LEMMA RequestType ==
  ASSUME NEW type \in {"MEET", "LOCAL"}, NEW g \in Tag, NEW a \in Name, NEW b \in Name
  PROVE  setdest(setsrc(Message(type, g), a), b) \in Request
BY DEF setdest, setsrc, Message, Request

-----------------------------------------------------------------------------
(* Shares                                                                  *)

LEMMA InsertTable ==
  ASSUME NEW f, IsTable(f), NEW a \in Name, NEW v \in Nat
  PROVE  /\ IsTable(Insert(f, a, v))
         /\ DOMAIN Insert(f, a, v) = DOMAIN f \cup {a}
BY DEF IsTable, Insert

LEMMA PutTable ==
  ASSUME NEW f, IsTable(f), NEW a \in Name, NEW v \in Nat
  PROVE  /\ IsTable(Put(f, a, v))
         /\ DOMAIN Put(f, a, v) = DOMAIN f \cup {a}
BY DEF IsTable, Put

LEMMA RaisedTable ==
  ASSUME NEW f, IsTable(f), NEW a \in Name
  PROVE  IsTable(Raised(f, a)) /\ DOMAIN Raised(f, a) = DOMAIN f \cup {a}
<1>1. (IF a \in DOMAIN f THEN f[a] ELSE 0) + 1 \in Nat
  BY DEF IsTable
<1> QED BY <1>1, PutTable DEF Raised

LEMMA ZeroedTable ==
  ASSUME NEW f, IsTable(f), NEW S
  PROVE  IsTable(Zeroed(f, S)) /\ DOMAIN Zeroed(f, S) = DOMAIN f
BY DEF IsTable, Zeroed

\* Shares are set, never taken away.
Grows == \A n \in Node : DOMAIN shares[n] \subseteq DOMAIN shares'[n]

LEMMA SharesUpdate ==
  ASSUME Types, NEW n \in Node, NEW f, IsTable(f), DOMAIN shares[n] \subseteq DOMAIN f,
         shares' = [shares EXCEPT ![n] = f]
  PROVE  SharesType' /\ Grows /\ shares'[n] = f
BY DEF Types, SharesType, Grows

LEMMA HelloFailsShares ==
  ASSUME Types, NEW n \in Node, NEW g, NEW peers, NEW failed, HelloFails(n, g, peers, failed)
  PROVE  /\ SharesType' /\ Grows
         /\ losses' \in 0..MaxLosses /\ losses' >= losses
<1>1. IsTable(shares[n])
  BY DEF Types, SharesType
<1>2. shares' = [shares EXCEPT ![n] = Zeroed(shares[n], failed)]
  BY DEF HelloFails
<1>3. SharesType' /\ Grows
  <2> DEFINE f == Zeroed(shares[n], failed)
  <2>1. IsTable(f) /\ DOMAIN f = DOMAIN shares[n]
    BY <1>1, ZeroedTable
  <2>2. shares' = [shares EXCEPT ![n] = f]
    BY <1>2
  <2> HIDE DEF f
  <2> QED BY <2>1, <2>2, SharesUpdate
<1>4. losses' = losses \/ (losses < MaxLosses /\ losses' = losses + 1)
  BY DEF HelloFails
<1>5. losses' \in 0..MaxLosses /\ losses' >= losses
  BY <1>4, DrccpAssumption DEF Types, BoundType
<1> QED BY <1>3, <1>5

-----------------------------------------------------------------------------
(* The invariant                                                           *)

OwnKnown ==
  \A n \in Node : mode[n] \in {"starting", "up", "stopping"} => Listen[n] \in DOMAIN shares[n]

\* A client that is not over has been handed nothing; a series that is past
\* its forward has had the payload run, and one that is done with it has the
\* result.
AnswersInv ==
  /\ \A s \in Submission : client[s].pc # "over" => callbacks[s] = <<>>
  /\ \A i \in Series : series[i].pc \in {"ran", "back", "forwarded", "answer"} => ran[i[1]] > 0
  /\ \A i \in Series : series[i].pc \in {"forwarded", "answer"} => series[i].raw = Result

\* The runs of its payload a submission may still come to without a loss.
ClientDue(s) == IF client[s].pc \in {"idle", "local"} THEN 1 ELSE 0
SeriesDue(i) == IF series[i].pc \in {"forward", "sent"} THEN 1 ELSE 0
RunsInv ==
  \A s \in Submission :
    ran[s] + ClientDue(s) + SeriesDue(<<s, 0>>) + SeriesDue(<<s, 1>>) <= 1 + losses

DrccpInv == Types /\ OwnKnown /\ AnswersInv /\ AnswerIsResult /\ RunsInv

LEMMA DueNat ==
  /\ \A s : ClientDue(s) \in {0, 1} /\ ClientDue(s)' \in {0, 1}
  /\ \A i : SeriesDue(i) \in {0, 1} /\ SeriesDue(i)' \in {0, 1}
BY DEF ClientDue, SeriesDue

\* A step at series i and its client keeps the account when what the two
\* gain is paid for by losses.
LEMMA AccountKept ==
  ASSUME Types, BoundType', HistoryType', RunsInv, NEW i \in Series,
         \A j \in Series : j # i => SeriesDue(j)' = SeriesDue(j),
         \A s \in Submission : s # i[1] => ran'[s] = ran[s] /\ ClientDue(s)' = ClientDue(s),
         losses' >= losses,
         ran'[i[1]] + ClientDue(i[1])' + SeriesDue(i)' + losses
           <= ran[i[1]] + ClientDue(i[1]) + SeriesDue(i) + losses'
  PROVE  RunsInv'
<1>1. /\ losses \in Nat /\ losses' \in Nat
      /\ \A s \in Submission : ran[s] \in Nat /\ ran'[s] \in Nat
  BY DrccpAssumption DEF Types, BoundType, HistoryType
<1>2. SUFFICES ASSUME NEW s \in Submission
               PROVE  ran'[s] + ClientDue(s)' + SeriesDue(<<s, 0>>)' + SeriesDue(<<s, 1>>)'
                        <= 1 + losses'
  BY DEF RunsInv, SeriesDue, ClientDue
<1>3. ran[s] + ClientDue(s) + SeriesDue(<<s, 0>>) + SeriesDue(<<s, 1>>) <= 1 + losses
  BY DEF RunsInv
<1>4. <<s, 0>> \in Series /\ <<s, 1>> \in Series /\ <<s, 0>> # <<s, 1>>
  BY DEF Series
<1>5. i[1] \in Submission /\ i[2] \in {0, 1} /\ i = <<i[1], i[2]>>
  BY SeriesKey
<1>6. CASE s # i[1]
  <2>1. <<s, 0>> # i /\ <<s, 1>> # i
    BY <1>5, <1>6
  <2> QED BY <1>1, <1>3, <1>4, <1>6, <2>1, DueNat
<1>7. CASE s = i[1] /\ i[2] = 0
  <2>1. i = <<s, 0>>
    BY <1>5, <1>7
  <2> QED BY <1>1, <1>3, <1>4, <1>7, <2>1, DueNat
<1>8. CASE s = i[1] /\ i[2] = 1
  <2>1. i = <<s, 1>>
    BY <1>5, <1>8
  <2> QED BY <1>1, <1>3, <1>4, <1>8, <2>1, DueNat
<1> QED BY <1>5, <1>6, <1>7, <1>8

\* Steps that leave submissions and series alone.
LEMMA SubmissionsSame ==
  ASSUME DrccpInv, UNCHANGED <<client, series, ran, callbacks>>,
         losses' \in 0..MaxLosses, losses' >= losses
  PROVE  /\ ClientType' /\ SeriesType' /\ HistoryType'
         /\ AnswersInv' /\ AnswerIsResult' /\ RunsInv'
<1>1. ClientType' /\ SeriesType' /\ HistoryType'
  BY DEF DrccpInv, Types, ClientType, SeriesType, HistoryType
<1>2. AnswersInv' /\ AnswerIsResult'
  BY DEF DrccpInv, AnswersInv, AnswerIsResult
<1>3. RunsInv'
  <2>1. SUFFICES ASSUME NEW s \in Submission
                 PROVE  ran[s] + ClientDue(s) + SeriesDue(<<s, 0>>) + SeriesDue(<<s, 1>>)
                          <= 1 + losses'
    BY DEF RunsInv, ClientDue, SeriesDue
  <2>2. ran[s] + ClientDue(s) + SeriesDue(<<s, 0>>) + SeriesDue(<<s, 1>>) <= 1 + losses
    BY DEF DrccpInv, RunsInv
  <2>3. losses \in Nat /\ losses' \in Nat /\ ran[s] \in Nat
    BY DrccpAssumption DEF DrccpInv, Types, BoundType, HistoryType
  <2> QED BY <2>2, <2>3, DueNat
<1> QED BY <1>1, <1>2, <1>3

\* A node that takes requests keeps its own share.
LEMMA OwnKept ==
  ASSUME DrccpInv, Grows,
         \A n \in Node : mode'[n] = mode[n] \/ mode'[n] \in {"down", "crashed"}
                         \/ mode[n] \in {"starting", "up"}
  PROVE  OwnKnown'
BY DEF DrccpInv, OwnKnown, Grows

-----------------------------------------------------------------------------
(* Nodes start, stop, join and leave                                       *)

NodeAction ==
  \/ \E n \in Node : start(n) \/ Listening(n) \/ stop(n) \/ Stopped(n) \/ logout(n)
  \/ \E n \in Node, g \in Tag \ {NoTag}, addr \in Name : SigninCall(n, g, addr)
  \/ \E n \in Node : Join(n)

LEMMA NodeStep ==
  ASSUME DrccpInv, NodeAction
  PROVE  DrccpInv'
<1>0. /\ Types /\ OwnKnown
      /\ ModeType /\ TagType /\ SharesType /\ SigninType /\ BoundType
  BY DEF DrccpInv, Types
\* What is left to show of a step that has no part in a submission.
<1>a. ASSUME UNCHANGED <<client, series, ran, callbacks>>, BoundType', losses' >= losses,
             ModeType', TagType', SharesType', SigninType', OwnKnown'
      PROVE  DrccpInv'
  BY <1>a, SubmissionsSame DEF DrccpInv, Types, BoundType
<1>b. ASSUME UNCHANGED shares
      PROVE  SharesType' /\ Grows
  BY <1>0, <1>b DEF SharesType, Grows
<1>c. ASSUME UNCHANGED <<losses, joins>>
      PROVE  BoundType' /\ losses' >= losses
  BY <1>0, <1>c, DrccpAssumption DEF BoundType
<1>1. ASSUME NEW n \in Node, start(n)
      PROVE  DrccpInv'
  <2>1. /\ UNCHANGED <<tag, signin, client, series, losses, joins, ran, callbacks>>
        /\ mode' = [mode EXCEPT ![n] = "starting"]
        /\ shares' = [shares EXCEPT ![n] = Insert(shares[n], Listen[n], 2)]
    BY <1>1 DEF start, history
  <2> DEFINE f == Insert(shares[n], Listen[n], 2)
  <2>2. IsTable(f) /\ DOMAIN f = DOMAIN shares[n] \cup {Listen[n]}
    BY <1>0, InsertTable, NodeOfName DEF SharesType
  <2>3. shares' = [shares EXCEPT ![n] = f]
    BY <2>1
  <2> HIDE DEF f
  <2>4. SharesType' /\ Grows /\ shares'[n] = f
    BY <1>0, <2>2, <2>3, SharesUpdate
  <2>5. ModeType' /\ TagType' /\ SigninType'
    BY <1>0, <2>1 DEF ModeType, TagType, SigninType, Mode
  <2>6. OwnKnown'
    BY <1>0, <2>1, <2>2, <2>4 DEF OwnKnown, ModeType, Grows
  <2> QED BY <1>a, <1>c, <2>1, <2>4, <2>5, <2>6
<1>2. ASSUME NEW n \in Node, Listening(n) \/ stop(n) \/ Stopped(n)
      PROVE  DrccpInv'
  <2>1. /\ UNCHANGED <<tag, shares, signin, client, series, losses, joins, ran, callbacks>>
        /\ \/ mode[n] = "starting" /\ mode' = [mode EXCEPT ![n] = "up"]
           \/ mode[n] = "up" /\ mode' = [mode EXCEPT ![n] = "stopping"]
           \/ mode' = [mode EXCEPT ![n] = "down"]
    BY <1>2 DEF Listening, stop, Stopped, history
  <2>2. ModeType' /\ TagType' /\ SigninType'
    BY <1>0, <2>1 DEF ModeType, TagType, SigninType, Mode
  <2>3. OwnKnown'
    BY <1>0, <1>b, <2>1, OwnKept DEF ModeType
  <2> QED BY <1>a, <1>b, <1>c, <2>1, <2>2, <2>3
<1>3. ASSUME NEW n \in Node, logout(n)
      PROVE  DrccpInv'
  <2>1. /\ UNCHANGED <<mode, shares, signin, client, series, losses, joins, ran, callbacks>>
        /\ tag' = [tag EXCEPT ![n] = NoTag]
    BY <1>3 DEF logout, history
  <2>2. ModeType' /\ TagType' /\ SigninType'
    BY <1>0, <2>1, DrccpAssumption DEF ModeType, TagType, SigninType
  <2>3. OwnKnown'
    BY <1>b, <2>1, OwnKept
  <2> QED BY <1>a, <1>b, <1>c, <2>1, <2>2, <2>3
<1>4. ASSUME NEW n \in Node, NEW g \in Tag \ {NoTag}, NEW addr \in Name, SigninCall(n, g, addr)
      PROVE  DrccpInv'
  <2> DEFINE m == setdest(setsrc(Message("MEET", g), Listen[n]), addr)
  <2>1. /\ UNCHANGED <<mode, shares, client, series, losses, ran, callbacks>>
        /\ tag' = [tag EXCEPT ![n] = g] /\ joins < MaxJoins /\ joins' = joins + 1
        /\ signin' = [signin EXCEPT ![n] = [pc |-> "meet", tries |-> 0, boot |-> Resolve[addr],
                                            peers |-> {}, meet |-> m]]
    BY <1>4 DEF SigninCall
  <2>2. m \in Request /\ Resolve[addr] \in Node
    BY RequestType, NodeOfName
  <2> HIDE DEF m
  <2>3. [pc |-> "meet", tries |-> 0, boot |-> Resolve[addr], peers |-> {}, meet |-> m] \in Joining
    BY <2>2 DEF Joining
  <2>4. ModeType' /\ TagType' /\ SigninType'
    BY <1>0, <2>1, <2>3 DEF ModeType, TagType, SigninType
  <2>5. BoundType' /\ losses' >= losses
    BY <1>0, <2>1, DrccpAssumption DEF BoundType
  <2>6. OwnKnown'
    BY <1>b, <2>1, OwnKept
  <2> QED BY <1>a, <1>b, <2>1, <2>4, <2>5, <2>6
<1>5. ASSUME NEW n \in Node, RecvMeet(n)
      PROVE  DrccpInv'
  <2>1. signin[n] \in Joining /\ signin[n].boot \in Node /\ signin[n].meet.src \in Name
    BY <1>0, <1>5, JoiningPc DEF RecvMeet
  <2> DEFINE boot == signin[n].boot
             f == Insert(shares[boot], signin[n].meet.src, 2)
  <2>2. /\ UNCHANGED <<mode, tag, client, series, losses, joins, ran, callbacks>>
        /\ shares' = [shares EXCEPT ![boot] = f]
        /\ signin' = [signin EXCEPT ![n].pc = "hello", ![n].peers = Neighbours(boot, f)]
    BY <1>5 DEF RecvMeet, history
  <2>3. IsTable(f) /\ DOMAIN shares[boot] \subseteq DOMAIN f
    <3>1. IsTable(shares[boot])
      BY <1>0, <2>1 DEF SharesType
    <3> QED BY <2>1, <3>1 DEF IsTable, Insert
  <2> HIDE DEF f
  <2>4. SharesType' /\ Grows
    BY <1>0, <2>1, <2>2, <2>3, SharesUpdate
  <2>5. Neighbours(boot, f) \subseteq Name
    BY <2>3 DEF Neighbours, IsTable
  <2>6. ModeType' /\ TagType' /\ SigninType'
    <3>1. [signin[n] EXCEPT !.pc = "hello", !.peers = Neighbours(boot, f)] \in Joining
      BY <2>1, <2>5 DEF Joining
    <3>2. signin' = [signin EXCEPT ![n] =
                       [signin[n] EXCEPT !.pc = "hello", !.peers = Neighbours(boot, f)]]
      BY <1>0, <2>2 DEF SigninType
    <3> QED BY <1>0, <2>2, <3>1, <3>2 DEF ModeType, TagType, SigninType
  <2>7. OwnKnown'
    BY <2>2, <2>4, OwnKept
  <2> QED BY <1>a, <1>c, <2>2, <2>4, <2>6, <2>7
<1>6. ASSUME NEW n \in Node, SigninSucceeds(n) \/ SigninReturns(n)
      PROVE  DrccpInv'
  <2>1. /\ UNCHANGED <<mode, tag, shares, client, series, losses, joins, ran, callbacks>>
        /\ \/ /\ signin[n].pc = "alive"
              /\ signin' = [signin EXCEPT ![n] = [pc |-> "member", boot |-> signin[n].boot]]
           \/ signin' = [signin EXCEPT ![n] = Idle]
    BY <1>6 DEF SigninSucceeds, SigninReturns, history
  <2>2. signin[n].pc = "alive" => [pc |-> "member", boot |-> signin[n].boot] \in Member
    BY <1>0, JoiningPc DEF Member
  <2>3. ModeType' /\ TagType' /\ SigninType'
    BY <1>0, <2>1, <2>2 DEF ModeType, TagType, SigninType
  <2>4. OwnKnown'
    BY <1>b, <2>1, OwnKept
  <2> QED BY <1>a, <1>b, <1>c, <2>1, <2>3, <2>4
<1>7. ASSUME NEW n \in Node, SigninFails(n)
      PROVE  DrccpInv'
  <2>1. UNCHANGED <<mode, shares, client, series, joins, ran, callbacks>>
    BY <1>7 DEF SigninFails, history
  <2>2. signin[n] \in Joining
    BY <1>0, <1>7, JoiningPc DEF SigninFails
  <2>3. losses' = losses \/ (losses < MaxLosses /\ losses' = losses + 1)
    BY <1>7 DEF SigninFails
  <2>4. BoundType' /\ losses' >= losses
    BY <1>0, <2>1, <2>3, DrccpAssumption DEF BoundType
  <2>5. tag' = tag \/ tag' = [tag EXCEPT ![n] = NoTag]
    BY <1>7 DEF SigninFails
  <2>6. \/ signin' = [signin EXCEPT ![n].pc = "meet", ![n].tries = 1]
        \/ signin' = [signin EXCEPT ![n] = Idle]
    BY <1>7 DEF SigninFails
  <2>7. SigninType'
    <3>1. [signin[n] EXCEPT !.pc = "meet", !.tries = 1] \in Joining
      BY <2>2 DEF Joining
    <3>2. \/ signin' = [signin EXCEPT ![n] = [signin[n] EXCEPT !.pc = "meet", !.tries = 1]]
          \/ signin' = [signin EXCEPT ![n] = Idle]
      BY <1>0, <2>6 DEF SigninType
    <3> QED BY <1>0, <3>1, <3>2 DEF SigninType
  <2>8. ModeType' /\ TagType'
    BY <1>0, <2>1, <2>5, DrccpAssumption DEF ModeType, TagType
  <2>9. OwnKnown'
    BY <1>b, <2>1, OwnKept
  <2> QED BY <1>a, <1>b, <2>1, <2>4, <2>7, <2>8, <2>9
<1>8. ASSUME NEW n \in Node, NEW failed \in SUBSET Name, MeetHello(n, failed)
      PROVE  DrccpInv'
  <2>1. /\ UNCHANGED <<mode, tag, client, series, joins, ran, callbacks>>
        /\ signin' = [signin EXCEPT ![n].pc = "alive"]
        /\ HelloFails(signin[n].boot, signin[n].meet.tag, signin[n].peers, failed)
    BY <1>8 DEF MeetHello, history
  <2>2. signin[n] \in Joining /\ signin[n].boot \in Node
    BY <1>0, <1>8, JoiningPc DEF MeetHello
  <2>3. SharesType' /\ Grows /\ losses' \in 0..MaxLosses /\ losses' >= losses
    BY <1>0, <2>1, <2>2, HelloFailsShares
  <2>4. ModeType' /\ TagType' /\ SigninType'
    <3>1. [signin[n] EXCEPT !.pc = "alive"] \in Joining
      BY <2>2 DEF Joining
    <3>2. signin' = [signin EXCEPT ![n] = [signin[n] EXCEPT !.pc = "alive"]]
      BY <2>1
    <3> QED BY <1>0, <2>1, <3>1, <3>2 DEF ModeType, TagType, SigninType
  <2>5. BoundType'
    BY <1>0, <2>1, <2>3 DEF BoundType
  <2>6. OwnKnown'
    BY <2>1, <2>3, OwnKept
  <2> QED BY <1>a, <2>1, <2>3, <2>4, <2>5, <2>6
<1> QED
  BY <1>1, <1>2, <1>3, <1>4, <1>5, <1>6, <1>7, <1>8 DEF NodeAction, Join

-----------------------------------------------------------------------------
(* Submissions                                                             *)

\* A step at series i that leaves the client alone.
LEMMA SeriesMoves ==
  ASSUME Types, NEW i \in Series, NEW r \in {Idle} \cup Serving,
         series' = [series EXCEPT ![i] = r]
  PROVE  /\ SeriesType' /\ series'[i] = r
         /\ \A j \in Series : j # i => series'[j] = series[j] /\ SeriesDue(j)' = SeriesDue(j)
BY DEF Types, SeriesType, SeriesDue

LEMMA AnswersKept ==
  ASSUME DrccpInv, HistoryType', NEW i \in Series, UNCHANGED <<client, callbacks>>,
         \A j \in Series : j # i => series'[j] = series[j],
         \A s \in Submission : ran'[s] >= ran[s],
         series'[i].pc \in {"ran", "back", "forwarded", "answer"} => ran'[i[1]] > 0,
         series'[i].pc \in {"forwarded", "answer"} => series'[i].raw = Result
  PROVE  AnswersInv' /\ AnswerIsResult'
<1>1. \A s \in Submission : ran[s] \in Nat /\ ran'[s] \in Nat
  BY DEF DrccpInv, Types, HistoryType
<1>2. \A s \in Submission : ran[s] > 0 => ran'[s] > 0
  BY <1>1
<1>3. AnswerIsResult'
  BY <1>2 DEF DrccpInv, AnswerIsResult
<1>4. \A j \in Series : series'[j].pc \in {"ran", "back", "forwarded", "answer"} => ran'[j[1]] > 0
  BY <1>2, SeriesKey DEF DrccpInv, AnswersInv
<1>5. /\ \A s \in Submission : client'[s].pc # "over" => callbacks'[s] = <<>>
      /\ \A j \in Series : series'[j].pc \in {"forwarded", "answer"} => series'[j].raw = Result
  BY DEF DrccpInv, AnswersInv
<1> QED BY <1>3, <1>4, <1>5 DEF AnswersInv

\* The steps of a series, and what is left to show of one that neither ends
\* it nor runs the payload.
LEMMA SeriesStep ==
  ASSUME DrccpInv, NEW i \in Series, NEW r \in Serving, series' = [series EXCEPT ![i] = r],
         UNCHANGED <<mode, tag, signin, client, joins, ran, callbacks>>,
         SharesType', Grows, losses' \in 0..MaxLosses, losses' >= losses,
         SeriesDue(i)' + losses <= SeriesDue(i) + losses',
         r.pc \in {"ran", "back", "forwarded", "answer"} => ran[i[1]] > 0,
         r.pc \in {"forwarded", "answer"} => r.raw = Result
  PROVE  DrccpInv'
<1>0. Types /\ RunsInv
  BY DEF DrccpInv
<1>1. /\ SeriesType' /\ series'[i] = r
      /\ \A j \in Series : j # i => series'[j] = series[j] /\ SeriesDue(j)' = SeriesDue(j)
  BY <1>0, SeriesMoves
<1>2. ModeType' /\ TagType' /\ SigninType' /\ ClientType' /\ BoundType' /\ HistoryType'
  BY <1>0 DEF Types, ModeType, TagType, SigninType, ClientType, BoundType, HistoryType
<1>3. OwnKnown'
  BY OwnKept
<1>4. \A s \in Submission : ran'[s] = ran[s] /\ ran[s] \in Nat /\ ClientDue(s)' = ClientDue(s)
  BY <1>0 DEF Types, HistoryType, ClientDue
<1>5. AnswersInv' /\ AnswerIsResult'
  <2>1. \A s \in Submission : ran'[s] >= ran[s]
    BY <1>4
  <2> QED BY <1>1, <1>2, <2>1, AnswersKept
<1>6. RunsInv'
  <2>1. i[1] \in Submission /\ losses \in Nat /\ losses' \in Nat
    BY <1>0, SeriesKey, DrccpAssumption DEF Types, BoundType
  <2>2. ran'[i[1]] + ClientDue(i[1])' + SeriesDue(i)' + losses
          <= ran[i[1]] + ClientDue(i[1]) + SeriesDue(i) + losses'
    BY <1>4, <2>1, DueNat
  <2> QED BY <1>0, <1>1, <1>2, <1>4, <2>2, AccountKept
<1> QED BY <1>1, <1>2, <1>3, <1>5, <1>6 DEF DrccpInv, Types

LEMMA RepeaterStep ==
  ASSUME DrccpInv, NEW i \in Series, forward_task_repeater(i)
  PROVE  DrccpInv'
<1>0. Types
  BY DEF DrccpInv
<1>1. series[i] \in Serving /\ series[i].node \in Node /\ series[i].source \in Name
  BY <1>0, ServingPc DEF forward_task_repeater
<1> DEFINE r == [series[i] EXCEPT !.pc = "sent", !.sent = 0,
                   !.target = select_best_target(series[i].node, series[i].source),
                   !.tag = tag[series[i].node]]
<1>2. select_best_target(series[i].node, series[i].source) \in Name
  BY <1>1, NodeOfName DEF select_best_target
<1>3. tag[series[i].node] \in Tag
  BY <1>0, <1>1 DEF Types, TagType
<1>4. r \in Serving /\ r.pc = "sent"
  BY <1>1, <1>2, <1>3 DEF Serving
<1>5. /\ UNCHANGED <<mode, tag, shares, signin, client, losses, joins, ran, callbacks>>
      /\ series[i].pc = "forward"
      /\ series' = [series EXCEPT ![i] = r]
  BY <1>0 DEF forward_task_repeater, history, Types, SeriesType
<1> HIDE DEF r
<1>6. SharesType' /\ Grows /\ losses' \in 0..MaxLosses /\ losses' >= losses /\ losses \in Nat
  BY <1>0, <1>5, DrccpAssumption DEF Types, SharesType, BoundType, Grows
<1>7. SeriesDue(i) = 1
  BY <1>5 DEF SeriesDue
<1>8. SeriesDue(i)' + losses <= SeriesDue(i) + losses'
  BY <1>5, <1>6, <1>7, DueNat
<1> QED BY <1>4, <1>5, <1>6, <1>8, SeriesStep

LEMMA ForwardedStep ==
  ASSUME DrccpInv, NEW i \in Series, Forwarded(i)
  PROVE  DrccpInv'
<1>0. Types /\ AnswersInv
  BY DEF DrccpInv
<1>1. series[i] \in Serving /\ series[i].node \in Node /\ series[i].target \in Name
  BY <1>0, ServingPc DEF Forwarded
<1> DEFINE r == [series[i] EXCEPT !.pc = "forwarded", !.raw = Result]
           n == series[i].node
           f == Raised(shares[n], series[i].target)
<1>2. r \in Serving /\ r.pc = "forwarded" /\ r.raw = Result
  BY <1>1 DEF Serving
<1>3. /\ UNCHANGED <<mode, tag, signin, client, losses, joins, ran, callbacks>>
      /\ series[i].pc = "back"
      /\ series' = [series EXCEPT ![i] = r]
      /\ shares' = [shares EXCEPT ![n] = f]
  BY <1>0 DEF Forwarded, history, Types, SeriesType
<1>4. IsTable(f) /\ DOMAIN shares[n] \subseteq DOMAIN f
  <2>1. IsTable(shares[n])
    BY <1>0, <1>1 DEF Types, SharesType
  <2> QED BY <1>1, <2>1, RaisedTable
<1> HIDE DEF r, f
<1>5. SharesType' /\ Grows
  BY <1>0, <1>1, <1>3, <1>4, SharesUpdate
<1>6. losses' \in 0..MaxLosses /\ losses' >= losses /\ losses \in Nat
  BY <1>0, <1>3, DrccpAssumption DEF Types, BoundType
<1>7. series'[i] = r
  BY <1>0, <1>2, <1>3, SeriesMoves
<1>8. SeriesDue(i)' = 0
  BY <1>2, <1>7 DEF SeriesDue
<1>9. SeriesDue(i)' + losses <= SeriesDue(i) + losses'
  BY <1>3, <1>6, <1>8, DueNat
<1>10. ran[i[1]] > 0
  BY <1>0, <1>3 DEF AnswersInv
<1> QED BY <1>2, <1>3, <1>5, <1>6, <1>9, <1>10, SeriesStep

\* A forward that may have been run costs a loss before it is sent again.
LEMMA ForwardFailsStep ==
  ASSUME DrccpInv, NEW i \in Series, ForwardFails(i)
  PROVE  DrccpInv'
<1>0. Types
  BY DEF DrccpInv
<1>1. series[i] \in Serving /\ series[i].node \in Node /\ series[i].target \in Name
  BY <1>0, ServingPc DEF ForwardFails
<1>2. UNCHANGED <<mode, tag, signin, client, joins, ran, callbacks>>
  BY DEF ForwardFails, history
<1>3. \/ losses < MaxLosses /\ losses' = losses + 1
      \/ series[i].pc = "sent" /\ losses' = losses
  BY DEF ForwardFails
<1>4. losses \in Nat /\ losses' \in 0..MaxLosses /\ losses' \in Nat /\ losses' >= losses
  BY <1>0, <1>3, DrccpAssumption DEF Types, BoundType
<1>5. SeriesDue(i)' + losses <= SeriesDue(i) + losses'
  <2>1. CASE series[i].pc = "sent"
    <3>1. SeriesDue(i) = 1
      BY <2>1 DEF SeriesDue
    <3> QED BY <1>4, <3>1, DueNat
  <2>2. CASE losses' = losses + 1
    BY <1>4, <2>2, DueNat
  <2> QED BY <1>3, <2>1, <2>2
<1>6. CASE series[i].sent = 0
  <2> DEFINE r == [series[i] EXCEPT !.pc = "sent", !.sent = 1]
  <2>1. r \in Serving /\ r.pc = "sent"
    BY <1>1 DEF Serving
  <2>2. series' = [series EXCEPT ![i] = r] /\ shares' = shares
    BY <1>0, <1>6 DEF ForwardFails, Types, SeriesType
  <2> HIDE DEF r
  <2>3. SharesType' /\ Grows
    BY <1>0, <2>2 DEF Types, SharesType, Grows
  <2> QED BY <1>2, <1>4, <1>5, <2>1, <2>2, <2>3, SeriesStep
<1>7. CASE series[i].sent # 0
  <2> DEFINE r == [series[i] EXCEPT !.pc = "forward"]
             n == series[i].node
             f == Put(shares[n], series[i].target, 0)
  <2>1. r \in Serving /\ r.pc = "forward"
    BY <1>1 DEF Serving
  <2>2. series' = [series EXCEPT ![i] = r] /\ shares' = [shares EXCEPT ![n] = f]
    BY <1>0, <1>7 DEF ForwardFails, Types, SeriesType
  <2>3. IsTable(f) /\ DOMAIN shares[n] \subseteq DOMAIN f
    <3>1. IsTable(shares[n])
      BY <1>0, <1>1 DEF Types, SharesType
    <3> QED BY <1>1, <3>1 DEF IsTable, Put
  <2> HIDE DEF r, f
  <2>4. SharesType' /\ Grows
    BY <1>0, <1>1, <2>2, <2>3, SharesUpdate
  <2> QED BY <1>2, <1>4, <1>5, <2>1, <2>2, <2>4, SeriesStep
<1> QED BY <1>6, <1>7

LEMMA SeriesHelloStep ==
  ASSUME DrccpInv, NEW i \in Series, NEW failed \in SUBSET Name, SeriesHello(i, failed)
  PROVE  DrccpInv'
<1>0. Types /\ AnswersInv
  BY DEF DrccpInv
<1>1. /\ UNCHANGED <<mode, tag, signin, client, joins, ran, callbacks>>
      /\ series[i].pc \in {"ran", "forwarded"}
  BY DEF SeriesHello, history
<1>2. series[i] \in Serving /\ series[i].node \in Node /\ Resolve[series[i].target] \in Node
  BY <1>0, <1>1, ServingPc, NodeOfName
<1>3. SharesType' /\ Grows /\ losses' \in 0..MaxLosses /\ losses' >= losses
  <2>1. \E n \in Node : \E g, peers : HelloFails(n, g, peers, failed)
    BY <1>2 DEF SeriesHello
  <2> QED BY <1>0, <2>1, HelloFailsShares
<1>4. PICK p \in {"back", "answer"} : /\ series' = [series EXCEPT ![i].pc = p]
                                      /\ p = "answer" => series[i].pc = "forwarded"
  BY DEF SeriesHello
<1> DEFINE r == [series[i] EXCEPT !.pc = p]
<1>5. r \in Serving /\ r.pc = p /\ r.raw = series[i].raw
  BY <1>2 DEF Serving
<1>6. series' = [series EXCEPT ![i] = r]
  BY <1>4
<1> HIDE DEF r
<1>7. series'[i] = r
  BY <1>0, <1>5, <1>6, SeriesMoves
<1>8. SeriesDue(i)' = 0
  BY <1>5, <1>7 DEF SeriesDue
<1>9. losses \in Nat /\ losses' \in Nat
  BY <1>0, <1>3, DrccpAssumption DEF Types, BoundType
<1>10. SeriesDue(i)' + losses <= SeriesDue(i) + losses'
  BY <1>3, <1>8, <1>9, DueNat
<1>11. ran[i[1]] > 0 /\ (p = "answer" => r.raw = Result)
  BY <1>0, <1>1, <1>4, <1>5 DEF AnswersInv
<1> QED BY <1>1, <1>3, <1>5, <1>6, <1>10, <1>11, SeriesStep

\* The run that was due has been made.
LEMMA RecvForwardStep ==
  ASSUME DrccpInv, NEW i \in Series, RecvForward(i)
  PROVE  DrccpInv'
<1>0. Types /\ RunsInv
  BY DEF DrccpInv
<1>1. series[i] \in Serving /\ series[i].target \in Name /\ i[1] \in Submission
  BY <1>0, ServingPc, SeriesKey DEF RecvForward
<1> DEFINE n == Resolve[series[i].target]
           f == Raised(shares[n], Listen[n])
           hellos == Neighbours(n, shares'[n])
           r == [series[i] EXCEPT !.pc = "ran", !.hellos = hellos]
<1>2. n \in Node /\ Listen[n] \in Name
  BY <1>1, NodeOfName
<1>3. /\ UNCHANGED <<mode, tag, signin, client, losses, joins, callbacks>>
      /\ series[i].pc = "sent"
      /\ series' = [series EXCEPT ![i].pc = "ran", ![i].hellos = hellos]
      /\ shares' = [shares EXCEPT ![n] = f]
      /\ ran' = [ran EXCEPT ![i[1]] = ran[i[1]] + 1]
  BY DEF RecvForward
<1>4. IsTable(f) /\ DOMAIN shares[n] \subseteq DOMAIN f
  <2>1. IsTable(shares[n])
    BY <1>0, <1>2 DEF Types, SharesType
  <2> QED BY <1>2, <2>1, RaisedTable
<1> HIDE DEF n, f
<1>5. SharesType' /\ Grows /\ shares'[n] = f
  BY <1>0, <1>2, <1>3, <1>4, SharesUpdate
<1>6. hellos \subseteq Name
  BY <1>4, <1>5 DEF Neighbours, IsTable
<1> HIDE DEF hellos
<1>7. PICK v \in Serving : v = r /\ v.pc = "ran"
  <2>1. r \in Serving /\ r.pc = "ran"
    BY <1>1, <1>6 DEF Serving
  <2> HIDE DEF r
  <2> QED BY <2>1
<1>8. series' = [series EXCEPT ![i] = v]
  <2>1. series' = [series EXCEPT ![i].pc = "ran", ![i].hellos = hellos]
    BY <1>3
  <2> QED BY <1>0, <1>7, <2>1 DEF Types, SeriesType
<1>9. /\ SeriesType' /\ series'[i] = v
      /\ \A j \in Series : j # i => series'[j] = series[j] /\ SeriesDue(j)' = SeriesDue(j)
  BY <1>0, <1>8, SeriesMoves
<1>10. HistoryType' /\ \A s \in Submission : ran[s] \in Nat /\ (s # i[1] => ran'[s] = ran[s])
  BY <1>0, <1>1, <1>3 DEF Types, HistoryType
<1>11. ran'[i[1]] = ran[i[1]] + 1 /\ ran'[i[1]] > 0 /\ ran[i[1]] \in Nat
  BY <1>0, <1>1, <1>3 DEF Types, HistoryType
<1>12. ModeType' /\ TagType' /\ SigninType' /\ ClientType' /\ BoundType' /\ losses \in Nat
  BY <1>0, <1>3, DrccpAssumption
  DEF Types, ModeType, TagType, SigninType, ClientType, BoundType
<1>13. OwnKnown'
  BY <1>3, <1>5, OwnKept
<1>14. AnswersInv' /\ AnswerIsResult'
  <2>1. \A s \in Submission : ran'[s] >= ran[s]
    BY <1>10, <1>11
  <2> QED BY <1>3, <1>7, <1>9, <1>10, <1>11, <2>1, AnswersKept
<1>15. RunsInv'
  <2>1. SeriesDue(i) = 1 /\ SeriesDue(i)' = 0
    BY <1>3, <1>7, <1>9 DEF SeriesDue
  <2>2. \A s \in Submission : ClientDue(s)' = ClientDue(s)
    BY <1>3 DEF ClientDue
  <2>3. ran'[i[1]] + ClientDue(i[1])' + SeriesDue(i)' + losses
          <= ran[i[1]] + ClientDue(i[1]) + SeriesDue(i) + losses'
    BY <1>1, <1>3, <1>11, <1>12, <2>1, <2>2, DueNat
  <2>4. losses' >= losses
    BY <1>3, <1>12
  <2> QED BY <1>0, <1>9, <1>10, <1>12, <2>2, <2>3, <2>4, AccountKept
<1> QED BY <1>5, <1>9, <1>10, <1>12, <1>13, <1>14, <1>15 DEF DrccpInv, Types

\* Steps of the client alone change neither nodes nor shares.
LEMMA NodesSame ==
  ASSUME DrccpInv, UNCHANGED <<mode, tag, shares, signin>>
  PROVE  ModeType' /\ TagType' /\ SharesType' /\ SigninType' /\ OwnKnown'
BY DEF DrccpInv, Types, ModeType, TagType, SharesType, SigninType, OwnKnown

LEMMA ClientMoves ==
  ASSUME Types, NEW s \in Submission, NEW c \in {Idle} \cup Asking,
         client' = [client EXCEPT ![s] = c]
  PROVE  /\ ClientType' /\ client'[s] = c
         /\ \A t \in Submission : t # s => client'[t] = client[t] /\ ClientDue(t)' = ClientDue(t)
BY DEF Types, ClientType, ClientDue

LEMMA SubmitStep ==
  ASSUME DrccpInv, NEW s \in Submission, NEW n \in Node, NEW origin \in Name, submit(s, n, origin)
  PROVE  DrccpInv'
<1>0. Types /\ RunsInv /\ AnswersInv /\ AnswerIsResult
  BY DEF DrccpInv
<1> DEFINE m == setdest(setsrc(Message("LOCAL", tag[n]), origin), Listen[n])
           c == [pc |-> "local", try |-> 0, node |-> n, local |-> m]
<1>1. /\ UNCHANGED <<mode, tag, shares, signin, series, losses, joins, ran, callbacks>>
      /\ client[s] = Idle /\ client' = [client EXCEPT ![s] = c]
  BY DEF submit, history
<1>2. m \in Request
  <2>1. PICK g \in Tag : g = tag[n]
    BY <1>0 DEF Types, TagType
  <2> QED BY <2>1, RequestType, NodeOfName
<1> HIDE DEF m
<1>3. c \in Asking /\ c.pc = "local"
  BY <1>2 DEF Asking
<1> HIDE DEF c
<1>4. /\ ClientType' /\ client'[s] = c
      /\ \A t \in Submission : t # s => client'[t] = client[t] /\ ClientDue(t)' = ClientDue(t)
  BY <1>0, <1>1, <1>3, ClientMoves
<1>5. SeriesType' /\ BoundType' /\ HistoryType' /\ losses \in Nat /\ ran[s] \in Nat
  BY <1>0, <1>1, DrccpAssumption DEF Types, SeriesType, BoundType, HistoryType
<1>6. AnswersInv' /\ AnswerIsResult'
  <2>1. callbacks[s] = <<>>
    BY <1>0, <1>1, IdlePc DEF AnswersInv
  <2> QED BY <1>0, <1>1, <1>4, <2>1 DEF AnswersInv, AnswerIsResult
<1>7. RunsInv'
  <2> DEFINE i == <<s, 0>>
  <2>1. i \in Series /\ i[1] = s
    BY DEF Series
  <2>2. ClientDue(s) = 1
    BY <1>1, IdlePc DEF ClientDue
  <2>3. \A j \in Series : SeriesDue(j)' = SeriesDue(j)
    BY <1>1 DEF SeriesDue
  <2> HIDE DEF i
  <2>4. ran'[s] + ClientDue(s)' + SeriesDue(i)' + losses
          <= ran[s] + ClientDue(s) + SeriesDue(i) + losses'
    BY <1>1, <1>5, <2>1, <2>2, <2>3, DueNat
  <2>5. losses' >= losses /\ \A t \in Submission : ran'[t] = ran[t]
    BY <1>1, <1>5
  <2> QED BY <1>0, <1>4, <1>5, <2>1, <2>3, <2>4, <2>5, AccountKept
<1>8. ModeType' /\ TagType' /\ SharesType' /\ SigninType' /\ OwnKnown'
  BY <1>1, NodesSame
<1> QED BY <1>4, <1>5, <1>6, <1>7, <1>8 DEF DrccpInv, Types

\* The client's due passes to the series that begins.
LEMMA RecvLocalStep ==
  ASSUME DrccpInv, NEW s \in Submission, RecvLocal(s)
  PROVE  DrccpInv'
<1>0. Types /\ RunsInv /\ AnswersInv /\ AnswerIsResult
  BY DEF DrccpInv
<1>1. /\ client[s] \in Asking /\ client[s].node \in Node
      /\ client[s].local.src \in Name /\ client[s].try \in {0, 1}
  BY <1>0, AskingPc DEF RecvLocal
<1> DEFINE c == [client[s] EXCEPT !.pc = "asked"]
           n == client[s].node
           r == [pc |-> "forward", node |-> n, sent |-> 0, target |-> client[s].local.src,
                 raw |-> Empty, hellos |-> {}, peers |-> Neighbours(n, shares[n]),
                 source |-> client[s].local.src, tag |-> tag[n]]
<1>2. PICK i \in Series : i = <<s, client[s].try>> /\ i[1] = s
  <2>1. <<s, client[s].try>> \in Series /\ <<s, client[s].try>>[1] = s
    BY <1>1 DEF Series
  <2> QED BY <2>1
<1>3. /\ UNCHANGED <<mode, tag, shares, signin, losses, joins, ran, callbacks>>
      /\ client[s].pc = "local"
      /\ client' = [client EXCEPT ![s] = c] /\ series' = [series EXCEPT ![i] = r]
  <2>1. /\ UNCHANGED <<mode, tag, shares, signin, losses, joins, ran, callbacks>>
        /\ client[s].pc = "local" /\ client' = [client EXCEPT ![s].pc = "asked"]
    BY DEF RecvLocal, history
  <2>2. series' = [series EXCEPT ![<<s, client[s].try>>] = r]
    BY DEF RecvLocal
  <2>3. client' = [client EXCEPT ![s] = c]
    BY <2>1
  <2> HIDE DEF c, r
  <2> QED BY <1>2, <2>1, <2>2, <2>3
<1>4. c \in Asking /\ c.pc = "asked"
  BY <1>1 DEF Asking
<1>5. r \in Serving /\ r.pc = "forward"
  <2>1. Neighbours(n, shares[n]) \subseteq Name
    BY <1>0, <1>1 DEF Types, SharesType, IsTable, Neighbours
  <2>2. tag[n] \in Tag
    BY <1>0, <1>1 DEF Types, TagType
  <2> QED BY <1>1, <2>1, <2>2 DEF Serving
<1> HIDE DEF c, r
<1>6. /\ ClientType' /\ client'[s] = c
      /\ \A t \in Submission : t # s => client'[t] = client[t] /\ ClientDue(t)' = ClientDue(t)
  BY <1>0, <1>3, <1>4, ClientMoves
<1>7. /\ SeriesType' /\ series'[i] = r
      /\ \A j \in Series : j # i => series'[j] = series[j] /\ SeriesDue(j)' = SeriesDue(j)
  BY <1>0, <1>3, <1>5, <1>2, SeriesMoves
<1>8. BoundType' /\ HistoryType' /\ losses \in Nat /\ ran[s] \in Nat
  BY <1>0, <1>3, DrccpAssumption DEF Types, BoundType, HistoryType
<1>9. AnswersInv' /\ AnswerIsResult'
  <2>1. callbacks[s] = <<>>
    BY <1>0, <1>3 DEF AnswersInv
  <2>2. \A t \in Submission : client'[t].pc # "over" => callbacks'[t] = <<>>
    BY <1>0, <1>3, <1>6, <2>1 DEF AnswersInv
  <2>3. /\ \A j \in Series : series'[j].pc \in {"ran", "back", "forwarded", "answer"}
                               => ran'[j[1]] > 0
        /\ \A j \in Series : series'[j].pc \in {"forwarded", "answer"} => series'[j].raw = Result
    BY <1>0, <1>3, <1>5, <1>7 DEF AnswersInv
  <2> QED BY <1>0, <1>3, <2>2, <2>3 DEF AnswersInv, AnswerIsResult
<1>10. RunsInv'
  <2>1. ClientDue(s) = 1 /\ ClientDue(s)' = 0
    BY <1>3, <1>4, <1>6 DEF ClientDue
  <2>2. ran'[s] + ClientDue(s)' + SeriesDue(i)' + losses
          <= ran[s] + ClientDue(s) + SeriesDue(i) + losses'
    BY <1>3, <1>8, <2>1, DueNat
  <2>3. losses' >= losses /\ \A t \in Submission : ran'[t] = ran[t]
    BY <1>3, <1>8
  <2> QED BY <1>0, <1>2, <1>6, <1>7, <1>8, <2>2, <2>3, AccountKept
<1>11. ModeType' /\ TagType' /\ SharesType' /\ SigninType' /\ OwnKnown'
  BY <1>3, NodesSame
<1> QED BY <1>6, <1>7, <1>8, <1>9, <1>10, <1>11 DEF DrccpInv, Types

\* The due a client gets back when it asks again is paid for by the loss of
\* what it had asked.
LEMMA LocalFailsStep ==
  ASSUME DrccpInv, NEW s \in Submission, LocalFails(s)
  PROVE  DrccpInv'
<1>0. Types /\ RunsInv /\ AnswersInv /\ AnswerIsResult
  BY DEF DrccpInv
<1>1. UNCHANGED <<mode, tag, shares, signin, series, joins, ran>> /\ client[s].pc \in {"local", "asked"}
  BY DEF LocalFails
<1>2. client[s] \in Asking /\ callbacks[s] = <<>>
  BY <1>0, <1>1, AskingPc DEF AnswersInv
<1>3. \/ losses < MaxLosses /\ losses' = losses + 1
      \/ client[s].pc = "local" /\ losses' = losses
  BY DEF LocalFails
<1>4. PICK p \in {"local", "over"}, k \in {0, 1} :
        /\ client' = [client EXCEPT ![s] = [client[s] EXCEPT !.pc = p, !.try = k]]
        /\ p = "local" => callbacks' = callbacks
        /\ p = "over" => /\ callbacks' = [callbacks EXCEPT ![s] = callbacks[s] \o <<Empty, Empty>>]
                         /\ k = 1
  <2>1. CASE client[s].try = 0
    <3>1. client' = [client EXCEPT ![s].pc = "local", ![s].try = 1] /\ callbacks' = callbacks
      BY <2>1 DEF LocalFails
    <3>2. client' = [client EXCEPT ![s] = [client[s] EXCEPT !.pc = "local", !.try = 1]]
      BY <1>0, <3>1 DEF Types, ClientType
    <3> QED BY <3>1, <3>2
  <2>2. CASE client[s].try = 1
    <3>1. /\ client' = [client EXCEPT ![s].pc = "over"]
          /\ callbacks' = [callbacks EXCEPT ![s] = callbacks[s] \o <<Empty, Empty>>]
      BY <2>2 DEF LocalFails
    <3>2. [client[s] EXCEPT !.pc = "over"] = [client[s] EXCEPT !.pc = "over", !.try = 1]
      BY <1>2, <2>2 DEF Asking
    <3>3. client' = [client EXCEPT ![s] = [client[s] EXCEPT !.pc = "over", !.try = 1]]
      BY <3>1, <3>2
    <3> QED BY <3>1, <3>3
  <2> QED BY <1>2, <2>1, <2>2 DEF Asking
<1> DEFINE c == [client[s] EXCEPT !.pc = p, !.try = k]
<1>5. c \in Asking /\ c.pc = p /\ c.try = k
  BY <1>2 DEF Asking
<1>6. client' = [client EXCEPT ![s] = c]
  BY <1>4
<1> HIDE DEF c
<1>7. /\ ClientType' /\ client'[s] = c
      /\ \A t \in Submission : t # s => client'[t] = client[t] /\ ClientDue(t)' = ClientDue(t)
  BY <1>0, <1>5, <1>6, ClientMoves
<1>8. losses \in Nat /\ losses' \in Nat /\ losses' \in 0..MaxLosses /\ losses' >= losses
  BY <1>0, <1>3, DrccpAssumption DEF Types, BoundType
<1>9. SeriesType' /\ BoundType' /\ \A t \in Submission : ran'[t] = ran[t] /\ ran[t] \in Nat
  BY <1>0, <1>1, <1>8 DEF Types, SeriesType, BoundType, HistoryType
<1>10. /\ \A t \in Submission : t # s => callbacks'[t] = callbacks[t]
       /\ p = "local" => callbacks'[s] = <<>>
       /\ p = "over" => callbacks'[s] = <<Empty, Empty>>
  <2>1. <<>> \o <<Empty, Empty>> = <<Empty, Empty>>
    OBVIOUS
  <2> QED BY <1>0, <1>2, <1>4, <2>1 DEF Types, HistoryType
<1>11. HistoryType'
  <2>1. <<>> \o <<Empty, Empty>> \in Seq({Empty, Result})
    OBVIOUS
  <2>2. callbacks' \in [Submission -> Seq({Empty, Result})]
    BY <1>0, <1>2, <1>4, <2>1 DEF Types, HistoryType
  <2> QED BY <1>0, <1>1, <2>2 DEF Types, HistoryType
<1>12. AnswersInv' /\ AnswerIsResult'
  <2>1. \A t \in Submission : client'[t].pc # "over" => callbacks'[t] = <<>>
    BY <1>0, <1>5, <1>7, <1>10 DEF AnswersInv
  <2>2. ASSUME p = "over"
        PROVE  client'[s].try = 1 /\ \A j \in 1..Len(callbacks'[s]) : callbacks'[s][j] = Empty
    <3>1. callbacks'[s] = <<Empty, Empty>> /\ client'[s].try = 1
      BY <1>4, <1>5, <1>7, <1>10, <2>2
    <3>2. \A j \in 1..Len(<<Empty, Empty>>) : <<Empty, Empty>>[j] = Empty
      OBVIOUS
    <3> QED BY <3>1, <3>2
  <2>3. AnswerIsResult'
    BY <1>0, <1>1, <1>7, <1>10, <2>2 DEF AnswerIsResult
  <2> QED BY <1>0, <1>1, <2>1, <2>3 DEF AnswersInv
<1>13. RunsInv'
  <2>1. PICK i \in Series : i = <<s, 0>> /\ i[1] = s
    <3>1. <<s, 0>> \in Series /\ <<s, 0>>[1] = s
      BY DEF Series
    <3> QED BY <3>1
  <2>2. \A j \in Series : SeriesDue(j)' = SeriesDue(j)
    BY <1>1 DEF SeriesDue
  <2>3. ClientDue(s)' + losses <= ClientDue(s) + losses'
    <3>1. CASE client[s].pc = "local"
      <4>1. ClientDue(s) = 1
        BY <3>1 DEF ClientDue
      <4> QED BY <1>8, <4>1, DueNat
    <3>2. CASE losses' = losses + 1
      BY <1>8, <3>2, DueNat
    <3> QED BY <1>3, <3>1, <3>2
  <2>4. ran'[s] + ClientDue(s)' + SeriesDue(i)' + losses
          <= ran[s] + ClientDue(s) + SeriesDue(i) + losses'
    BY <1>8, <1>9, <2>2, <2>3, DueNat
  <2> QED BY <1>0, <1>7, <1>8, <1>9, <1>11, <2>1, <2>2, <2>4, AccountKept
<1>14. ModeType' /\ TagType' /\ SharesType' /\ SigninType' /\ OwnKnown'
  BY <1>1, NodesSame
<1> QED BY <1>7, <1>9, <1>11, <1>12, <1>13, <1>14 DEF DrccpInv, Types

LEMMA SeriesEndsStep ==
  ASSUME DrccpInv, NEW i \in Series, SeriesEnds(i)
  PROVE  DrccpInv'
<1>0. Types /\ RunsInv /\ AnswersInv /\ AnswerIsResult
  BY DEF DrccpInv
<1>1. PICK s \in Submission : s = i[1]
  BY SeriesKey
<1>2. /\ UNCHANGED <<mode, tag, shares, signin, losses, joins, ran>>
      /\ series[i].pc = "answer" /\ series' = [series EXCEPT ![i] = Idle]
  BY DEF SeriesEnds
<1>3. series[i].raw = Result /\ ran[s] > 0
  BY <1>0, <1>1, <1>2 DEF AnswersInv
<1>4. /\ SeriesType' /\ series'[i] = Idle
      /\ \A j \in Series : j # i => series'[j] = series[j] /\ SeriesDue(j)' = SeriesDue(j)
  BY <1>0, <1>2, SeriesMoves
<1>5. SeriesDue(i)' = 0
  BY <1>4, IdlePc DEF SeriesDue
<1>6. BoundType' /\ losses \in Nat /\ \A t \in Submission : ran'[t] = ran[t] /\ ran[t] \in Nat
  BY <1>0, <1>2, DrccpAssumption DEF Types, BoundType, HistoryType
<1>7. ModeType' /\ TagType' /\ SharesType' /\ SigninType' /\ OwnKnown'
  BY <1>2, NodesSame
<1>8. CASE client[s].pc = "asked" /\ client[s].try = i[2]
  <2>1. /\ client' = [client EXCEPT ![s].pc = "over"]
        /\ callbacks' = [callbacks EXCEPT ![s] = Append(callbacks[s], series[i].raw)]
    BY <1>1, <1>8 DEF SeriesEnds
  <2>2. client[s] \in Asking /\ callbacks[s] = <<>>
    BY <1>0, <1>8, AskingPc DEF AnswersInv
  <2> DEFINE c == [client[s] EXCEPT !.pc = "over"]
  <2>3. c \in Asking /\ c.pc = "over"
    BY <2>2 DEF Asking
  <2>4. client' = [client EXCEPT ![s] = c]
    BY <2>1
  <2> HIDE DEF c
  <2>5. /\ ClientType' /\ client'[s] = c
        /\ \A t \in Submission : t # s => client'[t] = client[t] /\ ClientDue(t)' = ClientDue(t)
    BY <1>0, <2>3, <2>4, ClientMoves
  <2>6. Append(<<>>, Result) = <<Result>> /\ <<Result>> \in Seq({Empty, Result})
    OBVIOUS
  <2>7. /\ callbacks' \in [Submission -> Seq({Empty, Result})]
        /\ callbacks'[s] = <<Result>>
        /\ \A t \in Submission : t # s => callbacks'[t] = callbacks[t]
    BY <1>0, <1>3, <2>1, <2>2, <2>6 DEF Types, HistoryType
  <2>8. HistoryType'
    BY <1>0, <1>2, <2>7 DEF Types, HistoryType
  <2>9. AnswersInv'
    <3>1. \A t \in Submission : client'[t].pc # "over" => callbacks'[t] = <<>>
      BY <1>0, <2>3, <2>5, <2>7 DEF AnswersInv
    <3>2. /\ \A j \in Series : series'[j].pc \in {"ran", "back", "forwarded", "answer"}
                                 => ran'[j[1]] > 0
          /\ \A j \in Series : series'[j].pc \in {"forwarded", "answer"} => series'[j].raw = Result
      BY <1>0, <1>2, <1>4, IdlePc DEF AnswersInv
    <3> QED BY <3>1, <3>2 DEF AnswersInv
  <2>10. AnswerIsResult'
    BY <1>0, <1>2, <1>3, <2>5, <2>7 DEF AnswerIsResult
  <2>11. RunsInv'
    <3>1. ClientDue(s)' = 0
      BY <2>3, <2>5 DEF ClientDue
    <3>2. ran'[s] + ClientDue(s)' + SeriesDue(i)' + losses
            <= ran[s] + ClientDue(s) + SeriesDue(i) + losses'
      BY <1>2, <1>5, <1>6, <3>1, DueNat
    <3>3. losses' >= losses
      BY <1>2, <1>6
    <3> QED BY <1>0, <1>1, <1>4, <1>6, <2>5, <2>8, <3>2, <3>3, AccountKept
  <2> QED BY <1>4, <1>6, <1>7, <2>5, <2>8, <2>9, <2>10, <2>11 DEF DrccpInv, Types
<1>9. CASE ~(client[s].pc = "asked" /\ client[s].try = i[2])
  <2>1. UNCHANGED <<client, callbacks>>
    BY <1>1, <1>9 DEF SeriesEnds
  <2>2. ClientType' /\ HistoryType' /\ \A t \in Submission : ClientDue(t)' = ClientDue(t)
    BY <1>0, <1>2, <2>1 DEF Types, ClientType, HistoryType, ClientDue
  <2>3. AnswersInv' /\ AnswerIsResult'
    <3>1. \A t \in Submission : ran'[t] >= ran[t]
      BY <1>6
    <3> QED BY <1>4, <2>1, <2>2, <3>1, IdlePc, AnswersKept
  <2>4. RunsInv'
    <3>1. ran'[s] + ClientDue(s)' + SeriesDue(i)' + losses
            <= ran[s] + ClientDue(s) + SeriesDue(i) + losses'
      BY <1>2, <1>5, <1>6, <2>2, DueNat
    <3>2. losses' >= losses
      BY <1>2, <1>6
    <3> QED BY <1>0, <1>1, <1>4, <1>6, <2>2, <3>1, <3>2, AccountKept
  <2> QED BY <1>4, <1>6, <1>7, <2>2, <2>3, <2>4 DEF DrccpInv, Types
<1> QED BY <1>8, <1>9

\* The submissions and series of a process die with it.
LEMMA CrashStep ==
  ASSUME DrccpInv, NEW n \in Node, Crash(n)
  PROVE  DrccpInv'
<1>0. Types /\ RunsInv /\ AnswersInv /\ AnswerIsResult
  BY DEF DrccpInv
<1>1. UNCHANGED <<tag, shares, losses, joins, ran, callbacks>>
  BY DEF Crash, history
<1>2. /\ mode' = [mode EXCEPT ![n] = "crashed"]
      /\ signin' = [signin EXCEPT ![n] = Idle]
  BY DEF Crash
<1>3. \A i \in Series : series'[i] \in {Idle, series[i]}
  BY DEF Crash
<1>4. \A s \in Submission :
        \/ client'[s] = client[s]
        \/ client[s] # Idle /\ client'[s] = [client[s] EXCEPT !.pc = "over"]
  BY DEF Crash
<1>5. \A s \in Submission :
        client'[s] = client[s] \/ (client'[s] \in Asking /\ client'[s].pc = "over")
  <2>1. SUFFICES ASSUME NEW s \in Submission, client'[s] # client[s]
                 PROVE  client'[s] \in Asking /\ client'[s].pc = "over"
    OBVIOUS
  <2>2. client[s] \in Asking /\ client'[s] = [client[s] EXCEPT !.pc = "over"]
    BY <1>0, <1>4, <2>1 DEF Types, ClientType
  <2> QED BY <2>2 DEF Asking
<1>6. SeriesType'
  <2>1. series' = [i \in Series |-> series'[i]]
    BY DEF Crash
  <2> QED BY <1>0, <1>3, <2>1 DEF Types, SeriesType
<1>7. ClientType'
  <2>1. client' = [s \in Submission |-> client'[s]]
    BY DEF Crash
  <2> QED BY <1>0, <1>5, <2>1 DEF Types, ClientType
<1>8. ModeType' /\ TagType' /\ SharesType' /\ SigninType' /\ BoundType' /\ HistoryType'
  <2>1. ModeType' /\ SigninType'
    BY <1>0, <1>2 DEF Types, ModeType, SigninType, Mode
  <2>2. TagType' /\ SharesType' /\ BoundType' /\ HistoryType'
    BY <1>0, <1>1 DEF Types, TagType, SharesType, BoundType, HistoryType
  <2> QED BY <2>1, <2>2
<1>9. OwnKnown'
  BY <1>0, <1>1, <1>2, OwnKept DEF Grows, Types, ModeType
<1>10. AnswersInv' /\ AnswerIsResult'
  <2>1. \A s \in Submission : client'[s].pc # "over" => callbacks'[s] = <<>>
    BY <1>0, <1>1, <1>5 DEF AnswersInv
  <2>2. /\ \A i \in Series : series'[i].pc \in {"ran", "back", "forwarded", "answer"}
                               => ran'[i[1]] > 0
        /\ \A i \in Series : series'[i].pc \in {"forwarded", "answer"} => series'[i].raw = Result
    BY <1>0, <1>1, <1>3, IdlePc DEF AnswersInv
  <2>3. \A s \in Submission : client[s].try = 1 => client'[s].try = 1
    <3>1. SUFFICES ASSUME NEW s \in Submission, client'[s] # client[s], client[s].try = 1
                   PROVE  client'[s].try = 1
      OBVIOUS
    <3>2. client[s] \in Asking /\ client'[s] = [client[s] EXCEPT !.pc = "over"]
      BY <1>0, <1>4, <3>1 DEF Types, ClientType
    <3> QED BY <3>1, <3>2 DEF Asking
  <2>4. AnswerIsResult'
    BY <1>0, <1>1, <2>3 DEF AnswerIsResult
  <2> QED BY <2>1, <2>2, <2>4 DEF AnswersInv
<1>11. RunsInv'
  <2>1. SUFFICES ASSUME NEW s \in Submission
                 PROVE  ran'[s] + ClientDue(s)' + SeriesDue(<<s, 0>>)' + SeriesDue(<<s, 1>>)'
                          <= 1 + losses'
    BY DEF RunsInv, ClientDue, SeriesDue
  <2>2. ClientDue(s)' = 0 \/ ClientDue(s)' = ClientDue(s)
    BY <1>5 DEF ClientDue
  <2>3. \A i \in Series : SeriesDue(i)' = 0 \/ SeriesDue(i)' = SeriesDue(i)
    BY <1>3, IdlePc DEF SeriesDue
  <2>4. <<s, 0>> \in Series /\ <<s, 1>> \in Series
    BY DEF Series
  <2>5. ran[s] \in Nat /\ losses \in Nat
    BY <1>0, DrccpAssumption DEF Types, HistoryType, BoundType
  <2>6. ran[s] + ClientDue(s) + SeriesDue(<<s, 0>>) + SeriesDue(<<s, 1>>) <= 1 + losses
    BY <1>0 DEF RunsInv
  <2> QED BY <1>1, <2>2, <2>3, <2>4, <2>5, <2>6, DueNat
<1> QED BY <1>6, <1>7, <1>8, <1>9, <1>10, <1>11 DEF DrccpInv, Types

-----------------------------------------------------------------------------
(* Theorems                                                                *)

LEMMA DrccpInvariant == Spec => []DrccpInv
<1>1. Init => DrccpInv
  <2>1. SUFFICES ASSUME Init
                 PROVE  DrccpInv
    OBVIOUS
  <2>2. ModeType /\ TagType /\ SigninType /\ ClientType /\ SeriesType
    BY <2>1, DrccpAssumption DEF Init, ModeType, TagType, SigninType, ClientType, SeriesType, Mode
  <2>3. SharesType
    <3>1. IsTable(<<>>)
      BY DEF IsTable
    <3> QED BY <2>1, <3>1 DEF Init, SharesType
  <2>4. BoundType /\ HistoryType
    BY <2>1, DrccpAssumption DEF Init, BoundType, HistoryType
  <2>5. OwnKnown
    BY <2>1 DEF Init, OwnKnown
  <2>6. AnswersInv /\ AnswerIsResult
    BY <2>1, IdlePc DEF Init, AnswersInv, AnswerIsResult
  <2>7. RunsInv
    <3>1. SUFFICES ASSUME NEW s \in Submission
                   PROVE  ran[s] + ClientDue(s) + SeriesDue(<<s, 0>>) + SeriesDue(<<s, 1>>)
                            <= 1 + losses
      BY DEF RunsInv
    <3>2. <<s, 0>> \in Series /\ <<s, 1>> \in Series
      BY DEF Series
    <3>3. SeriesDue(<<s, 0>>) = 0 /\ SeriesDue(<<s, 1>>) = 0
      BY <2>1, <3>2, IdlePc DEF Init, SeriesDue
    <3>4. ran[s] = 0 /\ losses = 0
      BY <2>1 DEF Init
    <3> QED BY <3>3, <3>4, DueNat
  <2> QED BY <2>2, <2>3, <2>4, <2>5, <2>6, <2>7 DEF DrccpInv, Types
<1>2. DrccpInv /\ [Next]_vars => DrccpInv'
  <2>1. SUFFICES ASSUME DrccpInv, [Next]_vars
                 PROVE  DrccpInv'
    OBVIOUS
  <2>2. CASE UNCHANGED vars
    <3>1. UNCHANGED <<mode, tag, shares, signin, client, series, losses, joins, ran, callbacks>>
      BY <2>2 DEF vars
    <3>2. BoundType' /\ losses' >= losses /\ losses' \in 0..MaxLosses
      BY <2>1, <3>1, DrccpAssumption DEF DrccpInv, Types, BoundType
    <3> QED BY <2>1, <3>1, <3>2, NodesSame, SubmissionsSame DEF DrccpInv, Types
  <2>3. CASE Next
    BY <2>1, <2>3, NodeStep, CrashStep, SubmitStep, RecvLocalStep, LocalFailsStep, RepeaterStep,
       RecvForwardStep, ForwardedStep, ForwardFailsStep, SeriesHelloStep, SeriesEndsStep
    DEF Next, NodeAction, Ask, Progress
  <2> QED BY <2>1, <2>2, <2>3
<1> QED BY <1>1, <1>2, PTL DEF Spec

\* Nodes, exchanges, series and shares are well typed in every reachable
\* state.
THEOREM TypeCorrect == Spec => []TypeOK
<1>1. DrccpInv => TypeOK
  BY TypesImplyTypeOK DEF DrccpInv
<1> QED BY <1>1, DrccpInvariant, PTL

\* A node that takes requests has its own share, whatever other nodes,
\* failed messages and restarts have made of its table.
THEOREM OwnShareCorrect == Spec => []OwnShareKnown
<1>1. DrccpInv => OwnShareKnown
  BY DEF DrccpInv, OwnKnown, OwnShareKnown
<1> QED BY <1>1, DrccpInvariant, PTL

\* What a client is handed is the result of a payload that a node ran, once,
\* or, after its second try has failed, the empty result and nothing else,
\* however its two tries and the forwards of their series overlap, with any
\* number of losses, crashes and nodes.
THEOREM AnswerCorrect == Spec => []AnswerIsResult
<1>1. DrccpInv => AnswerIsResult
  BY DEF DrccpInv
<1> QED BY <1>1, DrccpInvariant, PTL

\* A payload is run once, and once more only for an exchange that was lost
\* or timed out: neither the second try of a submission nor the repeater
\* runs it again of its own accord.
THEOREM RunsCorrect == Spec => []RunsBounded
<1>1. ASSUME DrccpInv
      PROVE  RunsBounded
  <2>1. SUFFICES ASSUME NEW s \in Submission
                 PROVE  ran[s] <= 1 + losses
    BY DEF RunsBounded
  <2>2. ran[s] \in Nat /\ losses \in Nat
    BY <1>1, DrccpAssumption DEF DrccpInv, Types, HistoryType, BoundType
  <2>3. ran[s] + ClientDue(s) + SeriesDue(<<s, 0>>) + SeriesDue(<<s, 1>>) <= 1 + losses
    BY <1>1 DEF DrccpInv, RunsInv
  <2> QED BY <2>2, <2>3, DueNat
<1> QED BY <1>1, DrccpInvariant, PTL
=============================================================================
