--------------------------- MODULE InferenceProofs ---------------------------
(* Theorems about Inference, for any handlers, ids, engines and bounds.    *)
EXTENDS Inference, FiniteSetTheorems, TLAPS

-----------------------------------------------------------------------------
(* The invariants                                                          *)

\* Every copy of a request names the task it was made for by its lower bits.
Cut(p) == p.taskid = p.of % Width
RequestInv ==
  /\ \A p \in payloads : Cut(p)
  /\ \A a \in answers : Cut(a.req) /\ a.taskid = a.req.taskid

\* A handler at work has a request, an engine only once it has pulled one,
\* and something to write while it writes; a file is open only then.
RunOK(r) ==
  /\ r \in Run
  /\ r.pc # "idle" => r.req \in Payload /\ Cut(r.req)
  /\ r.pc = "pull" => r.got = NoEngine
  /\ r.pc = "write" => r.got # NoEngine /\ r.todo # <<>>
  /\ r.opened => r.pc = "write"
BaseInv == TypeOK /\ RequestInv /\ \A h \in Handler : RunOK(run[h])

\* The handler has opened its file, and has not finished with it.
Touches(r) == r.got # NoEngine /\ (r.opened \/ r.pc \in {"load", "run"})

\* A handler that has the file of another one open may yet write to it: the
\* other one knows that it is not alone.
Apart ==
  \A g, h \in Handler :
    g # h /\ run[g].opened /\ Touches(run[h]) /\ Path(g) = Path(h) => run[h].disturbed # "no"

\* RunsOwnEngine, strengthened to what the handler is about to write and to
\* load; f is what its file holds.
OwnOK(r, f) ==
  r.got # NoEngine /\ r.req.of < Width /\ r.got.deps = <<>> =>
    /\ r.pc = "write" => r.todo = <<r.own>>
    /\ r.pc \in {"write", "load"} => r.own # Nothing
    /\ r.pc = "load" /\ r.disturbed = "no" => f = r.own
    /\ r.pc = "run" /\ r.disturbed = "no" => r.engine \in {r.own, Nothing}
EngineInv == Apart /\ \A h \in Handler : OwnOK(run[h], file[Path(h)])

\* Submissions and answers that will append to the runtime data of n.
DuePayloads(n) == {p \in payloads : p.output = "jxtd" /\ p.taskid = n}
DueAnswers(n) == {a \in answers : a.stage = "push" /\ a.output = "jxtd" /\ a.taskid = n}

\* AppendsBounded, strengthened: what is in the runtime data of n and what is
\* still to come are paid for by a request or a fault each.
Account(n) ==
  Len(runtime[n]) + Cardinality(DuePayloads(n)) + Cardinality(DueAnswers(n)) <= asked[n] + faults
AppendInv ==
  /\ IsFiniteSet(payloads) /\ IsFiniteSet(answers)
  /\ \A n \in Short : Account(n)

-----------------------------------------------------------------------------
(* Types                                                                   *)

\* BoundedSeq is the sequences up to a length.
LEMMA Bounded ==
  ASSUME NEW S, NEW n \in Nat
  PROVE  \A s : s \in BoundedSeq(S, n) <=> s \in Seq(S) /\ Len(s) <= n
<1>1. ASSUME NEW s \in BoundedSeq(S, n)
      PROVE  s \in Seq(S) /\ Len(s) <= n
  <2>1. PICK m \in 0..n : s \in [1..m -> S]
    BY <1>1 DEF BoundedSeq, SeqOf
  <2> QED BY <2>1
<1>2. ASSUME NEW s \in Seq(S), Len(s) <= n
      PROVE  s \in BoundedSeq(S, n)
  <2>1. Len(s) \in 0..n /\ s \in [1..Len(s) -> S]
    BY <1>2
  <2> QED BY <2>1 DEF BoundedSeq, SeqOf
<1> QED BY <1>1, <1>2

LEMMA IdleOK == RunOK(Idle) /\ Idle.pc = "idle"
<1>1. <<>> \in BoundedSeq(Binary \cup {Nothing}, MaxDeps + 1)
  <2>1. <<>> \in Seq(Binary \cup {Nothing}) /\ Len(<<>>) <= MaxDeps + 1 /\ MaxDeps + 1 \in Nat
    BY InferenceAssumption
  <2> QED BY <2>1, Bounded
<1> QED BY <1>1 DEF Idle, RunOK, Run

LEMMA FaultNat ==
  ASSUME faults \in Nat, NEW n \in Nat, Fault(n)
  PROVE  faults' \in Nat /\ faults' = faults + n
BY DEF Fault

\* A handler takes a step of its own.
LEMMA StepOK ==
  ASSUME BaseInv, NEW h \in Handler, NEW r, RunOK(r), Step(h, r), faults' \in Nat
  PROVE  BaseInv'
<1>1. run \in [Handler -> Run] /\ r \in Run
  BY DEF BaseInv, TypeOK, RunOK
<1>2. run' = [run EXCEPT ![h] = r]
  BY DEF Step
<1>3. run' \in [Handler -> Run] /\ \A g \in Handler : RunOK(run'[g])
  BY <1>1, <1>2 DEF BaseInv
<1>4. UNCHANGED <<tasks, payloads, answers, started, failed, asked, binding, runtime,
                  file, crashes>>
  BY DEF Step, cluster, storage
<1>5. TypeOK'
  BY <1>3, <1>4 DEF BaseInv, TypeOK
<1>6. RequestInv'
  BY <1>4 DEF BaseInv, RequestInv
<1> QED BY <1>3, <1>5, <1>6 DEF BaseInv, RunOK

LEMMA CrashOK ==
  ASSUME BaseInv, Crash
  PROVE  BaseInv'
<1>1. run' = [h \in Handler |-> Idle]
  BY DEF Crash
<1>2. run' \in [Handler -> Run] /\ \A g \in Handler : RunOK(run'[g])
  BY <1>1, IdleOK DEF RunOK
<1>3. /\ UNCHANGED <<started, failed, asked, binding, runtime, file, faults>>
      /\ tasks' \subseteq tasks /\ payloads' \subseteq payloads /\ answers' \subseteq answers
  BY DEF Crash, storage
<1>4. crashes' \in Nat
  BY DEF Crash, BaseInv, TypeOK
<1>5. TypeOK'
  BY <1>2, <1>3, <1>4 DEF BaseInv, TypeOK
<1>6. RequestInv'
  BY <1>3 DEF BaseInv, RequestInv
<1> QED BY <1>2, <1>5, <1>6 DEF BaseInv, RunOK

\* What the storage sends a task is the engine it is bound to.
LEMMA EngineSent ==
  ASSUME TypeOK, NEW n, EnginePull(n).binary # Nothing
  PROVE  /\ n \in DOMAIN binding
         /\ EnginePull(n).name \in Name /\ EnginePull(n).binary \in Binary
         /\ EnginePull(n).deps \in Seq(Model \cup {Nothing}) /\ Len(EnginePull(n).deps) <= MaxDeps
         /\ EnginePull(n) \in [name : Name, binary : Binary,
                               deps : BoundedSeq(Model \cup {Nothing}, MaxDeps)]
         /\ EnginePull(n).binary = binding[n].binary
         /\ EnginePull(n) # NoEngine
<1> DEFINE b == binding[n]
           deps == [i \in 1..Len(b.deps) |-> Stored(b.deps[i])]
           binary == Stored(b.binary)
<1>1. n # 0 /\ n \in DOMAIN binding
  BY DEF EnginePull, NoEngine
<1>2. EnginePull(n) = [name |-> b.name, binary |-> binary, deps |-> deps]
  BY <1>1 DEF EnginePull
<1>3. /\ b \in [name : Name, binary : Binary, deps : BoundedSeq(Model, MaxDeps)]
      /\ IF b.name = Anonymous THEN b.binary \in Private ELSE b.binary = b.name
  BY <1>1 DEF TypeOK, Binding
<1>4. b.deps \in Seq(Model) /\ Len(b.deps) <= MaxDeps
  BY <1>3, Bounded, InferenceAssumption
<1>5. deps \in Seq(Model \cup {Nothing}) /\ Len(deps) <= MaxDeps
  BY <1>4 DEF Stored
<1>6. binary # Nothing
  BY <1>2
<1>7. binary = b.binary /\ b.binary \in Binary /\ b.name \in Name
  BY <1>3, <1>6 DEF Stored
<1>8. deps \in BoundedSeq(Model \cup {Nothing}, MaxDeps)
  BY <1>5, Bounded, InferenceAssumption
<1> QED BY <1>1, <1>2, <1>5, <1>6, <1>7, <1>8 DEF NoEngine

\* What is left to write of what is left to write.
LEMMA TodoTail ==
  ASSUME NEW todo \in BoundedSeq(Binary \cup {Nothing}, MaxDeps + 1), todo # <<>>
  PROVE  /\ Tail(todo) \in BoundedSeq(Binary \cup {Nothing}, MaxDeps + 1)
         /\ Head(todo) \in Binary \cup {Nothing}
<1>1. MaxDeps + 1 \in Nat
  BY InferenceAssumption
<1>2. todo \in Seq(Binary \cup {Nothing}) /\ Len(todo) <= MaxDeps + 1
  BY <1>1, Bounded
<1>3. Tail(todo) \in Seq(Binary \cup {Nothing}) /\ Len(Tail(todo)) <= MaxDeps + 1
  BY <1>2, <1>1
<1>4. Tail(todo) \in BoundedSeq(Binary \cup {Nothing}, MaxDeps + 1)
  BY <1>1, <1>3, Bounded
<1>5. Head(todo) \in Binary \cup {Nothing}
  BY <1>2
<1> QED BY <1>4, <1>5

\* The record a handler goes on with.
Pulled(h) ==
  LET got == EnginePull(run[h].req.taskid)
      files == IF got.binary = Nothing THEN <<>> ELSE <<got.binary>> \o got.deps
  IN  [run[h] EXCEPT !.pc = After(files), !.todo = files,
         !.got = IF got.binary = Nothing THEN NoEngine ELSE got,
         !.own = OwnEngine(run[h].req.of)]

LEMMA PulledOK ==
  ASSUME BaseInv, NEW h \in Handler, run[h].pc = "pull"
  PROVE  RunOK(Pulled(h))
<1> DEFINE got == EnginePull(run[h].req.taskid)
           files == IF got.binary = Nothing THEN <<>> ELSE <<got.binary>> \o got.deps
<1>1. run[h] \in Run /\ RunOK(run[h])
  BY DEF BaseInv, RunOK
<1>2. MaxDeps + 1 \in Nat
  BY InferenceAssumption
<1>3. files \in Seq(Binary \cup {Nothing}) /\ Len(files) <= MaxDeps + 1
  <2>1. CASE got.binary = Nothing
    BY <2>1, <1>2
  <2>2. CASE got.binary # Nothing
    <3>1. /\ got.binary \in Binary /\ got.deps \in Seq(Model \cup {Nothing})
          /\ Len(got.deps) <= MaxDeps
      BY <2>2, EngineSent DEF BaseInv
    <3>2. files = <<got.binary>> \o got.deps
      BY <2>2
    <3>3. got.deps \in Seq(Binary \cup {Nothing})
      BY <3>1 DEF Binary
    <3> HIDE DEF got, files
    <3> QED BY <3>1, <3>2, <3>3, InferenceAssumption
  <2> QED BY <2>1, <2>2
<1>4. files \in BoundedSeq(Binary \cup {Nothing}, MaxDeps + 1)
  BY <1>2, <1>3, Bounded
<1>5. /\ got.binary # Nothing =>
           got \in [name : Name, binary : Binary, deps : BoundedSeq(Model \cup {Nothing}, MaxDeps)]
           /\ got # NoEngine
      /\ files # <<>> => got.binary # Nothing
  BY EngineSent DEF BaseInv
<1>6. OwnEngine(run[h].req.of) \in Binary \cup {Nothing}
  BY DEF BaseInv, TypeOK, OwnEngine, Binding
<1>7. Pulled(h) = [run[h] EXCEPT !.pc = After(files), !.todo = files,
                     !.got = IF got.binary = Nothing THEN NoEngine ELSE got,
                     !.own = OwnEngine(run[h].req.of)]
  BY DEF Pulled
<1>8. After(files) \in {"load", "write"} /\ (After(files) = "write" => files # <<>>)
  BY DEF After
<1> HIDE DEF got, files
<1>9. Pulled(h) \in Run
  BY <1>1, <1>4, <1>5, <1>6, <1>7, <1>8 DEF Run
<1> QED BY <1>1, <1>5, <1>7, <1>8, <1>9 DEF RunOK, Run

\* The steps of Next by what they change.
NodeStep(h) ==
  \/ \E p \in payloads : Receive(h, p)
  \/ Pull(h) \/ PullFails(h)
  \/ OpenFails(h)
  \/ \E made \in BOOLEAN : Load(h, made)
  \/ \E good \in BOOLEAN : Compute(h, good)
  \/ ReplyLost(h)
ClusterNext ==
  \/ \E t \in TaskId, j \in Job : Start(t, j)
  \/ \E t \in tasks : Terminate(t)
  \/ \E a \in answers, heard \in BOOLEAN : drccp_on_server_receive_result(a, heard)
  \/ \E a \in answers : PushLost(a)
  \/ \E a \in answers, heard \in BOOLEAN : on_client_recieve_result(a, heard)
  \/ \E a \in answers, again \in BOOLEAN : AnswerLost(a, again)

\* Steps of the cluster leave the node alone.
LEMMA ClusterOK ==
  ASSUME BaseInv, ClusterNext
  PROVE  BaseInv' /\ run' = run /\ file' = file
<1>0. TypeOK /\ RequestInv
  BY DEF BaseInv
<1> DEFINE Same == run' = run /\ file' = file /\ crashes' = crashes
           Types == /\ tasks' \subseteq TaskId /\ failed' \subseteq TaskId
                    /\ payloads' \subseteq Payload /\ answers' \subseteq Answer
                    /\ DOMAIN binding' \subseteq TaskId
                    /\ \A t \in DOMAIN binding' : binding'[t] \in Binding
                    /\ runtime' \in [Short -> Seq(Binary \cup {Garbled})]
                    /\ asked' \in [Short -> Nat]
                    /\ started' \in Nat /\ faults' \in Nat
<1>a. ASSUME Same, Types, RequestInv'
      PROVE  BaseInv' /\ run' = run /\ file' = file
  <2>1. TypeOK'
    BY <1>0, <1>a DEF TypeOK
  <2>2. \A h \in Handler : RunOK(run'[h])
    BY <1>a DEF BaseInv
  <2> QED BY <1>a, <2>1, <2>2 DEF BaseInv
<1>b. \A a \in answers : /\ a \in Answer /\ Cut(a.req) /\ a.taskid = a.req.taskid
                         /\ [a EXCEPT !.stage = "client"] \in Answer
                         /\ [a EXCEPT !.stage = "client"].req = a.req
                         /\ [a EXCEPT !.stage = "client"].taskid = a.taskid
                         /\ PushFailed(a) \in Answer /\ PushFailed(a).req = a.req
                         /\ PushFailed(a).taskid = a.taskid
  <2> TAKE a \in answers
  <2>1. a \in Answer /\ Cut(a.req) /\ a.taskid = a.req.taskid
    BY <1>0 DEF TypeOK, RequestInv
  <2>2. /\ [a EXCEPT !.stage = "client"] \in Answer
        /\ [a EXCEPT !.stage = "client"].req = a.req
        /\ [a EXCEPT !.stage = "client"].taskid = a.taskid
    BY <2>1 DEF Answer
  <2>3. /\ [a EXCEPT !.tries = 1] \in Answer
        /\ [a EXCEPT !.tries = 1].req = a.req /\ [a EXCEPT !.tries = 1].taskid = a.taskid
    BY <2>1 DEF Answer
  <2> QED BY <2>1, <2>2, <2>3 DEF PushFailed
<1>c. \A a \in answers, b \in Answer : Become(a, b) /\ b.req = a.req /\ b.taskid = a.taskid =>
        /\ answers' \subseteq Answer
        /\ \A c \in answers' : Cut(c.req) /\ c.taskid = c.req.taskid
  BY <1>0, <1>b DEF TypeOK, RequestInv, Become
<1>1. ASSUME NEW t \in TaskId, NEW j \in Job, Start(t, j)
      PROVE  Same /\ Types /\ RequestInv'
  <2>1. j.engine \in Binding /\ j.input \in Input /\ j.output \in Output
    BY JobAssumption
  <2>2. started \in 0..MaxTasks /\ started' \in Nat
    BY <1>0, <1>1, InferenceAssumption DEF Start, TypeOK
  <2>3. t % Width \in Short
    BY DEF Short
  <2>4. Request(t, j) \in Payload /\ Cut(Request(t, j))
    BY <2>1, <2>2, <2>3 DEF Request, Payload, Cut
  <2>5. /\ DOMAIN binding' \subseteq TaskId
        /\ \A u \in DOMAIN binding' : binding'[u] \in Binding
    BY <1>0, <1>1, <2>1 DEF Start, TypeOK, Put
  <2>6. asked' \in [Short -> Nat]
    BY <1>0, <1>1, <2>3 DEF Start, TypeOK
  <2>7. UNCHANGED <<answers, runtime, file, run, faults, crashes>>
    BY <1>1 DEF Start
  <2>8. /\ tasks' = tasks \cup {t} /\ payloads' = payloads \cup {Request(t, j)}
        /\ failed' = failed \ {t}
    BY <1>1 DEF Start
  <2>9. RequestInv'
    BY <1>0, <2>4, <2>7, <2>8 DEF RequestInv
  <2> QED BY <1>0, <2>2, <2>4, <2>5, <2>6, <2>7, <2>8, <2>9 DEF TypeOK
<1>2. ASSUME NEW t \in tasks, Terminate(t)
      PROVE  Same /\ Types /\ RequestInv'
  <2>1. faults' \in Nat
    BY <1>0, <1>2, FaultNat DEF Terminate, TypeOK
  <2>2. RequestInv'
    BY <1>0, <1>2 DEF Terminate, RequestInv
  <2>3. /\ DOMAIN binding' \subseteq TaskId
        /\ \A u \in DOMAIN binding' : binding'[u] \in Binding
    BY <1>0, <1>2 DEF Terminate, TypeOK, Drop
  <2> QED BY <1>0, <1>2, <2>1, <2>2, <2>3 DEF Terminate, TypeOK
<1>3. ASSUME NEW a \in answers, NEW heard \in BOOLEAN, drccp_on_server_receive_result(a, heard)
      PROVE  Same /\ Types /\ RequestInv'
  <2>1. faults' \in Nat
    BY <1>0, <1>3, FaultNat DEF drccp_on_server_receive_result, TypeOK
  <2>2. \E b \in Answer : Become(a, b) /\ b.req = a.req /\ b.taskid = a.taskid
    BY <1>3, <1>b DEF drccp_on_server_receive_result
  <2>3. runtime' \in [Short -> Seq(Binary \cup {Garbled})]
    <3>1. a.result \in Binary \cup {Nothing, Garbled}
      BY <1>b DEF Answer
    <3>2. runtime' = runtime \/ (a.result # Nothing
                                 /\ runtime' = [runtime EXCEPT ![a.taskid] = Append(@, a.result)])
      BY <1>3 DEF drccp_on_server_receive_result
    <3>3. runtime \in [Short -> Seq(Binary \cup {Garbled})] /\ a.taskid \in Short
      BY <1>0, <1>b DEF TypeOK, Answer
    <3>4. a.result # Nothing => Append(runtime[a.taskid], a.result) \in Seq(Binary \cup {Garbled})
      BY <3>1, <3>3
    <3> QED BY <3>2, <3>3, <3>4
  <2>4. UNCHANGED <<tasks, payloads, binding, file, run, started, crashes, failed, asked>>
    BY <1>3 DEF drccp_on_server_receive_result
  <2>5. RequestInv' /\ answers' \subseteq Answer
    BY <1>0, <1>c, <2>2, <2>4 DEF RequestInv
  <2> QED BY <1>0, <2>1, <2>3, <2>4, <2>5 DEF TypeOK
<1>4. ASSUME NEW a \in answers, PushLost(a)
      PROVE  Same /\ Types /\ RequestInv'
  <2>1. faults' \in Nat
    BY <1>0, <1>4, FaultNat DEF PushLost, TypeOK
  <2>2. UNCHANGED <<tasks, payloads, binding, runtime, file, run, started, crashes, failed,
                    asked>>
    BY <1>4 DEF PushLost, storage
  <2>3. RequestInv' /\ answers' \subseteq Answer
    BY <1>0, <1>4, <1>b, <1>c, <2>2 DEF PushLost, RequestInv
  <2> QED BY <1>0, <2>1, <2>2, <2>3 DEF TypeOK
<1>5. ASSUME NEW a \in answers, NEW heard \in BOOLEAN, on_client_recieve_result(a, heard)
      PROVE  Same /\ Types /\ RequestInv'
  <2>1. faults' \in Nat
    BY <1>0, <1>5, FaultNat DEF on_client_recieve_result, TypeOK
  <2>2. a.req.of \in TaskId
    BY <1>b DEF Answer, Payload
  <2>3. answers' = answers \ {a} /\ UNCHANGED <<payloads, runtime, file, run, started, crashes, asked>>
    BY <1>5 DEF on_client_recieve_result
  <2>4. RequestInv' /\ answers' \subseteq Answer
    BY <1>0, <2>3 DEF RequestInv, TypeOK
  <2>5. /\ tasks' \subseteq tasks
        /\ binding' = binding \/ binding' = Drop(binding, a.taskid)
        /\ failed' \subseteq failed \cup {a.req.of}
    BY <1>5 DEF on_client_recieve_result, remove_task
  <2>6. /\ DOMAIN binding' \subseteq TaskId
        /\ \A u \in DOMAIN binding' : binding'[u] \in Binding
    BY <1>0, <2>5 DEF TypeOK, Drop
  <2> QED BY <1>0, <2>1, <2>2, <2>3, <2>4, <2>5, <2>6 DEF TypeOK
<1>6. ASSUME NEW a \in answers, NEW again \in BOOLEAN, AnswerLost(a, again)
      PROVE  Same /\ Types /\ RequestInv'
  <2>1. faults' \in Nat
    BY <1>0, <1>6, FaultNat DEF AnswerLost, TypeOK
  <2>2. a.req \in Payload /\ a.req.of \in TaskId
    BY <1>b DEF Answer, Payload
  <2>3. /\ answers' = answers \ {a} /\ payloads' \subseteq payloads \cup {a.req}
        /\ failed' \subseteq failed \cup {a.req.of}
        /\ UNCHANGED <<tasks, binding, runtime, file, run, started, crashes, asked>>
    BY <1>6 DEF AnswerLost
  <2>4. RequestInv'
    BY <1>0, <1>b, <2>3 DEF RequestInv
  <2> QED BY <1>0, <2>1, <2>2, <2>3, <2>4 DEF TypeOK
<1> QED BY <1>a, <1>1, <1>2, <1>3, <1>4, <1>5, <1>6 DEF ClusterNext

\* The steps that change only what one handler knows.
LEMMA NodeStepOK ==
  ASSUME BaseInv, NEW h \in Handler, NodeStep(h)
  PROVE  BaseInv'
<1>0. TypeOK /\ RequestInv /\ RunOK(run[h]) /\ run[h] \in Run /\ faults \in Nat
  BY DEF BaseInv, RunOK, TypeOK
<1>1. ASSUME NEW p \in payloads, Receive(h, p)
      PROVE  BaseInv'
  <2> DEFINE r == [Idle EXCEPT !.pc = IF p.input = "other" THEN "empty" ELSE "pull", !.req = p]
  <2>1. faults' \in Nat
    BY <1>0, <1>1, FaultNat DEF Receive
  <2>2. p \in Payload /\ Cut(p)
    BY <1>0 DEF TypeOK, RequestInv
  <2>3. Idle \in Run /\ Idle.opened = FALSE /\ Idle.got = NoEngine
    BY IdleOK DEF RunOK, Idle
  <2>4. /\ r \in Run /\ r.req = p /\ r.pc \in {"empty", "pull"} /\ r.opened = FALSE
        /\ r.got = NoEngine
    BY <2>2, <2>3 DEF Run
  <2>5. RunOK(r)
    BY <2>2, <2>4 DEF RunOK
  <2>6. Step(h, r)
    BY <1>1 DEF Receive
  <2> QED BY <2>1, <2>5, <2>6, StepOK
<1>2. ASSUME Pull(h)
      PROVE  BaseInv'
  <2>1. Step(h, Pulled(h)) /\ faults' = faults /\ run[h].pc = "pull"
    BY <1>2 DEF Pull, Pulled
  <2> QED BY <1>0, <2>1, PulledOK, StepOK
<1>3. ASSUME PullFails(h)
      PROVE  BaseInv'
  <2> DEFINE r == [run[h] EXCEPT !.pc = "load"]
  <2>1. faults' \in Nat /\ Step(h, r) /\ run[h].pc = "pull"
    BY <1>0, <1>3, FaultNat DEF PullFails
  <2>2. r \in Run /\ r.pc = "load" /\ r.req = run[h].req /\ r.opened = run[h].opened
    BY <1>0 DEF Run
  <2>3. RunOK(r)
    BY <1>0, <2>1, <2>2 DEF RunOK
  <2> QED BY <2>1, <2>3, StepOK
<1>4. ASSUME OpenFails(h)
      PROVE  BaseInv'
  <2> DEFINE rest == IF Len(run[h].todo) = 1 + Len(run[h].got.deps) THEN <<>>
                     ELSE Tail(run[h].todo)
             d == IF run[h].disturbed = "no" THEN "failed" ELSE run[h].disturbed
             r == [run[h] EXCEPT !.disturbed = d, !.todo = rest, !.pc = After(rest)]
  <2>1. faults' \in Nat /\ Step(h, r) /\ run[h].pc = "write" /\ ~run[h].opened
    BY <1>0, <1>4, FaultNat DEF OpenFails
  <2>2. run[h].todo \in BoundedSeq(Binary \cup {Nothing}, MaxDeps + 1) /\ run[h].todo # <<>>
    BY <1>0, <2>1 DEF RunOK, Run
  <2>3. rest \in BoundedSeq(Binary \cup {Nothing}, MaxDeps + 1)
    BY <2>2, TodoTail, IdleOK DEF RunOK, Idle, Run
  <2>4. After(rest) \in {"load", "write"} /\ (After(rest) = "write" => rest # <<>>)
    BY DEF After
  <2>a. d \in {"no", "failed", "shared"}
    BY <1>0 DEF Run
  <2> HIDE DEF rest, d
  <2>5. /\ r \in Run /\ r.pc = After(rest) /\ r.req = run[h].req /\ r.todo = rest
        /\ r.opened = run[h].opened /\ r.got = run[h].got
    BY <1>0, <2>3, <2>4, <2>a DEF Run
  <2>6. RunOK(r)
    BY <1>0, <2>1, <2>4, <2>5 DEF RunOK
  <2> QED BY <2>1, <2>6, StepOK
<1>5. ASSUME NEW made \in BOOLEAN, Load(h, made)
      PROVE  BaseInv'
  <2>1. run[h].pc = "load" /\ faults' = faults
    BY <1>5 DEF Load
  <2>2. CASE Step(h, [run[h] EXCEPT !.pc = "reply"])
    <3> DEFINE r == [run[h] EXCEPT !.pc = "reply"]
    <3>1. r \in Run /\ r.pc = "reply" /\ r.req = run[h].req /\ r.opened = run[h].opened
      BY <1>0 DEF Run
    <3>2. RunOK(r)
      BY <1>0, <2>1, <3>1 DEF RunOK
    <3> QED BY <1>0, <2>1, <2>2, <3>2, StepOK
  <2>3. ASSUME NEW e \in Binary \cup {Nothing}, Step(h, [run[h] EXCEPT !.pc = "run", !.engine = e])
        PROVE  BaseInv'
    <3> DEFINE r == [run[h] EXCEPT !.pc = "run", !.engine = e]
    <3>1. r \in Run /\ r.pc = "run" /\ r.req = run[h].req /\ r.opened = run[h].opened
      BY <1>0 DEF Run
    <3>2. RunOK(r)
      BY <1>0, <2>1, <3>1 DEF RunOK
    <3> QED BY <1>0, <2>1, <2>3, <3>2, StepOK
  <2> QED BY <1>5, <2>2, <2>3 DEF Load
<1>6. ASSUME NEW good \in BOOLEAN, Compute(h, good)
      PROVE  BaseInv'
  <2> DEFINE res == IF run[h].engine = Nothing \/ ~good THEN Nothing
                    ELSE IF run[h].engine \in Bytes THEN Garbled ELSE run[h].engine
             r == [run[h] EXCEPT !.pc = "reply", !.result = res]
  <2>1. faults' = faults /\ Step(h, r) /\ run[h].pc = "run"
    BY <1>6 DEF Compute
  <2>2. res \in Binary \cup {Nothing, Garbled}
    BY <1>0 DEF Run
  <2> HIDE DEF res
  <2>3. r \in Run /\ r.pc = "reply" /\ r.req = run[h].req /\ r.opened = run[h].opened
    BY <1>0, <2>2 DEF Run
  <2>4. RunOK(r)
    BY <1>0, <2>1, <2>3 DEF RunOK
  <2> QED BY <1>0, <2>1, <2>4, StepOK
<1>7. ASSUME ReplyLost(h)
      PROVE  BaseInv'
  BY <1>0, <1>7, FaultNat, IdleOK, StepOK DEF ReplyLost
<1> QED BY <1>1, <1>2, <1>3, <1>4, <1>5, <1>6, <1>7 DEF NodeStep

\* What a handler that opens its file does to the others.
LEMMA Opened ==
  ASSUME NEW h \in Handler, Open(h)
  PROVE  \A g \in Handler :
           /\ g = h => run'[g] = [run[h] EXCEPT !.opened = TRUE,
                         !.disturbed = IF Others(h) = {} THEN @ ELSE "shared"]
           /\ g \in Others(h) => run'[g] = [run[g] EXCEPT !.disturbed = "shared"]
           /\ g # h /\ g \notin Others(h) => run'[g] = run[g]
BY DEF Open, Others

\* The steps at a file.
LEMMA FileStepOK ==
  ASSUME BaseInv, NEW h \in Handler, Open(h) \/ Write(h) \/ WriteFails(h)
  PROVE  BaseInv'
<1>0. /\ TypeOK /\ RequestInv /\ faults \in Nat
      /\ \A g \in Handler : RunOK(run[g]) /\ run[g] \in Run
  BY DEF BaseInv, RunOK, TypeOK
<1>1. UNCHANGED <<tasks, payloads, answers, started, failed, asked, binding, runtime,
                  crashes>> /\ faults' \in Nat
  BY <1>0, FaultNat DEF Open, Write, WriteFails, cluster, storage
<1>2. RequestInv'
  BY <1>0, <1>1 DEF RequestInv
<1>a. ASSUME file' \in [Short \X Name -> Binary \cup {Nothing, Empty}],
             \A g \in Handler : RunOK(run'[g]), run' = [g \in Handler |-> run'[g]]
      PROVE  BaseInv'
  <2>1. run' \in [Handler -> Run]
    BY <1>a DEF RunOK
  <2>2. TypeOK'
    BY <1>0, <1>1, <1>a, <2>1 DEF TypeOK
  <2> QED BY <1>2, <1>a, <2>2 DEF BaseInv
<1>3. CASE Open(h)
  <2>1. run' = [g \in Handler |-> run'[g]]
    <3> DEFINE new(g) ==
          CASE g = h -> [run[h] EXCEPT !.opened = TRUE,
                                       !.disturbed = IF Others(h) = {} THEN @ ELSE "shared"]
            [] g \in Others(h) -> [run[g] EXCEPT !.disturbed = "shared"]
            [] OTHER -> run[g]
    <3>1. run' = [g \in Handler |-> new(g)]
      BY <1>3 DEF Open
    <3> HIDE DEF new
    <3> QED BY <3>1
  <2>2. file' \in [Short \X Name -> Binary \cup {Nothing, Empty}]
    BY <1>0, <1>3 DEF Open, TypeOK
  <2>3. RunOK(run'[h])
    <3> DEFINE d == IF Others(h) = {} THEN run[h].disturbed ELSE "shared"
               r == [run[h] EXCEPT !.opened = TRUE, !.disturbed = d]
    <3>1. run'[h] = r
      BY <1>3, Opened
    <3>2. d \in {"no", "failed", "shared"}
      BY <1>0 DEF Run
    <3> HIDE DEF d
    <3>3. /\ r \in Run /\ r.pc = run[h].pc /\ r.req = run[h].req /\ r.todo = run[h].todo
          /\ r.got = run[h].got
      BY <1>0, <3>2 DEF Run
    <3>4. run[h].pc = "write"
      BY <1>3 DEF Open
    <3> QED BY <1>0, <3>1, <3>3, <3>4 DEF RunOK
  <2>4. ASSUME NEW g \in Others(h)
        PROVE  RunOK(run'[g])
    <3> DEFINE r == [run[g] EXCEPT !.disturbed = "shared"]
    <3>1. g \in Handler /\ run'[g] = r
      BY <1>3, Opened DEF Others
    <3>2. /\ r \in Run /\ r.pc = run[g].pc /\ r.req = run[g].req /\ r.todo = run[g].todo
          /\ r.got = run[g].got /\ r.opened = run[g].opened
      BY <1>0, <3>1 DEF Run
    <3> QED BY <1>0, <3>1, <3>2 DEF RunOK
  <2>5. \A g \in Handler : RunOK(run'[g])
    BY <1>0, <1>3, <2>3, <2>4, Opened
  <2> QED BY <1>a, <2>1, <2>2, <2>5
<1>4. CASE Write(h)
  <2> DEFINE rest == Tail(run[h].todo)
             r == [run[h] EXCEPT !.opened = FALSE, !.todo = rest, !.pc = After(rest)]
  <2>1. run[h].pc = "write" /\ run[h].opened
    BY <1>4 DEF Write
  <2>2. run \in [Handler -> Run]
    BY <1>0 DEF TypeOK
  <2>3. run' = [run EXCEPT ![h] = r]
    BY <1>4, <2>2 DEF Write, Run
  <2>4. run[h].todo \in BoundedSeq(Binary \cup {Nothing}, MaxDeps + 1) /\ run[h].todo # <<>>
    BY <1>0, <2>1 DEF RunOK, Run
  <2>5. /\ rest \in BoundedSeq(Binary \cup {Nothing}, MaxDeps + 1)
        /\ Head(run[h].todo) \in Binary \cup {Nothing}
    BY <2>4, TodoTail
  <2>6. After(rest) \in {"load", "write"} /\ (After(rest) = "write" => rest # <<>>)
    BY DEF After
  <2>7. file' \in [Short \X Name -> Binary \cup {Nothing, Empty}]
    BY <1>0, <1>4, <2>5 DEF Write, TypeOK
  <2> HIDE DEF rest
  <2>8. /\ r \in Run /\ r.pc = After(rest) /\ r.req = run[h].req /\ r.todo = rest
        /\ r.got = run[h].got /\ r.opened = FALSE
    BY <1>0, <2>5, <2>6 DEF Run
  <2>9. RunOK(r)
    BY <1>0, <2>1, <2>6, <2>8 DEF RunOK
  <2>10. \A g \in Handler : RunOK(run'[g])
    BY <1>0, <2>2, <2>3, <2>9
  <2>11. run' = [g \in Handler |-> run'[g]]
    BY <2>2, <2>3
  <2> QED BY <1>a, <2>7, <2>10, <2>11
<1>5. CASE WriteFails(h)
  <2> DEFINE rest == Tail(run[h].todo)
             d == IF run[h].disturbed = "no" THEN "failed" ELSE run[h].disturbed
             r == [run[h] EXCEPT !.opened = FALSE, !.todo = rest, !.pc = After(rest),
                                 !.disturbed = d]
  <2>1. run[h].pc = "write" /\ run[h].opened
    BY <1>5 DEF WriteFails
  <2>2. run \in [Handler -> Run]
    BY <1>0 DEF TypeOK
  <2>3. run' = [run EXCEPT ![h] = r]
    BY <1>5, <2>2 DEF WriteFails, Run
  <2>4. run[h].todo \in BoundedSeq(Binary \cup {Nothing}, MaxDeps + 1) /\ run[h].todo # <<>>
    BY <1>0, <2>1 DEF RunOK, Run
  <2>5. rest \in BoundedSeq(Binary \cup {Nothing}, MaxDeps + 1)
    BY <2>4, TodoTail
  <2>6. After(rest) \in {"load", "write"} /\ (After(rest) = "write" => rest # <<>>)
    BY DEF After
  <2>7. file' \in [Short \X Name -> Binary \cup {Nothing, Empty}]
    <3>1. Path(h) \in Short \X Name
      BY <1>0, <2>1 DEF Path, RunOK, Run, Payload
    <3>2. file \in [Short \X Name -> Binary \cup {Nothing, Empty}]
      BY <1>0 DEF TypeOK
    <3> QED BY <1>5, <3>1, <3>2 DEF WriteFails
  <2>a. d \in {"no", "failed", "shared"}
    BY <1>0 DEF Run
  <2> HIDE DEF rest, d
  <2>8. /\ r \in Run /\ r.pc = After(rest) /\ r.req = run[h].req /\ r.todo = rest
        /\ r.got = run[h].got /\ r.opened = FALSE
    BY <1>0, <2>5, <2>6, <2>a DEF Run
  <2>9. RunOK(r)
    BY <1>0, <2>1, <2>6, <2>8 DEF RunOK
  <2>10. \A g \in Handler : RunOK(run'[g])
    BY <1>0, <2>2, <2>3, <2>9
  <2>11. run' = [g \in Handler |-> run'[g]]
    BY <2>2, <2>3
  <2> QED BY <1>a, <2>7, <2>10, <2>11
<1> QED BY <1>3, <1>4, <1>5

\* The answer a handler gives.
AnswerOf(h, cut) ==
  [stage |-> "push", tries |-> 0, req |-> run[h].req, taskid |-> run[h].req.taskid,
   parsed |-> run[h].pc = "reply", result |-> run[h].result,
   output |-> IF cut \/ run[h].pc = "empty" THEN "none" ELSE run[h].req.output]

LEMMA ReplyOK ==
  ASSUME BaseInv, NEW h \in Handler, NEW cut \in BOOLEAN, Reply(h, cut)
  PROVE  /\ BaseInv'
         /\ run' = [run EXCEPT ![h] = Idle]
         /\ \/ UNCHANGED <<payloads, answers>>
            \/ /\ run[h].req \in payloads
               /\ payloads' = payloads \ {run[h].req}
               /\ answers' = answers \cup {AnswerOf(h, cut)}
         /\ AnswerOf(h, cut) \in Answer
         /\ AnswerOf(h, cut).output \in {"none", run[h].req.output}
         /\ AnswerOf(h, cut).taskid = run[h].req.taskid
<1>0. /\ TypeOK /\ RequestInv /\ RunOK(run[h]) /\ run \in [Handler -> Run]
      /\ \A g \in Handler : RunOK(run[g])
  BY DEF BaseInv, TypeOK
<1>1. run[h].pc \in {"reply", "empty"} /\ run[h].req \in Payload /\ Cut(run[h].req)
  BY <1>0 DEF Reply, RunOK
<1>2. run[h].result \in Binary \cup {Nothing, Garbled}
  BY <1>0 DEF Run
<1>3. run[h].req.taskid \in Short /\ run[h].req.output \in Output
  BY <1>1 DEF Payload
<1>4. (run[h].pc = "reply") \in BOOLEAN
  OBVIOUS
<1>5. (IF cut \/ run[h].pc = "empty" THEN "none" ELSE run[h].req.output)
        \in {"none", run[h].req.output}
  OBVIOUS
<1>6. "none" \in Output
  BY DEF Output
<1>7. /\ AnswerOf(h, cut) \in Answer /\ AnswerOf(h, cut).req = run[h].req
      /\ AnswerOf(h, cut).taskid = run[h].req.taskid
      /\ AnswerOf(h, cut).output \in {"none", run[h].req.output}
  BY <1>1, <1>2, <1>3, <1>4, <1>5, <1>6 DEF AnswerOf, Answer
<1>8. /\ run' = [run EXCEPT ![h] = Idle]
      /\ UNCHANGED <<tasks, binding, runtime, file, started, faults, crashes, failed, asked>>
  BY DEF Reply, storage
<1>9. \/ UNCHANGED <<payloads, answers>>
      \/ /\ run[h].req \in payloads
         /\ payloads' = payloads \ {run[h].req}
         /\ answers' = answers \cup {AnswerOf(h, cut)}
  BY DEF Reply, AnswerOf
<1>10. \A g \in Handler : RunOK(run'[g])
  BY <1>0, <1>8, IdleOK
<1>11. run' \in [Handler -> Run]
  BY <1>0, <1>8, IdleOK DEF RunOK
<1>12. RequestInv'
  BY <1>0, <1>1, <1>7, <1>9 DEF RequestInv
<1>13. payloads' \subseteq Payload /\ answers' \subseteq Answer
  BY <1>0, <1>7, <1>9 DEF TypeOK
<1>14. TypeOK'
  BY <1>0, <1>8, <1>11, <1>13 DEF TypeOK
<1> QED BY <1>7, <1>8, <1>9, <1>10, <1>12, <1>14 DEF BaseInv

LEMMA Steps ==
  ASSUME [Next]_vars
  PROVE  \/ ClusterNext
         \/ \E h \in Handler : NodeStep(h)
         \/ \E h \in Handler : Open(h) \/ Write(h) \/ WriteFails(h)
         \/ \E h \in Handler, cut \in BOOLEAN : Reply(h, cut)
         \/ Crash
         \/ UNCHANGED vars
BY DEF Next, Handle, Accept, ReceiveJxtd, LoadCrashes, ComputeCrashes, ClusterNext, NodeStep

LEMMA BaseStep ==
  ASSUME BaseInv, [Next]_vars
  PROVE  BaseInv'
<1>1. ClusterNext => BaseInv'
  BY ClusterOK
<1>2. ASSUME NEW h \in Handler, NodeStep(h)
      PROVE  BaseInv'
  BY <1>2, NodeStepOK
<1>3. ASSUME NEW h \in Handler, Open(h) \/ Write(h) \/ WriteFails(h)
      PROVE  BaseInv'
  BY <1>3, FileStepOK
<1>4. ASSUME NEW h \in Handler, NEW cut \in BOOLEAN, Reply(h, cut)
      PROVE  BaseInv'
  BY <1>4, ReplyOK
<1>5. UNCHANGED vars => BaseInv'
  BY DEF vars, BaseInv, TypeOK, RequestInv
<1> QED BY <1>1, <1>2, <1>3, <1>4, <1>5, CrashOK, Steps

LEMMA BaseInvariant == Spec => []BaseInv
<1>1. Init => BaseInv
  <2> SUFFICES ASSUME Init
               PROVE  BaseInv
    OBVIOUS
  <2>1. \A h \in Handler : run[h] = Idle
    BY DEF Init
  <2>2. run \in [Handler -> Run] /\ \A h \in Handler : RunOK(run[h])
    BY <2>1, IdleOK DEF RunOK, Init
  <2>3. DOMAIN binding = {}
    BY DEF Init
  <2>4. runtime \in [Short -> Seq(Binary \cup {Garbled})]
    BY DEF Init
  <2>5. TypeOK
    BY <2>2, <2>3, <2>4 DEF Init, TypeOK
  <2>6. RequestInv
    BY DEF Init, RequestInv
  <2> QED BY <2>2, <2>5, <2>6 DEF BaseInv
<1>2. BaseInv /\ [Next]_vars => BaseInv'
  BY BaseStep
<1> QED BY <1>1, <1>2, PTL DEF Spec

\* What the cluster, the storage and the handlers of the node hold is well
\* typed, whatever fails in between (computation/infer/infer.cc).
THEOREM TypeCorrect == Spec => []TypeOK
<1>1. BaseInv => TypeOK
  BY DEF BaseInv
<1> QED BY <1>1, BaseInvariant, PTL

-----------------------------------------------------------------------------
(* A handler runs the engine of its task                                   *)

\* A handler that leaves the files alone and does not come to one.
LEMMA MoveApart ==
  ASSUME Apart, run \in [Handler -> Run], NEW h \in Handler, NEW r,
         run' = [run EXCEPT ![h] = r], ~r.opened,
         Touches(r) => \/ r.disturbed # "no"
                       \/ /\ Touches(run[h]) /\ r.req = run[h].req /\ r.got = run[h].got
                          /\ r.disturbed = run[h].disturbed
  PROVE  Apart'
<1> SUFFICES ASSUME NEW g \in Handler, NEW k \in Handler, g # k, run'[g].opened,
                    Touches(run'[k]), Path(g)' = Path(k)'
             PROVE  run'[k].disturbed # "no"
  BY DEF Apart
<1>1. g # h /\ run'[g] = run[g]
  OBVIOUS
<1>2. CASE k # h
  BY <1>1, <1>2 DEF Apart, Path
<1>3. CASE k = h
  <2>1. run'[k] = r
    BY <1>3
  <2>2. CASE r.disturbed # "no"
    BY <2>1, <2>2
  <2>3. CASE Touches(run[h]) /\ r.req = run[h].req /\ r.got = run[h].got
             /\ r.disturbed = run[h].disturbed
    <3>1. Path(g) = Path(h)
      BY <1>1, <2>1, <2>3, <1>3 DEF Path
    <3> QED BY <1>1, <1>3, <2>1, <2>3, <3>1 DEF Apart
  <2> QED BY <2>1, <2>2, <2>3
<1> QED BY <1>2, <1>3

LEMMA MoveOwn ==
  ASSUME EngineInv, run \in [Handler -> Run], NEW h \in Handler, NEW r,
         run' = [run EXCEPT ![h] = r], file' = file, ~r.opened,
         OwnOK(r, file[<<r.req.taskid, r.got.name>>]),
         Touches(r) => \/ r.disturbed # "no"
                       \/ /\ Touches(run[h]) /\ r.req = run[h].req /\ r.got = run[h].got
                          /\ r.disturbed = run[h].disturbed
  PROVE  EngineInv'
<1>1. Apart'
  BY MoveApart DEF EngineInv
<1>2. \A g \in Handler : OwnOK(run'[g], file'[Path(g)'])
  BY DEF EngineInv, Path
<1> QED BY <1>1, <1>2 DEF EngineInv

LEMMA IdleOwn ==
  ASSUME NEW f
  PROVE  ~Touches(Idle) /\ OwnOK(Idle, f) /\ ~Idle.opened
BY DEF Touches, OwnOK, Idle

LEMMA PulledOwn ==
  ASSUME BaseInv, NEW h \in Handler, run[h].pc = "pull", NEW f
  PROVE  ~Pulled(h).opened /\ ~Touches(Pulled(h)) /\ OwnOK(Pulled(h), f)
<1> DEFINE got == EnginePull(run[h].req.taskid)
           files == IF got.binary = Nothing THEN <<>> ELSE <<got.binary>> \o got.deps
           r == Pulled(h)
<1>1. run[h] \in Run /\ RunOK(run[h])
  BY DEF BaseInv, RunOK
<1>2. r = [run[h] EXCEPT !.pc = After(files), !.todo = files,
             !.got = IF got.binary = Nothing THEN NoEngine ELSE got,
             !.own = OwnEngine(run[h].req.of)]
  BY DEF Pulled
<1>a. run[h].req \in Payload /\ Cut(run[h].req) /\ ~run[h].opened
  BY <1>1 DEF RunOK
<1>3. CASE got.binary = Nothing
  <2> HIDE DEF got, files
  <2>1. r.got = NoEngine /\ r.opened = run[h].opened
    BY <1>1, <1>2, <1>3 DEF Run
  <2> QED BY <1>a, <2>1 DEF Touches, OwnOK
<1>4. CASE got.binary # Nothing
  <2>1. /\ run[h].req.taskid \in DOMAIN binding
        /\ got.binary = binding[run[h].req.taskid].binary
        /\ got.deps \in Seq(Model \cup {Nothing}) /\ got # NoEngine
    BY <1>4, EngineSent DEF BaseInv
  <2>2. files = <<got.binary>> \o got.deps
    BY <1>4
  <2> HIDE DEF got, files
  <2>3. files # <<>>
    BY <2>1, <2>2
  <2>4. /\ r.pc = "write" /\ r.todo = files /\ r.got = got /\ r.own = OwnEngine(run[h].req.of)
        /\ r.req = run[h].req /\ r.opened = run[h].opened
    BY <1>1, <1>2, <1>4, <2>3 DEF Run, After
  <2>5. run[h].req.of < Width => r.own = got.binary
    <3>1. run[h].req.of \in Nat /\ run[h].req.taskid = run[h].req.of % Width
      BY <1>a, InferenceAssumption DEF Payload, Cut
    <3>2. run[h].req.of < Width => run[h].req.taskid = run[h].req.of
      BY <3>1, InferenceAssumption
    <3> QED BY <2>1, <2>4, <3>2 DEF OwnEngine
  <2>6. got.deps = <<>> => files = <<got.binary>>
    BY <2>2
  <2> QED BY <1>a, <1>4, <2>1, <2>4, <2>5, <2>6 DEF Touches, OwnOK
<1> QED BY <1>3, <1>4

LEMMA NodeStepOwn ==
  ASSUME BaseInv, EngineInv, NEW h \in Handler, NodeStep(h)
  PROVE  EngineInv'
<1>0. /\ run \in [Handler -> Run] /\ RunOK(run[h]) /\ run[h] \in Run
      /\ OwnOK(run[h], file[Path(h)])
  BY DEF BaseInv, TypeOK, RunOK, EngineInv
<1>a. ASSUME NEW r, Step(h, r)
      PROVE  run' = [run EXCEPT ![h] = r] /\ file' = file
  BY <1>a DEF Step
<1>b. ASSUME NEW r, Step(h, r), ~r.opened, ~Touches(r),
             OwnOK(r, file[<<r.req.taskid, r.got.name>>])
      PROVE  EngineInv'
  BY <1>0, <1>a, <1>b, MoveOwn
<1>1. ASSUME NEW p \in payloads, Receive(h, p)
      PROVE  EngineInv'
  <2> DEFINE r == [Idle EXCEPT !.pc = IF p.input = "other" THEN "empty" ELSE "pull", !.req = p]
  <2>1. Step(h, r)
    BY <1>1 DEF Receive
  <2>2. r.got = NoEngine /\ ~r.opened
    BY DEF Idle
  <2> HIDE DEF r
  <2> QED BY <1>b, <2>1, <2>2 DEF Touches, OwnOK
<1>2. ASSUME Pull(h)
      PROVE  EngineInv'
  <2>1. Step(h, Pulled(h)) /\ run[h].pc = "pull"
    BY <1>2 DEF Pull, Pulled
  <2> QED BY <1>b, <2>1, PulledOwn
<1>3. ASSUME PullFails(h)
      PROVE  EngineInv'
  <2> DEFINE r == [run[h] EXCEPT !.pc = "load"]
  <2>1. Step(h, r) /\ run[h].got = NoEngine /\ ~run[h].opened
    BY <1>0, <1>3 DEF PullFails, RunOK
  <2>2. r.got = NoEngine /\ ~r.opened
    BY <1>0, <2>1 DEF Run
  <2> HIDE DEF r
  <2> QED BY <1>b, <2>1, <2>2 DEF Touches, OwnOK
<1>4. ASSUME OpenFails(h)
      PROVE  EngineInv'
  <2> DEFINE rest == IF Len(run[h].todo) = 1 + Len(run[h].got.deps) THEN <<>>
                     ELSE Tail(run[h].todo)
             d == IF run[h].disturbed = "no" THEN "failed" ELSE run[h].disturbed
             r == [run[h] EXCEPT !.disturbed = d, !.todo = rest, !.pc = After(rest)]
  <2>1. Step(h, r) /\ run[h].pc = "write" /\ ~run[h].opened
    BY <1>4 DEF OpenFails
  <2>2. d # "no"
    OBVIOUS
  <2>3. /\ r.disturbed = d /\ r.pc = After(rest) /\ r.opened = run[h].opened
        /\ r.got = run[h].got /\ r.req = run[h].req /\ r.own = run[h].own
    <3> HIDE DEF d, rest
    <3> QED BY <1>0 DEF Run
  <2>4. ASSUME r.got # NoEngine, r.req.of < Width, r.got.deps = <<>>
        PROVE  r.pc = "load" /\ r.own # Nothing
    <3> HIDE DEF r
    <3>1. run[h].todo = <<run[h].own>> /\ r.own # Nothing
      BY <1>0, <2>1, <2>3, <2>4 DEF OwnOK
    <3>2. rest = <<>>
      BY <2>3, <2>4, <3>1
    <3> QED BY <2>3, <3>1, <3>2 DEF After
  <2> HIDE DEF r, d
  <2>5. OwnOK(r, file[<<r.req.taskid, r.got.name>>])
    BY <2>2, <2>3, <2>4 DEF OwnOK
  <2> QED BY <1>0, <1>a, <2>1, <2>2, <2>3, <2>5, MoveOwn
<1>5. ASSUME NEW made \in BOOLEAN, Load(h, made)
      PROVE  EngineInv'
  <2>1. run[h].pc = "load" /\ ~run[h].opened
    BY <1>0, <1>5 DEF Load, RunOK
  <2>2. CASE run[h].got = NoEngine /\ Step(h, [run[h] EXCEPT !.pc = "reply"])
    <3> DEFINE r == [run[h] EXCEPT !.pc = "reply"]
    <3>1. r.got = NoEngine /\ ~r.opened
      BY <1>0, <2>1, <2>2 DEF Run
    <3>2. Step(h, r)
      BY <2>2
    <3> HIDE DEF r
    <3> QED BY <1>b, <3>1, <3>2 DEF Touches, OwnOK
  <2>3. CASE /\ run[h].got # NoEngine
             /\ Step(h, [run[h] EXCEPT !.pc = "run",
                           !.engine = IF made /\ Exports(file[Path(h)], run[h].got.name,
                                                         run[h].req.taskid)
                                      THEN file[Path(h)] ELSE Nothing])
    <3> DEFINE e == IF made /\ Exports(file[Path(h)], run[h].got.name, run[h].req.taskid)
                    THEN file[Path(h)] ELSE Nothing
               r == [run[h] EXCEPT !.pc = "run", !.engine = e]
    <3>1. Step(h, r)
      BY <2>3
    <3>2. /\ r.pc = "run" /\ r.engine = e /\ r.opened = run[h].opened
          /\ r.disturbed = run[h].disturbed
          /\ r.got = run[h].got /\ r.req = run[h].req /\ r.own = run[h].own
      <4> HIDE DEF e
      <4> QED BY <1>0 DEF Run
    <3> HIDE DEF r
    <3>3. OwnOK(r, file[<<r.req.taskid, r.got.name>>])
      BY <1>0, <2>1, <3>2 DEF OwnOK
    <3>4. Touches(run[h])
      BY <2>1, <2>3 DEF Touches
    <3> QED BY <1>0, <1>a, <2>1, <3>1, <3>2, <3>3, <3>4, MoveOwn
  <2> QED BY <1>5, <2>2, <2>3 DEF Load
<1>6. ASSUME NEW good \in BOOLEAN, Compute(h, good)
      PROVE  EngineInv'
  <2> DEFINE res == IF run[h].engine = Nothing \/ ~good THEN Nothing
                    ELSE IF run[h].engine \in Bytes THEN Garbled ELSE run[h].engine
             r == [run[h] EXCEPT !.pc = "reply", !.result = res]
  <2>1. Step(h, r) /\ ~run[h].opened
    BY <1>0, <1>6 DEF Compute, RunOK
  <2> HIDE DEF res
  <2>2. r.pc = "reply" /\ ~r.opened
    BY <1>0, <2>1 DEF Run
  <2> HIDE DEF r
  <2> QED BY <1>b, <2>1, <2>2 DEF Touches, OwnOK
<1>7. ASSUME ReplyLost(h)
      PROVE  EngineInv'
  BY <1>7, <1>b, IdleOwn DEF ReplyLost
<1> QED BY <1>1, <1>2, <1>3, <1>4, <1>5, <1>6, <1>7 DEF NodeStep

\* Whoever is at the file is told when it is opened again.
LEMMA OpenOwn ==
  ASSUME BaseInv, EngineInv, NEW h \in Handler, Open(h)
  PROVE  EngineInv'
<1>0. \A g \in Handler : run[g] \in Run /\ RunOK(run[g]) /\ OwnOK(run[g], file[Path(g)])
  BY DEF BaseInv, RunOK, EngineInv
<1> DEFINE d == IF Others(h) = {} THEN run[h].disturbed ELSE "shared"
           Kept(g, r) == /\ r.pc = run[g].pc /\ r.req = run[g].req /\ r.got = run[g].got
                         /\ r.own = run[g].own /\ r.todo = run[g].todo /\ r.engine = run[g].engine
<1>a. /\ run'[h] = [run[h] EXCEPT !.opened = TRUE, !.disturbed = d]
      /\ \A g \in Others(h) : run'[g] = [run[g] EXCEPT !.disturbed = "shared"] /\ g \in Handler
      /\ \A g \in Handler : g # h /\ g \notin Others(h) => run'[g] = run[g]
  BY Opened DEF Others
<1>b. Kept(h, run'[h]) /\ run'[h].opened /\ run'[h].disturbed = d
  <2> HIDE DEF d
  <2> QED BY <1>0, <1>a DEF Run
<1>c. ASSUME NEW g \in Others(h)
      PROVE  Kept(g, run'[g]) /\ run'[g].opened = run[g].opened /\ run'[g].disturbed = "shared"
  <2>1. g \in Handler /\ run'[g] = [run[g] EXCEPT !.disturbed = "shared"]
    BY <1>a, <1>c
  <2>2. run[g] \in Run
    BY <1>0, <2>1
  <2> QED BY <2>1, <2>2 DEF Run
<1>1. \A g \in Handler : Kept(g, run'[g])
  BY <1>a, <1>b, <1>c
<1>2. /\ run'[h].opened
      /\ Others(h) = {} => run'[h].disturbed = run[h].disturbed
      /\ Others(h) # {} => run'[h].disturbed = "shared"
  BY <1>b
<1>3. \A g \in Handler \ {h} :
        /\ run'[g].opened = run[g].opened
        /\ run'[g].disturbed = IF g \in Others(h) THEN "shared" ELSE run[g].disturbed
  BY <1>a, <1>c
<1>4. \A g \in Handler : Path(g)' = Path(g)
  BY <1>1 DEF Path
<1>5. run[h].pc = "write" /\ run[h].got # NoEngine
  BY <1>0 DEF Open, RunOK
<1>6. ASSUME NEW g \in Handler \ {h}, Touches(run[g]), Path(g) = Path(h)
      PROVE  g \in Others(h)
  BY <1>0, <1>6 DEF Others, Touches, InUse, RunOK
<1>7. Apart'
  <2> SUFFICES ASSUME NEW g \in Handler, NEW k \in Handler, g # k, run'[g].opened,
                      Touches(run'[k]), Path(g)' = Path(k)'
               PROVE  run'[k].disturbed # "no"
    BY DEF Apart
  <2>1. Path(g) = Path(k)
    BY <1>4
  <2>2. CASE g = h
    <3>1. Touches(run[k])
      BY <1>1, <1>3, <2>2 DEF Touches
    <3>2. k \in Others(h)
      BY <1>6, <2>1, <2>2, <3>1
    <3> QED BY <1>3, <2>2, <3>2
  <2>3. CASE k = h
    <3>1. run[g].opened
      BY <1>3, <2>3
    <3>2. Touches(run[g])
      BY <1>0, <3>1 DEF Touches, RunOK
    <3>3. g \in Others(h)
      BY <1>6, <2>1, <2>3, <3>2
    <3> QED BY <1>2, <2>3, <3>3
  <2>4. CASE g # h /\ k # h
    <3>1. run[g].opened /\ Touches(run[k])
      BY <1>1, <1>3, <2>4 DEF Touches
    <3>2. run[k].disturbed # "no"
      BY <2>1, <3>1 DEF EngineInv, Apart
    <3> QED BY <1>3, <2>4, <3>2
  <2> QED BY <2>2, <2>3, <2>4
<1>8. ASSUME NEW g \in Handler
      PROVE  OwnOK(run'[g], file'[Path(g)'])
  <2>1. CASE g = h
    BY <1>0, <1>1, <1>5, <2>1 DEF OwnOK
  <2>2. CASE g \in Others(h)
    <3>1. g # h
      BY <2>2 DEF Others
    <3> QED BY <1>0, <1>1, <1>3, <2>2, <3>1 DEF OwnOK
  <2>3. CASE g # h /\ g \notin Others(h)
    <3>1. run[g].got # NoEngine /\ run[g].pc = "load" => Path(g) # Path(h)
      BY <1>6, <2>3 DEF Touches
    <3>2. run[g].got # NoEngine /\ run[g].pc = "load" => file'[Path(g)] = file[Path(g)]
      <4>1. run[g].got # NoEngine /\ run[g].pc = "load" => Path(g) \in Short \X Name
        BY <1>0 DEF Path, RunOK, Run, Payload
      <4>2. file \in [Short \X Name -> Binary \cup {Nothing, Empty}]
            /\ file' = [file EXCEPT ![Path(h)] = Empty]
        BY DEF BaseInv, TypeOK, Open
      <4> QED BY <3>1, <4>1, <4>2
    <3>3. Path(g)' = Path(g) /\ run'[g].disturbed = run[g].disturbed
      BY <1>3, <1>4, <2>3
    <3> QED BY <1>0, <1>1, <3>2, <3>3 DEF OwnOK
  <2> QED BY <2>1, <2>2, <2>3
<1> QED BY <1>7, <1>8 DEF EngineInv

\* Whoever writes to a file that another handler loads is known to it.
LEMMA WriteOwn ==
  ASSUME BaseInv, EngineInv, NEW h \in Handler, Write(h)
  PROVE  EngineInv'
<1> DEFINE rest == Tail(run[h].todo)
           r == [run[h] EXCEPT !.opened = FALSE, !.todo = rest, !.pc = After(rest)]
           new == Head(run[h].todo)
<1>0. /\ run \in [Handler -> Run]
      /\ \A g \in Handler : run[g] \in Run /\ RunOK(run[g]) /\ OwnOK(run[g], file[Path(g)])
  BY DEF BaseInv, TypeOK, RunOK, EngineInv
<1>1. run[h].pc = "write" /\ run[h].opened /\ run[h].got # NoEngine
  BY <1>0 DEF Write, RunOK
<1>2. run' = [run EXCEPT ![h] = r]
  BY <1>0 DEF Write, Run
<1>3. /\ r.opened = FALSE /\ r.pc = After(rest) /\ r.req = run[h].req /\ r.got = run[h].got
      /\ r.own = run[h].own /\ r.disturbed = run[h].disturbed
  <2> HIDE DEF rest
  <2> QED BY <1>0 DEF Run
<1>4. Touches(run[h])
  BY <1>1 DEF Touches
<1>5. /\ file \in [Short \X Name -> Binary \cup {Nothing, Empty}]
      /\ file' = [file EXCEPT ![Path(h)] = IF new = Nothing THEN @ ELSE new]
  BY DEF BaseInv, TypeOK, Write
<1>6. \A g \in Handler : run[g].got # NoEngine /\ run[g].pc \in {"write", "load"} =>
                           Path(g) \in Short \X Name
  BY <1>0 DEF Path, RunOK, Run, Payload
<1> HIDE DEF r
<1>7. Apart'
  BY <1>0, <1>2, <1>3, <1>4, MoveApart DEF EngineInv
<1>8. OwnOK(run'[h], file'[Path(h)'])
  <2>1. run'[h] = r /\ Path(h)' = Path(h)
    BY <1>0, <1>2, <1>3 DEF Path
  <2>2. ASSUME r.req.of < Width, r.got.deps = <<>>
        PROVE  /\ r.pc = "load" /\ r.own # Nothing
               /\ file'[Path(h)] = r.own
    <3>1. run[h].todo = <<run[h].own>> /\ r.own # Nothing
      BY <1>0, <1>1, <1>3, <2>2 DEF OwnOK
    <3>2. rest = <<>> /\ new = run[h].own
      BY <3>1
    <3>3. file'[Path(h)] = run[h].own
      BY <1>1, <1>3, <1>5, <1>6, <3>1, <3>2
    <3> QED BY <1>3, <3>1, <3>2, <3>3 DEF After
  <2> QED BY <2>1, <2>2 DEF OwnOK
<1>9. ASSUME NEW g \in Handler \ {h}
      PROVE  OwnOK(run'[g], file'[Path(g)'])
  <2>1. run'[g] = run[g] /\ Path(g)' = Path(g)
    BY <1>0, <1>2 DEF Path
  <2>2. run[g].got # NoEngine /\ run[g].pc = "load" /\ run[g].disturbed = "no" =>
          Path(g) # Path(h)
    BY <1>1 DEF EngineInv, Apart, Touches
  <2>3. run[g].got # NoEngine /\ run[g].pc = "load" /\ run[g].disturbed = "no" =>
          file'[Path(g)] = file[Path(g)]
    BY <1>5, <1>6, <2>2
  <2> QED BY <1>0, <2>1, <2>3 DEF OwnOK
<1> QED BY <1>7, <1>8, <1>9 DEF EngineInv

\* A handler whose write fails knows it; the others as when it writes.
LEMMA WriteFailsOwn ==
  ASSUME BaseInv, EngineInv, NEW h \in Handler, WriteFails(h)
  PROVE  EngineInv'
<1> DEFINE rest == Tail(run[h].todo)
           d == IF run[h].disturbed = "no" THEN "failed" ELSE run[h].disturbed
           r == [run[h] EXCEPT !.opened = FALSE, !.todo = rest, !.pc = After(rest),
                               !.disturbed = d]
<1>0. /\ run \in [Handler -> Run]
      /\ \A g \in Handler : run[g] \in Run /\ RunOK(run[g]) /\ OwnOK(run[g], file[Path(g)])
  BY DEF BaseInv, TypeOK, RunOK, EngineInv
<1>1. run[h].pc = "write" /\ run[h].opened /\ run[h].got # NoEngine
  BY <1>0 DEF WriteFails, RunOK
<1>2. run' = [run EXCEPT ![h] = r]
  BY <1>0 DEF WriteFails, Run
<1>a. d # "no"
  OBVIOUS
<1>3. /\ r.opened = FALSE /\ r.pc = After(rest) /\ r.req = run[h].req /\ r.got = run[h].got
      /\ r.own = run[h].own /\ r.disturbed = d
  <2> HIDE DEF rest, d
  <2> QED BY <1>0 DEF Run
<1> HIDE DEF d
<1>4. /\ file \in [Short \X Name -> Binary \cup {Nothing, Empty}]
      /\ \E c : file' = [file EXCEPT ![Path(h)] = c]
  BY DEF BaseInv, TypeOK, WriteFails
<1>5. \A g \in Handler : run[g].got # NoEngine /\ run[g].pc \in {"write", "load"} =>
                           Path(g) \in Short \X Name
  BY <1>0 DEF Path, RunOK, Run, Payload
<1> HIDE DEF r
<1>6. Apart'
  BY <1>0, <1>2, <1>3, <1>a, MoveApart DEF EngineInv
<1>7. OwnOK(run'[h], file'[Path(h)'])
  <2>1. run'[h] = r
    BY <1>0, <1>2
  <2>2. ASSUME r.req.of < Width, r.got.deps = <<>>
        PROVE  r.pc = "load" /\ r.own # Nothing
    <3>1. run[h].todo = <<run[h].own>> /\ r.own # Nothing
      BY <1>0, <1>1, <1>3, <2>2 DEF OwnOK
    <3>2. rest = <<>>
      BY <3>1
    <3> QED BY <1>3, <3>1, <3>2 DEF After
  <2> QED BY <1>a, <1>3, <2>1, <2>2 DEF OwnOK
<1>8. ASSUME NEW g \in Handler \ {h}
      PROVE  OwnOK(run'[g], file'[Path(g)'])
  <2>1. run'[g] = run[g] /\ Path(g)' = Path(g)
    BY <1>0, <1>2 DEF Path
  <2>2. run[g].got # NoEngine /\ run[g].pc = "load" /\ run[g].disturbed = "no" =>
          Path(g) # Path(h)
    BY <1>1 DEF EngineInv, Apart, Touches
  <2>3. run[g].got # NoEngine /\ run[g].pc = "load" /\ run[g].disturbed = "no" =>
          file'[Path(g)] = file[Path(g)]
    BY <1>4, <1>5, <2>2
  <2> QED BY <1>0, <2>1, <2>3 DEF OwnOK
<1> QED BY <1>6, <1>7, <1>8 DEF EngineInv

LEMMA EngineStep ==
  ASSUME BaseInv, EngineInv, [Next]_vars
  PROVE  EngineInv'
<1>1. CASE run' = run /\ file' = file
  BY <1>1 DEF EngineInv, Apart, Path
<1>2. ASSUME NEW h \in Handler, NEW cut \in BOOLEAN, Reply(h, cut)
      PROVE  EngineInv'
  <2>1. run' = [run EXCEPT ![h] = Idle] /\ file' = file /\ run \in [Handler -> Run]
    BY <1>2 DEF Reply, BaseInv, TypeOK
  <2> QED BY <2>1, IdleOwn, MoveOwn
<1>3. Crash => EngineInv'
  <2> SUFFICES ASSUME Crash
               PROVE  EngineInv'
    OBVIOUS
  <2>1. \A h \in Handler : run'[h] = Idle
    BY DEF Crash
  <2>2. Apart'
    BY <2>1, IdleOwn DEF Apart
  <2>3. \A h \in Handler : OwnOK(run'[h], file'[Path(h)'])
    BY <2>1, IdleOwn
  <2> QED BY <2>2, <2>3 DEF EngineInv
<1>4. ClusterNext \/ UNCHANGED vars => run' = run /\ file' = file
  BY ClusterOK DEF vars
<1> QED BY <1>1, <1>2, <1>3, <1>4, Steps, NodeStepOwn, OpenOwn, WriteOwn, WriteFailsOwn

\* A handler loads the engine its task was bound to when it pulled it, and
\* runs that one or none, whatever an earlier task of the id left in the
\* file, unless the id is too long, the engine has dependencies, the file
\* could not be opened or written, or another handler was at it
\* (drccp_on_server_receive_payload, client_task.cc).
THEOREM EngineCorrect == Spec => []RunsOwnEngine
<1>1. Init => EngineInv
  <2> SUFFICES ASSUME Init
               PROVE  EngineInv
    OBVIOUS
  <2>1. \A h \in Handler : run[h] = Idle
    BY DEF Init
  <2> QED BY <2>1, IdleOwn DEF EngineInv, Apart
<1>2. BaseInv /\ EngineInv /\ [Next]_vars => EngineInv'
  BY EngineStep
<1>3. EngineInv => RunsOwnEngine
  BY DEF EngineInv, OwnOK, RunsOwnEngine
<1> QED BY <1>1, <1>2, <1>3, BaseInvariant, PTL DEF Spec

-----------------------------------------------------------------------------
(* A result is appended once                                               *)

LEMMA PartSize ==
  ASSUME NEW S, IsFiniteSet(S), NEW T, T \subseteq S
  PROVE  /\ IsFiniteSet(T) /\ Cardinality(T) \in Nat /\ Cardinality(S) \in Nat
         /\ Cardinality(T) <= Cardinality(S)
BY FS_Subset, FS_CardinalityType

LEMMA AddSize ==
  ASSUME NEW S, IsFiniteSet(S), NEW e, NEW T, T \subseteq S \cup {e}
  PROVE  /\ IsFiniteSet(T) /\ Cardinality(T) \in Nat /\ Cardinality(S) \in Nat
         /\ Cardinality(T) <= Cardinality(S) + 1
<1>1. /\ IsFiniteSet(S \cup {e}) /\ Cardinality(S) \in Nat
      /\ Cardinality(S \cup {e}) <= Cardinality(S) + 1
  BY FS_AddElement, FS_CardinalityType
<1>2. IsFiniteSet(T) /\ Cardinality(T) <= Cardinality(S \cup {e}) /\ Cardinality(T) \in Nat
  BY <1>1, FS_Subset, FS_CardinalityType
<1>3. Cardinality(S \cup {e}) \in Nat
  BY <1>1, FS_CardinalityType
<1> QED BY <1>1, <1>2, <1>3

LEMMA LessSize ==
  ASSUME NEW S, IsFiniteSet(S), NEW e \in S, NEW T, T \subseteq S \ {e}
  PROVE  /\ IsFiniteSet(T) /\ Cardinality(T) \in Nat /\ Cardinality(S) \in Nat
         /\ Cardinality(T) <= Cardinality(S) - 1
<1>1. /\ IsFiniteSet(S \ {e}) /\ Cardinality(S) \in Nat
      /\ Cardinality(S \ {e}) = Cardinality(S) - 1
  BY FS_RemoveElement, FS_CardinalityType
<1>2. IsFiniteSet(T) /\ Cardinality(T) <= Cardinality(S \ {e}) /\ Cardinality(T) \in Nat
  BY <1>1, FS_Subset, FS_CardinalityType
<1> QED BY <1>1, <1>2

LEMMA DueFinite ==
  ASSUME TypeOK, AppendInv, NEW n \in Short
  PROVE  /\ IsFiniteSet(DuePayloads(n)) /\ IsFiniteSet(DueAnswers(n))
         /\ Cardinality(DuePayloads(n)) \in Nat /\ Cardinality(DueAnswers(n)) \in Nat
         /\ Len(runtime[n]) \in Nat /\ asked[n] \in Nat /\ faults \in Nat
         /\ Account(n)
<1>1. DuePayloads(n) \subseteq payloads /\ DueAnswers(n) \subseteq answers
  BY DEF DuePayloads, DueAnswers
<1>2. IsFiniteSet(payloads) /\ IsFiniteSet(answers)
  BY DEF AppendInv
<1>3. runtime[n] \in Seq(Binary \cup {Garbled}) /\ asked[n] \in Nat /\ faults \in Nat
  BY DEF TypeOK
<1> QED BY <1>1, <1>2, <1>3, PartSize DEF AppendInv, Account

LEMMA LessDue ==
  ASSUME NEW r \in Nat, NEW p0 \in Nat, NEW a0 \in Nat, NEW p1 \in Nat, NEW a1 \in Nat,
         NEW k \in Nat, NEW f0 \in Nat, NEW f1 \in Nat,
         p1 <= p0, a1 <= a0, f1 >= f0, r + p0 + a0 <= k + f0
  PROVE  r + p1 + a1 <= k + f1
OBVIOUS

\* Nothing new is due.
LEMMA DueKept ==
  ASSUME TypeOK, AppendInv, payloads' \subseteq payloads, answers' \subseteq answers,
         runtime' = runtime, asked' = asked, faults' \in Nat, faults' >= faults
  PROVE  AppendInv'
<1>1. IsFiniteSet(payloads') /\ IsFiniteSet(answers')
  BY PartSize DEF AppendInv
<1>2. ASSUME NEW n \in Short
      PROVE  Account(n)'
  <2>1. DuePayloads(n)' \subseteq DuePayloads(n) /\ DueAnswers(n)' \subseteq DueAnswers(n)
    BY DEF DuePayloads, DueAnswers
  <2>2. /\ Cardinality(DuePayloads(n)') \in Nat /\ Cardinality(DueAnswers(n)') \in Nat
        /\ Cardinality(DuePayloads(n)') <= Cardinality(DuePayloads(n))
        /\ Cardinality(DueAnswers(n)') <= Cardinality(DueAnswers(n))
    BY <2>1, DueFinite, PartSize
  <2>3. Account(n)' <=> Len(runtime[n]) + Cardinality(DuePayloads(n)') + Cardinality(DueAnswers(n)')
                          <= asked[n] + faults'
    BY DEF Account
  <2>4. /\ Cardinality(DuePayloads(n)) \in Nat /\ Cardinality(DueAnswers(n)) \in Nat
        /\ Len(runtime[n]) \in Nat /\ asked[n] \in Nat /\ faults \in Nat
        /\ Len(runtime[n]) + Cardinality(DuePayloads(n)) + Cardinality(DueAnswers(n))
             <= asked[n] + faults
    BY DueFinite DEF Account
  <2>5. Len(runtime[n]) + Cardinality(DuePayloads(n)') + Cardinality(DueAnswers(n)')
          <= asked[n] + faults'
    BY <2>2, <2>4, LessDue
  <2> QED BY <2>3, <2>5
<1> QED BY <1>1, <1>2 DEF AppendInv, Account

\* A step adds at most r pieces of runtime data, p submissions and a answers
\* that are due, for k more requests and f faults.
Changes(n, r, p, a, k, f) ==
  /\ Len(runtime'[n]) \in Nat /\ Len(runtime'[n]) <= Len(runtime[n]) + r
  /\ Cardinality(DuePayloads(n)') \in Nat
  /\ Cardinality(DuePayloads(n)') <= Cardinality(DuePayloads(n)) + p
  /\ Cardinality(DueAnswers(n)') \in Nat
  /\ Cardinality(DueAnswers(n)') <= Cardinality(DueAnswers(n)) + a
  /\ asked'[n] = asked[n] + k
  /\ faults' = faults + f

LEMMA PaidFor ==
  ASSUME NEW r \in Int, NEW p \in Int, NEW a \in Int, NEW k \in Int, NEW f \in Int,
         NEW r0 \in Nat, NEW p0 \in Nat, NEW a0 \in Nat, NEW k0 \in Nat, NEW f0 \in Nat,
         NEW r1 \in Nat, NEW p1 \in Nat, NEW a1 \in Nat,
         r1 <= r0 + r, p1 <= p0 + p, a1 <= a0 + a, r0 + p0 + a0 <= k0 + f0, r + p + a <= k + f
  PROVE  r1 + p1 + a1 <= (k0 + k) + (f0 + f)
<1>1. r1 + p1 + a1 <= (r0 + p0 + a0) + (r + p + a)
  OBVIOUS
<1>2. (r0 + p0 + a0) + (r + p + a) <= (k0 + f0) + (k + f)
  OBVIOUS
<1> QED BY <1>1, <1>2

\* The account of an id stays in order when what comes in or falls due is
\* paid for.
LEMMA NewAccount ==
  ASSUME TypeOK, AppendInv, NEW n \in Short,
         NEW r \in Int, NEW p \in Int, NEW a \in Int, NEW k \in Int, NEW f \in Int,
         Changes(n, r, p, a, k, f), r + p + a <= k + f
  PROVE  Account(n)'
<1>0. /\ Cardinality(DuePayloads(n)) \in Nat /\ Cardinality(DueAnswers(n)) \in Nat
      /\ Len(runtime[n]) \in Nat /\ asked[n] \in Nat /\ faults \in Nat
  BY DueFinite
<1>1. PICK r0 \in Nat : r0 = Len(runtime[n])
  BY <1>0
<1>2. PICK p0 \in Nat : p0 = Cardinality(DuePayloads(n))
  BY <1>0
<1>3. PICK a0 \in Nat : a0 = Cardinality(DueAnswers(n))
  BY <1>0
<1>4. PICK k0 \in Nat : k0 = asked[n]
  BY <1>0
<1>5. PICK f0 \in Nat : f0 = faults
  BY <1>0
<1>6. PICK r1 \in Nat : r1 = Len(runtime'[n]) /\ r1 <= r0 + r
  BY <1>1 DEF Changes
<1>7. PICK p1 \in Nat : p1 = Cardinality(DuePayloads(n)') /\ p1 <= p0 + p
  BY <1>2 DEF Changes
<1>8. PICK a1 \in Nat : a1 = Cardinality(DueAnswers(n)') /\ a1 <= a0 + a
  BY <1>3 DEF Changes
<1>9. r0 + p0 + a0 <= k0 + f0
  BY <1>1, <1>2, <1>3, <1>4, <1>5, DueFinite DEF Account
<1>10. r1 + p1 + a1 <= (k0 + k) + (f0 + f)
  BY <1>6, <1>7, <1>8, <1>9, PaidFor
<1>11. asked'[n] = k0 + k /\ faults' = f0 + f
  BY <1>4, <1>5 DEF Changes
<1> QED BY <1>6, <1>7, <1>8, <1>10, <1>11 DEF Account

LEMMA StartAppends ==
  ASSUME BaseInv, BaseInv', AppendInv, NEW t \in TaskId, NEW j \in Job, Start(t, j)
  PROVE  AppendInv'
<1> DEFINE q == Request(t, j)
<1>0. TypeOK /\ TypeOK'
  BY DEF BaseInv
<1>1. /\ payloads' = payloads \cup {q} /\ UNCHANGED <<answers, runtime, faults>>
      /\ asked' = IF j.output = "jxtd" THEN [asked EXCEPT ![t % Width] = @ + 1] ELSE asked
  BY DEF Start
<1>2. q.output = j.output /\ q.taskid = t % Width
  BY DEF Request
<1> HIDE DEF q
<1>3. IsFiniteSet(payloads') /\ IsFiniteSet(answers')
  BY <1>1, AddSize DEF AppendInv
<1>4. ASSUME NEW n \in Short
      PROVE  Account(n)'
  <2>0. /\ IsFiniteSet(DuePayloads(n)) /\ IsFiniteSet(DueAnswers(n))
        /\ Cardinality(DueAnswers(n)) \in Nat
        /\ Len(runtime[n]) \in Nat /\ asked[n] \in Nat /\ faults \in Nat
        /\ asked \in [Short -> Nat]
    BY <1>0, DueFinite DEF TypeOK
  <2>1. DueAnswers(n)' = DueAnswers(n) /\ runtime'[n] = runtime[n] /\ faults' = faults + 0
    BY <1>1, <2>0 DEF DueAnswers
  <2>2. CASE q.output = "jxtd" /\ q.taskid = n
    <3>1. DuePayloads(n)' \subseteq DuePayloads(n) \cup {q}
      BY <1>1 DEF DuePayloads
    <3>2. /\ Cardinality(DuePayloads(n)') \in Nat
          /\ Cardinality(DuePayloads(n)') <= Cardinality(DuePayloads(n)) + 1
      BY <2>0, <3>1, AddSize
    <3>3. asked'[n] = asked[n] + 1
      BY <1>1, <1>2, <2>0, <2>2
    <3>4. Changes(n, 0, 1, 0, 1, 0)
      BY <2>0, <2>1, <3>2, <3>3 DEF Changes
    <3> QED BY <1>0, <3>4, NewAccount
  <2>3. CASE ~(q.output = "jxtd" /\ q.taskid = n)
    <3>1. DuePayloads(n)' \subseteq DuePayloads(n)
      BY <1>1, <2>3 DEF DuePayloads
    <3>2. /\ Cardinality(DuePayloads(n)') \in Nat
          /\ Cardinality(DuePayloads(n)') <= Cardinality(DuePayloads(n)) + 0
      BY <2>0, <3>1, PartSize
    <3>3. asked'[n] = asked[n] + 0
      BY <1>1, <1>2, <2>0, <2>3
    <3>4. Changes(n, 0, 0, 0, 0, 0)
      BY <2>0, <2>1, <3>2, <3>3 DEF Changes
    <3> QED BY <1>0, <3>4, NewAccount
  <2> QED BY <2>2, <2>3
<1> QED BY <1>3, <1>4 DEF AppendInv, Account

\* The answer a moved into b: what of it is still due is what was.
LEMMA AnswerMoves ==
  ASSUME TypeOK, AppendInv, NEW n \in Short, NEW a \in answers, NEW b, Become(a, b),
         b.taskid = a.taskid, b.output = a.output
  PROVE  /\ IsFiniteSet(answers')
         /\ Cardinality(DueAnswers(n)') \in Nat /\ Cardinality(DueAnswers(n)) \in Nat
         /\ Cardinality(DueAnswers(n)') <= Cardinality(DueAnswers(n)) + 1
         /\ a.stage = "push" => Cardinality(DueAnswers(n)') <= Cardinality(DueAnswers(n)) + 0
         /\ a \in DueAnswers(n) /\ b.stage # "push" =>
              Cardinality(DueAnswers(n)') <= Cardinality(DueAnswers(n)) + (-1)
<1>0. IsFiniteSet(DueAnswers(n)) /\ IsFiniteSet(answers)
  BY DueFinite DEF AppendInv
<1>1. answers' = (answers \ {a}) \cup {b}
  BY DEF Become
<1>2. IsFiniteSet(answers')
  BY <1>0, <1>1, AddSize
<1>3. DueAnswers(n)' \subseteq (DueAnswers(n) \ {a}) \cup {b}
  BY <1>1 DEF DueAnswers
<1>4. DueAnswers(n)' \subseteq DueAnswers(n) \cup {b}
  BY <1>3
<1>5. /\ Cardinality(DueAnswers(n)') \in Nat /\ Cardinality(DueAnswers(n)) \in Nat
      /\ Cardinality(DueAnswers(n)') <= Cardinality(DueAnswers(n)) + 1
  BY <1>0, <1>4, AddSize
<1>6. ASSUME a.stage = "push"
      PROVE  Cardinality(DueAnswers(n)') <= Cardinality(DueAnswers(n)) + 0
  <2>1. CASE a \in DueAnswers(n)
    <3>1. /\ IsFiniteSet(DueAnswers(n) \ {a})
          /\ Cardinality(DueAnswers(n) \ {a}) \in Nat
          /\ Cardinality(DueAnswers(n) \ {a}) <= Cardinality(DueAnswers(n)) - 1
      BY <1>0, <2>1, LessSize
    <3>2. Cardinality(DueAnswers(n)') <= Cardinality(DueAnswers(n) \ {a}) + 1
      BY <1>3, <3>1, AddSize
    <3> QED BY <1>5, <3>1, <3>2
  <2>2. CASE a \notin DueAnswers(n)
    <3>1. DueAnswers(n)' \subseteq DueAnswers(n)
      BY <1>1, <1>6, <2>2 DEF DueAnswers
    <3> QED BY <1>0, <3>1, PartSize
  <2> QED BY <2>1, <2>2
<1>7. ASSUME a \in DueAnswers(n), b.stage # "push"
      PROVE  Cardinality(DueAnswers(n)') <= Cardinality(DueAnswers(n)) + (-1)
  <2>1. DueAnswers(n)' \subseteq DueAnswers(n) \ {a}
    BY <1>1, <1>7 DEF DueAnswers
  <2>2. /\ Cardinality(DueAnswers(n)') <= Cardinality(DueAnswers(n)) - 1
        /\ Cardinality(DueAnswers(n)) \in Nat
    BY <1>0, <1>7, <2>1, LessSize
  <2> QED BY <2>2
<1> QED BY <1>2, <1>5, <1>6, <1>7

\* A push that is heard pays with its answer, any other with a fault.
LEMMA PushAppends ==
  ASSUME BaseInv, BaseInv', AppendInv, NEW a \in answers, NEW heard \in BOOLEAN,
         drccp_on_server_receive_result(a, heard)
  PROVE  AppendInv'
<1>0. TypeOK /\ TypeOK' /\ a \in Answer
  BY DEF BaseInv, TypeOK
<1>1. UNCHANGED <<payloads, asked>> /\ a.stage = "push"
  BY DEF drccp_on_server_receive_result
<1>2. /\ heard => faults' = faults + 0
      /\ ~heard => faults' = faults + 1
  BY DEF drccp_on_server_receive_result, Fault
<1> DEFINE c == [a EXCEPT !.stage = "client"]
           b == IF heard \/ a.output # "jxtd" THEN c ELSE PushFailed(a)
<1>3. Become(a, b) /\ (a.output # "jxtd" => heard)
  BY DEF drccp_on_server_receive_result
<1>4. /\ c.stage = "client" /\ c.taskid = a.taskid /\ c.output = a.output
      /\ PushFailed(a).taskid = a.taskid /\ PushFailed(a).output = a.output
  BY <1>0 DEF Answer, PushFailed
<1>5. b.taskid = a.taskid /\ b.output = a.output /\ (heard => b.stage # "push")
  BY <1>4
<1> HIDE DEF b, c
<1>6. \/ runtime' = runtime
      \/ /\ a.output = "jxtd"
         /\ runtime' = [runtime EXCEPT ![a.taskid] = Append(@, a.result)]
  BY DEF drccp_on_server_receive_result
<1>7. IsFiniteSet(payloads')
  BY <1>1 DEF AppendInv
<1>8. IsFiniteSet(answers')
  <2>1. answers' = (answers \ {a}) \cup {b} /\ IsFiniteSet(answers)
    BY <1>3 DEF Become, AppendInv
  <2> QED BY <2>1, AddSize
<1>9. ASSUME NEW n \in Short
      PROVE  Account(n)'
  <2>0. /\ Cardinality(DuePayloads(n)) \in Nat
        /\ Len(runtime[n]) \in Nat /\ asked[n] \in Nat /\ faults \in Nat
        /\ runtime[n] \in Seq(Binary \cup {Garbled}) /\ a.taskid \in Short
        /\ runtime \in [Short -> Seq(Binary \cup {Garbled})]
    BY <1>0, DueFinite DEF TypeOK, Answer
  <2>a. Len(runtime'[n]) \in Nat
    <3>1. runtime' \in [Short -> Seq(Binary \cup {Garbled})]
      BY <1>0 DEF TypeOK
    <3> QED BY <3>1
  <2>1. /\ Cardinality(DuePayloads(n)') \in Nat
        /\ Cardinality(DuePayloads(n)') <= Cardinality(DuePayloads(n)) + 0
    BY <1>1, <2>0 DEF DuePayloads
  <2>2. asked'[n] = asked[n] + 0
    BY <1>1, <2>0
  <2>3. CASE runtime'[n] = runtime[n]
    <3>1. Len(runtime'[n]) <= Len(runtime[n]) + 0
      BY <2>0, <2>3
    <3>2. /\ Cardinality(DueAnswers(n)') \in Nat
          /\ Cardinality(DueAnswers(n)') <= Cardinality(DueAnswers(n)) + 0
      BY <1>0, <1>1, <1>3, <1>5, AnswerMoves
    <3>3. CASE heard
      <4>1. Changes(n, 0, 0, 0, 0, 0)
        BY <1>2, <2>0, <2>a, <2>1, <2>2, <3>1, <3>2, <3>3 DEF Changes
      <4> QED BY <1>0, <4>1, NewAccount
    <3>4. CASE ~heard
      <4>1. Changes(n, 0, 0, 0, 0, 1)
        BY <1>2, <2>0, <2>a, <2>1, <2>2, <3>1, <3>2, <3>4 DEF Changes
      <4> QED BY <1>0, <4>1, NewAccount
    <3> QED BY <3>3, <3>4
  <2>4. CASE runtime'[n] # runtime[n]
    <3>1. a.output = "jxtd" /\ a.taskid = n /\ runtime'[n] = Append(runtime[n], a.result)
      BY <1>6, <2>0, <2>4
    <3>2. Len(runtime'[n]) <= Len(runtime[n]) + 1
      BY <2>0, <3>1
    <3>3. CASE heard
      <4>1. a \in DueAnswers(n)
        BY <1>1, <3>1 DEF DueAnswers
      <4>2. /\ Cardinality(DueAnswers(n)') \in Nat
            /\ Cardinality(DueAnswers(n)') <= Cardinality(DueAnswers(n)) + (-1)
        BY <1>0, <1>3, <1>5, <3>3, <4>1, AnswerMoves
      <4>3. Changes(n, 1, 0, -1, 0, 0)
        BY <1>2, <2>0, <2>a, <2>1, <2>2, <3>2, <3>3, <4>2 DEF Changes
      <4> QED BY <1>0, <4>3, NewAccount
    <3>4. CASE ~heard
      <4>1. /\ Cardinality(DueAnswers(n)') \in Nat
            /\ Cardinality(DueAnswers(n)') <= Cardinality(DueAnswers(n)) + 0
        BY <1>0, <1>1, <1>3, <1>5, AnswerMoves
      <4>2. Changes(n, 1, 0, 0, 0, 1)
        BY <1>2, <2>0, <2>a, <2>1, <2>2, <3>2, <3>4, <4>1 DEF Changes
      <4> QED BY <1>0, <4>2, NewAccount
    <3> QED BY <3>3, <3>4
  <2> QED BY <2>3, <2>4
<1> QED BY <1>7, <1>8, <1>9 DEF AppendInv, Account

\* What a lost push or a lost answer brings back is paid for by a fault.
LEMMA LossAppends ==
  ASSUME BaseInv, AppendInv, NEW a \in answers,
         PushLost(a) \/ \E again \in BOOLEAN : AnswerLost(a, again)
  PROVE  AppendInv'
<1>0. TypeOK /\ a \in Answer
  BY DEF BaseInv, TypeOK
<1>1. faults' = faults + 1 /\ runtime' = runtime /\ asked' = asked
  BY DEF PushLost, AnswerLost, Fault, storage
<1>2. CASE PushLost(a)
  <2>1. Become(a, PushFailed(a)) /\ payloads' = payloads
    BY <1>2 DEF PushLost
  <2>2. PushFailed(a).taskid = a.taskid /\ PushFailed(a).output = a.output
    BY <1>0 DEF Answer, PushFailed
  <2>3. IsFiniteSet(payloads') /\ IsFiniteSet(answers')
    <3>1. answers' = (answers \ {a}) \cup {PushFailed(a)} /\ IsFiniteSet(answers)
      BY <2>1 DEF Become, AppendInv
    <3> QED BY <2>1, <3>1, AddSize DEF AppendInv
  <2>4. ASSUME NEW n \in Short
        PROVE  Account(n)'
    <3>1. /\ Cardinality(DuePayloads(n)) \in Nat
          /\ Len(runtime[n]) \in Nat /\ asked[n] \in Nat /\ faults \in Nat
      BY <1>0, DueFinite
    <3>2. DuePayloads(n)' = DuePayloads(n)
      BY <2>1 DEF DuePayloads
    <3>3. /\ Cardinality(DueAnswers(n)') \in Nat
          /\ Cardinality(DueAnswers(n)') <= Cardinality(DueAnswers(n)) + 1
      BY <1>0, <2>1, <2>2, AnswerMoves
    <3>4. Changes(n, 0, 0, 1, 0, 1)
      BY <1>1, <3>1, <3>2, <3>3 DEF Changes
    <3> QED BY <1>0, <3>4, NewAccount
  <2> QED BY <2>3, <2>4 DEF AppendInv, Account
<1>3. ASSUME NEW again \in BOOLEAN, AnswerLost(a, again)
      PROVE  AppendInv'
  <2>1. answers' \subseteq answers /\ payloads' \subseteq payloads \cup {a.req}
    BY <1>3 DEF AnswerLost
  <2>2. IsFiniteSet(payloads') /\ IsFiniteSet(answers')
    BY <2>1, AddSize, PartSize DEF AppendInv
  <2>3. ASSUME NEW n \in Short
        PROVE  Account(n)'
    <3>1. /\ IsFiniteSet(DuePayloads(n)) /\ IsFiniteSet(DueAnswers(n))
          /\ Cardinality(DueAnswers(n)) \in Nat
          /\ Len(runtime[n]) \in Nat /\ asked[n] \in Nat /\ faults \in Nat
      BY <1>0, DueFinite
    <3>2. DuePayloads(n)' \subseteq DuePayloads(n) \cup {a.req} /\ DueAnswers(n)' \subseteq DueAnswers(n)
      BY <2>1 DEF DuePayloads, DueAnswers
    <3>3. /\ Cardinality(DuePayloads(n)') \in Nat
          /\ Cardinality(DuePayloads(n)') <= Cardinality(DuePayloads(n)) + 1
      BY <3>1, <3>2, AddSize
    <3>4. /\ Cardinality(DueAnswers(n)') \in Nat
          /\ Cardinality(DueAnswers(n)') <= Cardinality(DueAnswers(n)) + 0
      BY <3>1, <3>2, PartSize
    <3>5. Changes(n, 0, 1, 0, 0, 1)
      BY <1>1, <3>1, <3>3, <3>4 DEF Changes
    <3> QED BY <1>0, <3>5, NewAccount
  <2> QED BY <2>2, <2>3 DEF AppendInv, Account
<1> QED BY <1>2, <1>3

\* An answer that is accepted takes the place of its submission.
LEMMA ReplyAppends ==
  ASSUME BaseInv, AppendInv, NEW h \in Handler, NEW cut \in BOOLEAN, Reply(h, cut)
  PROVE  AppendInv'
<1> DEFINE p == run[h].req
           b == AnswerOf(h, cut)
<1>0. TypeOK
  BY DEF BaseInv
<1>1. runtime' = runtime /\ asked' = asked /\ faults' = faults
  BY DEF Reply, storage
<1>2. b.output \in {"none", p.output} /\ b.taskid = p.taskid
  BY ReplyOK
<1>3. \/ UNCHANGED <<payloads, answers>>
      \/ p \in payloads /\ payloads' = payloads \ {p} /\ answers' = answers \cup {b}
  BY ReplyOK
<1> HIDE DEF p, b
<1>4. CASE UNCHANGED <<payloads, answers>>
  BY <1>1, <1>4 DEF AppendInv, Account, DuePayloads, DueAnswers
<1>5. CASE p \in payloads /\ payloads' = payloads \ {p} /\ answers' = answers \cup {b}
  <2>1. IsFiniteSet(payloads') /\ IsFiniteSet(answers')
    <3>1. payloads' \subseteq payloads /\ answers' \subseteq answers \cup {b}
      BY <1>5
    <3> QED BY <3>1, AddSize, PartSize DEF AppendInv
  <2>2. ASSUME NEW n \in Short
        PROVE  Account(n)'
    <3>1. /\ IsFiniteSet(DuePayloads(n)) /\ IsFiniteSet(DueAnswers(n))
          /\ Len(runtime[n]) \in Nat /\ asked[n] \in Nat /\ faults \in Nat
      BY <1>0, DueFinite
    <3>2. CASE p \in DuePayloads(n)
      <4>1. DuePayloads(n)' \subseteq DuePayloads(n) \ {p} /\ DueAnswers(n)' \subseteq DueAnswers(n) \cup {b}
        BY <1>5 DEF DuePayloads, DueAnswers
      <4>2. /\ Cardinality(DuePayloads(n)') \in Nat /\ Cardinality(DuePayloads(n)) \in Nat
            /\ Cardinality(DuePayloads(n)') <= Cardinality(DuePayloads(n)) - 1
        BY <3>1, <3>2, <4>1, LessSize
      <4>3. Cardinality(DuePayloads(n)') <= Cardinality(DuePayloads(n)) + (-1)
        BY <4>2
      <4>4. /\ Cardinality(DueAnswers(n)') \in Nat
            /\ Cardinality(DueAnswers(n)') <= Cardinality(DueAnswers(n)) + 1
        BY <3>1, <4>1, AddSize
      <4>5. Changes(n, 0, -1, 1, 0, 0)
        BY <1>1, <3>1, <4>2, <4>3, <4>4 DEF Changes
      <4> QED BY <1>0, <4>5, NewAccount
    <3>3. CASE p \notin DuePayloads(n)
      <4>1. ~(b.output = "jxtd" /\ b.taskid = n)
        BY <1>2, <1>5, <3>3 DEF DuePayloads
      <4>2. DuePayloads(n)' \subseteq DuePayloads(n) /\ DueAnswers(n)' \subseteq DueAnswers(n)
        BY <1>5, <4>1 DEF DuePayloads, DueAnswers
      <4>3. /\ Cardinality(DuePayloads(n)') \in Nat
            /\ Cardinality(DuePayloads(n)') <= Cardinality(DuePayloads(n)) + 0
            /\ Cardinality(DueAnswers(n)') \in Nat
            /\ Cardinality(DueAnswers(n)') <= Cardinality(DueAnswers(n)) + 0
        BY <3>1, <4>2, PartSize
      <4>4. Changes(n, 0, 0, 0, 0, 0)
        BY <1>1, <3>1, <4>3 DEF Changes
      <4> QED BY <1>0, <4>4, NewAccount
    <3> QED BY <3>2, <3>3
  <2> QED BY <2>1, <2>2 DEF AppendInv, Account
<1> QED BY <1>3, <1>4, <1>5

LEMMA AppendStep ==
  ASSUME BaseInv, BaseInv', AppendInv, [Next]_vars
  PROVE  AppendInv'
<1>0. TypeOK /\ faults \in Nat /\ faults' \in Nat
  BY DEF BaseInv, TypeOK
<1> DEFINE Quiet == /\ payloads' \subseteq payloads /\ answers' \subseteq answers
                    /\ runtime' = runtime /\ asked' = asked
<1>a. ASSUME Quiet, faults' >= faults
      PROVE  AppendInv'
  BY <1>0, <1>a, DueKept
<1>b. ASSUME NEW k \in Nat, faults' = faults + k
      PROVE  faults' >= faults
  BY <1>0, <1>b
<1>c. faults' = faults => faults' >= faults
  BY <1>0, <1>b
<1>1. CASE ClusterNext
  <2>1. ASSUME NEW t \in tasks, Terminate(t)
        PROVE  AppendInv'
    BY <1>a, <1>b, <2>1 DEF Terminate, Fault
  <2>2. ASSUME NEW a \in answers, NEW heard \in BOOLEAN, on_client_recieve_result(a, heard)
        PROVE  AppendInv'
    <3>1. Quiet
      BY <2>2 DEF on_client_recieve_result
    <3>2. faults' = faults + 0 \/ faults' = faults + 1
      BY <2>2 DEF on_client_recieve_result, Fault
    <3> QED BY <1>a, <1>b, <3>1, <3>2
  <2> QED BY <1>1, <2>1, <2>2, StartAppends, PushAppends, LossAppends DEF ClusterNext
<1>2. ASSUME NEW h \in Handler, NodeStep(h)
      PROVE  AppendInv'
  <2>1. Quiet
    BY <1>2 DEF NodeStep, Receive, Pull, PullFails, OpenFails, Load, Compute, ReplyLost, Step,
                cluster, storage
  <2>2. faults' = faults \/ faults' = faults + 0 \/ faults' = faults + 1
    BY <1>2 DEF NodeStep, Receive, Pull, PullFails, OpenFails, Load, Compute, ReplyLost, Fault
  <2> QED BY <1>a, <1>b, <1>c, <2>1, <2>2
<1>3. ASSUME NEW h \in Handler, Open(h) \/ Write(h) \/ WriteFails(h)
      PROVE  AppendInv'
  <2>1. Quiet /\ (faults' = faults \/ faults' = faults + 1)
    BY <1>3 DEF Open, Write, WriteFails, Fault, cluster, storage
  <2> QED BY <1>a, <1>b, <1>c, <2>1
<1>4. Crash \/ UNCHANGED vars => AppendInv'
  BY <1>a, <1>c DEF Crash, storage, vars
<1> QED BY <1>1, <1>2, <1>3, <1>4, ReplyAppends, Steps

\* Every copy of a result in the runtime data beyond the first answers for a
\* fault: a push or a submission that was made again (infer.cc, the push to
\* the storage, and the repeater of drccp).
THEOREM AppendsCorrect == Spec => []AppendsBounded
<1>1. Init => AppendInv
  <2> SUFFICES ASSUME Init
               PROVE  AppendInv
    OBVIOUS
  <2>1. IsFiniteSet(payloads) /\ IsFiniteSet(answers)
    BY FS_EmptySet DEF Init
  <2>2. ASSUME NEW n \in Short
        PROVE  Account(n)
    <3>1. DuePayloads(n) = {} /\ DueAnswers(n) = {}
      BY DEF Init, DuePayloads, DueAnswers
    <3>2. Cardinality(DuePayloads(n)) = 0 /\ Cardinality(DueAnswers(n)) = 0
      BY <3>1, FS_EmptySet
    <3>3. Len(runtime[n]) = 0 /\ asked[n] = 0 /\ faults = 0
      BY DEF Init
    <3> QED BY <3>2, <3>3 DEF Account
  <2> QED BY <2>1, <2>2 DEF AppendInv, Account
<1>2. BaseInv /\ BaseInv' /\ AppendInv /\ [Next]_vars => AppendInv'
  BY AppendStep
<1>3. BaseInv /\ AppendInv => AppendsBounded
  <2> SUFFICES ASSUME BaseInv, AppendInv, NEW n \in Short
               PROVE  Len(runtime[n]) <= asked[n] + faults
    BY DEF AppendsBounded
  <2>1. /\ Cardinality(DuePayloads(n)) \in Nat /\ Cardinality(DueAnswers(n)) \in Nat
        /\ Len(runtime[n]) \in Nat /\ asked[n] \in Nat /\ faults \in Nat
        /\ Len(runtime[n]) + Cardinality(DuePayloads(n)) + Cardinality(DueAnswers(n))
             <= asked[n] + faults
    BY DueFinite DEF BaseInv, Account
  <2> QED BY <2>1
<1> QED BY <1>1, <1>2, <1>3, BaseInvariant, PTL DEF Spec
=============================================================================
