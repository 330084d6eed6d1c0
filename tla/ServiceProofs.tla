--------------------------- MODULE ServiceProofs ---------------------------
(***************************************************************************)
(* The invariants of Service for any number of processes and calls.        *)
(* Two parts, one per module: what a start knows of the tables (LifeInv)   *)
(* and what a call knows of itself (CallsInv).                             *)
(***************************************************************************)
EXTENDS Service, TLAPS

Processes == [pc : {"down", "check", "create", "index", "keys", "serving", "draining", "closing"},
              asked : 0..2, missing : SUBSET Tables, client : {"none", "open", "closed"}]

LifeTypeOK ==
  /\ proc \in [Workers -> Processes]
  /\ tables \in SUBSET Tables
  /\ indexed \in SUBSET Tables

\* The tables a start has asked about exist or are still to be created.
Schema(w) ==
  /\ Phase(w, "down") => proc[w] = Down
  /\ Phase(w, "check") => \A t \in 1..proc[w].asked : t \in tables \union proc[w].missing
  /\ proc[w].pc \in {"create", "index"} => Tables \subseteq tables \union proc[w].missing
  /\ Phase(w, "index") => \A t \in Tables : IsNext(w, t) => t \in tables
  /\ proc[w].pc \in {"keys", "serving", "draining"} => Tables \subseteq tables

LifeInv == LifeTypeOK /\ \A w \in Workers : Schema(w)

-----------------------------------------------------------------------------
LEMMA InitLife == LifespanInit => LifeInv
  BY DEF LifespanInit, LifeInv, LifeTypeOK, Processes, Schema, Down, Phase, Up, Serving, Tables

\* A step of process w keeps what every process knows, as tables only grow.
LEMMA OtherProcesses ==
  ASSUME LifeInv, LifeTypeOK', NEW w \in Workers, Schema(w)',
         tables \subseteq tables', \A v \in Workers \ {w} : proc'[v] = proc[v]
  PROVE  LifeInv'
<1>1. SUFFICES ASSUME NEW v \in Workers \ {w} PROVE Schema(v)'
  BY DEF LifeInv
<1>2. Schema(v) /\ proc'[v] = proc[v]
  BY <1>1 DEF LifeInv
<1> QED
  BY <1>2 DEF Schema, Phase, Up, Serving, IsNext

LEMMA ExitKeepsLife ==
  ASSUME LifeInv, NEW w \in Workers, Exit(w), UNCHANGED <<tables, indexed>>
  PROVE  LifeInv'
<1>1. proc' = [proc EXCEPT ![w] = Down]
  BY DEF Exit
<1>2. LifeTypeOK'
  BY <1>1 DEF LifeInv, LifeTypeOK, Processes, Down, Tables
<1>3. proc'[w] = Down
  BY <1>1 DEF LifeInv, LifeTypeOK
<1>4. Schema(w)'
  BY <1>3 DEF Schema, Down, Phase, Up, Serving
<1> QED
  BY <1>1, <1>2, <1>4, OtherProcesses

\* Each step of the startup.
LEMMA StartKeepsLife ==
  ASSUME LifeInv, NEW w \in Workers, Boot(w) \/ StartStep(w)
  PROVE  LifeInv'
<1> USE DEF Phase, Up, Serving
<1>0. proc[w] \in Processes
  BY DEF LifeInv, LifeTypeOK
<1>1. CASE Boot(w)
  <2>1. proc' = [proc EXCEPT ![w] = [Down EXCEPT !.pc = "check"]] /\ UNCHANGED <<tables, indexed>>
    BY <1>1 DEF Boot, LifeInv, LifeTypeOK, Schema
  <2>2. LifeTypeOK' /\ proc'[w] = [Down EXCEPT !.pc = "check"]
    BY <2>1 DEF LifeInv, LifeTypeOK, Processes, Down
  <2>3. Schema(w)'
    BY <2>2 DEF Schema, Down
  <2> QED
    BY <2>1, <2>2, <2>3, OtherProcesses
<1>2. ASSUME NEW t \in Tables, CheckTable(w, t) PROVE LifeInv'
  <2> DEFINE missing == proc[w].missing \union ({t} \ tables)
  <2>1. /\ missing \in SUBSET Tables /\ t = proc[w].asked + 1 /\ UNCHANGED <<tables, indexed>>
        /\ proc[w].pc = "check" /\ t \in 1..3
    BY <1>0, <1>2 DEF CheckTable, Processes, Tables
  <2>2. \A s \in 1..t : s \in tables \union missing
    <3>1. \A s \in 1..proc[w].asked : s \in tables \union proc[w].missing
      BY <2>1 DEF LifeInv, Schema
    <3>2. \A s \in 1..t : s \in 1..proc[w].asked \/ s = t
      BY <1>0, <2>1 DEF Processes
    <3> QED
      BY <3>1, <3>2
  <2>3. proc' = IF t = 3
                THEN [proc EXCEPT ![w].missing = missing, ![w].asked = 0, ![w].pc = Then(missing)]
                ELSE [proc EXCEPT ![w].missing = missing, ![w].asked = t]
    BY <1>2 DEF CheckTable
  <2> HIDE DEF missing
  <2>4. CASE t = 3
    <3> DEFINE p == [proc[w] EXCEPT !.missing = missing, !.asked = 0, !.pc = Then(missing)]
    <3>1. proc' = [proc EXCEPT ![w] = p]
      BY <2>3, <2>4
    <3>2. /\ p \in Processes /\ p.missing = missing /\ p.client = proc[w].client
          /\ p.pc = Then(missing) /\ p.pc \in {"keys", "create"}
      <4>1. 0 \in 0..2 /\ Then(missing) \in {"keys", "create"}
        BY DEF Then
      <4> QED
        BY <1>0, <2>1, <4>1 DEF Processes
    <3>3. Tables \subseteq tables \union missing
      BY <2>2, <2>4 DEF Tables
    <3> HIDE DEF p
    <3>4. LifeTypeOK' /\ proc'[w] = p /\ \A v \in Workers \ {w} : proc'[v] = proc[v]
      BY <2>1, <3>1, <3>2 DEF LifeInv, LifeTypeOK
    <3>5. Schema(w)'
      BY <2>1, <3>2, <3>3, <3>4 DEF LifeInv, Schema, Then
    <3> QED
      BY <2>1, <3>4, <3>5, OtherProcesses
  <2>5. CASE t # 3
    <3> DEFINE p == [proc[w] EXCEPT !.missing = missing, !.asked = t]
    <3>0. t \in 0..2
      BY <2>1, <2>5
    <3>1. proc' = [proc EXCEPT ![w] = p]
      BY <2>3, <2>5
    <3>2. /\ p \in Processes /\ p.missing = missing /\ p.client = proc[w].client
          /\ p.pc = "check" /\ p.asked = t
      BY <1>0, <2>1, <3>0 DEF Processes
    <3> HIDE DEF p
    <3>3. LifeTypeOK' /\ proc'[w] = p /\ \A v \in Workers \ {w} : proc'[v] = proc[v]
      BY <2>1, <3>1, <3>2 DEF LifeInv, LifeTypeOK
    <3>4. Schema(w)'
      BY <2>1, <2>2, <3>2, <3>3 DEF LifeInv, Schema
    <3> QED
      BY <2>1, <3>3, <3>4, OtherProcesses
  <2> QED
    BY <2>4, <2>5
<1>3. ASSUME NEW t \in Tables, CreateTable(w, t) PROVE LifeInv'
  <2>1. CASE t \in tables
    <3>1. Exit(w) /\ tables' = tables /\ UNCHANGED indexed
      BY <1>3, <2>1 DEF CreateTable
    <3> QED
      BY <3>1, ExitKeepsLife
  <2>2. CASE t \notin tables
    <3>1. /\ proc' = [proc EXCEPT ![w].pc = "index"] /\ tables' = tables \union {t}
          /\ UNCHANGED indexed /\ proc[w].pc = "create" /\ IsNext(w, t)
      BY <1>3, <2>2 DEF CreateTable
    <3>2. LifeTypeOK'
      BY <3>1 DEF LifeInv, LifeTypeOK, Processes
    <3>3. proc'[w] = [proc[w] EXCEPT !.pc = "index"]
      BY <3>1 DEF LifeInv, LifeTypeOK
    <3>4. \A s \in Tables : IsNext(w, s)' => s = t
      BY <1>0, <3>1, <3>3 DEF IsNext, Tables
    <3>5. Schema(w)'
      BY <1>0, <3>1, <3>3, <3>4 DEF LifeInv, Schema
    <3> QED
      BY <3>1, <3>2, <3>5, OtherProcesses
  <2> QED
    BY <2>1, <2>2
<1>4. ASSUME NEW t \in Tables, CreateIndexes(w, t) PROVE LifeInv'
  <2> DEFINE missing == proc[w].missing \ {t}
  <2> DEFINE p == [proc[w] EXCEPT !.missing = missing, !.pc = Then(missing)]
  <2>1. /\ proc' = [proc EXCEPT ![w] = p]
        /\ tables' = tables /\ indexed' \subseteq indexed \union {t}
        /\ proc[w].pc = "index" /\ IsNext(w, t)
    BY <1>4 DEF CreateIndexes, Past
  <2>2. /\ p \in Processes /\ p.missing = missing /\ p.client = proc[w].client
        /\ p.pc = Then(missing) /\ p.pc \in {"keys", "create"}
    BY <1>0 DEF Then, Processes
  <2>3. Tables \subseteq tables \union missing
    BY <2>1 DEF LifeInv, Schema
  <2> HIDE DEF p, missing
  <2>4. LifeTypeOK' /\ proc'[w] = p /\ \A v \in Workers \ {w} : proc'[v] = proc[v]
    BY <2>1, <2>2 DEF LifeInv, LifeTypeOK
  <2>5. Schema(w)'
    BY <2>1, <2>2, <2>3, <2>4 DEF LifeInv, Schema, Then
  <2> QED
    BY <2>1, <2>4, <2>5, OtherProcesses
<1>5. ASSUME NEW client \in {"open", "none"}, InitRedis(w, client) PROVE LifeInv'
  <2> DEFINE p == [proc[w] EXCEPT !.pc = "serving", !.client = client]
  <2>1. proc' = [proc EXCEPT ![w] = p] /\ proc[w].pc = "keys" /\ UNCHANGED <<tables, indexed>>
    BY <1>5 DEF InitRedis
  <2>2. p \in Processes /\ p.pc = "serving" /\ p.client # "closed"
    BY <1>0 DEF Processes
  <2> HIDE DEF p
  <2>3. LifeTypeOK' /\ proc'[w] = p /\ \A v \in Workers \ {w} : proc'[v] = proc[v]
    BY <2>1, <2>2 DEF LifeInv, LifeTypeOK
  <2>4. Schema(w)'
    BY <2>1, <2>2, <2>3 DEF LifeInv, Schema
  <2> QED
    BY <2>1, <2>3, <2>4, OtherProcesses
<1> QED
  BY <1>1, <1>2, <1>3, <1>4, <1>5 DEF StartStep

\* Each step of the shutdown.
LEMMA StopKeepsLife ==
  ASSUME LifeInv, NEW w \in Workers, Stop(w) \/ CloseRedis(w)
  PROVE  LifeInv'
<1> USE DEF Phase, Up, Serving
<1>1. CASE Stop(w)
  <2>1. LifeTypeOK' /\ proc'[w] = [proc[w] EXCEPT !.pc = "draining"]
    BY <1>1 DEF Stop, LifeInv, LifeTypeOK, Processes
  <2>2. Schema(w)'
    BY <1>1, <2>1 DEF Stop, LifeInv, LifeTypeOK, Schema, Processes
  <2> QED
    BY <1>1, <2>1, <2>2, OtherProcesses DEF Stop
<1>2. CASE CloseRedis(w)
  <2> DEFINE p == [proc[w] EXCEPT !.pc = "closing",
                                  !.client = IF proc[w].client = "open" THEN "closed" ELSE proc[w].client]
  <2>1. proc' = [proc EXCEPT ![w] = p] /\ UNCHANGED <<tables, indexed>>
    BY <1>2 DEF CloseRedis
  <2>2. p \in Processes /\ p.pc = "closing"
    BY DEF LifeInv, LifeTypeOK, Processes
  <2> HIDE DEF p
  <2>3. LifeTypeOK' /\ proc'[w] = p /\ \A v \in Workers \ {w} : proc'[v] = proc[v]
    BY <2>1, <2>2 DEF LifeInv, LifeTypeOK
  <2>4. Schema(w)'
    BY <2>2, <2>3 DEF Schema
  <2> QED
    BY <2>1, <2>3, <2>4, OtherProcesses
<1> QED
  BY <1>1, <1>2

LEMMA ProcessKeepsLife ==
  ASSUME LifeInv, NEW w \in Workers, ProcessStep(w) \/ ShutsDown(w) \/ Kill(w)
  PROVE  LifeInv'
  BY ExitKeepsLife, StartKeepsLife, StopKeepsLife DEF ProcessStep, ShutsDown, Kill, StartFails, Closed

-----------------------------------------------------------------------------
Answers == [status : Kinds \union {"none"}, header : BOOLEAN, body : BOOLEAN]
Lines == [id : Calls \union {Unknown}, status : Kinds \union {"none"}]

CallStates == [pc : {"idle", "depends", "serve", "commit", "unwind", "reply", "log",
                     "outermost", "done"},
               on : Workers \union {Unknown}, headers : Headers, id : Calls \union {Unknown},
               kind : Kinds, txn : {"none", "open", "committed", "rolledback"},
               answer : Answers, log : Lines]

CallsTypeOK == /\ call \in [Calls -> CallStates]
               /\ context \in [Calls -> Calls \union {Unknown}]

\* A call the middleware turned away has done nothing and gets a 500.
TurnedAway(c) ==
  /\ call[c].pc \in {"outermost", "done"}
  /\ call[c].log = NoLog /\ call[c].txn = "none"
  /\ At(c, "done") => call[c].answer.status = "crash"

\* One that came through has one id everywhere; its log line tells its answer,
\* also while a crash is still to be answered.
CameThrough(c) ==
  /\ context[c] = c
  /\ At(c, "outermost") => call[c].log = [id |-> c, status |-> "crash"]
  /\ At(c, "done") => call[c].log = [id |-> c, status |-> call[c].answer.status]

Traced(c) ==
  IF At(c, "idle") THEN call[c] = Idle ELSE
    /\ call[c].headers # "bad_id" => call[c].id = c
    /\ IF call[c].headers = "good" THEN CameThrough(c) ELSE TurnedAway(c)
    /\ call[c].pc \in {"depends", "serve", "outermost"} => ~Answered(c)
    /\ ~Debug /\ call[c].headers # "bad_id" =>
         (Answered(c) => call[c].answer.header \/ call[c].answer.body)

\* Where the commit comes first: what has become of the transaction at each step.
Outcome(kind) == CASE kind = "ok" -> {"none", "committed"}
                   [] kind = "crash" -> {"none", "rolledback", "committed"}
                   [] OTHER -> {"none", "rolledback"}

Settled(c) ==
  ~At(c, "idle") =>
    /\ call[c].pc \in {"depends", "serve", "commit", "unwind", "reply", "outermost"} => ~Answered(c)
    /\ At(c, "unwind") => \/ call[c].kind # "ok" /\ call[c].txn = "open"
                          \/ call[c].kind = "crash" /\ call[c].txn = "committed"
    /\ At(c, "reply") => call[c].txn \in Outcome(call[c].kind)
    /\ At(c, "log") /\ ~Answered(c) => call[c].txn \in Outcome("crash")
    /\ At(c, "outermost") => call[c].txn \in Outcome("crash")
    /\ Answered(c) => call[c].txn \in Outcome(call[c].answer.status)

CallsInv == CallsTypeOK /\ \A c \in Calls : Traced(c) /\ (~ReplyFirst => Settled(c))

LEMMA InitCalls == PipelineInit => CallsInv
  BY DEF PipelineInit, CallsInv, CallsTypeOK, CallStates, Headers, Answers, Lines, Kinds, Idle,
         NoAnswer, NoLog, Traced, Settled, At

\* A step of call c that leaves the others and their contexts alone.
LEMMA OtherCalls ==
  ASSUME CallsInv, NEW c \in Calls, NEW s \in CallStates, call' = [call EXCEPT ![c] = s],
         context' \in [Calls -> Calls \union {Unknown}],
         \A d \in Calls \ {c} : context'[d] = context[d],
         Traced(c)', ~ReplyFirst => Settled(c)'
  PROVE  CallsInv'
<1>1. CallsTypeOK'
  BY DEF CallsInv, CallsTypeOK
<1>2. ASSUME NEW d \in Calls \ {c} PROVE Traced(d)' /\ (~ReplyFirst => Settled(d)')
  <2>1. call'[d] = call[d] /\ context'[d] = context[d] /\ Traced(d) /\ (~ReplyFirst => Settled(d))
    BY <1>2 DEF CallsInv, CallsTypeOK
  <2> QED
    BY <2>1 DEF Traced, CameThrough, TurnedAway, Settled, At, Answered
<1> QED
  BY <1>1, <1>2 DEF CallsInv

\* A call comes in: turned away by either middleware, or let through.
LEMMA AcceptKeepsCalls ==
  ASSUME CallsInv, NEW c \in Calls, NEW w \in Workers, NEW target \in Targets, NEW h \in Headers,
         Accept(c, w, target, h)
  PROVE  CallsInv'
<1> DEFINE id == IF h = "bad_id" THEN Unknown ELSE c
           s == [Idle EXCEPT !.on = w, !.headers = h, !.id = id,
                             !.kind = IF h # "good" THEN "crash"
                                      ELSE IF target = "unrouted" THEN "rejected" ELSE "ok",
                             !.pc = IF h # "good" THEN "outermost"
                                    ELSE IF target = "api" THEN "depends" ELSE "reply"]
<1>1. /\ call' = [call EXCEPT ![c] = s]
      /\ context' = IF h = "good" THEN [context EXCEPT ![c] = c] ELSE context
  <2> DEFINE t == Inbound(c, h, [id |-> Unknown, context |-> context, raised |-> FALSE])
  <2>1. /\ t.id = id /\ (t.raised <=> h # "good")
        /\ t.context = IF h = "good" THEN [context EXCEPT ![c] = c] ELSE context
    BY DEF Inbound, LoggingIn, RequestIdIn, Headers
  <2>2. /\ call' = [call EXCEPT ![c] =
               [Idle EXCEPT !.on = w, !.headers = h, !.id = t.id,
                            !.kind = IF t.raised THEN "crash"
                                     ELSE IF target = "unrouted" THEN "rejected" ELSE "ok",
                            !.pc = IF t.raised THEN "outermost"
                                   ELSE IF target = "api" THEN "depends" ELSE "reply"]]
        /\ context' = t.context
    BY DEF Accept
  <2> HIDE DEF t
  <2> QED
    BY <2>1, <2>2
<1>2. /\ s \in CallStates /\ s.headers = h /\ s.id = id /\ s.txn = "none"
      /\ s.answer = NoAnswer /\ s.log = NoLog
      /\ IF h = "good" THEN s.pc \in {"depends", "reply"} ELSE s.pc = "outermost"
  BY DEF Idle, NoAnswer, NoLog, CallStates, Headers, Answers, Lines, Kinds
<1> HIDE DEF s
<1>3. call'[c] = s /\ (h = "good" => context'[c] = c)
  BY <1>1, <1>2 DEF CallsInv, CallsTypeOK
<1>4. Traced(c)'
  BY <1>2, <1>3 DEF Traced, CameThrough, TurnedAway, At, Answered
<1>5. Settled(c)'
  BY <1>2, <1>3 DEF Settled, At, Answered, Outcome
<1>6. context' \in [Calls -> Calls \union {Unknown}] /\ \A d \in Calls \ {c} : context'[d] = context[d]
  BY <1>1 DEF CallsInv, CallsTypeOK
<1> QED
  BY <1>1, <1>2, <1>4, <1>5, <1>6, OtherCalls

\* The steps that only change pc, kind and txn.
LEMMA GoesKeepsCalls ==
  ASSUME CallsInv, NEW c \in Calls, NEW client, NEW kind \in Kinds,
         \/ Depends(c, client, kind) \/ Serve(c, kind)
         \/ Commit(c) \/ CommitFails(c) \/ Unwind(c)
  PROVE  CallsInv'
<1> USE DEF At
<1>0. call[c] \in CallStates /\ Traced(c) /\ (~ReplyFirst => Settled(c)) /\ ~At(c, "idle")
  BY DEF CallsInv, CallsTypeOK, Depends, Serve, Commit, CommitFails, Unwind
<1>1. PICK pc \in {"serve", "unwind", "reply", "commit", "log"}, k \in Kinds,
           txn \in {"none", "open", "committed", "rolledback"} :
        /\ Goes(c, pc, k, txn)
        /\ ~ReplyFirst => /\ pc \in {"serve", "commit", "unwind", "reply"} => ~Answered(c)
                          /\ pc = "unwind" => \/ k # "ok" /\ txn = "open"
                                              \/ k = "crash" /\ txn = "committed"
                          /\ pc = "reply" => txn \in Outcome(k)
                          /\ pc = "log" => ~Answered(c) /\ txn \in Outcome("crash")
        /\ pc = "serve" => ~Answered(c)
  <2>1. CASE Depends(c, client, kind)
    BY <1>0, <2>1 DEF Depends, Traced, Kinds
  <2>2. CASE Serve(c, kind)
    BY <1>0, <2>2 DEF Serve, Traced, Settled, Outcome
  <2>3. CASE Commit(c)
    BY <1>0, <2>3 DEF Commit, Settled, Outcome, Kinds
  <2>4. CASE CommitFails(c)
    BY <1>0, <2>4 DEF CommitFails, Settled, Kinds
  <2>5. CASE Unwind(c)
    BY <1>0, <2>5 DEF Unwind, Settled, Outcome, CallStates
  <2> QED
    BY <2>1, <2>2, <2>3, <2>4, <2>5
<1>early. call[c].pc \notin {"outermost", "done"}
  BY DEF Depends, Serve, Commit, CommitFails, Unwind
<1>good. call[c].headers = "good"
  BY <1>0, <1>early DEF Traced, TurnedAway
<1> DEFINE s == [call[c] EXCEPT !.pc = pc, !.kind = k, !.txn = txn]
<1>2. call' = [call EXCEPT ![c] = s] /\ context' = context
  BY <1>1 DEF Goes
<1>3. /\ s \in CallStates /\ s.pc = pc /\ s.kind = k /\ s.txn = txn /\ s.on = call[c].on
      /\ s.id = call[c].id /\ s.answer = call[c].answer /\ s.headers = call[c].headers
  BY <1>0 DEF CallStates
<1> HIDE DEF s
<1>4. call'[c] = s
  BY <1>2, <1>3 DEF CallsInv, CallsTypeOK
<1>5. Traced(c)'
  BY <1>0, <1>1, <1>2, <1>3, <1>4, <1>good DEF Traced, CameThrough, Answered
<1>6. ~ReplyFirst => Settled(c)'
  BY <1>0, <1>1, <1>3, <1>4 DEF Settled, Answered
<1> QED
  BY <1>2, <1>3, <1>5, <1>6, OtherCalls DEF CallsInv, CallsTypeOK

\* The steps that answer and log.
LEMMA AnswerKeepsCalls ==
  ASSUME CallsInv, NEW c \in Calls, Reply(c) \/ Log(c) \/ Outermost(c)
  PROVE  CallsInv'
<1> USE DEF At
<1>0. call[c] \in CallStates /\ Traced(c) /\ (~ReplyFirst => Settled(c)) /\ ~At(c, "idle")
  BY DEF CallsInv, CallsTypeOK, Reply, Log, Outermost
<1>1. CASE Reply(c)
  <2> DEFINE a == Sent(c)
             s == [call[c] EXCEPT !.answer = a,
                                  !.pc = IF ReplyFirst /\ call[c].txn = "open" THEN "commit" ELSE "log"]
  <2>1. call' = [call EXCEPT ![c] = s] /\ context' = context /\ call[c].pc = "reply"
    BY <1>1 DEF Reply
  <2>2. a \in Answers /\ a.status = call[c].kind /\ a.header
    BY <1>0 DEF Sent, Answers, CallStates
  <2>3. a # NoAnswer
    BY <2>2 DEF NoAnswer
  <2> HIDE DEF a
  <2>4. /\ s \in CallStates /\ s.answer = a /\ s.on = call[c].on /\ s.id = call[c].id
        /\ s.txn = call[c].txn /\ s.pc \in {"commit", "log"} /\ (~ReplyFirst => s.pc = "log")
        /\ s.headers = call[c].headers
    BY <1>0, <2>2 DEF CallStates
  <2> HIDE DEF s
  <2>5. call'[c] = s
    BY <2>1, <2>4 DEF CallsInv, CallsTypeOK
  <2>6. Traced(c)'
    <3>1. call[c].headers = "good"
      BY <1>0, <2>1 DEF Traced, TurnedAway
    <3> QED
      BY <1>0, <2>1, <2>2, <2>4, <2>5, <3>1 DEF Traced, CameThrough, Answered
  <2>7. ~ReplyFirst => Settled(c)'
    BY <1>0, <2>1, <2>2, <2>3, <2>4, <2>5 DEF Settled, Answered
  <2> QED
    BY <2>1, <2>4, <2>6, <2>7, OtherCalls DEF CallsInv, CallsTypeOK
<1>2. CASE Log(c)
  <2> DEFINE line == Line(c)
             next == IF Answered(c) THEN "done" ELSE "outermost"
             txn == IF Answered(c) THEN "none" ELSE call[c].txn
             s == [call[c] EXCEPT !.log = line, !.txn = txn, !.pc = next]
  <2>1. call' = [call EXCEPT ![c] = s] /\ context' = context /\ call[c].pc = "log"
    BY <1>2 DEF Log
  <2>good. call[c].headers = "good"
    BY <1>0, <2>1 DEF Traced, TurnedAway
  <2>2. /\ line \in Lines /\ txn \in {"none", "open", "committed", "rolledback"}
        /\ line = [id |-> c, status |-> IF Answered(c) THEN call[c].answer.status ELSE "crash"]
    BY <1>0, <2>1, <2>good DEF Line, Lines, CallStates, Answers, Traced, CameThrough, Kinds
  <2> HIDE DEF line
  <2>3. /\ s \in CallStates /\ s.answer = call[c].answer /\ s.on = call[c].on
        /\ s.id = call[c].id /\ s.txn = txn /\ s.pc = next /\ s.log = line
        /\ s.headers = call[c].headers
    BY <1>0, <2>2 DEF CallStates
  <2> HIDE DEF s
  <2>4. call'[c] = s
    BY <2>1, <2>3 DEF CallsInv, CallsTypeOK
  <2>5. Traced(c)'
    BY <1>0, <2>1, <2>2, <2>3, <2>4, <2>good DEF Traced, CameThrough, Answered
  <2>6. ~ReplyFirst => Settled(c)'
    BY <1>0, <2>1, <2>3, <2>4 DEF Settled, Answered, Outcome
  <2> QED
    BY <2>1, <2>3, <2>5, <2>6, OtherCalls DEF CallsInv, CallsTypeOK
<1>3. CASE Outermost(c)
  <2> DEFINE a == GenericAnswer(c)
             s == [call[c] EXCEPT !.answer = a, !.pc = "done"]
  <2>1. call' = [call EXCEPT ![c] = s] /\ context' = context /\ call[c].pc = "outermost"
    BY <1>3 DEF Outermost
  <2>2. a \in Answers /\ a.status = "crash" /\ (~Debug /\ call[c].headers # "bad_id" => a.body)
    BY <1>0, <2>1, PipelineAssumption DEF GenericAnswer, Answers, Kinds, Traced
  <2> HIDE DEF a
  <2>3. /\ s \in CallStates /\ s.answer = a /\ s.on = call[c].on /\ s.id = call[c].id
        /\ s.txn = call[c].txn /\ s.pc = "done" /\ s.log = call[c].log
        /\ s.headers = call[c].headers
    BY <1>0, <2>2 DEF CallStates
  <2> HIDE DEF s
  <2>4. call'[c] = s
    BY <2>1, <2>3 DEF CallsInv, CallsTypeOK
  <2>5. Traced(c)'
    BY <1>0, <2>1, <2>2, <2>3, <2>4 DEF Traced, CameThrough, TurnedAway, Answered
  <2>6. ~ReplyFirst => Settled(c)'
    BY <1>0, <2>1, <2>2, <2>3, <2>4 DEF Settled, Answered, Outcome
  <2> QED
    BY <2>1, <2>3, <2>5, <2>6, OtherCalls DEF CallsInv, CallsTypeOK
<1> QED
  BY <1>1, <1>2, <1>3

LEMMA DropKeepsCalls ==
  ASSUME CallsInv, NEW C \in SUBSET Calls, Drop(C)
  PROVE  CallsInv'
<1>1. Idle \in CallStates
  BY DEF Idle, NoAnswer, NoLog, CallStates, Headers, Answers, Lines, Kinds
<1>2. CallsTypeOK'
  BY <1>1 DEF CallsInv, CallsTypeOK, Drop
<1>3. ASSUME NEW c \in Calls
      PROVE  (call'[c] = call[c] /\ context'[c] = context[c]) \/ call'[c] = Idle
  BY DEF Drop
<1>4. ASSUME NEW c \in Calls PROVE Traced(c)' /\ (~ReplyFirst => Settled(c)')
  <2>1. CASE call'[c] = Idle
    BY <2>1 DEF Traced, Settled, At, Idle
  <2>2. CASE call'[c] = call[c] /\ context'[c] = context[c]
    BY <2>2 DEF CallsInv, Traced, CameThrough, TurnedAway, Settled, At, Answered
  <2> QED
    BY <1>3, <2>1, <2>2
<1> QED
  BY <1>2, <1>4 DEF CallsInv

-----------------------------------------------------------------------------
IInv == LifeInv /\ CallsInv

LEMMA InitIInv == Init => IInv
  BY InitLife, InitCalls DEF Init, IInv

LEMMA SameLife == ASSUME LifeInv, UNCHANGED lifespanVars PROVE LifeInv'
  BY DEF lifespanVars, LifeInv, LifeTypeOK, Schema, Phase, IsNext

LEMMA SameCalls == ASSUME CallsInv, UNCHANGED pipelineVars PROVE CallsInv'
  BY DEF pipelineVars, CallsInv, CallsTypeOK, Traced, CameThrough, TurnedAway, Settled, At, Answered

LEMMA NextIInv == IInv /\ [Next]_serviceVars => IInv'
<1> SUFFICES ASSUME IInv, [Next]_serviceVars PROVE IInv'
  OBVIOUS
<1>1. ASSUME NEW w \in Workers, ProcessStep(w) \/ ShutsDown(w) PROVE IInv'
  <2>1. LifeInv'
    BY <1>1, ProcessKeepsLife DEF IInv
  <2>2. UNCHANGED pipelineVars
    BY <1>1 DEF ProcessStep, ShutsDown
  <2> QED
    BY <2>1, <2>2, SameCalls DEF IInv
<1>2. ASSUME NEW w \in Workers, Dies(w) PROVE IInv'
  <2>1. LifeInv'
    BY <1>2, ProcessKeepsLife DEF IInv, Dies
  <2>2. CallsInv'
    BY <1>2, DropKeepsCalls DEF IInv, Dies, InFlight
  <2> QED
    BY <2>1, <2>2 DEF IInv
<1>3. ASSUME NEW w \in Workers, NEW c \in Calls, Arrives(c, w) PROVE IInv'
  <2>1. PICK target \in Targets, h \in Headers : Accept(c, w, target, h)
    BY <1>3 DEF Arrives
  <2>2. CallsInv'
    BY <2>1, AcceptKeepsCalls DEF IInv
  <2> QED
    BY <1>3, <2>2, SameLife DEF IInv, Arrives
<1>4. ASSUME NEW c \in Calls, Proceeds(c) PROVE IInv'
  <2>1. CallsInv'
    <3>1. CASE Reply(c) \/ Log(c) \/ Outermost(c)
      BY <3>1, AnswerKeepsCalls DEF IInv
    <3>2. CASE Commit(c) \/ CommitFails(c) \/ Unwind(c)
      BY <3>2, GoesKeepsCalls DEF IInv, Kinds
    <3>3. CASE \E kind \in Kinds : Depends(c, proc[call[c].on].client, kind) \/ Serve(c, kind)
      BY <3>3, GoesKeepsCalls DEF IInv
    <3>4. CASE Finish(c)
      BY <3>4, DropKeepsCalls DEF IInv, Finish
    <3> QED
      BY <1>4, <3>1, <3>2, <3>3, <3>4 DEF Proceeds, CallStep
  <2> QED
    BY <1>4, <2>1, SameLife DEF IInv, Proceeds
<1>5. CASE UNCHANGED serviceVars
  BY <1>5, SameLife, SameCalls DEF serviceVars, lifespanVars, pipelineVars, IInv
<1> QED
  BY <1>1, <1>2, <1>3, <1>4, <1>5 DEF Next

LEMMA SpecIInv == Spec => []IInv
  BY InitIInv, NextIInv, PTL DEF Spec

-----------------------------------------------------------------------------
\* However starts race, fail or die, a process that serves finds every table
\* (main.py:30, core/database.py:36-38).
THEOREM SchemaIsThere == Spec => []ServesWithSchema
<1>1. IInv => ServesWithSchema
  BY DEF IInv, LifeInv, LifeTypeOK, Schema, ServesWithSchema, Up, Serving, Phase
<1> QED
  BY <1>1, SpecIInv, PTL

\* Every call the middleware let through leaves a log line with its own id and
\* the status it was answered, with any number of calls in between; one it could
\* not decode gets a 500 and has done nothing (middleware/logging.py:23-57).
THEOREM LogIsTrue == Spec => []LogTellsTheAnswer
<1>1. IInv => LogTellsTheAnswer
  BY DEF IInv, CallsInv, Traced, CameThrough, TurnedAway, LogTellsTheAnswer, At
<1> QED
  BY <1>1, SpecIInv, PTL

\* Without debug every answer names its call, that of a crash included, unless
\* the x-request-id could not be decoded (middleware/request_id.py:18-28,
\* exceptions/handlers.py:85-106).
THEOREM EveryAnswerTraceable == ASSUME ~Debug PROVE Spec => []AnswersAreTraceable
<1>1. IInv => AnswersAreTraceable
  <2> SUFFICES ASSUME IInv, NEW c \in Calls, Answered(c), call[c].headers # "bad_id"
               PROVE  call[c].answer.header \/ call[c].answer.body
    BY DEF AnswersAreTraceable
  <2>1. Traced(c) /\ ~At(c, "idle")
    BY DEF IInv, CallsInv, Traced, Answered, Idle
  <2> QED
    BY <2>1, Zenon DEF Traced
<1> QED
  BY <1>1, SpecIInv, PTL

\* Where get_db commits before the response leaves: a success was committed, a
\* rejection kept nothing, and a crash leaves nothing open, also when the commit
\* took effect and raised all the same (dependencies/database.py:8-15).
THEOREM AnswerFollowsTransaction == ASSUME ~ReplyFirst PROVE Spec => []AnswersMatchTransaction
<1>1. IInv => AnswersMatchTransaction
  <2> SUFFICES ASSUME IInv, NEW c \in Calls, Answered(c)
               PROVE  call[c].txn \in Outcome(call[c].answer.status)
    BY DEF AnswersMatchTransaction, Outcome
  <2>1. Traced(c) /\ Settled(c)
    BY DEF IInv, CallsInv
  <2>2. ~At(c, "idle")
    BY <2>1 DEF Traced, Answered, Idle
  <2> QED
    BY <2>1, <2>2 DEF Settled
<1> QED
  BY <1>1, SpecIInv, PTL
=============================================================================
