---------------------------- MODULE ToolCalls_proofs ----------------------------
(***************************************************************************)
(* Proofs about ToolCalls, for any settings, any number of attempts and    *)
(* any lists of channels.                                                  *)
(***************************************************************************)
EXTENDS ToolCalls, FiniteSetTheorems, TLAPS

------------------------------------------------------------------------------
(* Who has which tool                                                       *)

Restarting == {"restart_service", "k8s_restart_deployment"}

\* Whatever the settings name, a tool that restarts is in one group alone.
LEMMA RestartsAreForRecovery ==
  ASSUME NEW a \in Agents, NEW servers \in SUBSET Servers,
         NEW t \in Restarting, t \in Group(a, servers)
  PROVE  a = "recovery"
<1>1. a \in {"monitor", "recovery", "notification"}
  BY DEF Agents, Builtin
<1>2. CASE t \in Builtin[a]
  BY <1>1, <1>2 DEF Builtin, Restarting
<1>3. CASE t \in Registered(servers) /\ GroupByPrefix(t) = a
  <2>1. t \notin McpTools.dingtalk
    BY DEF McpTools, Restarting
  <2>2. t # "restart_service"
    <3>1. PICK s \in Servers : t \in McpTools[s]
      BY <1>3 DEF Registered
    <3>2. s \in {"prometheus", "elasticsearch", "kubernetes", "dingtalk", "postgres"}
      BY DEF Servers, McpTools
    <3> QED BY <3>1, <3>2 DEF McpTools
  <2> QED BY <1>3, <2>1, <2>2 DEF GroupByPrefix, Restarting
<1> QED BY <1>2, <1>3 DEF Group

------------------------------------------------------------------------------
(* The plans                                                                *)

Once(p) == \A i, j \in DOMAIN p : "acts" \in p[i] /\ "acts" \in p[j] => i = j
Harmless(p) == \A i \in DOMAIN p : "acts" \notin p[i]
OpensNothing(p) == \A i \in DOMAIN p : "opens" \notin p[i]

\* A tool acts at most once, not at all if it is repeated, and what it opens
\* it opens first.
Sound(outline) ==
    /\ outline.plan \in Seq(SUBSET Traits)
    /\ Once(outline.plan)
    /\ outline.retries # {} => Harmless(outline.plan)
    /\ \A i \in DOMAIN outline.plan : i > 1 => "opens" \notin outline.plan[i]

LEMMA SshSound ==
  Sound(MonitorProcess) /\ Sound(AnalyzeLogs) /\ Sound(RestartService)
<1>1. Sound(MonitorProcess)
  BY DEF Sound, MonitorProcess, Ssh, Once, Harmless, Traits
<1>2. Sound(AnalyzeLogs)
  BY DEF Sound, AnalyzeLogs, Ssh, Once, Harmless, Traits
<1>3. Sound(RestartService)
  BY DEF Sound, RestartService, Ssh, Once, Harmless, Traits
<1> QED BY <1>1, <1>2, <1>3

LEMMA ClientsSound ==
  Sound(MonitorRedis) /\ Sound(MonitorDatabase) /\ Sound(MonitorMq) /\ Sound(StoreKnowledge)
<1>1. Sound(MonitorRedis)
  BY DEF Sound, MonitorRedis, Once, Harmless, Traits
<1>2. Sound(MonitorDatabase)
  BY DEF Sound, MonitorDatabase, Once, Harmless, Traits
<1>3. Sound(MonitorMq)
  BY DEF Sound, MonitorMq, Once, Harmless, Traits
<1>4. Sound(StoreKnowledge)
  BY DEF Sound, StoreKnowledge, Once, Harmless, Traits
<1> QED BY <1>1, <1>2, <1>3, <1>4

LEMMA RequestsSound == \A traits \in {{}, {"acts"}} : Sound(Request(traits))
  BY DEF Sound, Request, Once, Harmless, Traits

LEMMA PostgresSound == \A n \in Nat : Sound(Postgres(n))
<1> SUFFICES ASSUME NEW n \in Nat PROVE Sound(Postgres(n))
  OBVIOUS
<1>1. /\ Postgres(n).plan = [i \in 1 .. n |-> {"noted"}] /\ Postgres(n).retries = {}
  BY DEF Postgres
<1>2. [i \in 1 .. n |-> {"noted"}] \in Seq(SUBSET Traits)
  <2> DEFINE Ops == SUBSET Traits
  <2>1. {"noted"} \in Ops
    BY DEF Traits
  <2> HIDE DEF Ops
  <2>2. [i \in 1 .. n |-> {"noted"}] \in Seq(Ops)
    BY <2>1
  <2> QED BY <2>2 DEF Ops
<1> QED BY <1>1, <1>2 DEF Sound, Once, Harmless

LEMMA EmptySound == Sound(Mock) /\ Sound(SendNotification(<< >>))
<1>1. Sound(Mock)
  BY DEF Sound, Mock, Once, Harmless, Traits
<1>2. SendNotification(<< >>).plan \in Seq(SUBSET Traits) /\ DOMAIN SendNotification(<< >>).plan = {}
  BY DEF SendNotification
<1> QED BY <1>1, <1>2 DEF Sound, Once, Harmless

LEMMA OutlinesSound == \A t \in DOMAIN Catalogue : Sound(Outline(t))
<1> SUFFICES ASSUME NEW t \in DOMAIN Catalogue PROVE Sound(Outline(t))
  OBVIOUS
<1>1. CASE Mocked(t)
  <2>1. MockCatalogue[t] = Mock
    BY <1>1 DEF Mocked, MockCatalogue, MockMonitorProcess, MockMonitorRedis, MockMonitorMq,
                MockMonitorDatabase, MockAnalyzeLogs, MockRestartService,
                MockSendNotification, MockStoreKnowledge
  <2> QED BY <1>1, <2>1, EmptySound DEF Outline
<1>2. CASE ~ Mocked(t)
  <2>1. Catalogue[t] \in
           {MonitorProcess, AnalyzeLogs, RestartService, MonitorRedis, MonitorDatabase,
            MonitorMq, StoreKnowledge, SendNotification(<< >>), Request({}), Request({"acts"}),
            Postgres(1), Postgres(3)}
    BY DEF Catalogue, QueryPrometheus, QueryPrometheusRange, SearchLogs, AggregateLogs,
           GetPods, GetPodLogs, DescribeResource, RestartDeployment, SendText, SendMarkdown,
           PgQuery, PgSlowQueries, PgTableInfo
  <2>2. Sound(Catalogue[t])
    BY <2>1, SshSound, ClientsSound, EmptySound, RequestsSound, PostgresSound
  <2> QED BY <1>2, <2>2 DEF Outline
<1> QED BY <1>1, <1>2

LEMMA NotificationFacts ==
  ASSUME NEW channels \in ChannelLists
  PROVE  LET p == SendNotification(channels).plan
         IN  p \in Seq(SUBSET Traits) /\ OpensNothing(p)
<1>1. channels \in Seq({"dingtalk", "slack", "email", "unknown"})
  BY CallsAssumption
<1>2. SendNotification(channels).plan =
         [i \in DOMAIN channels |->
             IF channels[i] = "unknown" THEN {"channel", "unknown"}
             ELSE {"channel", channels[i], "noted", "acts"}]
  BY DEF SendNotification
<1>3. PICK n \in Nat : DOMAIN channels = 1 .. n
  BY <1>1
<1>4. \A i \in 1 .. n : channels[i] \in {"dingtalk", "slack", "email", "unknown"}
  BY <1>1, <1>3
<1>5. SendNotification(channels).plan \in [1 .. n -> SUBSET Traits]
  BY <1>2, <1>3, <1>4 DEF Traits
<1>6. OpensNothing(SendNotification(channels).plan)
  BY <1>2, <1>3, <1>4 DEF OpensNothing
<1>7. [1 .. n -> SUBSET Traits] \subseteq Seq(SUBSET Traits)
  OBVIOUS
<1> QED BY <1>5, <1>6, <1>7

\* What is left of a plan after its first operation.
LEMMA TailFacts ==
  ASSUME NEW p \in Seq(SUBSET Traits), p # << >>
  PROVE  /\ Tail(p) \in Seq(SUBSET Traits) /\ Len(Tail(p)) = Len(p) - 1 /\ Len(p) \in Nat
         /\ Once(p) => Once(Tail(p))
         /\ Once(p) /\ "acts" \in Head(p) => Harmless(Tail(p))
         /\ Harmless(p) => Harmless(Tail(p)) /\ "acts" \notin Head(p)
         /\ OpensNothing(p) => OpensNothing(Tail(p)) /\ "opens" \notin Head(p)
         /\ (\A i \in DOMAIN p : i > 1 => "opens" \notin p[i]) => OpensNothing(Tail(p))
<1>1. /\ Tail(p) \in Seq(SUBSET Traits) /\ Len(Tail(p)) = Len(p) - 1 /\ Len(p) \in Nat
      /\ Head(p) = p[1] /\ 1 \in DOMAIN p
      /\ DOMAIN p = 1 .. Len(p)
  OBVIOUS
<1>2. ASSUME NEW i \in DOMAIN Tail(p)
      PROVE  i \in Nat /\ i + 1 > 1 /\ i + 1 \in DOMAIN p /\ Tail(p)[i] = p[i + 1]
  OBVIOUS
<1>3. Once(p) => Once(Tail(p))
  BY <1>2 DEF Once
<1>4. Once(p) /\ "acts" \in Head(p) => Harmless(Tail(p))
  BY <1>1, <1>2 DEF Once, Harmless
<1>5. Harmless(p) => Harmless(Tail(p)) /\ "acts" \notin Head(p)
  BY <1>1, <1>2 DEF Harmless
<1>6. OpensNothing(p) => OpensNothing(Tail(p)) /\ "opens" \notin Head(p)
  BY <1>1, <1>2 DEF OpensNothing
<1>7. (\A i \in DOMAIN p : i > 1 => "opens" \notin p[i]) => OpensNothing(Tail(p))
  BY <1>2 DEF OpensNothing
<1> QED BY <1>1, <1>3, <1>4, <1>5, <1>6, <1>7

LEMMA EmptyPlan ==
  << >> \in Seq(SUBSET Traits) /\ Once(<< >>) /\ Harmless(<< >>) /\ OpensNothing(<< >>)
  BY DEF Once, Harmless, OpensNothing

------------------------------------------------------------------------------
(* The invariant                                                            *)

CallFacts ==
    /\ deployment.servers \in SUBSET Servers /\ agent \in Agents
    /\ tool \in DOMAIN Catalogue \cup {"none"} /\ told \in {"none", "success", "failure"}
    /\ attempt \in Nat /\ open \in Nat /\ acted \in Nat
    /\ plan \in Seq(SUBSET Traits)
    /\ IF tool = "none"
       THEN told = "none" /\ acted = 0 /\ open = 0
       ELSE attempt >= 1 /\ tool \in Group(agent, deployment.servers)

\* A call has acted, or its plan still lets it act, but not both.
ActingOnce ==
    tool \notin {"none", "send_notification"} =>
        /\ acted <= 1
        /\ told = "none" => (acted = 0 /\ Once(plan)) \/ Harmless(plan)
        /\ told = "none" /\ Outline(tool).retries # {} => acted = 0 /\ Harmless(plan)

\* Before its first operation an attempt has opened nothing, and after it there
\* is nothing left to open.
Opening ==
    tool # "none" /\ told = "none" =>
        \/ /\ plan = Outline(tool).plan
           /\ open <= IF Outline(tool).leaks THEN attempt - 1 ELSE 0
        \/ /\ OpensNothing(plan)
           /\ tool # "send_notification" => Len(plan) < Len(Outline(tool).plan)
           /\ open <= IF Outline(tool).leaks THEN attempt ELSE 1

CallInv == CallFacts /\ ActingOnce /\ Opening /\ NothingLeftOpen

LEMMA SameOutline == UNCHANGED <<deployment, tool>> => Outline(tool)' = Outline(tool)
  BY DEF Outline, Mocked

LEMMA CallInitInv == CallsInit => CallInv
<1> SUFFICES ASSUME CallsInit PROVE CallInv
  OBVIOUS
<1>1. deployment.servers \in SUBSET Servers
  BY CallsAssumption DEF CallsInit
<1> QED
  BY <1>1, EmptyPlan DEF CallsInit, CallInv, CallFacts, ActingOnce, Opening, NothingLeftOpen

LEMMA CallBegins ==
  ASSUME CallInv, NEW t \in DOMAIN Catalogue, CallTool(t)
  PROVE  CallInv'
<1>1. /\ tool = "none" /\ tool' = t /\ attempt' = 1 /\ told' = "none" /\ acted' = 0 /\ open' = 0
      /\ deployment' = deployment /\ agent' \in Agents /\ t \in Group(agent', deployment.servers)
      /\ t # "none"
  <2>1. t # "none"
    BY DEF Catalogue
  <2> QED BY <2>1 DEF CallTool, CallInv, CallFacts
<1>2. Outline(tool)' = Outline(t) /\ Sound(Outline(t))
  BY <1>1, OutlinesSound DEF Outline, Mocked
<1>3. \/ plan' = Outline(t).plan
      \/ /\ t = "send_notification"
         /\ \E channels \in ChannelLists : plan' = SendNotification(channels).plan
  BY DEF CallTool
<1>4. CASE plan' = Outline(t).plan
  <2>1. plan' \in Seq(SUBSET Traits)
    BY <1>2, <1>4 DEF Sound
  <2>2. CallFacts'
    BY <1>1, <2>1 DEF CallInv, CallFacts
  <2>3. ActingOnce'
    BY <1>1, <1>2, <1>4 DEF ActingOnce, Sound
  <2>4. Opening'
    BY <1>1, <1>2, <1>4 DEF Opening
  <2> QED BY <1>1, <2>2, <2>3, <2>4 DEF CallInv, NothingLeftOpen
<1>5. ASSUME NEW channels \in ChannelLists, t = "send_notification",
             plan' = SendNotification(channels).plan
      PROVE  CallInv'
  <2>1. plan' \in Seq(SUBSET Traits) /\ OpensNothing(plan')
    BY <1>5, NotificationFacts
  <2>2. CallFacts'
    BY <1>1, <2>1 DEF CallInv, CallFacts
  <2>3. ActingOnce'
    BY <1>1, <1>5 DEF ActingOnce
  <2>4. Opening'
    BY <1>1, <1>5, <2>1 DEF Opening
  <2> QED BY <1>1, <2>2, <2>3, <2>4 DEF CallInv, NothingLeftOpen
<1> QED BY <1>3, <1>4, <1>5

\* The plan goes on, by an operation or to its end.
LEMMA PlanGoesOn ==
  ASSUME CallInv, Running, plan # << >>, UNCHANGED <<caller, attempt, told>>,
         plan' \in {Tail(plan), << >>},
         acted' \in IF "acts" \in Head(plan) THEN {acted, acted + 1} ELSE {acted},
         open' \in IF "opens" \in Head(plan) THEN {open, open + 1} ELSE {open}
  PROVE  CallInv'
<1>1. /\ tool # "none" /\ told = "none" /\ plan \in Seq(SUBSET Traits) /\ tool \in DOMAIN Catalogue
      /\ acted \in Nat /\ open \in Nat /\ attempt \in Nat
      /\ UNCHANGED <<deployment, agent, tool>>
  BY DEF CallInv, CallFacts, Running, caller
<1>2. Outline(tool)' = Outline(tool) /\ Sound(Outline(tool))
  BY <1>1, SameOutline, OutlinesSound
<1>3. /\ plan' \in Seq(SUBSET Traits) /\ Len(plan') < Len(plan) /\ Len(plan') \in Nat /\ Len(plan) \in Nat
      /\ Harmless(plan) => Harmless(plan') /\ "acts" \notin Head(plan)
      /\ Once(plan) => Once(plan')
      /\ Once(plan) /\ "acts" \in Head(plan) => Harmless(plan')
      /\ OpensNothing(plan) => OpensNothing(plan') /\ "opens" \notin Head(plan)
      /\ (\A i \in DOMAIN plan : i > 1 => "opens" \notin plan[i]) => OpensNothing(plan')
  <2>1. CASE plan' = Tail(plan)
    BY <1>1, <2>1, TailFacts
  <2>2. CASE plan' = << >>
    <3>1. Len(plan) \in Nat /\ Len(plan) > 0 /\ Len(plan') = 0
      BY <1>1, <2>2
    <3> QED BY <1>1, <2>2, <3>1, EmptyPlan, TailFacts
  <2> QED BY <2>1, <2>2
<1>4. CallFacts'
  BY <1>1, <1>3 DEF CallInv, CallFacts
<1>5. ActingOnce'
  <2> SUFFICES ASSUME tool # "send_notification"
               PROVE  /\ acted' <= 1
                      /\ (acted' = 0 /\ Once(plan')) \/ Harmless(plan')
                      /\ Outline(tool).retries # {} => acted' = 0 /\ Harmless(plan')
    BY <1>1, <1>2 DEF ActingOnce
  <2>1. CASE Harmless(plan)
    BY <1>1, <1>3, <2>1 DEF CallInv, ActingOnce
  <2>2. CASE ~ Harmless(plan)
    <3>1. acted = 0 /\ Once(plan) /\ Outline(tool).retries = {}
      BY <1>1, <2>2 DEF CallInv, ActingOnce
    <3> QED BY <1>1, <1>3, <3>1
  <2> QED BY <2>1, <2>2
<1>6. Opening'
  <2>1. CASE plan = Outline(tool).plan /\ open <= IF Outline(tool).leaks THEN attempt - 1 ELSE 0
    <3>1. OpensNothing(plan')
      BY <1>2, <1>3, <2>1 DEF Sound
    <3>2. open' <= IF Outline(tool).leaks THEN attempt ELSE 1
      BY <1>1, <2>1
    <3>3. Len(plan') < Len(Outline(tool).plan)
      BY <1>3, <2>1
    <3> QED BY <1>1, <1>2, <3>1, <3>2, <3>3 DEF Opening
  <2>2. CASE /\ OpensNothing(plan)
             /\ tool # "send_notification" => Len(plan) < Len(Outline(tool).plan)
             /\ open <= IF Outline(tool).leaks THEN attempt ELSE 1
    <3>1. OpensNothing(plan') /\ open' = open
      BY <1>3, <2>2
    <3>2. Len(Outline(tool).plan) \in Nat
      BY <1>2 DEF Sound
    <3>3. tool # "send_notification" => Len(plan') < Len(Outline(tool).plan)
      BY <1>3, <2>2, <3>2
    <3> QED BY <1>1, <1>2, <2>2, <3>1, <3>3 DEF Opening
  <2> QED BY <1>1, <2>1, <2>2 DEF CallInv, Opening
<1>7. NothingLeftOpen'
  BY <1>1 DEF NothingLeftOpen
<1> QED BY <1>4, <1>5, <1>6, <1>7 DEF CallInv

\* The result is told.
LEMMA ResultTold ==
  ASSUME CallInv, Running, UNCHANGED <<caller, attempt, plan>>,
         told' \in {"success", "failure"}, open' \in Nat, acted' \in Nat,
         tool # "send_notification" => acted' <= 1,
         open' <= IF ~ Outline(tool).leaks THEN 0
                  ELSE IF told' = "success" THEN attempt - 1 ELSE attempt
  PROVE  CallInv'
<1>1. tool # "none" /\ UNCHANGED <<deployment, agent, tool>> /\ told' # "none"
  BY DEF Running, caller
<1>2. Outline(tool)' = Outline(tool)
  BY <1>1, SameOutline
<1>3. CallFacts'
  BY <1>1 DEF CallInv, CallFacts
<1>4. ActingOnce' /\ Opening'
  BY <1>1 DEF ActingOnce, Opening
<1>5. NothingLeftOpen'
  BY <1>1, <1>2 DEF NothingLeftOpen
<1> QED BY <1>3, <1>4, <1>5 DEF CallInv

LEMMA AttemptFails ==
  ASSUME CallInv, FailAttempt
  PROVE  CallInv'
<1>1. /\ Running /\ plan # << >> /\ UNCHANGED <<caller, delivered>>
      /\ acted' \in IF "acts" \in Head(plan) THEN {acted, acted + 1} ELSE {acted}
      /\ open' = IF Outline(tool).leaks THEN open ELSE 0
  BY DEF FailAttempt, ActedAnyway
<1>2. /\ tool # "none" /\ told = "none" /\ plan \in Seq(SUBSET Traits) /\ tool \in DOMAIN Catalogue
      /\ acted \in Nat /\ open \in Nat /\ attempt \in Nat /\ attempt >= 1
      /\ UNCHANGED <<deployment, agent, tool>>
  BY <1>1 DEF CallInv, CallFacts, Running, caller
<1>3. Outline(tool)' = Outline(tool) /\ Sound(Outline(tool))
  BY <1>2, SameOutline, OutlinesSound
<1>4. open' \in Nat /\ open' <= IF Outline(tool).leaks THEN attempt ELSE 0
  BY <1>1, <1>2 DEF CallInv, Opening
<1>5. acted' \in Nat /\ (tool # "send_notification" => acted' <= 1)
  <2>1. acted' \in Nat
    BY <1>1, <1>2
  <2>2. CASE Harmless(plan)
    BY <1>1, <1>2, <2>1, <2>2, TailFacts DEF CallInv, ActingOnce
  <2>3. CASE ~ Harmless(plan)
    BY <1>1, <1>2, <2>1, <2>3 DEF CallInv, ActingOnce
  <2> QED BY <2>2, <2>3
<1>6. PICK kind \in Outline(tool).fails :
        IF kind \in Outline(tool).retries /\ attempt < MaxAttempts
        THEN /\ attempt' = attempt + 1
             /\ plan' = Outline(tool).plan
             /\ flaw' = FALSE /\ UNCHANGED told
        ELSE Tell(FALSE) /\ flaw' = TRUE /\ UNCHANGED <<attempt, plan>>
  BY DEF FailAttempt
<1>7. CASE kind \in Outline(tool).retries /\ attempt < MaxAttempts
  <2>1. attempt' = attempt + 1 /\ plan' = Outline(tool).plan /\ told' = "none"
    BY <1>2, <1>6, <1>7
  <2>2. CallFacts'
    BY <1>2, <1>3, <1>4, <1>5, <2>1 DEF CallInv, CallFacts, Sound
  <2>3. ASSUME tool # "send_notification"
        PROVE  acted' = 0 /\ Harmless(Outline(tool).plan) /\ Once(Outline(tool).plan)
    <3>1. Outline(tool).retries # {}
      BY <1>7
    <3>2. acted = 0 /\ Harmless(plan)
      BY <1>2, <2>3, <3>1 DEF CallInv, ActingOnce
    <3>3. "acts" \notin Head(plan)
      BY <1>1, <1>2, <3>2, TailFacts
    <3> QED BY <1>1, <1>3, <3>1, <3>2, <3>3 DEF Sound
  <2>4. ActingOnce'
    BY <1>2, <1>3, <2>1, <2>3 DEF ActingOnce
  <2>5. open' <= IF Outline(tool).leaks THEN attempt' - 1 ELSE 0
    BY <1>2, <1>4, <2>1
  <2>6. Opening'
    BY <1>2, <1>3, <2>1, <2>5 DEF Opening
  <2> QED BY <2>1, <2>2, <2>4, <2>6 DEF CallInv, NothingLeftOpen
<1>8. CASE ~ (kind \in Outline(tool).retries /\ attempt < MaxAttempts)
  <2>1. told' = "failure" /\ UNCHANGED <<attempt, plan>>
    BY <1>6, <1>8 DEF Tell
  <2> QED BY <1>1, <1>4, <1>5, <2>1, ResultTold
<1> QED BY <1>7, <1>8

LEMMA CallNextInv == CallInv /\ [CallsNext]_callVars => CallInv'
<1> SUFFICES ASSUME CallInv, [CallsNext]_callVars PROVE CallInv'
  OBVIOUS
<1>0. ASSUME Running
      PROVE  /\ acted \in Nat /\ open \in Nat /\ attempt \in Nat /\ attempt >= 1
             /\ tool # "send_notification" => acted <= 1
  BY <1>0 DEF CallInv, CallFacts, ActingOnce, Running
<1>1. ASSUME NEW t \in DOMAIN Catalogue, CallTool(t) PROVE CallInv'
  BY <1>1, CallBegins
<1>2. CASE RefuseCall
  <2>1. /\ Running /\ tool # "send_notification" /\ plan = Outline(tool).plan /\ attempt = 1
        /\ told' = "failure" /\ UNCHANGED <<caller, attempt, plan, open, acted>>
    BY <1>2 DEF RefuseCall, Tell, Refusing
  <2>2. plan \in Seq(SUBSET Traits)
    BY DEF CallInv, CallFacts
  <2>3. open <= IF Outline(tool).leaks THEN attempt - 1 ELSE 0
    BY <2>1, <2>2 DEF CallInv, Opening, Running
  <2>4. open <= IF Outline(tool).leaks THEN attempt ELSE 0
    BY <1>0, <2>1, <2>3
  <2> QED BY <1>0, <2>1, <2>4, ResultTold
<1>3. CASE Succeed
  <2>1. /\ Running /\ plan # << >> /\ UNCHANGED <<caller, attempt, told>>
        /\ plan' \in {Tail(plan), << >>}
        /\ acted' \in IF "acts" \in Head(plan) THEN {acted, acted + 1} ELSE {acted}
        /\ open' \in IF "opens" \in Head(plan) THEN {open, open + 1} ELSE {open}
    BY <1>3 DEF Succeed
  <2> QED BY <2>1, PlanGoesOn
<1>4. CASE LeaveOut
  <2>1. /\ Running /\ plan # << >> /\ UNCHANGED <<caller, attempt, told>>
        /\ plan' \in {Tail(plan), << >>}
        /\ acted' \in IF "acts" \in Head(plan) THEN {acted, acted + 1} ELSE {acted}
        /\ open' \in IF "opens" \in Head(plan) THEN {open, open + 1} ELSE {open}
    BY <1>4 DEF LeaveOut
  <2> QED BY <2>1, PlanGoesOn
<1>5. CASE FailCaught
  <2>1. /\ Running /\ plan # << >> /\ UNCHANGED <<caller, attempt, told>>
        /\ plan' \in {Tail(plan), << >>}
        /\ acted' \in IF "acts" \in Head(plan) THEN {acted, acted + 1} ELSE {acted}
        /\ open' \in IF "opens" \in Head(plan) THEN {open, open + 1} ELSE {open}
    BY <1>5 DEF FailCaught, ActedAnyway
  <2> QED BY <2>1, PlanGoesOn
<1>6. CASE FailAttempt
  BY <1>6, AttemptFails
<1>11. CASE NotRunning
  <2>1. /\ Running /\ plan # << >> /\ UNCHANGED <<caller, attempt, told>>
        /\ plan' \in {Tail(plan), << >>}
        /\ acted' \in IF "acts" \in Head(plan) THEN {acted, acted + 1} ELSE {acted}
        /\ open' \in IF "opens" \in Head(plan) THEN {open, open + 1} ELSE {open}
    BY <1>11 DEF NotRunning
  <2> QED BY <2>1, PlanGoesOn
<1>7. CASE OddAnswer
  <2>1. /\ Running /\ plan # << >> /\ UNCHANGED <<caller, attempt, told>>
        /\ plan' \in {Tail(plan), << >>}
        /\ acted' \in IF "acts" \in Head(plan) THEN {acted, acted + 1} ELSE {acted}
        /\ open' \in IF "opens" \in Head(plan) THEN {open, open + 1} ELSE {open}
    BY <1>7 DEF OddAnswer, ActedAnyway
  <2> QED BY <2>1, PlanGoesOn
<1>8. CASE Report
  <2>1. /\ Running /\ UNCHANGED <<caller, attempt, plan, acted>>
        /\ open' = IF open > 0 THEN open - 1 ELSE 0
        /\ told' \in {"success", "failure"}
    BY <1>8 DEF Report, Tell
  <2>2. open <= IF Outline(tool).leaks THEN attempt ELSE 1
    BY <1>0, <2>1 DEF CallInv, Opening, Running
  <2>3. /\ open' \in Nat
        /\ open' <= IF Outline(tool).leaks THEN attempt - 1 ELSE 0
    BY <1>0, <2>1, <2>2
  <2>4. open' <= IF ~ Outline(tool).leaks THEN 0
                 ELSE IF told' = "success" THEN attempt - 1 ELSE attempt
    BY <1>0, <2>1, <2>3
  <2> QED BY <1>0, <2>1, <2>3, <2>4, ResultTold
<1>9. CASE TakeResult
  BY <1>9, EmptyPlan
  DEF TakeResult, CallInv, CallFacts, ActingOnce, Opening, NothingLeftOpen
<1>10. CASE UNCHANGED callVars
  <2>1. Outline(tool)' = Outline(tool)
    BY <1>10, SameOutline DEF callVars
  <2> QED BY <1>10, <2>1 DEF callVars, CallInv, CallFacts, ActingOnce, Opening, NothingLeftOpen
<1> QED
  BY <1>1, <1>2, <1>3, <1>4, <1>5, <1>6, <1>7, <1>8, <1>9, <1>10, <1>11
  DEF CallsNext, Proceed

LEMMA AlwaysCallInv == CallsSpec => []CallInv
  BY CallInitInv, CallNextInv, PTL DEF CallsSpec

------------------------------------------------------------------------------
(* What a success says                                                      *)

ChannelNames == {"dingtalk", "slack", "email"}

\* The operations of the two tools whose success says more than their plan.
RestartOps == {{"opens"}, {"optional"}, {"acts"}, {"verdict"}}
NoticeOps == {{"channel", "unknown"}} \cup {{"channel", c, "noted", "acts"} : c \in ChannelNames}

\* Until restart_service is told, it has restarted or its plan still has the
\* restart, which nothing leaves out.
Restarted ==
    tool = "restart_service" /\ ~ Mocked(tool) =>
        /\ plan \in Seq(RestartOps)
        /\ told = "none" => acted = 1 \/ ~ Harmless(plan)
        /\ told = "success" => acted = 1

\* Every channel that has taken a notification was called for it.
Notified ==
    tool = "send_notification" /\ ~ Mocked(tool) =>
        /\ plan \in Seq(NoticeOps)
        /\ acted >= Cardinality(delivered)
        /\ told = "success" => delivered # {}

\* A direct tool has its one request still to make, or has made it.
Answered ==
    tool \in Direct /\ ~ Mocked(tool) =>
        /\ told = "none" =>
              \/ plan = <<{"request", "acts"}>> /\ acted = 0
              \/ plan = << >> /\ (acted = 1 \/ doubt)
        /\ told = "success" => acted = 1 \/ doubt

EarnInv ==
    /\ CallInv
    /\ delivered \subseteq ChannelNames /\ (tool = "none" => delivered = {})
    /\ Restarted /\ Notified /\ Answered

LEMMA SameMock == UNCHANGED <<deployment, tool>> => Mocked(tool)' = Mocked(tool)
  BY DEF Mocked

LEMMA ChannelsCount ==
  ASSUME NEW D, D \subseteq ChannelNames
  PROVE  /\ IsFiniteSet(D) /\ Cardinality(D) \in Nat
         /\ \A c : Cardinality(D \cup {c}) <= Cardinality(D) + 1
         /\ \A E : Cardinality(D \ E) <= Cardinality(D)
<1>1. IsFiniteSet(ChannelNames)
  <2>1. ChannelNames = {"dingtalk"} \cup ({"slack"} \cup {"email"})
    BY DEF ChannelNames
  <2> QED BY <2>1, FS_Singleton, FS_Union
<1>2. IsFiniteSet(D)
  BY <1>1, FS_Subset
<1>3. Cardinality(D) \in Nat
  BY <1>2, FS_CardinalityType
<1>4. ASSUME NEW c PROVE Cardinality(D \cup {c}) <= Cardinality(D) + 1
  <2>1. CASE c \in D
    <3>1. Cardinality(D \cup {c}) = Cardinality(D)
      BY <1>2, <2>1, FS_AddElement
    <3> QED BY <1>3, <3>1
  <2>2. CASE c \notin D
    <3>1. Cardinality(D \cup {c}) = Cardinality(D) + 1
      BY <1>2, <2>2, FS_AddElement
    <3> QED BY <1>3, <3>1
  <2> QED BY <2>1, <2>2
<1>5. ASSUME NEW E PROVE Cardinality(D \ E) <= Cardinality(D)
  <2>1. D \ E \subseteq D
    OBVIOUS
  <2> QED BY <1>2, <2>1, FS_Subset
<1> QED BY <1>2, <1>3, <1>4, <1>5

LEMMA RestartOpsFacts ==
  ASSUME NEW op \in RestartOps
  PROVE  /\ {"soft", "noted"} \cap op = {} /\ "request" \notin op /\ "final" \notin op
         /\ Channel(op) = {} /\ ("optional" \in op \/ "verdict" \in op => "acts" \notin op)
  BY DEF RestartOps, Channel

LEMMA NoticeOpsFacts ==
  ASSUME NEW op \in NoticeOps
  PROVE  /\ "channel" \in op /\ "request" \notin op /\ "final" \notin op /\ "optional" \notin op
         /\ "verdict" \notin op
         /\ Channel(op) \subseteq ChannelNames
         /\ \/ Channel(op) = {}
            \/ "acts" \in op /\ \E c : Channel(op) = {c}
<1>1. CASE op = {"channel", "unknown"}
  BY <1>1 DEF Channel
<1>2. ASSUME NEW c \in ChannelNames, op = {"channel", c, "noted", "acts"}
      PROVE  /\ "channel" \in op /\ "request" \notin op /\ "final" \notin op
             /\ "verdict" \notin op /\ "optional" \notin op /\ "acts" \in op /\ Channel(op) = {c}
  BY <1>2 DEF Channel, ChannelNames
<1>3. CASE \E c \in ChannelNames : op = {"channel", c, "noted", "acts"}
  <2>1. PICK c \in ChannelNames : op = {"channel", c, "noted", "acts"}
    BY <1>3
  <2>2. /\ "channel" \in op /\ "request" \notin op /\ "final" \notin op
        /\ "verdict" \notin op /\ "optional" \notin op /\ "acts" \in op /\ Channel(op) = {c}
    BY <1>2, <2>1
  <2> QED BY <2>2
<1> QED BY <1>1, <1>3 DEF NoticeOps

LEMMA RestartPlan ==
  RestartService.plan \in Seq(RestartOps) /\ ~ Harmless(RestartService.plan)
<1>1. RestartService.plan = <<{"opens"}, {"optional"}, {"optional"}, {"acts"}, {"verdict"}>>
  BY DEF RestartService, Ssh
<1>2. RestartService.plan[4] = {"acts"} /\ 4 \in DOMAIN RestartService.plan
  BY <1>1
<1> QED BY <1>1, <1>2 DEF RestartOps, Harmless

LEMMA NoticePlan ==
  ASSUME NEW channels \in Seq({"dingtalk", "slack", "email", "unknown"})
  PROVE  SendNotification(channels).plan \in Seq(NoticeOps)
<1>1. SendNotification(channels).plan =
         [i \in DOMAIN channels |->
             IF channels[i] = "unknown" THEN {"channel", "unknown"}
             ELSE {"channel", channels[i], "noted", "acts"}]
  BY DEF SendNotification
<1>2. PICK n \in Nat : DOMAIN channels = 1 .. n
  OBVIOUS
<1>3. ASSUME NEW i \in 1 .. n
      PROVE  (IF channels[i] = "unknown" THEN {"channel", "unknown"}
              ELSE {"channel", channels[i], "noted", "acts"}) \in NoticeOps
  <2>1. channels[i] \in ChannelNames \cup {"unknown"}
    BY <1>2 DEF ChannelNames
  <2> QED BY <2>1 DEF NoticeOps
<1>4. SendNotification(channels).plan \in [1 .. n -> NoticeOps]
  BY <1>1, <1>2, <1>3
<1> QED BY <1>4

\* The rest of a plan has operations of the same set.
LEMMA RestOfPlan ==
  ASSUME NEW Ops, NEW p \in Seq(Ops), p # << >>, NEW q \in {Tail(p), << >>}
  PROVE  q \in Seq(Ops) /\ Head(p) \in Ops
<1>1. << >> \in Seq(Ops)
  OBVIOUS
<1>2. Tail(p) \in Seq(Ops) /\ Head(p) \in Ops
  OBVIOUS
<1> QED BY <1>1, <1>2

\* A plan that still acts, acts now or later.
LEMMA StillActs ==
  ASSUME NEW p \in Seq(SUBSET Traits), p # << >>, ~ Harmless(p), "acts" \notin Head(p)
  PROVE  ~ Harmless(Tail(p))
<1>1. PICK i \in DOMAIN p : "acts" \in p[i]
  BY DEF Harmless
<1>2. i \in Nat /\ i > 1 /\ i - 1 \in DOMAIN Tail(p) /\ Tail(p)[i - 1] = p[i]
  BY <1>1
<1> QED BY <1>1, <1>2 DEF Harmless

LEMMA EarnInit == CallsInit => EarnInv
<1> SUFFICES ASSUME CallsInit PROVE EarnInv
  OBVIOUS
<1>1. tool = "none" /\ told = "none" /\ delivered = {}
  BY DEF CallsInit
<1> QED BY <1>1, CallInitInv DEF EarnInv, Restarted, Notified, Answered, Direct

LEMMA EarnBegins ==
  ASSUME EarnInv, NEW t \in DOMAIN Catalogue, CallTool(t)
  PROVE  (delivered \subseteq ChannelNames /\ (tool = "none" => delivered = {})
            /\ Restarted /\ Notified /\ Answered)'
<1>1. /\ tool = "none" /\ tool' = t /\ told' = "none" /\ acted' = 0 /\ delivered' = {}
      /\ deployment' = deployment /\ t # "none"
  <2>1. t # "none"
    BY DEF Catalogue
  <2> QED BY <2>1 DEF CallTool, EarnInv, CallInv, CallFacts
<1>2. Mocked(tool)' = Mocked(t)
  BY <1>1 DEF Mocked
<1>3. Restarted'
  <2> SUFFICES ASSUME t = "restart_service", ~ Mocked(t)
               PROVE  plan' \in Seq(RestartOps) /\ ~ Harmless(plan')
    BY <1>1, <1>2 DEF Restarted
  <2>1. plan' = Outline(t).plan
    BY DEF CallTool
  <2>2. Outline(t) = RestartService
    BY DEF Outline, Catalogue
  <2> QED BY <2>1, <2>2, RestartPlan
<1>4. Notified'
  <2> SUFFICES ASSUME t = "send_notification", ~ Mocked(t)
               PROVE  plan' \in Seq(NoticeOps) /\ acted' >= Cardinality(delivered')
    BY <1>1, <1>2 DEF Notified
  <2>1. PICK channels \in ChannelLists : plan' = SendNotification(channels).plan
    BY DEF CallTool
  <2>2. plan' \in Seq(NoticeOps)
    BY <2>1, NoticePlan, CallsAssumption
  <2> QED BY <1>1, <2>2, FS_EmptySet
<1>5. Answered'
  <2> SUFFICES ASSUME t \in Direct, ~ Mocked(t)
               PROVE  plan' = <<{"request", "acts"}>>
    BY <1>1, <1>2 DEF Answered
  <2>1. plan' = Outline(t).plan
    BY DEF CallTool, Direct
  <2>2. Outline(t) = Request({"acts"})
    BY DEF Outline, Catalogue, Direct, RestartDeployment, SendText, SendMarkdown
  <2>3. {"request"} \cup {"acts"} = {"request", "acts"}
    OBVIOUS
  <2> QED BY <2>1, <2>2, <2>3 DEF Request
<1> QED BY <1>1, <1>3, <1>4, <1>5

\* An operation is done, left out or given up: the plan goes on.
LEMMA EarnGoesOn ==
  ASSUME EarnInv, Succeed \/ LeaveOut \/ FailCaught \/ NotRunning \/ OddAnswer
  PROVE  (delivered \subseteq ChannelNames /\ (tool = "none" => delivered = {})
            /\ Restarted /\ Notified /\ Answered)'
<1>1. /\ Running /\ plan # << >> /\ UNCHANGED <<deployment, agent, tool, attempt, told>>
      /\ tool # "none" /\ told = "none" /\ plan \in Seq(SUBSET Traits)
      /\ plan' \in {Tail(plan), << >>}
      /\ tool \in DOMAIN Catalogue /\ acted \in Nat
      /\ acted' \in {acted, acted + 1}
  BY DEF Succeed, LeaveOut, FailCaught, NotRunning, OddAnswer, ActedAnyway, Running, caller,
         EarnInv, CallInv, CallFacts
<1>2. Mocked(tool)' = Mocked(tool)
  BY <1>1, SameMock
<1>3. delivered' \subseteq ChannelNames
  <2>1. delivered' \subseteq delivered \cup Channel(Head(plan))
    BY DEF Succeed, LeaveOut, FailCaught, NotRunning, OddAnswer
  <2>2. Channel(Head(plan)) \subseteq ChannelNames
    BY DEF Channel, ChannelNames
  <2> QED BY <2>1, <2>2 DEF EarnInv
<1>4. Restarted'
  <2> SUFFICES ASSUME tool = "restart_service", ~ Mocked(tool)
               PROVE  plan' \in Seq(RestartOps) /\ (acted' = 1 \/ ~ Harmless(plan'))
    BY <1>1, <1>2 DEF Restarted
  <2>1. plan \in Seq(RestartOps) /\ (acted = 1 \/ ~ Harmless(plan))
    BY <1>1 DEF EarnInv, Restarted
  <2>2. plan' \in Seq(RestartOps) /\ Head(plan) \in RestartOps
    BY <1>1, <2>1, RestOfPlan
  <2>3. Succeed \/ LeaveOut \/ NotRunning
    BY <2>2, RestartOpsFacts DEF FailCaught, OddAnswer
  <2>4. /\ plan' = Tail(plan)
        /\ acted' = IF "acts" \in Head(plan) THEN acted + 1 ELSE acted
    BY <2>2, <2>3, RestartOpsFacts DEF Succeed, LeaveOut, NotRunning
  <2>5. (acted = 0 /\ Once(plan)) \/ Harmless(plan)
    BY <1>1 DEF EarnInv, CallInv, ActingOnce
  <2>6. CASE "acts" \in Head(plan)
    <3>1. ~ Harmless(plan)
      BY <1>1, <2>6, TailFacts
    <3> QED BY <2>2, <2>4, <2>5, <2>6, <3>1
  <2>7. CASE "acts" \notin Head(plan)
    BY <1>1, <2>1, <2>2, <2>4, <2>7, StillActs
  <2> QED BY <2>6, <2>7
<1>5. Notified'
  <2> SUFFICES ASSUME tool = "send_notification", ~ Mocked(tool)
               PROVE  plan' \in Seq(NoticeOps) /\ acted' >= Cardinality(delivered')
    BY <1>1, <1>2 DEF Notified
  <2>1. plan \in Seq(NoticeOps) /\ acted >= Cardinality(delivered)
    BY <1>1 DEF EarnInv, Notified
  <2>2. plan' \in Seq(NoticeOps) /\ Head(plan) \in NoticeOps
    BY <1>1, <2>1, RestOfPlan
  <2>3. /\ Cardinality(delivered) \in Nat
        /\ \A c : Cardinality(delivered \cup {c}) <= Cardinality(delivered) + 1
        /\ \A E : Cardinality(delivered \ E) <= Cardinality(delivered)
    BY ChannelsCount DEF EarnInv
  <2>4. IsFiniteSet(delivered') /\ Cardinality(delivered') \in Nat
    BY <1>3, ChannelsCount
  <2>5. CASE Succeed
    <3>1. /\ delivered' = delivered \cup Channel(Head(plan))
          /\ acted' = IF "acts" \in Head(plan) THEN acted + 1 ELSE acted
      BY <2>5 DEF Succeed
    <3>2. CASE Channel(Head(plan)) = {}
      <4>1. delivered' = delivered
        BY <3>1, <3>2
      <4>2. acted' >= acted
        BY <1>1
      <4> QED BY <1>1, <2>1, <2>2, <2>3, <4>1, <4>2
    <3>3. CASE "acts" \in Head(plan) /\ \E c : Channel(Head(plan)) = {c}
      <4>1. PICK c : delivered' = delivered \cup {c}
        BY <3>1, <3>3
      <4>2. Cardinality(delivered') <= Cardinality(delivered) + 1
        BY <2>3, <4>1
      <4>3. acted' = acted + 1
        BY <3>1, <3>3
      <4> QED BY <1>1, <2>1, <2>2, <2>3, <2>4, <4>2, <4>3
    <3> QED BY <2>2, <3>2, <3>3, NoticeOpsFacts
  <2>6. CASE FailCaught
    <3>1. delivered' = delivered \ Channel(Head(plan))
      BY <2>6 DEF FailCaught
    <3>2. Cardinality(delivered') <= Cardinality(delivered)
      BY <2>3, <3>1
    <3> QED BY <1>1, <2>1, <2>2, <2>3, <2>4, <3>2
  <2>7. CASE LeaveOut \/ NotRunning \/ OddAnswer
    BY <2>2, <2>7, NoticeOpsFacts DEF LeaveOut, NotRunning, OddAnswer
  <2> QED BY <2>5, <2>6, <2>7
<1>6. Answered'
  <2> SUFFICES ASSUME tool \in Direct, ~ Mocked(tool)
               PROVE  plan' = << >> /\ (acted' = 1 \/ doubt')
    BY <1>1, <1>2 DEF Answered
  <2>1. plan = <<{"request", "acts"}>> /\ acted = 0
    BY <1>1 DEF EarnInv, Answered
  <2>2. Head(plan) = {"request", "acts"} /\ Tail(plan) = << >>
    BY <2>1
  <2>3. plan' = << >>
    BY <1>1, <2>2
  <2>4. CASE Succeed
    BY <2>1, <2>2, <2>3, <2>4 DEF Succeed
  <2>5. CASE OddAnswer
    BY <2>3, <2>5 DEF OddAnswer
  <2>6. CASE LeaveOut \/ FailCaught \/ NotRunning
    BY <2>2, <2>6 DEF LeaveOut, FailCaught, NotRunning
  <2> QED BY <2>4, <2>5, <2>6
<1> QED BY <1>1, <1>3, <1>4, <1>5, <1>6

\* An attempt ends with a failure, which is told or forgotten with it.
LEMMA EarnFails ==
  ASSUME EarnInv, RefuseCall \/ FailAttempt
  PROVE  (delivered \subseteq ChannelNames /\ (tool = "none" => delivered = {})
            /\ Restarted /\ Notified /\ Answered)'
<1>1. /\ tool # "none" /\ told = "none" /\ UNCHANGED <<deployment, tool, delivered>>
      /\ tool \in DOMAIN Catalogue
  BY DEF RefuseCall, FailAttempt, Running, caller, EarnInv, CallInv, CallFacts
<1>2. Mocked(tool)' = Mocked(tool)
  BY <1>1, SameMock
<1>3. ~ (tool = "send_notification" /\ ~ Mocked(tool))
  <2>1. CASE RefuseCall
    BY <2>1 DEF RefuseCall, Refusing
  <2>2. CASE FailAttempt
    <3> SUFFICES ASSUME tool = "send_notification", ~ Mocked(tool) PROVE FALSE
      OBVIOUS
    <3>1. plan \in Seq(NoticeOps) /\ plan # << >>
      BY <2>2 DEF FailAttempt, EarnInv, Notified
    <3>2. "channel" \in Head(plan)
      BY <3>1, RestOfPlan, NoticeOpsFacts
    <3> QED BY <2>2, <3>2 DEF FailAttempt
  <2> QED BY <2>1, <2>2
<1>4. \/ told' = "failure" /\ plan' = plan
      \/ told' = told /\ Outline(tool).retries # {}
  <2>1. CASE RefuseCall
    BY <2>1 DEF RefuseCall, Tell
  <2>2. CASE FailAttempt
    <3>1. PICK kind \in Outline(tool).fails :
            IF kind \in Outline(tool).retries /\ attempt < MaxAttempts
            THEN /\ attempt' = attempt + 1
                 /\ plan' = Outline(tool).plan
                 /\ flaw' = FALSE /\ UNCHANGED told
            ELSE Tell(FALSE) /\ flaw' = TRUE /\ UNCHANGED <<attempt, plan>>
      BY <2>2 DEF FailAttempt
    <3> QED BY <3>1 DEF Tell
  <2> QED BY <2>1, <2>2
<1>5. Restarted'
  <2> SUFFICES ASSUME tool = "restart_service", ~ Mocked(tool)
               PROVE  told' = "failure" /\ plan' \in Seq(RestartOps)
    BY <1>1, <1>2 DEF Restarted
  <2>1. Outline(tool).retries = {}
    BY DEF Outline, Catalogue, RestartService, Ssh
  <2> QED BY <1>4, <2>1 DEF EarnInv, Restarted
<1>6. Answered'
  <2> SUFFICES ASSUME tool \in Direct, ~ Mocked(tool) PROVE told' = "failure"
    BY <1>1, <1>2 DEF Answered
  <2>1. Outline(tool).retries = {}
    BY DEF Outline, Catalogue, Direct, RestartDeployment, SendText, SendMarkdown, Request
  <2> QED BY <1>4, <2>1
<1> QED BY <1>1, <1>2, <1>3, <1>5, <1>6 DEF EarnInv, Notified

\* The plan is done.
LEMMA EarnReports ==
  ASSUME EarnInv, Report
  PROVE  (delivered \subseteq ChannelNames /\ (tool = "none" => delivered = {})
            /\ Restarted /\ Notified /\ Answered)'
<1>1. /\ tool # "none" /\ told = "none" /\ plan = << >>
      /\ UNCHANGED <<deployment, tool, plan, delivered, flaw, acted>>
      /\ told' = IF IF tool = "send_notification" /\ ~ Mocked(tool)
                    THEN delivered # {} ELSE ~ flaw
                 THEN "success" ELSE "failure"
  BY DEF Report, Running, caller, Tell
<1>2. Mocked(tool)' = Mocked(tool)
  BY <1>1, SameMock
<1>3. Restarted'
  BY <1>1, <1>2, EmptyPlan DEF EarnInv, Restarted
<1>4. Notified'
  <2>1. CASE tool = "send_notification" /\ ~ Mocked(tool)
    <3>1. told' = "success" => delivered # {}
      BY <1>1, <2>1
    <3> QED BY <1>1, <1>2, <3>1 DEF EarnInv, Notified
  <2>2. CASE ~ (tool = "send_notification" /\ ~ Mocked(tool))
    BY <1>1, <1>2, <2>2 DEF Notified
  <2> QED BY <2>1, <2>2
<1>5. Answered'
  <2> SUFFICES ASSUME tool \in Direct, ~ Mocked(tool) PROVE acted' = 1 \/ doubt'
    BY <1>1, <1>2 DEF Answered
  <2>1. acted = 1 \/ doubt
    BY <1>1 DEF EarnInv, Answered
  <2> QED BY <1>1, <2>1 DEF Report
<1> QED BY <1>1, <1>3, <1>4, <1>5 DEF EarnInv

LEMMA EarnNext == EarnInv /\ [CallsNext]_callVars => EarnInv'
<1> SUFFICES ASSUME EarnInv, [CallsNext]_callVars PROVE EarnInv'
  OBVIOUS
<1>1. CallInv'
  BY CallNextInv DEF EarnInv
<1>2. CASE \E t \in DOMAIN Catalogue : CallTool(t)
  BY <1>1, <1>2, EarnBegins DEF EarnInv
<1>3. CASE Succeed \/ LeaveOut \/ FailCaught \/ NotRunning \/ OddAnswer
  BY <1>1, <1>3, EarnGoesOn DEF EarnInv
<1>4. CASE RefuseCall \/ FailAttempt
  BY <1>1, <1>4, EarnFails DEF EarnInv
<1>5. CASE Report
  BY <1>1, <1>5, EarnReports DEF EarnInv
<1>6. CASE TakeResult
  BY <1>1, <1>6 DEF TakeResult, EarnInv, Restarted, Notified, Answered, Direct
<1>7. CASE UNCHANGED callVars
  <2>1. Mocked(tool)' = Mocked(tool)
    BY <1>7, SameMock DEF callVars
  <2> QED BY <1>1, <1>7, <2>1 DEF callVars, EarnInv, Restarted, Notified, Answered
<1> QED BY <1>2, <1>3, <1>4, <1>5, <1>6, <1>7 DEF CallsNext, Proceed

------------------------------------------------------------------------------
(* Types                                                                    *)

Settled ==
    /\ deployment \in Deployments /\ attempt \in 0 .. MaxAttempts
    /\ flaw \in BOOLEAN /\ doubt \in BOOLEAN

LEMMA SettledNext == Settled /\ [CallsNext]_callVars => Settled'
<1> SUFFICES ASSUME Settled, [CallsNext]_callVars PROVE Settled'
  OBVIOUS
<1>0. MaxAttempts \in Nat /\ 1 \in 0 .. MaxAttempts /\ 0 \in 0 .. MaxAttempts
  BY CallsAssumption
<1>1. ASSUME NEW t \in DOMAIN Catalogue, CallTool(t) PROVE Settled'
  BY <1>0, <1>1 DEF CallTool, Settled
<1>2. CASE RefuseCall \/ Succeed \/ LeaveOut \/ NotRunning \/ OddAnswer \/ Report
  BY <1>2 DEF RefuseCall, Succeed, LeaveOut, NotRunning, OddAnswer, Report, caller, Settled
<1>3. CASE FailCaught
  <2>1. flaw' \in BOOLEAN
    BY <1>3 DEF FailCaught
  <2> QED BY <1>3, <2>1 DEF FailCaught, caller, Settled
<1>4. CASE FailAttempt
  <2>1. /\ \/ attempt < MaxAttempts /\ attempt' = attempt + 1 /\ flaw' = FALSE
           \/ attempt' = attempt /\ flaw' = TRUE
        /\ deployment' = deployment /\ doubt' = doubt
    BY <1>4 DEF FailAttempt, caller
  <2>2. attempt \in 0 .. MaxAttempts /\ deployment' \in Deployments /\ doubt' \in BOOLEAN
    BY <2>1 DEF Settled
  <2>3. attempt' \in 0 .. MaxAttempts
    BY <1>0, <2>1, <2>2
  <2>4. flaw' \in BOOLEAN
    BY <2>1
  <2> QED BY <2>2, <2>3, <2>4 DEF Settled
<1>5. CASE TakeResult
  BY <1>0, <1>5 DEF TakeResult, Settled
<1>6. CASE UNCHANGED callVars
  BY <1>6 DEF callVars, Settled
<1> QED BY <1>1, <1>2, <1>3, <1>4, <1>5, <1>6 DEF CallsNext, Proceed

LEMMA EarnedTypes == EarnInv /\ Settled => CallsTypeOK
<1> SUFFICES ASSUME EarnInv, Settled PROVE CallsTypeOK
  OBVIOUS
<1>1. CallFacts /\ Opening /\ NothingLeftOpen
  BY DEF EarnInv, CallInv
<1>2. attempt \in Nat /\ open \in Nat /\ attempt <= MaxAttempts /\ MaxAttempts \in Nat
  BY <1>1, CallsAssumption DEF CallFacts, Settled
<1>3. open <= MaxAttempts
  <2>1. CASE tool = "none"
    BY <1>1, <1>2, <2>1 DEF CallFacts
  <2>2. CASE tool # "none" /\ told = "none"
    <3>1. attempt >= 1
      BY <1>1, <2>2 DEF CallFacts
    <3> QED BY <1>1, <1>2, <2>2, <3>1 DEF Opening
  <2>3. CASE told # "none"
    BY <1>1, <1>2, <2>3 DEF NothingLeftOpen
  <2> QED BY <2>1, <2>2, <2>3
<1>4. plan \in Seq(SUBSET Traits)
  BY <1>1 DEF CallFacts
<1>5. delivered \subseteq {"dingtalk", "slack", "email"}
  BY DEF EarnInv, ChannelNames
<1>6. /\ deployment \in Deployments /\ agent \in Agents
      /\ tool \in DOMAIN Catalogue \cup {"none"} /\ attempt \in 0 .. MaxAttempts
  BY <1>1 DEF CallFacts, Settled
<1>7. flaw \in BOOLEAN /\ doubt \in BOOLEAN /\ told \in {"none", "success", "failure"} /\ acted \in Nat
  BY <1>1 DEF CallFacts, Settled
<1>8. open \in 0 .. MaxAttempts
  BY <1>2, <1>3
<1> QED BY <1>4, <1>5, <1>6, <1>7, <1>8 DEF CallsTypeOK

LEMMA SettledInit == CallsInit => Settled
<1>1. 0 \in 0 .. MaxAttempts
  BY CallsAssumption
<1> QED BY <1>1 DEF CallsInit, Settled

------------------------------------------------------------------------------
(* What follows                                                             *)

\* A call keeps its types: with_retry never begins more attempts than the
\* settings allow, and no more connections are left than there were attempts.
THEOREM CallTypes == CallsSpec => []CallsTypeOK
  BY EarnInit, EarnNext, SettledInit, SettledNext, EarnedTypes, PTL DEF CallsSpec

\* Whatever MCP servers the settings name and whether tools are mocked: only the
\* recovery agent, whose middleware stops the call, has a tool that restarts.
THEOREM RestartsNeedConfirmation == CallsSpec => []RestartsAreConfirmed
<1>1. CallInv => RestartsAreConfirmed
  BY RestartsAreForRecovery
  DEF CallInv, CallFacts, RestartsAreConfirmed, Confirmed, NeedConfirmation, Restarting
<1> QED BY <1>1, AlwaysCallInv, PTL

\* However often a tool may be repeated and whatever fails: one call of it
\* restarts, or sends a direct message, at most once.
THEOREM CallsActOnce == CallsSpec => []ActsOnce
<1>1. CallInv => ActsOnce
  BY DEF CallInv, CallFacts, ActingOnce, ActsOnce
<1> QED BY <1>1, AlwaysCallInv, PTL

\* However a call ends it has closed what it opened, up to one connection for
\* each failed attempt of the tools without a finally.
THEOREM CallsClose == CallsSpec => []NothingLeftOpen
<1>1. CallInv => NothingLeftOpen
  BY DEF CallInv
<1> QED BY <1>1, AlwaysCallInv, PTL

\* Whatever fails, is left out or is repeated on the way: restart_service says
\* success only if its restart was run, a notification only if the channels it
\* names were called, and a tool of one request that acts only if it did, or if
\* the answer was neither an error nor the one it knows.
THEOREM SuccessesAreEarned == CallsSpec => []SuccessIsEarned
<1>1. EarnInv => SuccessIsEarned
  BY DEF EarnInv, Restarted, Notified, Answered, SuccessIsEarned
<1>2. CallsSpec => []EarnInv
  BY EarnInit, EarnNext, PTL DEF CallsSpec
<1> QED BY <1>1, <1>2, PTL

==============================================================================
