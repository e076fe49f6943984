------------------------------- MODULE ToolCalls -------------------------------
(***************************************************************************)
(* tools/*.py and tools/mcp/*.py: one call of one tool by one of the       *)
(* agents that are given it, which shares nothing with other calls. Each   *)
(* tool is a plan: the operations on the outside world that it makes, in   *)
(* order, and what becomes of a failure. What the tools compute from the   *)
(* answers is left out.                                                    *)
(*                                                                         *)
(* An operation is the set of its traits:                                  *)
(*   opens     it opens the connection that the tool works on              *)
(*   soft      its failure is caught, and the tool goes on                 *)
(*   noted     its failure is caught, and the result is a failure          *)
(*   optional  it is left out, by the arguments or by an earlier answer    *)
(*   final     its answer may be all that there is to report               *)
(*   acts      it changes the world: a restart, a message                  *)
(*   request   an HTTP request through mcp_request                         *)
(*   verdict   it asks whether the service runs, and either answer will do *)
(*   channel   one channel of a notification, named by another element     *)
(***************************************************************************)
EXTENDS ToolRegistry, Integers, Sequences, FiniteSets

CONSTANTS
    Deployments,     \* settings: mock tools or real ones, which MCP servers
    MaxAttempts,     \* settings.tool_max_retries
    ChannelLists     \* the channels a notification may be sent to, in order

Traits ==
    {"opens", "soft", "noted", "optional", "final", "acts", "request", "verdict", "channel",
     "dingtalk", "slack", "email", "unknown"}

ASSUME CallsAssumption ==
    /\ Deployments \subseteq [mock : BOOLEAN, servers : SUBSET Servers]
    /\ MaxAttempts \in Nat \ {0}
    /\ ChannelLists \subseteq Seq({"dingtalk", "slack", "email", "unknown"})

VARIABLES
    deployment,      \* the settings of this process
    agent,           \* the agent that calls
    tool,            \* the tool it calls, "none" between calls
    attempt,         \* with_retry's attempt
    plan,            \* the operations still to do
    open,            \* connections that the call has opened and not closed
    delivered,       \* channels whose last result is a success
    flaw,            \* did an operation of this attempt fail that counts?
    doubt,           \* did an answer that counts as good not bear the success out?
    told,            \* the result's `success`, "none" before there is one
    acted            \* how often the call has changed the world

callVars == <<deployment, agent, tool, attempt, plan, open, delivered, flaw, doubt, told, acted>>
caller == <<deployment, agent, tool>>

------------------------------------------------------------------------------
(* The tools: which failures with_retry repeats and which happen, whether   *)
(* a failed attempt leaves its connection open, and the plan.               *)

Ssh(operations) == [retries |-> {"connection"}, fails |-> {"connection", "other"},
               leaks |-> FALSE, plan |-> operations]

\* The process list; its CPU and memory if there are processes; the system.
MonitorProcess == Ssh(<<{"opens"}, {}, {"optional"}, {}>>)

\* The tail of the file, which may be empty; its date and its size.
AnalyzeLogs == Ssh(<<{"opens"}, {"final"}, {}, {}>>)

\* As RestartService, but repeated like the other tools that use ssh.
RestartServiceRetried == Ssh(<<{"opens"}, {"optional"}, {"optional"}, {"acts"}, {"verdict"}>>)

\* No attempt is repeated. The pre-check; the probes for the command, if none
\* is given; the restart, of which an exit status other than 0 is a failure;
\* the check after it, whose answer is put into the result unread.
RestartService ==
    [Ssh(<<{"opens"}, {"optional"}, {"optional"}, {"acts"}, {"verdict"}>>)
        EXCEPT !.retries = {}]

\* redis raises its own classes, which are not the built-in ones of the
\* retry. ping, info, slowlog_get, dbsize, scan_iter, close.
MonitorRedis ==
    [retries |-> {"connection"}, fails |-> {"library"}, leaks |-> TRUE,
     plan |-> <<{"opens"}, {}, {"soft"}, {"optional"}, {"optional", "soft"}, {}>>]

\* Version, connections, their limit; slow queries, locks and status are tried.
MonitorDatabase ==
    [retries |-> {"connection", "other"}, fails |-> {"connection", "other"},
     leaks |-> TRUE,
     plan |-> <<{"opens"}, {}, {}, {}, {"soft"}, {"soft"}, {"soft"}>>]

\* Overview, queues, connections; a bad status of the last is not a failure.
MonitorMq ==
    [retries |-> {"connection"}, fails |-> {"connection", "other"},
     leaks |-> FALSE, plan |-> <<{"opens"}, {}, {}, {}>>]

\* A tool of one HTTP request, never repeated.
Request(traits) ==
    [retries |-> {}, fails |-> {"connection", "other"}, leaks |-> FALSE,
     plan |-> <<{"request"} \cup traits>>]

QueryPrometheus == Request({})
QueryPrometheusRange == Request({})
SearchLogs == Request({})
AggregateLogs == Request({})
GetPods == Request({})
GetPodLogs == Request({})
DescribeResource == Request({})
RestartDeployment == Request({"acts"})
SendText == Request({"acts"})
SendMarkdown == Request({"acts"})

\* _execute_query closes its connection whatever happens, and answers with
\* the error; pg_table_info makes three, and looks at their errors at the end.
Postgres(queries) ==
    [retries |-> {}, fails |-> {"other"}, leaks |-> FALSE,
     plan |-> [i \in 1 .. queries |-> {"noted"}]]

PgQuery == Postgres(1)
PgSlowQueries == Postgres(1)
PgTableInfo == Postgres(3)

\* store_knowledge, to whose two stores LongTerm is devoted.
StoreKnowledge ==
    [retries |-> {}, fails |-> {"other"}, leaks |-> FALSE, plan |-> <<{}, {}>>]

\* One operation per channel; a name that is none of the three does nothing.
SendNotification(channels) ==
    [retries |-> {}, fails |-> {"other"}, leaks |-> FALSE,
     plan |-> [i \in DOMAIN channels |->
                  IF channels[i] = "unknown" THEN {"channel", "unknown"}
                  ELSE {"channel", channels[i], "noted", "acts"}]]

Catalogue ==
    [monitor_process |-> MonitorProcess, analyze_logs |-> AnalyzeLogs,
     send_notification |-> SendNotification(<< >>), store_knowledge |-> StoreKnowledge,
     restart_service |-> RestartService, monitor_redis |-> MonitorRedis,
     monitor_database |-> MonitorDatabase, monitor_mq |-> MonitorMq,
     query_prometheus |-> QueryPrometheus, query_prometheus_range |-> QueryPrometheusRange,
     search_logs |-> SearchLogs, aggregate_logs |-> AggregateLogs,
     k8s_get_pods |-> GetPods, k8s_get_pod_logs |-> GetPodLogs,
     k8s_describe_resource |-> DescribeResource, k8s_restart_deployment |-> RestartDeployment,
     dingtalk_send_text |-> SendText, dingtalk_send_markdown |-> SendMarkdown,
     pg_query |-> PgQuery, pg_slow_queries |-> PgSlowQueries, pg_table_info |-> PgTableInfo]

\* The mock of a tool makes up an answer, and touches nothing.
Mock == [retries |-> {}, fails |-> {}, leaks |-> FALSE, plan |-> << >>]
MockMonitorProcess == Mock
MockMonitorRedis == Mock
MockMonitorMq == Mock
MockMonitorDatabase == Mock
MockAnalyzeLogs == Mock
MockRestartService == Mock
MockSendNotification == Mock
MockStoreKnowledge == Mock

MockCatalogue ==
    [monitor_process |-> MockMonitorProcess, monitor_redis |-> MockMonitorRedis,
     monitor_mq |-> MockMonitorMq, monitor_database |-> MockMonitorDatabase,
     analyze_logs |-> MockAnalyzeLogs, restart_service |-> MockRestartService,
     send_notification |-> MockSendNotification, store_knowledge |-> MockStoreKnowledge]

\* The MCP tools are the real ones beside mocks, too.
Mocked(t) == deployment.mock /\ t \in DOMAIN MockCatalogue
Outline(t) == IF Mocked(t) THEN MockCatalogue[t] ELSE Catalogue[t]

\* Tools that may turn a call down before they touch anything: a host on the
\* blacklist, a statement that writes, a kind of resource unknown.
Refusing == {"restart_service", "pg_query", "k8s_describe_resource"}

------------------------------------------------------------------------------
(* A call                                                                   *)

CallsTypeOK ==
    /\ deployment \in Deployments /\ agent \in Agents
    /\ tool \in DOMAIN Catalogue \cup {"none"}
    /\ attempt \in 0 .. MaxAttempts
    /\ plan \in Seq(SUBSET Traits)
    /\ open \in 0 .. MaxAttempts
    /\ delivered \subseteq {"dingtalk", "slack", "email"}
    /\ flaw \in BOOLEAN /\ doubt \in BOOLEAN
    /\ told \in {"none", "success", "failure"}
    /\ acted \in Nat

CallsInit ==
    /\ deployment \in Deployments /\ agent \in Agents
    /\ tool = "none" /\ attempt = 0 /\ plan = << >> /\ open = 0
    /\ delivered = {} /\ flaw = FALSE /\ doubt = FALSE /\ told = "none" /\ acted = 0

Running == tool # "none" /\ told = "none"

\* format_tool_result
Tell(success) == told' = IF success THEN "success" ELSE "failure"

CallTool(t) ==
    /\ tool = "none"
    /\ \E a \in Agents : t \in Group(a, deployment.servers) /\ agent' = a
    /\ tool' = t /\ attempt' = 1
    /\ IF t = "send_notification" /\ ~ Mocked(t)
       THEN \E channels \in ChannelLists : plan' = SendNotification(channels).plan
       ELSE plan' = Outline(t).plan
    /\ UNCHANGED <<deployment, open, delivered, flaw, doubt, told, acted>>

RefuseCall ==
    /\ Running /\ tool \in Refusing /\ ~ Mocked(tool)
    /\ attempt = 1 /\ plan = Outline(tool).plan
    /\ Tell(FALSE)
    /\ flaw' = TRUE
    /\ UNCHANGED <<caller, attempt, plan, open, delivered, doubt, acted>>

Channel(operation) == operation \cap {"dingtalk", "slack", "email"}

\* The operation answers well.
Succeed ==
    /\ Running /\ plan # << >>
    /\ LET operation == Head(plan)
       IN  /\ open' = IF "opens" \in operation THEN open + 1 ELSE open
           /\ acted' = IF "acts" \in operation THEN acted + 1 ELSE acted
           /\ delivered' = delivered \cup Channel(operation)
           /\ plan' \in IF "final" \in operation THEN {Tail(plan), << >>} ELSE {Tail(plan)}
    /\ UNCHANGED <<caller, attempt, flaw, doubt, told>>

LeaveOut ==
    /\ Running /\ plan # << >>
    /\ "optional" \in Head(plan)
    /\ plan' = Tail(plan)
    /\ UNCHANGED <<caller, attempt, open, delivered, flaw, doubt, told, acted>>

\* What an operation changed before it failed: the answer may be all that
\* was lost, and a restart may have happened that exits with an error.
ActedAnyway == acted' \in IF "acts" \in Head(plan) THEN {acted, acted + 1} ELSE {acted}

FailCaught ==
    /\ Running /\ plan # << >>
    /\ {"soft", "noted"} \cap Head(plan) # {}
    /\ plan' = Tail(plan)
    /\ flaw' = (flaw \/ "noted" \in Head(plan))
    /\ delivered' = delivered \ Channel(Head(plan))
    /\ ActedAnyway
    /\ UNCHANGED <<caller, attempt, open, doubt, told>>

\* As FailAttempt, but without the finally.
FailAttemptLeaking ==
    /\ Running /\ plan # << >>
    /\ {"soft", "noted", "channel"} \cap Head(plan) = {}
    /\ UNCHANGED open
    /\ ActedAnyway
    /\ \E kind \in Outline(tool).fails :
        IF kind \in Outline(tool).retries /\ attempt < MaxAttempts
        THEN /\ attempt' = attempt + 1
             /\ plan' = Outline(tool).plan
             /\ flaw' = FALSE /\ UNCHANGED told
        ELSE Tell(FALSE) /\ flaw' = TRUE /\ UNCHANGED <<attempt, plan>>
    /\ UNCHANGED <<caller, delivered, doubt>>

\* As FailAttempt, but with one attempt more.
FailAttemptOnceMore ==
    /\ Running /\ plan # << >>
    /\ {"soft", "noted", "channel"} \cap Head(plan) = {}
    /\ open' = IF Outline(tool).leaks THEN open ELSE 0
    /\ ActedAnyway
    /\ \E kind \in Outline(tool).fails :
        IF kind \in Outline(tool).retries /\ attempt <= MaxAttempts
        THEN /\ attempt' = attempt + 1
             /\ plan' = Outline(tool).plan
             /\ flaw' = FALSE /\ UNCHANGED told
        ELSE Tell(FALSE) /\ flaw' = TRUE /\ UNCHANGED <<attempt, plan>>
    /\ UNCHANGED <<caller, delivered, doubt>>

\* A failure that ends the attempt: finally and with close what is open, where
\* there are any; with_retry begins another attempt, or the tool reports it.
FailAttempt ==
    /\ Running /\ plan # << >>
    /\ {"soft", "noted", "channel"} \cap Head(plan) = {}
    /\ open' = IF Outline(tool).leaks THEN open ELSE 0
    /\ ActedAnyway
    /\ \E kind \in Outline(tool).fails :
        IF kind \in Outline(tool).retries /\ attempt < MaxAttempts
        THEN /\ attempt' = attempt + 1
             /\ plan' = Outline(tool).plan
             /\ flaw' = FALSE /\ UNCHANGED told
        ELSE Tell(FALSE) /\ flaw' = TRUE /\ UNCHANGED <<attempt, plan>>
    /\ UNCHANGED <<caller, delivered, doubt>>

\* The check after the restart finds no such process, or the command given for
\* it prints that all is not well: it goes into the result, which is a success.
NotRunning ==
    /\ Running /\ plan # << >> /\ "verdict" \in Head(plan)
    /\ plan' = Tail(plan)
    /\ doubt' = TRUE
    /\ UNCHANGED <<caller, attempt, open, delivered, flaw, told, acted>>

\* mcp_request and format_mcp_result: text instead of JSON, or JSON of another
\* shape without an "error", is a success, whatever it says.
OddAnswer ==
    /\ Running /\ plan # << >> /\ "request" \in Head(plan)
    /\ plan' = << >>
    /\ ActedAnyway
    /\ doubt' = TRUE
    /\ UNCHANGED <<caller, attempt, open, delivered, flaw, told>>

\* As Report, but a notification succeeds when all channels have been tried.
ReportTried ==
    /\ Running /\ plan = << >>
    /\ open' = IF open > 0 THEN open - 1 ELSE 0
    /\ Tell(tool = "send_notification" \/ ~ flaw)
    /\ UNCHANGED <<caller, attempt, plan, delivered, flaw, doubt, acted>>

\* The plan is done: the connection is closed and the result is told. A
\* notification succeeds if any channel has taken it.
Report ==
    /\ Running /\ plan = << >>
    /\ open' = IF open > 0 THEN open - 1 ELSE 0
    /\ Tell(IF tool = "send_notification" /\ ~ Mocked(tool) THEN delivered # {} ELSE ~ flaw)
    /\ UNCHANGED <<caller, attempt, plan, delivered, flaw, doubt, acted>>

\* The result goes back to the agent.
TakeResult ==
    /\ told # "none"
    /\ tool' = "none" /\ attempt' = 0 /\ plan' = << >> /\ open' = 0
    /\ delivered' = {} /\ flaw' = FALSE /\ doubt' = FALSE /\ told' = "none" /\ acted' = 0
    /\ UNCHANGED <<deployment, agent>>

Proceed ==
    RefuseCall \/ Succeed \/ LeaveOut \/ FailCaught \/ FailAttempt
        \/ NotRunning \/ OddAnswer \/ Report

CallsNext == (\E t \in DOMAIN Catalogue : CallTool(t)) \/ Proceed \/ TakeResult

CallsSpec == CallsInit /\ [][CallsNext]_callVars

------------------------------------------------------------------------------
(* Properties                                                               *)

\* A restart, of a service or of a deployment, is made by the recovery agent
\* alone and by a tool that its middleware stops for confirmation, whatever the
\* settings have registered: no other agent has a tool that does it.
RestartsAreConfirmed ==
    acted > 0 /\ tool \in {"restart_service", "k8s_restart_deployment"} => Confirmed(agent, tool)

\* One confirmed call restarts a service, or a deployment, at most once, and
\* a direct message is sent at most once: failures of the operations before
\* it, of its own answer or of the check after it never have it repeated.
ActsOnce == tool # "send_notification" => acted <= 1

\* The tools that act by one HTTP request.
Direct == {"k8s_restart_deployment", "dingtalk_send_text", "dingtalk_send_markdown"}

\* A result that says success says at least that what was asked for was done:
\* the restart command was run, once; each channel that is named as having
\* taken the notification was called, and there is one. A deployment's restart
\* or a direct message may be told as a success though nothing was done, but
\* only for an answer that is neither an error nor the one that the tool knows.
\* That the service runs after its restart, no success says: see NotRunning.
SuccessIsEarned ==
    told = "success" /\ ~ Mocked(tool) =>
        /\ tool = "restart_service" => acted = 1
        /\ tool = "send_notification" => delivered # {} /\ acted >= Cardinality(delivered)
        /\ tool \in Direct => acted = 1 \/ doubt

\* However a call ends, it has closed what it opened; but each failed attempt
\* at redis or the database may leave one connection to the garbage collector.
NothingLeftOpen ==
    told # "none" =>
        open <= IF ~ Outline(tool).leaks THEN 0
                ELSE IF told = "success" THEN attempt - 1 ELSE attempt

==============================================================================
