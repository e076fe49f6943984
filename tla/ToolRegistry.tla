----------------------------- MODULE ToolRegistry -----------------------------
(***************************************************************************)
(* tools/__init__.py and tools/mcp/__init__.py: which tools are registered *)
(* under which settings, in which groups, and what each agent is given of  *)
(* them. Operators only: the registry is filled once, when the first agent *)
(* module is imported. The groups "all" and "mcp", which no agent is given,*)
(* are left out.                                                           *)
(***************************************************************************)

\* A tool by its name, which the mock of a tool shares, and what it is.
Builtin ==
    [monitor |-> {"monitor_process", "monitor_redis", "monitor_mq", "monitor_database",
                  "analyze_logs"},
     recovery |-> {"restart_service", "store_knowledge"},
     notification |-> {"send_notification"}]

\* get_mcp_tools: the tools of each server that the settings name.
McpTools ==
    [prometheus |-> {"query_prometheus", "query_prometheus_range"},
     elasticsearch |-> {"search_logs", "aggregate_logs"},
     kubernetes |-> {"k8s_get_pods", "k8s_get_pod_logs", "k8s_restart_deployment",
                     "k8s_describe_resource"},
     dingtalk |-> {"dingtalk_send_text", "dingtalk_send_markdown"},
     postgres |-> {"pg_query", "pg_slow_queries", "pg_table_info"}]

Servers == DOMAIN McpTools
McpNames == UNION {McpTools[s] : s \in Servers}

\* As GroupByPrefix, but by the server alone.
GroupByServer(name) == IF name \in McpTools.dingtalk THEN "notification" ELSE "monitor"

\* The group of an MCP tool, by the prefix of its name; of those of Kubernetes
\* the one that restarts is for recovery.
GroupByPrefix(name) ==
    CASE name \in McpTools.dingtalk -> "notification"
      [] name = "k8s_restart_deployment" -> "recovery"
      [] OTHER -> "monitor"

\* What get_tool_registry registers. A failure to import any MCP module leaves
\* them all out.
Registered(servers) == UNION {McpTools[s] : s \in servers}
Group(group, servers) ==
    Builtin[group] \cup {name \in Registered(servers) : GroupByPrefix(name) = group}

\* Who is given what: the group of its name each, at import; the main agent and
\* the analysis agent have no tools that touch the world.
Agents == DOMAIN Builtin

\* human_confirm.py's DANGEROUS_TOOLS, as far as there are such tools; with
\* human_confirm_enabled, the default, the recovery agent alone has its
\* middleware.
NeedConfirmation == {"restart_service", "k8s_restart_deployment"}
Confirmed(agent, name) == agent = "recovery" /\ name \in NeedConfirmation

==============================================================================
