----------------------------- MODULE FaultPlanner -----------------------------
(***************************************************************************)
(* planner/fault_planner.py: what becomes of a model provider's answer to  *)
(* the question which service and which kind of alert a description is     *)
(* about. Operators only; the API server calls create_plan.                *)
(*                                                                         *)
(* An answer is what the provider's text amounts to: no answer, no JSON,   *)
(* or the first {...} in it that has no braces inside, whose three values  *)
(* are reduced to "absent", "null" (null, or anything that is no string),  *)
(* or a string: a name, "unknown", or one that means nothing here.         *)
(***************************************************************************)
EXTENDS Integers, FiniteSets

CONSTANT ServiceFiles     \* service_node/*.md: for each name, what its file holds

\* A file cannot be read or can; a redis or database address in it has a port,
\* none, or one that is no number.
Ports == {"none", "number", "junk"}
File == [readable : BOOLEAN, redis : Ports, database : Ports]

ASSUME PlannerAssumption ==
    ServiceFiles \in [DOMAIN ServiceFiles -> File]

NoNode == [service |-> "none"]

\* _parse_service_node_file: int() of a port that is no number gives the whole
\* file up.
ParseFile(name) ==
    LET file == ServiceFiles[name]
    IN  IF file.readable /\ "junk" \notin {file.redis, file.database}
        THEN [service |-> name] ELSE NoNode

\* _service_nodes_cache, filled once
ServiceNodes == {name \in DOMAIN ServiceFiles : ParseFile(name) # NoNode}

Strings == {"unknown", "nonsense"} \cup DOMAIN ServiceFiles
Fields == {"absent", "null"} \cup Strings
Answer == [shape : {"failed", "text", "json"}, service : Fields,
           alert : {"absent", "null", "unknown", "nonsense", "redis"},
           query : {"absent", "null", "words"}]

Description == "words"
Defaults == [service |-> "unknown", alert |-> "unknown", query |-> Description]

\* As Infer, but without an answer there are no values.
InferNothing(answer) ==
    IF answer.shape = "json"
    THEN [service |-> answer.service, alert |-> answer.alert, query |-> answer.query]
    ELSE [service |-> "null", alert |-> "null", query |-> "null"]

\* _llm_infer: anything but JSON, and any exception on the way, gives the
\* defaults; JSON is taken as it is.
Infer(answer) ==
    IF answer.shape = "json"
    THEN [service |-> answer.service, alert |-> answer.alert, query |-> answer.query]
    ELSE Defaults

\* infer_result.get: only a key that is missing gets its default.
Get(inferred, key) == IF inferred[key] = "absent" THEN Defaults[key] ELSE inferred[key]

\* _parse_alert_type and get_service_node call lower() on what they are given.
Raises(answer) == "null" \in {Get(Infer(answer), "alert"), Get(Infer(answer), "service")}

ParseAlertType(alert) == IF alert = "redis" THEN alert ELSE "unknown"
GetServiceNode(service) == IF service \in ServiceNodes THEN [service |-> service] ELSE NoNode

\* create_plan, where it does not raise
CreatePlan(answer) ==
    LET inferred == Infer(answer)
    IN  [service |-> Get(inferred, "service"),
         alert |-> ParseAlertType(Get(inferred, "alert")),
         query |-> Get(inferred, "query"),
         node |-> GetServiceNode(Get(inferred, "service"))]

==============================================================================
