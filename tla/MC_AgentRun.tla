------------------------------ MODULE MC_AgentRun ------------------------------
(***************************************************************************)
(* The middlewares of the main agent and the tools below it, for TLC. The  *)
(* five components share no state, so their product would show no more     *)
(* than each of them alone: a behaviour is one of `part`, chosen at the    *)
(* start, while the others stay where they begin.                          *)
(***************************************************************************)
EXTENDS RateLimit, ToolInputFix, RunState, MessageWindow, ToolCalls, TLC

VARIABLE part    \* the component that moves

\* One tool call in two takes from the bucket of all tools and its own.
MCLimits == [k \in Kinds |-> <<"all", "one">>]
MCRpm == "all" :> 2 @@ "one" :> 1

\* A number, and a list of strings, of which _get_field_type finds "str".
MCSchema ==
    [number |-> [type |-> "int", target |-> "int", required |-> TRUE, nullable |-> TRUE],
     tags |-> [type |-> "list", target |-> "str", required |-> FALSE, nullable |-> FALSE]]
Of(type, reads) == [type |-> type, reads |-> reads]
Six == Of("str", {"int", "float"})
Given(fields) == [shape |-> "dict", fields |-> fields]
MCInputs ==
    {Given([number |-> Six]), Given([number |-> Of("int", {}), other |-> Six]),
     Given([number |-> Of("null", {})]), Given([tags |-> Of("null", {})]),
     Given([number |-> Of("bool", {}), tags |-> Of("list", {})]),
     Given([number |-> Of("int", {}), tags |-> Six]),
     [shape |-> "text", fields |-> [number |-> Six]],
     [shape |-> "text", fields |-> [number |-> Of("int", {})]],
     [shape |-> "other", fields |-> NoArgs]}

MCRules ==
    <<[model |-> "small", keyword |-> TRUE, minCall |-> 0],
      [model |-> "large", keyword |-> FALSE, minCall |-> 2]>>

\* Answers that only call tools, and results that are long.
MCContent == [n \in 1 .. MaxSaid |-> CASE n \in {2, 5, 9} -> "none" [] n \in {3, 10} -> "long" [] OTHER -> "short"]

MCDeployments ==
    {[mock |-> FALSE, servers |-> Servers], [mock |-> TRUE, servers |-> {"kubernetes"}]}
MCChannelLists ==
    {<< >>, <<"unknown">>, <<"slack">>, <<"dingtalk", "email">>, <<"slack", "slack">>}

AgentRunTypeOK == RateTypeOK /\ FixTypeOK /\ RunTypeOK /\ WindowTypeOK /\ CallsTypeOK

MCInit ==
    /\ part \in {"rate", "fix", "runs", "window", "calls"}
    /\ RateInit /\ (part # "rate" => strategy = "wait" /\ watched = "all")
    /\ FixInit
    /\ RunInit /\ (part # "runs" => fault = [j \in Jobs |-> CHOOSE f \in Faults : TRUE])
    /\ WindowInit /\ (part # "window" => kindOfWindow = "summary" /\ stateKind = "object")
    /\ CallsInit /\ (part # "calls" => deployment.mock /\ agent = "monitor")

RateStep == part = "rate" /\ RateNext /\ UNCHANGED <<part, fixVars, runVars, windowVars, callVars>>
FixStep == part = "fix" /\ FixNext /\ UNCHANGED <<part, rateVars, runVars, windowVars, callVars>>
RunStep == part = "runs" /\ RunNext /\ UNCHANGED <<part, rateVars, fixVars, windowVars, callVars>>
WindowStep == part = "window" /\ WindowNext /\ UNCHANGED <<part, rateVars, fixVars, runVars, callVars>>
ToolStep == part = "calls" /\ CallsNext /\ UNCHANGED <<part, rateVars, fixVars, runVars, windowVars>>

MCNext == RateStep \/ FixStep \/ RunStep \/ WindowStep \/ ToolStep

\* RateFairness, while it is the rate limits that move.
MCFairness ==
    /\ WF_rateVars(part = "rate" /\ RateTick)
    /\ \A c \in Callers : WF_rateVars(part = "rate" /\ CallStep(c))

MCSpec ==
    MCInit /\ [][MCNext]_<<part, rateVars, fixVars, runVars, windowVars, callVars>> /\ MCFairness

==============================================================================
