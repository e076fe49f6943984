------------------------------- MODULE RunState -------------------------------
(***************************************************************************)
(* middleware/audit_log.py and middleware/model_switch.py: what the main   *)
(* agent's middlewares remember of "the" run in attributes of their own,   *)
(* while several runs share the one instance that the agent was built      *)
(* with. `calls`, `alone` and `record` are history variables: the model    *)
(* calls a run has made, whether no other run was in progress since it     *)
(* began, and what its last audit record said.                             *)
(***************************************************************************)
EXTENDS Subsequences

CONSTANTS
    Jobs,         \* threads that run the main agent, one run after the other
    Faults,       \* fault ids
    Rules,        \* model_rules: [model, keyword, minCall], first match wins
    DefaultModel, \* the model the agent was built with
    Configurable, \* has runtime.config an attribute of that name? not if it is a dict
    MaxModelCalls \* bound on the model calls of one run

ASSUME RulesAssumption ==
    /\ Rules \in Seq([model : STRING, keyword : BOOLEAN, minCall : Nat])
    /\ MaxModelCalls \in Nat
    /\ Configurable \in BOOLEAN

Models == {DefaultModel} \cup {Rules[i].model : i \in DOMAIN Rules}
NoModel == "none"

VARIABLES
    faultId, modelCallCount,       \* AuditLogMiddleware's attributes
    callIndex, currentModelName,   \* ModelSwitchMiddleware's
    phase, fault, model,           \* of each run; model is its runtime.model
    wanted,                        \* the model its rules chose at its last call
    calls, alone, record

runVars == <<faultId, modelCallCount, callIndex, currentModelName,
             phase, fault, model, wanted, calls, alone, record>>

RunTypeOK ==
    /\ faultId \in Faults \cup {"UNKNOWN"}
    /\ modelCallCount \in Nat /\ callIndex \in Nat
    /\ currentModelName \in Models \cup {NoModel}
    /\ phase \in [Jobs -> {"out", "started", "ready", "audited", "calling"}]
    /\ fault \in [Jobs -> Faults]
    /\ model \in [Jobs -> Models] /\ wanted \in [Jobs -> Models \cup {NoModel}]
    /\ calls \in [Jobs -> 0 .. MaxModelCalls] /\ alone \in [Jobs -> BOOLEAN]
    /\ record \in [Jobs -> [fault : Faults \cup {"UNKNOWN"}, index : Nat]]

RunInit ==
    /\ faultId = "UNKNOWN" /\ modelCallCount = 0
    /\ callIndex = 0 /\ currentModelName = NoModel
    /\ phase = [j \in Jobs |-> "out"]
    /\ fault \in [Jobs -> Faults]
    /\ model = [j \in Jobs |-> DefaultModel]
    /\ wanted = [j \in Jobs |-> NoModel]
    /\ calls = [j \in Jobs |-> 0]
    /\ alone = [j \in Jobs |-> FALSE]
    /\ record = [j \in Jobs |-> [fault |-> "UNKNOWN", index |-> 0]]

\* The fault id that the hook finds for the run of thread j: the one it was
\* invoked with, or the id that the attribute already holds.
FaultFound(j) == IF Configurable THEN fault[j] ELSE faultId

audit == <<faultId, modelCallCount>>
switch == <<callIndex, currentModelName>>
Enter(j, label) == phase' = [phase EXCEPT ![j] = label]

\* _log: every record takes its fault id and its index from the attributes.
Log(j) == record' = [record EXCEPT ![j] = [fault |-> faultId', index |-> modelCallCount']]

------------------------------------------------------------------------------
(* The hooks, in the order the agent calls them                             *)

\* As AuditBeforeAgent, but the count goes on from the run before.
AuditBeforeAgentCounting(j) ==
    /\ phase[j] = "out"
    /\ Enter(j, "started")
    /\ faultId' = FaultFound(j) /\ UNCHANGED modelCallCount
    /\ Log(j)
    /\ alone' = [k \in Jobs |-> k = j /\ \A i \in Jobs \ {j} : phase[i] = "out"]
    /\ UNCHANGED <<switch, fault, model, wanted, calls>>

\* AuditLogMiddleware.before_agent.
AuditBeforeAgent(j) ==
    /\ phase[j] = "out"
    /\ Enter(j, "started")
    /\ faultId' = FaultFound(j) /\ modelCallCount' = 0
    /\ Log(j)
    /\ alone' = [k \in Jobs |-> k = j /\ \A i \in Jobs \ {j} : phase[i] = "out"]
    /\ UNCHANGED <<switch, fault, model, wanted, calls>>

\* As SwitchBeforeAgent, but the name of the last run's model is kept.
SwitchBeforeAgentKeeping(j) ==
    /\ phase[j] = "started"
    /\ Enter(j, "ready")
    /\ callIndex' = 0 /\ UNCHANGED currentModelName
    /\ UNCHANGED <<audit, fault, model, wanted, calls, alone, record>>

\* ModelSwitchMiddleware.before_agent.
SwitchBeforeAgent(j) ==
    /\ phase[j] = "started"
    /\ Enter(j, "ready")
    /\ callIndex' = 0 /\ currentModelName' = NoModel
    /\ UNCHANGED <<audit, fault, model, wanted, calls, alone, record>>

\* AuditLogMiddleware.before_model: model_start.
AuditBeforeModel(j) ==
    /\ phase[j] = "ready" /\ calls[j] < MaxModelCalls
    /\ Enter(j, "audited")
    /\ modelCallCount' = modelCallCount + 1
    /\ calls' = [calls EXCEPT ![j] = @ + 1]
    /\ UNCHANGED faultId
    /\ Log(j)
    /\ UNCHANGED <<switch, fault, model, wanted, alone>>

\* _match_rule: the first rule that holds, by what the last message says and
\* by the number of this call; "none" leaves the model as it is.
MatchRule(said, index) ==
    LET holds(r) == (r.keyword => said) /\ index >= r.minCall
        matching == Pick(Rules, {i \in DOMAIN Rules : holds(Rules[i])})
    IN  IF matching = << >> THEN NoModel ELSE Head(matching).model

\* ModelSwitchMiddleware.before_model, all of it under its lock. It skips a
\* switch to the model it switched to last, whichever run that was for.
SwitchBeforeModel(j) ==
    /\ phase[j] = "audited"
    /\ Enter(j, "calling")
    /\ callIndex' = callIndex + 1
    /\ \E said \in BOOLEAN :
        LET target == MatchRule(said, callIndex')
        IN  /\ wanted' = [wanted EXCEPT ![j] = target]
            /\ IF target \in {NoModel, currentModelName}
               THEN UNCHANGED <<model, currentModelName>>
               ELSE /\ model' = [model EXCEPT ![j] = target]
                    /\ currentModelName' = target
    /\ UNCHANGED <<audit, fault, calls, alone, record>>

\* The model answers: model_end; then a tool, which is recorded likewise, and
\* another round.
AfterModel(j) ==
    /\ phase[j] = "calling"
    /\ Enter(j, "ready")
    /\ UNCHANGED audit
    /\ Log(j)
    /\ UNCHANGED <<switch, fault, model, wanted, calls, alone>>

\* after_agent, whose agent_end record reads the attributes once more; or the
\* run raises, anywhere. The thread's next run, of another fault, starts from
\* the agent's own model.
AfterAgent(j) ==
    /\ phase[j] # "out"
    /\ Enter(j, "out")
    /\ \E f \in Faults : fault' = [fault EXCEPT ![j] = f]
    /\ model' = [model EXCEPT ![j] = DefaultModel]
    /\ wanted' = [wanted EXCEPT ![j] = NoModel]
    /\ calls' = [calls EXCEPT ![j] = 0]
    /\ UNCHANGED <<audit, switch, alone, record>>

RunNext ==
    \E j \in Jobs :
        \/ AuditBeforeAgent(j) \/ SwitchBeforeAgent(j)
        \/ AuditBeforeModel(j) \/ SwitchBeforeModel(j)
        \/ AfterModel(j) \/ AfterAgent(j)

RunSpec == RunInit /\ [][RunNext]_runVars

------------------------------------------------------------------------------
(* Properties                                                               *)

\* A run that no other run overlapped is recorded with the number of its own
\* model call, and with its own fault if the hook can read it, whatever runs
\* left in the attributes before it. If the hook cannot, as with the dict that
\* the agent is invoked with, the record names no fault, and never another's.
LoneRunAudited ==
    \A j \in Jobs : phase[j] # "out" /\ alone[j] =>
        record[j] = [fault |-> IF Configurable THEN fault[j] ELSE "UNKNOWN", index |-> calls[j]]

\* A run that no other run overlapped calls the model that its rules chose,
\* at the call where they choose it: the name remembered of an earlier run
\* never makes the switch be skipped.
LoneRunModel ==
    \A j \in Jobs : phase[j] = "calling" /\ alone[j] =>
        /\ wanted[j] # NoModel => model[j] = wanted[j]
        /\ \E said \in BOOLEAN : wanted[j] = MatchRule(said, calls[j])

==============================================================================
