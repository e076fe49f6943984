------------------------------- MODULE MC_Service -------------------------------
(***************************************************************************)
(* The API server with the planner, and the knowledge base beside it, for  *)
(* TLC. They share no state: a behaviour is one of `part`, chosen at the   *)
(* start, while the other stays where it begins.                           *)
(***************************************************************************)
EXTENDS ApiServer, LongTerm, TLC

VARIABLE part    \* the component that moves

\* One service is known; the file of the other has a port that is no number.
MCServiceFiles ==
    "orders" :> [readable |-> TRUE, redis |-> "none", database |-> "number"]
    @@ "stock" :> [readable |-> TRUE, redis |-> "junk", database |-> "none"]

\* The provider fails, or answers with JSON: a service, or a null.
Json == [NoAnswer EXCEPT !.shape = "json"]
MCAnswers ==
    {NoAnswer, [Json EXCEPT !.service = "orders"], [Json EXCEPT !.service = "null"]}

\* A manual, and what the agent has learned, more relevant than it.
MCCategories == <<"general", "history">>
MCCategoryOf == [d \in Documents |-> "history"]
MCScore == [d \in Documents |-> IF d \in Manuals THEN 7 ELSE 8]

ServiceTypeOK == ServerTypeOK /\ LongTermTypeOK

MCInit ==
    /\ part \in {"server", "knowledge"}
    /\ LongTermInit
    /\ ServerInit
    /\ part # "server" => command = "serve" /\ faultOf = [r \in Requests |-> CHOOSE i \in FaultIds : TRUE]

ServerStep == part = "server" /\ ServerNext /\ UNCHANGED <<part, knowledgeVars>>
KnowledgeStep == part = "knowledge" /\ LongTermNext /\ UNCHANGED <<part, serverVars>>

MCNext == ServerStep \/ KnowledgeStep

\* ServerFairness, while it is the server that moves.
MCFairness ==
    /\ WF_serverVars(part = "server" /\ Shutdown)
    /\ WF_serverVars(part = "server" /\ Exit)
    /\ \A r \in Requests : WF_serverVars(part = "server" /\ Work(r))

MCSpec == MCInit /\ [][MCNext]_<<part, serverVars, knowledgeVars>> /\ MCFairness

==============================================================================
