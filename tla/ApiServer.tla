------------------------------- MODULE ApiServer -------------------------------
(***************************************************************************)
(* api/server.py, and the handle command of main.py: the requests that     *)
(* start a run, the two stores, and the life of the process. Endpoints are *)
(* coroutines of one event loop, so a run in synchronous mode occupies the *)
(* loop until it ends; a run in asynchronous mode is a background task in  *)
(* a thread of its own. What a run does is the business of other modules:  *)
(* here it plans, which may raise, and comes to an end.                    *)
(*                                                                         *)
(* A store is the sequence of its entries, the one stored first in front;  *)
(* an entry's age is now - its timestamp, up to one more than its TTL.     *)
(* `dropped` is a history variable, the fault ids whose result was removed *)
(* by a cleanup.                                                           *)
(***************************************************************************)
EXTENDS FaultPlanner, Subsequences

CONSTANTS
    Requests,        \* requests that start a run
    Answers,         \* what the model provider may answer to a planning
    FaultIds,        \* fault ids, given by the client or made from the time
    Operations,      \* operation ids that decisions are submitted for
    ResultTtl, ResultMax,      \* _RESULT_TTL, _RESULT_MAX_SIZE
    ConfirmTtl, ConfirmMax     \* _CONFIRM_TTL, _CONFIRM_MAX_SIZE

ASSUME ServerAssumption ==
    /\ Answers \subseteq Answer
    /\ {ResultTtl, ResultMax, ConfirmTtl, ConfirmMax} \subseteq Nat \ {0}

VARIABLES
    command,         \* "serve" or "handle"
    life,            \* where the process is in its life
    agent,           \* is there a FaultAgent, in _fault_agent or in cmd_handle?
    held,            \* does lifespan hold it?
    cleaner,         \* the agent's periodic cleanup thread, which is not a daemon
    loop,            \* the request whose run occupies the event loop, or "free"
    state,           \* how far each request's run is
    faultOf,         \* the fault id of each request
    answered,        \* the model provider's answer to its planning
    planned,         \* the plan made of it
    stampAge,        \* age of the _stored_at it has put on its result
    results,         \* _task_results
    confirms,        \* _pending_confirms
    dropped

process == <<command, life, agent, held, cleaner>>
runState == <<loop, state, faultOf, answered, planned, stampAge>>
stores == <<results, confirms, dropped>>
serverVars == <<process, runState, stores>>

Entry(Ids, Ttl) == [id : Ids, age : 0 .. Ttl + 1]
NoPlan == [service |-> "none"]
NoAnswer == [shape |-> "failed", service |-> "absent", alert |-> "absent", query |-> "absent"]

ServerTypeOK ==
    /\ command \in {"serve", "handle"}
    /\ life \in {"starting", "serving", "stopping", "closing", "exited"}
    /\ agent \in BOOLEAN /\ held \in BOOLEAN
    /\ cleaner \in {"none", "running", "ended"}
    /\ loop \in Requests \cup {"free"}
    /\ state \in [Requests -> {"none", "queued", "planned", "stamped", "stored", "answered", "lost"}]
    /\ faultOf \in [Requests -> FaultIds]
    /\ answered \in [Requests -> Answers \cup {NoAnswer}]
    /\ \A r \in Requests : planned[r] # NoPlan =>
          planned[r].node.service \in {planned[r].service, "none"}
    /\ stampAge \in [Requests -> 0 .. ResultTtl]
    /\ results \in Seq(Entry(FaultIds, ResultTtl))
    /\ confirms \in Seq(Entry(Operations, ConfirmTtl))
    /\ dropped \subseteq FaultIds

ServerInit ==
    /\ command \in {"serve", "handle"}
    /\ life = "starting" /\ agent = FALSE /\ held = FALSE /\ cleaner = "none"
    /\ loop = "free"
    /\ state = [r \in Requests |-> "none"]
    /\ faultOf \in [Requests -> FaultIds]
    /\ answered = [r \in Requests |-> NoAnswer]
    /\ planned = [r \in Requests |-> NoPlan]
    /\ stampAge = [r \in Requests |-> 0]
    /\ results = << >> /\ confirms = << >> /\ dropped = {}

------------------------------------------------------------------------------
(* The stores                                                               *)

\* As Newest, but from the wrong end.
OldestOnes(entries, max) ==
    IF Len(entries) > max THEN SubSeq(entries, 1, max) ELSE entries

Newest(entries, max) ==
    IF Len(entries) > max THEN SubSeq(entries, Len(entries) - max + 1, Len(entries)) ELSE entries

\* _cleanup_task_results and _cleanup_pending_confirms: what is too old, then
\* the oldest of what is too many.
Cleanup(entries, ttl, max) ==
    LET fresh == {i \in DOMAIN entries : entries[i].age <= ttl}
    IN  Newest(Pick(entries, fresh), max)

\* An entry of the dictionary, by its timestamp; it replaces that of its id.
Put(entries, new) ==
    LET others == {i \in DOMAIN entries : entries[i].id # new.id}
        before == {i \in others : entries[i].age >= new.age}
    IN  Pick(entries, before) \o <<new>> \o Pick(entries, others \ before)

Ids(entries) == {entries[i].id : i \in DOMAIN entries}

CleanResults(entries) ==
    /\ results' = Cleanup(entries, ResultTtl, ResultMax)
    /\ dropped' = dropped \cup (Ids(entries) \ Ids(results'))

------------------------------------------------------------------------------
(* The life of the process                                                  *)

\* FaultAgent's constructor; it starts the cleanup thread when nothing of it
\* can fail any more.
MakeAgent == agent' = TRUE /\ cleaner' = "running"

\* lifespan, up to its yield: the server starts with or without an agent.
\* The handle command builds its own, or exits with an error.
Startup ==
    /\ life = "starting"
    /\ \/ MakeAgent /\ held' = (command = "serve") /\ life' = "serving"
       \/ /\ UNCHANGED <<agent, held, cleaner>>
          /\ life' = IF command = "serve" THEN "serving" ELSE "closing"
    /\ UNCHANGED <<command, runState, stores>>

\* get_fault_agent at a request: the singleton, or one that is made now and
\* that lifespan knows nothing of.
GetAgent ==
    /\ IF agent THEN UNCHANGED <<agent, cleaner>> ELSE MakeAgent
    /\ UNCHANGED <<command, life, held>>

\* SIGTERM: no more requests are taken. The command is done after its one run.
Stop ==
    /\ life = "serving"
    /\ command = "handle" => \E r \in Requests : state[r] \in {"answered", "lost"}
    /\ life' = "stopping"
    /\ UNCHANGED <<command, agent, held, cleaner, runState, stores>>

Idle == loop = "free" /\ \A r \in Requests : state[r] \notin {"queued", "planned", "stamped"}

\* As Shutdown, but without _shutdown.
ShutdownKeepingTimer ==
    /\ life = "stopping" /\ Idle
    /\ life' = "closing"
    /\ UNCHANGED <<command, agent, held, cleaner, runState, stores>>

\* lifespan after its yield, once the runs are over: _shutdown of the agent it
\* holds ends the cleanup thread.
Shutdown ==
    /\ life = "stopping" /\ Idle
    /\ life' = "closing"
    /\ cleaner' = IF held THEN "ended" ELSE cleaner
    /\ UNCHANGED <<command, agent, held, runState, stores>>

\* The interpreter waits for the threads that are no daemons, before atexit
\* calls _shutdown.
Exit ==
    /\ life = "closing" /\ cleaner # "running"
    /\ life' = "exited"
    /\ UNCHANGED <<command, agent, held, cleaner, runState, stores>>

------------------------------------------------------------------------------
(* Requests                                                                 *)

Serving == life = "serving" /\ loop = "free"
Become(r, s) == state' = [state EXCEPT ![r] = s]

\* handle_fault in asynchronous mode: the task is queued, the client is told
\* that it is processing.
HandleAsync(r) ==
    /\ command = "serve" /\ Serving /\ state[r] = "none"
    /\ GetAgent
    /\ Become(r, "queued")
    /\ UNCHANGED <<loop, faultOf, answered, planned, stampAge, stores>>

\* handle_fault in synchronous mode, continue_fault, or the handle command.
HandleSync(r) ==
    /\ Serving /\ state[r] = "none"
    /\ command = "handle" => \A q \in Requests : state[q] = "none"
    /\ GetAgent
    /\ Become(r, "queued")
    /\ loop' = r
    /\ UNCHANGED <<faultOf, answered, planned, stampAge, stores>>

\* create_plan, outside handle_fault's try: where it raises, the client of a
\* synchronous request is told 500 and the command exits with an error; of a
\* background task nothing remains but a log line.
Plan(r) ==
    /\ state[r] = "queued"
    /\ \E answer \in Answers :
        /\ answered' = [answered EXCEPT ![r] = answer]
        /\ IF Raises(answer)
           THEN Become(r, "lost") /\ loop' = (IF loop = r THEN "free" ELSE loop) /\ UNCHANGED planned
           ELSE Become(r, "planned") /\ UNCHANGED loop /\ planned' = [planned EXCEPT ![r] = CreatePlan(answer)]
    /\ UNCHANGED <<process, faultOf, stampAge, stores>>

\* The rest of the run is inside the try: it ends with a result, be it one of
\* status "error". A background task puts the time on it, and stores it later.
EndRun(r) ==
    /\ state[r] = "planned"
    /\ IF loop = r
       THEN Become(r, "answered") /\ loop' = "free"
       ELSE Become(r, "stamped") /\ UNCHANGED loop
    /\ UNCHANGED <<process, faultOf, answered, planned, stampAge, stores>>

\* As StoreResult, but without the cleanup.
StoreUncleaned(r) ==
    /\ state[r] = "stamped"
    /\ Become(r, "stored")
    /\ results' = Put(results, [id |-> faultOf[r], age |-> stampAge[r]])
    /\ stampAge' = [stampAge EXCEPT ![r] = 0]
    /\ UNCHANGED <<process, loop, faultOf, answered, planned, confirms, dropped>>

\* The end of _run_fault_task.
StoreResult(r) ==
    /\ state[r] = "stamped"
    /\ Become(r, "stored")
    /\ CleanResults(Put(results, [id |-> faultOf[r], age |-> stampAge[r]]))
    /\ stampAge' = [stampAge EXCEPT ![r] = 0]
    /\ UNCHANGED <<process, loop, faultOf, answered, planned, confirms>>

\* get_fault_status: "processing" for an id that has no entry, whatever became
\* of its run.
GetFaultStatus ==
    /\ Serving /\ command = "serve"
    /\ CleanResults(results)
    /\ UNCHANGED <<process, runState, confirms>>

Status(id) == IF id \in Ids(results) THEN "completed" ELSE "processing"

\* submit_confirmation: the cleanup comes before the insertion.
SubmitConfirmation(o) ==
    /\ Serving /\ command = "serve"
    /\ confirms' = Put(Cleanup(confirms, ConfirmTtl, ConfirmMax), [id |-> o, age |-> 0])
    /\ UNCHANGED <<process, runState, results, dropped>>

Older(entries, ttl) ==
    [i \in DOMAIN entries |->
        [entries[i] EXCEPT !.age = IF @ <= ttl THEN @ + 1 ELSE @]]

\* A thread stores its result long before the stamp on it has expired.
TimePasses ==
    /\ \A r \in Requests : stampAge[r] < ResultTtl
    /\ results' = Older(results, ResultTtl)
    /\ confirms' = Older(confirms, ConfirmTtl)
    /\ stampAge' = [r \in Requests |-> IF state[r] = "stamped" THEN stampAge[r] + 1 ELSE 0]
    /\ UNCHANGED <<process, loop, state, faultOf, answered, planned, dropped>>

Work(r) == Plan(r) \/ EndRun(r) \/ StoreResult(r)

ServerNext ==
    \/ Startup \/ Stop \/ Shutdown \/ Exit
    \/ \E r \in Requests : HandleAsync(r) \/ HandleSync(r) \/ Work(r)
    \/ GetFaultStatus
    \/ \E o \in Operations : SubmitConfirmation(o)
    \/ TimePasses

\* Threads and the event loop go on; nothing says that requests come, that the
\* process is stopped or that time passes.
ServerFairness ==
    /\ WF_serverVars(Shutdown) /\ WF_serverVars(Exit)
    /\ \A r \in Requests : WF_serverVars(Work(r))

ServerSpec == ServerInit /\ [][ServerNext]_serverVars /\ ServerFairness

------------------------------------------------------------------------------
(* Properties                                                               *)

\* The stores stay within their limits, one entry to an id; the store of
\* decisions, which is cleaned before the insertion, within one more.
StoresBounded ==
    /\ Len(results) <= ResultMax /\ Len(confirms) <= ConfirmMax + 1
    /\ Cardinality(Ids(results)) = Len(results)
    /\ Cardinality(Ids(confirms)) = Len(confirms)

\* No step removes a result that is still young, unless as many as the limit
\* remain that are no older: although results are stamped before they are
\* stored, and threads store them in another order.
DroppedWereOld ==
    [][\A i \in DOMAIN results :
          results[i].id \notin Ids(results') =>
              \/ results[i].age > ResultTtl
              \/ /\ Len(results') = ResultMax
                 /\ \A j \in DOMAIN results' : results'[j].age <= results[i].age]_serverVars

\* A run that came to an end is not reported as processing for no reason: its
\* result has been dropped, or its planning raised, which takes an answer of
\* the model provider with a value that is no string.
ResultAccounted ==
    \A r \in Requests :
        /\ state[r] = "stored" /\ Status(faultOf[r]) = "processing" => faultOf[r] \in dropped
        /\ state[r] = "lost" => "null" \in {answered[r].service, answered[r].alert}

\* A server that is told to stop exits, if its startup made the agent: the
\* runs end, lifespan ends the cleanup thread, and nothing is waited for.
ExitsIfHeld == life = "stopping" /\ held ~> life = "exited"

==============================================================================
