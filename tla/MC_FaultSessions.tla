--------------------------- MODULE MC_FaultSessions ---------------------------
(***************************************************************************)
(* FaultSessions for TLC. Ids are numbers, and each call of handle_fault   *)
(* gets the next one as its fault_id, as the default FAULT-<time> does; it *)
(* opens a session of that id or continues one of an earlier id. The first *)
(* call is over: behaviours begin where it has recorded its session. The   *)
(* runs that are about the main agent's saver leave sub-agents out.        *)
(***************************************************************************)
EXTENDS FaultSessions, TLC

CONSTANT WithSubAgents    \* do agents call sub-agents?

Symmetry == Permutations(Runs) \cup Permutations(Purgers)

First == [i \in Ids |-> IF i = 1 THEN 0 ELSE Absent]
MCInit ==
    /\ active = First /\ main = First
    /\ sub = IF WithSubAgents THEN First ELSE [i \in Ids |-> Absent]
    /\ pc = [r \in Runs |-> "idle"]
    /\ session = [r \in Runs |-> None] /\ fault = [r \in Runs |-> None]
    /\ runs = 1
    /\ queue = [i \in Ids |-> 0]
    /\ job = [c \in Cleaners |-> None] /\ stage = [c \in Cleaners |-> "main"]
    /\ timer = "wait" /\ phase = "up" /\ left = {}

MCNext ==
    \/ \E r \in Runs : MainPut(r) \/ Record(r) \/ Fail(r)
    \/ WithSubAgents /\ \E r \in Runs : SubPut(r)
    \/ \E r \in Runs, s \in 1 .. runs + 1 : s \in Ids /\ Start(r, s, runs + 1)
    \/ \E c \in Cleaners : Cleaner(c)
    \/ \E i \in Ids : ClearSession(i)
    \/ ListSessions \/ Timer
    \/ Stop \/ ShutExecutor \/ Close
    \/ Tick

MCSpec == MCInit /\ [][MCNext]_vars /\ Fairness

==============================================================================
