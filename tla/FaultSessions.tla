----------------------------- MODULE FaultSessions -----------------------------
(***************************************************************************)
(* agents/fault_agent.py: what a FaultAgent keeps of its sessions, and how *)
(* that is cleaned up. A run of handle_fault writes checkpoints of the     *)
(* session into the main agent's saver and of the fault into those of the  *)
(* sub-agents, and is recorded in `_active_sessions` when it has ended     *)
(* well. Sessions that are cleared, too old or too many leave that         *)
(* dictionary at once; they are purged from the savers later, by the       *)
(* thread that clears or by the two workers of `_cleanup_executor`. A      *)
(* timer thread also sweeps the savers by TTL, until `_shutdown`.          *)
(*                                                                         *)
(* Of a saver the entries of its `_lru` are kept: they decide what is      *)
(* evicted, purged and expired. The checkpoints are not part of this       *)
(* module; what becomes of them when an entry goes (in the library that is *)
(* pinned, mostly nothing) is said in BoundedSaver. The dictionary and the *)
(* entries are kept as ages (AgedEntries); the eviction order is the order *)
(* of the ages and a saver's calls are atomic (AtomicSaver), as            *)
(* BoundedSaver has them. One saver stands for those of the analysis,      *)
(* recovery and notification agents.                                       *)
(***************************************************************************)
EXTENDS AgedEntries

CONSTANTS
    Runs,            \* threads that call handle_fault
    Purgers,         \* workers of _cleanup_executor
    Api,             \* the event loop's thread, which serves clear_session
    None,            \* no id
    MaxRuns          \* bound on the calls of handle_fault in one behaviour

\* Ids are those of sessions and of faults: a new session's is its fault's.
ASSUME SessionsAssumption ==
    /\ IsFiniteSet(Ids) /\ None \notin Ids
    /\ Api \notin Purgers
    /\ MaxThreads \in Nat \ {0}
    /\ Ttl \in Nat
    /\ MaxRuns \in Nat

MaxSessions == 2 * MaxThreads
Cleaners == Purgers \cup {Api}

VARIABLES
    active,          \* _active_sessions
    main, sub,       \* the entries of the main agent's saver, and of a sub-agent's
    pc,              \* where each call of handle_fault stands
    session, fault,  \* its session_id and fault_id
    runs,            \* how many calls there have been
    queue,           \* how many purges of each id the executor has not begun
    job, stage,      \* the purge a cleaner is at, and which saver comes next
    timer,           \* where the timer thread stands
    phase,           \* how far _shutdown has come
    left             \* sessions given up without a purge since (not in the code)

calls == <<pc, session, fault, runs>>
purging == <<queue, job, stage>>
vars == <<active, main, sub, calls, purging, timer, phase, left>>

\* Types.
TypeOK ==
    /\ active \in [Ids -> Ages] /\ main \in [Ids -> Ages] /\ sub \in [Ids -> Ages]
    /\ pc \in [Runs -> {"idle", "start", "running"}]
    /\ session \in [Runs -> Ids \cup {None}] /\ fault \in [Runs -> Ids \cup {None}]
    /\ \A r \in Runs : pc[r] # "idle" => session[r] \in Ids /\ fault[r] \in Ids
    /\ runs \in 0 .. MaxRuns
    /\ queue \in [Ids -> Nat]
    /\ job \in [Cleaners -> Ids \cup {None}]
    /\ stage \in [Cleaners -> {"main", "sub"}]
    /\ timer \in {"wait", "sub", "main", "stopped"}
    /\ phase \in {"up", "stopping", "shut", "closed"}
    /\ left \subseteq Ids

Init ==
    /\ active = [i \in Ids |-> Absent]
    /\ main = [i \in Ids |-> Absent] /\ sub = [i \in Ids |-> Absent]
    /\ pc = [r \in Runs |-> "idle"]
    /\ session = [r \in Runs |-> None] /\ fault = [r \in Runs |-> None]
    /\ runs = 0
    /\ queue = [i \in Ids |-> 0]
    /\ job = [c \in Cleaners |-> None] /\ stage = [c \in Cleaners |-> "main"]
    /\ timer = "wait"
    /\ phase = "up"
    /\ left = {}

------------------------------------------------------------------------------
(* Cleaning up the sessions, under _sessions_lock                           *)

NoneQueued == \A i \in Ids : queue[i] = 0

\* As Drop, but the number of sessions is not looked at.
DropExpiredOnly(f, i) ==
    /\ active' = Without(f, Expired(f))
    /\ queue' = [d \in Ids |-> IF d \in Expired(f) THEN queue[d] + 1 ELSE queue[d]]
    /\ left' = left \ {i}

\* _cleanup_expired_sessions on the dictionary f: the expired sessions leave it
\* and then the oldest that are too many (not i, just recorded), D in all. Their
\* purges are submitted one by one after that. Once the executor is shut down,
\* which may fall between two of them, submit raises: those of D \ Q are not
\* purged.
Drop(f, i) ==
    \E E \in SUBSET Ids :
        /\ Excess(Without(f, Expired(f)), MaxSessions, i, E)
        /\ LET D == Expired(f) \cup E IN
           /\ active' = Without(f, D)
           /\ \E Q \in SUBSET D :
                /\ phase = "up" => Q = D
                /\ phase \in {"shut", "closed"} => Q = {}
                /\ queue' = [d \in Ids |-> IF d \in Q THEN queue[d] + 1 ELSE queue[d]]
                /\ left' = (left \ {i}) \cup (D \ Q)

------------------------------------------------------------------------------
(* handle_fault                                                             *)

\* A call for a new fault, or one that continues a session under a new fault id.
Start(r, s, f) ==
    /\ pc[r] = "idle" /\ runs < MaxRuns
    /\ pc' = [pc EXCEPT ![r] = "start"]
    /\ session' = [session EXCEPT ![r] = s]
    /\ fault' = [fault EXCEPT ![r] = f]
    /\ runs' = runs + 1
    /\ UNCHANGED <<active, main, sub, purging, timer, phase, left>>

\* invoke writes a checkpoint of the session, with the input and at every step.
MainPut(r) ==
    /\ pc[r] \in {"start", "running"}
    /\ pc' = [pc EXCEPT ![r] = "running"]
    /\ Put(main, session[r], main')
    /\ UNCHANGED <<active, sub, session, fault, runs, purging, timer, phase, left>>

\* A tool call runs a sub-agent, whose thread_id is the fault_id.
SubPut(r) ==
    /\ pc[r] = "running"
    /\ Put(sub, fault[r], sub')
    /\ UNCHANGED <<active, main, calls, purging, timer, phase, left>>

Return(r) ==
    /\ pc' = [pc EXCEPT ![r] = "idle"]
    /\ session' = [session EXCEPT ![r] = None]
    /\ fault' = [fault EXCEPT ![r] = None]
    /\ UNCHANGED <<main, sub, runs, job, stage, timer, phase>>

\* invoke has returned: the session is recorded and the others are cleaned up.
Record(r) ==
    /\ pc[r] = "running"
    /\ Drop(With(active, session[r]), session[r])
    /\ Return(r)

\* invoke has raised: the session is not recorded, whatever it has written.
Fail(r) ==
    /\ pc[r] \in {"start", "running"}
    /\ left' = left \cup {session[r]}
    /\ UNCHANGED <<active, queue>>
    /\ Return(r)

------------------------------------------------------------------------------
(* Cleaners: list_sessions, clear_session and the executor's workers        *)

ListSessions ==
    /\ job[Api] = None
    /\ Drop(active, None)
    /\ UNCHANGED <<main, sub, calls, job, stage, timer, phase>>

\* As ClearSession, but the purge comes first and the dictionary after it.
ClearSessionLast(i) ==
    \/ /\ job[Api] = None
       /\ job' = [job EXCEPT ![Api] = i]
       /\ stage' = [stage EXCEPT ![Api] = "main"]
       /\ UNCHANGED <<active, main, sub, calls, queue, timer, phase, left>>
    \/ /\ job[Api] = i
       /\ active' = Without(active, {i})
       /\ UNCHANGED <<main, sub, calls, purging, timer, phase, left>>

\* clear_session: out of the dictionary, then the purge in the same thread.
ClearSession(i) ==
    /\ job[Api] = None
    /\ active' = Without(active, {i})
    /\ job' = [job EXCEPT ![Api] = i]
    /\ stage' = [stage EXCEPT ![Api] = "main"]
    /\ UNCHANGED <<main, sub, calls, queue, timer, phase, left>>

\* As TakeJob, but no task is begun once the agent is being shut down.
TakeJobWhileUp(c, i) ==
    /\ c \in Purgers /\ job[c] = None /\ queue[i] > 0 /\ phase = "up"
    /\ job' = [job EXCEPT ![c] = i]
    /\ stage' = [stage EXCEPT ![c] = "main"]
    /\ queue' = [queue EXCEPT ![i] = @ - 1]
    /\ UNCHANGED <<active, main, sub, calls, timer, phase, left>>

\* As TakeJob, but nothing makes sure that there is a task.
TakeJobUnchecked(c, i) ==
    /\ c \in Purgers /\ job[c] = None
    /\ job' = [job EXCEPT ![c] = i]
    /\ stage' = [stage EXCEPT ![c] = "main"]
    /\ queue' = [queue EXCEPT ![i] = @ - 1]
    /\ UNCHANGED <<active, main, sub, calls, timer, phase, left>>

\* A worker of the executor takes a task; the order is left open, as it is
\* between two workers.
TakeJob(c, i) ==
    /\ c \in Purgers /\ job[c] = None /\ queue[i] > 0
    /\ job' = [job EXCEPT ![c] = i]
    /\ stage' = [stage EXCEPT ![c] = "main"]
    /\ queue' = [queue EXCEPT ![i] = @ - 1]
    /\ UNCHANGED <<active, main, sub, calls, timer, phase, left>>

\* _purge_checkpointer_thread: the entry of the main agent's saver, ...
PurgeMain(c) ==
    /\ job[c] # None /\ stage[c] = "main"
    /\ main' = Without(main, {job[c]})
    /\ stage' = [stage EXCEPT ![c] = "sub"]
    /\ left' = left \ {job[c]}
    /\ UNCHANGED <<active, sub, calls, queue, job, timer, phase>>

\* ... then the sub-agents', by the same id: it is the session's, and theirs are
\* by fault.
PurgeSub(c) ==
    /\ job[c] # None /\ stage[c] = "sub"
    /\ sub' = Without(sub, {job[c]})
    /\ job' = [job EXCEPT ![c] = None]
    /\ stage' = [stage EXCEPT ![c] = "main"]
    /\ UNCHANGED <<active, main, calls, queue, timer, phase, left>>

Cleaner(c) == (\E i \in Ids : TakeJob(c, i)) \/ PurgeMain(c) \/ PurgeSub(c)

------------------------------------------------------------------------------
(* The timer thread and _shutdown                                           *)

\* _run_periodic_cleanup: the sessions first, ...
PeriodicSessions ==
    /\ timer = "wait" /\ phase = "up"
    /\ Drop(active, None)
    /\ timer' = "sub"
    /\ UNCHANGED <<main, sub, calls, job, stage, phase>>

\* ... then purge_expired of the sub-agents' savers ...
PeriodicSub ==
    /\ timer = "sub"
    /\ sub' = Without(sub, Expired(sub))
    /\ timer' = "main"
    /\ UNCHANGED <<active, main, calls, purging, phase, left>>

\* As PeriodicMain, but the main agent's saver is left to the sessions' purges.
PeriodicMainLeftOut ==
    /\ timer = "main"
    /\ timer' = "wait"
    /\ UNCHANGED <<active, main, sub, calls, purging, phase, left>>

\* ... and of the main agent's.
PeriodicMain ==
    /\ timer = "main"
    /\ main' = Without(main, Expired(main))
    /\ timer' = "wait"
    /\ left' = left \ Expired(main)
    /\ UNCHANGED <<active, sub, calls, purging, phase>>

\* _run_cleanup_loop sees the event between two cleanups.
TimerStops ==
    /\ timer = "wait" /\ phase # "up"
    /\ timer' = "stopped"
    /\ UNCHANGED <<active, main, sub, calls, purging, phase, left>>

Timer == PeriodicSessions \/ PeriodicSub \/ PeriodicMain \/ TimerStops

\* _shutdown sets the event, ...
Stop ==
    /\ phase = "up"
    /\ phase' = "stopping"
    /\ UNCHANGED <<active, main, sub, calls, purging, timer, left>>

\* ... joins the timer thread or gives it up after ten seconds, shuts the
\* executor down ...
ShutExecutor ==
    /\ phase = "stopping"
    /\ phase' = "shut"
    /\ UNCHANGED <<active, main, sub, calls, purging, timer, left>>

\* As Close, but shutdown does not wait.
CloseAtOnce ==
    /\ phase = "shut"
    /\ phase' = "closed"
    /\ UNCHANGED <<active, main, sub, calls, purging, timer, left>>

\* ... and waits for the tasks it has.
Close ==
    /\ phase = "shut" /\ NoneQueued /\ \A c \in Purgers : job[c] = None
    /\ phase' = "closed"
    /\ UNCHANGED <<active, main, sub, calls, purging, timer, left>>

Tick ==
    /\ active' = Older(active) /\ main' = Older(main) /\ sub' = Older(sub)
    /\ UNCHANGED <<calls, purging, timer, phase, left>>

Run(r) ==
    \/ MainPut(r) \/ SubPut(r) \/ Record(r) \/ Fail(r)
    \/ \E s, f \in Ids : Start(r, s, f)

Next ==
    \/ \E r \in Runs : Run(r)
    \/ \E c \in Cleaners : Cleaner(c)
    \/ \E i \in Ids : ClearSession(i)
    \/ ListSessions \/ Timer
    \/ Stop \/ ShutExecutor \/ Close
    \/ Tick

Spec == Init /\ [][Next]_vars

\* The threads of the agent run; time passes; nobody has to call anything.
Fairness ==
    /\ \A c \in Cleaners : WF_vars(Cleaner(c))
    /\ WF_vars(Timer) /\ WF_vars(ShutExecutor \/ Close) /\ WF_vars(Tick)
FairSpec == Spec /\ Fairness

------------------------------------------------------------------------------
(* Properties                                                               *)

InRun(i) == \E r \in Runs : pc[r] # "idle" /\ session[r] = i
ToPurge(i) ==
    \/ queue[i] > 0
    \/ \E c \in Cleaners : job[c] = i /\ stage[c] = "main"

\* No entry is forgotten: what takes a place in the main agent's saver is of a
\* session that is listed, of one in a run, of one whose purge is on its way, or
\* was left by a run that failed or by a cleanup the executor refused.
MainEntriesAccountedFor ==
    \A i \in Held(main) : i \in Held(active) \/ InRun(i) \/ ToPurge(i) \/ i \in left

\* The agent lists no more sessions than it allows itself.
SessionsBounded == Cardinality(Held(active)) <= MaxSessions

\* When _shutdown has returned, every purge that was accepted is done, and none
\* is accepted any more.
ClosedIsClean ==
    phase = "closed" => NoneQueued /\ \A c \in Purgers : job[c] = None

\* _shutdown ends, whatever the timer, the purges and the runs are at.
ShutdownCompletes == phase = "stopping" ~> phase = "closed"

\* As long as the agent is up, an entry that outlives the TTL goes, whoever left
\* it: runs that failed, sessions continued under other fault ids, purges that
\* came early. (Its place is free again; its checkpoints are another matter.)
ExpiredEntriesGo ==
    \A i \in Ids :
        /\ i \in Expired(main) ~> i \notin Expired(main) \/ phase # "up"
        /\ i \in Expired(sub) ~> i \notin Expired(sub) \/ phase # "up"

\* Whatever runs, cleanups and purges do to the two savers, each step is one
\* call of each of them or none: nothing is asked of a saver that AtomicSaver
\* does not promise.
MainSaver == INSTANCE AtomicSaver WITH ages <- main
SubSaver == INSTANCE AtomicSaver WITH ages <- sub
SaversAtomic == MainSaver!Spec /\ SubSaver!Spec

==============================================================================
