------------------------- MODULE FaultSessions_proofs -------------------------
(***************************************************************************)
(* Proofs about FaultSessions, for any number of calls, of cleaners and of *)
(* ids, any limit and any TTL.                                             *)
(***************************************************************************)
EXTENDS FaultSessions, FiniteSetTheorems, TLAPS

------------------------------------------------------------------------------
(* Dictionaries                                                             *)

LEMMA AgesType == Absent \in Ages /\ 0 \in Ages /\ Absent # 0
  BY SessionsAssumption DEF Absent, Ages

LEMMA WithoutIds ==
  ASSUME NEW f \in [Ids -> Ages], NEW E
  PROVE  Without(f, E) \in [Ids -> Ages] /\ Held(Without(f, E)) = Held(f) \ E
  BY AgesType DEF Without, Held

LEMMA WithIds ==
  ASSUME NEW f \in [Ids -> Ages], NEW i \in Ids
  PROVE  With(f, i) \in [Ids -> Ages] /\ Held(With(f, i)) = Held(f) \cup {i}
  BY AgesType DEF With, Held

LEMMA OlderIds ==
  ASSUME NEW f \in [Ids -> Ages]
  PROVE  Older(f) \in [Ids -> Ages] /\ Held(Older(f)) = Held(f)
<1>1. \A i \in Ids : f[i] \in Int /\ f[i] >= -1 /\ f[i] <= Ttl + 1 /\ Ttl \in Int
  BY SessionsAssumption DEF Ages, Absent
<1>2. \A i \in Ids : /\ Older(f)[i] \in Ages
                     /\ Older(f)[i] = Absent <=> f[i] = Absent
  BY <1>1 DEF Older, Ages, Absent
<1> QED BY <1>2 DEF Older, Held

\* An entry just written is not expired.
LEMMA FreshIsKept ==
  ASSUME NEW f \in [Ids -> Ages], NEW i \in Ids
  PROVE  i \notin Expired(With(f, i))
  BY SessionsAssumption DEF Expired, With

\* A put adds the id it is for and nothing else.
LEMMA PutIds ==
  ASSUME NEW f \in [Ids -> Ages], NEW i \in Ids, NEW g, Put(f, i, g)
  PROVE  g \in [Ids -> Ages] /\ Held(g) \subseteq Held(f) \cup {i}
  BY WithIds, WithoutIds DEF Put

\* What a cleanup of the sessions does.
LEMMA DropIds ==
  ASSUME TypeOK, NEW f \in [Ids -> Ages], NEW i \in Ids \cup {None}, Drop(f, i)
  PROVE  /\ active' \in [Ids -> Ages] /\ queue' \in [Ids -> Nat] /\ left' \subseteq Ids
         /\ Cardinality(Held(active')) <= MaxSessions
         /\ i \in Held(f) /\ i \notin Expired(f) => i \in Held(active')
         /\ \A j \in Held(f) : j \in Held(active') \/ queue'[j] > 0 \/ j \in left'
         /\ \A j \in Ids : queue[j] > 0 => queue'[j] > 0
         /\ left \ {i} \subseteq left'
         /\ phase = "closed" => queue' = queue
<1>1. PICK E \in SUBSET Ids :
        /\ Excess(Without(f, Expired(f)), MaxSessions, i, E)
        /\ active' = Without(f, Expired(f) \cup E)
        /\ \E Q \in SUBSET (Expired(f) \cup E) :
             /\ phase \in {"shut", "closed"} => Q = {}
             /\ queue' = [d \in Ids |-> IF d \in Q THEN queue[d] + 1 ELSE queue[d]]
             /\ left' = (left \ {i}) \cup ((Expired(f) \cup E) \ Q)
  BY DEF Drop
<1>2. PICK Q \in SUBSET (Expired(f) \cup E) :
             /\ phase \in {"shut", "closed"} => Q = {}
             /\ queue' = [d \in Ids |-> IF d \in Q THEN queue[d] + 1 ELSE queue[d]]
             /\ left' = (left \ {i}) \cup ((Expired(f) \cup E) \ Q)
  BY <1>1
<1>3. Held(active') = Held(f) \ (Expired(f) \cup E) /\ active' \in [Ids -> Ages]
  BY <1>1, WithoutIds
<1>4. Held(active') = Held(Without(f, Expired(f))) \ E
  BY <1>3, WithoutIds
<1>5. Cardinality(Held(active')) <= MaxSessions /\ i \notin E
  BY <1>1, <1>4 DEF Excess
<1>6. queue' \in [Ids -> Nat] /\ \A j \in Ids : queue[j] \in Nat
  BY <1>2 DEF TypeOK
<1>7. \A j \in Ids : /\ j \in Q => queue'[j] > 0
                     /\ queue[j] > 0 => queue'[j] > 0
  BY <1>2, <1>6
<1>8. phase = "closed" => queue' = queue
  BY <1>2 DEF TypeOK
<1>9. left' \subseteq Ids
  BY <1>1, <1>2 DEF TypeOK, Expired
<1>10. \A j \in Held(f) : j \in Held(active') \/ queue'[j] > 0 \/ j \in left'
  <2> SUFFICES ASSUME NEW j \in Held(f), j \notin Held(active')
               PROVE  queue'[j] > 0 \/ j \in left'
    OBVIOUS
  <2>1. j \in Expired(f) \cup E /\ j \in Ids
    BY <1>3 DEF Held
  <2> QED BY <1>2, <1>7, <2>1
<1> QED BY <1>2, <1>3, <1>5, <1>6, <1>7, <1>8, <1>9, <1>10

------------------------------------------------------------------------------
(* Types                                                                    *)

LEMMA TypeInit == Init => TypeOK
  BY AgesType, SessionsAssumption DEF Init, TypeOK

LEMMA TypeRun ==
  ASSUME TypeOK, NEW r \in Runs, Run(r)
  PROVE  TypeOK'
<1>1. ASSUME NEW s \in Ids, NEW f \in Ids, Start(r, s, f) PROVE TypeOK'
  BY <1>1, SessionsAssumption DEF Start, TypeOK, purging
<1>2. ASSUME MainPut(r) PROVE TypeOK'
  <2>1. main' \in [Ids -> Ages]
    BY <1>2, PutIds DEF MainPut, TypeOK
  <2> QED BY <1>2, <2>1 DEF MainPut, TypeOK, purging
<1>3. ASSUME SubPut(r) PROVE TypeOK'
  <2>1. sub' \in [Ids -> Ages]
    BY <1>3, PutIds DEF SubPut, TypeOK
  <2> QED BY <1>3, <2>1 DEF SubPut, TypeOK, purging, calls
<1>4. ASSUME Record(r) PROVE TypeOK'
  <2>1. session[r] \in Ids /\ With(active, session[r]) \in [Ids -> Ages]
    BY <1>4, WithIds DEF Record, TypeOK
  <2>2. active' \in [Ids -> Ages] /\ queue' \in [Ids -> Nat] /\ left' \subseteq Ids
    BY <1>4, <2>1, DropIds DEF Record
  <2> QED BY <1>4, <2>2 DEF Record, Return, TypeOK
<1>5. ASSUME Fail(r) PROVE TypeOK'
  BY <1>5 DEF Fail, Return, TypeOK
<1> QED BY <1>1, <1>2, <1>3, <1>4, <1>5 DEF Run

LEMMA TypeCleaner ==
  ASSUME TypeOK, NEW c \in Cleaners, Cleaner(c)
  PROVE  TypeOK'
<1>1. ASSUME NEW i \in Ids, TakeJob(c, i) PROVE TypeOK'
  <2>1. queue' \in [Ids -> Nat]
    BY <1>1 DEF TakeJob, TypeOK
  <2> QED BY <1>1, <2>1 DEF TakeJob, TypeOK, calls
<1>2. ASSUME PurgeMain(c) PROVE TypeOK'
  <2>1. main' \in [Ids -> Ages]
    BY <1>2, WithoutIds DEF PurgeMain, TypeOK
  <2> QED BY <1>2, <2>1 DEF PurgeMain, TypeOK, calls
<1>3. ASSUME PurgeSub(c) PROVE TypeOK'
  <2>1. sub' \in [Ids -> Ages]
    BY <1>3, WithoutIds DEF PurgeSub, TypeOK
  <2> QED BY <1>3, <2>1 DEF PurgeSub, TypeOK, calls
<1> QED BY <1>1, <1>2, <1>3 DEF Cleaner

LEMMA TypeTimer ==
  ASSUME TypeOK, Timer
  PROVE  TypeOK'
<1>1. ASSUME PeriodicSessions PROVE TypeOK'
  <2>1. active' \in [Ids -> Ages] /\ queue' \in [Ids -> Nat] /\ left' \subseteq Ids
    BY <1>1, DropIds DEF PeriodicSessions, TypeOK
  <2> QED BY <1>1, <2>1 DEF PeriodicSessions, TypeOK, calls
<1>2. ASSUME PeriodicSub PROVE TypeOK'
  <2>1. sub' \in [Ids -> Ages]
    BY <1>2, WithoutIds DEF PeriodicSub, TypeOK
  <2> QED BY <1>2, <2>1 DEF PeriodicSub, TypeOK, calls, purging
<1>3. ASSUME PeriodicMain PROVE TypeOK'
  <2>1. main' \in [Ids -> Ages]
    BY <1>3, WithoutIds DEF PeriodicMain, TypeOK
  <2> QED BY <1>3, <2>1 DEF PeriodicMain, TypeOK, calls, purging
<1>4. ASSUME TimerStops PROVE TypeOK'
  BY <1>4 DEF TimerStops, TypeOK, calls, purging
<1> QED BY <1>1, <1>2, <1>3, <1>4 DEF Timer

LEMMA TypeNext == TypeOK /\ [Next]_vars => TypeOK'
<1> SUFFICES ASSUME TypeOK, [Next]_vars PROVE TypeOK'
  OBVIOUS
<1>1. ASSUME NEW i \in Ids, ClearSession(i) PROVE TypeOK'
  <2>1. active' \in [Ids -> Ages]
    BY <1>1, WithoutIds DEF ClearSession, TypeOK
  <2> QED BY <1>1, <2>1 DEF ClearSession, TypeOK, calls
<1>2. ASSUME ListSessions PROVE TypeOK'
  <2>1. active' \in [Ids -> Ages] /\ queue' \in [Ids -> Nat] /\ left' \subseteq Ids
    BY <1>2, DropIds DEF ListSessions, TypeOK
  <2> QED BY <1>2, <2>1 DEF ListSessions, TypeOK, calls
<1>3. CASE Stop \/ ShutExecutor \/ Close
  BY <1>3 DEF Stop, ShutExecutor, Close, TypeOK, calls, purging
<1>4. CASE Tick
  <2>1. active' \in [Ids -> Ages] /\ main' \in [Ids -> Ages] /\ sub' \in [Ids -> Ages]
    BY <1>4, OlderIds DEF Tick, TypeOK
  <2> QED BY <1>4, <2>1 DEF Tick, TypeOK, calls, purging
<1>5. CASE UNCHANGED vars
  BY <1>5 DEF vars, TypeOK, calls, purging
<1> QED
  BY <1>1, <1>2, <1>3, <1>4, <1>5, TypeRun, TypeCleaner, TypeTimer DEF Next

\* Every variable of the agent keeps its type.
THEOREM TypeCorrect == Spec => []TypeOK
  BY TypeInit, TypeNext, PTL DEF Spec

------------------------------------------------------------------------------
(* How many sessions are listed                                             *)

LEMMA HeldFinite == ASSUME NEW f PROVE IsFiniteSet(Held(f))
  BY SessionsAssumption, FS_Subset DEF Held

\* Fewer entries are no more entries.
LEMMA FewerHeld ==
  ASSUME NEW f, NEW g, Held(g) \subseteq Held(f), Cardinality(Held(f)) <= MaxSessions
  PROVE  Cardinality(Held(g)) <= MaxSessions
<1>1. Cardinality(Held(g)) <= Cardinality(Held(f))
  BY HeldFinite, FS_Subset
<1>2. Cardinality(Held(g)) \in Nat /\ Cardinality(Held(f)) \in Nat /\ MaxSessions \in Nat
  BY HeldFinite, FS_CardinalityType, SessionsAssumption DEF MaxSessions
<1> QED BY <1>1, <1>2

\* The agent never lists more sessions than its limit.
THEOREM SessionsStayBounded == Spec => []SessionsBounded
<1>1. Init => SessionsBounded
  <2> SUFFICES ASSUME Init PROVE SessionsBounded
    OBVIOUS
  <2>1. Held(active) = {}
    BY DEF Init, Held
  <2> QED BY <2>1, FS_EmptySet, SessionsAssumption DEF SessionsBounded, MaxSessions
<1>2. TypeOK /\ SessionsBounded /\ [Next]_vars => SessionsBounded'
  <2> SUFFICES ASSUME TypeOK, SessionsBounded, [Next]_vars
               PROVE  Cardinality(Held(active')) <= MaxSessions
    BY DEF SessionsBounded
  <2>1. CASE active' = active
    BY <2>1 DEF SessionsBounded
  <2>2. ASSUME NEW i \in Ids, ClearSession(i)
        PROVE  Cardinality(Held(active')) <= MaxSessions
    <3>1. active' = Without(active, {i}) /\ active \in [Ids -> Ages]
      BY <2>2 DEF ClearSession, TypeOK
    <3>2. Held(active') \subseteq Held(active)
      BY <3>1, WithoutIds
    <3> QED BY <3>2, FewerHeld DEF SessionsBounded
  <2>3. CASE Tick
    <3>1. Held(active') \subseteq Held(active)
      BY <2>3, OlderIds DEF Tick, TypeOK
    <3> QED BY <3>1, FewerHeld DEF SessionsBounded
  <2>4. ASSUME NEW r \in Runs, Record(r)
        PROVE  Cardinality(Held(active')) <= MaxSessions
    <3>1. session[r] \in Ids /\ With(active, session[r]) \in [Ids -> Ages]
      BY <2>4, WithIds DEF Record, TypeOK
    <3> QED BY <2>4, <3>1, DropIds DEF Record
  <2>5. CASE ListSessions \/ PeriodicSessions
    BY <2>5, DropIds DEF ListSessions, PeriodicSessions, TypeOK
  <2> QED
    BY <2>1, <2>2, <2>3, <2>4, <2>5
    DEF Next, Run, Start, MainPut, SubPut, Fail, Cleaner, TakeJob, PurgeMain, PurgeSub,
        Timer, PeriodicSub, PeriodicMain, TimerStops, Stop, ShutExecutor, Close, vars
<1> QED BY <1>1, <1>2, TypeCorrect, PTL DEF Spec

------------------------------------------------------------------------------
(* After the shutdown                                                       *)

\* What _shutdown waited for stays done: nothing is accepted or begun later.
THEOREM ClosedStaysClean == Spec => []ClosedIsClean
<1>1. Init => ClosedIsClean
  BY DEF Init, ClosedIsClean
<1>2. TypeOK /\ ClosedIsClean /\ [Next]_vars => ClosedIsClean'
  <2> SUFFICES ASSUME TypeOK, ClosedIsClean, [Next]_vars, phase' = "closed"
               PROVE  NoneQueued' /\ \A c \in Purgers : job'[c] = None
    BY DEF ClosedIsClean
  <2>1. CASE Close
    BY <2>1 DEF Close, NoneQueued, purging
  <2>2. CASE phase # "closed"
    <3>1. Close
      BY <2>2 DEF Next, Run, Start, MainPut, SubPut, Record, Fail, Return, ClearSession,
             ListSessions, Cleaner, TakeJob, PurgeMain, PurgeSub, Timer, PeriodicSessions,
             PeriodicSub, PeriodicMain, TimerStops, Stop, ShutExecutor, Tick, vars
    <3> QED BY <2>1, <3>1
  <2>3. CASE phase = "closed"
    <3>1. NoneQueued /\ \A c \in Purgers : job[c] = None
      BY <2>3 DEF ClosedIsClean
    <3>2. CASE UNCHANGED <<queue, job>>
      BY <3>1, <3>2 DEF NoneQueued
    <3>3. ASSUME NEW r \in Runs, Record(r) PROVE UNCHANGED <<queue, job>>
      <4>1. session[r] \in Ids /\ With(active, session[r]) \in [Ids -> Ages]
        BY <3>3, WithIds DEF Record, TypeOK
      <4> QED BY <2>3, <3>3, <4>1, DropIds DEF Record, Return
    <3>4. ASSUME ListSessions \/ PeriodicSessions PROVE UNCHANGED <<queue, job>>
      BY <2>3, <3>4, DropIds DEF ListSessions, PeriodicSessions, TypeOK
    <3>5. ASSUME NEW i \in Ids, ClearSession(i)
          PROVE  NoneQueued' /\ \A c \in Purgers : job'[c] = None
      BY <3>1, <3>5, SessionsAssumption DEF ClearSession, NoneQueued, TypeOK
    <3>6. ASSUME NEW c \in Cleaners, Cleaner(c)
          PROVE  NoneQueued' /\ \A d \in Purgers : job'[d] = None
      <4>1. \A i \in Ids : ~TakeJob(c, i)
        BY <3>1 DEF TakeJob, NoneQueued
      <4>2. PurgeMain(c) \/ PurgeSub(c)
        BY <3>6, <4>1 DEF Cleaner
      <4> QED BY <3>1, <4>2 DEF PurgeMain, PurgeSub, NoneQueued, TypeOK, Cleaners
    <3> QED
      BY <3>2, <3>3, <3>4, <3>5, <3>6
      DEF Next, Run, Start, MainPut, SubPut, Fail, Return, Timer, PeriodicSub, PeriodicMain,
          TimerStops, Stop, ShutExecutor, Close, Tick, vars, purging
  <2> QED BY <2>2, <2>3
<1> QED BY <1>1, <1>2, TypeCorrect, PTL DEF Spec

------------------------------------------------------------------------------
(* No entry is forgotten                                                    *)

\* What accounts for an entry of session i.
AccountedFor(i) == i \in Held(active) \/ InRun(i) \/ ToPurge(i) \/ i \in left

\* A cleanup of the sessions f, of which i has just been recorded (or none).
LEMMA AccountedDrop ==
  ASSUME TypeOK, NEW f \in [Ids -> Ages], NEW i \in Ids \cup {None}, Drop(f, i),
         UNCHANGED <<job, stage>>,
         Held(active) \subseteq Held(f), i \in Ids => i \in Held(f) /\ i \notin Expired(f),
         NEW j \in Ids, AccountedFor(j), InRun(j) => InRun(j)' \/ j = i
  PROVE  AccountedFor(j)'
<1>1. /\ i \in Held(f) /\ i \notin Expired(f) => i \in Held(active')
      /\ j \in Held(f) => j \in Held(active') \/ queue'[j] > 0 \/ j \in left'
      /\ queue[j] > 0 => queue'[j] > 0
      /\ left \ {i} \subseteq left'
  BY DropIds
<1>2. ToPurge(j) => ToPurge(j)'
  BY <1>1 DEF ToPurge
<1>3. queue'[j] > 0 => ToPurge(j)'
  BY DEF ToPurge
<1> QED BY <1>1, <1>2, <1>3 DEF AccountedFor

LEMMA AccountedRun ==
  ASSUME TypeOK, NEW r \in Runs, Run(r),
         MainEntriesAccountedFor, NEW j \in Held(main')
  PROVE  AccountedFor(j)'
<1>0. j \in Ids /\ (j \in Held(main) => AccountedFor(j))
  BY DEF Held, MainEntriesAccountedFor, AccountedFor
<1>1. ASSUME NEW s \in Ids, NEW f \in Ids, Start(r, s, f) PROVE AccountedFor(j)'
  <2>1. InRun(j) => InRun(j)'
    BY <1>1 DEF Start, InRun, TypeOK
  <2> QED BY <1>0, <1>1, <2>1 DEF Start, AccountedFor, ToPurge, purging
<1>2. ASSUME MainPut(r) PROVE AccountedFor(j)'
  <2>1. session[r] \in Ids /\ j \in Held(main) \cup {session[r]}
    BY <1>2, PutIds DEF MainPut, TypeOK
  <2>2. InRun(session[r])' /\ (InRun(j) => InRun(j)')
    BY <1>2 DEF MainPut, InRun, TypeOK
  <2> QED BY <1>0, <1>2, <2>1, <2>2 DEF MainPut, AccountedFor, ToPurge, purging
<1>3. ASSUME SubPut(r) PROVE AccountedFor(j)'
  BY <1>0, <1>3 DEF SubPut, AccountedFor, ToPurge, InRun, purging, calls
<1>4. ASSUME Record(r) PROVE AccountedFor(j)'
  <2>1. session[r] \in Ids /\ With(active, session[r]) \in [Ids -> Ages]
        /\ Held(With(active, session[r])) = Held(active) \cup {session[r]}
        /\ session[r] \notin Expired(With(active, session[r]))
    BY <1>4, WithIds, FreshIsKept DEF Record, TypeOK
  <2>2. InRun(j) => InRun(j)' \/ j = session[r]
    BY <1>4 DEF Record, Return, InRun, TypeOK
  <2>3. Drop(With(active, session[r]), session[r]) /\ UNCHANGED <<job, stage>>
        /\ main' = main
    BY <1>4 DEF Record, Return
  <2> QED BY <1>0, <2>1, <2>2, <2>3, AccountedDrop
<1>5. ASSUME Fail(r) PROVE AccountedFor(j)'
  <2>1. InRun(j) => InRun(j)' \/ j = session[r]
    BY <1>5 DEF Fail, Return, InRun, TypeOK
  <2> QED BY <1>0, <1>5, <2>1 DEF Fail, Return, AccountedFor, ToPurge
<1> QED BY <1>1, <1>2, <1>3, <1>4, <1>5 DEF Run

LEMMA AccountedCleaner ==
  ASSUME TypeOK, NEW c \in Cleaners, Cleaner(c),
         MainEntriesAccountedFor, NEW j \in Held(main')
  PROVE  AccountedFor(j)'
<1>0. j \in Ids /\ (j \in Held(main) => AccountedFor(j))
  BY DEF Held, MainEntriesAccountedFor, AccountedFor
<1>1. ASSUME NEW i \in Ids, TakeJob(c, i) PROVE AccountedFor(j)'
  <2>1. ToPurge(j) => ToPurge(j)'
    BY <1>0, <1>1, SessionsAssumption DEF TakeJob, ToPurge, TypeOK
  <2> QED BY <1>0, <1>1, <2>1 DEF TakeJob, AccountedFor, InRun, calls
<1>2. ASSUME PurgeMain(c) PROVE AccountedFor(j)'
  <2>1. j \in Held(main) /\ j # job[c]
    BY <1>2, WithoutIds DEF PurgeMain, TypeOK
  <2>2. ToPurge(j) => ToPurge(j)'
    BY <1>2, <2>1 DEF PurgeMain, ToPurge, TypeOK
  <2> QED BY <1>0, <1>2, <2>1, <2>2 DEF PurgeMain, AccountedFor, InRun, calls
<1>3. ASSUME PurgeSub(c) PROVE AccountedFor(j)'
  <2>1. ToPurge(j) => ToPurge(j)'
    BY <1>3 DEF PurgeSub, ToPurge, TypeOK
  <2> QED BY <1>0, <1>3, <2>1 DEF PurgeSub, AccountedFor, InRun, calls
<1> QED BY <1>1, <1>2, <1>3 DEF Cleaner

\* No entry is forgotten: what takes a place in the main agent's saver is of a
\* session that is listed, in a run, about to be purged, or left by a run that failed or
\* by a cleanup the executor refused.
THEOREM NoEntryForgotten == Spec => []MainEntriesAccountedFor
<1>1. Init => MainEntriesAccountedFor
  BY DEF Init, MainEntriesAccountedFor, Held
<1>2. TypeOK /\ MainEntriesAccountedFor /\ [Next]_vars => MainEntriesAccountedFor'
  <2> SUFFICES ASSUME TypeOK, MainEntriesAccountedFor, [Next]_vars, NEW j \in Held(main')
               PROVE  AccountedFor(j)'
    BY DEF MainEntriesAccountedFor, AccountedFor
  <2>0. j \in Ids /\ (j \in Held(main) => AccountedFor(j))
    BY DEF Held, MainEntriesAccountedFor, AccountedFor
  <2>1. ASSUME NEW r \in Runs, Run(r) PROVE AccountedFor(j)'
    BY <2>1, AccountedRun
  <2>2. ASSUME NEW c \in Cleaners, Cleaner(c) PROVE AccountedFor(j)'
    BY <2>2, AccountedCleaner
  <2>3. ASSUME NEW i \in Ids, ClearSession(i) PROVE AccountedFor(j)'
    <3>1. j \in Held(main) /\ active \in [Ids -> Ages] /\ active' = Without(active, {i})
      BY <2>3 DEF ClearSession, TypeOK
    <3>2. ToPurge(i)' /\ (ToPurge(j) => ToPurge(j)')
      <4>1. job'[Api] = i /\ stage'[Api] = "main" /\ Api \in Cleaners /\ queue' = queue
        BY <2>3 DEF ClearSession, TypeOK, Cleaners
      <4>2. \A c \in Cleaners : job[c] = j => job'[c] = j /\ stage'[c] = stage[c]
        BY <2>0, <2>3, SessionsAssumption DEF ClearSession, TypeOK
      <4> QED BY <4>1, <4>2 DEF ToPurge
    <3>3. j \in Held(active) => j \in Held(active') \/ j = i
      BY <3>1, WithoutIds
    <3> QED BY <2>0, <2>3, <3>1, <3>2, <3>3 DEF ClearSession, AccountedFor, InRun, calls
  <2>4. CASE ListSessions \/ PeriodicSessions
    <3>1. Drop(active, None) /\ UNCHANGED <<main, calls, job, stage>>
      BY <2>4 DEF ListSessions, PeriodicSessions
    <3>2. InRun(j) => InRun(j)'
      BY <3>1 DEF InRun, calls
    <3> QED BY <2>0, <3>1, <3>2, AccountedDrop, SessionsAssumption DEF TypeOK
  <2>5. CASE PeriodicMain
    <3>1. j \in Held(main) /\ j \notin Expired(main)
      BY <2>5, WithoutIds DEF PeriodicMain, TypeOK
    <3> QED BY <2>0, <2>5, <3>1 DEF PeriodicMain, AccountedFor, ToPurge, InRun, calls, purging
  <2>6. CASE PeriodicSub \/ TimerStops \/ Stop \/ ShutExecutor \/ Close \/ UNCHANGED vars
    BY <2>0, <2>6 DEF PeriodicSub, TimerStops, Stop, ShutExecutor, Close, vars, AccountedFor,
                      ToPurge, InRun, calls, purging
  <2>7. CASE Tick
    <3>1. j \in Held(main) /\ Held(active') = Held(active)
      BY <2>7, OlderIds DEF Tick, TypeOK
    <3> QED BY <2>0, <2>7, <3>1 DEF Tick, AccountedFor, ToPurge, InRun, calls, purging
  <2> QED
    BY <2>1, <2>2, <2>3, <2>4, <2>5, <2>6, <2>7 DEF Next, Timer
<1> QED BY <1>1, <1>2, TypeCorrect, PTL DEF Spec

------------------------------------------------------------------------------
(* What is asked of the savers                                              *)

\* The two instances have copies of FiniteSets of their own.
LEMMA SameCardinalities ==
  /\ \A S : MainSaver!Cardinality(S) = Cardinality(S)
  /\ \A S : SubSaver!Cardinality(S) = Cardinality(S)
<1>1. \A S : MainSaver!Cardinality(S) = Cardinality(S)
  BY Zenon DEF MainSaver!Cardinality, Cardinality
<1>2. \A S : SubSaver!Cardinality(S) = Cardinality(S)
  BY Zenon DEF SubSaver!Cardinality, Cardinality
<1> QED BY <1>1, <1>2

\* One call of a saver whose entries are f, in the words of this module.
OneCall(f, g) ==
    \/ \E i \in Ids : Put(f, i, g) \/ g = Without(f, {i})
    \/ \E E \in SUBSET Expired(f) : g = Without(f, E)
    \/ g = Older(f)

LEMMA MainOneCall == OneCall(main, main') => MainSaver!Next
<1>1. ASSUME NEW i \in Ids, Put(main, i, main') PROVE MainSaver!Write(i)
  BY <1>1, SameCardinalities
  DEF Put, Excess, With, Without, Held, Absent, MainSaver!Write, MainSaver!Put, MainSaver!Excess,
      MainSaver!With, MainSaver!Without, MainSaver!Held, MainSaver!Absent
<1>2. ASSUME NEW E, main' = Without(main, E) PROVE main' = MainSaver!Without(main, E)
  BY <1>2 DEF Without, Absent, MainSaver!Without, MainSaver!Absent
<1>3. ASSUME NEW i \in Ids, main' = Without(main, {i}) PROVE MainSaver!Purge(i)
  BY <1>2, <1>3 DEF MainSaver!Purge
<1>4. ASSUME NEW E \in SUBSET Expired(main), main' = Without(main, E) PROVE MainSaver!PurgeExpired
  BY <1>2, <1>4 DEF Expired, MainSaver!Expired, MainSaver!PurgeExpired
<1>5. ASSUME main' = Older(main) PROVE MainSaver!TimePasses
  BY <1>5 DEF Older, MainSaver!Older, MainSaver!TimePasses
<1> QED BY <1>1, <1>3, <1>4, <1>5 DEF OneCall, MainSaver!Next

LEMMA SubOneCall == OneCall(sub, sub') => SubSaver!Next
<1>1. ASSUME NEW i \in Ids, Put(sub, i, sub') PROVE SubSaver!Write(i)
  BY <1>1, SameCardinalities
  DEF Put, Excess, With, Without, Held, Absent, SubSaver!Write, SubSaver!Put, SubSaver!Excess,
      SubSaver!With, SubSaver!Without, SubSaver!Held, SubSaver!Absent
<1>2. ASSUME NEW E, sub' = Without(sub, E) PROVE sub' = SubSaver!Without(sub, E)
  BY <1>2 DEF Without, Absent, SubSaver!Without, SubSaver!Absent
<1>3. ASSUME NEW i \in Ids, sub' = Without(sub, {i}) PROVE SubSaver!Purge(i)
  BY <1>2, <1>3 DEF SubSaver!Purge
<1>4. ASSUME NEW E \in SUBSET Expired(sub), sub' = Without(sub, E) PROVE SubSaver!PurgeExpired
  BY <1>2, <1>4 DEF Expired, SubSaver!Expired, SubSaver!PurgeExpired
<1>5. ASSUME sub' = Older(sub) PROVE SubSaver!TimePasses
  BY <1>5 DEF Older, SubSaver!Older, SubSaver!TimePasses
<1> QED BY <1>1, <1>3, <1>4, <1>5 DEF OneCall, SubSaver!Next

\* What a step does to the savers.
LEMMA StepsCall ==
  ASSUME TypeOK, [Next]_vars
  PROVE  /\ OneCall(main, main') \/ main' = main
         /\ OneCall(sub, sub') \/ sub' = sub
<1>1. ASSUME NEW r \in Runs, MainPut(r) PROVE OneCall(main, main') /\ sub' = sub
  <2>1. session[r] \in Ids
    BY <1>1 DEF MainPut, TypeOK
  <2> QED BY <1>1, <2>1 DEF MainPut, OneCall
<1>2. ASSUME NEW r \in Runs, SubPut(r) PROVE OneCall(sub, sub') /\ main' = main
  <2>1. fault[r] \in Ids
    BY <1>2 DEF SubPut, TypeOK
  <2> QED BY <1>2, <2>1 DEF SubPut, OneCall
<1>3. ASSUME NEW c \in Cleaners, PurgeMain(c) PROVE OneCall(main, main') /\ sub' = sub
  <2>1. job[c] \in Ids
    BY <1>3 DEF PurgeMain, TypeOK
  <2> QED BY <1>3, <2>1 DEF PurgeMain, OneCall
<1>4. ASSUME NEW c \in Cleaners, PurgeSub(c) PROVE OneCall(sub, sub') /\ main' = main
  <2>1. job[c] \in Ids
    BY <1>4 DEF PurgeSub, TypeOK
  <2> QED BY <1>4, <2>1 DEF PurgeSub, OneCall
<1>5. CASE PeriodicMain
  BY <1>5 DEF PeriodicMain, OneCall
<1>6. CASE PeriodicSub
  BY <1>6 DEF PeriodicSub, OneCall
<1>7. CASE Tick
  BY <1>7 DEF Tick, OneCall
<1>8. CASE UNCHANGED <<main, sub>>
  BY <1>8
<1> QED
  BY <1>1, <1>2, <1>3, <1>4, <1>5, <1>6, <1>7, <1>8
  DEF Next, Run, Start, Record, Fail, Return, Cleaner, TakeJob, ClearSession, ListSessions, Timer,
      PeriodicSessions, TimerStops, Stop, ShutExecutor, Close, vars

\* The agent uses its savers as AtomicSaver says, for any number of runs, cleaners
\* and ids: what is proved of the sessions holds with any store that implements
\* AtomicSaver.
THEOREM SaversAreAtomic == Spec => SaversAtomic
<1>1. Init => MainSaver!Init /\ SubSaver!Init
  BY DEF Init, Absent, MainSaver!Init, MainSaver!Absent, SubSaver!Init, SubSaver!Absent
<1>2. TypeOK /\ [Next]_vars => [MainSaver!Next]_main /\ [SubSaver!Next]_sub
  BY StepsCall, MainOneCall, SubOneCall
<1> QED BY <1>1, <1>2, TypeCorrect, PTL DEF Spec, SaversAtomic, MainSaver!Spec, SubSaver!Spec

==============================================================================
