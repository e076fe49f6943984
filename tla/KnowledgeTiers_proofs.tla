------------------------- MODULE KnowledgeTiers_proofs -------------------------
(***************************************************************************)
(* Proofs about KnowledgeTiers, for any documents, services, thresholds    *)
(* and limits, any number of searches and of background threads.           *)
(***************************************************************************)
EXTENDS KnowledgeTiers, FiniteSetTheorems, TLAPS

------------------------------------------------------------------------------
(* Types                                                                    *)

Stores ==
    /\ chroma \subseteq Docs /\ es \subseteq Docs /\ cached \subseteq Docs
    /\ unjudged \subseteq Docs
    /\ hits \in [Docs -> Nat] /\ hot \in [Keys -> [Docs -> Nat]]

Searches ==
    /\ rpc \in [Readers -> {"idle", "docs", "es"}]
    /\ asks \in [Readers -> Asks \cup {None}]
    /\ \A r \in Readers : rpc[r] = "idle" <=> asks[r] = None
    /\ ids \in [Readers -> SUBSET Docs]
    /\ \A r \in Readers : rpc[r] # "docs" => ids[r] = {}
    /\ searches \in 0 .. MaxSearches /\ served \in [Docs -> Nat]

Steps == {"idle", "judge", "es", "put", "scan", "delete", "count", "promote"}

\* What a writer's step s says of its task j and of the rest.
Fine(j, s, d, c, f) ==
    /\ j \in Tasks \cup {None} /\ s \in Steps /\ (s = "idle" <=> j = None)
    /\ d \in Docs \cup {None} /\ c \in Nat /\ f \in SUBSET Keys
    /\ s \in {"judge", "es", "put", "scan", "delete"} => j \in StoreTasks
    /\ s \in {"count", "promote"} => j \in HitTasks
    /\ s = "promote" => d \in j.docs /\ j.ask.service # NoService /\ c >= HitThreshold
    /\ d # None => s = "promote"

Background ==
    /\ job \in [Writers -> Tasks \cup {None}] /\ step \in [Writers -> Steps]
    /\ doing \in [Writers -> Docs \cup {None}] /\ count \in [Writers -> Nat]
    /\ found \in [Writers -> SUBSET Keys]
    /\ \A w \in Writers : Fine(job[w], step[w], doing[w], count[w], found[w])

Typed == Stores /\ Searches /\ tasks \in Seq(Tasks) /\ Background

LEMMA TypedTypeOK == Typed => TypeOK
  BY DEF Typed, Stores, Searches, Background, Fine, Steps, TypeOK

LEMMA TypeInit == Init => Typed
  BY TiersAssumption DEF Init, Typed, Stores, Searches, Background, Fine, Steps

LEMMA TasksAreDistinct ==
  /\ \A j \in StoreTasks : /\ j \notin HitTasks /\ j # None /\ j \in Tasks
                           /\ j.kind = "store" /\ j.doc \in Docs
  /\ \A j \in HitTasks : /\ j \notin StoreTasks /\ j # None /\ j.kind = "hits" /\ j \in Tasks
                         /\ j.docs \in (SUBSET Docs) \ {{}} /\ j.ask \in Asks
  BY TiersAssumption DEF StoreTasks, HitTasks, Tasks

\* What is left of a task when one of its documents has been counted.
LEMMA FewerDocs ==
  ASSUME NEW j \in HitTasks, NEW d \in j.docs, j.docs # {d}
  PROVE  LET rest == [j EXCEPT !.docs = @ \ {d}] IN
         rest \in HitTasks /\ rest.docs = j.docs \ {d} /\ rest.ask = j.ask
<1>1. j.docs \ {d} \in (SUBSET Docs) \ {{}}
  BY DEF HitTasks
<1> QED BY <1>1 DEF HitTasks

------------------------------------------------------------------------------
(* What the steps of a writer have in common                                *)

LEMMA WriterMoves ==
  ASSUME Background, NEW w \in Writers, NEW j, NEW s, NEW d, NEW c, NEW f, Fine(j, s, d, c, f),
         job' = [job EXCEPT ![w] = j], step' = [step EXCEPT ![w] = s],
         doing' = [doing EXCEPT ![w] = d], count' = [count EXCEPT ![w] = c],
         found' = [found EXCEPT ![w] = f]
  PROVE  Background'
<1>1. /\ job' \in [Writers -> Tasks \cup {None}] /\ step' \in [Writers -> Steps]
      /\ doing' \in [Writers -> Docs \cup {None}] /\ count' \in [Writers -> Nat]
      /\ found' \in [Writers -> SUBSET Keys]
  BY DEF Background, Fine
<1>2. ASSUME NEW v \in Writers PROVE Fine(job'[v], step'[v], doing'[v], count'[v], found'[v])
  <2>1. CASE v = w
    <3>1. job'[v] = j /\ step'[v] = s /\ doing'[v] = d /\ count'[v] = c /\ found'[v] = f
      BY <2>1 DEF Background
    <3> QED BY <3>1
  <2>2. CASE v # w
    <3>1. /\ job'[v] = job[v] /\ step'[v] = step[v] /\ doing'[v] = doing[v]
          /\ count'[v] = count[v] /\ found'[v] = found[v]
      BY <2>2 DEF Background
    <3> QED BY <3>1 DEF Background
  <2> QED BY <2>1, <2>2
<1> QED BY <1>1, <1>2 DEF Background

LEMMA WriterDone ==
  ASSUME Background, NEW w \in Writers, Done(w)
  PROVE  Background'
<1>1. Fine(None, "idle", None, 0, {})
  BY TiersAssumption DEF Fine, Steps
<1> QED BY <1>1, WriterMoves DEF Done

LEMMA WriterGoes ==
  ASSUME Background, NEW w \in Writers, NEW label \in {"es", "put", "scan"},
         job[w] \in StoreTasks, step[w] # "promote", Go(w, label)
  PROVE  Background'
<1>1. Fine(job[w], label, doing[w], count[w], found[w])
  BY TasksAreDistinct DEF Background, Fine, Steps
<1>2. /\ job' = [job EXCEPT ![w] = job[w]] /\ doing' = [doing EXCEPT ![w] = doing[w]]
      /\ count' = [count EXCEPT ![w] = count[w]] /\ found' = [found EXCEPT ![w] = found[w]]
  BY DEF Go, Background
<1>3. step' = [step EXCEPT ![w] = label]
  BY DEF Go
<1> HIDE DEF Go
<1> QED BY <1>1, <1>2, <1>3, WriterMoves

LEMMA WriterCounted ==
  ASSUME Background, NEW w \in Writers, NEW d, job[w] \in HitTasks, d \in job[w].docs,
         Counted(w, d)
  PROVE  Background'
<1>1. CASE job[w].docs = {d}
  BY <1>1, WriterDone DEF Counted
<1>2. CASE job[w].docs # {d}
  <2> DEFINE rest == [job[w] EXCEPT !.docs = @ \ {d}]
  <2>1. rest \in HitTasks
    BY <1>2, FewerDocs
  <2>2. job' = [job EXCEPT ![w] = rest]
    BY <1>2 DEF Counted, Background
  <2> HIDE DEF rest
  <2>3. Fine(rest, "count", None, 0, found[w])
    BY <2>1, TasksAreDistinct DEF Fine, Background, Steps
  <2>4. found' = [found EXCEPT ![w] = found[w]]
    BY <1>2 DEF Counted, Background
  <2>5. /\ step' = [step EXCEPT ![w] = "count"] /\ doing' = [doing EXCEPT ![w] = None]
        /\ count' = [count EXCEPT ![w] = 0]
    BY <1>2 DEF Counted
  <2> QED BY <2>2, <2>3, <2>4, <2>5, WriterMoves
<1> QED BY <1>1, <1>2

\* What a writer promotes, and into which set.
LEMMA Promoted ==
  ASSUME Background, NEW w \in Writers, step[w] = "promote"
  PROVE  /\ job[w] \in HitTasks /\ job[w].ask \in Asks /\ job[w].ask.service \in Services
         /\ HotKey(job[w].ask) \in Keys
         /\ doing[w] \in job[w].docs /\ doing[w] \in Docs
         /\ count[w] \in Nat /\ count[w] >= HitThreshold
<1>1. /\ job[w] \in HitTasks /\ doing[w] \in job[w].docs /\ job[w].ask.service # NoService
      /\ count[w] \in Nat /\ count[w] >= HitThreshold
  BY DEF Background, Fine
<1>2. job[w].ask \in Asks /\ doing[w] \in Docs
  BY <1>1 DEF HitTasks
<1>3. job[w].ask.service \in Services /\ job[w].ask.alert \in Alerts
  BY <1>1, <1>2 DEF Asks
<1> QED BY <1>1, <1>2, <1>3, TiersAssumption DEF HotKey, Keys

------------------------------------------------------------------------------
(* Types are kept                                                           *)

\* An answer that is counted.
LEMMA TypeAnswer ==
  ASSUME Typed, NEW r \in Readers, NEW D \in SUBSET Docs, D # {}, rpc[r] # "idle",
         Answer(r, D), ids' = [ids EXCEPT ![r] = {}], searches' = searches
  PROVE  Searches' /\ tasks' \in Seq(Tasks)
<1>1. asks[r] \in Asks
  BY DEF Typed, Searches
<1>2. [kind |-> "hits", docs |-> D, ask |-> asks[r]] \in Tasks
  <2>1. D \in (SUBSET Docs) \ {{}}
    OBVIOUS
  <2> QED BY <1>1, <2>1 DEF Tasks, HitTasks
<1>3. tasks' \in Seq(Tasks)
  BY <1>2 DEF Answer, Typed
<1>4. served' \in [Docs -> Nat]
  BY DEF Answer, Typed, Searches
<1> QED BY <1>3, <1>4 DEF Answer, Over, Move, Typed, Searches

LEMMA TypeReader ==
  ASSUME Typed, NEW r \in Readers, Reader(r)
  PROVE  Typed'
<1>1. Stores' /\ Background'
  BY DEF Reader, LookUp, Fetch, SearchEs, redis, writing, Typed, Stores, Background
<1>2. ASSUME NEW ask \in Asks, LookUp(r, ask) PROVE Searches' /\ tasks' = tasks
  <2>1. ask # None /\ searches + 1 \in 0 .. MaxSearches
    BY <1>2, TiersAssumption DEF LookUp, Typed, Searches
  <2>2. CASE \E B \in SUBSET Docs :
               /\ ids' = [ids EXCEPT ![r] = B]
               /\ Move(r, IF B = {} THEN "es" ELSE "docs")
    BY <1>2, <2>1, <2>2 DEF LookUp, Move, Typed, Searches
  <2>3. CASE Move(r, "es") /\ UNCHANGED ids
    BY <1>2, <2>1, <2>3 DEF LookUp, Move, Typed, Searches
  <2> QED BY <1>2, <2>2, <2>3 DEF LookUp
<1>3. ASSUME Fetch(r) PROVE Searches' /\ tasks' \in Seq(Tasks)
  <2>1. CASE ids[r] \cap cached # {} /\ Answer(r, ids[r] \cap cached)
    <3>1. ids[r] \cap cached \in SUBSET Docs
      BY DEF Typed, Searches
    <3> QED BY <1>3, <2>1, <3>1, TypeAnswer DEF Fetch
  <2>2. CASE Move(r, "es") /\ UNCHANGED <<asks, tasks, served>>
    BY <1>3, <2>2 DEF Fetch, Move, Typed, Searches
  <2> QED BY <1>3, <2>1, <2>2 DEF Fetch
<1>4. ASSUME SearchEs(r) PROVE Searches' /\ tasks' \in Seq(Tasks)
  <2>1. ids' = [ids EXCEPT ![r] = {}]
    BY <1>4 DEF SearchEs, Typed, Searches
  <2>2. ASSUME NEW D \in SUBSET Matching(asks[r].service), D # {}, Answer(r, D)
        PROVE  Searches' /\ tasks' \in Seq(Tasks)
    <3>1. D \in SUBSET Docs
      BY DEF Matching, Typed, Stores
    <3> QED BY <1>4, <2>1, <2>2, <3>1, TypeAnswer DEF SearchEs
  <2>3. CASE Over(r) /\ UNCHANGED <<tasks, served>>
    BY <1>4, <2>3 DEF SearchEs, Over, Move, Typed, Searches
  <2> QED BY <1>4, <2>2, <2>3 DEF SearchEs
<1> QED BY <1>1, <1>2, <1>3, <1>4 DEF Reader, Typed

LEMMA TypeTake ==
  ASSUME Typed, NEW w \in Writers, Take(w)
  PROVE  Background' /\ tasks' \in Seq(Tasks)
<1>1. Head(tasks) \in Tasks /\ Tail(tasks) \in Seq(Tasks)
  BY DEF Take, Typed
<1>2. Fine(Head(tasks), IF Head(tasks).kind = "store" THEN "judge" ELSE "count",
           doing[w], count[w], found[w])
  <2>1. step[w] = "idle"
    BY DEF Take, Typed, Background, Fine
  <2>2. doing[w] = None /\ count[w] \in Nat /\ found[w] \in SUBSET Keys
    BY <2>1 DEF Typed, Background, Fine
  <2>3. CASE Head(tasks) \in StoreTasks
    BY <2>2, <2>3, TasksAreDistinct DEF Fine, Steps
  <2>4. CASE Head(tasks) \in HitTasks
    BY <2>2, <2>4, TasksAreDistinct DEF Fine, Steps
  <2> QED BY <1>1, <2>3, <2>4 DEF Tasks
<1>3. /\ doing' = [doing EXCEPT ![w] = doing[w]] /\ count' = [count EXCEPT ![w] = count[w]]
      /\ found' = [found EXCEPT ![w] = found[w]]
  BY DEF Take, Typed, Background
<1>4. Background'
  <2> DEFINE s == IF Head(tasks).kind = "store" THEN "judge" ELSE "count"
  <2>1. job' = [job EXCEPT ![w] = Head(tasks)] /\ step' = [step EXCEPT ![w] = s]
    BY DEF Take
  <2>2. Background /\ Fine(Head(tasks), s, doing[w], count[w], found[w])
    BY <1>2 DEF Typed
  <2> HIDE DEF s
  <2> QED BY <1>3, <2>1, <2>2, WriterMoves
<1> QED BY <1>1, <1>4 DEF Take

\* A document's way through the background.
LEMMA TypeStore ==
  ASSUME Typed, NEW w \in Writers,
         Judge(w) \/ IndexDoc(w) \/ PutDoc(w) \/ Scan(w) \/ Delete(w)
  PROVE  Stores' /\ Background'
<1>1. job[w] \in StoreTasks /\ job[w].doc \in Docs /\ step[w] # "promote"
  BY TasksAreDistinct DEF Judge, IndexDoc, PutDoc, Scan, Delete, Typed, Background, Fine
<1>2. Stores'
  <2>1. CASE Judge(w) \/ Scan(w)
    BY <1>1, <2>1 DEF Judge, Scan, redis, Typed, Stores
  <2>2. CASE IndexDoc(w) \/ PutDoc(w)
    BY <1>1, <2>2 DEF IndexDoc, PutDoc, redis, Typed, Stores
  <2>3. CASE Delete(w)
    <3>1. CASE UNCHANGED hot
      BY <2>3, <3>1 DEF Delete, Typed, Stores
    <3>2. CASE hot' = [k \in Keys |-> IF k \in found[w] THEN [d \in Docs |-> 0] ELSE hot[k]]
      <4>1. ASSUME NEW k \in Keys PROVE hot'[k] \in [Docs -> Nat]
        <5>1. CASE k \in found[w]
          BY <3>2, <5>1
        <5>2. CASE k \notin found[w]
          BY <3>2, <5>2 DEF Typed, Stores
        <5> QED BY <5>1, <5>2
      <4>2. hot' \in [Keys -> [Docs -> Nat]]
        BY <3>2, <4>1
      <4> QED BY <2>3, <4>2 DEF Delete, Typed, Stores
    <3> QED BY <2>3, <3>1, <3>2 DEF Delete
  <2> QED BY <2>1, <2>2, <2>3
<1>3. CASE Judge(w)
  BY <1>1, <1>2, <1>3, WriterGoes, WriterDone DEF Judge, Typed
<1>4. CASE IndexDoc(w)
  BY <1>1, <1>2, <1>4, WriterGoes, WriterDone DEF IndexDoc, Typed
<1>5. CASE PutDoc(w)
  BY <1>1, <1>2, <1>5, WriterGoes DEF PutDoc, Typed
<1>6. CASE Scan(w)
  <2>1. CASE Done(w)
    BY <1>2, <2>1, WriterDone DEF Typed
  <2>2. CASE ~ Done(w)
    <3>1. PICK K \in SUBSET Keys : found' = [found EXCEPT ![w] = K]
      BY <1>6, <2>2 DEF Scan
    <3>2. Fine(job[w], "delete", doing[w], count[w], K)
      BY <1>1, <3>1, TasksAreDistinct DEF Typed, Background, Fine, Steps
    <3>3. /\ job' = [job EXCEPT ![w] = job[w]] /\ doing' = [doing EXCEPT ![w] = doing[w]]
          /\ count' = [count EXCEPT ![w] = count[w]] /\ step' = [step EXCEPT ![w] = "delete"]
      BY <1>6, <2>2 DEF Scan, Typed, Background
    <3> QED BY <1>2, <3>1, <3>2, <3>3, WriterMoves DEF Typed
  <2> QED BY <2>1, <2>2
<1>7. CASE Delete(w)
  BY <1>2, <1>7, WriterDone DEF Delete, Typed
<1> QED BY <1>2, <1>3, <1>4, <1>5, <1>6, <1>7

LEMMA TypeCount ==
  ASSUME Typed, NEW w \in Writers, NEW d \in Docs, Count(w, d)
  PROVE  Stores' /\ Background'
<1>1. job[w] \in HitTasks /\ d \in job[w].docs
  BY DEF Count, Typed, Background, Fine
<1>2. hits' \in [Docs -> Nat] /\ Stores'
  BY DEF Count, Typed, Stores
<1>3. CASE Counted(w, d)
  <2>1. Background
    BY DEF Typed
  <2> QED BY <1>1, <1>2, <1>3, <2>1, WriterCounted
<1>4. CASE ~ Counted(w, d)
  <2>1. PICK n \in Nat : n = hits'[d]
    BY <1>2
  <2>2. /\ job[w].ask.service # NoService /\ n >= HitThreshold
        /\ step' = [step EXCEPT ![w] = "promote"] /\ UNCHANGED <<job, found>>
        /\ doing' = [doing EXCEPT ![w] = d] /\ count' = [count EXCEPT ![w] = n]
    BY <1>4, <2>1, TiersAssumption DEF Count
  <2>3. Background
    BY DEF Typed
  <2>4. Fine(job[w], "promote", d, n, found[w])
    BY <1>1, <2>2, <2>3, TasksAreDistinct DEF Background, Fine, Steps
  <2>5. job' = [job EXCEPT ![w] = job[w]] /\ found' = [found EXCEPT ![w] = found[w]]
    BY <2>2, <2>3 DEF Background
  <2>6. Background'
    BY <2>2, <2>3, <2>4, <2>5, WriterMoves
  <2> QED BY <1>2, <2>6
<1> QED BY <1>2, <1>3, <1>4

LEMMA TypePromote ==
  ASSUME Typed, NEW w \in Writers, Promote(w)
  PROVE  Stores' /\ Background'
<1>1. Background'
  BY Promoted, WriterCounted DEF Promote, Typed
<1>2. hot' \in [Keys -> [Docs -> Nat]]
  <2>1. CASE UNCHANGED hot
    BY <2>1 DEF Typed, Stores
  <2>2. CASE Insert(HotKey(job[w].ask), doing[w], count[w])
    <3>1. hot \in [Keys -> [Docs -> Nat]] /\ count[w] \in Nat
      BY DEF Typed, Stores, Background
    <3>2. [hot[HotKey(job[w].ask)] EXCEPT ![doing[w]] = count[w]] \in [Docs -> Nat]
      BY <3>1, Promoted DEF Promote, Typed
    <3> DEFINE with == [hot[HotKey(job[w].ask)] EXCEPT ![doing[w]] = count[w]]
    <3>3. PICK B \in SUBSET Docs :
            hot' = [hot EXCEPT ![HotKey(job[w].ask)] =
                      [e \in Docs |-> IF e \in B THEN with[e] ELSE 0]]
      BY <2>2 DEF Insert
    <3> HIDE DEF with
    <3>4. [e \in Docs |-> IF e \in B THEN with[e] ELSE 0] \in [Docs -> Nat]
      BY <3>2 DEF with
    <3> QED BY <3>1, <3>3, <3>4
  <2> QED BY <2>1, <2>2 DEF Promote
<1> QED BY <1>1, <1>2 DEF Promote, Typed, Stores

LEMMA TypeWriter ==
  ASSUME Typed, NEW w \in Writers, Writer(w)
  PROVE  Typed'
<1>1. Searches'
  BY DEF Writer, Take, Judge, IndexDoc, PutDoc, Scan, Delete, Count, Promote, reading, Typed, Searches
<1>2. CASE Take(w)
  <2>1. Stores'
    BY <1>2 DEF Take, redis, Typed, Stores
  <2> QED BY <1>1, <1>2, <2>1, TypeTake DEF Typed
<1>3. CASE ~ Take(w)
  <2>1. tasks' \in Seq(Tasks)
    BY <1>3 DEF Writer, Judge, IndexDoc, PutDoc, Scan, Delete, Count, Promote, Typed
  <2> QED BY <1>1, <1>3, <2>1, TypeStore, TypeCount, TypePromote DEF Writer, Typed
<1> QED BY <1>2, <1>3

LEMMA TypeNext == Typed /\ [Next]_vars => Typed'
<1> SUFFICES ASSUME Typed, [Next]_vars PROVE Typed'
  OBVIOUS
<1>1. ASSUME NEW r \in Readers, Reader(r) PROVE Typed'
  BY <1>1, TypeReader
<1>2. ASSUME NEW w \in Writers, Writer(w) PROVE Typed'
  BY <1>2, TypeWriter
<1>3. ASSUME NEW d \in Docs, Know(d) PROVE Typed'
  <2>1. [kind |-> "store", doc |-> d] \in Tasks
    BY DEF Tasks, StoreTasks
  <2>2. tasks' \in Seq(Tasks)
    BY <1>3, <2>1 DEF Know, Typed
  <2> QED BY <1>3, <2>2 DEF Know, Typed, Stores, Searches, Background, redis, reading, writing
<1>4. ASSUME NEW d \in Docs, ExpireDoc(d) \/ ExpireHits(d) PROVE Typed'
  <2>1. Stores'
    <3>1. CASE ExpireDoc(d)
      BY <3>1 DEF ExpireDoc, writing, Typed, Stores
    <3>2. CASE ExpireHits(d)
      BY <3>2 DEF ExpireHits, writing, Typed, Stores
    <3> QED BY <1>4, <3>1, <3>2
  <2> QED BY <1>4, <2>1 DEF ExpireDoc, ExpireHits, Typed, Searches, Background, reading, writing
<1>5. ASSUME NEW k \in Keys, ExpireHot(k) PROVE Typed'
  <2>1. Stores'
    BY <1>5 DEF ExpireHot, writing, Typed, Stores
  <2> QED BY <1>5, <2>1 DEF ExpireHot, Typed, Searches, Background, reading, writing
<1>6. CASE Crash
  <2>1. Stores' /\ Searches'
    BY <1>6 DEF Crash, redis, Typed, Stores, Searches
  <2>2. Background'
    BY <1>6, TiersAssumption DEF Crash, Background, Fine, Steps
  <2> QED BY <1>6, <2>1, <2>2 DEF Crash, Typed
<1>7. CASE UNCHANGED vars
  BY <1>7 DEF vars, redis, reading, writing, Typed, Stores, Searches, Background
<1> QED BY <1>1, <1>2, <1>3, <1>4, <1>5, <1>6, <1>7 DEF Next

\* Every variable keeps its type, and a writer has a task exactly while it is at
\* some step of it, whatever fails on the way.
THEOREM TypeCorrect == Spec => []TypeOK
  BY TypeInit, TypeNext, TypedTypeOK, PTL DEF Spec

------------------------------------------------------------------------------
(* What is hot is good, indexed, and the service's own                       *)

\* Documents are counted for the service and alert type of a search: they are
\* the service's own if its name is plain.
Own(D, ask) ==
    ask.service \in Services /\ Plain(ask.service) =>
        \A d \in D : ServiceOf[d] = ask.service

\* So are those a search has read or an answer held, wherever they wait; all of
\* them are in Elasticsearch.
Attributed ==
    /\ \A r \in Readers : asks[r] # None => ids[r] \subseteq es /\ Own(ids[r], asks[r])
    /\ \A i \in DOMAIN tasks : tasks[i] \in HitTasks =>
        tasks[i].docs \subseteq es /\ Own(tasks[i].docs, tasks[i].ask)
    /\ \A w \in Writers : job[w] \in HitTasks =>
        job[w].docs \subseteq es /\ Own(job[w].docs, job[w].ask)

\* A document past the judge is good, or the judge failed on it.
Judged ==
    \A w \in Writers : step[w] \in {"es", "put", "scan", "delete"} =>
        job[w].doc \in GoodDocs \cup unjudged

TiersInv == Typed /\ Attributed /\ Judged /\ OwnDocsHot /\ FastTiersJudged

LEMMA Appended ==
  ASSUME NEW S, NEW s \in Seq(S), NEW j
  PROVE  /\ DOMAIN Append(s, j) = 1 .. Len(s) + 1
         /\ \A i \in DOMAIN s : Append(s, j)[i] = s[i]
         /\ Append(s, j)[Len(s) + 1] = j
         /\ DOMAIN s = 1 .. Len(s) /\ Len(s) \in Nat
  OBVIOUS

LEMMA Shifted ==
  ASSUME NEW S, NEW s \in Seq(S), s # << >>
  PROVE  /\ 1 \in DOMAIN s /\ Head(s) = s[1]
         /\ DOMAIN Tail(s) = 1 .. Len(s) - 1 /\ DOMAIN s = 1 .. Len(s) /\ Len(s) \in Nat
         /\ \A i \in DOMAIN Tail(s) : i + 1 \in DOMAIN s /\ Tail(s)[i] = s[i + 1]
  OBVIOUS

LEMMA InvInit == Init => TiersInv
<1> SUFFICES ASSUME Init PROVE TiersInv
  OBVIOUS
<1>1. \A k \in Keys : Members(hot[k]) = {}
  BY DEF Init, Members
<1>2. Attributed /\ Judged
  BY TiersAssumption DEF Init, Attributed, Judged, Tasks
<1>3. OwnDocsHot
  <2>1. ASSUME NEW s \in Services, NEW a \in Alerts PROVE Members(hot[<<s, a>>]) = {}
    <3>1. <<s, a>> \in Keys
      BY DEF Keys
    <3> QED BY <1>1, <3>1
  <2> QED BY <2>1 DEF OwnDocsHot
<1>4. FastTiersJudged
  BY <1>1 DEF Init, FastTiersJudged
<1> QED BY <1>2, <1>3, <1>4, TypeInit DEF TiersInv

\* An answer's task is well attributed if its documents are.
LEMMA AnswerAttributed ==
  ASSUME TiersInv, NEW r \in Readers, NEW D \in (SUBSET Docs) \ {{}}, rpc[r] # "idle",
         D \subseteq es, Own(D, asks[r]), Answer(r, D), ids' = [ids EXCEPT ![r] = {}],
         UNCHANGED <<es, job>>
  PROVE  Attributed'
<1> DEFINE j == [kind |-> "hits", docs |-> D, ask |-> asks[r]]
<1>1. tasks' = Append(tasks, j) /\ tasks \in Seq(Tasks)
  BY DEF Answer, TiersInv, Typed
<1>2. j.docs = D /\ j.ask = asks[r]
  OBVIOUS
<1> HIDE DEF j
<1>3. ASSUME NEW i \in DOMAIN tasks', tasks'[i] \in HitTasks
      PROVE  tasks'[i].docs \subseteq es /\ Own(tasks'[i].docs, tasks'[i].ask)
  <2>1. CASE i \in DOMAIN tasks
    BY <1>1, <1>3, <2>1, Appended DEF TiersInv, Attributed
  <2>2. CASE i = Len(tasks) + 1
    <3>1. tasks'[i] = j
      BY <1>1, <2>2, Appended
    <3> QED BY <1>2, <3>1
  <2>3. i \in 1 .. Len(tasks) + 1 /\ DOMAIN tasks = 1 .. Len(tasks) /\ Len(tasks) \in Nat
    BY <1>1, Appended
  <2> QED BY <2>1, <2>2, <2>3
<1>4. ASSUME NEW q \in Readers, asks'[q] # None
      PROVE  ids'[q] \subseteq es /\ Own(ids'[q], asks'[q])
  <2>1. q # r /\ asks'[q] = asks[q] /\ ids'[q] = ids[q]
    BY <1>4 DEF Answer, Over, TiersInv, Typed, Searches
  <2> QED BY <1>4, <2>1 DEF TiersInv, Attributed
<1> QED BY <1>3, <1>4 DEF TiersInv, Attributed

\* What a search reads of a hot set.
LEMMA HotAttributed ==
  ASSUME TiersInv, NEW ask \in Asks, ask.service # NoService,
         NEW B \in SUBSET Members(hot[HotKey(ask)])
  PROVE  B \subseteq es /\ Own(B, ask)
<1>1. ask.service \in Services /\ ask.alert \in Alerts /\ HotKey(ask) \in Keys
  BY TiersAssumption DEF Asks, HotKey, Keys
<1>2. B \subseteq es
  BY <1>1 DEF TiersInv, FastTiersJudged
<1>3. ASSUME Plain(ask.service) PROVE \A d \in B : ServiceOf[d] = ask.service
  <2>1. Safe[ask.service] = ask.service
    BY <1>1, <1>3 DEF Plain
  <2>2. HotKey(ask) = <<ask.service, ask.alert>>
    BY <2>1 DEF HotKey
  <2> QED BY <1>1, <1>3, <2>2 DEF TiersInv, OwnDocsHot
<1> QED BY <1>2, <1>3 DEF Own

LEMMA ReaderAttributed ==
  ASSUME TiersInv, NEW r \in Readers, Reader(r)
  PROVE  Attributed'
<1>1. UNCHANGED <<es, job>>
  BY DEF Reader, LookUp, Fetch, SearchEs, writing
<1>2. ASSUME NEW ask \in Asks, LookUp(r, ask) PROVE Attributed'
  <2>1. ids'[r] \subseteq es /\ Own(ids'[r], ask) /\ asks'[r] = ask
    <3>0. rpc[r] = "idle" /\ ids[r] = {} /\ asks'[r] = ask
      BY <1>2 DEF LookUp, TiersInv, Typed, Searches
    <3>1. CASE UNCHANGED ids
      BY <3>0, <3>1 DEF Own
    <3>2. CASE /\ ask.service # NoService
               /\ \E B \in SUBSET Docs : /\ Best(hot[HotKey(ask)], HotTop, B)
                                        /\ ids' = [ids EXCEPT ![r] = B]
      <4>1. PICK B \in SUBSET Docs : /\ Best(hot[HotKey(ask)], HotTop, B)
                                    /\ ids' = [ids EXCEPT ![r] = B]
        BY <3>2
      <4>2. B \subseteq Members(hot[HotKey(ask)])
        BY <4>1 DEF Best
      <4>3. ids'[r] = B
        BY <4>1 DEF TiersInv, Typed, Searches
      <4> QED BY <3>0, <3>2, <4>2, <4>3, HotAttributed
    <3> QED BY <1>2, <3>1, <3>2 DEF LookUp
  <2>2. \A q \in Readers : q # r => asks'[q] = asks[q] /\ ids'[q] = ids[q]
    BY <1>2 DEF LookUp, TiersInv, Typed, Searches
  <2>3. tasks' = tasks
    BY <1>2 DEF LookUp
  <2> QED BY <1>1, <2>1, <2>2, <2>3 DEF TiersInv, Attributed
<1>3. ASSUME rpc' = [rpc EXCEPT ![r] = "es"], UNCHANGED <<asks, tasks>>, ids' = [ids EXCEPT ![r] = {}]
      PROVE  Attributed'
  <2>1. \A q \in Readers : ids'[q] \subseteq ids[q]
    BY <1>3 DEF TiersInv, Typed, Searches
  <2> QED BY <1>1, <1>3, <2>1 DEF TiersInv, Attributed, Own
<1>4. ASSUME Fetch(r) PROVE Attributed'
  <2>1. CASE ids[r] \cap cached # {} /\ Answer(r, ids[r] \cap cached)
    <3>1. ids[r] \cap cached \in (SUBSET Docs) \ {{}} /\ asks[r] # None
      BY <1>4, <2>1 DEF Fetch, TiersInv, Typed, Searches
    <3>2. ids[r] \cap cached \subseteq es /\ Own(ids[r] \cap cached, asks[r])
      BY <3>1 DEF TiersInv, Attributed, Own
    <3> QED BY <1>1, <1>4, <2>1, <3>1, <3>2, AnswerAttributed DEF Fetch
  <2> QED BY <1>3, <1>4, <2>1 DEF Fetch, Move
<1>5. ASSUME SearchEs(r) PROVE Attributed'
  <2>1. ids' = [ids EXCEPT ![r] = {}]
    BY <1>5 DEF SearchEs, TiersInv, Typed, Searches
  <2>2. ASSUME NEW D \in SUBSET Matching(asks[r].service), D # {}, Answer(r, D) PROVE Attributed'
    <3>1. D \in (SUBSET Docs) \ {{}} /\ D \subseteq es
      BY <2>2 DEF Matching, TiersInv, Typed, Stores
    <3>2. Own(D, asks[r])
      BY TiersAssumption DEF Matching, Own, Plain
    <3> QED BY <1>1, <1>5, <2>1, <2>2, <3>1, <3>2, AnswerAttributed DEF SearchEs
  <2>3. CASE Over(r) /\ UNCHANGED tasks
    <3>1. \A q \in Readers : ids'[q] = ids[q] /\ (asks'[q] # None => asks'[q] = asks[q])
      BY <1>5, <2>3 DEF SearchEs, Over, TiersInv, Typed, Searches
    <3> QED BY <1>1, <2>3, <3>1 DEF TiersInv, Attributed
  <2> QED BY <1>5, <2>2, <2>3 DEF SearchEs
<1> QED BY <1>2, <1>4, <1>5 DEF Reader

LEMMA WriterAttributed ==
  ASSUME TiersInv, NEW w \in Writers, Writer(w)
  PROVE  Attributed'
<1>1. UNCHANGED <<asks, ids>> /\ es \subseteq es'
  BY DEF Writer, Take, Judge, IndexDoc, PutDoc, Scan, Delete, Count, Promote, reading
<1>2. CASE Take(w)
  <2>1. job' = [job EXCEPT ![w] = Head(tasks)] /\ tasks' = Tail(tasks) /\ tasks # << >>
    BY <1>2 DEF Take
  <2>2. tasks \in Seq(Tasks)
    BY DEF TiersInv, Typed
  <2>3. 1 \in DOMAIN tasks /\ Head(tasks) = tasks[1]
        /\ \A i \in DOMAIN tasks' : i + 1 \in DOMAIN tasks /\ tasks'[i] = tasks[i + 1]
    BY <2>1, <2>2, Shifted
  <2>4. job'[w] = tasks[1] /\ \A v \in Writers \ {w} : job'[v] = job[v]
    BY <2>1, <2>3 DEF TiersInv, Typed, Background
  <2> QED BY <1>1, <2>3, <2>4 DEF TiersInv, Attributed
<1>3. ASSUME tasks' = tasks,
             \A v \in Writers : job'[v] \in HitTasks =>
                 job[v] \in HitTasks /\ job'[v].docs \subseteq job[v].docs /\ job'[v].ask = job[v].ask
      PROVE  Attributed'
  BY <1>1, <1>3 DEF TiersInv, Attributed, Own
<1>4. ASSUME Done(w), tasks' = tasks PROVE Attributed'
  <2>1. \A v \in Writers : job'[v] \in HitTasks => job'[v] = job[v]
    BY <1>4, TasksAreDistinct DEF Done, TiersInv, Typed, Background
  <2> QED BY <1>3, <1>4, <2>1
<1>5. ASSUME NEW d, Counted(w, d), tasks' = tasks, job[w] \in HitTasks, d \in job[w].docs
      PROVE  Attributed'
  <2>1. CASE job[w].docs # {d}
    <3> DEFINE rest == [job[w] EXCEPT !.docs = @ \ {d}]
    <3>1. rest.docs \subseteq job[w].docs /\ rest.ask = job[w].ask
      BY <1>5, <2>1, FewerDocs
    <3>2. job' = [job EXCEPT ![w] = rest]
      BY <1>5, <2>1 DEF Counted, TiersInv, Typed, Background
    <3> HIDE DEF rest
    <3>3. job'[w] = rest /\ \A v \in Writers \ {w} : job'[v] = job[v]
      BY <3>2 DEF TiersInv, Typed, Background
    <3> QED BY <1>3, <1>5, <3>1, <3>3
  <2> QED BY <1>4, <1>5, <2>1 DEF Counted
<1>6. CASE Judge(w) \/ IndexDoc(w) \/ PutDoc(w) \/ Scan(w) \/ Delete(w)
  <2>1. tasks' = tasks /\ (Done(w) \/ UNCHANGED job)
    BY <1>6 DEF Judge, IndexDoc, PutDoc, Scan, Delete, Go
  <2> QED BY <1>3, <1>4, <2>1
<1>7. CASE Promote(w)
  <2>1. tasks' = tasks /\ Counted(w, doing[w])
    BY <1>7 DEF Promote
  <2>2. job[w] \in HitTasks /\ doing[w] \in job[w].docs
    BY <1>7, Promoted DEF Promote, TiersInv, Typed
  <2> QED BY <1>5, <2>1, <2>2
<1>8. ASSUME NEW d \in Docs, Count(w, d) PROVE Attributed'
  <2>1. tasks' = tasks /\ (Counted(w, d) \/ UNCHANGED job)
    BY <1>8 DEF Count
  <2>2. job[w] \in HitTasks /\ d \in job[w].docs
    BY <1>8 DEF Count, TiersInv, Typed, Background, Fine
  <2> QED BY <1>3, <1>5, <2>1, <2>2
<1> QED BY <1>2, <1>6, <1>7, <1>8 DEF Writer

LEMMA AttributedNext == TiersInv /\ [Next]_vars => Attributed'
<1> SUFFICES ASSUME TiersInv, [Next]_vars PROVE Attributed'
  OBVIOUS
<1>1. ASSUME NEW r \in Readers, Reader(r) PROVE Attributed'
  BY <1>1, ReaderAttributed
<1>2. ASSUME NEW w \in Writers, Writer(w) PROVE Attributed'
  BY <1>2, WriterAttributed
<1>3. ASSUME NEW d \in Docs, Know(d) PROVE Attributed'
  <2> DEFINE j == [kind |-> "store", doc |-> d]
  <2>1. tasks' = Append(tasks, j) /\ tasks \in Seq(Tasks) /\ j \notin HitTasks
    BY <1>3, TasksAreDistinct DEF Know, TiersInv, Typed, StoreTasks
  <2> HIDE DEF j
  <2>2. \A i \in DOMAIN tasks' : i \in DOMAIN tasks \/ i = Len(tasks) + 1
    BY <2>1, Appended
  <2>3. \A i \in DOMAIN tasks' : tasks'[i] \in HitTasks => i \in DOMAIN tasks /\ tasks'[i] = tasks[i]
    BY <2>1, <2>2, Appended
  <2>4. UNCHANGED <<asks, ids, job, es>>
    BY <1>3 DEF Know, reading, writing
  <2> QED BY <2>3, <2>4 DEF TiersInv, Attributed
<1>4. ASSUME UNCHANGED <<asks, ids, tasks, job, es>> PROVE Attributed'
  BY <1>4 DEF TiersInv, Attributed
<1>5. ASSUME NEW d \in Docs, ExpireDoc(d) \/ ExpireHits(d) PROVE Attributed'
  BY <1>4, <1>5 DEF ExpireDoc, ExpireHits, reading, writing
<1>6. ASSUME NEW k \in Keys, ExpireHot(k) PROVE Attributed'
  BY <1>4, <1>6 DEF ExpireHot, reading, writing
<1>7. CASE Crash
  <2>1. tasks' = << >> /\ (\A r \in Readers : asks'[r] = None)
        /\ (\A w \in Writers : job'[w] = None)
    BY <1>7 DEF Crash
  <2> QED BY <2>1, TasksAreDistinct DEF Attributed
<1>8. CASE UNCHANGED vars
  BY <1>4, <1>8 DEF vars, reading, writing
<1> QED BY <1>1, <1>2, <1>3, <1>5, <1>6, <1>7, <1>8 DEF Next

\* Judged documents stay so: only the judge lets one past it.
LEMMA JudgedNext == TiersInv /\ [Next]_vars => Judged' /\ (es \cup cached \subseteq GoodDocs \cup unjudged)'
<1> SUFFICES ASSUME TiersInv, [Next]_vars
             PROVE  Judged' /\ (es \cup cached \subseteq GoodDocs \cup unjudged)'
  OBVIOUS
<1>1. ASSUME NEW r \in Readers, Reader(r) PROVE UNCHANGED <<job, step, es, cached, unjudged>>
  BY <1>1 DEF Reader, LookUp, Fetch, SearchEs, redis, writing
<1>2. ASSUME UNCHANGED <<job, step, es, unjudged>>, cached' \subseteq cached
      PROVE  Judged' /\ (es \cup cached \subseteq GoodDocs \cup unjudged)'
  BY <1>2 DEF TiersInv, Judged, FastTiersJudged
<1>3. ASSUME NEW w \in Writers, Writer(w)
      PROVE  Judged' /\ (es \cup cached \subseteq GoodDocs \cup unjudged)'
  <2>1. \A v \in Writers \ {w} : job'[v] = job[v] /\ step'[v] = step[v]
    BY <1>3 DEF Writer, Take, Judge, IndexDoc, PutDoc, Scan, Delete, Count, Promote, Counted, Done, Go,
                TiersInv, Typed, Background
  <2>2. unjudged \subseteq unjudged'
    BY <1>3 DEF Writer, Take, Judge, IndexDoc, PutDoc, Scan, Delete, Count, Promote
  <2>3. step'[w] \in {"es", "put", "scan", "delete"} =>
          /\ job'[w] = job[w]
          /\ \/ step[w] \in {"es", "put", "scan", "delete"}
             \/ job[w].doc \in GoodDocs \cup unjudged'
    BY <1>3 DEF Writer, Take, Judge, IndexDoc, PutDoc, Scan, Delete, Count, Promote, Counted, Done, Go,
                TiersInv, Typed, Background
  <2>4. Judged'
    BY <2>1, <2>2, <2>3 DEF TiersInv, Judged
  <2>5. es' \cup cached' \subseteq es \cup cached \/
        (step[w] \in {"es", "put"} /\ es' \cup cached' \subseteq es \cup cached \cup {job[w].doc})
    BY <1>3 DEF Writer, Take, Judge, IndexDoc, PutDoc, Scan, Delete, Count, Promote, redis
  <2> QED BY <2>2, <2>4, <2>5 DEF TiersInv, Judged, FastTiersJudged
<1>4. ASSUME NEW d \in Docs, Know(d) \/ ExpireDoc(d) \/ ExpireHits(d)
      PROVE  UNCHANGED <<job, step, es, unjudged>> /\ cached' \subseteq cached
  BY <1>4 DEF Know, ExpireDoc, ExpireHits, redis, writing
<1>5. ASSUME NEW k \in Keys, ExpireHot(k) PROVE UNCHANGED <<job, step, es, cached, unjudged>>
  BY <1>5 DEF ExpireHot, writing
<1>6. CASE Crash
  BY <1>6 DEF Crash, redis, TiersInv, Judged, FastTiersJudged
<1>7. CASE UNCHANGED vars
  BY <1>2, <1>7 DEF vars, redis, writing
<1> QED BY <1>1, <1>2, <1>3, <1>4, <1>5, <1>6, <1>7 DEF Next

------------------------------------------------------------------------------
(* The hot sets                                                             *)

\* What a set holds once d is in it and the worst have left.
LEMMA InsertMembers ==
  ASSUME Typed, NEW k \in Keys, NEW d \in Docs, NEW n \in Nat, Insert(k, d, n)
  PROVE  /\ Members(hot'[k]) \subseteq Members(hot[k]) \cup {d}
         /\ Cardinality(Members(hot'[k])) <= HotMax
         /\ \A e \in Members(hot'[k]) : hot'[k][e] = IF e = d THEN n ELSE hot[k][e]
         /\ \A l \in Keys \ {k} : hot'[l] = hot[l]
<1> DEFINE with == [hot[k] EXCEPT ![d] = n]
<1>1. PICK B \in SUBSET Docs :
        /\ Best(with, HotMax, B)
        /\ hot' = [hot EXCEPT ![k] = [e \in Docs |-> IF e \in B THEN with[e] ELSE 0]]
  BY DEF Insert
<1>2. hot \in [Keys -> [Docs -> Nat]]
  BY DEF Typed, Stores
<1>3. \A e \in Docs : with[e] = IF e = d THEN n ELSE hot[k][e]
  BY <1>2
<1> HIDE DEF with
<1>4. hot'[k] = [e \in Docs |-> IF e \in B THEN with[e] ELSE 0]
  BY <1>1, <1>2
<1>5. B \subseteq Members(with) /\ Cardinality(B) <= HotMax
  BY <1>1 DEF Best
<1>6. Members(hot'[k]) = B
  BY <1>4, <1>5 DEF Members
<1>7. B \subseteq Members(hot[k]) \cup {d}
  BY <1>3, <1>5 DEF Members
<1>8. \A e \in B : hot'[k][e] = IF e = d THEN n ELSE hot[k][e]
  BY <1>3, <1>4
<1>9. \A l \in Keys \ {k} : hot'[l] = hot[l]
  BY <1>1, <1>2
<1> QED BY <1>5, <1>6, <1>7, <1>8, <1>9

\* A step promotes one document into one set, or each set stays or is emptied.
LEMMA HotChanges ==
  ASSUME Typed, [Next]_vars
  PROVE  \/ \E w \in Writers : Promote(w) /\ Insert(HotKey(job[w].ask), doing[w], count[w])
         \/ \A k \in Keys : hot'[k] = hot[k] \/ hot'[k] = [d \in Docs |-> 0]
<1>1. hot \in [Keys -> [Docs -> Nat]]
  BY DEF Typed, Stores
<1>2. ASSUME NEW r \in Readers, Reader(r) PROVE UNCHANGED hot
  BY <1>2 DEF Reader, LookUp, Fetch, SearchEs, redis
<1>3. ASSUME NEW w \in Writers, Writer(w),
             ~ (Promote(w) /\ Insert(HotKey(job[w].ask), doing[w], count[w]))
      PROVE  UNCHANGED hot \/ \A k \in Keys : hot'[k] = hot[k] \/ hot'[k] = [d \in Docs |-> 0]
  <2>1. CASE Delete(w)
    BY <1>1, <2>1 DEF Delete
  <2>2. CASE Promote(w)
    BY <1>3, <2>2 DEF Promote
  <2> QED BY <1>3, <2>1, <2>2 DEF Writer, Take, Judge, IndexDoc, PutDoc, Scan, Count, redis
<1>4. ASSUME NEW d \in Docs, Know(d) \/ ExpireDoc(d) \/ ExpireHits(d) PROVE UNCHANGED hot
  BY <1>4 DEF Know, ExpireDoc, ExpireHits, redis
<1>5. ASSUME NEW k \in Keys, ExpireHot(k)
      PROVE  \A l \in Keys : hot'[l] = hot[l] \/ hot'[l] = [d \in Docs |-> 0]
  BY <1>1, <1>5 DEF ExpireHot
<1>6. CASE Crash
  BY <1>6 DEF Crash, redis
<1>7. CASE UNCHANGED vars
  BY <1>7 DEF vars, redis
<1> QED BY <1>2, <1>3, <1>4, <1>5, <1>6, <1>7 DEF Next

LEMMA EmptySet == Members([d \in Docs |-> 0]) = {}
  BY DEF Members

LEMMA EsGrows == [Next]_vars => es \subseteq es'
  BY DEF Next, Reader, LookUp, Fetch, SearchEs, Writer, Take, Judge, IndexDoc, PutDoc, Scan, Delete,
         Count, Promote, Know, ExpireDoc, ExpireHits, ExpireHot, Crash, vars, redis, reading, writing

LEMMA HotNext ==
  TiersInv /\ [Next]_vars =>
      OwnDocsHot' /\ (\A k \in Keys : Members(hot[k]) \subseteq es)'
<1> SUFFICES ASSUME TiersInv, [Next]_vars
             PROVE  OwnDocsHot' /\ (\A k \in Keys : Members(hot[k]) \subseteq es)'
  OBVIOUS
<1>1. CASE \E w \in Writers : Promote(w) /\ Insert(HotKey(job[w].ask), doing[w], count[w])
  <2>1. PICK w \in Writers : Promote(w) /\ Insert(HotKey(job[w].ask), doing[w], count[w])
    BY <1>1
  <2> DEFINE key == HotKey(job[w].ask)
  <2>2. /\ job[w] \in HitTasks /\ job[w].ask \in Asks /\ job[w].ask.service \in Services
        /\ key \in Keys /\ doing[w] \in job[w].docs /\ doing[w] \in Docs /\ count[w] \in Nat
    BY <2>1, Promoted DEF Promote, TiersInv, Typed
  <2>3. /\ Members(hot'[key]) \subseteq Members(hot[key]) \cup {doing[w]}
        /\ \A l \in Keys \ {key} : hot'[l] = hot[l]
    BY <2>1, <2>2, InsertMembers DEF TiersInv
  <2>4. doing[w] \in es
    BY <2>2 DEF TiersInv, Attributed
  <2>5. \A k \in Keys : Members(hot'[k]) \subseteq Members(hot[k]) \cup es
    BY <2>3, <2>4
  <2>6. ASSUME NEW s \in Services, NEW a \in Alerts, Plain(s), NEW d \in Members(hot'[<<s, a>>])
        PROVE  ServiceOf[d] = s
    <3>1. <<s, a>> \in Keys
      BY DEF Keys
    <3>2. CASE d \in Members(hot[<<s, a>>])
      BY <2>6, <3>2 DEF TiersInv, OwnDocsHot
    <3>3. CASE d \notin Members(hot[<<s, a>>])
      <4>1. <<s, a>> = key /\ d = doing[w]
        BY <2>3, <2>6, <3>1, <3>3
      <4>2. s = Safe[job[w].ask.service]
        BY <4>1 DEF HotKey
      <4>3. s = job[w].ask.service
        BY <2>2, <2>6, <4>2 DEF Plain
      <4> QED BY <2>2, <2>6, <4>1, <4>3 DEF TiersInv, Attributed, Own
    <3> QED BY <3>2, <3>3
  <2>7. OwnDocsHot'
    BY <2>6 DEF OwnDocsHot, Plain
  <2> QED BY <2>5, <2>7, EsGrows DEF TiersInv, FastTiersJudged
<1>2. CASE \A k \in Keys : hot'[k] = hot[k] \/ hot'[k] = [d \in Docs |-> 0]
  <2>1. \A k \in Keys : Members(hot'[k]) = Members(hot[k]) \/ Members(hot'[k]) = {}
    BY <1>2, EmptySet
  <2>2. \A s \in Services, a \in Alerts : <<s, a>> \in Keys
    BY DEF Keys
  <2>3. OwnDocsHot'
    BY <2>1, <2>2 DEF TiersInv, OwnDocsHot, Plain
  <2> QED BY <2>1, <2>3, EsGrows DEF TiersInv, FastTiersJudged
<1> QED BY <1>1, <1>2, HotChanges DEF TiersInv

LEMMA InvNext == TiersInv /\ [Next]_vars => TiersInv'
<1> SUFFICES ASSUME TiersInv, [Next]_vars PROVE TiersInv'
  OBVIOUS
<1>1. Typed' /\ Attributed' /\ Judged' /\ OwnDocsHot'
  BY TypeNext, AttributedNext, JudgedNext, HotNext DEF TiersInv
<1>2. FastTiersJudged'
  BY JudgedNext, HotNext DEF FastTiersJudged
<1> QED BY <1>1, <1>2 DEF TiersInv

\* A service's hot documents are its own, for every service whose name is its own
\* key: through the search, the queue, the count and the promotion the service
\* and the documents stay together.
THEOREM HotDocsAreOwn == Spec => []OwnDocsHot
<1>1. TiersInv => OwnDocsHot
  BY DEF TiersInv
<1> QED BY <1>1, InvInit, InvNext, PTL DEF Spec

\* Whatever fails, Elasticsearch and Redis hold only documents that the judge let
\* through, and what is hot is in Elasticsearch.
THEOREM FastTiersAreJudged == Spec => []FastTiersJudged
<1>1. TiersInv => FastTiersJudged
  BY DEF TiersInv
<1> QED BY <1>1, InvInit, InvNext, PTL DEF Spec

------------------------------------------------------------------------------
(* No hit is counted twice                                                  *)

\* The hits of d that are still to be recorded: in the queue and in the writers.
Queued(d) == {i \in DOMAIN tasks : tasks[i] \in HitTasks /\ d \in tasks[i].docs}
InHand(d) == {w \in Writers : job[w] \in HitTasks /\ d \in job[w].docs /\ d # doing[w]}
Owed(d) == Cardinality(Queued(d)) + Cardinality(InHand(d))

\* Each hit that is or will be recorded belongs to an answer of its own.
HitsOwed == \A d \in Docs : hits[d] + Owed(d) <= served[d]

\* So a count that is about to become a score, or is one, was served.
CountServed == \A w \in Writers : step[w] = "promote" => count[w] <= served[doing[w]]
ScoreServed == \A k \in Keys : \A d \in Members(hot[k]) : hot[k][d] \in HitThreshold .. served[d]

LEMMA OwedFinite ==
  ASSUME Typed, NEW d
  PROVE  /\ IsFiniteSet(Queued(d)) /\ IsFiniteSet(InHand(d))
         /\ Cardinality(Queued(d)) \in Nat /\ Cardinality(InHand(d)) \in Nat /\ Owed(d) \in Nat
<1>1. Len(tasks) \in Nat /\ DOMAIN tasks = 1 .. Len(tasks)
  BY DEF Typed
<1>2. IsFiniteSet(1 .. Len(tasks))
  BY <1>1, FS_Interval
<1>3. IsFiniteSet(Queued(d))
  BY <1>1, <1>2, FS_Subset DEF Queued
<1>4. IsFiniteSet(InHand(d))
  BY TiersAssumption, FS_Subset DEF InHand
<1> QED BY <1>3, <1>4, FS_CardinalityType DEF Owed

\* The cardinalities after a step.
LEMMA OwedAfter ==
  ASSUME Typed, Typed', NEW d
  PROVE  /\ Cardinality(Queued(d)') \in Nat /\ Cardinality(InHand(d)') \in Nat
         /\ Owed(d)' = Cardinality(Queued(d)') + Cardinality(InHand(d)')
         /\ Queued(d)' \subseteq Queued(d) => Cardinality(Queued(d)') <= Cardinality(Queued(d))
         /\ InHand(d)' \subseteq InHand(d) => Cardinality(InHand(d)') <= Cardinality(InHand(d))
<1>1. Len(tasks') \in Nat /\ DOMAIN tasks' = 1 .. Len(tasks')
  BY DEF Typed
<1>2. IsFiniteSet(1 .. Len(tasks'))
  BY <1>1, FS_Interval
<1>3. IsFiniteSet(Queued(d)')
  BY <1>1, <1>2, FS_Subset DEF Queued
<1>4. IsFiniteSet(InHand(d)')
  BY TiersAssumption, FS_Subset DEF InHand
<1>5. Cardinality(Queued(d)') \in Nat /\ Cardinality(InHand(d)') \in Nat
  BY <1>3, <1>4, FS_CardinalityType
<1>6. Queued(d)' \subseteq Queued(d) => Cardinality(Queued(d)') <= Cardinality(Queued(d))
  BY OwedFinite, FS_Subset
<1>7. InHand(d)' \subseteq InHand(d) => Cardinality(InHand(d)') <= Cardinality(InHand(d))
  BY OwedFinite, FS_Subset
<1> QED BY <1>5, <1>6, <1>7 DEF Owed

LEMMA AddOne ==
  ASSUME NEW S, IsFiniteSet(S), NEW x
  PROVE  /\ IsFiniteSet(S \cup {x}) /\ Cardinality(S \cup {x}) \in Nat
         /\ Cardinality(S \cup {x}) <= Cardinality(S) + 1
<1>1. Cardinality(S) \in Nat
  BY FS_CardinalityType
<1>2. /\ IsFiniteSet(S \cup {x})
      /\ Cardinality(S \cup {x}) = IF x \in S THEN Cardinality(S) ELSE Cardinality(S) + 1
  BY FS_AddElement
<1>3. Cardinality(S \cup {x}) \in Nat
  BY <1>2, FS_CardinalityType
<1> QED BY <1>1, <1>2, <1>3

\* A step that queues nothing and takes nothing up leaves no more to be recorded.
LEMMA OwedNoMore ==
  ASSUME Typed, Typed', NEW d, Queued(d)' \subseteq Queued(d), InHand(d)' \subseteq InHand(d)
  PROVE  Owed(d)' <= Owed(d)
  BY OwedFinite, OwedAfter DEF Owed

\* An answer is served and queued at once.
LEMMA OwedAnswer ==
  ASSUME Typed, Typed', NEW r \in Readers, NEW D, Answer(r, D), HitsOwed,
         UNCHANGED <<hits, job, doing>>
  PROVE  HitsOwed'
<1> SUFFICES ASSUME NEW d \in Docs PROVE hits'[d] + Owed(d)' <= served'[d]
  BY DEF HitsOwed, Owed, Queued, InHand
<1> DEFINE j == [kind |-> "hits", docs |-> D, ask |-> asks[r]]
<1>1. tasks' = Append(tasks, j) /\ j.docs = D
  BY DEF Answer
<1> HIDE DEF j
<1>2. tasks \in Seq(Tasks)
  BY DEF Typed
<1>3. /\ DOMAIN tasks' = 1 .. Len(tasks) + 1 /\ DOMAIN tasks = 1 .. Len(tasks)
      /\ \A i \in DOMAIN tasks : tasks'[i] = tasks[i]
      /\ tasks'[Len(tasks) + 1] = j /\ Len(tasks) \in Nat
  BY <1>1, <1>2, Appended
<1>4. InHand(d)' = InHand(d)
  BY DEF InHand
<1>5. hits[d] + Owed(d) <= served[d] /\ hits[d] \in Nat /\ served[d] \in Nat
  BY DEF HitsOwed, Typed, Stores, Searches
<1>6. CASE d \in D
  <2>1. Queued(d)' \subseteq Queued(d) \cup {Len(tasks) + 1}
    BY <1>3 DEF Queued
  <2>2. Cardinality(Queued(d)') <= Cardinality(Queued(d)) + 1
    <3>1. /\ IsFiniteSet(Queued(d) \cup {Len(tasks) + 1})
          /\ Cardinality(Queued(d) \cup {Len(tasks) + 1}) <= Cardinality(Queued(d)) + 1
      BY OwedFinite, AddOne
    <3>2. Cardinality(Queued(d)') <= Cardinality(Queued(d) \cup {Len(tasks) + 1})
      BY <2>1, <3>1, FS_Subset
    <3> QED BY <3>1, <3>2, OwedFinite, OwedAfter, FS_CardinalityType
  <2>3. served'[d] = served[d] + 1
    BY <1>6 DEF Answer
  <2> QED BY <1>4, <1>5, <2>2, <2>3, OwedFinite, OwedAfter DEF Owed
<1>7. CASE d \notin D
  <2>1. Queued(d)' \subseteq Queued(d)
    BY <1>1, <1>3, <1>7 DEF Queued
  <2>2. served'[d] = served[d]
    BY <1>7 DEF Answer
  <2> QED BY <1>4, <1>5, <2>1, <2>2, OwedFinite, OwedAfter, OwedNoMore
<1> QED BY <1>6, <1>7

\* A task that is taken up leaves the queue.
LEMMA OwedTake ==
  ASSUME Typed, Typed', NEW w \in Writers, Take(w), NEW d
  PROVE  Owed(d)' <= Owed(d)
<1>1. tasks \in Seq(Tasks) /\ tasks # << >> /\ tasks' = Tail(tasks)
  BY DEF Take, Typed
<1>2. /\ 1 \in DOMAIN tasks /\ Head(tasks) = tasks[1]
      /\ DOMAIN tasks' = 1 .. Len(tasks) - 1 /\ DOMAIN tasks = 1 .. Len(tasks)
      /\ Len(tasks) \in Nat
      /\ \A i \in DOMAIN tasks' : i + 1 \in DOMAIN tasks /\ tasks'[i] = tasks[i + 1]
  BY <1>1, Shifted
<1>3. job[w] = None /\ job' = [job EXCEPT ![w] = tasks[1]] /\ doing' = doing
  BY <1>2 DEF Take
<1>4. /\ IsFiniteSet(Queued(d) \ {1})
      /\ Cardinality(Queued(d) \ {1}) =
           IF 1 \in Queued(d) THEN Cardinality(Queued(d)) - 1 ELSE Cardinality(Queued(d))
  BY OwedFinite, FS_RemoveElement
<1>5. Cardinality(Queued(d)') <= Cardinality(Queued(d) \ {1})
  <2> DEFINE f == [i \in Queued(d)' |-> i + 1]
  <2>1. \A i \in Queued(d)' : i \in Nat \ {0} /\ i + 1 \in Queued(d) \ {1}
    BY <1>2 DEF Queued
  <2>2. f \in Injection(Queued(d)', Queued(d) \ {1})
    BY <2>1 DEF Injection, IsInjective
  <2> QED BY <1>4, <2>2, FS_Injection
<1>6. InHand(d)' \subseteq IF 1 \in Queued(d) THEN InHand(d) \cup {w} ELSE InHand(d)
  BY <1>2, <1>3, TasksAreDistinct DEF InHand, Queued, Typed, Background
<1>7. CASE 1 \in Queued(d)
  <2>1. /\ IsFiniteSet(InHand(d) \cup {w})
        /\ Cardinality(InHand(d) \cup {w}) <= Cardinality(InHand(d)) + 1
        /\ Cardinality(InHand(d) \cup {w}) \in Nat
    BY OwedFinite, AddOne
  <2>2. Cardinality(InHand(d)') <= Cardinality(InHand(d) \cup {w})
    BY <1>6, <1>7, <2>1, FS_Subset
  <2> QED BY <1>4, <1>5, <1>7, <2>1, <2>2, OwedFinite, OwedAfter DEF Owed
<1>8. CASE 1 \notin Queued(d)
  <2>1. Cardinality(InHand(d)') <= Cardinality(InHand(d))
    BY <1>6, <1>8, OwedAfter
  <2> QED BY <1>4, <1>5, <1>8, <2>1, OwedFinite, OwedAfter DEF Owed
<1> QED BY <1>7, <1>8

\* Going on to the next document: what is left in hand.
LEMMA InHandCounted ==
  ASSUME Typed, NEW w \in Writers, NEW d \in Docs, job[w] \in HitTasks, d \in job[w].docs,
         Counted(w, d), doing[w] \in {None, d}, NEW e \in Docs
  PROVE  InHand(e)' \subseteq IF e = d THEN InHand(e) \ {w} ELSE InHand(e)
<1>1. None # e
  BY TiersAssumption
<1>2. \A v \in Writers \ {w} : job'[v] = job[v] /\ doing'[v] = doing[v]
  BY DEF Counted, Done, Typed, Background
<1>3. CASE job[w].docs = {d}
  <2>1. job'[w] = None
    BY <1>3 DEF Counted, Done, Typed, Background
  <2> QED BY <1>2, <2>1, TasksAreDistinct DEF InHand
<1>4. CASE job[w].docs # {d}
  <2> DEFINE rest == [job[w] EXCEPT !.docs = @ \ {d}]
  <2>1. rest.docs = job[w].docs \ {d}
    BY <1>4, FewerDocs
  <2>2. job' = [job EXCEPT ![w] = rest]
    BY <1>4 DEF Counted, Typed, Background
  <2> HIDE DEF rest
  <2>3. job'[w] = rest
    BY <2>2 DEF Typed, Background
  <2> QED BY <1>1, <1>2, <2>1, <2>3 DEF InHand
<1> QED BY <1>3, <1>4

LEMMA OwedCount ==
  ASSUME Typed, Typed', NEW w \in Writers, NEW d \in Docs, Count(w, d), HitsOwed
  PROVE  HitsOwed' /\ (step'[w] = "promote" => count'[w] <= served'[doing'[w]])
<1>1. job[w] \in HitTasks /\ d \in job[w].docs /\ step[w] = "count" /\ doing[w] = None /\ None # d
  BY TiersAssumption DEF Count, Typed, Background, Fine
<1>2. UNCHANGED <<tasks, served>>
  BY DEF Count, reading
<1>3. ASSUME NEW e \in Docs
      PROVE  InHand(e)' \subseteq IF e = d THEN InHand(e) \ {w} ELSE InHand(e)
  <2>1. CASE Counted(w, d)
    BY <1>1, <2>1, InHandCounted
  <2>2. CASE ~ Counted(w, d)
    <3>1. job' = job /\ doing' = [doing EXCEPT ![w] = d]
      BY <2>2 DEF Count
    <3>2. doing'[w] = d /\ \A v \in Writers \ {w} : doing'[v] = doing[v]
      BY <3>1 DEF Typed, Background
    <3>3. None # e
      BY TiersAssumption
    <3> QED BY <1>1, <3>1, <3>2, <3>3 DEF InHand
  <2> QED BY <2>1, <2>2
<1>4. /\ hits'[d] <= hits[d] + 1 /\ hits[d] \in Nat /\ hits'[d] \in Nat
      /\ \A e \in Docs \ {d} : hits'[e] = hits[e]
  BY DEF Count, Typed, Stores
<1>5. \A e \in Docs : hits[e] + Owed(e) <= served[e] /\ served[e] \in Nat /\ hits[e] \in Nat
  BY DEF HitsOwed, Typed, Stores, Searches
<1>6. hits'[d] + Owed(d)' <= served[d]
  <2>1. w \in InHand(d)
    BY <1>1 DEF InHand
  <2>2. /\ IsFiniteSet(InHand(d) \ {w})
        /\ Cardinality(InHand(d) \ {w}) = Cardinality(InHand(d)) - 1
    BY <2>1, OwedFinite, FS_RemoveElement
  <2>3. Cardinality(InHand(d)') <= Cardinality(InHand(d)) - 1
    BY <1>3, <2>2, FS_Subset
  <2>4. Cardinality(Queued(d)') <= Cardinality(Queued(d))
    BY <1>2, OwedAfter DEF Queued
  <2> QED BY <1>4, <1>5, <2>3, <2>4, OwedFinite, OwedAfter DEF Owed
<1>7. ASSUME NEW e \in Docs \ {d} PROVE hits'[e] + Owed(e)' <= served[e]
  <2>1. Queued(e)' \subseteq Queued(e) /\ InHand(e)' \subseteq InHand(e)
    BY <1>2, <1>3 DEF Queued
  <2>2. Owed(e)' <= Owed(e)
    BY <2>1, OwedNoMore
  <2> QED BY <1>4, <1>5, <2>2, OwedFinite, OwedAfter
<1>8. HitsOwed'
  <2>1. \A e \in Docs : hits'[e] + Owed(e)' <= served'[e]
    BY <1>2, <1>6, <1>7
  <2> QED BY <2>1 DEF HitsOwed, Owed, Queued, InHand
<1>9. ASSUME step'[w] = "promote" PROVE count'[w] <= served'[doing'[w]]
  <2>1. ~ Counted(w, d)
    BY <1>9 DEF Counted, Done, Typed, Background
  <2>2. doing' = [doing EXCEPT ![w] = d] /\ count' = [count EXCEPT ![w] = hits'[d]]
    BY <2>1 DEF Count
  <2>3. doing'[w] = d /\ count'[w] = hits'[d]
    BY <2>2 DEF Typed, Background
  <2> QED BY <1>2, <1>4, <1>5, <1>6, <2>3, OwedAfter
<1> QED BY <1>8, <1>9

LEMMA ServedGrows ==
  ASSUME Typed, [Next]_vars
  PROVE  \A d \in Docs : served[d] <= served'[d] /\ served[d] \in Nat /\ served'[d] \in Nat
<1>1. served \in [Docs -> Nat]
  BY DEF Typed, Searches
<1>2. UNCHANGED served \/ \E r \in Readers : \E D : Answer(r, D)
  BY DEF Next, Reader, LookUp, Fetch, SearchEs, Writer, Take, Judge, IndexDoc, PutDoc, Scan, Delete,
         Count, Promote, Know, ExpireDoc, ExpireHits, ExpireHot, Crash, vars, reading
<1>3. ASSUME NEW r \in Readers, NEW D, Answer(r, D)
      PROVE  \A d \in Docs : served'[d] = IF d \in D THEN served[d] + 1 ELSE served[d]
  BY <1>3 DEF Answer
<1> QED BY <1>1, <1>2, <1>3

ScoresInv == Typed /\ HotBounded /\ HitsOwed /\ CountServed /\ ScoreServed

LEMMA ScoresInit == Init => ScoresInv
<1> SUFFICES ASSUME Init PROVE ScoresInv
  OBVIOUS
<1>1. Typed /\ HotBounded
  <2>1. \A k \in Keys : Members(hot[k]) = {}
    BY DEF Init, Members
  <2>2. Cardinality({}) <= HotMax
    BY FS_EmptySet, TiersAssumption
  <2>3. HotBounded
    BY <2>1, <2>2 DEF HotBounded
  <2> QED BY <2>3, TypeInit
<1>2. \A d : Queued(d) = {} /\ InHand(d) = {}
  BY TasksAreDistinct DEF Init, Queued, InHand
<1>3. HitsOwed
  <2>1. \A d : Owed(d) = 0
    BY <1>2, FS_EmptySet DEF Owed
  <2>2. \A d \in Docs : hits[d] = 0 /\ served[d] = 0
    BY DEF Init
  <2> QED BY <2>1, <2>2 DEF HitsOwed
<1>4. CountServed /\ ScoreServed
  BY DEF Init, CountServed, ScoreServed, Members
<1> QED BY <1>1, <1>3, <1>4 DEF ScoresInv

\* A step that is no answer and counts nothing.
LEMMA OwedQuietly ==
  ASSUME Typed, Typed', HitsOwed, UNCHANGED served,
         \A d \in Docs : hits'[d] <= hits[d] /\ Owed(d)' <= Owed(d)
  PROVE  HitsOwed'
<1>1. ASSUME NEW d \in Docs PROVE hits'[d] + Owed(d)' <= served'[d]
  <2>1. hits[d] \in Nat /\ hits'[d] \in Nat /\ served[d] \in Nat /\ hits[d] + Owed(d) <= served[d]
    BY DEF HitsOwed, Typed, Stores, Searches
  <2> QED BY <2>1, OwedFinite, OwedAfter
<1> QED BY <1>1 DEF HitsOwed, Owed, Queued, InHand

LEMMA HitsOwedNext == Typed /\ HitsOwed /\ [Next]_vars => HitsOwed'
<1> SUFFICES ASSUME Typed, HitsOwed, [Next]_vars PROVE HitsOwed'
  OBVIOUS
<1>t. Typed'
  BY TypeNext
<1>n. \A d \in Docs : hits[d] \in Nat /\ hits'[d] \in Nat
  BY <1>t DEF Typed, Stores
<1>1. ASSUME UNCHANGED <<served, tasks, job, doing>>, \A d \in Docs : hits'[d] <= hits[d]
      PROVE  HitsOwed'
  <2>1. \A d : Queued(d)' \subseteq Queued(d) /\ InHand(d)' \subseteq InHand(d)
    BY <1>1 DEF Queued, InHand
  <2> QED BY <1>1, <1>t, <2>1, OwedNoMore, OwedQuietly
<1>2. ASSUME NEW r \in Readers, Reader(r) PROVE HitsOwed'
  <2>1. UNCHANGED <<hits, job, doing>>
    BY <1>2 DEF Reader, LookUp, Fetch, SearchEs, redis, writing
  <2>2. UNCHANGED <<served, tasks>> \/ \E D : Answer(r, D)
    BY <1>2 DEF Reader, LookUp, Fetch, SearchEs
  <2>3. CASE UNCHANGED <<served, tasks>>
    BY <1>1, <1>n, <2>1, <2>3
  <2>4. ASSUME NEW D, Answer(r, D) PROVE HitsOwed'
    BY <1>t, <2>1, <2>4, OwedAnswer
  <2> QED BY <2>2, <2>3, <2>4
<1>3. ASSUME NEW w \in Writers, Writer(w) PROVE HitsOwed'
  <2>1. CASE Take(w)
    <3>1. UNCHANGED <<served, hits>>
      BY <2>1 DEF Take, redis, reading
    <3>2. \A d \in Docs : Owed(d)' <= Owed(d)
      BY <1>t, <2>1, OwedTake
    <3> QED BY <1>t, <1>n, <3>1, <3>2, OwedQuietly
  <2>2. CASE Judge(w) \/ IndexDoc(w) \/ PutDoc(w) \/ Scan(w) \/ Delete(w)
    <3>1. UNCHANGED <<served, tasks, hits>> /\ (Done(w) \/ UNCHANGED <<job, doing>>)
      BY <2>2 DEF Judge, IndexDoc, PutDoc, Scan, Delete, Go, redis, reading
    <3>2. \A v \in Writers : job'[v] \in HitTasks => job'[v] = job[v] /\ doing'[v] = doing[v]
      BY <3>1, TasksAreDistinct DEF Done, Typed, Background
    <3>3. \A d : Queued(d)' \subseteq Queued(d) /\ InHand(d)' \subseteq InHand(d)
      BY <3>1, <3>2 DEF Queued, InHand
    <3> QED BY <1>t, <1>n, <3>1, <3>3, OwedNoMore, OwedQuietly
  <2>3. CASE Promote(w)
    <3>1. UNCHANGED <<served, tasks, hits>> /\ Counted(w, doing[w])
      BY <2>3 DEF Promote, reading
    <3>2. job[w] \in HitTasks /\ doing[w] \in job[w].docs /\ doing[w] \in Docs
      BY <2>3, Promoted DEF Promote, Typed
    <3>3. \A d \in Docs : InHand(d)' \subseteq InHand(d)
      BY <3>1, <3>2, InHandCounted
    <3>4. \A d : Queued(d)' \subseteq Queued(d)
      BY <3>1 DEF Queued
    <3> QED BY <1>t, <1>n, <3>1, <3>3, <3>4, OwedNoMore, OwedQuietly
  <2>4. ASSUME NEW d \in Docs, Count(w, d) PROVE HitsOwed'
    BY <1>t, <2>4, OwedCount
  <2> QED BY <1>3, <2>1, <2>2, <2>3, <2>4 DEF Writer
<1>4. ASSUME NEW d \in Docs, Know(d) PROVE HitsOwed'
  <2> DEFINE j == [kind |-> "store", doc |-> d]
  <2>1. tasks' = Append(tasks, j) /\ tasks \in Seq(Tasks) /\ j \notin HitTasks
    BY <1>4, TasksAreDistinct DEF Know, Typed, StoreTasks
  <2> HIDE DEF j
  <2>2. \A i \in DOMAIN tasks' : i \in DOMAIN tasks \/ i = Len(tasks) + 1
    BY <2>1, Appended
  <2>3. \A i \in DOMAIN tasks' : tasks'[i] \in HitTasks => i \in DOMAIN tasks /\ tasks'[i] = tasks[i]
    BY <2>1, <2>2, Appended
  <2>4. UNCHANGED <<served, hits, job, doing>>
    BY <1>4 DEF Know, redis, reading, writing
  <2>5. \A e : Queued(e)' \subseteq Queued(e) /\ InHand(e)' \subseteq InHand(e)
    BY <2>3, <2>4 DEF Queued, InHand
  <2> QED BY <1>t, <1>n, <2>4, <2>5, OwedNoMore, OwedQuietly
<1>5. ASSUME NEW d \in Docs, ExpireDoc(d) \/ ExpireHits(d) PROVE HitsOwed'
  <2>1. UNCHANGED <<served, tasks, job, doing>>
    BY <1>5 DEF ExpireDoc, ExpireHits, reading, writing
  <2>2. \A e \in Docs : hits'[e] <= hits[e]
    <3>1. CASE ExpireDoc(d)
      BY <1>n, <3>1 DEF ExpireDoc
    <3>2. CASE ExpireHits(d)
      BY <1>n, <3>2 DEF ExpireHits, Typed, Stores
    <3> QED BY <1>5, <3>1, <3>2
  <2> QED BY <1>1, <2>1, <2>2
<1>6. ASSUME NEW k \in Keys, ExpireHot(k) PROVE HitsOwed'
  <2>1. UNCHANGED <<served, tasks, job, doing, hits>>
    BY <1>6 DEF ExpireHot, reading, writing
  <2> QED BY <1>1, <1>n, <2>1
<1>7. CASE Crash
  <2>1. tasks' = << >> /\ (\A w \in Writers : job'[w] = None) /\ UNCHANGED <<served, hits>>
    BY <1>7 DEF Crash, redis
  <2>2. \A d : Queued(d)' \subseteq Queued(d) /\ InHand(d)' \subseteq InHand(d)
    BY <2>1, TasksAreDistinct DEF Queued, InHand
  <2> QED BY <1>t, <1>n, <2>1, <2>2, OwedNoMore, OwedQuietly
<1>8. CASE UNCHANGED vars
  BY <1>1, <1>8, <1>n DEF vars, redis, reading, writing
<1> QED BY <1>2, <1>3, <1>4, <1>5, <1>6, <1>7, <1>8 DEF Next

LEMMA CountServedNext == ScoresInv /\ [Next]_vars => CountServed'
<1> SUFFICES ASSUME ScoresInv, [Next]_vars, NEW w \in Writers, step'[w] = "promote"
             PROVE  count'[w] <= served'[doing'[w]]
  BY DEF CountServed
<1>1. Typed /\ HitsOwed /\ CountServed /\ Typed'
  BY TypeNext DEF ScoresInv
<1>2. ASSUME step[w] = "promote", count'[w] = count[w], doing'[w] = doing[w]
      PROVE  count'[w] <= served'[doing'[w]]
  <2>1. doing[w] \in Docs /\ count[w] \in Nat
    BY <1>1, <1>2, Promoted DEF Typed
  <2>2. served[doing[w]] <= served'[doing[w]] /\ served[doing[w]] \in Nat /\ served'[doing[w]] \in Nat
    BY <1>1, <2>1, ServedGrows
  <2> QED BY <1>1, <1>2, <2>1, <2>2 DEF CountServed
<1>3. ASSUME UNCHANGED <<step, count, doing>> PROVE count'[w] <= served'[doing'[w]]
  BY <1>2, <1>3
<1>4. ASSUME NEW v \in Writers, Writer(v), ~ \E d \in Docs : Count(v, d)
      PROVE  /\ step'[v] # "promote"
             /\ \A u \in Writers \ {v} : step'[u] = step[u] /\ count'[u] = count[u] /\ doing'[u] = doing[u]
  BY <1>1, <1>4 DEF Writer, Take, Judge, IndexDoc, PutDoc, Scan, Delete, Promote, Counted, Done, Go,
                    Typed, Background
<1>5. ASSUME NEW v \in Writers, NEW d \in Docs, Count(v, d) PROVE count'[w] <= served'[doing'[w]]
  <2>1. CASE v = w
    BY <1>1, <1>5, <2>1, OwedCount
  <2>2. CASE v # w
    <3>1. step'[w] = step[w] /\ count'[w] = count[w] /\ doing'[w] = doing[w]
      BY <1>1, <1>5, <2>2 DEF Count, Counted, Done, Typed, Background
    <3> QED BY <1>2, <3>1
  <2> QED BY <2>1, <2>2
<1>6. ASSUME NEW v \in Writers, Writer(v) PROVE count'[w] <= served'[doing'[w]]
  BY <1>2, <1>4, <1>5, <1>6
<1>7. CASE Crash
  BY <1>7 DEF Crash
<1>8. CASE ~ Crash /\ ~ \E v \in Writers : Writer(v)
  BY <1>3, <1>8 DEF Next, Reader, LookUp, Fetch, SearchEs, Know, ExpireDoc, ExpireHits, ExpireHot, vars, writing
<1> QED BY <1>6, <1>7, <1>8

LEMMA ScoreServedNext == ScoresInv /\ [Next]_vars => ScoreServed'
<1> SUFFICES ASSUME ScoresInv, [Next]_vars, NEW k \in Keys, NEW d \in Members(hot'[k])
             PROVE  hot'[k][d] \in HitThreshold .. served'[d]
  BY DEF ScoreServed, Members
<1>1. Typed /\ CountServed /\ ScoreServed
  BY DEF ScoresInv
<1>2. d \in Docs /\ served[d] <= served'[d] /\ served[d] \in Nat /\ served'[d] \in Nat
  BY <1>1, ServedGrows DEF Members
<1>3. ASSUME d \in Members(hot[k]), hot'[k][d] = hot[k][d]
      PROVE  hot'[k][d] \in HitThreshold .. served'[d]
  BY <1>1, <1>2, <1>3, TiersAssumption DEF ScoreServed
<1>4. ASSUME NEW w \in Writers, Promote(w), Insert(HotKey(job[w].ask), doing[w], count[w])
      PROVE  hot'[k][d] \in HitThreshold .. served'[d]
  <2> DEFINE key == HotKey(job[w].ask)
  <2>1. /\ key \in Keys /\ doing[w] \in Docs /\ count[w] \in Nat /\ count[w] >= HitThreshold
        /\ count[w] <= served[doing[w]]
    BY <1>1, <1>4, Promoted DEF Promote, Typed, CountServed
  <2>2. /\ Members(hot'[key]) \subseteq Members(hot[key]) \cup {doing[w]}
        /\ \A e \in Members(hot'[key]) :
             hot'[key][e] = IF e = doing[w] THEN count[w] ELSE hot[key][e]
        /\ \A l \in Keys \ {key} : hot'[l] = hot[l]
    BY <1>1, <1>4, <2>1, InsertMembers
  <2> HIDE DEF key
  <2>3. CASE k = key /\ d = doing[w]
    BY <1>2, <2>1, <2>2, <2>3, TiersAssumption
  <2>4. CASE k = key /\ d # doing[w]
    BY <1>3, <2>2, <2>4
  <2>5. CASE k # key
    BY <1>3, <2>2, <2>5
  <2> QED BY <2>3, <2>4, <2>5
<1>5. CASE \A l \in Keys : hot'[l] = hot[l] \/ hot'[l] = [e \in Docs |-> 0]
  <2>1. hot'[k] = hot[k]
    BY <1>5, EmptySet
  <2> QED BY <1>3, <2>1
<1> QED BY <1>1, <1>4, <1>5, HotChanges

LEMMA HotBoundedNext == Typed /\ HotBounded /\ [Next]_vars => HotBounded'
<1> SUFFICES ASSUME Typed, HotBounded, [Next]_vars, NEW k \in Keys
             PROVE  Cardinality(Members(hot'[k])) <= HotMax
  BY DEF HotBounded, Members
<1>1. ASSUME NEW w \in Writers, Promote(w), Insert(HotKey(job[w].ask), doing[w], count[w])
      PROVE  Cardinality(Members(hot'[k])) <= HotMax
  <2> DEFINE key == HotKey(job[w].ask)
  <2>1. key \in Keys /\ doing[w] \in Docs /\ count[w] \in Nat
    BY <1>1, Promoted DEF Promote, Typed
  <2>2. /\ Cardinality(Members(hot'[key])) <= HotMax
        /\ \A l \in Keys \ {key} : hot'[l] = hot[l]
    BY <1>1, <2>1, InsertMembers
  <2> HIDE DEF key
  <2>3. CASE k = key
    BY <2>2, <2>3
  <2>4. CASE k # key
    <3>1. hot'[k] = hot[k]
      BY <2>2, <2>4
    <3> QED BY <3>1 DEF HotBounded
  <2> QED BY <2>3, <2>4
<1>2. CASE \A l \in Keys : hot'[l] = hot[l] \/ hot'[l] = [e \in Docs |-> 0]
  <2>1. CASE hot'[k] = hot[k]
    BY <2>1 DEF HotBounded
  <2>2. CASE hot'[k] = [e \in Docs |-> 0]
    BY <2>2, EmptySet, FS_EmptySet, TiersAssumption
  <2> QED BY <1>2, <2>1, <2>2
<1> QED BY <1>1, <1>2, HotChanges

LEMMA ScoresNext == ScoresInv /\ [Next]_vars => ScoresInv'
  BY TypeNext, HotBoundedNext, HitsOwedNext, CountServedNext, ScoreServedNext DEF ScoresInv

\* A hot set keeps to its limit, and no score in it is more than the answers its
\* document was in: every hit is counted once at most, in whatever order the
\* threads count and promote, and whatever expires or crashes between.
THEOREM ScoresAreEarned == Spec => []HotWasServed
<1>1. ScoresInv => HotWasServed
  BY DEF ScoresInv, ScoreServed, HotWasServed
<1> QED BY <1>1, ScoresInit, ScoresNext, PTL DEF Spec

==============================================================================
