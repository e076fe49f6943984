---------------------------- MODULE KnowledgeTiers ----------------------------
(***************************************************************************)
(* memory/memory_manager.py with cache.py (L1, Redis), search.py (L2,      *)
(* Elasticsearch) and judge.py. A search tries the hot documents of its    *)
(* service and alert type in Redis, then Elasticsearch, then Chroma; what  *)
(* it answers is counted in the background, and what was counted often     *)
(* becomes hot. New knowledge is in Chroma at once and is judged, indexed  *)
(* and cached in the background. Searches are made by request threads, the *)
(* background work by the threads of `_write_executor`; each call of Redis *)
(* or Elasticsearch is a step of its own and may fail, which the code      *)
(* swallows. Redis also forgets: a key expires, long after it was written. *)
(***************************************************************************)
EXTENDS Naturals, Sequences, FiniteSets

CONSTANTS
    Docs,            \* knowledge documents (doc_id), confirmed to be effective
    GoodDocs,        \* those the judge scores at the threshold or above
    Services,        \* service names
    Unknown,         \* the service name "unknown"
    NoService,       \* an empty service name
    Safe,            \* the service name a hot key holds: ":" and " " replaced
    ServiceOf,       \* the service each document is stored under
    Alerts,          \* alert types
    Readers,         \* threads that search
    Writers,         \* threads of _write_executor
    HitThreshold,    \* settings.memory_redis_hit_threshold
    HotMax,          \* _HOT_SET_MAX
    HotTop,          \* how many hot documents a search asks for
    TopK,            \* how many documents a search of L2 asks for
    None,            \* no task
    Outages,         \* do Redis and Elasticsearch fail?
    MaxSearches      \* bound on the searches of one behaviour

Keys == Services \X Alerts
Asks == [service : Services \cup {NoService}, alert : Alerts]
StoreTasks == [kind : {"store"}, doc : Docs]
HitTasks == [kind : {"hits"}, docs : (SUBSET Docs) \ {{}}, ask : Asks]
Tasks == StoreTasks \cup HitTasks

ASSUME TiersAssumption ==
    /\ IsFiniteSet(Docs) /\ GoodDocs \subseteq Docs
    /\ IsFiniteSet(Writers)
    /\ Unknown \in Services /\ NoService \notin Services
    /\ Safe \in [Services -> Services] /\ \A s \in Services : Safe[Safe[s]] = Safe[s]
    /\ ServiceOf \in [Docs -> Services \cup {NoService}]
    /\ HitThreshold \in Nat \ {0}
    /\ HotMax \in Nat \ {0} /\ HotTop \in Nat \ {0} /\ TopK \in Nat \ {0}
    /\ None \notin Docs \cup StoreTasks \cup HitTasks \cup Asks
    /\ Outages \in BOOLEAN
    /\ MaxSearches \in Nat

VARIABLES
    chroma, es, cached,  \* documents in L3, in L2, and under weops:kb: in L1
    hits,            \* weops:hits:, the count of each document
    hot,             \* weops:hot:, the score of each document, 0 for none
    rpc, asks, ids,  \* a search: where it stands, what for, hot ids it has read
    tasks,           \* the executor's queue
    job, step,       \* each writer's task and where it stands in it
    doing, count,    \* the document whose hit a writer records, and its count
    found,           \* the hot sets that a writer is about to delete
    searches,        \* how many searches there have been
    served,          \* in how many answers each document has been (not in the code)
    unjudged         \* documents let through because the judge failed (not in the code)

redis == <<cached, hits, hot>>
reading == <<rpc, asks, ids, searches, served>>
writing == <<job, step, doing, count, found, unjudged>>
vars == <<chroma, es, redis, reading, tasks, writing>>

\* Types; a writer has a task exactly when it is at some step of it.
TypeOK ==
    /\ chroma \subseteq Docs /\ es \subseteq Docs /\ cached \subseteq Docs
    /\ hits \in [Docs -> Nat] /\ hot \in [Keys -> [Docs -> Nat]]
    /\ rpc \in [Readers -> {"idle", "docs", "es"}]
    /\ asks \in [Readers -> Asks \cup {None}]
    /\ \A r \in Readers : rpc[r] = "idle" <=> asks[r] = None
    /\ ids \in [Readers -> SUBSET Docs]
    /\ tasks \in Seq(Tasks)
    /\ job \in [Writers -> Tasks \cup {None}]
    /\ step \in [Writers -> {"idle", "judge", "es", "put", "scan", "delete", "count", "promote"}]
    /\ \A w \in Writers : step[w] = "idle" <=> job[w] = None
    /\ doing \in [Writers -> Docs \cup {None}] /\ count \in [Writers -> Nat]
    /\ found \in [Writers -> SUBSET Keys]
    /\ searches \in 0 .. MaxSearches /\ served \in [Docs -> Nat]
    /\ unjudged \subseteq Docs

Init ==
    /\ chroma = {} /\ es = {} /\ cached = {}
    /\ hits = [d \in Docs |-> 0]
    /\ hot = [k \in Keys |-> [d \in Docs |-> 0]]
    /\ rpc = [r \in Readers |-> "idle"]
    /\ asks = [r \in Readers |-> None]
    /\ ids = [r \in Readers |-> {}]
    /\ tasks = << >>
    /\ job = [w \in Writers |-> None] /\ step = [w \in Writers |-> "idle"]
    /\ doing = [w \in Writers |-> None] /\ count = [w \in Writers |-> 0]
    /\ found = [w \in Writers |-> {}]
    /\ searches = 0 /\ served = [d \in Docs |-> 0]
    /\ unjudged = {}

------------------------------------------------------------------------------
(* Searches                                                                 *)

Members(set) == {d \in Docs : set[d] # 0}

\* B: n documents of a sorted set with the highest scores, or all it has.
Best(set, n, B) ==
    /\ B \subseteq Members(set) /\ Cardinality(B) <= n
    /\ B # Members(set) => Cardinality(B) = n
    /\ \A b \in B, d \in Members(set) \ B : set[b] >= set[d]

HotKey(ask) == <<Safe[ask.service], ask.alert>>

Move(r, label) == rpc' = [rpc EXCEPT ![r] = label]
Over(r) == Move(r, "idle") /\ asks' = [asks EXCEPT ![r] = None]

\* The search is over; the documents D of its answer are to be counted.
Answer(r, D) ==
    /\ Over(r)
    /\ served' = [d \in Docs |-> IF d \in D THEN served[d] + 1 ELSE served[d]]
    /\ tasks' = Append(tasks, [kind |-> "hits", docs |-> D, ask |-> asks[r]])

\* search, and of get_hot_docs the ids of the hottest documents.
LookUp(r, ask) ==
    /\ rpc[r] = "idle" /\ searches < MaxSearches
    /\ searches' = searches + 1
    /\ asks' = [asks EXCEPT ![r] = ask]
    /\ \/ /\ ask.service # NoService
          /\ \E B \in SUBSET Docs :
              /\ Best(hot[HotKey(ask)], HotTop, B)
              /\ ids' = [ids EXCEPT ![r] = B]
              /\ Move(r, IF B = {} THEN "es" ELSE "docs")
       \/ /\ ask.service = NoService \/ Outages
          /\ Move(r, "es")
          /\ UNCHANGED ids
    /\ UNCHANGED <<chroma, es, redis, tasks, served, writing>>

\* The documents of those ids: an answer if any of them is still there.
Fetch(r) ==
    /\ rpc[r] = "docs"
    /\ \/ /\ ids[r] \cap cached # {}
          /\ Answer(r, ids[r] \cap cached)
       \/ /\ ids[r] \cap cached = {} \/ Outages
          /\ Move(r, "es")
          /\ UNCHANGED <<asks, tasks, served>>
    /\ ids' = [ids EXCEPT ![r] = {}]
    /\ UNCHANGED <<chroma, es, redis, searches, writing>>

\* What Elasticsearch may find: the filter is on the service, if it is known.
Matching(s) == IF s \in {NoService, Unknown} THEN es ELSE {d \in es : ServiceOf[d] = s}

\* As SearchEs, but without the filter on the service.
SearchEsUnfiltered(r) ==
    /\ rpc[r] = "es"
    /\ \E D \in SUBSET es : D # {} /\ Cardinality(D) <= TopK /\ Answer(r, D)
    /\ UNCHANGED <<chroma, es, redis, ids, searches, writing>>

\* Elasticsearch answers with some of them, by relevance; with none, Chroma does.
SearchEs(r) ==
    /\ rpc[r] = "es"
    /\ \/ \E D \in SUBSET Matching(asks[r].service) :
            D # {} /\ Cardinality(D) <= TopK /\ Answer(r, D)
       \/ Over(r) /\ UNCHANGED <<tasks, served>>
    /\ UNCHANGED <<chroma, es, redis, ids, searches, writing>>

Reader(r) == (\E ask \in Asks : LookUp(r, ask)) \/ Fetch(r) \/ SearchEs(r)

------------------------------------------------------------------------------
(* store_knowledge, and the executor's threads                              *)

\* store_knowledge: into Chroma, then store_async.
Know(d) ==
    /\ d \notin chroma
    /\ chroma' = chroma \cup {d}
    /\ tasks' = Append(tasks, [kind |-> "store", doc |-> d])
    /\ UNCHANGED <<es, redis, reading, writing>>

Take(w) ==
    /\ job[w] = None /\ tasks # << >>
    /\ job' = [job EXCEPT ![w] = Head(tasks)]
    /\ step' = [step EXCEPT ![w] = IF Head(tasks).kind = "store" THEN "judge" ELSE "count"]
    /\ tasks' = Tail(tasks)
    /\ UNCHANGED <<chroma, es, redis, reading, doing, count, found, unjudged>>

Go(w, label) == step' = [step EXCEPT ![w] = label] /\ UNCHANGED <<job, doing, count, found>>
Done(w) ==
    /\ job' = [job EXCEPT ![w] = None] /\ step' = [step EXCEPT ![w] = "idle"]
    /\ doing' = [doing EXCEPT ![w] = None] /\ count' = [count EXCEPT ![w] = 0]
    /\ found' = [found EXCEPT ![w] = {}]

\* As Judge, but should_store is taken for granted.
JudgeLeniently(w) ==
    /\ step[w] = "judge"
    /\ Go(w, "es")
    /\ UNCHANGED <<chroma, es, redis, reading, tasks, unjudged>>

\* evaluate: below the threshold the document stays in Chroma alone. A judge
\* that fails, or answers nothing legible, lets it through.
Judge(w) ==
    /\ step[w] = "judge"
    /\ \/ job[w].doc \in GoodDocs /\ Go(w, "es") /\ UNCHANGED unjudged
       \/ job[w].doc \notin GoodDocs /\ Done(w) /\ UNCHANGED unjudged
       \/ Go(w, "es") /\ unjudged' = unjudged \cup {job[w].doc}
    /\ UNCHANGED <<chroma, es, redis, reading, tasks>>

\* index_doc; Redis follows if there is a service.
IndexDoc(w) ==
    /\ step[w] = "es"
    /\ es' = es \cup {job[w].doc} \/ (Outages /\ UNCHANGED es)
    /\ IF ServiceOf[job[w].doc] = NoService THEN Done(w) ELSE Go(w, "put")
    /\ UNCHANGED <<chroma, redis, reading, tasks, unjudged>>

\* put_doc.
PutDoc(w) ==
    /\ step[w] = "put"
    /\ cached' = cached \cup {job[w].doc} \/ (Outages /\ UNCHANGED cached)
    /\ Go(w, "scan")
    /\ UNCHANGED <<chroma, es, hits, hot, reading, tasks, unjudged>>

\* invalidate_service reads which hot sets there are whose key holds the
\* service's name as it is, and then deletes those.
Scan(w) ==
    LET s == ServiceOf[job[w].doc]
        ofService == {k \in Keys : k[1] = s /\ Members(hot[k]) # {}} IN
    /\ step[w] = "scan"
    /\ \/ /\ ofService # {}
          /\ found' = [found EXCEPT ![w] = ofService]
          /\ step' = [step EXCEPT ![w] = "delete"] /\ UNCHANGED <<job, doing, count>>
       \/ ofService = {} /\ Done(w)
       \/ Outages /\ Done(w)
    /\ UNCHANGED <<chroma, es, redis, reading, tasks, unjudged>>

Delete(w) ==
    /\ step[w] = "delete"
    /\ \/ hot' = [k \in Keys |-> IF k \in found[w] THEN [d \in Docs |-> 0] ELSE hot[k]]
       \/ Outages /\ UNCHANGED hot
    /\ Done(w)
    /\ UNCHANGED <<chroma, es, cached, hits, reading, tasks, unjudged>>

\* As Counted, but without an end to the loop.
CountedPastEnd(w, d) ==
    /\ job' = [job EXCEPT ![w].docs = @ \ {d}]
    /\ step' = [step EXCEPT ![w] = "count"]
    /\ doing' = [doing EXCEPT ![w] = None] /\ count' = [count EXCEPT ![w] = 0]
    /\ UNCHANGED found

\* The loop of _update goes on to the next document.
Counted(w, d) ==
    IF job[w].docs = {d} THEN Done(w)
    ELSE /\ job' = [job EXCEPT ![w].docs = @ \ {d}]
         /\ step' = [step EXCEPT ![w] = "count"]
         /\ doing' = [doing EXCEPT ![w] = None] /\ count' = [count EXCEPT ![w] = 0]
         /\ UNCHANGED found

\* As Count, but a document is counted once for every document of the answer.
CountAll(w, d) ==
    /\ step[w] = "count" /\ d \in job[w].docs /\ job[w].ask.service # NoService
    /\ hits' = [hits EXCEPT ![d] = @ + Cardinality(job[w].docs)]
    /\ IF hits'[d] < HitThreshold THEN Counted(w, d)
       ELSE /\ step' = [step EXCEPT ![w] = "promote"] /\ UNCHANGED <<job, found>>
            /\ doing' = [doing EXCEPT ![w] = d] /\ count' = [count EXCEPT ![w] = hits'[d]]
    /\ UNCHANGED <<chroma, es, cached, hot, reading, tasks, unjudged>>

\* increment_hit up to the comparison with the threshold. (Elasticsearch's own
\* count only orders what it finds, which is left open.)
Count(w, d) ==
    /\ step[w] = "count" /\ d \in job[w].docs
    /\ \/ /\ job[w].ask.service # NoService
          /\ hits' = [hits EXCEPT ![d] = @ + 1]
          /\ IF hits'[d] < HitThreshold THEN Counted(w, d)
             ELSE /\ step' = [step EXCEPT ![w] = "promote"] /\ UNCHANGED <<job, found>>
                  /\ doing' = [doing EXCEPT ![w] = d]
                  /\ count' = [count EXCEPT ![w] = hits'[d]]
       \/ /\ job[w].ask.service = NoService \/ Outages
          /\ Counted(w, d)
          /\ UNCHANGED hits
    /\ UNCHANGED <<chroma, es, cached, hot, reading, tasks, unjudged>>

\* zadd of d with its count, of which the HotMax best then remain.
Insert(k, d, score) ==
    LET with == [hot[k] EXCEPT ![d] = score] IN
    \E B \in SUBSET Docs :
        /\ Best(with, HotMax, B)
        /\ hot' = [hot EXCEPT ![k] = [e \in Docs |-> IF e \in B THEN with[e] ELSE 0]]

\* _promote_to_hot, one transaction.
Promote(w) ==
    /\ step[w] = "promote"
    /\ \/ Insert(HotKey(job[w].ask), doing[w], count[w])
       \/ Outages /\ UNCHANGED hot
    /\ Counted(w, doing[w])
    /\ UNCHANGED <<chroma, es, cached, hits, reading, tasks, unjudged>>

Writer(w) ==
    \/ Take(w) \/ Judge(w) \/ IndexDoc(w) \/ PutDoc(w) \/ Scan(w) \/ Delete(w)
    \/ Promote(w) \/ \E d \in Docs : Count(w, d)

------------------------------------------------------------------------------
(* What happens to Redis and to the process                                 *)

ExpireDoc(d) ==
    /\ d \in cached /\ cached' = cached \ {d}
    /\ UNCHANGED <<chroma, es, hits, hot, reading, tasks, writing>>

ExpireHits(d) ==
    /\ hits[d] # 0 /\ hits' = [hits EXCEPT ![d] = 0]
    /\ UNCHANGED <<chroma, es, cached, hot, reading, tasks, writing>>

ExpireHot(k) ==
    /\ Members(hot[k]) # {} /\ hot' = [hot EXCEPT ![k] = [d \in Docs |-> 0]]
    /\ UNCHANGED <<chroma, es, cached, hits, reading, tasks, writing>>

\* The process is killed and started again: the queue is in memory alone.
Crash ==
    /\ tasks' = << >>
    /\ job' = [w \in Writers |-> None] /\ step' = [w \in Writers |-> "idle"]
    /\ doing' = [w \in Writers |-> None] /\ count' = [w \in Writers |-> 0]
    /\ found' = [w \in Writers |-> {}]
    /\ rpc' = [r \in Readers |-> "idle"] /\ asks' = [r \in Readers |-> None]
    /\ ids' = [r \in Readers |-> {}]
    /\ UNCHANGED <<chroma, es, redis, searches, served, unjudged>>

Next ==
    \/ \E r \in Readers : Reader(r)
    \/ \E w \in Writers : Writer(w)
    \/ \E d \in Docs : Know(d) \/ ExpireDoc(d) \/ ExpireHits(d)
    \/ \E k \in Keys : ExpireHot(k)
    \/ Crash

Spec == Init /\ [][Next]_vars

------------------------------------------------------------------------------
(* Properties                                                               *)

\* No hot set is larger than its limit.
HotBounded == \A k \in Keys : Cardinality(Members(hot[k])) <= HotMax

\* Each document in a hot set has been in as many answers as its score says,
\* which are enough to make it hot: however counting, promoting, expiry and
\* crashes interleave, no hit counts twice, and the set keeps to its limit.
HotWasServed ==
    /\ HotBounded
    /\ \A k \in Keys : \A d \in Members(hot[k]) : hot[k][d] \in HitThreshold .. served[d]

\* A service name that is known, is itself its name in keys, and shares it with
\* no other service's.
Plain(s) == s # Unknown /\ \A t \in Services : Safe[t] = s <=> t = s

\* Hot documents of a service are documents of that service, although hits are
\* counted later and by document alone.
OwnDocsHot ==
    \A s \in Services, a \in Alerts : Plain(s) =>
        \A d \in Members(hot[<<s, a>>]) : ServiceOf[d] = s

\* What is in Elasticsearch or Redis, or is hot, was judged good, unless the
\* judge failed on it; and nothing is hot that never was in Elasticsearch.
FastTiersJudged ==
    /\ es \cup cached \subseteq GoodDocs \cup unjudged
    /\ \A k \in Keys : Members(hot[k]) \subseteq es

==============================================================================
