# weopsagent in TLA+

weopsagent handles faults of a service landscape. A fault description comes in
through an HTTP API or the command line; a planner, a knowledge search and a
main agent (a language model that calls tools) work on it, and the main agent
calls sub-agents for monitoring, analysis, recovery and notification. Dangerous
recovery tools run only after a person has agreed. This directory models what
the program itself decides - who may run, what is kept, what is cleaned up, in
which order threads may meet - and leaves out what language models say and how
texts are formatted.

All line numbers are those of the files under `src/`.

## The system

| component | state it keeps | operations | works with | what makes it correct |
|---|---|---|---|---|
| `middleware/human_confirm.py` | `_confirmation_results`; the prompt or the poll each call waits in | `wrap_tool_call`, `submit_confirmation` | recovery agent's tool calls, one thread each; operator at stdin; webhook service; (in its doc) the API | a dangerous tool runs only on a yes; an answer decides one call; a wait ends in time, unless it is in a read of standard input |
| `memory/bounded_saver.py` | `_lru` (entry and time of the last write of each thread) and the parent's checkpoints | `put`/`aput`, `purge`, `purge_expired` | every agent's checkpointer; request threads, purge workers, the cleanup thread | entries and checkpoints agree; limit and TTL hold; what is fresh stays |
| `agents/fault_agent.py` | `_active_sessions`, the main checkpointer, the purge executor's queue, the cleanup thread, the stop event | `handle_fault`, `continue_conversation`, `list_sessions`, `clear_session`, periodic cleanup, `_shutdown` | the planner, the knowledge search, the sub-agents' checkpointers | no entry of a saver is forgotten, the list is bounded, shutdown ends with the work done |
| `agents/{recovery,analysis,monitor,notification}_agent.py` | a compiled agent and a checkpointer per module | `run_*` tools, `purge_thread` | called by the main agent, with the fault id as thread id (monitor: a fresh id per call) | histories of different faults stay apart and are collected |
| `api/server.py` | `_fault_agent`, `_task_results`, `_pending_confirms` | handle (two modes), continue, status, confirm, reload, sessions | FaultAgent; background tasks in a thread pool, the rest on the event loop | a result that was produced can be read until it is old or in the way; a decision reaches who waits for it; the process ends |
| `middleware/rate_limit.py` | one token bucket for models, one for tools, one per tool; statistics | `before_model`, `wrap_tool_call` | main agent, concurrent runs | no window lets through more than capacity plus refill; waiting ends |
| `middleware/tool_input_fix.py` | consecutive errors per tool | `wrap_tool_call`, `before_agent` | main agent, concurrent runs | the loop of wrong calls is cut after `max_retries` |
| `middleware/model_switch.py` | call index, current model name, model cache | `before_model`, `before_agent` | main agent, concurrent runs | each run calls the model its rules name, whatever earlier runs left |
| `middleware/sliding_window.py`, `summarization.py` | counters; they rewrite the message list | `before_model` | every agent | what the model is given is the newest part, in order, with the fault's description or a summary of the rest |
| `middleware/audit_log.py`, `core/context.py` | fault id, correlation id | all hooks | every agent | log lines name their own fault, if they name one |
| `memory/memory_manager.py`, `cache.py`, `search.py`, `judge.py` | Redis documents, hit counts and hot sets; the Elasticsearch index; the write executor's queue | `search`, `store_async`, hit updates | FaultAgent before a run, `store_knowledge` in it | a search sees what was stored; hot means hit often; writes do not block |
| `memory/long_term.py`, `tools/knowledge_store.py` | Chroma collections, Markdown files | load, reload, store | start-up, the API, the recovery agent | what the agent was told is stored stays, through failures, reloads and kills |
| `planner/fault_planner.py` | none | `create_plan` | language model | it returns a plan, unless the answer is malformed |
| `tools/*`, `tools/mcp/*` | a registry, MCP clients | queries, restart, notification | outside systems | a success told was done, as far as the tool can know; a restart happens once, and only where it is confirmed; connections are closed |
| `messages/`, `config/`, `llm/`, `memory/short_term.py`, `scripts/`, `main.py`, `tools/mock.py` | settings | formatting, start-up, demonstration | - | - |

How they interact: a request thread runs `handle_fault`, which calls the planner
and the knowledge search, then the main agent. The agent library writes a
checkpoint of the session into the main saver at every step and runs tool calls,
several at once, each through the middlewares; a sub-agent tool does the same
with its own saver. When the run ends the session is recorded, and sessions that
are too old or too many are handed to two purge workers, who remove their
checkpoints from all savers by session id. A cleanup thread repeats this every
interval and sweeps every saver by TTL. The recovery agent's dangerous tools
stop in the confirmation middleware. `store_knowledge` writes to Chroma and
queues the write to Elasticsearch and Redis.

What is hard in it: the two halves of the saver are under one lock only in
part; the list of sessions, the queue of purges and five savers are changed by
four kinds of threads; a purge names a session when what it should remove was
written under a fault's id; a confirmation may be early, late, doubled, for
another operation or for nobody; shutdown meets runs that are still at work.
`PROJECT.json` lists these as hazards, each at its line.

## The modules

| module | models | checked by | proved in |
|---|---|---|---|
| `DangerousCall` | what confirmation promises, abstractly | (through `HumanConfirm`) | - |
| `HumanConfirm` | the confirmation middleware and the people who answer | `MC_HumanConfirm` | `HumanConfirm_proofs` |
| `AgedEntries` | dictionaries that remember when an entry was written: sessions, a saver's entries | (through the modules that extend it) | - |
| `AtomicSaver` | what a checkpoint store promises the agents, abstractly: each call at one moment | `MC_BoundedSaver` | `BoundedSaver_proofs`, `FaultSessions_proofs` |
| `BoundedSaver` | one checkpoint store used by several threads | `MC_BoundedSaver` | `BoundedSaver_proofs` |
| `FaultSessions` | the FaultAgent's sessions, purges, cleanup and shutdown | `MC_FaultSessions` | `FaultSessions_proofs` |
| `KnowledgeTiers` | knowledge in Redis, Elasticsearch and Chroma: searches and the background writes | `MC_KnowledgeTiers`, `MC_KnowledgeFreshness` | `KnowledgeTiers_proofs` |
| `RateLimit` | the token buckets of the rate limit, used by several threads | `MC_AgentRun` | `Middleware_proofs` |
| `ToolInputFix` | the repair of tool arguments and its error counter | `MC_AgentRun` | `Middleware_proofs` |
| `RunState` | what the audit log and the model switch remember of "the" run | `MC_AgentRun` | `Middleware_proofs` |
| `MessageWindow` | the sliding window and the summarization over a session | `MC_AgentRun` | `Middleware_proofs` |
| `Subsequences` | what a list comprehension with a condition leaves of a list | `MC_AgentRun`, `MC_Service` | `Subsequences_proofs` |
| `ToolRegistry`, `ToolCalls` | which agent has which tool; one call of any of them | `MC_AgentRun` | `ToolCalls_proofs` |
| `FaultPlanner`, `ApiServer` | the planner's reading of answers; the server, its stores and the process's life | `MC_Service` | `Service_proofs` |
| `LongTerm` | Chroma collections and Markdown files | `MC_Service` | `Service_proofs` |

`MC_AgentRun` and `MC_Service` are sums, not products: their components share no
variable, so a behaviour belongs to one of them, named by `part`, while the
others stay where they start. The product would have the same answers and many
more states. `ApiServer` EXTENDS `FaultPlanner` and calls `CreatePlan`;
`ToolCalls` EXTENDS `ToolRegistry`. `Middleware_proofs` and `Service_proofs`
extend these two sums, so that what they prove of a component holds of the sum
that TLC runs too.

`Subsequences` has one operator, `Pick(s, P)`: the elements of `s` at the
positions `P`, in their order, by the rank of each position. The code's loops and
comprehensions that keep some of a list are this (the summarization's split of
the history, the server's cleanup, the first matching rule); it is no recursion,
so that something can be proved of it.

`BoundedSaver` and `FaultSessions` meet at `AtomicSaver`, a store whose calls
happen at one moment each: the entries of `BoundedSaver` implement it
(`ImplementsAtomicSaver`), and `FaultSessions` asks no more of its two savers
(`SaversAtomic`). Two things lie between them. The promise is about entries
alone; what of the checkpoints behind them is deleted with an entry, `Agreement`
says, and it is little. And `purge_expired` of `AtomicSaver` may leave what expired after
the time was read, as the code's does; the sweeps of `FaultSessions` take
everything that is expired.

### HumanConfirm

`pc[c]` is where the thread of tool call `c` stands: before
`_request_confirmation` ("request"), between the check and the `pop` of
`_confirmation_results` ("pop"), in the console loop before `select` ("console")
or in `readline` or `input()` ("reading"), before the webhook's POST,
at the head of the polling loop ("poll"), after its sleep ("wake"), before the
GET ("get"), with a `ConfirmationResult` in hand ("decided"), and the ends:
the handler was called ("executed"), `PermissionError` ("denied"), `KeyError`
("failed"). One action stands for each stretch of code between two points where
another thread or a person can come in.

What people do is an append-only `log`; every place where an answer can lie (the
instance's dictionary, standard input, the webhook service's result resource, the
server's dictionary) holds the number of an act. `basis[c]` is the act that
decided call `c`. So a property can say which answer let a tool run, and whether
it was given for that tool. Time is each call's own (`elapsed`), since only
`time.time() - start_time` matters. `mode` and `stdinKind` are chosen at the
start: console, webhook or nothing configured; standard input that `select`
takes, that blocks in `input()` (where `select` raises), or that is closed.

`select` (line 211) and `readline` (line 214) are two actions, `ConsoleSelect` and
`ConsoleRead`. Between them another prompt may take the line: what then happens,
and what happens in `input()` from the start, is `ConsoleHeld`, time that passes in
a read without a timeout. It is counted up to `Overdue`, the first moment at which
no other wait can still go on, which is as much as a property can tell apart.
So `WaitBounded` is about every step in which time passes outside such a read,
`AsksSettle` about every call that does not stay in one for ever, and what the
prompt itself says of its timeout is `PromptTimesOut`, which TLC refutes.

External: the webhook service (it publishes any result for an operation it was
told of) and the operator (types any line, in time or late).

### BoundedSaver

`turn` is the order of the OrderedDict (the number of the write that moved the
thread to its end), `stamp` its value, `stored` the threads that have at least
one checkpoint in the parent class's storage. A `put` is `RecordWrite` (the
section under the lock, evictions included), one `DeleteStorage` per evicted
thread, then `SuperPut`; `purge` and `purge_expired` are a locked section and
then deletions, and `purge_expired` reads its cutoff before the lock. `overlapped`
is a history variable: the threads two workers were inside the saver for at the
same time.

What a deletion removes is decided by line 73, which compares the thread id with
`k[0]` of each key of the storage. In the library that `requirements.txt` asks for
(line 11) the keys are the thread ids, so `k[0]` is an id's first character:
`FirstOfKey`. `Matching(t)` is what a deletion for `t` finds: nothing, if `t` has
several characters, and every thread that begins with it, if it has one. The run
has an id of one character, one that begins with it, and one that does neither,
so every property of the saver is checked with deletions that find nothing, what
they should, and more. `Agreement` is what is left: a thread with an entry has its
checkpoints unless a deletion for its first character took them; and only of a
thread whose id is one character do they go with the entry, outside races. The ids
this program makes are longer, so their checkpoints are never deleted: the finding
at line 73. `LruSound`, `SweepsOnlyExpired` and the refinement are about entries and
hold in any case.

### FaultSessions

`active`, `main` and `sub` give the age of a session's entry or a saver's thread
(0 when written, one more with each `Tick`, `Ttl + 1` for everything older), so
that the model is finite without a bound on time. A call of `handle_fault`
starts, writes main checkpoints (`MainPut`) and a sub-agent's (`SubPut`) any
number of times, and ends in `Record` or `Fail`. `Drop` is
`_cleanup_expired_sessions`, part of every action whose code calls it. The
executor's queue counts the purges per id; `job` and `stage` say where each
worker, or the thread that serves `clear_session`, stands in
`_purge_checkpointer_thread`. `phase` is how far `_shutdown` has come: event
set, executor shut down, tasks waited for; when it falls between two `submit`
calls the second raises, and `left` (a history variable) remembers the sessions
whose entries were then given up. `main` and `sub` are entries of `_lru`: that one
leaves says that its place is free, not that its checkpoints are deleted, which
`BoundedSaver` shows they are not. `MainEntriesAccountedFor` and `ExpiredEntriesGo`
claim no more. One saver `sub` stands for those of the analysis,
recovery and notification agents, which are all keyed by fault id; the monitor
agent's thread ids are unique, no purge names them, and its saver is
`BoundedSaver` with its limit and TTL alone.

### KnowledgeTiers

`chroma`, `es` and `cached` are the documents in the three tiers, `hits` and
`hot` the Redis counters and sorted sets (score 0: not a member). A search is
`LookUp` (the hot ids of the service and alert type), `Fetch` (their documents)
and `SearchEs`; whichever answers queues a task that counts the documents, and if
none does Chroma answers and nothing changes. `tasks` is the FIFO queue of
`_write_executor`; a thread that takes a document goes through `Judge`,
`IndexDoc`, `PutDoc`, and the scan and the deletion of the hot sets, one that
takes hits does `Count` and, at the threshold, `Promote` for each document. Each
of these is one or two calls to an outside store, and with `Outages` each may
fail, which the code logs and passes over: a search then goes on to the next
tier, a write to the next store. Keys of Redis expire at any time, which covers
every TTL; a crash loses the queue and what the threads were doing, not the
stores. `Best` leaves open which of equally scored documents remain, and
`SearchEs` which of the matching documents are relevant enough. All documents
are of effectiveness "confirmed", the only ones Elasticsearch finds.
`served` counts the answers a document was in, `unjudged` holds the documents a
failing judge let through (line 144 of judge.py); both are history variables.
`Safe` is what `_hot_key` makes of a service name, so that a name with a colon or
a space is another one in the key: `OwnDocsHot` is about the names that are their
own keys, and the invalidation misses the others.

### RateLimit

A minute has `Minute` ticks and a token `Minute` units, so that a bucket of rpm
calls gains rpm units a tick and no fraction is needed. `tokens[b]` is what the
bucket held at its last refill and `idle[b]` how long ago that was; every section
under the bucket's lock is one action: `Check` (`try_acquire`), `Refused` (the
estimate of `time_until_available`, which refills once more, then the strategy),
`Retry` (one round of `wait_and_acquire`). `todo[c]` is the sequence of buckets a
call has still to pass: all tools, then its own. A model call is the same with
one bucket (`before_model` repeats the code of `_check_bucket`), so the run has
one kind with two. The observer's window (`watched`, `seen`, `granted`) counts
what a bucket gives out; it can be opened at any moment, so `RateBound` speaks of
every window. The statistics are left out.

### ToolInputFix

The count of errors per tool is read under the lock and acted on later, so
`ReadCount` and `RepairAndValidate` are two actions; any run's `before_agent`
(`NewRun`) clears all counts at any moment. An argument is its type and the set
of types its text can be converted to; `FixArgs` is the composition of the
code's three passes (extra fields, conversion, nulls), and `Valid` is the
schema's own validation, which converts too (external: pydantic). The instance's
schema is richer than those of the main agent's tools, which take one string: it
has a nullable required number and a list of strings, for which
`_get_field_type` finds "str".

### RunState

`faultId`, `modelCallCount`, `callIndex` and `currentModelName` are attributes of
instances that all runs of the main agent share; `model[j]` belongs to run j, as
`runtime.model` does. The hooks are actions in the order the agent calls them. A
history variable says which run was alone from its start, and the two properties
are about those: they would be false of overlapping runs, which is two of the
findings. `FaultFound` is what the audit log's `before_agent` finds: the run's own
fault if the configuration has an attribute `configurable` (`Configurable`), else
the id that the attribute of the instance already holds. The agent is invoked with
a dict (fault_agent.py:222), which has none, so the run has `Configurable` FALSE,
where a lone record names no fault; the theorem covers both.

### MessageWindow

Messages are numbered as they are said; a summary carries the set of numbers it
stands for (`of`), and the set of those whose text its maker was shown whole
(`text`). The two differ: `_messages_to_text` skips messages without text, such as
answers that only call tools, and cuts those over 2000 characters. `Slide` and
`DoSummarize` rewrite the list before each model call with the code's thresholds,
and a summary that fails leaves it alone. So `NothingLost` can say that after any
number of compressions each message is still there or has one summary in its
place, in order, and that a short text was shown to that summary's maker. Results
without the call they answer can be left at the front by either window: the model
shows it, no property forbids it. The code reads `state.messages` as an attribute.
`stateKind` says whether there is one: handed a dict, as the library that
`requirements.txt` asks for hands it, `BeforeModel` returns at once in both
windows, and `CallFits` says what the model is then given: everything.

### ToolRegistry, ToolCalls

The registry is operators: the groups, the MCP tools each server brings, and the
agents, each of which is given one group (the groups "all" and "mcp" are given to
nobody). A tool is a plan of operations with traits - it may open a connection,
be optional, be caught, act on the world - and the failures `with_retry` repeats,
which differ: ssh and HTTP connection errors, everything for the database, none
of redis's own. One call walks through its plan; every operation may fail, an
action may have happened though its answer failed, and text in place of JSON ends
a request as a success (`OddAnswer`). The check after a restart may find that
nothing runs (`NotRunning`); its verdict goes into the result unread. Both set
`doubt`, and `SuccessIsEarned` says for each kind of tool what a success stands
for: the restart command was run once, each channel that is counted was called,
and a deployment's restart or a direct message was made unless the answer was in
doubt. That the service runs, no success says. Mocks replace the built-in tools and not
the MCP tools. `Confirmed` assumes `human_confirm_enabled`, the default: without
it nothing is confirmed, as its description says.

### FaultPlanner, ApiServer

An answer of the model provider is its shape and three values; `Infer`, `Get`
and `Raises` say which answers give the defaults, which are taken as they are,
and which make `create_plan` raise (a null where a string is expected). In
`ApiServer` a run in synchronous mode holds `loop` until it ends; one in
asynchronous mode goes through "queued", "planned", "stamped" (the time is put on
the result before the lock) and "stored". A store is the sequence of its entries
by time of stamp, ages are counted to one past the TTL. `life`, `agent`, `held`
and `cleaner` are the process: the agent's cleanup thread is no daemon, and
lifespan shuts down only the agent that its startup made. What happens in a run
is `FaultSessions`'s subject.

### LongTerm

`entries` are documents under their ids: "dynamic" for one that was stored at run
time, "file" for one that a load found, so that one document can be there twice.
A store is `AddExperience`, then `SaveToMarkdown`; a load goes through the
categories by listing, perhaps deleting, and adding, each a step that may fail
and between which the process may be killed or another process may store. `wiped`
remembers what a forced load deleted and no load has added since: a lesson stored
between the listing and the deletion stays there until the next load.
Whatever the search of `FormatContext` gives is bounded per category.

## The runs

| run | bounds | states | shows |
|---|---|---|---|
| `human_confirm` | 2 calls, 2 ids, 1 dangerous tool of 2, timeout 2, poll 1, GET up to 1, 2 acts | 213,269 | types; `ExecutedOnlyIfApproved`; `OneCallPerAnswer`; `WaitBounded`; `AsksSettle`; the refinement of `DangerousCall` |
| `confirm_itself` | the same | - | finding: a console answer to another prompt lets a tool run |
| `api_decision` | the same | - | finding: a decision posted to the API is not heard |
| `prompt_timeout` | the same | - | finding: a prompt stays in `readline` past its timeout |
| `saver` | 2 workers, 3 threads (one id of one character, one that begins with it), limit 2, TTL 1, 4 writes, time 2; symmetry | 447,871 | `LruSound`; `Agreement`; `SweepsOnlyExpired`; the refinement of `AtomicSaver` |
| `saver_orphan` | 2 workers, 1 thread with an id of one character, 3 writes | - | finding: checkpoints that no entry tracks, though deletions find them |
| `sessions` | 2 runs, 2 purge workers, 3 ids, limit 1 (2 sessions), TTL 0, 3 calls; symmetry | 362,199 | types; `MainEntriesAccountedFor`; `SessionsBounded`; `ClosedIsClean` |
| `sessions_liveness` | 1 run, 1 purge worker, 2 ids, 2 calls, sub-agents on | 34,232 | `ShutdownCompletes`; `ExpiredEntriesGo` |
| `knowledge` | 2 documents (1 good, 1 of service "unknown"), 2 services, 1 alert type, 1 searching and 2 writing threads, threshold 2, hot sets of 1, 3 searches, outages, crashes; symmetry | 353,149 | types; `HotWasServed`; `OwnDocsHot`; `FastTiersJudged` |
| `stale_hot` | 2 documents of 1 service, hot sets of 2, 2 searches, no outages | - | finding: an old document hot again after the invalidation |
| `agent_run` | rate: 2 threads, buckets of 2 and 1 a minute of 2 ticks, wait 2; repair: 2 threads, 1 tool, 9 inputs, 2 retries; runs: 2 threads, 2 faults, 2 rules, 2 model calls; windows: 13 messages, short, long and without text, limit 5, recent 3, state an object or a dict; tools: all 21, real with all servers and mocked with one, 3 attempts, 5 channel lists | 139,456 | types; `RateBound`, `EmptyOnlyIfSpent`, `WaitsEnd`; `ErrorsBounded`, `RepairDoesNoHarm`; `LoneRunAudited`, `LoneRunModel`; `NothingLost`, `CallFits`; `RestartsAreConfirmed`, `ActsOnce`, `SuccessIsEarned`, `NothingLeftOpen` |
| `service` | server: 2 requests, 2 ids, 2 operations, stores of 1, TTLs 2 and 1, 3 answers, 2 service files; knowledge: 1 lesson, 1 manual, 2 categories | 197,228 | types; `StoresBounded`, `DroppedWereOld`, `ResultAccounted`, `ExitsIfHeld`; `KnowledgeSurvives` |

Why the bounds are enough for what is asked: two calls are what it takes to race
for one answer, and two acts what it takes for a late answer and a second one;
with a timeout of two polls a decision can come before, between and after them.
Three conversation threads over a limit of two give an eviction whose victim is
not the only candidate, and two workers every race for one thread; four writes
reach an eviction, its deletion and a rewrite. Three sessions over a limit of two
(and of one in the saver) give a dropped session that another run continues.
A hot set of one with two documents is full and overflows; three searches over a
threshold of two count past it, before and after the counter expires; two writing
threads race counts, promotions and an invalidation.
Two threads at a bucket that gains one token a minute take each other's token;
thirteen messages over a limit of five compress at least three times; stores of
one overflow with the second entry, and the two ids can be one; a collection with
one document stored and one loaded holds one of them under two ids.
With TTL 0 one tick makes whatever is not written again expired.
Deadlock is not checked: people may stay silent, workers may have nothing to do,
and the bounded counters end.

Fairness. A thread that can go on does (`WF` of each tool call's thread, of each
purge worker, of the cleanup thread, of the rest of `_shutdown` once called, and
of time): these are operating-system threads that wait for nothing but locks held
for a moment. Nobody has to answer, call, clear or shut down: no fairness is
assumed of people, requests or runs. A prompt in `readline` or `input()` waits for
a line that nobody has to type, and the code has no timeout there: `AsksSettle`
lets it stay, and promises the end to every other call. The `_shutdown` property uses
that shutting the executor down waits for queued tasks and that the join of the
cleanup thread has a timeout of its own. `WaitsEnd` assumes that time passes and
that each calling thread goes on. `ExitsIfHeld` assumes that each run's thread or
coroutine goes on, that lifespan does after its yield, and that the interpreter
exits once nothing holds it; it says nothing of a server whose agent was made at
a request, nor of the handle command: both never end (a finding).

## What is proved

The theorems hold for every value of the constants under the named assumptions
of the modules (`ConfirmAssumption`, `SaverAssumption`, `SessionsAssumption`,
`TiersAssumption`, `RateAssumption`, `FixAssumption`, `RulesAssumption`,
`CallsAssumption`, `WindowAssumption`, `PlannerAssumption`, `ServerAssumption`,
`LongTermAssumption`: bounds are naturals, limits positive, sets
finite where they are counted, the name of a key is its own name in keys). Five
of them say more of the code:

- `FixAssumption`: a value that converts to another type is text or a number,
  and converts to an int, a float, a bool or a dict, since those are the cases of
  `_coerce_value` (lines 285-329 of tool_input_fix.py); the type a field is
  repaired to is its own, but for a list or a dict, of whose annotation
  `_get_field_type` (line 254) may take an argument.
- `LongTermAssumption`: the categories are some, and distinct: they are the keys
  of a dictionary literal (lines 76-85 of long_term.py).
- `SaverAssumption`: a first character that is itself the id of a thread begins
  with itself.
- `WindowAssumption`: a message has no text, a short one or a long one, fixed when
  it is said; states are objects or dicts, any of them or both.
- `CallsAssumption`: the settings name servers that exist, and the channels of a
  notification are those that notification.py knows, or unknown ones.

- `HumanConfirm_proofs`: the inductive invariant is the type invariant with
  `StoredAnswers` (what is stored for a call to find is an act of the right kind,
  and by id of the right operation), `Decisions` (a call is decided by such an
  act, or by none and then never approved) and `SpentAnswers` (what decided a
  call is not there to be found again: this is what a double use would break).
  `ExecutedOnlyIfApproved` follows from the second, `OneCallPerAnswer` needs the
  third, and the refinement of `DangerousCall` maps every step to an abstract
  step or a stutter under the same invariant. `WaitBounded` is an action
  property: it needs the bound on `elapsed` at each `pc` but "reading".
- `BoundedSaver_proofs`: `LruSound` needs that every turn is at most the number
  of writes; `Agreement` is proved with `OnTheirWay`, which says where the
  threads that are being written or deleted stand, for threads outside
  `overlapped`; a deletion touches a thread only if its id is that thread's first
  character; `SweepsOnlyExpired` needs `Cutoffs` (no cutoff is ahead of its
  time). The refinement of `AtomicSaver` maps an entry to its age (`AgeOf`). The
  locked section of each method is the abstract call, and the deletions that
  follow it are stutters. An eviction goes by the order of `_lru`, the abstract
  one by age: `LruSound` makes them the same. A sweep takes what is older than a
  cutoff read earlier: by `Cutoffs` that is part of what is expired.
- `FaultSessions_proofs`: types, `SessionsBounded` (from the finiteness of
  `Ids` and what `Excess` leaves), `ClosedIsClean` and `MainEntriesAccountedFor`,
  which is inductive with the types. `SaversAreAtomic` goes through the actions:
  each is a call of `AtomicSaver` for the main saver and for the sub-agents'
  saver, or leaves it alone.
- `KnowledgeTiers_proofs`: the types come with what a writer's step says of its
  task (`Fine`). `OwnDocsHot` and `FastTiersJudged` need `Attributed`: whatever
  waits to be counted - read by a search, in the queue, in a writer's hands - is
  indexed and belongs to the service it will be counted for. `ScoresAreEarned`
  needs a sum: the hits of a document that are recorded, queued and in hand are
  at most the answers it was in (`HitsOwed`), by cardinalities of the queue's
  indices and of the writers; taking a task shifts the queue, which an injection
  between the indices before and after shows to lose exactly the task taken.

- `Middleware_proofs`, rate limit: `Balanced` says that what the watched bucket gave out in the
  observer's window and what it holds are together at least what it gained since
  the window was opened, and at most a full bucket more. The right half gives
  `RateBound`, the left half `EmptyOnlyIfSpent`. A take moves a token from one
  side of the sum to the other, a failed try stores what the refill made of the
  tokens, and a tick adds `rpm` units or fills the bucket (`HeldFacts`).
- `Middleware_proofs`, runs: for `ErrorsBounded`, errors counted and threads that may
  still add one (`Busy`, past the reading of the count) are together less than
  the limit and the number of threads. For `LoneRunAudited` and `LoneRunModel`,
  while a run has been alone since it began, all other runs are out and the
  attributes are its own (`Own`): what its records name as
  its fault, its number of calls, and either no model name or that of the model it has
  (`FaultNamed` is its fault, or UNKNOWN where the hook cannot find one).
- `ToolCalls_proofs`: each of the 21 plans is `Sound`: it acts at most once, not
  at all if the tool is repeated, and opens its connection first. So a call has
  acted or may still act, never both (`CallsActOnce`), an attempt holds at most one
  connection (`CallsClose`), and of the groups only recovery's has a tool that
  restarts, for every subset of the servers (`RestartsNeedConfirmation`).
  For `SuccessIsEarned` the invariant (`EarnInv`) says of each kind of call
  what its end is judged by: a restart is made or still in the plan, which is
  made of restart operations only (`Restarted`); a notification has acted at
  least once for each channel that is counted as delivered (`Notified`); a
  direct call has acted, or still will, or got an answer in doubt (`Answered`).
- `Middleware_proofs`, repair: a field is looked at alone. The three passes are
  each a function of a field's value (`StripExtra` and `DropNulls` leave fields
  out, `Coerce` changes them), a converted value is not converted again,
  and what the schema accepted it still accepts (`CoercedOnce`): a conversion is to
  the field's own type, or the field is a list or a dict, and what it accepts is
  one itself and converts to nothing. That the
  arguments of a thread that repairs are ones that came in is `Arrived`.
- `Middleware_proofs`, windows: `Arranged(k)` says that the history is `k`
  summaries and then messages, of which the newest stand at the end in their
  order (`Newest`), and that the summaries partition what is gone, in order, with
  the short texts of it shown (`Summed`). Under a dict the history is all that was
  said. Saying a message, sliding and summarizing each keep it for some
  `k`; `NothingLost` and `CallFits` follow from it.
- `Subsequences_proofs`: `Rank` is a bijection from the positions to
  `1 .. Cardinality(positions)` that keeps their order, so `Pick` has that length,
  its elements are those at the positions, in their order, and to pick an interval
  is to take a part of the sequence.
- `Service_proofs`, server: a store is ordered by age and has no id twice
  (`Ordered`). `Newest`, `Cleanup`, `Put` and the passing of time each keep it, and
  `Newest` drops only what is older than what it keeps. `ServerInv` adds
  `Accounted`: a stored run's id is in the store or among the dropped.
  `OldResultsGoFirst` is an action property and takes the two together: what is
  missing after a step was dropped by a cleanup, for its age or for room.
- `Service_proofs`, knowledge: from the moment a lesson is in its collection, a
  step that takes it out of there puts it among the wiped, and only a step that
  makes it findable takes it from those (`Kept`). For the types, a load has a
  category left to do and has read nothing before it lists (`Loads`); and as the
  categories are distinct, what a search gives of one of them is at most its
  share, by the cardinality of what `BestEntries` chooses.
- `AgentRunTypes` and `ServiceTypes` prove the type invariants of the two sums:
  each step of the sum is a step of one component and a stutter of the others.

Only model-checked: the liveness properties (`AsksSettle`, `ShutdownCompletes`,
`ExpiredEntriesGo`, `WaitsEnd`, `ExitsIfHeld`), which depend on fairness and on
ENABLED. Every invariant, every action property and both refinements of the
passing runs are proved. The types of `BoundedSaver` and `SaversAtomic` are
theorems only: the first is part of the invariant under the refinement that the
run checks, the second starts from `Init`, and the runs of `FaultSessions` start
with the first call recorded. A finding
with a run is a counterexample that TLC produces. The findings without one were
met while translating: they are facts of single lines, or are shown by the model
without a property of their own (a run that overlaps another, a document under
two ids, a command that never reaches "exited").

## The plan

1. Done: confirmation, the checkpoint store, the sessions and the knowledge
   tiers, with their proofs.
2. Done: the middlewares of the main agent, the tools, the server with the
   planner, and the long-term store, model-checked in two runs.
3. Done: proofs of every safety property of the runs, the type invariants
   included.
4. Done: `AtomicSaver` between `BoundedSaver` and `FaultSessions`.
5. Open, composition: `ApiServer` with a run that waits for a confirmation.

## Not modelled, and why

- What language models answer, beyond its shape: it is data to the program.
- The texts: prompts, notification texts (`messages/handler.py`), log lines, the
  summaries the tools make of answers, the mocks' made-up numbers.
- `config/settings.py`, which is read once; the settings that matter are
  CONSTANTS or choices of Init.
- `memory/short_term.py`, which no module uses.
- Statistics of the middlewares, which are only logged.
- The scheduling of several tool calls of one step, and what the history keeps
  when one of them raises: the agent library's, whose source is not here.
- Of the model switch: rules by agent name and by a condition of the caller's,
  `default_model` (not set by `fault_agent.py`), the cache of clients.
- Tokens, CORS and health checks of the API, and the test command.

`PROJECT.json` says it for each component.
