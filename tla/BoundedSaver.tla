----------------------------- MODULE BoundedSaver -----------------------------
(***************************************************************************)
(* memory/bounded_saver.py: one BoundedInMemorySaver, the checkpoint store *)
(* of an agent, used by several OS threads (requests, the purge executor,  *)
(* the periodic cleanup). Two things are kept for a conversation thread:   *)
(* its entry in the OrderedDict `_lru`, guarded by `_bsaver_lock`, and its *)
(* checkpoints in the parent class's storage, which are written and        *)
(* deleted after the lock is released.                                     *)
(*                                                                         *)
(* The OrderedDict is `turn`: 0 for a thread that has no entry, else the   *)
(* number of the write that moved it to the end; `stamp` is its value.     *)
(* The storage is the set of threads with at least one checkpoint in it.   *)
(* The parent class keys it by the thread id, a string, and _delete_storage *)
(* compares an id with `k[0]` of each key: the key's first character.      *)
(* `overlapped` is not in the code: the threads for which two workers have *)
(* been inside the saver at the same time.                                 *)
(***************************************************************************)
EXTENDS Integers, FiniteSets

CONSTANTS
    Workers,         \* OS threads that use the saver
    Threads,         \* conversation threads (thread_id)
    FirstOfKey,      \* k[0] of the storage key of each thread
    MaxThreads,      \* max_threads
    Ttl,             \* ttl_seconds
    MaxWrites,       \* bound on the writes of one behaviour
    MaxClock         \* bound on time

ASSUME SaverAssumption ==
    /\ IsFiniteSet(Threads)
    \* the first character of an id may be an id, whose first is then itself
    /\ \A t \in Threads :
        FirstOfKey[t] \in Threads => FirstOfKey[FirstOfKey[t]] = FirstOfKey[t]
    /\ MaxThreads \in Nat \ {0}
    /\ Ttl \in Nat
    /\ MaxWrites \in Nat
    /\ MaxClock \in Nat

VARIABLES
    clock, writes,   \* time, and how many writes there have been
    turn, stamp,     \* _lru: its order and its values
    stored,          \* the parent's storage
    pc,              \* where each worker stands in a method of the saver
    putting,         \* the thread a worker's put is for, as a set: {} outside put
    todo,            \* threads a worker has dropped from _lru and not yet deleted
    cutoff,          \* a worker's cutoff in purge_expired
    overlapped       \* threads two workers were inside the saver for

lru == <<turn, stamp>>
vars == <<clock, writes, lru, stored, pc, putting, todo, cutoff, overlapped>>

\* "put": before super().put. "cutoff": before purge_expired takes the lock.
\* "delete": in the loop that follows the lock in purge and purge_expired.
PCs == {"idle", "put", "cutoff", "delete"}

\* Types.
TypeOK ==
    /\ clock \in Nat /\ writes \in Nat
    /\ turn \in [Threads -> 0 .. writes]
    /\ stamp \in [Threads -> 0 .. clock]
    /\ stored \subseteq Threads
    /\ pc \in [Workers -> PCs]
    /\ putting \in [Workers -> SUBSET Threads]
    /\ todo \in [Workers -> SUBSET Threads]
    /\ cutoff \in [Workers -> Int]
    /\ overlapped \subseteq Threads

Tracked == {t \in Threads : turn[t] # 0}

\* The threads a worker has begun to write or to delete.
Busy(w) == todo[w] \cup putting[w]
Shared == {t \in Threads : \E v, w \in Workers : v # w /\ t \in Busy(v) /\ t \in Busy(w)}
Watch == overlapped' = overlapped \cup Shared'

Init ==
    /\ clock = 0 /\ writes = 0
    /\ turn = [t \in Threads |-> 0]
    /\ stamp = [t \in Threads |-> 0]
    /\ stored = {}
    /\ pc = [w \in Workers |-> "idle"]
    /\ putting = [w \in Workers |-> {}]
    /\ todo = [w \in Workers |-> {}]
    /\ cutoff = [w \in Workers |-> 0]
    /\ overlapped = {}

------------------------------------------------------------------------------
Goto(w, label) == pc' = [pc EXCEPT ![w] = label]

\* The entries of E leave _lru; their checkpoints are w's to delete.
Drop(w, E) == todo' = [todo EXCEPT ![w] = E]
Without(f, E) == [t \in Threads |-> IF t \in E THEN 0 ELSE f[t]]
Leave(E) == turn' = Without(turn, E) /\ stamp' = Without(stamp, E)

\* The section of _record_write under the lock: the write of t, with the value
\* now, evicts the entries E so that MaxThreads remain.
Write(w, t, now, E) ==
    /\ writes' = writes + 1
    /\ turn' = Without([turn EXCEPT ![t] = writes + 1], E)
    /\ stamp' = Without([stamp EXCEPT ![t] = now], E)
    /\ putting' = [putting EXCEPT ![w] = {t}]
    /\ Goto(w, "put")
    /\ Drop(w, E)
    /\ UNCHANGED <<clock, stored, cutoff>>

\* As Evicted, but while there are as many as the limit.
EvictedOneMore(t, E) ==
    LET entries == Tracked \cup {t} IN
    /\ E \subseteq entries \ {t}
    /\ Cardinality(entries \ E) < MaxThreads
    /\ E # {} => Cardinality(entries \ E) = MaxThreads - 1
    /\ \A e \in E, k \in entries \ (E \cup {t}) : turn[e] < turn[k]

\* Eviction goes from the head, the oldest first, while there are too many.
Evicted(t, E) ==
    LET entries == Tracked \cup {t} IN
    /\ E \subseteq entries \ {t}
    /\ Cardinality(entries \ E) <= MaxThreads
    /\ E # {} => Cardinality(entries \ E) = MaxThreads
    /\ \A e \in E, k \in entries \ (E \cup {t}) : turn[e] < turn[k]

\* As RecordWrite, but the time is read before the lock is waited for.
RecordWriteEarlyStamp(w, t) ==
    /\ pc[w] = "idle" /\ writes < MaxWrites
    /\ \E E \in SUBSET Threads, now \in 0 .. clock :
        Evicted(t, E) /\ Write(w, t, now, E)
    /\ Watch

\* put: _record_write, before its deletions and super().put.
RecordWrite(w, t) ==
    /\ pc[w] = "idle" /\ writes < MaxWrites
    /\ \E E \in SUBSET Threads : Evicted(t, E) /\ Write(w, t, clock, E)
    /\ Watch

\* The keys that _delete_storage finds for the thread id t: none for an id of
\* more than one character, else all that begin with it.
Matching(t) == {s \in Threads : FirstOfKey[s] = t}

\* One _delete_storage of the loops that follow the locked sections.
DeleteStorage(w, t) ==
    /\ t \in todo[w]
    /\ stored' = stored \ Matching(t)
    /\ Drop(w, todo[w] \ {t})
    /\ Goto(w, IF pc[w] = "delete" /\ todo[w] = {t} THEN "idle" ELSE pc[w])
    /\ UNCHANGED <<clock, writes, lru, putting, cutoff>>
    /\ Watch

\* As SuperPut, but the evicted threads are left in the storage.
SuperPutKeepingEvicted(w) ==
    /\ pc[w] = "put"
    /\ stored' = stored \cup putting[w]
    /\ putting' = [putting EXCEPT ![w] = {}]
    /\ Goto(w, "idle") /\ Drop(w, {})
    /\ UNCHANGED <<clock, writes, lru, cutoff>>
    /\ Watch

\* super().put, once what was evicted is deleted.
SuperPut(w) ==
    /\ pc[w] = "put" /\ todo[w] = {}
    /\ stored' = stored \cup putting[w]
    /\ putting' = [putting EXCEPT ![w] = {}]
    /\ Goto(w, "idle")
    /\ UNCHANGED <<clock, writes, lru, todo, cutoff>>
    /\ Watch

\* purge: the entry goes if there is one; the storage is looked at in any case.
Purge(w, t) ==
    /\ pc[w] = "idle"
    /\ Leave({t})
    /\ Goto(w, "delete") /\ Drop(w, {t})
    /\ UNCHANGED <<clock, writes, stored, putting, cutoff>>
    /\ Watch

\* purge_expired reads the time, ...
ReadCutoff(w) ==
    /\ pc[w] = "idle"
    /\ cutoff' = [cutoff EXCEPT ![w] = clock - Ttl]
    /\ Goto(w, "cutoff")
    /\ UNCHANGED <<clock, writes, lru, stored, putting, todo>>
    /\ Watch

\* ... and, when it has the lock, drops the entries older than its cutoff.
Expired(w) == {t \in Tracked : stamp[t] < cutoff[w]}

\* As Sweep, but a write at the cutoff or a little later counts as expired.
SweepTooMuch(w) ==
    /\ pc[w] = "cutoff"
    /\ LET E == {t \in Tracked : stamp[t] <= cutoff[w] + 1} IN
        /\ Leave(E)
        /\ Drop(w, E)
        /\ Goto(w, IF E = {} THEN "idle" ELSE "delete")
    /\ cutoff' = [cutoff EXCEPT ![w] = 0]
    /\ UNCHANGED <<clock, writes, stored, putting>>
    /\ Watch

Sweep(w) ==
    /\ pc[w] = "cutoff"
    /\ Leave(Expired(w))
    /\ Drop(w, Expired(w))
    /\ Goto(w, IF Expired(w) = {} THEN "idle" ELSE "delete")
    /\ cutoff' = [cutoff EXCEPT ![w] = 0]
    /\ UNCHANGED <<clock, writes, stored, putting>>
    /\ Watch

Worker(w) ==
    \/ SuperPut(w) \/ ReadCutoff(w) \/ Sweep(w)
    \/ \E t \in Threads : RecordWrite(w, t) \/ DeleteStorage(w, t) \/ Purge(w, t)

Tick ==
    /\ clock < MaxClock
    /\ clock' = clock + 1
    /\ UNCHANGED <<writes, lru, stored, pc, putting, todo, cutoff, overlapped>>

Next == Tick \/ \E w \in Workers : Worker(w)

Spec == Init /\ [][Next]_vars

------------------------------------------------------------------------------
(* Properties                                                               *)

\* _lru never holds more than max_threads entries, and the order it evicts in
\* is the order purge_expired expires in: an entry nearer the head is no newer.
LruSound ==
    /\ Cardinality(Tracked) <= MaxThreads
    /\ \A s, t \in Tracked : turn[s] < turn[t] => stamp[s] <= stamp[t]
    /\ \A s, t \in Tracked : turn[s] = turn[t] => s = t

Writing(t) == \E w \in Workers : t \in putting[w]
Deleting(t) == \E w \in Workers : t \in todo[w]

\* What of the two halves' agreement the comparison of k[0] leaves. A thread with
\* an entry has its checkpoints, whatever the workers do, unless its first
\* character is the id of a thread: that one's deletions take them, and so does
\* a deletion of its own that is late. Only of a thread whose id is one character
\* are the checkpoints deleted with the entry, and only if no two workers were
\* busy with it at once.
Agreement ==
    /\ \A t \in Threads : t \in Tracked /\ ~Writing(t) =>
        t \in stored \/ FirstOfKey[t] \in Threads \ {t} \/ t \in overlapped \cap Matching(t)
    /\ \A t \in Threads \ overlapped : t \in stored /\ FirstOfKey[t] = t =>
        t \in Tracked \/ Deleting(t)

\* However long purge_expired waits for the lock with the time it has read, it
\* drops no thread that was written in the last ttl_seconds.
SweepsOnlyExpired ==
    [][\A w \in Workers, t \in Threads :
        pc[w] = "cutoff" /\ pc'[w] # "cutoff" /\ turn[t] # 0 /\ turn'[t] = 0
            => clock - stamp[t] > Ttl]_vars

\* Although a write, an eviction and a sweep are several steps each, and time
\* is read before the lock or under it: the entries change as those of a saver
\* whose calls happen at one moment. A write leaves its entry the youngest, what
\* it evicts is the oldest and no more than must go, and no sweep takes what is
\* younger than the TTL.
AgeOf ==
    [t \in Threads |-> IF t \notin Tracked THEN -1
                       ELSE IF clock - stamp[t] > Ttl THEN Ttl + 1 ELSE clock - stamp[t]]
Atomic == INSTANCE AtomicSaver WITH Ids <- Threads, ages <- AgeOf
ImplementsAtomicSaver == Atomic!Spec

\* The inductive strengthening: what is on its way is of threads without an
\* entry (deletions) or with one (writes), and no cutoff is ahead of its time.
OnTheirWay ==
    /\ \A t \in Threads \ overlapped :
        /\ Deleting(t) => t \notin Tracked
        /\ Writing(t) => t \in Tracked
    /\ Shared \subseteq overlapped
    /\ \A w \in Workers : todo[w] # {} => pc[w] \in {"put", "delete"}
    /\ \A w \in Workers : putting[w] # {} => pc[w] = "put"
    /\ \A w \in Workers : putting[w] \cap todo[w] = {}
Cutoffs == \A w \in Workers : pc[w] = "cutoff" => cutoff[w] <= clock - Ttl

\* What purge_expired says of itself (all threads not written for the TTL are
\* cleared): between two calls, checkpoints are of threads that the saver
\* tracks. Not so of any thread with an id of several characters; and of one
\* with a single character, a purge that falls between _record_write and
\* super().put leaves some that neither the limit nor the TTL will ever reach.
NoOrphans == (\A w \in Workers : pc[w] = "idle") => stored \subseteq Tracked

==============================================================================
